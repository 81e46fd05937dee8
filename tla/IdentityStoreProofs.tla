------------------------ MODULE IdentityStoreProofs ------------------------
(***************************************************************************)
(* Theorems about IdentityStore, for any users, teams, requests in flight, *)
(* workload and consistent initial database.                               *)
(***************************************************************************)
EXTENDS IdentityStore, TLAPS

\* A transaction that has begun serves a request of the workload.
Busy == \A x \in Tx : pc[x] # "idle" => op[x] \in Ops

Typed == TypeOK /\ Busy

\* The fields of a request.
LEMMA OpFields ==
  ASSUME NEW o \in Ops
  PROVE  /\ o \in OpType /\ o # None
         /\ o.kind \in Kinds /\ o.actor \in Users /\ o.target \in Users /\ o.team \in Teams
         /\ o.role \in {"member", "admin"} /\ o.disabled \in BOOLEAN
         /\ o.assign \in [Teams -> TeamRole]
<1>1. o \in OpType BY OpsAssumption
<1>2. o # None BY <1>1, NoneAssumption
<1> QED BY <1>1, <1>2 DEF OpType

LEMMA InitTyped == Init => Typed
<1> SUFFICES ASSUME Init PROVE Typed OBVIOUS
<1>1. PICK d \in Seeds : /\ sysRole = d.sysRole /\ disabled = d.disabled
                         /\ team = d.team /\ member = d.member /\ createdBy = d.createdBy
  BY DEF Init
<1>2. d \in Database BY SeedsAssumption
<1>3. TypeOK BY <1>1, <1>2 DEF Init, TypeOK, Database, PCs
<1> QED BY <1>3 DEF Typed, Busy, Init

\* COMMIT and ROLLBACK keep the types of everything but the data.
LEMMA FinishTyped ==
  ASSUME NEW x \in Tx, Typed, Finish(x),
         sysRole' \in [Users -> SystemRole], disabled' \in [Users -> BOOLEAN],
         team' \in [Teams -> TeamState], member' \in [Teams -> [Users -> TeamRole]],
         createdBy' \in [Refs -> Users \cup {None}]
  PROVE  Typed'
<1>1. TypeOK' BY DEF Typed, TypeOK, Finish, PCs
<1>2. Busy' BY DEF Typed, TypeOK, Busy, Finish
<1> QED BY <1>1, <1>2 DEF Typed

LEMMA FailTyped == ASSUME NEW x \in Tx, Typed, Fail(x) PROVE Typed'
  BY FinishTyped DEF Fail, db, Typed, TypeOK

LEMMA AdvanceTyped ==
  ASSUME NEW x \in Tx, Typed, NEW p \in PCs \ {"idle"}, Advance(x, p), pc[x] # "idle"
  PROVE  Typed'
  BY DEF Typed, TypeOK, Busy, Advance, Goto, db, locks

LEMMA LockUserTyped ==
  ASSUME NEW x \in Tx, Typed, NEW p \in PCs \ {"idle"}, NEW u \in Users, LockUser(x, u, p),
         pc[x] # "idle"
  PROVE  Typed'
  BY DEF Typed, TypeOK, Busy, LockUser, Goto, db

LEMMA LockMemberTyped ==
  ASSUME NEW x \in Tx, Typed, NEW p \in PCs \ {"idle"}, NEW t \in Teams, NEW u \in Users,
         LockMember(x, t, u, p), pc[x] # "idle", todo' \in [Tx -> SUBSET Teams]
  PROVE  Typed'
<1> USE DEF Typed, TypeOK, LockMember, Goto, db
<1>1. memberLock' \in [Teams -> [Users -> Tx \cup {None}]] OBVIOUS
<1>2. TypeOK' BY <1>1
<1>3. Busy' BY DEF Busy
<1> QED BY <1>2, <1>3

\* Every statement before the write.
LEMMA CheckTyped == ASSUME NEW x \in Tx, Typed, Check(x) PROVE Typed'
<1> DEFINE o == op[x]
<1>0. ASSUME pc[x] # "idle" PROVE o \in Ops /\ o.actor \in Users /\ o.target \in Users /\ o.team \in Teams
  BY <1>0, OpFields DEF Typed, Busy
<1>1. ASSUME AuthorizeActor(x) PROVE Typed'
  <2>1. AfterAuthorize(o) \in PCs \ {"idle"} BY DEF AfterAuthorize, PCs
  <2> QED BY <1>0, <1>1, <2>1, LockUserTyped, FailTyped DEF AuthorizeActor, PCs
<1>2. ASSUME AuthorizeMember(x) PROVE Typed'
  <2>1. pc[x] # "idle" BY <1>2 DEF AuthorizeMember
  <2>2. CASE Fail(x) BY <2>2, FailTyped
  <2>3. CASE LockMember(x, o.team, o.actor, "lockMember") /\ UNCHANGED todo
    BY <1>0, <2>1, <2>3, LockMemberTyped DEF PCs, Typed, TypeOK
  <2> QED BY <1>2, <2>2, <2>3 DEF AuthorizeMember
<1>3. ASSUME ReadAuthorized(x) PROVE Typed'
  BY <1>3, AdvanceTyped, FailTyped DEF ReadAuthorized, PCs
<1>4. ASSUME LockTarget(x) PROVE Typed'
  <2>1. AfterTarget(o) \in PCs \ {"idle"} BY DEF AfterTarget, PCs
  <2> QED BY <1>0, <1>4, <2>1, LockUserTyped, FailTyped DEF LockTarget
<1>5. ASSUME EnsureAnotherActiveSystemAdmin(x) PROVE Typed'
  BY <1>5, AdvanceTyped, FailTyped DEF EnsureAnotherActiveSystemAdmin, PCs
<1>6. ASSUME LockTeamMember(x) PROVE Typed'
  <2>1. pc[x] # "idle" BY <1>6 DEF LockTeamMember
  <2>2. CASE Fail(x) BY <2>2, FailTyped
  <2>3. ASSUME NEW b \in BOOLEAN, LockMember(x, o.team, o.target, IF b THEN "readTeam" ELSE "write"),
               todo' = [todo EXCEPT ![x] = IF b THEN {o.team} ELSE {}]
        PROVE  Typed'
    BY <1>0, <2>1, <2>3, LockMemberTyped DEF PCs, Typed, TypeOK
  <2> QED BY <1>6, <2>2, <2>3 DEF LockTeamMember
<1>7. ASSUME ReadMemberships(x) PROVE Typed'
  BY <1>0, <1>7 DEF ReadMemberships, Typed, TypeOK, Busy, Goto, PCs, db, locks
<1>8. ASSUME MembershipsLocked(x) PROVE Typed'
  BY <1>8, AdvanceTyped DEF MembershipsLocked, PCs, AfterEnsure
<1>9. ASSUME NEW r \in want[x], TakeRow(x, r), todo' \in [Tx -> SUBSET Teams] PROVE Typed'
  <2> USE DEF Typed, TypeOK, TakeRow, db
  <2>1. r \in Teams \X Users BY <1>9
  <2>2. memberLock' \in [Teams -> [Users -> Tx \cup {None}]] BY <1>9, <2>1
  <2>3. want' \in [Tx -> SUBSET (Teams \X Users)] BY <1>9
  <2>4. TypeOK' BY <1>9, <2>2, <2>3
  <2> QED BY <1>9, <2>4 DEF Busy
<1>10. ASSUME NEW r \in want[x], LockMembership(x, r) PROVE Typed'
  <2>1. r[1] \in Teams BY <1>10 DEF Typed, TypeOK
  <2>2. todo' \in [Tx -> SUBSET Teams] BY <1>10, <2>1 DEF LockMembership, Typed, TypeOK
  <2> QED BY <1>9, <1>10, <2>2 DEF LockMembership
<1>11. ASSUME NEW r \in want[x], LockTeamRow(x, r) PROVE Typed'
  BY <1>9, <1>11 DEF LockTeamRow, Typed, TypeOK
<1>12. ASSUME NEW t \in todo[x], ReadTeam(x, t) PROVE Typed'
  BY <1>12 DEF ReadTeam, Typed, TypeOK, Busy, Goto, PCs, db, locks
<1>13. ASSUME EnsureAnotherTeamAdmin(x) PROVE Typed'
  <2>1. CASE Fail(x) BY <2>1, FailTyped
  <2>2. CASE /\ todo' = [todo EXCEPT ![x] = @ \ {cur[x]}]
             /\ Goto(x, IF todo[x] = {cur[x]} THEN AfterEnsure(op[x]) ELSE "readTeam")
             /\ UNCHANGED <<db, locks, op, want, cur, moved>>
    BY <1>13, <2>2 DEF EnsureAnotherTeamAdmin, Typed, TypeOK, Busy, Goto, PCs, db, locks, AfterEnsure
  <2> QED BY <1>13, <2>1, <2>2 DEF EnsureAnotherTeamAdmin
<1>14. ASSUME Reassign(x) PROVE Typed'
  BY <1>14 DEF Reassign, Typed, TypeOK, Busy, Goto, PCs, db, locks
<1>15. ASSUME LockBootstrap(x) PROVE Typed'
  BY <1>15 DEF LockBootstrap, Typed, TypeOK, Busy, Goto, PCs, db
<1>16. ASSUME CheckBootstrapped(x) PROVE Typed'
  BY <1>16, AdvanceTyped, FailTyped DEF CheckBootstrapped, PCs
<1> QED BY <1>1, <1>2, <1>3, <1>4, <1>5, <1>6, <1>7, <1>8, <1>10, <1>11, <1>12, <1>13,
           <1>14, <1>15, <1>16 DEF Check

\* Every write and the commit after it.
LEMMA WriteTyped == ASSUME NEW x \in Tx, Typed, Write(x) PROVE Typed'
<1> DEFINE o == op[x]
<1>0. pc[x] = "write" BY DEF Write, BootstrapAdmin, CreateUser, CreateTeam, UpdateUser, DeleteUser,
        UpdateTeam, DeleteTeam, AddTeamMember, SetTeamMemberRole, RemoveTeamMember,
        SetUserTeamMemberships, Writing
<1>1. o \in Ops /\ o.actor \in Users /\ o.target \in Users /\ o.team \in Teams
      /\ o.role \in {"member", "admin"} /\ o.disabled \in BOOLEAN
      /\ o.assign \in [Teams -> TeamRole]
  BY <1>0, OpFields DEF Typed, Busy
<1> USE <1>1 DEF Typed, TypeOK, SystemRole, TeamRole, TeamState, Refs, db
<1>2. ASSUME BootstrapAdmin(x) PROVE Typed' BY <1>2, FinishTyped DEF BootstrapAdmin
<1>3. ASSUME CreateUser(x) PROVE Typed' BY <1>3, FinishTyped DEF CreateUser
<1>4. ASSUME CreateTeam(x) PROVE Typed' BY <1>4, FinishTyped DEF CreateTeam
<1>5. ASSUME UpdateUser(x) PROVE Typed' BY <1>5, FinishTyped DEF UpdateUser
<1>6. ASSUME DeleteUser(x) PROVE Typed'
  <2>1. CASE Fail(x) BY <2>1, FailTyped
  <2>2. CASE ~Fail(x)
    <3>1. /\ sysRole' \in [Users -> SystemRole] /\ disabled' \in [Users -> BOOLEAN]
          /\ team' = team /\ Finish(x)
      BY <1>6, <2>2 DEF DeleteUser
    <3>0. member' = [t \in Teams |-> [member[t] EXCEPT ![o.target] = "none"]]
      BY <1>6, <2>2 DEF DeleteUser
    <3>2. member' \in [Teams -> [Users -> TeamRole]] BY <3>0
    <3>3. createdBy' \in [Refs -> Users \cup {None}] BY <1>6, <2>2 DEF DeleteUser
    <3> QED BY <3>1, <3>2, <3>3, FinishTyped
  <2> QED BY <2>1, <2>2
<1>7. ASSUME UpdateTeam(x) PROVE Typed' BY <1>7, FinishTyped DEF UpdateTeam
<1>8. ASSUME DeleteTeam(x) PROVE Typed'
  <2>1. CASE Fail(x) BY <2>1, FailTyped
  <2>2. CASE ~Fail(x)
    <3>1. /\ team' \in [Teams -> TeamState] /\ createdBy' \in [Refs -> Users \cup {None}]
          /\ UNCHANGED <<sysRole, disabled>> /\ Finish(x)
      BY <1>8, <2>2 DEF DeleteTeam
    <3>0. member' = [member EXCEPT ![o.team] = [u \in Users |-> "none"]]
      BY <1>8, <2>2 DEF DeleteTeam
    <3>2. member' \in [Teams -> [Users -> TeamRole]] BY <3>0
    <3> QED BY <3>1, <3>2, FinishTyped
  <2> QED BY <2>1, <2>2
<1>9. ASSUME AddTeamMember(x) PROVE Typed'
  <2>1. CASE Fail(x) BY <2>1, FailTyped
  <2>2. CASE ~Fail(x)
    <3>1. UNCHANGED <<sysRole, disabled, team, createdBy>> /\ Finish(x)
      BY <1>9, <2>2 DEF AddTeamMember
    <3>0. member' = [member EXCEPT ![o.team][o.target] = o.role]
      BY <1>9, <2>2 DEF AddTeamMember
    <3>2. member' \in [Teams -> [Users -> TeamRole]] BY <3>0
    <3> QED BY <3>1, <3>2, FinishTyped
  <2> QED BY <2>1, <2>2
<1>10. ASSUME SetTeamMemberRole(x) PROVE Typed' BY <1>10, FinishTyped DEF SetTeamMemberRole
<1>11. ASSUME RemoveTeamMember(x) PROVE Typed' BY <1>11, FinishTyped DEF RemoveTeamMember
<1>12. ASSUME SetUserTeamMemberships(x) PROVE Typed'
  <2>1. CASE Fail(x) BY <2>1, FailTyped
  <2>2. CASE ~Fail(x)
    <3>1. UNCHANGED <<sysRole, disabled, team, createdBy>> /\ Finish(x)
      BY <1>12, <2>2 DEF SetUserTeamMemberships
    <3>0. member' = [t \in Teams |-> [member[t] EXCEPT ![o.target] =
                        IF t \in {tt \in Teams : o.assign[tt] # "none"} THEN o.assign[t]
                        ELSE IF memberLock[t][o.target] = x THEN "none" ELSE @]]
      BY <1>12, <2>2 DEF SetUserTeamMemberships
    <3>2. member' \in [Teams -> [Users -> TeamRole]] BY <3>0
    <3> QED BY <3>1, <3>2, FinishTyped
  <2> QED BY <2>1, <2>2
<1> QED BY <1>2, <1>3, <1>4, <1>5, <1>6, <1>7, <1>8, <1>9, <1>10, <1>11, <1>12 DEF Write

LEMMA NextTyped == Typed /\ [Next]_vars => Typed'
<1> SUFFICES ASSUME Typed, [Next]_vars PROVE Typed' OBVIOUS
<1>1. ASSUME NEW x \in Tx, NEW o \in Ops, Begin(x, o) PROVE Typed'
  <2>1. First(o) \in PCs BY DEF First, PCs
  <2> QED BY <1>1, <2>1 DEF Begin, Typed, TypeOK, Busy, db, locks
<1>2. ASSUME NEW x \in Tx, Step(x) PROVE Typed' BY <1>2, CheckTyped, WriteTyped DEF Step
<1>3. ASSUME NEW x \in Tx, Abort(x) PROVE Typed' BY <1>3, FailTyped DEF Abort
<1>4. ASSUME NEW a \in Assets, NEW u \in Users, InsertAsset(a, u) PROVE Typed'
  BY <1>4 DEF InsertAsset, Typed, TypeOK, Busy, Refs, locks, local
<1>5. CASE UNCHANGED vars BY <1>5 DEF vars, db, locks, local, Typed, TypeOK, Busy
<1> QED BY <1>1, <1>2, <1>3, <1>4, <1>5 DEF Next

\* Type correctness: every statement of every operation keeps the rows, the locks
\* and the state of the requests in their types.
THEOREM TypeCorrect == Spec => []TypeOK
<1>1. Spec => []Typed BY InitTyped, NextTyped, PTL DEF Spec
<1>2. Typed => TypeOK BY DEF Typed
<1> QED BY <1>1, <1>2, PTL

-----------------------------------------------------------------------------
(* The inductive invariant behind the authorization of a transaction: what *)
(* each statement has established is protected by the row locks held.      *)

CreatesUser(o) == o.kind \in {"CreateUser", "BootstrapAdmin"}

\* Which operations reach which statements.
Routed(x) ==
  /\ pc[x] = "authorize" => Locking(op[x])
  /\ pc[x] = "authorized" => op[x].kind = "AddTeamMember"
  /\ pc[x] \in {"bootstrap", "exists"} => op[x].kind = "BootstrapAdmin"
  /\ pc[x] \in {"authorizeMember", "lockMember"} => TeamScoped(op[x])
  /\ pc[x] \in {"lockTarget", "anotherAdmin", "memberships", "lockMemberships", "reassign"}
       => ActsOnUser(op[x])
  /\ pc[x] \in {"readTeam", "lockTeam"} => TeamScoped(op[x]) \/ ActsOnUser(op[x])

\* The identifier of a user about to be created is unused.
FreshHeld(x) == pc[x] # "idle" /\ CreatesUser(op[x]) => sysRole[op[x].target] = "none"

\* An authorized actor is locked, and enabled.
ActorHeld(x) ==
  pc[x] \notin {"idle", "authorize"} /\ Locking(op[x]) =>
    /\ userLock[op[x].actor] = x
    /\ Exists(op[x].actor) /\ ~disabled[op[x].actor]

\* Its right to act is its locked role, or its locked membership.
RightHeld(x) ==
  pc[x] \notin {"idle", "authorize", "authorizeMember"} /\ Locking(op[x]) =>
    \/ ActiveAdmin(op[x].actor)
    \/ /\ TeamScoped(op[x]) /\ TeamAdmin(op[x].team, op[x].actor)
       /\ memberLock[op[x].team][op[x].actor] = x

\* The user acted on is locked, exists, and is not the actor where that is forbidden.
TargetHeld(x) ==
  pc[x] \notin {"idle", "authorize", "lockTarget"} /\ ActsOnUser(op[x]) =>
    /\ userLock[op[x].target] = x
    /\ Exists(op[x].target)
    /\ ~SelfForbidden(op[x])

\* The membership acted on is locked.
MemberHeld(x) ==
  pc[x] \in {"readTeam", "lockTeam", "write"} /\ TeamScoped(op[x]) =>
    memberLock[op[x].team][op[x].target] = x

Held(x) == /\ Routed(x) /\ FreshHeld(x) /\ ActorHeld(x)
           /\ RightHeld(x) /\ TargetHeld(x) /\ MemberHeld(x)

\* Two requests never create the same user.
Distinct ==
  \A x, y \in Tx : /\ pc[x] # "idle" /\ CreatesUser(op[x])
                   /\ pc[y] # "idle" /\ CreatesUser(op[y])
                   /\ op[x].target = op[y].target
                   => x = y

IInv == Typed /\ Distinct /\ \A x \in Tx : Held(x)

\* What a step of another transaction leaves to y: its place, its locks, and the
\* content of the rows it has locked.
Undisturbed(y) ==
  /\ pc'[y] = pc[y] /\ op'[y] = op[y]
  /\ \A u \in Users : userLock[u] = y =>
       userLock'[u] = y /\ sysRole'[u] = sysRole[u] /\ disabled'[u] = disabled[u]
  /\ \A t \in Teams, u \in Users : memberLock[t][u] = y =>
       memberLock'[t][u] = y /\ (member[t][u] = "admin" => member'[t][u] = "admin")
  /\ pc[y] # "idle" /\ CreatesUser(op[y]) => sysRole'[op[y].target] = sysRole[op[y].target]

LEMMA UndisturbedHeld ==
  ASSUME NEW y \in Tx, Typed, Typed', Held(y), Undisturbed(y)
  PROVE  Held(y)'
<1>1. CASE pc[y] = "idle"
  BY <1>1 DEF Undisturbed, Held, Routed, FreshHeld, ActorHeld, RightHeld, TargetHeld, MemberHeld
<1>2. CASE pc[y] # "idle"
  <2>1. op[y] \in Ops /\ op[y].actor \in Users /\ op[y].target \in Users /\ op[y].team \in Teams
    BY <1>2, OpFields DEF Typed, Busy
  <2>2. Routed(y)' BY DEF Undisturbed, Held, Routed, Locking, TeamScoped, ActsOnUser
  <2>3. FreshHeld(y)' BY <2>1 DEF Undisturbed, Held, FreshHeld, CreatesUser
  <2>4. ActorHeld(y)' BY <2>1 DEF Undisturbed, Held, ActorHeld, Locking, Exists
  <2>5. RightHeld(y)'
    BY <2>1 DEF Undisturbed, Held, RightHeld, ActorHeld, Locking, Exists, ActiveAdmin, TeamScoped, TeamAdmin
  <2>6. TargetHeld(y)'
    BY <2>1 DEF Undisturbed, Held, TargetHeld, ActsOnUser, Exists, SelfForbidden
  <2>7. MemberHeld(y)' BY <2>1 DEF Undisturbed, Held, MemberHeld, TeamScoped
  <2> QED BY <2>2, <2>3, <2>4, <2>5, <2>6, <2>7 DEF Held
<1> QED BY <1>1, <1>2

\* A step of x preserves the invariant when it leaves the others undisturbed and
\* re-establishes what x itself relies on.
LEMMA StepHeld ==
  ASSUME NEW x \in Tx, IInv, Typed', \A y \in Tx \ {x} : Undisturbed(y),
         Held(x)', pc'[x] # "idle" => pc[x] # "idle" /\ op'[x] = op[x]
  PROVE  IInv'
<1>1. \A y \in Tx : Held(y)' BY UndisturbedHeld DEF IInv
<1>2. Distinct' BY DEF IInv, Distinct, Undisturbed, CreatesUser
<1> QED BY <1>1, <1>2 DEF IInv

LEMMA IdleHeld == ASSUME NEW x \in Tx, pc'[x] = "idle" PROVE Held(x)'
  BY DEF Held, Routed, FreshHeld, ActorHeld, RightHeld, TargetHeld, MemberHeld

\* A transaction that ends, having changed only rows that no other one relies on.
LEMMA FinishHeld ==
  ASSUME NEW x \in Tx, IInv, Typed', Finish(x),
         \A y \in Tx \ {x} :
           /\ \A u \in Users : userLock[u] = y =>
                sysRole'[u] = sysRole[u] /\ disabled'[u] = disabled[u]
           /\ \A t \in Teams, u \in Users : memberLock[t][u] = y =>
                (member[t][u] = "admin" => member'[t][u] = "admin")
           /\ pc[y] # "idle" /\ CreatesUser(op[y]) => sysRole'[op[y].target] = sysRole[op[y].target]
  PROVE  IInv'
<1>1. pc'[x] = "idle" BY DEF Finish, IInv, Typed, TypeOK
<1>2. \A y \in Tx \ {x} : Undisturbed(y) BY DEF Finish, IInv, Typed, TypeOK, Undisturbed
<1> QED BY <1>1, <1>2, IdleHeld, StepHeld

LEMMA FailHeld == ASSUME NEW x \in Tx, IInv, Fail(x) PROVE IInv'
  BY FinishHeld, FailTyped DEF Fail, db, IInv

\* A statement that reads, and locks rows that are free or already its own.
LEMMA ReadHeld ==
  ASSUME NEW x \in Tx, IInv, Typed', UNCHANGED <<db, op>>, pc[x] # "idle",
         NEW p \in PCs, pc' = [pc EXCEPT ![x] = p],
         \A u \in Users : userLock'[u] = userLock[u] \/ (userLock'[u] = x /\ UserFree(x, u)),
         \A t \in Teams, u \in Users :
           memberLock'[t][u] = memberLock[t][u] \/ (memberLock'[t][u] = x /\ MemberFree(x, t, u)),
         Held(x)'
  PROVE  IInv'
<1>1. None \notin Tx BY NoneAssumption
<1>2. \A y \in Tx \ {x} : Undisturbed(y)
  BY <1>1 DEF IInv, Typed, TypeOK, Undisturbed, UserFree, MemberFree, db
<1> QED BY <1>2, StepHeld DEF IInv, Typed, TypeOK

LEMMA CheckHeld == ASSUME NEW x \in Tx, IInv, Check(x) PROVE IInv'
<1> DEFINE o == op[x]
<1>a. Typed' BY CheckTyped DEF IInv
<1>b. ASSUME pc[x] # "idle" PROVE o \in Ops /\ o.actor \in Users /\ o.target \in Users /\ o.team \in Teams
  BY <1>b, OpFields DEF IInv, Typed, Busy
<1>c. Held(x) BY DEF IInv
<1>d. TypeOK BY DEF IInv, Typed
<1> DEFINE Plain == UNCHANGED <<db, userLock, memberLock, op>>
<1>e. ASSUME Plain, pc[x] # "idle", NEW p \in PCs, pc' = [pc EXCEPT ![x] = p], Held(x)' PROVE IInv'
  BY <1>a, <1>e, ReadHeld DEF db
\* What a statement that changes no row and no lock of x must show.
<1>f. ASSUME Plain, pc[x] # "idle", NEW p \in PCs \ {"idle"}, pc' = [pc EXCEPT ![x] = p],
             pc[x] \notin {"authorize", "authorizeMember", "lockTarget", "lockMember"},
             p \notin {"authorize", "authorized", "bootstrap", "authorizeMember", "lockMember", "lockTarget"},
             p = "exists" => o.kind = "BootstrapAdmin",
             p \in {"anotherAdmin", "memberships", "lockMemberships", "reassign"} => ActsOnUser(o),
             p \in {"readTeam", "lockTeam"} => TeamScoped(o) \/ ActsOnUser(o),
             p \in {"readTeam", "lockTeam", "write"} /\ TeamScoped(o) => pc[x] \in {"readTeam", "lockTeam"}
      PROVE IInv'
  <2> USE <1>b, <1>c, <1>d, <1>f DEF Held, TypeOK, db
  <2>1. Routed(x)' BY DEF Routed, ActsOnUser, TeamScoped
  <2>2. FreshHeld(x)' BY DEF FreshHeld, CreatesUser
  <2>3. ActorHeld(x)' BY DEF ActorHeld, Locking, Exists
  <2>4. RightHeld(x)' BY DEF RightHeld, Locking, ActiveAdmin, TeamScoped, TeamAdmin
  <2>5. TargetHeld(x)' BY DEF TargetHeld, ActsOnUser, Exists, SelfForbidden
  <2>6. MemberHeld(x)' BY DEF MemberHeld, TeamScoped
  <2> QED BY <1>e, <2>1, <2>2, <2>3, <2>4, <2>5, <2>6
<1>1. ASSUME AuthorizeActor(x) PROVE IInv'
  <2>0. pc[x] = "authorize" /\ Locking(o) BY <1>1, <1>c DEF AuthorizeActor, Held, Routed
  <2>1. CASE Fail(x) BY <2>1, FailHeld
  <2>2. ASSUME NEW p \in PCs, LockUser(x, o.actor, p), Exists(o.actor), UserFree(x, o.actor),
               ~disabled[o.actor],
               \/ ActiveAdmin(o.actor) /\ p = AfterAuthorize(o)
               \/ TeamScoped(o) /\ p = "authorizeMember"
        PROVE  IInv'
    <3> USE <1>b, <1>c, <1>d, <2>0, <2>2 DEF Held, TypeOK, db, LockUser, Goto
    <3>1. Routed(x)' BY DEF Routed, ActsOnUser, AfterAuthorize, TeamScoped
    <3>2. FreshHeld(x)' BY DEF FreshHeld, CreatesUser
    <3>3. ActorHeld(x)' BY DEF ActorHeld, Locking, Exists
    <3>4. RightHeld(x)' BY DEF RightHeld, Locking, ActiveAdmin
    <3>5. TargetHeld(x)' BY DEF TargetHeld, ActsOnUser, AfterAuthorize, TeamScoped
    <3>6. MemberHeld(x)' BY DEF MemberHeld, TeamScoped, ActsOnUser, AfterAuthorize
    <3>7. Held(x)' BY <3>1, <3>2, <3>3, <3>4, <3>5, <3>6
    <3> QED BY <1>a, <3>7, ReadHeld
  <2>3. AfterAuthorize(o) \in PCs BY DEF AfterAuthorize, PCs
  <2> QED BY <1>1, <2>1, <2>2, <2>3 DEF AuthorizeActor, ActiveAdmin, Exists, PCs
<1>2. ASSUME AuthorizeMember(x) PROVE IInv'
  <2>0. pc[x] = "authorizeMember" /\ TeamScoped(o) BY <1>2, <1>c DEF AuthorizeMember, Held, Routed
  <2>1. CASE Fail(x) BY <2>1, FailHeld
  <2>2. CASE /\ TeamAdmin(o.team, o.actor) /\ MemberFree(x, o.team, o.actor)
             /\ LockMember(x, o.team, o.actor, "lockMember")
    <3> USE <1>b, <1>c, <1>d, <2>0, <2>2 DEF Held, TypeOK, db, LockMember, Goto
    <3>1. Routed(x)' BY DEF Routed, ActsOnUser, TeamScoped
    <3>2. FreshHeld(x)' BY DEF FreshHeld, CreatesUser
    <3>3. ActorHeld(x)' BY DEF ActorHeld, Locking, Exists
    <3>4. RightHeld(x)' BY DEF RightHeld, Locking, TeamAdmin, TeamScoped
    <3>5. TargetHeld(x)' BY DEF TargetHeld, ActsOnUser, TeamScoped
    <3>6. MemberHeld(x)' BY DEF MemberHeld
    <3>7. Held(x)' BY <3>1, <3>2, <3>3, <3>4, <3>5, <3>6
    <3> QED BY <1>a, <3>7, ReadHeld DEF PCs
  <2> QED BY <1>2, <2>1, <2>2 DEF AuthorizeMember, TeamAdmin
<1>3. ASSUME ReadAuthorized(x) PROVE IInv'
  <2>1. o.kind = "AddTeamMember" BY <1>3, <1>c DEF ReadAuthorized, Held, Routed
  <2> QED BY <1>3, <1>f, <2>1, FailHeld
        DEF ReadAuthorized, Advance, Goto, locks, PCs, TeamScoped
<1>4. ASSUME LockTarget(x) PROVE IInv'
  <2>0. pc[x] = "lockTarget" /\ ActsOnUser(o) BY <1>4, <1>c DEF LockTarget, Held, Routed
  <2>1. CASE Fail(x) BY <2>1, FailHeld
  <2>2. CASE /\ Exists(o.target) /\ UserFree(x, o.target) /\ ~SelfForbidden(o)
             /\ LockUser(x, o.target, AfterTarget(o))
    <3>0. AfterTarget(o) \in {"anotherAdmin", "write", "memberships"} BY DEF AfterTarget
    <3> USE <1>b, <1>c, <1>d, <2>0, <2>2, <3>0 DEF Held, TypeOK, db, LockUser, Goto
    <3>1. Routed(x)' BY DEF Routed, ActsOnUser
    <3>2. FreshHeld(x)' BY DEF FreshHeld, CreatesUser
    <3>3. ActorHeld(x)' BY DEF ActorHeld, Locking, Exists
    <3>4. RightHeld(x)' BY DEF RightHeld, Locking, ActiveAdmin, TeamScoped, TeamAdmin
    <3>5. TargetHeld(x)' BY DEF TargetHeld, ActsOnUser, Exists, SelfForbidden
    <3>6. MemberHeld(x)' BY DEF MemberHeld, TeamScoped, ActsOnUser
    <3>7. Held(x)' BY <3>1, <3>2, <3>3, <3>4, <3>5, <3>6
    <3> QED BY <1>a, <3>7, ReadHeld DEF PCs
  <2> QED BY <1>4, <2>1, <2>2 DEF LockTarget
<1>5. ASSUME EnsureAnotherActiveSystemAdmin(x) PROVE IInv'
  <2>1. pc[x] = "anotherAdmin" /\ ActsOnUser(o)
    BY <1>5, <1>c DEF EnsureAnotherActiveSystemAdmin, Held, Routed
  <2> QED BY <1>5, <1>f, <2>1, FailHeld
        DEF EnsureAnotherActiveSystemAdmin, Advance, Goto, locks, PCs, TeamScoped, ActsOnUser
<1>6. ASSUME LockTeamMember(x) PROVE IInv'
  <2>0. pc[x] = "lockMember" /\ TeamScoped(o) BY <1>6, <1>c DEF LockTeamMember, Held, Routed
  <2>1. CASE Fail(x) BY <2>1, FailHeld
  <2>2. ASSUME NEW p \in {"readTeam", "write"}, MemberFree(x, o.team, o.target),
               LockMember(x, o.team, o.target, p)
        PROVE  IInv'
    <3> USE <1>b, <1>c, <1>d, <2>0, <2>2 DEF Held, TypeOK, db, LockMember, Goto
    <3>1. Routed(x)' BY DEF Routed
    <3>2. FreshHeld(x)' BY DEF FreshHeld, CreatesUser
    <3>3. ActorHeld(x)' BY DEF ActorHeld, Locking, Exists
    <3>4. RightHeld(x)' BY DEF RightHeld, Locking, ActiveAdmin, TeamAdmin, TeamScoped
    <3>5. TargetHeld(x)' BY DEF TargetHeld, ActsOnUser, TeamScoped
    <3>6. MemberHeld(x)' BY DEF MemberHeld
    <3>7. Held(x)' BY <3>1, <3>2, <3>3, <3>4, <3>5, <3>6
    <3> QED BY <1>a, <3>7, ReadHeld DEF PCs
  <2> QED BY <1>6, <2>1, <2>2 DEF LockTeamMember
<1>7. ASSUME ReadMemberships(x) PROVE IInv'
  <2>1. pc[x] = "memberships" /\ ActsOnUser(o) BY <1>7, <1>c DEF ReadMemberships, Held, Routed
  <2> QED BY <1>7, <1>f, <2>1 DEF ReadMemberships, Goto, locks, PCs
<1>8. ASSUME MembershipsLocked(x) PROVE IInv'
  <2>1. pc[x] = "lockMemberships" /\ ActsOnUser(o) BY <1>8, <1>c DEF MembershipsLocked, Held, Routed
  <2> QED BY <1>8, <1>f, <2>1
        DEF MembershipsLocked, Advance, AfterEnsure, Goto, locks, PCs, ActsOnUser, TeamScoped
<1>9. ASSUME NEW r \in want[x], TakeRow(x, r), pc[x] \in {"lockMemberships", "lockTeam"} PROVE IInv'
  <2>1. r \in Teams \X Users BY <1>9, <1>d DEF TypeOK
  <2> USE <1>b, <1>c, <1>d, <1>9, <2>1 DEF Held, TypeOK, db, TakeRow
  <2>2. \A t \in Teams, u \in Users :
          memberLock'[t][u] = memberLock[t][u] \/ (memberLock'[t][u] = x /\ MemberFree(x, t, u))
    OBVIOUS
  <2>3. Routed(x)' BY DEF Routed, ActsOnUser
  <2>4. FreshHeld(x)' BY DEF FreshHeld, CreatesUser
  <2>5. ActorHeld(x)' BY DEF ActorHeld, Locking, Exists
  <2>6. RightHeld(x)' BY <2>2 DEF RightHeld, Locking, ActiveAdmin, TeamAdmin, TeamScoped
  <2>7. TargetHeld(x)' BY DEF TargetHeld, ActsOnUser, Exists, SelfForbidden
  <2>8. MemberHeld(x)' BY <2>2 DEF MemberHeld, TeamScoped
  <2>9. Held(x)' BY <2>3, <2>4, <2>5, <2>6, <2>7, <2>8
  <2>10. pc' = [pc EXCEPT ![x] = pc[x]] OBVIOUS
  <2> QED BY <1>a, <2>2, <2>9, <2>10, ReadHeld
<1>10. ASSUME NEW r \in want[x], LockMembership(x, r) \/ LockTeamRow(x, r) PROVE IInv'
  BY <1>9, <1>10 DEF LockMembership, LockTeamRow
<1>11. ASSUME NEW t \in todo[x], ReadTeam(x, t) PROVE IInv'
  BY <1>11, <1>c, <1>f DEF ReadTeam, Goto, locks, PCs, Held, Routed
<1>12. ASSUME EnsureAnotherTeamAdmin(x) PROVE IInv'
  <2>1. CASE Fail(x) BY <2>1, FailHeld
  <2>2. CASE /\ Goto(x, IF todo[x] = {cur[x]} THEN AfterEnsure(o) ELSE "readTeam")
             /\ UNCHANGED <<db, locks, op, want, cur, moved>>
    BY <1>12, <1>c, <1>f, <2>2
       DEF EnsureAnotherTeamAdmin, AfterEnsure, Goto, locks, PCs, ActsOnUser, Held, Routed
  <2> QED BY <1>12, <2>1, <2>2 DEF EnsureAnotherTeamAdmin
<1>13. ASSUME Reassign(x) PROVE IInv'
  <2>1. pc[x] = "reassign" /\ ActsOnUser(o) BY <1>13, <1>c DEF Reassign, Held, Routed
  <2> QED BY <1>13, <1>f, <2>1 DEF Reassign, Goto, locks, PCs, ActsOnUser, TeamScoped
<1>14. ASSUME LockBootstrap(x) PROVE IInv'
  <2>1. pc[x] = "bootstrap" /\ o.kind = "BootstrapAdmin" BY <1>14, <1>c DEF LockBootstrap, Held, Routed
  <2> QED BY <1>14, <1>f, <2>1 DEF LockBootstrap, Goto, PCs
<1>15. ASSUME CheckBootstrapped(x) PROVE IInv'
  <2>1. pc[x] = "exists" /\ o.kind = "BootstrapAdmin" BY <1>15, <1>c DEF CheckBootstrapped, Held, Routed
  <2> QED BY <1>15, <1>f, <2>1, FailHeld DEF CheckBootstrapped, Advance, Goto, locks, PCs, TeamScoped
<1> QED BY <1>1, <1>2, <1>3, <1>4, <1>5, <1>6, <1>7, <1>8, <1>10, <1>11, <1>12, <1>13, <1>14,
           <1>15 DEF Check

\* A write changes only rows its transaction has locked, rows nobody has locked, or
\* a users row that did not exist.
LEMMA WriteHeld == ASSUME NEW x \in Tx, IInv, Write(x) PROVE IInv'
<1> DEFINE o == op[x]
<1>a. Typed' BY WriteTyped DEF IInv
<1>b. pc[x] = "write" BY DEF Write, BootstrapAdmin, CreateUser, CreateTeam, UpdateUser, DeleteUser,
        UpdateTeam, DeleteTeam, AddTeamMember, SetTeamMemberRole, RemoveTeamMember,
        SetUserTeamMemberships, Writing
<1>c. o \in Ops /\ o.actor \in Users /\ o.target \in Users /\ o.team \in Teams
  BY <1>b, OpFields DEF IInv, Typed, Busy
<1>d. TypeOK /\ Distinct /\ \A y \in Tx : Held(y) BY DEF IInv, Typed
<1>e. None \notin Tx BY NoneAssumption
<1>f. \A y \in Tx : pc[y] # "idle" => op[y] \in Ops /\ op[y].actor \in Users /\ op[y].target \in Users
  BY OpFields DEF IInv, Typed, Busy
\* A row somebody has locked for an identifier to be created: there is none such.
<1>1. ASSUME CreateUser(x) \/ BootstrapAdmin(x) PROVE IInv'
  <2>1. /\ sysRole[o.target] = "none" /\ CreatesUser(o) /\ Finish(x) /\ UNCHANGED member
        /\ \A u \in Users \ {o.target} : sysRole'[u] = sysRole[u] /\ disabled'[u] = disabled[u]
    BY <1>1, <1>b, <1>c, <1>d
       DEF CreateUser, BootstrapAdmin, Writing, Held, FreshHeld, CreatesUser, TypeOK
  <2>2. \A y \in Tx \ {x} : pc[y] # "idle" /\ CreatesUser(op[y]) => op[y].target # o.target
    BY <1>b, <1>d, <2>1 DEF Distinct
  <2>3. ASSUME NEW y \in Tx \ {x}, pc[y] # "idle" PROVE Held(y)'
    <3>1. /\ pc'[y] = pc[y] /\ op'[y] = op[y]
          /\ \A u \in Users : userLock[u] = y => userLock'[u] = y
          /\ \A tt \in Teams, u \in Users : memberLock[tt][u] = y => memberLock'[tt][u] = y
      BY <1>d, <2>1, <2>3 DEF Finish, TypeOK
    <3>2. Held(y) /\ op[y].actor \in Users /\ op[y].target \in Users /\ op[y].team \in Teams
      BY <1>d, <2>3, OpFields DEF IInv, Typed, Busy
    <3> USE <2>1, <2>2, <2>3, <3>1, <3>2 DEF Held
    <3>3. Routed(y)' BY DEF Routed, Locking, TeamScoped, ActsOnUser
    <3>4. FreshHeld(y)' BY DEF FreshHeld, CreatesUser
    <3>5. ActorHeld(y)' BY DEF ActorHeld, Locking, Exists
    <3>6. RightHeld(y)'
      BY DEF RightHeld, ActorHeld, Locking, Exists, ActiveAdmin, TeamScoped, TeamAdmin
    <3>7. TargetHeld(y)' BY DEF TargetHeld, ActsOnUser, Exists, SelfForbidden
    <3>8. MemberHeld(y)' BY DEF MemberHeld, TeamScoped
    <3> QED BY <3>3, <3>4, <3>5, <3>6, <3>7, <3>8
  <2>4. \A y \in Tx : pc'[y] = "idle" \/ (y # x /\ pc'[y] = pc[y] /\ op'[y] = op[y])
    BY <1>d, <2>1 DEF Finish, TypeOK
  <2>5. \A y \in Tx : Held(y)' BY <2>3, <2>4, IdleHeld
  <2>6. Distinct' BY <1>d, <2>4 DEF Distinct, CreatesUser
  <2> QED BY <1>a, <2>5, <2>6 DEF IInv
<1>2. ASSUME CreateTeam(x) PROVE IInv'
  <2>1. Finish(x) /\ UNCHANGED <<sysRole, disabled>>
        /\ \A t \in Teams, u \in Users : member[t][u] = "admin" => member'[t][u] = "admin"
    BY <1>2, <1>c, <1>d DEF CreateTeam, TypeOK
  <2> QED BY <1>a, <2>1, FinishHeld
<1>3. ASSUME UpdateUser(x) \/ (DeleteUser(x) /\ ~Fail(x)) PROVE IInv'
  <2>1. userLock[o.target] = x /\ Exists(o.target) /\ Finish(x)
        /\ \A u \in Users \ {o.target} : sysRole'[u] = sysRole[u] /\ disabled'[u] = disabled[u]
    BY <1>3, <1>b, <1>c, <1>d
       DEF UpdateUser, DeleteUser, Writing, Held, TargetHeld, ActsOnUser, TypeOK
  <2>2. \A t \in Teams, u \in Users : memberLock[t][u] \notin {x, None} =>
          (member[t][u] = "admin" => member'[t][u] = "admin")
    BY <1>3, <1>c, <1>d DEF UpdateUser, DeleteUser, TypeOK, MemberFree
  <2>3. \A y \in Tx : pc[y] # "idle" /\ CreatesUser(op[y]) => op[y].target # o.target
    BY <1>d, <2>1 DEF Held, FreshHeld, Exists
  <2> QED BY <1>a, <1>c, <1>e, <1>f, <2>1, <2>2, <2>3, FinishHeld
<1>4. ASSUME UpdateTeam(x) PROVE IInv' BY <1>4, <1>a, FinishHeld DEF UpdateTeam, db
<1>5. ASSUME DeleteTeam(x) /\ ~Fail(x) PROVE IInv'
  <2>1. Finish(x) /\ UNCHANGED <<sysRole, disabled>> BY <1>5 DEF DeleteTeam
  <2>3. /\ member' = [member EXCEPT ![o.team] = [u \in Users |-> "none"]]
        /\ \A u \in Users : member[o.team][u] # "none" => MemberFree(x, o.team, u)
    BY <1>5 DEF DeleteTeam
  <2>2. \A t \in Teams, u \in Users : memberLock[t][u] \notin {x, None} =>
          (member[t][u] = "admin" => member'[t][u] = "admin")
    BY <1>c, <1>d, <2>3 DEF TypeOK, MemberFree
  <2> QED BY <1>a, <1>e, <2>1, <2>2, FinishHeld
<1>6. ASSUME AddTeamMember(x) /\ ~Fail(x) PROVE IInv'
  <2>1. Finish(x) /\ UNCHANGED <<sysRole, disabled>> BY <1>6 DEF AddTeamMember
  <2>3. /\ member' = [member EXCEPT ![o.team][o.target] = o.role]
        /\ member[o.team][o.target] # "none" => MemberFree(x, o.team, o.target)
    BY <1>6 DEF AddTeamMember
  <2>2. \A t \in Teams, u \in Users : memberLock[t][u] \notin {x, None} =>
          (member[t][u] = "admin" => member'[t][u] = "admin")
    BY <1>c, <1>d, <2>3 DEF TypeOK, MemberFree
  <2> QED BY <1>a, <1>e, <2>1, <2>2, FinishHeld
<1>7. ASSUME SetTeamMemberRole(x) \/ RemoveTeamMember(x) PROVE IInv'
  <2>1. Finish(x) /\ UNCHANGED <<sysRole, disabled>> /\ memberLock[o.team][o.target] = x
    BY <1>7, <1>b, <1>d DEF SetTeamMemberRole, RemoveTeamMember, Writing, Held, MemberHeld, TeamScoped
  <2>3. \/ member' = [member EXCEPT ![o.team][o.target] = o.role]
        \/ member' = [member EXCEPT ![o.team][o.target] = "none"]
    BY <1>7 DEF SetTeamMemberRole, RemoveTeamMember
  <2>4. \A t \in Teams, u \in Users : t # o.team \/ u # o.target => member'[t][u] = member[t][u]
    BY <1>c, <1>d, <2>3 DEF TypeOK
  <2>2. \A t \in Teams, u \in Users : memberLock[t][u] \notin {x, None} =>
          (member[t][u] = "admin" => member'[t][u] = "admin")
    BY <2>1, <2>4
  <2> QED BY <1>a, <1>e, <2>1, <2>2, FinishHeld
<1>8. ASSUME SetUserTeamMemberships(x) /\ ~Fail(x) PROVE IInv'
  <2>1. Finish(x) /\ UNCHANGED <<sysRole, disabled>> BY <1>8 DEF SetUserTeamMemberships
  <2>3. /\ member' = [t \in Teams |-> [member[t] EXCEPT ![o.target] =
                        IF t \in {tt \in Teams : o.assign[tt] # "none"} THEN o.assign[t]
                        ELSE IF memberLock[t][o.target] = x THEN "none" ELSE @]]
        /\ \A t \in {tt \in Teams : o.assign[tt] # "none"} :
             member[t][o.target] # "none" => MemberFree(x, t, o.target)
    BY <1>8 DEF SetUserTeamMemberships
  <2>2. \A t \in Teams, u \in Users : memberLock[t][u] \notin {x, None} =>
          (member[t][u] = "admin" => member'[t][u] = "admin")
    BY <1>c, <1>d, <2>3 DEF TypeOK, MemberFree
  <2> QED BY <1>a, <1>e, <2>1, <2>2, FinishHeld
<1> QED BY <1>1, <1>2, <1>3, <1>4, <1>5, <1>6, <1>7, <1>8, FailHeld DEF Write

LEMMA InitHeld == Init => IInv
<1> SUFFICES ASSUME Init PROVE IInv OBVIOUS
<1>1. \A x \in Tx : pc[x] = "idle" BY DEF Init
<1>2. \A x \in Tx : Held(x)
  BY <1>1 DEF Held, Routed, FreshHeld, ActorHeld, RightHeld, TargetHeld, MemberHeld
<1> QED BY <1>1, <1>2, InitTyped DEF IInv, Distinct

LEMMA NextHeld == IInv /\ [Next]_vars => IInv'
<1> SUFFICES ASSUME IInv, [Next]_vars PROVE IInv' OBVIOUS
<1>a. Typed' BY NextTyped DEF IInv
<1>1. ASSUME NEW x \in Tx, NEW o \in Ops, Begin(x, o) PROVE IInv'
  <2>1. /\ pc[x] = "idle" /\ Fresh(o) /\ UNCHANGED <<db, locks>>
        /\ pc'[x] = First(o) /\ op'[x] = o
        /\ \A y \in Tx \ {x} : pc'[y] = pc[y] /\ op'[y] = op[y]
    BY <1>1 DEF Begin, IInv, Typed, TypeOK
  <2>2. o.target \in Users BY OpFields
  <2>3. Held(x)'
    BY <2>1, <2>2 DEF Held, Routed, FreshHeld, ActorHeld, RightHeld, TargetHeld, MemberHeld, First,
       Locking, Fresh, CreatesUser, ActsOnUser, TeamScoped, db
  <2>4. \A y \in Tx \ {x} : Undisturbed(y) BY <2>1 DEF Undisturbed, db, locks
  <2>5. \A y \in Tx : Held(y)' BY <1>a, <2>3, <2>4, UndisturbedHeld DEF IInv
  <2>6. ASSUME CreatesUser(o), NEW y \in Tx \ {x}, pc[y] # "idle", CreatesUser(op[y])
        PROVE  op[y].target # o.target
    BY <2>1, <2>6 DEF Fresh, CreatesUser
  <2>7. Distinct' BY <2>1, <2>6 DEF Distinct, CreatesUser, IInv
  <2> QED BY <1>a, <2>5, <2>7 DEF IInv
<1>2. ASSUME NEW x \in Tx, Step(x) PROVE IInv' BY <1>2, CheckHeld, WriteHeld DEF Step
<1>3. ASSUME NEW x \in Tx, Abort(x) PROVE IInv' BY <1>3, FailHeld DEF Abort
<1>4. ASSUME \/ \E a \in Assets, u \in Users : InsertAsset(a, u)
             \/ UNCHANGED vars
      PROVE  IInv'
  <2>1. \A y \in Tx : Undisturbed(y) BY <1>4 DEF InsertAsset, vars, db, locks, local, Undisturbed
  <2>2. \A y \in Tx : Held(y)' BY <1>a, <2>1, UndisturbedHeld DEF IInv
  <2>3. Distinct' BY <2>1 DEF Undisturbed, Distinct, CreatesUser, IInv
  <2> QED BY <1>a, <2>2, <2>3 DEF IInv
<1> QED BY <1>1, <1>2, <1>3, <1>4 DEF Next

LEMMA Inductive == Spec => []IInv
  BY InitHeld, NextHeld, PTL DEF Spec

\* Authorization is not revoked under a running transaction: from the statement
\* that authorizes its actor to its commit, the actor keeps the role it was
\* authorized by, because the rows that grant it stay locked.
THEOREM ActorsStayAuthorized == Spec => []AuthorizedUntilCommit
<1>1. IInv => AuthorizedUntilCommit
  BY DEF IInv, Held, ActorHeld, RightHeld, AuthorizedUntilCommit, MayAct
<1> QED BY <1>1, Inductive, PTL

\* The steps that write the users table.
LEMMA RolesChange ==
  ASSUME [Next]_vars
  PROVE  \/ UNCHANGED <<sysRole, disabled>>
         \/ \E x \in Tx : BootstrapAdmin(x) \/ CreateUser(x) \/ UpdateUser(x) \/ DeleteUser(x)
<1>1. ASSUME NEW x \in Tx, Check(x) PROVE UNCHANGED <<sysRole, disabled>>
  BY <1>1 DEF Check, AuthorizeActor, AuthorizeMember, ReadAuthorized, LockTarget,
     EnsureAnotherActiveSystemAdmin, LockTeamMember, ReadMemberships, MembershipsLocked,
     LockMembership, LockTeamRow, TakeRow, ReadTeam, EnsureAnotherTeamAdmin, Reassign,
     LockBootstrap, CheckBootstrapped, LockUser, LockMember, Advance, Fail, db
<1>2. ASSUME NEW x \in Tx, \/ CreateTeam(x) \/ UpdateTeam(x) \/ DeleteTeam(x) \/ AddTeamMember(x)
             \/ SetTeamMemberRole(x) \/ RemoveTeamMember(x) \/ SetUserTeamMemberships(x)
      PROVE  UNCHANGED <<sysRole, disabled>>
  BY <1>2 DEF CreateTeam, UpdateTeam, DeleteTeam, AddTeamMember, SetTeamMemberRole,
     RemoveTeamMember, SetUserTeamMemberships, Fail, db
<1>3. ASSUME \/ \E x \in Tx : (\E o \in Ops : Begin(x, o)) \/ Abort(x)
             \/ \E a \in Assets, u \in Users : InsertAsset(a, u)
             \/ UNCHANGED vars
      PROVE  UNCHANGED <<sysRole, disabled>>
  BY <1>3 DEF Begin, Abort, Fail, InsertAsset, vars, db
<1> QED BY <1>1, <1>2, <1>3 DEF Next, Step, Write

\* A committed write either leaves an active administrator or is a self-demotion.
LEMMA AdminSurvives ==
  ASSUME IInv, [Next]_vars, NEW v \in Users, ActiveAdmin(v)
  PROVE  \/ \E u \in Users : ActiveAdmin(u)'
         \/ \E x \in Tx : Writing(x, "UpdateUser") /\ SelfDemotion(op[x])
<1> DEFINE Kept == \E u \in Users : ActiveAdmin(u)'
<1>a. TypeOK BY DEF IInv, Typed
<1>b. ASSUME UNCHANGED <<sysRole, disabled>> PROVE Kept BY <1>b DEF ActiveAdmin
<1>1. ASSUME NEW x \in Tx, BootstrapAdmin(x) \/ CreateUser(x) \/ UpdateUser(x) \/ DeleteUser(x)
      PROVE  Kept \/ (Writing(x, "UpdateUser") /\ SelfDemotion(op[x]))
  <2> DEFINE o == op[x]
  <2>0. ASSUME pc[x] = "write"
        PROVE  o.actor \in Users /\ o.target \in Users /\ Held(x) /\ o.role \in {"member", "admin"}
    BY <2>0, OpFields DEF IInv, Typed, Busy
  <2>1. CASE CreateUser(x) \/ BootstrapAdmin(x)
    <3>1. pc[x] = "write" /\ sysRole[o.target] = "none"
      BY <2>0, <2>1 DEF CreateUser, BootstrapAdmin, Writing, Held, FreshHeld, CreatesUser
    <3>2. sysRole'[v] = sysRole[v] /\ disabled'[v] = disabled[v]
      BY <1>a, <2>0, <2>1, <3>1 DEF CreateUser, BootstrapAdmin, ActiveAdmin, TypeOK
    <3> QED BY <3>2 DEF ActiveAdmin
  <2>2. CASE UpdateUser(x)
    <3>1. pc[x] = "write" /\ o.kind = "UpdateUser" BY <2>2 DEF UpdateUser, Writing
    <3>2. ActiveAdmin(o.actor) /\ ~SelfForbidden(o)
      BY <2>0, <3>1 DEF Held, RightHeld, TargetHeld, Locking, ActsOnUser, TeamScoped
    <3>3. CASE o.actor # o.target
      BY <1>a, <2>0, <2>2, <3>1, <3>2, <3>3 DEF UpdateUser, ActiveAdmin, TypeOK
    <3>4. CASE o.actor = o.target /\ o.role = "admin"
      BY <1>a, <2>0, <2>2, <3>1, <3>2, <3>4 DEF UpdateUser, ActiveAdmin, TypeOK, SelfForbidden
    <3> QED BY <3>1, <3>3, <3>4 DEF SelfDemotion, Writing
  <2>3. CASE DeleteUser(x)
    <3>1. pc[x] = "write" /\ o.kind = "DeleteUser" BY <2>3 DEF DeleteUser, Writing
    <3>2. ActiveAdmin(o.actor) /\ o.actor # o.target
      BY <2>0, <3>1 DEF Held, RightHeld, TargetHeld, Locking, ActsOnUser, TeamScoped, SelfForbidden
    <3>3. sysRole'[o.actor] = sysRole[o.actor] /\ disabled'[o.actor] = disabled[o.actor]
      BY <1>a, <2>0, <2>3, <3>1, <3>2 DEF DeleteUser, TypeOK, Fail, db
    <3> QED BY <2>0, <3>1, <3>2, <3>3 DEF ActiveAdmin
  <2> QED BY <1>1, <2>1, <2>2, <2>3
<1> QED BY <1>b, <1>1, RolesChange

\* The system loses its last active administrator only by a self-demotion: no
\* interleaving of creations, updates, deletions and membership changes by other
\* administrators can do it.
THEOREM LastAdminLost == Spec => LastAdminLostOnlyBySelfDemotion
<1>1. IInv /\ [Next]_vars =>
        [ActiveAdmins # {} /\ ActiveAdmins' = {} =>
           \E x \in Tx : Writing(x, "UpdateUser") /\ SelfDemotion(op[x])]_vars
  BY AdminSurvives DEF ActiveAdmins
<1> QED BY <1>1, Inductive, PTL DEF Spec, LastAdminLostOnlyBySelfDemotion

\* Where nobody demotes itself the system always has an active administrator, once
\* it has users.
THEOREM AdminRemains ==
  ASSUME \A o \in Ops : ~SelfDemotion(o)
  PROVE  Spec => []SystemKeepsAdmin
<1>1. Init => SystemKeepsAdmin
  <2> SUFFICES ASSUME Init PROVE SystemKeepsAdmin OBVIOUS
  <2>1. PICK d \in Seeds : sysRole = d.sysRole /\ disabled = d.disabled BY DEF Init
  <2>2. Consistent(d) BY SeedsAssumption
  <2> QED BY <2>1, <2>2 DEF Consistent, SystemKeepsAdmin, Exists, ActiveAdmin
<1>2. IInv /\ SystemKeepsAdmin /\ [Next]_vars => SystemKeepsAdmin'
  <2> SUFFICES ASSUME IInv, SystemKeepsAdmin, [Next]_vars PROVE SystemKeepsAdmin' OBVIOUS
  <2>1. \A x \in Tx : pc[x] = "write" => ~SelfDemotion(op[x]) BY DEF IInv, Typed, Busy
  <2>2. CASE \E v \in Users : ActiveAdmin(v)
    BY <2>1, <2>2, AdminSurvives DEF SystemKeepsAdmin, Writing
  <2>3. CASE \A u \in Users : ~Exists(u)
    <3>1. ASSUME NEW x \in Tx, BootstrapAdmin(x) PROVE \E u \in Users : ActiveAdmin(u)'
      <4>1. op[x].target \in Users BY <3>1, OpFields DEF BootstrapAdmin, Writing, IInv, Typed, Busy
      <4> QED BY <3>1, <4>1 DEF BootstrapAdmin, ActiveAdmin, IInv, Typed, TypeOK
    <3>2. ASSUME NEW x \in Tx, CreateUser(x) \/ UpdateUser(x) \/ DeleteUser(x) PROVE FALSE
      <4>1. pc[x] = "write" /\ Locking(op[x]) /\ op[x].actor \in Users
        BY <3>2, OpFields DEF CreateUser, UpdateUser, DeleteUser, Writing, Locking, IInv, Typed, Busy
      <4> QED BY <2>3, <4>1 DEF IInv, Held, ActorHeld
    <3> QED BY <2>3, <3>1, <3>2, RolesChange DEF SystemKeepsAdmin, Exists
  <2> QED BY <2>2, <2>3 DEF SystemKeepsAdmin
<1> QED BY <1>1, <1>2, Inductive, PTL DEF Spec
-----------------------------------------------------------------------------
(* What DeleteUser and BootstrapAdmin have looked at still holds when they *)
(* write.                                                                  *)

\* The advisory lock is held from the look at the users table to the commit.
BootHeld == \A x \in Tx : pc[x] = "exists" \/ Writing(x, "BootstrapAdmin") => bootLock = x

Looked == BootHeld /\ ChecksHoldAtWrite

\* Only the last of its statements takes DeleteUser, or BootstrapAdmin, to its
\* write, and no statement before the writes changes the data or takes the
\* advisory lock from its holder.
LEMMA CheckMoves ==
  ASSUME NEW x \in Tx, IInv, Check(x)
  PROVE  /\ UNCHANGED db
         /\ \A y \in Tx \ {x} : pc'[y] = pc[y] /\ op'[y] = op[y] /\ moved'[y] = moved[y]
         /\ pc'[x] = "idle" \/ op'[x] = op[x]
         /\ bootLock # None /\ bootLock # x => bootLock' = bootLock
         /\ pc'[x] # "idle" /\ ~LockBootstrap(x) => bootLock' = bootLock
         /\ pc'[x] = "exists" => LockBootstrap(x)
         /\ pc'[x] = "write" /\ op[x].kind = "BootstrapAdmin" => CheckBootstrapped(x)
         /\ pc'[x] = "write" /\ op[x].kind = "DeleteUser" => Reassign(x)
<1> DEFINE o == op[x]
<1>a. TypeOK BY DEF IInv, Typed
<1>b. Routed(x) BY DEF IInv, Held
<1>1. CASE Fail(x) BY <1>1, <1>a DEF Fail, Finish, TypeOK
<1>2. CASE AuthorizeActor(x) /\ ~Fail(x)
  <2>1. AfterAuthorize(o) # "exists"
        /\ (AfterAuthorize(o) = "write" => o.kind # "DeleteUser")
        /\ (Locking(o) => o.kind # "BootstrapAdmin")
    BY DEF AfterAuthorize, ActsOnUser, TeamScoped, Locking
  <2> QED BY <1>2, <1>a, <1>b, <2>1 DEF AuthorizeActor, LockUser, Goto, Routed, TypeOK
<1>3. CASE (AuthorizeMember(x) \/ LockTeamMember(x)) /\ ~Fail(x)
  BY <1>3, <1>a, <1>b DEF AuthorizeMember, LockTeamMember, LockMember, Goto, Routed, TeamScoped, TypeOK
<1>4. CASE ReadAuthorized(x) /\ ~Fail(x)
  BY <1>4, <1>a, <1>b DEF ReadAuthorized, Advance, Goto, Routed, TypeOK, locks
<1>5. CASE LockTarget(x) /\ ~Fail(x)
  BY <1>5, <1>a, <1>b DEF LockTarget, LockUser, AfterTarget, Goto, Routed, ActsOnUser, TypeOK
<1>6. CASE EnsureAnotherActiveSystemAdmin(x) /\ ~Fail(x)
  BY <1>6, <1>a, <1>b DEF EnsureAnotherActiveSystemAdmin, Advance, Goto, Routed, ActsOnUser, TypeOK, locks
<1>7. CASE ReadMemberships(x) BY <1>7, <1>a DEF ReadMemberships, Goto, TypeOK, locks
<1>8. CASE MembershipsLocked(x)
  BY <1>8, <1>a, <1>b DEF MembershipsLocked, Advance, AfterEnsure, Goto, Routed, ActsOnUser, TypeOK, locks
<1>9. ASSUME NEW r \in want[x], LockMembership(x, r) \/ LockTeamRow(x, r)
      PROVE  UNCHANGED <<db, bootLock, pc, op, moved>> /\ pc[x] \notin {"exists", "write", "idle"}
  BY <1>9 DEF LockMembership, LockTeamRow, TakeRow
<1>10. CASE \E r \in want[x] : LockMembership(x, r) \/ LockTeamRow(x, r) BY <1>9, <1>10
<1>11. ASSUME NEW t \in todo[x], ReadTeam(x, t)
       PROVE  UNCHANGED <<db, bootLock, op, moved>> /\ pc' = [pc EXCEPT ![x] = "lockTeam"]
  BY <1>11 DEF ReadTeam, Goto, locks
<1>12. CASE \E t \in todo[x] : ReadTeam(x, t) BY <1>a, <1>11, <1>12 DEF TypeOK
<1>13. CASE EnsureAnotherTeamAdmin(x) /\ ~Fail(x)
  <2>1. /\ pc[x] = "lockTeam" /\ UNCHANGED <<db, bootLock, op, moved>>
        /\ pc' = [pc EXCEPT ![x] = IF todo[x] = {cur[x]} THEN AfterEnsure(o) ELSE "readTeam"]
    BY <1>13 DEF EnsureAnotherTeamAdmin, Goto, locks
  <2>2. AfterEnsure(o) \in {"reassign", "write"} /\ (AfterEnsure(o) = "write" => o.kind # "DeleteUser")
    BY DEF AfterEnsure
  <2> QED BY <1>a, <1>b, <2>1, <2>2 DEF Routed, TeamScoped, ActsOnUser, TypeOK
<1>14. CASE Reassign(x)
  BY <1>14, <1>a, <1>b DEF Reassign, Goto, TypeOK, locks, Routed, ActsOnUser
<1>15. CASE LockBootstrap(x) BY <1>15, <1>a DEF LockBootstrap, Goto, TypeOK
<1>16. CASE CheckBootstrapped(x) /\ ~Fail(x)
  BY <1>16, <1>a, <1>b DEF CheckBootstrapped, Advance, Goto, TypeOK, locks, Routed
<1> QED BY <1>1, <1>2, <1>3, <1>4, <1>5, <1>6, <1>7, <1>8, <1>10, <1>12, <1>13, <1>14, <1>15,
           <1>16 DEF Check

\* A transaction that ends, leaving to the others that look at references or at
\* the users table what they found there.
LEMMA FinishLooked ==
  ASSUME NEW x \in Tx, IInv, Looked, Finish(x),
         \A y \in Tx \ {x}, r \in Refs : Writing(y, "DeleteUser") =>
           (createdBy'[r] = op[y].target => createdBy[r] = op[y].target),
         \A y \in Tx \ {x}, u \in Users : Writing(y, "BootstrapAdmin") => ~Exists(u)'
  PROVE  Looked'
<1>a. TypeOK BY DEF IInv, Typed
<1>b. None \notin Tx BY NoneAssumption
<1>1. \A y \in Tx : \/ pc'[y] = "idle"
                    \/ y # x /\ pc'[y] = pc[y] /\ op'[y] = op[y] /\ moved'[y] = moved[y]
  BY <1>a DEF Finish, TypeOK
<1>2. BootHeld' BY <1>1, <1>b DEF Looked, BootHeld, Writing, Finish
<1>3. DeleteFindsNoReference'
  BY <1>1 DEF Looked, ChecksHoldAtWrite, DeleteFindsNoReference, Writing, Referenced
<1>4. BootstrapOnlyWhenEmpty'
  BY <1>1 DEF Looked, ChecksHoldAtWrite, BootstrapOnlyWhenEmpty, Writing
<1> QED BY <1>2, <1>3, <1>4 DEF Looked, ChecksHoldAtWrite

LEMMA FailLooked == ASSUME NEW x \in Tx, IInv, Looked, Fail(x) PROVE Looked'
  BY FinishLooked DEF Fail, db, Exists, Looked, ChecksHoldAtWrite, BootstrapOnlyWhenEmpty

LEMMA CheckLooked == ASSUME NEW x \in Tx, IInv, Looked, Check(x) PROVE Looked'
<1>a. TypeOK BY DEF IInv, Typed
<1>b. None \notin Tx BY NoneAssumption
<1>0. CASE Fail(x) BY <1>0, FailLooked
<1> SUFFICES ASSUME ~Fail(x) PROVE Looked' BY <1>0
<1>1. /\ UNCHANGED db
      /\ \A y \in Tx \ {x} : pc'[y] = pc[y] /\ op'[y] = op[y] /\ moved'[y] = moved[y]
      /\ pc'[x] = "idle" \/ op'[x] = op[x]
      /\ bootLock # None /\ bootLock # x => bootLock' = bootLock
      /\ pc'[x] # "idle" /\ ~LockBootstrap(x) => bootLock' = bootLock
      /\ pc'[x] = "exists" => LockBootstrap(x)
      /\ pc'[x] = "write" /\ op[x].kind = "BootstrapAdmin" => CheckBootstrapped(x)
      /\ pc'[x] = "write" /\ op[x].kind = "DeleteUser" => Reassign(x)
  BY CheckMoves
<1>2. BootHeld'
  <2> SUFFICES ASSUME NEW y \in Tx, pc'[y] = "exists" \/ Writing(y, "BootstrapAdmin")'
               PROVE  bootLock' = y
    BY DEF BootHeld
  <2>1. CASE y # x BY <1>1, <1>b, <2>1 DEF Looked, BootHeld, Writing
  <2>2. CASE y = x /\ LockBootstrap(x) BY <2>2 DEF LockBootstrap
  <2>3. CASE y = x /\ ~LockBootstrap(x)
    <3>1. CheckBootstrapped(x) BY <1>1, <2>3 DEF Writing
    <3>2. pc[x] = "exists" BY <3>1 DEF CheckBootstrapped
    <3> QED BY <1>1, <2>3, <3>2 DEF Looked, BootHeld, Writing
  <2> QED BY <2>1, <2>2, <2>3
<1>3. DeleteFindsNoReference'
  <2> SUFFICES ASSUME NEW y \in Tx, Writing(y, "DeleteUser")' PROVE ~Referenced(y)'
    BY DEF DeleteFindsNoReference
  <2>1. CASE y # x
    BY <1>1, <2>1 DEF Looked, ChecksHoldAtWrite, DeleteFindsNoReference, Writing, Referenced, db
  <2>2. CASE y = x
    <3>1. Reassign(x) BY <1>1, <2>2 DEF Writing
    <3>2. moved'[x] = {r \in Refs : createdBy[r] = op[x].target} /\ op' = op
      BY <1>a, <3>1 DEF Reassign, TypeOK
    <3> QED BY <1>1, <2>2, <3>2 DEF Referenced, db
  <2> QED BY <2>1, <2>2
<1>4. BootstrapOnlyWhenEmpty'
  <2> SUFFICES ASSUME NEW y \in Tx, Writing(y, "BootstrapAdmin")', NEW u \in Users PROVE ~Exists(u)
    BY <1>1 DEF BootstrapOnlyWhenEmpty, Exists, db
  <2>1. CASE y # x BY <1>1, <2>1 DEF Looked, ChecksHoldAtWrite, BootstrapOnlyWhenEmpty, Writing
  <2>2. CASE y = x
    <3>1. CheckBootstrapped(x) BY <1>1, <2>2 DEF Writing
    <3> QED BY <3>1 DEF CheckBootstrapped
  <2> QED BY <2>1, <2>2
<1> QED BY <1>2, <1>3, <1>4 DEF Looked, ChecksHoldAtWrite

\* A write refers to nobody whose row another transaction holds, and a user is
\* created by a user or by the holder of the advisory lock.
LEMMA WriteLooked == ASSUME NEW x \in Tx, IInv, Looked, Write(x) PROVE Looked'
<1> DEFINE o == op[x]
<1>a. TypeOK /\ Held(x) BY DEF IInv, Typed
<1>b. pc[x] = "write" BY DEF Write, BootstrapAdmin, CreateUser, CreateTeam, UpdateUser, DeleteUser,
        UpdateTeam, DeleteTeam, AddTeamMember, SetTeamMemberRole, RemoveTeamMember,
        SetUserTeamMemberships, Writing
<1>c. o \in Ops /\ o.actor \in Users /\ o.target \in Users /\ o.team \in Teams
  BY <1>b, OpFields DEF IInv, Typed, Busy
<1>0. CASE Fail(x) BY <1>0, FailLooked
<1> SUFFICES ASSUME ~Fail(x) PROVE Looked' BY <1>0
\* Whoever deletes a user holds the row; so does whoever acts for one.
<1>1. ASSUME NEW y \in Tx \ {x}, Writing(y, "DeleteUser")
      PROVE  op[y].target \in Users /\ op[y].target # None /\ userLock[op[y].target] = y
  <2>1. op[y] \in Ops /\ Held(y) BY <1>1 DEF IInv, Typed, Busy, Writing
  <2> QED BY <1>1, <2>1, OpFields, NoneAssumption DEF Held, TargetHeld, ActsOnUser, Writing
<1>2. Locking(o) => userLock[o.actor] = x /\ Exists(o.actor) BY <1>a, <1>b DEF Held, ActorHeld
<1>3. ASSUME UNCHANGED createdBy, NEW y \in Tx \ {x}, NEW r \in Refs, Writing(y, "DeleteUser")
      PROVE  createdBy'[r] = op[y].target => createdBy[r] = op[y].target
  BY <1>3
<1>4. ASSUME UNCHANGED sysRole, NEW y \in Tx \ {x}, NEW u \in Users, Writing(y, "BootstrapAdmin")
      PROVE  ~Exists(u)'
  BY <1>4 DEF Exists, Looked, ChecksHoldAtWrite, BootstrapOnlyWhenEmpty
<1>5. ASSUME Locking(o) PROVE \A y \in Tx : ~Writing(y, "BootstrapAdmin")
  BY <1>2, <1>5, <1>c DEF Looked, ChecksHoldAtWrite, BootstrapOnlyWhenEmpty
<1>6. CASE BootstrapAdmin(x)
  <2>1. \A y \in Tx \ {x} : ~Writing(y, "BootstrapAdmin") BY <1>6 DEF BootstrapAdmin, Looked, BootHeld
  <2> QED BY <1>3, <1>6, <2>1, FinishLooked DEF BootstrapAdmin
<1>7. CASE CreateUser(x) \/ UpdateUser(x)
  <2>1. Locking(o) BY <1>7 DEF CreateUser, UpdateUser, Writing, Locking
  <2> QED BY <1>3, <1>5, <1>7, <2>1, FinishLooked DEF CreateUser, UpdateUser
<1>8. CASE CreateTeam(x)
  <2>1. Locking(o) BY <1>8 DEF CreateTeam, Writing, Locking
  <2>2. \A r \in Refs : createdBy'[r] \in {createdBy[r], o.actor}
    BY <1>8, <1>a DEF CreateTeam, TypeOK
  <2>3. \A y \in Tx \ {x} : Writing(y, "DeleteUser") => op[y].target # o.actor BY <1>1, <1>2, <2>1
  <2> QED BY <1>5, <1>8, <2>1, <2>2, <2>3, FinishLooked DEF CreateTeam
<1>9. CASE DeleteUser(x)
  <2>1. Locking(o) BY <1>9 DEF DeleteUser, Writing, Locking
  <2>2. \A r \in Refs : createdBy'[r] \in {createdBy[r], o.actor} BY <1>9 DEF DeleteUser
  <2>3. \A y \in Tx \ {x} : Writing(y, "DeleteUser") => op[y].target # o.actor BY <1>1, <1>2, <2>1
  <2>4. Finish(x) BY <1>9 DEF DeleteUser
  <2> QED BY <1>5, <2>1, <2>2, <2>3, <2>4, FinishLooked
<1>10. CASE DeleteTeam(x)
  <2>1. \A r \in Refs : createdBy'[r] \in {createdBy[r], None} BY <1>10, <1>a DEF DeleteTeam, TypeOK
  <2>2. Finish(x) /\ UNCHANGED sysRole BY <1>10 DEF DeleteTeam
  <2> QED BY <1>1, <1>4, <2>1, <2>2, FinishLooked
<1>11. CASE \/ UpdateTeam(x) \/ AddTeamMember(x) \/ SetTeamMemberRole(x) \/ RemoveTeamMember(x)
            \/ SetUserTeamMemberships(x)
  <2>1. Finish(x) /\ UNCHANGED <<sysRole, createdBy>>
    BY <1>11 DEF UpdateTeam, AddTeamMember, SetTeamMemberRole, RemoveTeamMember,
       SetUserTeamMemberships, db
  <2> QED BY <1>3, <1>4, <2>1, FinishLooked
<1> QED BY <1>6, <1>7, <1>8, <1>9, <1>10, <1>11 DEF Write

LEMMA NextLooked == IInv /\ Looked /\ [Next]_vars => Looked'
<1> SUFFICES ASSUME IInv, Looked, [Next]_vars PROVE Looked' OBVIOUS
<1>a. TypeOK BY DEF IInv, Typed
<1>b. None \notin Tx BY NoneAssumption
<1> USE DEF Looked, BootHeld, ChecksHoldAtWrite, DeleteFindsNoReference, BootstrapOnlyWhenEmpty
<1>1. ASSUME NEW x \in Tx, NEW o \in Ops, Begin(x, o) PROVE Looked'
  <2>1. pc'[x] \notin {"exists", "write"} /\ UNCHANGED <<db, locks, moved>>
        /\ \A y \in Tx \ {x} : pc'[y] = pc[y] /\ op'[y] = op[y]
    BY <1>1, <1>a DEF Begin, First, TypeOK
  <2> QED BY <2>1 DEF Writing, Referenced, Exists, db, locks
<1>2. ASSUME NEW x \in Tx, Step(x) PROVE Looked' BY <1>2, CheckLooked, WriteLooked DEF Step
<1>3. ASSUME NEW x \in Tx, Abort(x) PROVE Looked' BY <1>3, FailLooked DEF Abort
<1>4. ASSUME NEW a \in Assets, NEW u \in Users, InsertAsset(a, u) PROVE Looked'
  <2>1. /\ userLock[u] = None /\ UNCHANGED <<sysRole, bootLock, pc, op, moved>>
        /\ \A r \in Refs : createdBy'[r] \in {createdBy[r], u}
    BY <1>4, <1>a DEF InsertAsset, TypeOK, locks, local
  <2>2. ASSUME NEW x \in Tx, Writing(x, "DeleteUser") PROVE op[x].target # u
    <3>1. userLock[op[x].target] = x BY <2>2 DEF IInv, Held, TargetHeld, ActsOnUser, Writing
    <3> QED BY <1>b, <2>1, <3>1
  <2> QED BY <2>1, <2>2 DEF Writing, Referenced, Exists
<1>5. CASE UNCHANGED vars BY <1>5 DEF vars, db, locks, local, Writing, Referenced, Exists
<1> QED BY <1>1, <1>2, <1>3, <1>4, <1>5 DEF Next

\* DeleteUser is never stopped by a row that came to refer to the user, and the
\* bootstrap administrator is created only in an empty system, however many
\* replicas and requests there are: the locked users row keeps references away,
\* and users are created by users or under the advisory lock.
THEOREM ChecksStillHold == Spec => []ChecksHoldAtWrite
<1>1. Init => Looked
  BY DEF Init, Looked, BootHeld, ChecksHoldAtWrite, DeleteFindsNoReference, BootstrapOnlyWhenEmpty, Writing
<1>2. Spec => []Looked BY <1>1, NextLooked, Inductive, PTL DEF Spec
<1>3. Looked => ChecksHoldAtWrite BY DEF Looked
<1> QED BY <1>2, <1>3, PTL

-----------------------------------------------------------------------------
(* A live team keeps an administrator.  Two requests that take the role    *)
(* from two administrators of one team both lock the members of the team   *)
(* before they look for another administrator; the one that read the       *)
(* members last has the row of the other's target still to lock.           *)

\* The requests of the theorem.  AddTeamMember writes its role over an existing
\* membership without a check, and DeleteUser cascades to the memberships the user
\* was given after its look: neither is protected by the locks (see README.md).
Guarded(o) ==
  /\ o.kind # "DeleteUser"
  /\ o.kind = "AddTeamMember" => o.role = "admin"

\* The request takes the administrator's role in t from its target.
Demands(o, t) ==
  \/ o.kind = "RemoveTeamMember" /\ t = o.team
  \/ o.kind = "SetTeamMemberRole" /\ t = o.team /\ o.role # "admin"
  \/ o.kind = "SetUserTeamMemberships" /\ o.assign[t] # "admin"

\* The role x is about to take away, in a row x has locked.
Losing(x, t) ==
  /\ pc[x] # "idle" /\ Demands(op[x], t)
  /\ memberLock[t][op[x].target] = x /\ TeamAdmin(t, op[x].target)

Looking == {"readTeam", "lockTeam", "write"}

\* x has seen another administrator of t.
Passed(x, t) == pc[x] \in Looking /\ Losing(x, t) /\ t \notin todo[x]

\* x has read the members of t, whether or not it has locked them all.
Entered(x, t) == Passed(x, t) \/ (pc[x] = "lockTeam" /\ cur[x] = t /\ Losing(x, t))

\* Which operations reach which statements, and what is still to be done there.
Placed(x) ==
  /\ pc[x] # "reassign"
  /\ pc[x] = "anotherAdmin" => op[x].kind = "UpdateUser"
  /\ pc[x] \in {"memberships", "lockMemberships"} => op[x].kind = "SetUserTeamMemberships"
  /\ pc[x] \in {"idle", "authorize", "authorizeMember", "lockTarget", "memberships"}
       => \A t \in Teams, u \in Users : memberLock[t][u] # x
  /\ pc[x] \notin {"lockMemberships", "readTeam", "lockTeam"} => todo[x] = {}
  /\ pc[x] \notin {"lockMemberships", "lockTeam"} => want[x] = {}
  /\ pc[x] = "lockMemberships" => want[x] \subseteq Teams \X {op[x].target}
  /\ pc[x] = "lockTeam" => cur[x] \in todo[x] /\ want[x] \subseteq {cur[x]} \X Users

\* The teams still to be looked at are teams that lose an administrator; before
\* the first look they are all of them.
TodoHeld(x) ==
  /\ \A t \in todo[x] : Losing(x, t)
  /\ pc[x] = "lockMemberships" => \A t \in Teams : Losing(x, t) => t \in todo[x]

\* SetUserTeamMemberships has locked every membership of its target, or will.
RowsKnown(x) ==
  pc[x] \in Looking \cup {"lockMemberships"} /\ op[x].kind = "SetUserTeamMemberships" =>
    \A t \in Teams : member[t][op[x].target] # "none" =>
      \/ memberLock[t][op[x].target] = x
      \/ pc[x] = "lockMemberships" /\ <<t, op[x].target>> \in want[x]

\* Another administrator was seen, and is still there.
Witnessed(x) ==
  \A t \in Teams : Passed(x, t) => \E u \in Users : u # op[x].target /\ TeamAdmin(t, u)

FreshTeam(x) == pc[x] # "idle" /\ op[x].kind = "CreateTeam" => team[op[x].team] = "none"

DistinctTeams ==
  \A x, y \in Tx : /\ pc[x] # "idle" /\ op[x].kind = "CreateTeam"
                   /\ pc[y] # "idle" /\ op[y].kind = "CreateTeam"
                   /\ op[x].team = op[y].team
                   => x = y

\* Memberships are those of live teams, and locked ones are not deleted.
RowsLive ==
  \A t \in Teams, u \in Users : /\ member[t][u] # "none" => team[t] = "live"
                                /\ memberLock[t][u] # None => member[t][u] # "none"

\* Of two that have read the members of a team, one waits for the other.
OneWaits ==
  \A x, y \in Tx, t \in Teams : x # y /\ Entered(x, t) /\ Entered(y, t) =>
    <<t, op[x].target>> \in want[y] \/ <<t, op[y].target>> \in want[x]

Team(x) == Placed(x) /\ TodoHeld(x) /\ RowsKnown(x) /\ Witnessed(x) /\ FreshTeam(x)

TInv == /\ \A x \in Tx : Team(x)
        /\ DistinctTeams /\ RowsLive /\ OneWaits /\ TeamKeepsAdmin

\* What a step of another transaction leaves to y: its place, its locks, and the
\* rows it has locked.
Unmoved(y) ==
  /\ pc'[y] = pc[y] /\ op'[y] = op[y]
  /\ want'[y] = want[y] /\ todo'[y] = todo[y] /\ cur'[y] = cur[y]
  /\ \A t \in Teams, u \in Users :
       /\ memberLock'[t][u] = y <=> memberLock[t][u] = y
       /\ memberLock[t][u] = y => member'[t][u] = member[t][u]

LEMMA UnmovedLosing ==
  ASSUME NEW y \in Tx, Typed, Unmoved(y), NEW t \in Teams
  PROVE  /\ Losing(y, t)' <=> Losing(y, t)
         /\ Passed(y, t)' <=> Passed(y, t)
         /\ Entered(y, t)' <=> Entered(y, t)
<1>1. pc[y] # "idle" => op[y].target \in Users BY OpFields DEF Typed, Busy
<1>2. Losing(y, t)' <=> Losing(y, t)
  <2>1. Demands(op[y], t)' <=> Demands(op[y], t) BY DEF Unmoved, Demands
  <2> QED BY <1>1, <2>1 DEF Unmoved, Losing, TeamAdmin
<1>3. Passed(y, t)' <=> Passed(y, t) BY <1>2 DEF Passed, Unmoved, Looking
<1>4. Entered(y, t)' <=> Entered(y, t) BY <1>2, <1>3 DEF Entered, Unmoved
<1> QED BY <1>2, <1>3, <1>4

\* Whoever does not move keeps its part of the invariant, when its target is given
\* no membership, the administrators it counts on stay, and its new team is unused.
LEMMA UnmovedTeam ==
  ASSUME NEW y \in Tx, Typed, Team(y), Unmoved(y),
         \A t \in Teams :
           pc[y] \in Looking \cup {"lockMemberships"} /\ op[y].kind = "SetUserTeamMemberships"
             => (member'[t][op[y].target] # "none" => member[t][op[y].target] # "none"),
         \A t \in Teams : Passed(y, t) => \E u \in Users : u # op[y].target /\ TeamAdmin(t, u)',
         pc[y] # "idle" /\ op[y].kind = "CreateTeam" => team'[op[y].team] = "none"
  PROVE  Team(y)'
<1>1. pc[y] # "idle" => op[y].target \in Users BY OpFields DEF Typed, Busy
<1>2. todo[y] \subseteq Teams BY DEF Typed, TypeOK
<1>3. Placed(y)' BY DEF Team, Placed, Unmoved
<1>4. TodoHeld(y)' BY <1>2, UnmovedLosing DEF Team, TodoHeld, Unmoved
<1>5. RowsKnown(y)' BY <1>1 DEF Team, RowsKnown, Unmoved, Looking
<1>6. Witnessed(y)' BY UnmovedLosing DEF Witnessed, Unmoved
<1>7. FreshTeam(y)' BY DEF FreshTeam, Unmoved
<1> QED BY <1>3, <1>4, <1>5, <1>6, <1>7 DEF Team

\* A statement of x that reads, and locks existing rows that are free.
LEMMA ReadTeams ==
  ASSUME NEW x \in Tx, IInv, TInv, UNCHANGED <<db, op>>, pc[x] # "idle",
         NEW p \in PCs, pc' = [pc EXCEPT ![x] = p],
         \A y \in Tx \ {x} : want'[y] = want[y] /\ todo'[y] = todo[y] /\ cur'[y] = cur[y],
         \A t \in Teams, u \in Users :
           \/ memberLock'[t][u] = memberLock[t][u]
           \/ memberLock'[t][u] = x /\ MemberFree(x, t, u) /\ member[t][u] # "none",
         Team(x)',
         \A y \in Tx \ {x}, t \in Teams : Entered(x, t)' /\ Entered(y, t) =>
           <<t, op[x].target>> \in want[y] \/ <<t, op[y].target>> \in want'[x]
  PROVE  TInv'
<1>a. Typed /\ TypeOK BY DEF IInv, Typed
<1>b. None \notin Tx BY NoneAssumption
<1>1. \A y \in Tx \ {x} : Unmoved(y) BY <1>a, <1>b DEF TypeOK, Unmoved, MemberFree, db
<1>2. ASSUME NEW y \in Tx PROVE Team(y)'
  <2>1. CASE y = x BY <2>1
  <2>2. CASE y # x
    <3>1. Team(y) BY DEF TInv
    <3> QED BY <1>1, <1>a, <2>2, <3>1, UnmovedTeam DEF Team, Witnessed, FreshTeam, TeamAdmin, db
  <2> QED BY <2>1, <2>2
<1>3. DistinctTeams' BY <1>a DEF TInv, DistinctTeams, TypeOK
<1>4. RowsLive' BY <1>a, <1>b DEF TInv, RowsLive, TypeOK, db
<1>5. OneWaits'
  <2> SUFFICES ASSUME NEW y \in Tx, NEW z \in Tx, NEW t \in Teams, y # z, Entered(y, t)', Entered(z, t)'
               PROVE  <<t, op[y].target>> \in want'[z] \/ <<t, op[z].target>> \in want'[y]
    BY DEF OneWaits
  <2>1. CASE y = x
    <3>1. Entered(z, t) BY <1>1, <1>a, <2>1, UnmovedLosing
    <3> QED BY <2>1, <3>1
  <2>2. CASE z = x
    <3>1. Entered(y, t) BY <1>1, <1>a, <2>2, UnmovedLosing
    <3> QED BY <2>2, <3>1
  <2>3. CASE y # x /\ z # x
    <3>1. Entered(y, t) /\ Entered(z, t) BY <1>1, <1>a, <2>3, UnmovedLosing
    <3> QED BY <2>3, <3>1 DEF TInv, OneWaits
  <2> QED BY <2>1, <2>2, <2>3
<1>6. TeamKeepsAdmin' BY DEF TInv, TeamKeepsAdmin, TeamAdmin, db
<1> QED BY <1>2, <1>3, <1>4, <1>5, <1>6 DEF TInv

\* Whoever takes an administrator's role away has seen another administrator, and
\* nobody else that has can be under way in the same team.
LEMMA LosesAlone ==
  ASSUME NEW x \in Tx, IInv, TInv, pc[x] = "write", NEW t \in Teams, Losing(x, t)
  PROVE  /\ \E u \in Users : u # op[x].target /\ TeamAdmin(t, u)
         /\ \A y \in Tx \ {x} : ~Passed(y, t)
<1>1. Team(x) BY DEF TInv
<1>2. todo[x] = {} /\ want[x] = {} BY <1>1 DEF Team, Placed
<1>3. Passed(x, t) BY <1>2 DEF Passed, Looking
<1>4. ASSUME NEW y \in Tx \ {x}, Passed(y, t) PROVE FALSE
  <2>1. Team(y) BY DEF TInv
  <2>2. <<t, op[x].target>> \in want[y] BY <1>2, <1>3, <1>4 DEF TInv, OneWaits, Entered
  <2>3. pc[y] = "lockTeam" BY <1>4, <2>1, <2>2 DEF Team, Placed, Passed, Looking
  <2>4. cur[y] # t BY <1>4, <2>1, <2>3 DEF Team, Placed, Passed
  <2> QED BY <2>1, <2>2, <2>3, <2>4 DEF Team, Placed
<1> QED BY <1>1, <1>3, <1>4 DEF Team, Witnessed

\* A transaction that ends.  It has changed no row that another one has locked, has
\* given no membership to somebody whose memberships are being replaced, and has
\* taken a role only from its target, or with the whole team.
LEMMA FinishTeams ==
  ASSUME NEW x \in Tx, IInv, TInv, Finish(x),
         \A y \in Tx \ {x}, t \in Teams, u \in Users :
           memberLock[t][u] = y => member'[t][u] = member[t][u],
         \A y \in Tx \ {x}, t \in Teams :
           pc[y] \in Looking \cup {"lockMemberships"} /\ op[y].kind = "SetUserTeamMemberships"
             => (member'[t][op[y].target] # "none" => member[t][op[y].target] # "none"),
         \A t \in Teams, u \in Users : TeamAdmin(t, u) /\ ~TeamAdmin(t, u)' =>
           \/ team'[t] # "live" /\ \A y \in Tx \ {x} : ~Passed(y, t)
           \/ pc[x] = "write" /\ u = op[x].target /\ Losing(x, t),
         \A y \in Tx \ {x} :
           pc[y] # "idle" /\ op[y].kind = "CreateTeam" => team'[op[y].team] = "none",
         \A t \in Teams, u \in Users : member'[t][u] # "none" => team'[t] = "live",
         \A t \in Teams : team'[t] = "live" /\ team[t] # "live" => \E u \in Users : TeamAdmin(t, u)'
  PROVE  TInv'
<1>a. Typed /\ TypeOK BY DEF IInv, Typed
<1>b. None \notin Tx BY NoneAssumption
<1>1. /\ pc'[x] = "idle" /\ want'[x] = {} /\ todo'[x] = {}
      /\ \A t \in Teams, u \in Users :
           memberLock'[t][u] = IF memberLock[t][u] = x THEN None ELSE memberLock[t][u]
  BY <1>a DEF Finish, TypeOK
<1>2. \A y \in Tx \ {x} : Unmoved(y) BY <1>1, <1>a, <1>b DEF TypeOK, Finish, Unmoved
<1>3. ASSUME NEW y \in Tx PROVE Team(y)'
  <2>1. CASE y = x
    <3>1. Placed(x)' BY <1>1, <1>b DEF Placed
    <3>2. TodoHeld(x)' BY <1>1 DEF TodoHeld
    <3>3. RowsKnown(x)' /\ FreshTeam(x)' BY <1>1 DEF RowsKnown, FreshTeam, Looking
    <3>4. Witnessed(x)' BY <1>1 DEF Witnessed, Passed, Looking
    <3> QED BY <2>1, <3>1, <3>2, <3>3, <3>4 DEF Team
  <2>2. CASE y # x
    <3>1. Team(y) /\ Unmoved(y) BY <1>2, <2>2 DEF TInv
    <3>2. ASSUME NEW t \in Teams, Passed(y, t)
          PROVE  \E u \in Users : u # op[y].target /\ TeamAdmin(t, u)'
      <4>1. PICK u \in Users : u # op[y].target /\ TeamAdmin(t, u) BY <3>1, <3>2 DEF Team, Witnessed
      <4>2. CASE TeamAdmin(t, u)' BY <4>1, <4>2
      <4>3. CASE ~TeamAdmin(t, u)'
        <5>1. pc[x] = "write" /\ Losing(x, t) BY <2>2, <3>2, <4>1, <4>3
        <5> QED BY <2>2, <3>2, <5>1, LosesAlone
      <4> QED BY <4>2, <4>3
    <3> QED BY <1>a, <2>2, <3>1, <3>2, UnmovedTeam
  <2> QED BY <2>1, <2>2
<1>4. DistinctTeams' BY <1>1, <1>2 DEF TInv, DistinctTeams, Unmoved
<1>5. RowsLive'
  <2> SUFFICES ASSUME NEW t \in Teams, NEW u \in Users, memberLock'[t][u] # None
               PROVE  member'[t][u] # "none"
    BY DEF RowsLive
  <2>1. memberLock[t][u] # None /\ memberLock[t][u] # x BY <1>1
  <2>2. memberLock[t][u] \in Tx \ {x} BY <1>a, <2>1 DEF TypeOK
  <2> QED BY <2>1, <2>2 DEF TInv, RowsLive
<1>6. OneWaits'
  <2>1. \A t \in Teams : ~Entered(x, t)' BY <1>1 DEF Entered, Passed, Looking
  <2>2. \A y \in Tx \ {x}, t \in Teams : Entered(y, t)' => Entered(y, t) BY <1>2, <1>a, UnmovedLosing
  <2>3. \A y \in Tx \ {x} : want'[y] = want[y] /\ op'[y] = op[y] BY <1>2 DEF Unmoved
  <2> QED BY <2>1, <2>2, <2>3 DEF TInv, OneWaits
<1>7. TeamKeepsAdmin'
  <2> SUFFICES ASSUME NEW t \in Teams, team'[t] = "live" PROVE \E u \in Users : TeamAdmin(t, u)'
    BY DEF TeamKeepsAdmin
  <2>1. CASE team[t] # "live" BY <2>1
  <2>2. CASE team[t] = "live"
    <3>1. PICK u \in Users : TeamAdmin(t, u) BY <2>2 DEF TInv, TeamKeepsAdmin
    <3>2. CASE TeamAdmin(t, u)' BY <3>2
    <3>3. CASE ~TeamAdmin(t, u)'
      <4>1. pc[x] = "write" /\ Losing(x, t) BY <3>1, <3>3
      <4>2. PICK v \in Users : v # op[x].target /\ TeamAdmin(t, v) BY <4>1, LosesAlone
      <4>3. TeamAdmin(t, v)' BY <4>2
      <4> QED BY <4>3
    <3> QED BY <3>2, <3>3
  <2> QED BY <2>1, <2>2
<1> QED BY <1>3, <1>4, <1>5, <1>6, <1>7 DEF TInv

LEMMA FailTeams == ASSUME NEW x \in Tx, IInv, TInv, Fail(x) PROVE TInv'
  BY FinishTeams DEF Fail, db, TInv, RowsLive, Team, FreshTeam, TeamAdmin

\* The statements before the write.
LEMMA CheckTeams ==
  ASSUME NEW x \in Tx, IInv, TInv, \A o \in Ops : Guarded(o), Check(x)
  PROVE  TInv'
<1> DEFINE o == op[x]
<1>a. Typed /\ TypeOK BY DEF IInv, Typed
<1>b. pc[x] # "idle" => o \in Ops /\ o.actor \in Users /\ o.target \in Users /\ o.team \in Teams
  BY OpFields DEF IInv, Typed, Busy
<1>c. Routed(x) /\ Team(x) /\ RowsLive BY DEF IInv, Held, TInv
<1>d. pc[x] # "idle" => o.kind # "DeleteUser" BY <1>b DEF Guarded
<1>e. None \notin Tx BY NoneAssumption
<1>0. CASE Fail(x) BY <1>0, FailTeams
\* A statement that locks no membership, of an operation that has locked none or
\* takes no role away.
<1>1. ASSUME UNCHANGED <<db, op, memberLock, want, todo, cur>>, pc[x] # "idle",
             NEW p \in PCs \ {"lockMemberships", "readTeam", "lockTeam", "reassign"},
             pc' = [pc EXCEPT ![x] = p],
             pc[x] \notin {"lockMemberships", "readTeam", "lockTeam"},
             \A t \in Teams : ~Losing(x, t)',
             p = "anotherAdmin" => o.kind = "UpdateUser",
             p = "memberships" => o.kind = "SetUserTeamMemberships",
             p = "write" => o.kind # "SetUserTeamMemberships",
             p \in {"idle", "authorize", "authorizeMember", "lockTarget", "memberships"}
               => \A t \in Teams, u \in Users : memberLock[t][u] # x
      PROVE  TInv'
  <2>0. pc'[x] = p BY <1>1, <1>a DEF TypeOK
  <2>1. Placed(x)' BY <1>1, <1>c, <2>0 DEF Placed, Team
  <2>2. TodoHeld(x)' BY <1>1, <1>c, <2>0 DEF Placed, Team, TodoHeld
  <2>3. RowsKnown(x)' BY <1>1, <2>0 DEF RowsKnown, Looking
  <2>4. Witnessed(x)' BY <1>1 DEF Witnessed, Passed
  <2>5. FreshTeam(x)' BY <1>1, <1>c, <2>0 DEF FreshTeam, Team, db
  <2>6. Team(x)' BY <2>1, <2>2, <2>3, <2>4, <2>5 DEF Team
  <2>7. \A t \in Teams : ~Entered(x, t)' BY <1>1 DEF Entered, Passed
  <2> QED BY <1>1, <2>6, <2>7, ReadTeams
<1>2. CASE AuthorizeActor(x) /\ ~Fail(x)
  <2>1. PICK p \in {"lockTarget", "lockMember", "write", "authorizeMember"} :
          /\ LockUser(x, o.actor, p)
          /\ p = "write" => ~ActsOnUser(o)
    BY <1>2 DEF AuthorizeActor, AfterAuthorize
  <2>2. \A t \in Teams, u \in Users : memberLock[t][u] # x
    BY <1>2, <1>c DEF AuthorizeActor, Team, Placed
  <2>3. pc[x] = "authorize" BY <1>2 DEF AuthorizeActor
  <2>4. \A t \in Teams : ~Losing(x, t)' BY <1>b, <2>1, <2>2, <2>3 DEF Losing, LockUser
  <2> QED BY <1>1, <2>1, <2>2, <2>3, <2>4 DEF LockUser, Goto, PCs, ActsOnUser
<1>3. CASE AuthorizeMember(x) /\ ~Fail(x)
  <2>1. /\ pc[x] = "authorizeMember" /\ UNCHANGED <<db, op, want, todo, cur>>
        /\ pc' = [pc EXCEPT ![x] = "lockMember"]
        /\ memberLock' = [memberLock EXCEPT ![o.team][o.actor] = x]
        /\ member[o.team][o.actor] # "none" /\ MemberFree(x, o.team, o.actor)
    BY <1>3 DEF AuthorizeMember, LockMember, Goto, TeamAdmin
  <2>2. \A t \in Teams, u \in Users :
          \/ memberLock'[t][u] = memberLock[t][u]
          \/ memberLock'[t][u] = x /\ MemberFree(x, t, u) /\ member[t][u] # "none"
    BY <1>a, <1>b, <2>1 DEF TypeOK
  <2>0. pc'[x] = "lockMember" BY <1>a, <2>1 DEF TypeOK
  <2>3. Placed(x)' BY <1>c, <2>0, <2>1 DEF Placed, Team
  <2>4. TodoHeld(x)' BY <1>c, <2>0, <2>1 DEF Placed, Team, TodoHeld
  <2>5. RowsKnown(x)' /\ Witnessed(x)' BY <2>0 DEF RowsKnown, Witnessed, Passed, Looking
  <2>6. FreshTeam(x)' BY <1>c, <2>0, <2>1 DEF FreshTeam, Team, db
  <2>7. Team(x)' BY <2>3, <2>4, <2>5, <2>6 DEF Team
  <2>8. \A t \in Teams : ~Entered(x, t)' BY <2>0 DEF Entered, Passed, Looking
  <2> QED BY <2>1, <2>2, <2>7, <2>8, ReadTeams DEF PCs
<1>4. CASE ReadAuthorized(x) /\ ~Fail(x)
  <2>1. pc[x] = "authorized" /\ Advance(x, "write") /\ o.kind = "AddTeamMember"
    BY <1>4, <1>c DEF ReadAuthorized, Routed
  <2>2. \A t \in Teams : ~Losing(x, t)' BY <2>1 DEF Losing, Demands, Advance
  <2> QED BY <1>1, <2>1, <2>2 DEF Advance, Goto, PCs, locks
<1>5. CASE LockTarget(x) /\ ~Fail(x)
  <2>1. /\ pc[x] = "lockTarget" /\ LockUser(x, o.target, AfterTarget(o)) /\ ActsOnUser(o)
    BY <1>5, <1>c DEF LockTarget, Routed
  <2>2. \A t \in Teams, u \in Users : memberLock[t][u] # x BY <1>c, <2>1 DEF Team, Placed
  <2>3. \A t \in Teams : ~Losing(x, t)' BY <1>b, <2>1, <2>2 DEF Losing, LockUser
  <2>4. /\ AfterTarget(o) \in {"anotherAdmin", "write", "memberships"}
        /\ AfterTarget(o) \in {"anotherAdmin", "write"} => o.kind = "UpdateUser"
        /\ AfterTarget(o) = "memberships" => o.kind = "SetUserTeamMemberships"
    BY <1>d, <2>1 DEF AfterTarget, ActsOnUser
  <2> QED BY <1>1, <2>1, <2>2, <2>3, <2>4 DEF LockUser, Goto, PCs
<1>6. CASE EnsureAnotherActiveSystemAdmin(x) /\ ~Fail(x)
  <2>1. pc[x] = "anotherAdmin" /\ Advance(x, "write") /\ o.kind = "UpdateUser"
    BY <1>6, <1>c DEF EnsureAnotherActiveSystemAdmin, Team, Placed
  <2>2. \A t \in Teams : ~Losing(x, t)' BY <2>1 DEF Losing, Demands, Advance
  <2> QED BY <1>1, <2>1, <2>2 DEF Advance, Goto, PCs, locks
<1>7. CASE LockBootstrap(x)
  <2>1. pc[x] = "bootstrap" /\ o.kind = "BootstrapAdmin" BY <1>7, <1>c DEF LockBootstrap, Routed
  <2>2. \A t \in Teams : ~Losing(x, t)' BY <1>7, <2>1 DEF Losing, Demands, LockBootstrap
  <2> QED BY <1>1, <1>7, <2>1, <2>2 DEF LockBootstrap, Goto, PCs
<1>8. CASE CheckBootstrapped(x) /\ ~Fail(x)
  <2>1. pc[x] = "exists" /\ o.kind = "BootstrapAdmin" /\ Advance(x, "write")
    BY <1>8, <1>c DEF CheckBootstrapped, Routed
  <2>2. \A t \in Teams : ~Losing(x, t)' BY <2>1 DEF Losing, Demands, Advance
  <2> QED BY <1>1, <2>1, <2>2 DEF Advance, Goto, PCs, locks
<1>9. CASE Reassign(x) BY <1>9, <1>c DEF Reassign, Team, Placed
<1>10. CASE LockTeamMember(x) /\ ~Fail(x)
  <2> DEFINE last == TeamAdmin(o.team, o.target) /\ (o.kind = "RemoveTeamMember" \/ o.role # "admin")
             p == IF last THEN "readTeam" ELSE "write"
  <2>1. /\ pc[x] = "lockMember" /\ UNCHANGED <<db, op, want, cur>>
        /\ pc' = [pc EXCEPT ![x] = p]
        /\ memberLock' = [memberLock EXCEPT ![o.team][o.target] = x]
        /\ todo' = [todo EXCEPT ![x] = IF last THEN {o.team} ELSE {}]
        /\ member[o.team][o.target] # "none" /\ MemberFree(x, o.team, o.target)
        /\ TeamScoped(o)
    BY <1>10, <1>c DEF LockTeamMember, LockMember, Goto, Routed
  <2>2. \A t \in Teams, u \in Users :
          \/ memberLock'[t][u] = memberLock[t][u]
          \/ memberLock'[t][u] = x /\ MemberFree(x, t, u) /\ member[t][u] # "none"
    BY <1>a, <1>b, <2>1 DEF TypeOK
  <2>3. \A t \in Teams : Losing(x, t)' <=> last /\ t = o.team
    <3>1. pc'[x] # "idle" /\ op' = op /\ member' = member BY <1>a, <2>1 DEF TypeOK, db
    <3>2. memberLock'[o.team][o.target] = x BY <1>a, <1>b, <2>1 DEF TypeOK
    <3> QED BY <1>b, <2>1, <3>1, <3>2 DEF Losing, Demands, TeamAdmin, TeamScoped
  <2>4. pc'[x] = p /\ todo'[x] = (IF last THEN {o.team} ELSE {}) /\ op'[x] = o /\ want'[x] = want[x]
    BY <1>a, <2>1 DEF TypeOK
  <2> HIDE DEF last
  <2>5. Placed(x)' BY <1>c, <2>1, <2>4 DEF Placed, Team
  <2>6. TodoHeld(x)' BY <1>b, <2>1, <2>3, <2>4 DEF TodoHeld
  <2>7. RowsKnown(x)' BY <2>1, <2>4 DEF RowsKnown, TeamScoped
  <2>8. \A t \in Teams : ~Passed(x, t)' BY <2>3, <2>4 DEF Passed
  <2>9. Witnessed(x)' BY <2>8 DEF Witnessed
  <2>10. FreshTeam(x)' BY <2>1, <2>4 DEF FreshTeam, TeamScoped
  <2>11. Team(x)' BY <2>5, <2>6, <2>7, <2>9, <2>10 DEF Team
  <2>12. \A t \in Teams : ~Entered(x, t)' BY <2>4, <2>8 DEF Entered
  <2>13. p \in PCs /\ \A y \in Tx \ {x} : want'[y] = want[y] /\ todo'[y] = todo[y] /\ cur'[y] = cur[y]
    BY <1>a, <2>1 DEF PCs, TypeOK
  <2> HIDE DEF p
  <2> QED BY <2>1, <2>2, <2>11, <2>12, <2>13, ReadTeams
<1>11. CASE ReadMemberships(x)
  <2>1. /\ pc[x] = "memberships" /\ UNCHANGED <<db, op, memberLock, todo, cur>>
        /\ pc' = [pc EXCEPT ![x] = "lockMemberships"]
        /\ o.kind = "SetUserTeamMemberships"
        /\ \A y \in Tx \ {x} : want'[y] = want[y]
    BY <1>11, <1>a, <1>c DEF ReadMemberships, Goto, Team, Placed, locks, TypeOK
  <2>2. want'[x] = {r \in Teams \X {o.target} : member[r[1]][r[2]] \in {"member", "admin"}}
    BY <1>11, <1>a, <2>1 DEF ReadMemberships, TypeOK
  <2>3. pc'[x] = "lockMemberships" BY <1>a, <2>1 DEF TypeOK
  <2>4. \A t \in Teams : ~Losing(x, t)' BY <1>b, <1>c, <2>1 DEF Losing, Team, Placed
  <2>5. Placed(x)' BY <2>1, <2>2, <2>3 DEF Placed
  <2>6. TodoHeld(x)' BY <1>c, <2>1, <2>3, <2>4 DEF TodoHeld, Team, Placed
  <2>7. RowsKnown(x)'
    <3>1. \A t \in Teams : member[t][o.target] \in TeamRole BY <1>a, <1>b, <2>1 DEF TypeOK
    <3>2. \A t \in Teams : member[t][o.target] # "none" => <<t, o.target>> \in want'[x]
      BY <2>2, <3>1 DEF TeamRole
    <3> QED BY <2>1, <2>3, <3>2 DEF RowsKnown, db
  <2>8. Witnessed(x)' /\ FreshTeam(x)' BY <2>1, <2>4 DEF Witnessed, Passed, FreshTeam
  <2>9. Team(x)' BY <2>5, <2>6, <2>7, <2>8 DEF Team
  <2>10. \A t \in Teams : ~Entered(x, t)' BY <2>4 DEF Entered, Passed
  <2> QED BY <2>1, <2>9, <2>10, ReadTeams DEF PCs
\* One row of a SELECT ... FOR UPDATE.
<1>12. ASSUME NEW r \in want[x], TakeRow(x, r), pc[x] \in {"lockMemberships", "lockTeam"}
       PROVE  /\ r \in Teams \X Users /\ r = <<r[1], r[2]>>
              /\ want'[x] = want[x] \ {r}
              /\ \A t \in Teams, u \in Users :
                   /\ \/ memberLock'[t][u] = memberLock[t][u]
                      \/ memberLock'[t][u] = x /\ MemberFree(x, t, u) /\ member[t][u] # "none"
                   /\ memberLock'[t][u] = x => memberLock[t][u] = x \/ r = <<t, u>>
              /\ member[r[1]][r[2]] # "none" =>
                   MemberFree(x, r[1], r[2]) /\ memberLock'[r[1]][r[2]] = x
              /\ pc' = [pc EXCEPT ![x] = pc[x]]
              /\ UNCHANGED <<db, op, pc, cur>>
              /\ \A y \in Tx \ {x} : want'[y] = want[y]
  <2>1. r \in Teams \X Users /\ r = <<r[1], r[2]>> BY <1>12, <1>a DEF TypeOK
  <2>2. want'[x] = want[x] \ {r} /\ UNCHANGED <<db, op, pc, cur>>
        /\ \A y \in Tx \ {x} : want'[y] = want[y]
    BY <1>12, <1>a DEF TakeRow, TypeOK
  <2>3. pc' = [pc EXCEPT ![x] = pc[x]] BY <2>2, <1>a DEF TypeOK
  <2>4. \A t \in Teams, u \in Users :
          /\ \/ memberLock'[t][u] = memberLock[t][u]
             \/ memberLock'[t][u] = x /\ MemberFree(x, t, u) /\ member[t][u] # "none"
          /\ memberLock'[t][u] = x => memberLock[t][u] = x \/ r = <<t, u>>
    BY <1>12, <1>a, <2>1 DEF TakeRow, TypeOK
  <2>5. member[r[1]][r[2]] # "none" => MemberFree(x, r[1], r[2]) /\ memberLock'[r[1]][r[2]] = x
    BY <1>12, <1>a, <2>1 DEF TakeRow, TypeOK
  <2> QED BY <2>1, <2>2, <2>3, <2>4, <2>5
<1>13. ASSUME NEW r \in want[x], LockMembership(x, r) PROVE TInv'
  <2>0. TakeRow(x, r) /\ pc[x] = "lockMemberships" BY <1>13 DEF LockMembership
  <2>1. /\ r \in Teams \X Users /\ r = <<r[1], r[2]>>
        /\ want'[x] = want[x] \ {r}
        /\ \A t \in Teams, u \in Users :
             /\ \/ memberLock'[t][u] = memberLock[t][u]
                \/ memberLock'[t][u] = x /\ MemberFree(x, t, u) /\ member[t][u] # "none"
             /\ memberLock'[t][u] = x => memberLock[t][u] = x \/ r = <<t, u>>
        /\ member[r[1]][r[2]] # "none" => MemberFree(x, r[1], r[2]) /\ memberLock'[r[1]][r[2]] = x
        /\ pc' = [pc EXCEPT ![x] = pc[x]]
        /\ UNCHANGED <<db, op, pc, cur>>
        /\ \A y \in Tx \ {x} : want'[y] = want[y]
    BY <1>12, <2>0
  <2>2. r[1] \in Teams /\ r[2] = o.target /\ o.kind = "SetUserTeamMemberships"
    BY <1>c, <2>0, <2>1 DEF Team, Placed
  <2>3. /\ todo'[x] = IF TeamAdmin(r[1], r[2]) /\ LoseAdmin(o, r[1])
                        THEN todo[x] \cup {r[1]} ELSE todo[x]
        /\ \A y \in Tx \ {x} : todo'[y] = todo[y]
    BY <1>13, <1>a DEF LockMembership, TypeOK
  <2>4. \A t \in Teams : /\ Losing(x, t) => Losing(x, t)'
                         /\ Losing(x, t)' => Losing(x, t) \/ (t = r[1] /\ TeamAdmin(t, r[2]) /\ LoseAdmin(o, t))
    BY <1>b, <2>0, <2>1, <2>2 DEF Losing, Demands, TeamAdmin, LoseAdmin, db
  <2>5. TeamAdmin(r[1], r[2]) /\ LoseAdmin(o, r[1]) => Losing(x, r[1])'
    BY <1>b, <2>0, <2>1, <2>2 DEF Losing, Demands, TeamAdmin, LoseAdmin, db
  <2>6. Placed(x)' BY <1>c, <2>0, <2>1, <2>2 DEF Team, Placed
  <2>7. TodoHeld(x)'
    <3>1. todo[x] \subseteq Teams BY <1>a DEF TypeOK
    <3> QED BY <1>c, <2>0, <2>1, <2>2, <2>3, <2>4, <2>5, <3>1 DEF Team, TodoHeld
  <2>8. RowsKnown(x)'
    <3> SUFFICES ASSUME NEW t \in Teams, member[t][o.target] # "none"
                 PROVE  memberLock'[t][o.target] = x \/ <<t, o.target>> \in want'[x]
      BY <2>0, <2>1 DEF RowsKnown, db
    <3>1. memberLock[t][o.target] = x \/ <<t, o.target>> \in want[x]
      BY <1>c, <2>0, <2>2 DEF Team, RowsKnown
    <3> QED BY <1>b, <2>0, <2>1, <2>2, <3>1
  <2>9. Witnessed(x)' /\ FreshTeam(x)' BY <2>0, <2>1, <2>2 DEF Witnessed, Passed, FreshTeam, Looking
  <2>10. Team(x)' BY <2>6, <2>7, <2>8, <2>9 DEF Team
  <2>11. \A t \in Teams : ~Entered(x, t)' BY <2>0, <2>1 DEF Entered, Passed, Looking
  <2>12. PICK p \in PCs : p = pc[x] /\ p # "idle" /\ pc' = [pc EXCEPT ![x] = p]
    BY <1>a, <2>0, <2>1 DEF TypeOK
  <2>13. /\ \A t \in Teams, u \in Users :
              \/ memberLock'[t][u] = memberLock[t][u]
              \/ memberLock'[t][u] = x /\ MemberFree(x, t, u) /\ member[t][u] # "none"
         /\ \A y \in Tx \ {x} : want'[y] = want[y] /\ todo'[y] = todo[y] /\ cur'[y] = cur[y]
         /\ UNCHANGED <<db, op>>
    BY <2>3, <2>1
  <2> QED BY <2>10, <2>11, <2>12, <2>13, ReadTeams
<1>14. CASE MembershipsLocked(x)
  <2> DEFINE p == IF todo[x] = {} THEN "write" ELSE "readTeam"
  <2>1. /\ pc[x] = "lockMemberships" /\ want[x] = {} /\ o.kind = "SetUserTeamMemberships"
        /\ UNCHANGED <<db, op, memberLock, want, todo, cur>>
        /\ pc' = [pc EXCEPT ![x] = p]
    BY <1>14, <1>c DEF MembershipsLocked, Advance, Goto, AfterEnsure, Team, Placed, locks
  <2>2. pc'[x] = p /\ p \in PCs BY <1>a, <2>1 DEF TypeOK, PCs
  <2>3. \A t \in Teams : Losing(x, t)' <=> Losing(x, t)
    BY <2>1, <2>2 DEF Losing, Demands, TeamAdmin, db
  <2>4. \A t \in Teams : Losing(x, t) <=> t \in todo[x]
    BY <1>c, <2>1 DEF Team, TodoHeld
  <2>5. Placed(x)' BY <2>1, <2>2 DEF Placed
  <2>6. TodoHeld(x)' BY <1>a, <2>1, <2>2, <2>3, <2>4 DEF TodoHeld, TypeOK
  <2>7. RowsKnown(x)' BY <1>c, <2>1, <2>2 DEF RowsKnown, Team, db
  <2>8. \A t \in Teams : ~Passed(x, t)' BY <2>1, <2>3, <2>4 DEF Passed
  <2>9. Witnessed(x)' /\ FreshTeam(x)' BY <2>1, <2>8 DEF Witnessed, FreshTeam
  <2>10. Team(x)' BY <2>5, <2>6, <2>7, <2>9 DEF Team
  <2>11. \A t \in Teams : ~Entered(x, t)' BY <2>2, <2>8 DEF Entered
  <2> HIDE DEF p
  <2> QED BY <2>1, <2>2, <2>10, <2>11, ReadTeams
<1>15. ASSUME NEW t \in todo[x], ReadTeam(x, t) PROVE TInv'
  <2>0. t \in Teams BY <1>a DEF TypeOK
  <2>1. /\ pc[x] = "readTeam" /\ UNCHANGED <<db, op, memberLock, todo>>
        /\ pc' = [pc EXCEPT ![x] = "lockTeam"]
        /\ pc'[x] = "lockTeam" /\ cur'[x] = t
        /\ want'[x] = {r \in {t} \X Users : member[t][r[2]] # "none"}
        /\ \A y \in Tx \ {x} : want'[y] = want[y] /\ cur'[y] = cur[y]
        /\ o.kind # "CreateTeam"
    BY <1>15, <1>a, <1>c DEF ReadTeam, Goto, TypeOK, locks, Routed, TeamScoped, ActsOnUser
  <2>2. \A tt \in Teams : Losing(x, tt)' <=> Losing(x, tt)
    BY <2>1 DEF Losing, Demands, TeamAdmin, db
  <2>3. Placed(x)' BY <2>1 DEF Placed
  <2>4. TodoHeld(x)' BY <1>a, <1>c, <2>1, <2>2 DEF TodoHeld, Team, TypeOK
  <2>5. RowsKnown(x)' BY <1>c, <2>1 DEF RowsKnown, Team, db, Looking
  <2>6. \A tt \in Teams : Passed(x, tt)' <=> Passed(x, tt) BY <2>1, <2>2 DEF Passed, Looking
  <2>7. Witnessed(x)' /\ FreshTeam(x)'
    BY <1>c, <2>1, <2>6 DEF Witnessed, FreshTeam, Team, TeamAdmin, db
  <2>8. Team(x)' BY <2>3, <2>4, <2>5, <2>7 DEF Team
  <2>9. ASSUME NEW y \in Tx \ {x}, NEW tt \in Teams, Entered(x, tt)', Entered(y, tt)
        PROVE  <<tt, o.target>> \in want[y] \/ <<tt, op[y].target>> \in want'[x]
    <3>1. CASE tt = t
      <4>1. pc[y] # "idle" /\ TeamAdmin(t, op[y].target) BY <2>9, <3>1 DEF Entered, Passed, Losing
      <4>2. op[y].target \in Users BY <4>1, OpFields DEF IInv, Typed, Busy
      <4> QED BY <2>1, <3>1, <4>1, <4>2 DEF TeamAdmin
    <3>2. CASE tt # t
      <4>1. Entered(x, tt) BY <2>1, <2>6, <2>9, <3>2 DEF Entered
      <4>2. want[x] = {} BY <1>c, <2>1 DEF Team, Placed
      <4> QED BY <2>9, <4>1, <4>2 DEF TInv, OneWaits
    <3> QED BY <3>1, <3>2
  <2> QED BY <2>1, <2>8, <2>9, ReadTeams DEF PCs
<1>16. ASSUME NEW r \in want[x], LockTeamRow(x, r) PROVE TInv'
  <2>0. TakeRow(x, r) /\ pc[x] = "lockTeam" /\ UNCHANGED todo BY <1>16 DEF LockTeamRow
  <2>1. /\ r \in Teams \X Users /\ r = <<r[1], r[2]>>
        /\ want'[x] = want[x] \ {r}
        /\ \A t \in Teams, u \in Users :
             /\ \/ memberLock'[t][u] = memberLock[t][u]
                \/ memberLock'[t][u] = x /\ MemberFree(x, t, u) /\ member[t][u] # "none"
             /\ memberLock'[t][u] = x => memberLock[t][u] = x \/ r = <<t, u>>
        /\ member[r[1]][r[2]] # "none" => MemberFree(x, r[1], r[2]) /\ memberLock'[r[1]][r[2]] = x
        /\ pc' = [pc EXCEPT ![x] = pc[x]]
        /\ UNCHANGED <<db, op, pc, cur>>
        /\ \A y \in Tx \ {x} : want'[y] = want[y]
    BY <1>12, <2>0
  <2>2. r[1] = cur[x] /\ cur[x] \in todo[x] /\ cur[x] \in Teams
    BY <1>a, <1>c, <2>0, <2>1 DEF Team, Placed, TypeOK
  <2>3. memberLock[cur[x]][o.target] = x BY <1>c, <2>2 DEF Team, TodoHeld, Losing
  <2>4. \A t \in Teams : memberLock'[t][o.target] = x <=> memberLock[t][o.target] = x
    BY <1>b, <2>0, <2>1, <2>2, <2>3
  <2>5. \A t \in Teams : Losing(x, t)' <=> Losing(x, t)
    BY <2>1, <2>4 DEF Losing, Demands, TeamAdmin, db
  <2>6. \A t \in Teams : /\ Passed(x, t)' <=> Passed(x, t)
                         /\ Entered(x, t)' <=> Entered(x, t)
    BY <2>0, <2>1, <2>5 DEF Passed, Entered
  <2>7. o.kind # "CreateTeam" BY <1>c, <2>0 DEF Routed, TeamScoped, ActsOnUser
  <2>8. Placed(x)' BY <1>c, <2>0, <2>1 DEF Placed, Team
  <2>9. TodoHeld(x)' BY <1>a, <1>c, <2>0, <2>1, <2>5 DEF TodoHeld, Team, TypeOK
  <2>10. RowsKnown(x)' BY <1>c, <2>0, <2>1, <2>4 DEF RowsKnown, Team, db
  <2>11. Witnessed(x)' /\ FreshTeam(x)'
    BY <1>c, <2>1, <2>6, <2>7 DEF Witnessed, FreshTeam, Team, TeamAdmin, db
  <2>12. Team(x)' BY <2>8, <2>9, <2>10, <2>11 DEF Team
  <2>13. ASSUME NEW y \in Tx \ {x}, NEW t \in Teams, Entered(x, t)', Entered(y, t)
         PROVE  <<t, o.target>> \in want[y] \/ <<t, op[y].target>> \in want'[x]
    <3>1. <<t, o.target>> \in want[y] \/ <<t, op[y].target>> \in want[x]
      BY <2>6, <2>13 DEF TInv, OneWaits
    <3>2. memberLock[t][op[y].target] = y /\ member[t][op[y].target] = "admin"
      BY <2>13 DEF Entered, Passed, Losing, TeamAdmin
    <3>3. r # <<t, op[y].target>> BY <1>e, <2>1, <3>2 DEF MemberFree
    <3> QED BY <2>1, <3>1, <3>3
  <2>14. PICK p \in PCs : p = pc[x] /\ p # "idle" /\ pc' = [pc EXCEPT ![x] = p]
    BY <1>a, <2>0, <2>1 DEF TypeOK
  <2>15. /\ \A t \in Teams, u \in Users :
              \/ memberLock'[t][u] = memberLock[t][u]
              \/ memberLock'[t][u] = x /\ MemberFree(x, t, u) /\ member[t][u] # "none"
         /\ \A y \in Tx \ {x} : want'[y] = want[y] /\ todo'[y] = todo[y] /\ cur'[y] = cur[y]
         /\ UNCHANGED <<db, op>>
    BY <2>0, <2>1
  <2> QED BY <2>12, <2>13, <2>14, <2>15, ReadTeams
<1>17. CASE EnsureAnotherTeamAdmin(x) /\ ~Fail(x)
  <2> DEFINE p == IF todo[x] = {cur[x]} THEN "write" ELSE "readTeam"
             c == cur[x]
  <2>1. /\ pc[x] = "lockTeam" /\ want[x] = {}
        /\ UNCHANGED <<db, op, memberLock, want, cur>>
        /\ pc' = [pc EXCEPT ![x] = p]
        /\ todo' = [todo EXCEPT ![x] = @ \ {c}]
        /\ \E u \in Users \ {o.target} : TeamAdmin(c, u)
        /\ o.kind # "CreateTeam"
    BY <1>17, <1>c, <1>d DEF EnsureAnotherTeamAdmin, Goto, AfterEnsure, locks, Routed, TeamScoped, ActsOnUser
  <2>2. /\ pc'[x] = p /\ p \in PCs /\ todo'[x] = todo[x] \ {c} /\ todo[x] \subseteq Teams
        /\ \A y \in Tx \ {x} : todo'[y] = todo[y]
    BY <1>a, <2>1 DEF TypeOK, PCs
  <2>3. c \in todo[x] BY <1>c, <2>1 DEF Team, Placed
  <2>4. \A t \in Teams : Losing(x, t)' <=> Losing(x, t)
    BY <2>1, <2>2 DEF Losing, Demands, TeamAdmin, db
  <2>5. Placed(x)' BY <2>1, <2>2 DEF Placed
  <2>6. TodoHeld(x)' BY <1>c, <2>2, <2>4 DEF TodoHeld, Team
  <2>7. RowsKnown(x)' BY <1>c, <2>1, <2>2 DEF RowsKnown, Team, db, Looking
  <2>8. \A t \in Teams : Passed(x, t)' => t = c \/ Passed(x, t)
    BY <2>1, <2>2, <2>4 DEF Passed, Looking
  <2>9. Witnessed(x)'
    BY <1>c, <2>1, <2>8 DEF Witnessed, Team, TeamAdmin, db
  <2>10. FreshTeam(x)' BY <2>1 DEF FreshTeam
  <2>11. Team(x)' BY <2>5, <2>6, <2>7, <2>9, <2>10 DEF Team
  <2>12. \A t \in Teams : Entered(x, t)' => Entered(x, t)
    BY <2>1, <2>2, <2>3, <2>4, <2>8 DEF Entered, Passed
  <2>13. ASSUME NEW y \in Tx \ {x}, NEW t \in Teams, Entered(x, t)', Entered(y, t)
         PROVE  <<t, o.target>> \in want[y] \/ <<t, op[y].target>> \in want'[x]
    BY <2>1, <2>12, <2>13 DEF TInv, OneWaits
  <2> HIDE DEF p
  <2> QED BY <2>1, <2>2, <2>11, <2>13, ReadTeams
<1> QED BY <1>0, <1>2, <1>3, <1>4, <1>5, <1>6, <1>7, <1>8, <1>9, <1>10, <1>11, <1>13, <1>14,
           <1>15, <1>16, <1>17 DEF Check

\* The writes.
LEMMA WriteTeams ==
  ASSUME NEW x \in Tx, IInv, TInv, \A o \in Ops : Guarded(o), Write(x)
  PROVE  TInv'
<1> DEFINE o == op[x]
<1>a. TypeOK /\ RowsLive /\ Held(x) /\ Team(x) BY DEF IInv, Typed, TInv
<1>b. pc[x] = "write" BY DEF Write, BootstrapAdmin, CreateUser, CreateTeam, UpdateUser, DeleteUser,
        UpdateTeam, DeleteTeam, AddTeamMember, SetTeamMemberRole, RemoveTeamMember,
        SetUserTeamMemberships, Writing
<1>c. o \in Ops /\ o.actor \in Users /\ o.target \in Users /\ o.team \in Teams
      /\ o.assign \in [Teams -> TeamRole]
  BY <1>b, OpFields DEF IInv, Typed, Busy
<1>d. Guarded(o) BY <1>c
<1>e. None \notin Tx BY NoneAssumption
<1>0. CASE Fail(x) BY <1>0, FailTeams
<1> SUFFICES ASSUME ~Fail(x) PROVE TInv' BY <1>0
\* Whoever replaces the memberships of a user holds the row of the user.
<1>1. ASSUME NEW y \in Tx \ {x}, pc[y] \in Looking \cup {"lockMemberships"},
             op[y].kind = "SetUserTeamMemberships"
      PROVE  op[y].target \in Users /\ userLock[op[y].target] = y
  <2>1. op[y] \in Ops /\ Held(y) BY <1>1 DEF IInv, Typed, Busy, Looking
  <2> QED BY <1>1, <2>1, OpFields DEF Held, TargetHeld, ActsOnUser, Looking
<1>2. \A y \in Tx \ {x} : pc[y] # "idle" /\ op[y].kind = "CreateTeam" => team[op[y].team] = "none"
  BY DEF TInv, Team, FreshTeam
\* A locked row is one of a live team.
<1>3. \A y \in Tx, t \in Teams, u \in Users :
        memberLock[t][u] = y => member[t][u] # "none" /\ team[t] = "live"
  BY <1>a, <1>e DEF RowsLive
<1>4. CASE BootstrapAdmin(x) \/ CreateUser(x) \/ UpdateUser(x) \/ UpdateTeam(x)
  <2>1. Finish(x) /\ UNCHANGED <<team, member>>
    BY <1>4 DEF BootstrapAdmin, CreateUser, UpdateUser, UpdateTeam, db
  <2> QED BY <1>2, <1>a, <2>1, FinishTeams DEF RowsLive, TeamAdmin
<1>5. CASE CreateTeam(x)
  <2>1. /\ Finish(x) /\ o.kind = "CreateTeam" /\ team[o.team] = "none" /\ userLock[o.actor] = x
        /\ team' = [team EXCEPT ![o.team] = "live"]
        /\ member' = [member EXCEPT ![o.team][o.actor] = "admin"]
    BY <1>5, <1>a, <1>b DEF CreateTeam, Writing, Team, FreshTeam, Held, ActorHeld, Locking
  <2>2. \A t \in Teams, u \in Users :
          member'[t][u] = IF t = o.team /\ u = o.actor THEN "admin" ELSE member[t][u]
    BY <1>a, <1>c, <2>1 DEF TypeOK
  <2>3. \A t \in Teams : team'[t] = IF t = o.team THEN "live" ELSE team[t]
    BY <1>a, <1>c, <2>1 DEF TypeOK
  <2>4. \A y \in Tx \ {x}, t \in Teams, u \in Users : memberLock[t][u] = y => member'[t][u] = member[t][u]
    BY <1>3, <2>1, <2>2
  <2>5. \A y \in Tx \ {x}, t \in Teams :
          pc[y] \in Looking \cup {"lockMemberships"} /\ op[y].kind = "SetUserTeamMemberships"
            => (member'[t][op[y].target] # "none" => member[t][op[y].target] # "none")
    BY <1>1, <2>1, <2>2
  <2>6. \A y \in Tx \ {x} : pc[y] # "idle" /\ op[y].kind = "CreateTeam" => team'[op[y].team] = "none"
    <3> SUFFICES ASSUME NEW y \in Tx \ {x}, pc[y] # "idle", op[y].kind = "CreateTeam"
                 PROVE  team'[op[y].team] = "none"
      OBVIOUS
    <3>1. op[y].team # o.team BY <1>b, <2>1 DEF TInv, DistinctTeams
    <3>2. op[y].team \in Teams BY OpFields DEF IInv, Typed, Busy
    <3> QED BY <1>2, <2>3, <3>1, <3>2
  <2>7. \A t \in Teams, u \in Users : member'[t][u] # "none" => team'[t] = "live"
    BY <1>a, <2>2, <2>3 DEF RowsLive
  <2>8. \A t \in Teams, u \in Users : TeamAdmin(t, u) => TeamAdmin(t, u)' BY <2>2 DEF TeamAdmin
  <2>9. \A t \in Teams : team'[t] = "live" /\ team[t] # "live" => \E u \in Users : TeamAdmin(t, u)'
    BY <1>c, <2>2, <2>3 DEF TeamAdmin
  <2> QED BY <2>1, <2>4, <2>5, <2>6, <2>7, <2>8, <2>9, FinishTeams
<1>6. CASE DeleteUser(x) BY <1>6, <1>d DEF DeleteUser, Writing, Guarded
<1>7. CASE DeleteTeam(x)
  <2>1. /\ Finish(x) /\ team[o.team] = "live"
        /\ \A u \in Users : member[o.team][u] # "none" => MemberFree(x, o.team, u)
        /\ team' = [team EXCEPT ![o.team] = "deleted"]
        /\ member' = [member EXCEPT ![o.team] = [u \in Users |-> "none"]]
    BY <1>7 DEF DeleteTeam
  <2>2. \A t \in Teams, u \in Users : member'[t][u] = IF t = o.team THEN "none" ELSE member[t][u]
    BY <1>a, <1>c, <2>1 DEF TypeOK
  <2>3. \A t \in Teams : team'[t] = IF t = o.team THEN "deleted" ELSE team[t]
    BY <1>a, <1>c, <2>1 DEF TypeOK
  <2>4. \A y \in Tx \ {x}, u \in Users : memberLock[o.team][u] # y
    BY <1>3, <1>c, <1>e, <2>1 DEF MemberFree
  <2>5. \A y \in Tx \ {x} : ~Passed(y, o.team)
    <3> SUFFICES ASSUME NEW y \in Tx \ {x}, Passed(y, o.team) PROVE FALSE OBVIOUS
    <3>1. pc[y] # "idle" /\ memberLock[o.team][op[y].target] = y BY DEF Passed, Losing
    <3>2. op[y].target \in Users BY <3>1, OpFields DEF IInv, Typed, Busy
    <3> QED BY <2>4, <3>1, <3>2
  <2>6. \A y \in Tx \ {x} : pc[y] # "idle" /\ op[y].kind = "CreateTeam" => team'[op[y].team] = "none"
    <3> SUFFICES ASSUME NEW y \in Tx \ {x}, pc[y] # "idle", op[y].kind = "CreateTeam"
                 PROVE  team'[op[y].team] = "none"
      OBVIOUS
    <3>1. op[y].team \in Teams BY OpFields DEF IInv, Typed, Busy
    <3> QED BY <1>2, <2>1, <2>3, <3>1
  <2>7. \A t \in Teams, u \in Users : TeamAdmin(t, u) /\ ~TeamAdmin(t, u)' => t = o.team
    BY <2>2 DEF TeamAdmin
  <2>8. team'[o.team] # "live" BY <1>c, <2>3
  <2>9. \A t \in Teams, u \in Users : TeamAdmin(t, u) /\ ~TeamAdmin(t, u)' =>
          team'[t] # "live" /\ \A y \in Tx \ {x} : ~Passed(y, t)
    BY <2>5, <2>7, <2>8
  <2>10. \A t \in Teams, u \in Users : member'[t][u] # "none" => team'[t] = "live"
    BY <1>a, <2>2, <2>3 DEF RowsLive
  <2>11. \A t \in Teams : team'[t] = "live" => team[t] = "live" BY <2>3
  <2>12. \A y \in Tx \ {x}, t \in Teams, u \in Users : memberLock[t][u] = y => member'[t][u] = member[t][u]
    BY <2>2, <2>4
  <2>13. \A y \in Tx \ {x}, t \in Teams :
          pc[y] \in Looking \cup {"lockMemberships"} /\ op[y].kind = "SetUserTeamMemberships"
            => (member'[t][op[y].target] # "none" => member[t][op[y].target] # "none")
    BY <1>1, <2>2
  <2> QED BY <2>1, <2>6, <2>9, <2>10, <2>11, <2>12, <2>13, FinishTeams
\* The writes of one membership, in a live team.
<1>8. ASSUME NEW role, Finish(x), UNCHANGED team,
             member' = [member EXCEPT ![o.team][o.target] = role],
             \A y \in Tx \ {x} : memberLock[o.team][o.target] # y,
             member[o.team][o.target] = "none" => UserFree(x, o.target),
             team[o.team] = "live",
             TeamAdmin(o.team, o.target) /\ role # "admin" => Losing(x, o.team)
      PROVE  TInv'
  <2>1. \A t \in Teams, u \in Users :
          member'[t][u] = IF t = o.team /\ u = o.target THEN role ELSE member[t][u]
    BY <1>a, <1>c, <1>8 DEF TypeOK
  <2>2. \A y \in Tx \ {x}, t \in Teams, u \in Users : memberLock[t][u] = y => member'[t][u] = member[t][u]
    BY <1>8, <2>1
  <2>3. \A y \in Tx \ {x}, t \in Teams :
          pc[y] \in Looking \cup {"lockMemberships"} /\ op[y].kind = "SetUserTeamMemberships"
            => (member'[t][op[y].target] # "none" => member[t][op[y].target] # "none")
    BY <1>1, <1>8, <1>e, <2>1 DEF UserFree
  <2>4. \A t \in Teams, u \in Users : TeamAdmin(t, u) /\ ~TeamAdmin(t, u)' =>
          pc[x] = "write" /\ u = o.target /\ Losing(x, t)
    BY <1>8, <1>b, <2>1 DEF TeamAdmin
  <2>5. \A t \in Teams, u \in Users : member'[t][u] # "none" => team'[t] = "live"
    BY <1>8, <1>a, <2>1 DEF RowsLive
  <2> QED BY <1>2, <1>8, <2>2, <2>3, <2>4, <2>5, FinishTeams
<1>9. CASE AddTeamMember(x)
  <2>1. /\ Finish(x) /\ UNCHANGED team /\ o.role = "admin"
        /\ member' = [member EXCEPT ![o.team][o.target] = o.role]
        /\ IF member[o.team][o.target] # "none" THEN MemberFree(x, o.team, o.target)
                                                ELSE UserFree(x, o.target)
        /\ team[o.team] = "live"
    BY <1>9, <1>d DEF AddTeamMember, Writing, Guarded
  <2>2. \A y \in Tx \ {x} : memberLock[o.team][o.target] # y
    BY <1>3, <1>c, <1>e, <2>1 DEF MemberFree
  <2> QED BY <1>8, <2>1, <2>2
<1>10. CASE SetTeamMemberRole(x) \/ RemoveTeamMember(x)
  <2>1. memberLock[o.team][o.target] = x /\ Finish(x) /\ UNCHANGED team
    BY <1>10, <1>a, <1>b DEF SetTeamMemberRole, RemoveTeamMember, Writing, Held, MemberHeld, TeamScoped
  <2>2. member[o.team][o.target] # "none" /\ team[o.team] = "live" BY <1>3, <1>c, <2>1
  <2>3. CASE SetTeamMemberRole(x)
    <3>1. member' = [member EXCEPT ![o.team][o.target] = o.role] /\ o.kind = "SetTeamMemberRole"
      BY <2>3 DEF SetTeamMemberRole, Writing
    <3>2. TeamAdmin(o.team, o.target) /\ o.role # "admin" => Losing(x, o.team)
      BY <1>b, <2>1, <3>1 DEF Losing, Demands
    <3> QED BY <1>8, <2>1, <2>2, <3>1, <3>2
  <2>4. CASE RemoveTeamMember(x)
    <3>1. member' = [member EXCEPT ![o.team][o.target] = "none"] /\ o.kind = "RemoveTeamMember"
      BY <2>4 DEF RemoveTeamMember, Writing
    <3>2. TeamAdmin(o.team, o.target) => Losing(x, o.team)
      BY <1>b, <2>1, <3>1 DEF Losing, Demands
    <3> QED BY <1>8, <2>1, <2>2, <3>1, <3>2
  <2> QED BY <1>10, <2>3, <2>4
<1>11. CASE SetUserTeamMemberships(x)
  <2> DEFINE desired == {t \in Teams : o.assign[t] # "none"}
  <2>1. /\ Finish(x) /\ UNCHANGED team /\ o.kind = "SetUserTeamMemberships"
        /\ \A t \in desired : member[t][o.target] # "none" => MemberFree(x, t, o.target)
        /\ \A t \in desired : team[t] = "live"
    BY <1>11 DEF SetUserTeamMemberships, Writing
  <2>2. member' = [t \in Teams |-> [member[t] EXCEPT ![o.target] =
                     IF t \in desired THEN o.assign[t]
                     ELSE IF memberLock[t][o.target] = x THEN "none" ELSE @]]
    BY <1>11 DEF SetUserTeamMemberships
  <2>3. \A t \in Teams, u \in Users :
          member'[t][u] = IF u # o.target THEN member[t][u]
                          ELSE IF o.assign[t] # "none" THEN o.assign[t]
                          ELSE IF memberLock[t][u] = x THEN "none" ELSE member[t][u]
    BY <1>a, <1>c, <2>2 DEF TypeOK
  <2>4. \A y \in Tx \ {x}, t \in Teams, u \in Users : memberLock[t][u] = y => member'[t][u] = member[t][u]
    BY <1>3, <1>e, <2>1, <2>3 DEF MemberFree
  <2>5. userLock[o.target] = x BY <1>a, <1>b, <2>1 DEF Held, TargetHeld, ActsOnUser
  <2>6. \A y \in Tx \ {x}, t \in Teams :
          pc[y] \in Looking \cup {"lockMemberships"} /\ op[y].kind = "SetUserTeamMemberships"
            => (member'[t][op[y].target] # "none" => member[t][op[y].target] # "none")
    BY <1>1, <2>3, <2>5
  <2>7. \A t \in Teams : member[t][o.target] # "none" => memberLock[t][o.target] = x
    BY <1>a, <1>b, <2>1 DEF Team, RowsKnown, Looking
  <2>8. \A t \in Teams, u \in Users : TeamAdmin(t, u) /\ ~TeamAdmin(t, u)' =>
          pc[x] = "write" /\ u = o.target /\ Losing(x, t)
    BY <1>b, <2>1, <2>3, <2>7 DEF TeamAdmin, Losing, Demands
  <2>9. \A t \in Teams, u \in Users : member'[t][u] # "none" => team'[t] = "live"
    BY <1>a, <2>1, <2>3 DEF RowsLive
  <2> QED BY <1>2, <2>1, <2>4, <2>6, <2>8, <2>9, FinishTeams
<1> QED BY <1>4, <1>5, <1>6, <1>7, <1>9, <1>10, <1>11 DEF Write

LEMMA InitTeams == Init => TInv
<1> SUFFICES ASSUME Init PROVE TInv OBVIOUS
<1>1. PICK d \in Seeds : team = d.team /\ member = d.member BY DEF Init
<1>2. Consistent(d) BY SeedsAssumption
<1>3. None \notin Tx BY NoneAssumption
<1>4. \A x \in Tx : pc[x] = "idle" /\ todo[x] = {} /\ want[x] = {} BY DEF Init
<1>5. \A t \in Teams, u \in Users : memberLock[t][u] = None BY DEF Init
<1>6. \A x \in Tx : Team(x)
  BY <1>3, <1>4, <1>5 DEF Team, Placed, TodoHeld, RowsKnown, Witnessed, Passed, FreshTeam, Looking
<1>7. DistinctTeams BY <1>4 DEF DistinctTeams
<1>8. RowsLive BY <1>1, <1>2, <1>5 DEF RowsLive, Consistent
<1>9. OneWaits BY <1>4 DEF OneWaits, Entered, Passed, Looking
<1>10. TeamKeepsAdmin BY <1>1, <1>2 DEF TeamKeepsAdmin, TeamAdmin, Consistent
<1> QED BY <1>6, <1>7, <1>8, <1>9, <1>10 DEF TInv

LEMMA NextTeams ==
  ASSUME \A o \in Ops : Guarded(o)
  PROVE  IInv /\ TInv /\ [Next]_vars => TInv'
<1> SUFFICES ASSUME IInv, TInv, [Next]_vars PROVE TInv' OBVIOUS
<1>a. TypeOK /\ Typed BY DEF IInv, Typed
<1>1. ASSUME NEW x \in Tx, NEW o \in Ops, Begin(x, o) PROVE TInv'
  <2>1. /\ pc[x] = "idle" /\ Fresh(o) /\ UNCHANGED <<db, locks, want, todo, cur>>
        /\ pc'[x] = First(o) /\ op'[x] = o
        /\ \A y \in Tx \ {x} : pc'[y] = pc[y] /\ op'[y] = op[y]
    BY <1>1, <1>a DEF Begin, TypeOK
  <2>2. First(o) \in {"bootstrap", "authorized", "authorize"} BY DEF First
  <2>3. Team(x) BY DEF TInv
  <2>4. Placed(x)' BY <2>1, <2>2, <2>3 DEF Team, Placed, locks
  <2>5. TodoHeld(x)' BY <2>1, <2>2, <2>3 DEF Team, Placed, TodoHeld
  <2>6. RowsKnown(x)' /\ Witnessed(x)' BY <2>1, <2>2 DEF RowsKnown, Witnessed, Passed, Looking
  <2>7. FreshTeam(x)' BY <2>1 DEF FreshTeam, Fresh, db
  <2>8. Team(x)' BY <2>4, <2>5, <2>6, <2>7 DEF Team
  <2>9. \A y \in Tx \ {x} : Unmoved(y) BY <2>1 DEF Unmoved, db, locks
  <2>10. ASSUME NEW y \in Tx \ {x} PROVE Team(y)'
    <3>1. Team(y) /\ Unmoved(y) BY <2>9 DEF TInv
    <3> QED BY <1>a, <2>1, <3>1, UnmovedTeam DEF Team, Witnessed, FreshTeam, TeamAdmin, db
  <2>11. DistinctTeams'
    <3>1. ASSUME o.kind = "CreateTeam", NEW y \in Tx \ {x}, pc[y] # "idle", op[y].kind = "CreateTeam"
          PROVE  op[y].team # o.team
      BY <2>1, <3>1 DEF Fresh
    <3> QED BY <2>1, <3>1 DEF DistinctTeams, TInv
  <2>12. RowsLive' /\ TeamKeepsAdmin'
    BY <2>1 DEF TInv, RowsLive, TeamKeepsAdmin, TeamAdmin, db, locks
  <2>13. \A t \in Teams : ~Entered(x, t)' BY <2>1, <2>2 DEF Entered, Passed, Looking
  <2>14. \A y \in Tx \ {x}, t \in Teams : Entered(y, t)' => Entered(y, t)
    BY <1>a, <2>9, UnmovedLosing
  <2>15. OneWaits' BY <2>1, <2>13, <2>14 DEF TInv, OneWaits
  <2> QED BY <2>8, <2>10, <2>11, <2>12, <2>15 DEF TInv
<1>2. ASSUME NEW x \in Tx, Step(x) PROVE TInv' BY <1>2, CheckTeams, WriteTeams DEF Step
<1>3. ASSUME NEW x \in Tx, Abort(x) PROVE TInv' BY <1>3, FailTeams DEF Abort
<1>4. ASSUME \/ \E a \in Assets, u \in Users : InsertAsset(a, u)
             \/ UNCHANGED vars
      PROVE  TInv'
  <2>1. UNCHANGED <<team, member, locks, local>> BY <1>4 DEF InsertAsset, vars, db
  <2>2. \A y \in Tx : Unmoved(y) BY <2>1 DEF Unmoved, locks, local
  <2>3. ASSUME NEW y \in Tx PROVE Team(y)'
    <3>1. Team(y) /\ Unmoved(y) BY <2>2 DEF TInv
    <3> QED BY <1>a, <2>1, <3>1, UnmovedTeam DEF Team, Witnessed, FreshTeam, TeamAdmin
  <2>4. DistinctTeams' /\ RowsLive' /\ TeamKeepsAdmin'
    BY <2>1 DEF TInv, DistinctTeams, RowsLive, TeamKeepsAdmin, TeamAdmin, locks, local
  <2>5. \A y \in Tx, t \in Teams : Entered(y, t)' => Entered(y, t) BY <1>a, <2>2, UnmovedLosing
  <2>6. OneWaits' BY <2>1, <2>5 DEF TInv, OneWaits, local
  <2> QED BY <2>3, <2>4, <2>6 DEF TInv
<1> QED BY <1>1, <1>2, <1>3, <1>4 DEF Next

\* Every live team keeps an administrator, for any number of teams, members and
\* requests that promote, demote, remove and assign at the same time, as long as no
\* request deletes a user and AddTeamMember adds administrators only.
THEOREM TeamsKeepAdmins ==
  ASSUME \A o \in Ops : Guarded(o)
  PROVE  Spec => []TeamKeepsAdmin
<1>1. Spec => []TInv BY InitTeams, NextTeams, Inductive, PTL DEF Spec
<1>2. TInv => TeamKeepsAdmin BY DEF TInv
<1> QED BY <1>1, <1>2, PTL
=============================================================================
