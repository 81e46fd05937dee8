--------------------------- MODULE SettingsPages ---------------------------
(***************************************************************************)
(* The user and the team page of the settings (web/src/settings): lists    *)
(* that are loaded once and then kept up to date by the handlers, and      *)
(* dialogs whose save is a row of calls to the identity API.               *)
(*                                                                         *)
(* An account is whether it is disabled, a team who is in it in which      *)
(* role.  Names, passwords and system roles are checked by the dialogs     *)
(* alone or by the server, and are left out.  The session is that of a     *)
(* system administrator, Self, who stays on the pages.  Of the server there *)
(* is what identity/store.go answers, one step per call (IdentityStore has *)
(* its transactions).                                                      *)
(***************************************************************************)
EXTENDS Naturals, Sequences, FiniteSets, Ordering

CONSTANTS
  UserIds, FirstUsers,   \* numbers; those that exist at the start
  Self,
  TeamIds, FirstTeam,
  MaxActs,               \* clicks of the user, and calls that fail without a reason
  None

VARIABLES
  accounts, disabled,    \* on the server: the users, and those of them disabled
  groups, roles,         \* on the server: the teams, and roles[t][u]
  users, teams, teamMembers,   \* useSettingsData: the same as the page has them
  dialog,                \* the dialog on the screen, or None
  busy,                  \* creating, savingEdit, togglingDisabled, savingMembers, teamPending: flags that are set
  jobs,                  \* handlers under way
  past,                  \* history: users and teams created, and those the page has shown as deleted
  acts

vars == <<accounts, disabled, groups, roles, users, teams, teamMembers, dialog, busy, jobs, past, acts>>

serverVars == <<accounts, disabled, groups, roles>>
dataVars == <<users, teams, teamMembers>>

Role == {"none", "member", "admin"}
Nobody == [u \in UserIds |-> "none"]
Users(ids, offs) == {[id |-> u, disabled |-> u \in offs] : u \in ids}

\* A call of the identity API, and a handler: the calls it still has to make, the
\* answer it keeps, and for a save of members what it was made from.
Op(op, u, t, off, assign) == [op |-> op, u |-> u, t |-> t, off |-> off, assign |-> assign]
OnUser(op, u) == Op(op, u, FirstTeam, FALSE, <<>>)
OnTeam(op, t) == Op(op, Self, t, FALSE, <<>>)
ReadMembers(ts) == Op("members", Self, FirstTeam, FALSE, [t \in ts |-> "none"])

NoAnswer == [off |-> FALSE, accounts |-> {}, disabled |-> {}, groups |-> {},
             members |-> [t \in TeamIds |-> Nobody]]

Job(kind, plan) ==
  [kind |-> kind, n |-> acts + 1, plan |-> plan, st |-> "sent", got |-> NoAnswer,
   was |-> Nobody, next |-> Nobody, alone |-> FALSE]

Init ==
  /\ accounts = FirstUsers /\ groups = {FirstTeam}
  /\ disabled \in {{}, {Greatest(FirstUsers)}}
  /\ roles = [t \in TeamIds |-> IF t = FirstTeam
                                THEN [u \in UserIds |-> IF u = Self THEN "admin"
                                                        ELSE IF u = Greatest(FirstUsers) THEN "member" ELSE "none"]
                                ELSE Nobody]
  /\ users = {} /\ teams = {} /\ teamMembers = [t \in TeamIds |-> Nobody]
  /\ dialog = None /\ busy = {} /\ past = {} /\ acts = 0
  /\ jobs = {Job("load", <<OnUser("list", Self), ReadMembers(TeamIds)>>)}

Act == acts < MaxActs /\ acts' = acts + 1

Start(j) == jobs' = jobs \cup {j}

-----------------------------------------------------------------------------
(* Dialogs.  One is open at a time; it can be left while its save runs.    *)

Open(d) ==
  /\ Act /\ dialog = None /\ dialog' = d
  /\ UNCHANGED <<serverVars, dataVars, busy, jobs, past>>

\* emptyTeamMembershipDraft and buildTeamMembershipDraft.
TeamDraft(u) == [t \in teams |-> teamMembers[t][u]]

\* buildTeamMemberDraft: users who are disabled are not in it.
MemberDraft(members) == [u \in {x.id : x \in {y \in users : ~y.disabled}} |-> members[u]]

OpenCreateUser == Open([kind |-> "create", off |-> FALSE, draft |-> [t \in teams |-> "none"]])
OpenEditUser(u) == u \in users /\ Open([kind |-> "edit", id |-> u.id, off |-> u.disabled, draft |-> TeamDraft(u.id)])
OpenDeleteUser(u) == u \in users /\ u.id # Self /\ Open([kind |-> "delete", id |-> u.id])
OpenMembers(t) == t \in teams /\ Open([kind |-> "members", id |-> t, draft |-> MemberDraft(teamMembers[t])])
OpenRename(t) == t \in teams /\ Open([kind |-> "rename", id |-> t])
OpenDeleteTeam(t) == t \in teams /\ <<"team", t>> \notin busy /\ Open([kind |-> "deleteTeam", id |-> t])
OpenCreateTeam == Open([kind |-> "newTeam"])

\* A box is ticked or cleared, or a role chosen.
SetRole(x, r) ==
  /\ Act /\ dialog # None /\ dialog.kind \in {"create", "edit", "members"}
  /\ x \in DOMAIN dialog.draft /\ dialog.draft[x] # r
  /\ dialog' = [dialog EXCEPT !.draft[x] = r]
  /\ UNCHANGED <<serverVars, dataVars, busy, jobs, past>>

SetStatus ==
  /\ Act /\ dialog # None /\ dialog.kind = "edit" /\ dialog.id # Self
  /\ dialog' = [dialog EXCEPT !.off = ~@]
  /\ UNCHANGED <<serverVars, dataVars, busy, jobs, past>>

Close ==
  /\ Act /\ dialog # None /\ dialog' = None
  /\ UNCHANGED <<serverVars, dataVars, busy, jobs, past>>

-----------------------------------------------------------------------------
(* Handlers, up to their first call.                                       *)

Joined(draft) == [t \in {x \in DOMAIN draft : draft[x] # "none"} |-> draft[t]]

\* The busy flag of a handler: toggles and teams have one each.
Flag(j) ==
  <<IF j.kind \in {"rename", "deleteTeam"} THEN "team" ELSE j.kind,
    IF j.kind = "toggle" THEN Head(j.plan).u
    ELSE IF j.kind \in {"rename", "deleteTeam"} THEN Head(j.plan).t ELSE None>>

Shows(kind) == dialog # None /\ dialog.kind = kind

\* The button of a dialog is disabled while its flag is set.
Submit(job) ==
  /\ Act /\ Flag(job) \notin busy
  /\ busy' = busy \cup {Flag(job)}
  /\ Start(job)
  /\ UNCHANGED <<serverVars, dataVars, dialog>>

\* An identifier is new once.
New(x) == <<"created", x>> \notin past /\ past' = past \cup {<<"created", x>>}

Refresh == ReadMembers(teams)

SubmitCreate(u) ==
  /\ Shows("create") /\ u \in UserIds \ FirstUsers /\ New(u)
  /\ Submit(Job("create", <<OnUser("create", u)>>
         \o (IF DOMAIN Joined(dialog.draft) # {}
             THEN <<Op("setTeams", u, FirstTeam, FALSE, Joined(dialog.draft))>> ELSE <<>>)
         \o <<Refresh>>))

SubmitEdit ==
  /\ Shows("edit") /\ UNCHANGED past
  /\ Submit(Job("edit", <<Op("update", dialog.id, FirstTeam, dialog.off, <<>>),
                  Op("setTeams", dialog.id, FirstTeam, FALSE, Joined(dialog.draft)), Refresh>>))

ToggleDisabled(u) ==
  /\ Act /\ dialog = None /\ u \in users /\ u.id # Self
  /\ LET job == Job("toggle", <<Op("update", u.id, FirstTeam, ~u.disabled, <<>>)>>) IN
     Flag(job) \notin busy /\ busy' = busy \cup {Flag(job)} /\ Start(job)
  /\ UNCHANGED <<serverVars, dataVars, dialog, past>>

\* The button of the dialog is not disabled while the call runs, nor is that of the
\* deletion of a team.
ConfirmDelete ==
  /\ Act /\ dialog # None /\ dialog.kind \in {"delete", "deleteTeam"}
  /\ IF dialog.kind = "delete"
     THEN Start(Job("delete", <<OnUser("delete", dialog.id)>>)) /\ UNCHANGED busy
     ELSE /\ Start(Job("deleteTeam", <<OnTeam("deleteTeam", dialog.id)>>))
          /\ busy' = busy \cup {<<"team", dialog.id>>}
  /\ UNCHANGED <<serverVars, dataVars, dialog, past>>

SaveTeamName ==
  /\ Shows("rename") /\ UNCHANGED past
  /\ Submit(Job("rename", <<OnTeam("rename", dialog.id)>>))

SubmitTeam(t) ==
  /\ Shows("newTeam") /\ t # FirstTeam /\ New(t)
  /\ Submit(Job("newTeam", <<OnTeam("newTeam", t), ReadMembers({t})>>))

Change(kind, u, next) == Op(kind, u, dialog.id, FALSE, [t \in {dialog.id} |-> next[u]])

\* The two loops of saveTeamMembers, over the draft and over the members there were.
Additions(was, next) ==
  LET us == InOrder({u \in UserIds : next[u] \notin {"none", was[u]}}) IN
  [i \in 1..Len(us) |-> Change(IF was[us[i]] = "none" THEN "add" ELSE "role", us[i], next)]

Removals(was, next) ==
  LET us == InOrder({u \in UserIds : next[u] = "none" /\ was[u] # "none"}) IN
  [i \in 1..Len(us) |-> Change("remove", us[i], next)]

\* Members are removed before others are added.
PlanRemovesFirst(was, next) == Removals(was, next) \o Additions(was, next)

\* The calls of saveTeamMembers: those of the draft, and then the removals.
Plan(was, next) == Additions(was, next) \o Removals(was, next)

\* Nobody else is changing memberships, and the page has them right.
Alone(t) == teamMembers[t] = roles[t] /\ \A j \in jobs : j.plan = <<>> \/ Head(j.plan).op = "members"

SaveTeamMembers ==
  /\ Shows("members") /\ UNCHANGED past
  /\ LET t == dialog.id
         was == teamMembers[t]
         next == [u \in UserIds |-> IF u \in DOMAIN dialog.draft THEN dialog.draft[u] ELSE "none"]
     IN  Submit([Job("members", Plan(was, next) \o <<ReadMembers({t})>>)
             EXCEPT !.was = was, !.next = next, !.alone = Alone(t)])

-----------------------------------------------------------------------------
(* Answers.  The handlers work on the lists as they are by then.           *)

Entry(j) == [id |-> Head(j.plan).u, disabled |-> j.got.off]

\* The changed user is put on the list as submitCreate does it.
MappedOver(j, list) == {x \in list : x.id # Entry(j).id} \cup {Entry(j)}

\* setUsers of submitEdit and toggleDisabled: a user who is not on the list stays off.
Mapped(j, list) == {IF x.id = Entry(j).id THEN Entry(j) ELSE x : x \in list}

Appended(j, list) == {x \in list : x.id # Entry(j).id} \cup {[id |-> Entry(j).id, disabled |-> FALSE]}

\* The call after which a handler sets the lists: the last one but the refresh.
SetsLists(j) == Len(j.plan) = 1 \/ j.plan[2].op = "members"

GoesOn(j) ==
  IF Len(j.plan) = 1 THEN jobs \ {j}
  ELSE (jobs \ {j}) \cup {[j EXCEPT !.plan = Tail(@), !.st = "sent"]}

ListsAnswered(j) == Head(j.plan).op = "list" /\ UNCHANGED <<dataVars, past, dialog>>

UserAnswered(j) ==
  /\ Head(j.plan).op \in {"create", "update", "setTeams"}
  /\ users' = IF ~SetsLists(j) THEN users
              ELSE IF j.kind = "create" THEN Appended(j, users) ELSE Mapped(j, users)
  /\ UNCHANGED <<teams, teamMembers, past, dialog>>

\* A first load that is still under way can bring back what was created and deleted
\* meanwhile, and a creation what the load had listed before; neither counts.
Deleted(x) ==
  IF \E j \in jobs : j.kind = "load" \/ (<<"created", x>> \in past /\ j.kind \in {"create", "newTeam"})
  THEN {} ELSE {<<"deleted", x>>}

\* The dialog of a deletion is closed; which user it names by now is not asked.
DeletionAnswered(j) ==
  LET o == Head(j.plan) IN
  /\ o.op \in {"delete", "deleteTeam"}
  /\ IF o.op = "delete"
     THEN /\ users' = {x \in users : x.id # o.u} /\ past' = past \cup Deleted(o.u)
          /\ UNCHANGED <<teams, teamMembers>>
     ELSE /\ teams' = teams \ {o.t} /\ past' = past \cup Deleted(o.t)
          /\ teamMembers' = [teamMembers EXCEPT ![o.t] = Nobody]
          /\ UNCHANGED users
  /\ dialog' = IF Shows(o.op) THEN None ELSE dialog

TeamAnswered(j) ==
  LET o == Head(j.plan) IN
  /\ o.op \in {"rename", "newTeam", "add", "role", "remove"}
  /\ dialog' = IF o.op = "rename" /\ Shows("rename") THEN None ELSE dialog
  /\ UNCHANGED <<dataVars, past>>

\* The end of most handlers.  A members dialog is built anew when its members
\* change; the dialog of the handler is closed, whatever it shows by now.
MembersAnswered(j) ==
  LET o == Head(j.plan)
      closes == Shows(j.kind)
      rebuilt == Shows("members") /\ teamMembers'[dialog.id] # teamMembers[dialog.id]
  IN
  /\ o.op = "members"
  /\ teamMembers' = [t \in TeamIds |-> IF t \in DOMAIN o.assign THEN j.got.members[t]
                                     ELSE IF j.kind \in {"members", "newTeam"} THEN teamMembers[t]
                                     ELSE Nobody]
  /\ teams' = IF j.kind = "load" THEN j.got.groups
              ELSE IF j.kind = "newTeam" THEN teams \cup DOMAIN o.assign ELSE teams
  /\ users' = IF j.kind = "load" THEN Users(j.got.accounts, j.got.disabled) ELSE users
  /\ dialog' = IF closes THEN None
               ELSE IF rebuilt THEN [dialog EXCEPT !.draft = MemberDraft(teamMembers'[dialog.id])]
               ELSE dialog
  /\ UNCHANGED past

Answered(j) ==
  /\ j.st = "ok"
  /\ jobs' = GoesOn(j)
  /\ busy' = IF Len(j.plan) = 1 THEN busy \ {Flag(j)} ELSE busy
  /\ ListsAnswered(j) \/ UserAnswered(j) \/ DeletionAnswered(j) \/ TeamAnswered(j) \/ MembersAnswered(j)
  /\ UNCHANGED <<serverVars, acts>>

\* The catch and finally of the handlers.  A load that fails leaves only Self; the
\* deletion of a team closes its dialog all the same.
Failed(j) ==
  /\ j.st \in {"error", "lastAdmin"}
  /\ jobs' = jobs \ {j}
  /\ busy' = busy \ {Flag(j)}
  /\ IF j.kind = "load"
     THEN users' = Users({Self}, {}) /\ teams' = {FirstTeam}
          /\ teamMembers' = [t \in TeamIds |-> Nobody]
     ELSE UNCHANGED dataVars
  /\ dialog' = IF j.kind = "deleteTeam" /\ Shows("deleteTeam") THEN None ELSE dialog
  /\ UNCHANGED <<serverVars, past, acts>>

-----------------------------------------------------------------------------
(* The server and the network.                                             *)

\* A change of roles is somebody else's for every other save.
Answer(j, st, got, newRoles) ==
  /\ roles' = newRoles
  /\ jobs' = {IF i = j THEN [j EXCEPT !.st = st, !.got = got]
              ELSE IF newRoles # roles THEN [i EXCEPT !.alone = FALSE] ELSE i : i \in jobs}

AnotherAdmin(t, u) == \E v \in UserIds \ {u} : roles[t][v] = "admin"

LosesLast(u, t, r) == roles[t][u] = "admin" /\ r # "admin" /\ ~AnotherAdmin(t, u)

ServeList(j) ==
  /\ Answer(j, "ok", [NoAnswer EXCEPT !.accounts = accounts, !.disabled = disabled, !.groups = groups], roles)
  /\ UNCHANGED <<accounts, disabled, groups>>

\* One read for all teams; loadTeamMembers takes a team it cannot read for empty.
ServeMembers(j) ==
  /\ Answer(j, "ok", [j.got EXCEPT !.members = roles], roles)
  /\ UNCHANGED <<accounts, disabled, groups>>

ServeUser(j, o) ==
  LET assigned == [t \in TeamIds |-> [roles[t] EXCEPT ![o.u] =
                     IF t \in DOMAIN o.assign THEN o.assign[t] ELSE "none"]]
      none == [t \in TeamIds |-> [roles[t] EXCEPT ![o.u] = "none"]]
  IN
  /\ \/ /\ o.op = "create"
        /\ accounts' = accounts \cup {o.u} /\ UNCHANGED disabled
        /\ Answer(j, "ok", NoAnswer, roles)
     \/ /\ o.op = "update" /\ o.u \in accounts
        /\ disabled' = IF o.off THEN disabled \cup {o.u} ELSE disabled \ {o.u}
        /\ Answer(j, "ok", [NoAnswer EXCEPT !.off = o.off], roles) /\ UNCHANGED accounts
     \/ /\ o.op = "setTeams" /\ o.u \in accounts /\ DOMAIN o.assign \subseteq groups
        /\ IF \E t \in TeamIds : LosesLast(o.u, t, assigned[t][o.u])
           THEN Answer(j, "lastAdmin", NoAnswer, roles) ELSE Answer(j, "ok", j.got, assigned)
        /\ UNCHANGED <<accounts, disabled>>
     \/ /\ o.op = "delete" /\ o.u \in accounts
        /\ IF \E t \in TeamIds : LosesLast(o.u, t, "none")
           THEN Answer(j, "lastAdmin", NoAnswer, roles) /\ UNCHANGED <<accounts, disabled>>
           ELSE /\ Answer(j, "ok", NoAnswer, none)
                /\ accounts' = accounts \ {o.u} /\ disabled' = disabled \ {o.u}
     \/ /\ \/ o.op \in {"update", "delete", "setTeams"} /\ o.u \notin accounts
           \/ o.op = "setTeams" /\ ~(DOMAIN o.assign \subseteq groups)
        /\ Answer(j, "error", NoAnswer, roles) /\ UNCHANGED <<accounts, disabled>>
  /\ UNCHANGED groups

\* addMember is an upsert that asks for no other administrator.
ServeTeam(j, o) ==
  LET known == o.t \in groups /\ (o.op = "add" => o.u \in accounts)
                 /\ (o.op \in {"role", "remove"} => roles[o.t][o.u] # "none")
      r == IF o.op = "remove" THEN "none" ELSE o.assign[o.t]
  IN
  /\ o.op \in {"add", "role", "remove", "rename", "newTeam", "deleteTeam"}
  /\ \/ /\ o.op = "newTeam"
        /\ groups' = groups \cup {o.t}
        /\ Answer(j, "ok", NoAnswer, [roles EXCEPT ![o.t][Self] = "admin"])
     \/ /\ o.op = "deleteTeam" /\ known
        /\ groups' = groups \ {o.t}
        /\ Answer(j, "ok", NoAnswer, [roles EXCEPT ![o.t] = Nobody])
     \/ o.op = "rename" /\ known /\ Answer(j, "ok", NoAnswer, roles) /\ UNCHANGED groups
     \/ /\ o.op \in {"add", "role", "remove"} /\ known
        /\ IF o.op # "add" /\ LosesLast(o.u, o.t, r)
           THEN Answer(j, "lastAdmin", NoAnswer, roles)
           ELSE Answer(j, "ok", NoAnswer, [roles EXCEPT ![o.t][o.u] = r])
        /\ UNCHANGED groups
     \/ o.op # "newTeam" /\ ~known /\ Answer(j, "error", NoAnswer, roles) /\ UNCHANGED groups
  /\ UNCHANGED <<accounts, disabled>>

Serve(j) ==
  /\ j.st = "sent"
  /\ LET o == Head(j.plan) IN
     \/ o.op = "list" /\ ServeList(j)
     \/ o.op = "members" /\ ServeMembers(j)
     \/ ServeUser(j, o)
     \/ ServeTeam(j, o)
  /\ UNCHANGED <<dataVars, dialog, busy, past, acts>>

\* A call fails, or its answer is lost.  Only saveTeamMembers minds when the members cannot be read.
Fault(j) ==
  /\ Act /\ j.st \in {"sent", "ok"}
  /\ IF Head(j.plan).op = "members" /\ j.kind # "members"
     THEN Answer(j, "ok", [j.got EXCEPT !.members = NoAnswer.members], roles)
     ELSE Answer(j, "error", NoAnswer, roles)
  /\ UNCHANGED <<accounts, disabled, groups, dataVars, dialog, busy, past>>

Next ==
  \/ OpenCreateUser \/ OpenCreateTeam
  \/ \E u \in users : OpenEditUser(u) \/ OpenDeleteUser(u) \/ ToggleDisabled(u)
  \/ \E t \in teams : OpenMembers(t) \/ OpenRename(t) \/ OpenDeleteTeam(t)
  \/ \E x \in UserIds \cup TeamIds, r \in Role : SetRole(x, r)
  \/ SetStatus \/ Close \/ SubmitEdit \/ ConfirmDelete \/ SaveTeamName \/ SaveTeamMembers
  \/ \E u \in UserIds : SubmitCreate(u)
  \/ \E t \in TeamIds : SubmitTeam(t)
  \/ \E j \in jobs : Answered(j) \/ Failed(j) \/ Serve(j) \/ Fault(j)

Spec == Init /\ [][Next]_vars

-----------------------------------------------------------------------------

\* A save of the members that leaves an administrator and demotes nobody is not
\* refused because of a last administrator, as long as nobody else changes the
\* team: additions and promotions are sent before the removals (SettingsTeamsPage
\* 145-157).
PlannedSaveNotRefused ==
  \A j \in jobs : j.kind = "members" /\ j.st = "lastAdmin" /\ j.alone =>
    \/ \A u \in UserIds : j.next[u] # "admin"
    \/ \E u \in UserIds : j.was[u] = "admin" /\ j.next[u] = "member"

\* A user or a team that was deleted stays off the list, however late the answers
\* to an edit, a toggle, a renaming or a save of members come (SettingsUsersPage
\* 109-155, SettingsTeamsPage 95-135), once the lists have been loaded.
DeletedStaysGone ==
  /\ \A u \in users : <<"deleted", u.id>> \notin past
  /\ \A t \in teams : <<"deleted", t>> \notin past

=============================================================================
