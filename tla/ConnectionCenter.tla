-------------------------- MODULE ConnectionCenter --------------------------
(***************************************************************************)
(* The connection page of the web client (web/src/pages/ConnectionsPage.tsx *)
(* with web/src/connections/connectionForm.ts and client.ts), and the      *)
(* registry it edits.                                                      *)
(*                                                                         *)
(* A connection is its kind, its team (None for a personal one) and its    *)
(* credentials.  Name, address and port are texts the form checks by       *)
(* themselves, and the driver always follows the kind (the form offers no  *)
(* other); they are left out.  Of the server there are the operations of the *)
(* registry (registry/postgres_store.go), of the network that a call fails. *)
(***************************************************************************)
EXTENDS Naturals, FiniteSets, Ordering

CONSTANTS
  Teams,
  MaxConnections,
  MaxTurns,      \* what the user, other administrators and the network may do
  None

VARIABLES
  registry,      \* on the server: the connections, by number
  created,          \* on the server: how many were created
  admins,        \* on the server: the teams the user administers
  listed,        \* the list on the page
  adminTeams,    \* the teams the page takes to be administered by the user
  kindFilter, chosen,     \* the filter, and selectedConnectionId
  formMode, editing, form, saving, deleteTarget,
  requests,      \* calls under way
  turns

vars == <<registry, created, admins, listed, adminTeams, kindFilter, chosen, formMode, editing,
          form, saving, deleteTarget, requests, turns>>

serverVars == <<registry, created, admins>>
pageVars == <<listed, adminTeams, kindFilter, chosen>>
formVars == <<formMode, editing, form>>

Kinds == {"database", "ssh"}
Fields == {"password", "privateKey", "passphrase"}

\* What was typed, and whose form it was typed into (0: that of a new connection).
NoSecret == [what |-> {}, typedFor |-> 0]

EmptyForm(kind) == [kind |-> kind, scope |-> "personal", team |-> None, secret |-> NoSecret]

\* formFromConnection: credentials are never sent to the page.
FormOf(item) == [kind |-> item.kind, scope |-> IF item.team = None THEN "personal" ELSE "team",
                 team |-> item.team, secret |-> NoSecret]

\* A connection as the page lists it.
Item == [id : Nat, kind : Kinds, team : Teams \cup {None}]

Items == {[id |-> i, kind |-> registry[i].kind, team |-> registry[i].team] : i \in DOMAIN registry}

\* A request n of the page: what it asks (id, input), its state and its answer.
Request(op, id, input, after) ==
  [op |-> op, id |-> id, input |-> input, after |-> after, n |-> turns + 1, st |-> "sent",
   items |-> {}, teams |-> {}]

NoInput == [kind |-> "database", team |-> None, secret |-> NoSecret]

\* load: the list and the teams, for the page or as the end of request n.
Load(after, n) == [Request("list", 0, NoInput, after) EXCEPT !.n = n]

Init ==
  /\ created = 2 /\ admins = Teams
  /\ \E t \in Teams \cup {None} :
       registry = [i \in 1..2 |->
         IF i = 1 THEN [kind |-> "database", team |-> None,
                        secret |-> [what |-> {"password"}, typedFor |-> 1]]
         ELSE [kind |-> "ssh", team |-> t, secret |-> [what |-> {"privateKey"}, typedFor |-> 2]]]
  /\ listed = {} /\ adminTeams = Teams /\ kindFilter = "all" /\ chosen = 0
  /\ formMode = "none" /\ editing = None /\ form = EmptyForm("database")
  /\ saving = FALSE /\ deleteTarget = 0
  /\ turns = 0 /\ requests = {Load("page", 0)}

Turn == turns < MaxTurns /\ turns' = turns + 1

-----------------------------------------------------------------------------
(* The list.                                                               *)

Visible(items, f) == {c \in items : f \in {"all", c.kind}}
Ids(items) == {c.id : c \in items}
FirstOf(items) == IF items = {} THEN 0 ELSE Least(Ids(items))

\* setSelectedConnectionId of load, and then the effect on visible.
Settled(items, f, current) ==
  LET kept == IF current \in Ids(items) THEN current ELSE FirstOf(items) IN
  IF kept \in Ids(Visible(items, f)) THEN kept ELSE FirstOf(Visible(items, f))

\* No dialog covers the page.
Free == formMode = "none" /\ deleteTarget = 0

SetKind(f) ==
  /\ Turn /\ Free /\ kindFilter' = f
  /\ chosen' = Settled(listed, f, chosen)
  /\ UNCHANGED <<serverVars, listed, adminTeams, formVars, saving, deleteTarget, requests>>

Select(c) ==
  /\ Turn /\ Free /\ c \in Visible(listed, kindFilter) /\ chosen' = c.id
  /\ UNCHANGED <<serverVars, listed, adminTeams, kindFilter, formVars, saving, deleteTarget, requests>>

-----------------------------------------------------------------------------
(* The form.                                                               *)

OpenCreate ==
  /\ Turn /\ Free /\ created < MaxConnections
  /\ formMode' = "create" /\ editing' = None /\ form' = EmptyForm("database")
  /\ UNCHANGED <<serverVars, pageVars, saving, deleteTarget, requests>>

\* The credentials of the form that was open before are kept.
OpenEditKeeps(c) ==
  /\ Turn /\ Free /\ c \in Visible(listed, kindFilter) /\ c.id = chosen
  /\ formMode' = "edit" /\ editing' = c
  /\ form' = [FormOf(c) EXCEPT !.secret = form.secret]
  /\ UNCHANGED <<serverVars, pageVars, saving, deleteTarget, requests>>

OpenEdit(c) ==
  /\ Turn /\ Free /\ c \in Visible(listed, kindFilter) /\ c.id = chosen
  /\ formMode' = "edit" /\ editing' = c /\ form' = FormOf(c)
  /\ UNCHANGED <<serverVars, pageVars, saving, deleteTarget, requests>>

\* setFormKind keeps what was typed.
SetFormKind(k) == form.kind # k /\ form' = [form EXCEPT !.kind = k]

SetFormScope(s) ==
  /\ form.scope # s
  /\ form' = [form EXCEPT !.scope = s,
       !.team = IF s = "personal" THEN None
                ELSE IF form.team # None \/ adminTeams = {} THEN form.team
                ELSE CHOOSE t \in adminTeams : TRUE]

SelectTeam(t) == form.scope = "team" /\ t \in adminTeams \ {form.team} /\ form' = [form EXCEPT !.team = t]

\* A credential is typed or cleared; a database has no key.
Type(field) ==
  /\ field = "password" \/ form.kind = "ssh"
  /\ form' = [form EXCEPT !.secret =
       [what |-> IF field \in @.what THEN @.what \ {field} ELSE @.what \cup {field},
        typedFor |-> IF formMode = "edit" THEN editing.id ELSE 0]]

EditForm ==
  /\ Turn /\ formMode # "none"
  /\ \/ \E k \in Kinds : SetFormKind(k)
     \/ \E s \in {"personal", "team"} : SetFormScope(s)
     \/ \E t \in Teams : SelectTeam(t)
     \/ \E f \in Fields : Type(f)
  /\ UNCHANGED <<serverVars, pageVars, formMode, editing, saving, deleteTarget, requests>>

\* The cancel button, the backdrop, and Escape, also while a save is under way.
Cancel ==
  /\ Turn /\ formMode # "none" /\ formMode' = "none"
  /\ UNCHANGED <<serverVars, pageVars, editing, form, saving, deleteTarget, requests>>

LoginFields(what) == what \cap {"password", "privateKey"}

\* The errors of toSaveInput.
FieldErrors ==
  LET ssh == form.kind = "ssh"
      what == form.secret.what
      existingSecret == formMode = "edit" /\ editing # None
  IN
  {e \in {"teamId", "passphrase", "credentials"} :
     \/ e = "teamId" /\ form.scope = "team" /\ form.team \notin adminTeams
     \/ e = "passphrase" /\ ssh /\ "passphrase" \in what /\ "privateKey" \notin what
     \/ e = "credentials" /\ ssh /\ LoginFields(what) = {} /\ ~existingSecret}

\* The secret of toSaveInput: none unless there is something to log in with.
Secret ==
  LET sent == IF form.kind = "database" THEN form.secret.what \cap {"password"} ELSE form.secret.what IN
  IF LoginFields(sent) = {} THEN NoSecret ELSE [form.secret EXCEPT !.what = sent]

Submit ==
  /\ Turn /\ formMode # "none" /\ ~saving /\ FieldErrors = {}
  /\ saving' = TRUE
  /\ LET input == [kind |-> form.kind, team |-> form.team, secret |-> Secret] IN
     requests' = requests \cup
       {IF formMode = "edit" /\ editing # None THEN Request("update", editing.id, input, "save")
        ELSE Request("create", 0, input, "save")}
  /\ UNCHANGED <<serverVars, pageVars, formVars, deleteTarget>>

-----------------------------------------------------------------------------
(* Deletion.                                                               *)

AskDelete ==
  /\ Turn /\ Free /\ chosen # 0 /\ deleteTarget' = chosen
  /\ UNCHANGED <<serverVars, pageVars, formVars, saving, requests>>

CancelDelete ==
  /\ Turn /\ deleteTarget # 0 /\ deleteTarget' = 0
  /\ UNCHANGED <<serverVars, pageVars, formVars, saving, requests>>

\* The button stays enabled.
ConfirmDelete ==
  /\ Turn /\ deleteTarget # 0
  /\ requests' = requests \cup {Request("remove", deleteTarget, NoInput, "delete")}
  /\ UNCHANGED <<serverVars, pageVars, formVars, saving, deleteTarget>>

-----------------------------------------------------------------------------
(* Answers.                                                                *)

ListAnswered(r) ==
  /\ r.op = "list"
  /\ requests' = requests \ {r}
  /\ saving' = IF r.after = "save" THEN FALSE ELSE saving
  /\ IF r.st = "ok"
     THEN /\ listed' = r.items /\ adminTeams' = r.teams
          /\ chosen' = Settled(r.items, kindFilter, chosen)
     ELSE UNCHANGED <<listed, adminTeams, chosen>>
  /\ UNCHANGED <<kindFilter, formVars, deleteTarget>>

\* The form is closed, whichever it is by now; saving ends with the load.
SaveAnswered(r) ==
  /\ r.op \in {"create", "update"}
  /\ IF r.st = "ok"
     THEN /\ formMode' = "none" /\ editing' = None
          /\ requests' = (requests \ {r}) \cup {Load("save", r.n)}
          /\ UNCHANGED saving
     ELSE requests' = requests \ {r} /\ saving' = FALSE /\ UNCHANGED <<formMode, editing>>
  /\ UNCHANGED <<pageVars, form, deleteTarget>>

DeleteAnswered(r) ==
  /\ r.op = "remove"
  /\ IF r.st = "ok"
     THEN deleteTarget' = 0 /\ requests' = (requests \ {r}) \cup {Load("delete", r.n)}
     ELSE requests' = requests \ {r} /\ UNCHANGED deleteTarget
  /\ UNCHANGED <<pageVars, formVars, saving>>

Answered(r) ==
  /\ r.st # "sent"
  /\ ListAnswered(r) \/ SaveAnswered(r) \/ DeleteAnswered(r)
  /\ UNCHANGED <<serverVars, turns>>

-----------------------------------------------------------------------------
(* The server and the network.                                             *)

Answer(r, st) == requests' = {q \in requests : q.n # r.n \/ q.op # r.op} \cup {[r EXCEPT !.st = st]}

MayChange(r) == r.id \in DOMAIN registry /\ registry[r.id].team \in admins \cup {None}

Create(r) ==
  /\ r.op = "create"
  /\ IF r.input.secret.what # {} /\ r.input.team \in admins \cup {None}
     THEN /\ created' = created + 1
          /\ registry' = [i \in DOMAIN registry \cup {created + 1} |->
               IF i \in DOMAIN registry THEN registry[i]
               ELSE [r.input EXCEPT !.secret.typedFor = IF @ = 0 THEN created + 1 ELSE @]]
          /\ Answer(r, "ok")
     ELSE Answer(r, "error") /\ UNCHANGED <<registry, created>>

\* The scope and the team of a connection do not change.
Update(r) ==
  /\ r.op = "update"
  /\ IF MayChange(r)
     THEN /\ registry' = [registry EXCEPT ![r.id].kind = r.input.kind,
               ![r.id].secret = IF r.input.secret.what = {} THEN @ ELSE r.input.secret]
          /\ Answer(r, "ok")
     ELSE Answer(r, "error") /\ UNCHANGED registry
  /\ UNCHANGED created

Remove(r) ==
  /\ r.op = "remove"
  /\ IF MayChange(r)
     THEN registry' = [i \in DOMAIN registry \ {r.id} |-> registry[i]] /\ Answer(r, "ok")
     ELSE Answer(r, "error") /\ UNCHANGED registry
  /\ UNCHANGED created

List(r) ==
  /\ r.op = "list"
  /\ Answer([r EXCEPT !.items = Items, !.teams = admins], "ok")
  /\ UNCHANGED <<registry, created>>

Serve(r) ==
  /\ r.st = "sent"
  /\ Create(r) \/ Update(r) \/ Remove(r) \/ List(r)
  /\ UNCHANGED <<admins, pageVars, formVars, saving, deleteTarget, turns>>

\* A call fails, or its answer is lost.
Fault(r) ==
  /\ Turn /\ r.st \in {"sent", "ok"} /\ Answer(r, "error")
  /\ UNCHANGED <<serverVars, pageVars, formVars, saving, deleteTarget>>

\* Another administrator takes the user's role, or deletes a connection of the team.
Meanwhile ==
  /\ Turn
  /\ \/ \E t \in admins : admins' = admins \ {t} /\ UNCHANGED registry
     \/ \E i \in DOMAIN registry : /\ registry[i].team # None
                                   /\ registry' = [j \in DOMAIN registry \ {i} |-> registry[j]]
                                   /\ UNCHANGED admins
  /\ UNCHANGED <<created, pageVars, formVars, saving, deleteTarget, requests>>

Next ==
  \/ \E f \in Kinds \cup {"all"} : SetKind(f)
  \/ \E c \in listed : Select(c) \/ OpenEdit(c)
  \/ OpenCreate \/ EditForm \/ Cancel \/ Submit
  \/ AskDelete \/ CancelDelete \/ ConfirmDelete
  \/ \E r \in requests : Answered(r) \/ Serve(r) \/ Fault(r)
  \/ Meanwhile

Spec == Init /\ [][Next]_vars

-----------------------------------------------------------------------------

\* Whatever forms were opened, left and saved, the credentials a connection holds
\* were typed into its own form (lines 64-79 and 182-198), and an SSH connection
\* has a password or a key to log in with, although empty fields mean "keep what is
\* saved" and the kind may change (connectionForm.ts 63 and 84-97).
CredentialsInPlace ==
  \A i \in DOMAIN registry :
    /\ registry[i].secret.typedFor = i
    /\ registry[i].kind = "ssh" => LoginFields(registry[i].secret.what) # {}

=============================================================================
