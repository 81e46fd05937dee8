------------------------- MODULE WorkbenchConnection -------------------------
(***************************************************************************)
(* Which connection and which database the workbench of the web client is  *)
(* on (web/src/app/DatabaseWorkbench.tsx, web/src/pages/DatabasePage.tsx): *)
(* selecting a saved connection, the loads that follow it, switching the   *)
(* database, and the administrative statements that switch first.          *)
(*                                                                         *)
(* A flow is one call of an asynchronous handler.  It waits for one answer *)
(* at a time, so the operation it waits for is its place in the handler.   *)
(* A step runs a handler up to its next await, with the rendering and the  *)
(* effects that follow it.                                                 *)
(***************************************************************************)
EXTENDS Naturals, FiniteSets

CONSTANTS
  Targets,      \* saved connections
  Postgres,     \* the targets on PostgreSQL; the others are on MySQL
  Dbs,          \* databases of each server
  DefaultDb,    \* the one a new connection is on, "postgres" on PostgreSQL
  MaxConns,     \* connections the API server may open
  MaxEvents,    \* how often the user picks a target, switches or administers,
                \* a target is removed, or a call fails that could be served
  None

ASSUME TargetAssumption == Postgres \subseteq Targets /\ IsFiniteSet(Targets)
ASSUME DbAssumption == DefaultDb \in Dbs
ASSUME BoundAssumption == {MaxConns, MaxEvents} \subseteq Nat
ASSUME NoneAssumption == None \notin Targets \cup Dbs \cup Nat

Conns == 1..MaxConns

Select == <<"select", 0>>
Admin == <<"admin", 0>>
Switches == {<<"switch", i>> : i \in 1..2}   \* the user turns to another database while one is being switched to
Loads == {<<k, c>> : k \in {"databases", "metadata"}, c \in Conns}
Flows == {Select, Admin} \cup Switches \cup Loads

VARIABLES
  connections,     \* DatabasePage: the targets it may use
  listing,         \* DatabasePage: the list of targets is being loaded
  selected,        \* the target named in the address
  connectionId, activeSavedId, connectingId,
  activeDatabase, databases,
  objects,         \* the database whose objects the tree shows, or None
  switching,       \* switchingDatabase
  flow,            \* what each flow waits for
  admin,           \* what the administrative flow is about
  open,            \* API server: open connections, their target and database
  exist,           \* the databases of each server
  astray,          \* history: a statement ran where it was not meant to
  events,          \* how often the user has done something, and calls have failed
  disturbed        \* history: an answer was lost, or calls crossed

page == <<connections, listing, selected>>
shown == <<activeDatabase, databases, objects>>
conn == <<connectionId, activeSavedId, connectingId>>
srv == <<open, exist, astray>>
vars == <<page, conn, shown, switching, flow, admin, srv, events, disturbed>>

Idle == [op |-> "none", on |-> None, arg |-> None, st |-> "none", ans |-> None, list |-> {}]
Asked(op, c, arg) == [Idle EXCEPT !.op = op, !.on = c, !.arg = arg, !.st = "sent"]
NoAdmin == [kind |-> "none", db |-> None, ok |-> TRUE]
Tasks == {a \in [kind : {"none", "create", "drop", "createdb"}, db : Dbs \cup {None}, ok : BOOLEAN] :
            a.kind # "none" => a.db \in Dbs}

IsOpen(c) == c \in Conns /\ open[c].target # None

TypeOK ==
  /\ connections \subseteq Targets /\ listing \in BOOLEAN
  /\ selected \in Targets \cup {None}
  /\ connectionId \in Conns \cup {None}
  /\ {activeSavedId, connectingId} \subseteq Targets \cup {None}
  /\ {activeDatabase, objects} \subseteq Dbs \cup {None}
  /\ databases \subseteq Dbs
  /\ switching \in BOOLEAN
  /\ flow \in [Flows -> [op : {"none", "disconnect", "connect", "databases", "metadata",
                               "switch", "sql", "refresh"},
                         on : Conns \cup {None}, arg : Targets \cup Dbs \cup {None},
                         st : {"none", "sent", "ok", "error"},
                         ans : Conns \cup Dbs \cup {None}, list : SUBSET Dbs]]
  /\ admin \in Tasks
  /\ open \in [Conns -> [target : Targets \cup {None}, db : Dbs \cup {None}]]
  /\ exist \in [Targets -> SUBSET Dbs]
  /\ events \in 0..MaxEvents
  /\ {astray, disturbed} \subseteq BOOLEAN

Init ==
  /\ connections = {} /\ listing = TRUE /\ selected \in Targets
  /\ connectionId = None /\ activeSavedId = None /\ connectingId = None
  /\ activeDatabase = None /\ databases = {} /\ objects = None
  /\ switching = FALSE
  /\ flow = [f \in Flows |-> Idle]
  /\ admin = NoAdmin
  /\ open = [c \in Conns |-> [target |-> None, db |-> None]]
  /\ exist \in [Targets -> {Dbs}]
  /\ events = 0
  /\ astray = FALSE /\ disturbed = FALSE

\* A call that changes the connection or its database is under way together
\* with a call of another flow.
Crossing(fl) ==
  \E f, g \in Flows : /\ f # g
                      /\ fl[f].op \in {"switch", "disconnect"}
                      /\ fl[g].op # "none"

\* The flows go on as fl.
Go(fl) == flow' = fl /\ disturbed' = (disturbed \/ Crossing(fl))

\* f waits for its answer, and it has come (well) or failed.
Answered(f, op) == flow[f].op = op /\ flow[f].st = "ok"
Failed(f) == flow[f].st = "error"

-----------------------------------------------------------------------------
(* DatabasePage: the list of targets, and the target in the address.       *)

Pick(t) ==
  /\ events < MaxEvents
  /\ t \in connections /\ t # selected
  /\ connectingId \in {None, t}
  /\ events' = events + 1
  /\ selected' = t
  /\ listing' = TRUE
  /\ UNCHANGED <<connections, conn, shown, switching, flow, admin, srv,
                 disturbed>>

\* The list is loaded anew for every target that is picked, and only the last
\* one counts; a target it lacks is taken out of the address.
Listed(items) ==
  /\ listing
  /\ items # Targets => events < MaxEvents
  /\ events' = IF items = Targets THEN events ELSE events + 1
  /\ listing' = FALSE
  /\ connections' = items
  /\ selected' = IF selected \in items THEN selected ELSE None
  /\ UNCHANGED <<conn, shown, switching, flow, admin, srv, disturbed>>

ListFails ==
  /\ listing /\ events < MaxEvents
  /\ events' = events + 1
  /\ listing' = FALSE
  /\ UNCHANGED <<connections, selected, conn, shown, switching, flow, admin, srv, disturbed>>

-----------------------------------------------------------------------------
(* selectWorkbenchConnection.                                              *)

\* The effect that follows the address: one connection is set up at a time, and
\* the old one is closed first.
SelectConnection ==
  /\ selected \in connections /\ connectingId = None
  /\ ~(activeSavedId = selected /\ connectionId # None)
  /\ connectingId' = selected
  /\ activeSavedId' = selected
  /\ Go([flow EXCEPT ![Select] = IF connectionId # None
                                 THEN Asked("disconnect", connectionId, selected)
                                 ELSE Asked("connect", None, selected)])
  /\ UNCHANGED <<page, connectionId, shown, switching, admin, srv, events>>

Disconnected ==
  /\ Answered(Select, "disconnect")
  /\ Go([flow EXCEPT ![Select] = Asked("connect", None, flow[Select].arg)])
  /\ UNCHANGED <<page, conn, shown, switching, admin, srv, events>>

\* The workspace is reset, and the new connection is shown before its databases
\* and objects are known; the effect on connectionId loads them a second time.
Connected ==
  /\ Answered(Select, "connect")
  /\ LET c == flow[Select].ans IN
       /\ connectionId' = c
       /\ activeDatabase' = open[c].db
       /\ objects' = None
       /\ Go([flow EXCEPT ![Select] = Asked("databases", c, flow[Select].arg),
                          ![<<"databases", c>>] = Asked("databases", c, None),
                          ![<<"metadata", c>>] = Asked("metadata", c, None)])
  /\ UNCHANGED <<page, activeSavedId, connectingId, databases, switching, admin, srv,
                 events>>

SelectGotDatabases ==
  /\ Answered(Select, "databases")
  /\ databases' = flow[Select].list
  /\ activeDatabase' = flow[Select].ans
  /\ Go([flow EXCEPT ![Select] = Asked("metadata", flow[Select].on, flow[Select].arg)])
  /\ UNCHANGED <<page, conn, objects, switching, admin, srv, events>>

SelectGotObjects ==
  /\ Answered(Select, "metadata")
  /\ objects' = flow[Select].ans
  /\ connectingId' = None
  /\ Go([flow EXCEPT ![Select] = Idle])
  /\ UNCHANGED <<page, connectionId, activeSavedId, activeDatabase, databases, switching,
                 admin, srv, events>>

\* The error is reported, and connectionId is left.
SelectFailsKeeps ==
  /\ Failed(Select)
  /\ connectingId' = None
  /\ Go([flow EXCEPT ![Select] = Idle])
  /\ UNCHANGED <<page, connectionId, activeSavedId, shown, switching, admin, srv, events>>

\* Any of the four calls fails: the connection is given up, opened or not; the
\* effect on connectionId clears the databases and leaves the objects.
SelectFails ==
  /\ Failed(Select)
  /\ connectionId' = None
  /\ connectingId' = None
  /\ activeDatabase' = IF connectionId # None THEN None ELSE activeDatabase
  /\ databases' = IF connectionId # None THEN {} ELSE databases
  /\ Go([flow EXCEPT ![Select] = Idle])
  /\ UNCHANGED <<page, activeSavedId, objects, switching, admin, srv, events>>

\* The loads of the effect on connectionId, applied whichever connection is
\* shown by now.
Loaded(c) ==
  \/ /\ flow[<<"databases", c>>].st \in {"ok", "error"}
     /\ LET ok == Answered(<<"databases", c>>, "databases") IN
          /\ databases' = flow[<<"databases", c>>].list
          /\ activeDatabase' = IF ok THEN flow[<<"databases", c>>].ans ELSE activeDatabase
     /\ Go([flow EXCEPT ![<<"databases", c>>] = Idle])
     /\ UNCHANGED <<page, conn, objects, switching, admin, srv, events>>
  \/ /\ flow[<<"metadata", c>>].st \in {"ok", "error"}
     /\ objects' = flow[<<"metadata", c>>].ans
     /\ Go([flow EXCEPT ![<<"metadata", c>>] = Idle])
     /\ UNCHANGED <<page, conn, activeDatabase, databases, switching, admin, srv, events>>

-----------------------------------------------------------------------------
(* switchDatabase, from the toolbar or from an administrative flow.        *)

Switchers == Switches \cup {Admin}

\* What a flow does when its switch is over, well or not: the handlers that
\* switch first do not learn which.
AfterSwitch(f) == IF f = Admin THEN Asked("sql", flow[f].on, admin.db) ELSE Idle

\* The database is shown before the server has answered.
SwitchAtOnce(f, d) ==
  /\ switching' = TRUE
  /\ objects' = None
  /\ activeDatabase' = d
  /\ Go([flow EXCEPT ![f] = Asked("switch", connectionId, d)])

\* The workspace is reset first; the list of databases stays.
StartSwitch(f, d) ==
  /\ switching' = TRUE
  /\ objects' = None
  /\ Go([flow EXCEPT ![f] = Asked("switch", connectionId, d)])
  /\ UNCHANGED activeDatabase

\* The list of the rail is disabled while a switch runs, that of the toolbar is not.
SwitchDatabase(f, d) ==
  /\ events < MaxEvents
  /\ connectionId # None /\ d \in databases /\ d # activeDatabase
  /\ flow[f] = Idle /\ (f[2] = 2 => flow[<<"switch", 1>>] # Idle)
  /\ events' = events + 1
  /\ StartSwitch(f, d)
  /\ UNCHANGED <<page, conn, databases, admin, srv>>

Switched(f) ==
  /\ Answered(f, "switch")
  /\ activeDatabase' = flow[f].ans
  /\ Go([flow EXCEPT ![f] = Asked("metadata", flow[f].on, flow[f].arg)])
  /\ UNCHANGED <<page, conn, databases, objects, switching, admin, srv, events>>

SwitchGotObjects(f) ==
  /\ Answered(f, "metadata")
  /\ objects' = flow[f].ans
  /\ Go([flow EXCEPT ![f] = Asked("databases", flow[f].on, flow[f].arg)])
  /\ UNCHANGED <<page, conn, activeDatabase, databases, switching, admin, srv, events>>

SwitchGotDatabases(f) ==
  /\ Answered(f, "databases")
  /\ databases' = flow[f].list
  /\ activeDatabase' = flow[f].ans
  /\ switching' = FALSE
  /\ Go([flow EXCEPT ![f] = AfterSwitch(f)])
  /\ UNCHANGED <<page, conn, objects, admin, srv, events>>

SwitchFails(f) ==
  /\ Failed(f) /\ flow[f].op \in {"switch", "metadata", "databases"}
  /\ switching' = FALSE
  /\ admin' = IF f = Admin /\ flow[f].op = "switch" THEN [admin EXCEPT !.ok = FALSE] ELSE admin
  /\ Go([flow EXCEPT ![f] = AfterSwitch(f)])
  /\ UNCHANGED <<page, conn, shown, srv, events>>

-----------------------------------------------------------------------------
(* Administrative statements: one flow at a time.                          *)

\* The statement is sent without going to the database it is meant for.
AdminInPlace(kind, d, first) ==
  /\ events < MaxEvents
  /\ connectionId # None /\ flow[Admin] = Idle
  /\ events' = events + 1
  /\ admin' = [kind |-> kind, db |-> d, ok |-> TRUE]
  /\ Go([flow EXCEPT ![Admin] = Asked("sql", connectionId, d)])
  /\ UNCHANGED <<switching, activeDatabase, objects>>

\* The statement is sent after a switch to the database `first', if that is not
\* the one shown.
AdminSwitchesFirst(kind, d, first) ==
  /\ events < MaxEvents
  /\ connectionId # None /\ flow[Admin] = Idle
  /\ events' = events + 1
  /\ admin' = [kind |-> kind, db |-> d, ok |-> TRUE]
  /\ \/ first # activeDatabase /\ StartSwitch(Admin, first)
     \/ /\ first = activeDatabase
        /\ Go([flow EXCEPT ![Admin] = Asked("sql", connectionId, d)])
        /\ UNCHANGED <<switching, activeDatabase, objects>>

\* The dialog may have been opened for d on another connection: it outlives a
\* change of the connection, and of the list of databases.
CreateTable(d) ==
  /\ AdminSwitchesFirst("create", d, d)
  /\ UNCHANGED <<page, conn, databases, srv>>

\* The database shown is left for another one before it is dropped; without
\* another one, PostgreSQL's own is used, and MySQL's is not dropped.
DeleteDatabase(d) ==
  /\ d \in databases
  /\ \/ d # activeDatabase /\ AdminSwitchesFirst("drop", d, activeDatabase)
     \/ /\ d = activeDatabase
        /\ \E other \in IF databases # {d} THEN databases \ {d}
                        ELSE IF activeSavedId \in Postgres THEN {DefaultDb} ELSE {} :
             AdminSwitchesFirst("drop", d, other)
  /\ UNCHANGED <<page, conn, databases, srv>>

CreateDatabase(d) ==
  /\ AdminSwitchesFirst("createdb", d, activeDatabase)
  /\ UNCHANGED <<page, conn, databases, srv>>

AdminRan ==
  /\ Answered(Admin, "sql")
  /\ Go([flow EXCEPT ![Admin] = Asked("refresh", flow[Admin].on, None)])
  /\ UNCHANGED <<page, conn, shown, switching, admin, srv, events>>

\* A new table refreshes the objects, the others refresh the databases.
AdminRefreshed ==
  /\ Answered(Admin, "refresh")
  /\ \/ admin.kind = "create" /\ objects' = flow[Admin].ans /\ UNCHANGED <<databases, activeDatabase>>
     \/ /\ admin.kind # "create"
        /\ databases' = flow[Admin].list
        /\ activeDatabase' = flow[Admin].ans
        /\ UNCHANGED objects
  /\ admin' = NoAdmin
  /\ Go([flow EXCEPT ![Admin] = Idle])
  /\ UNCHANGED <<page, conn, switching, srv, events>>

AdminFails ==
  /\ Failed(Admin) /\ flow[Admin].op \in {"sql", "refresh"}
  /\ admin' = NoAdmin
  /\ Go([flow EXCEPT ![Admin] = Idle])
  /\ UNCHANGED <<page, conn, shown, switching, srv, events>>

-----------------------------------------------------------------------------
(* The API server, as far as the client sees it, and the network.          *)

Reply(f, answer, list) == flow' = [flow EXCEPT ![f].st = "ok", ![f].ans = answer, ![f].list = list]

\* PostgreSQL does not drop the database a connection is on.
Accepts(t, db) ==
  /\ admin.kind = "drop" => admin.db \in exist[t] /\ ~(t \in Postgres /\ db = admin.db)
  /\ admin.kind = "createdb" => admin.db \notin exist[t]

Serve(f) ==
  /\ flow[f].st = "sent"
  /\ LET c == flow[f].on
         op == flow[f].op
         t == open[c].target
         db == open[c].db
     IN \/ /\ op = "connect"
           /\ \E n \in Conns :
                /\ open[n].db = None
                /\ \A m \in Conns : m < n => open[m].db # None
                /\ open' = [open EXCEPT ![n] = [target |-> flow[f].arg, db |-> DefaultDb]]
                /\ Reply(f, n, {})
           /\ UNCHANGED <<exist, astray>>
        \/ /\ op = "disconnect" /\ IsOpen(c)
           /\ open' = [open EXCEPT ![c].target = None]
           /\ Reply(f, None, {})
           /\ UNCHANGED <<exist, astray>>
        \/ /\ op \in {"databases", "metadata", "refresh"} /\ IsOpen(c)
           /\ Reply(f, db, exist[t])
           /\ UNCHANGED srv
        \/ /\ op = "switch" /\ IsOpen(c) /\ flow[f].arg \in exist[t]
           /\ open' = [open EXCEPT ![c].db = flow[f].arg]
           /\ Reply(f, flow[f].arg, {})
           /\ UNCHANGED <<exist, astray>>
        \/ /\ op = "sql" /\ IsOpen(c) /\ Accepts(t, db)
           /\ exist' = [exist EXCEPT ![t] = IF admin.kind = "drop" THEN @ \ {admin.db}
                                           ELSE IF admin.kind = "createdb" THEN @ \cup {admin.db}
                                           ELSE @]
           /\ LET at == IF admin.kind = "create" /\ t \notin Postgres THEN admin.db ELSE db IN
                astray' = \/ astray
                          \/ /\ admin.ok /\ ~disturbed
                             /\ \/ admin.kind = "create" /\ at # admin.db
                                \/ admin.kind = "drop" /\ at = admin.db
           /\ Reply(f, None, {})
           /\ UNCHANGED open
  /\ UNCHANGED <<page, conn, shown, switching, admin, events, disturbed>>

\* The connection is closed, or the statement is refused.
Refuse(f) ==
  /\ flow[f].st = "sent" /\ flow[f].op # "connect"
  /\ LET c == flow[f].on
         t == open[c].target
     IN \/ ~IsOpen(c)
        \/ IsOpen(c) /\ flow[f].op = "switch" /\ flow[f].arg \notin exist[t]
        \/ IsOpen(c) /\ flow[f].op = "sql" /\ ~Accepts(t, open[c].db)
  /\ flow' = [flow EXCEPT ![f].st = "error"]
  /\ UNCHANGED <<page, conn, shown, switching, admin, srv, events, disturbed>>

\* A call fails without a reason of its own, or the server did what was asked
\* and its answer is lost: for a call that only reads that is the same.
Fault(f) ==
  /\ events < MaxEvents
  /\ \/ flow[f].st = "sent" /\ UNCHANGED disturbed
     \/ /\ flow[f].st = "ok" /\ flow[f].op \in {"connect", "disconnect", "switch", "sql"}
        /\ disturbed' = TRUE
  /\ events' = events + 1
  /\ flow' = [flow EXCEPT ![f].st = "error", ![f].ans = None, ![f].list = {}]
  /\ UNCHANGED <<page, conn, shown, switching, admin, srv>>

-----------------------------------------------------------------------------

UserStep ==
  \/ \E t \in Targets : Pick(t)
  \/ \E f \in Switches, d \in Dbs : SwitchDatabase(f, d)
  \/ \E d \in Dbs : CreateTable(d) \/ DeleteDatabase(d) \/ CreateDatabase(d)

ClientStep ==
  \/ SelectConnection \/ Disconnected \/ Connected \/ SelectGotDatabases \/ SelectGotObjects
  \/ SelectFails
  \/ \E c \in Conns : Loaded(c)
  \/ \E f \in Switchers : Switched(f) \/ SwitchGotObjects(f) \/ SwitchGotDatabases(f) \/ SwitchFails(f)
  \/ AdminRan \/ AdminRefreshed \/ AdminFails

Next ==
  \/ UserStep
  \/ ClientStep
  \/ \E items \in {Targets, Targets \ {selected}} : Listed(items)
  \/ ListFails
  \/ \E f \in Flows : Serve(f) \/ Refuse(f) \/ Fault(f)

Spec == Init /\ [][Next]_vars

-----------------------------------------------------------------------------

\* The busy marks belong to a flow that will clear them, whichever of its calls
\* failed (lines 297-299, 420-422): no button stays disabled.
MarksHaveOwner ==
  /\ connectingId # None <=> flow[Select].op # "none"
  /\ switching => \E f \in Switchers : flow[f].op \in {"switch", "metadata", "databases"}

\* When no connection is being set up, the connection in use is open and is the
\* one of the target that is marked as active (lines 399-423), whatever failed
\* and whichever answers came late.
ConnectionMatchesSelection ==
  connectingId = None /\ connectionId # None =>
    IsOpen(connectionId) /\ open[connectionId].target = activeSavedId

AtRest == \A f \in Flows : flow[f] = Idle

\* Unless an answer was lost or a change crossed another call, the workbench
\* shows the database its connection is on, and no other one's objects
\* (lines 141-155, 282-300): a refused switch changes nothing that is shown.
ShownIsCurrent ==
  AtRest /\ connectionId # None /\ ~disturbed =>
    /\ activeDatabase = open[connectionId].db
    /\ objects \in {None, activeDatabase}

\* Under the same conditions a table is created in the database that was named,
\* and no database is dropped while the connection is on it (lines 321-347),
\* if the switch before it succeeded.
AdminWhereSaid == ~astray

\* What the workbench says of its connection is so: who is busy will come to an end,
\* and database and objects are the current ones (lines 141-155, 282-300, 399-423).
ScreenTellsTruth == MarksHaveOwner /\ ShownIsCurrent

=============================================================================
