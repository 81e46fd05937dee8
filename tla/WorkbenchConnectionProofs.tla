--------------------- MODULE WorkbenchConnectionProofs ---------------------
(***************************************************************************)
(* Proofs about WorkbenchConnection: for any saved connections, databases, *)
(* connections and user actions.                                           *)
(***************************************************************************)
EXTENDS WorkbenchConnection, TLAPS

Readers == {"databases", "metadata", "refresh", "sql"}

\* What each flow may wait for.
Allowed(f, op) ==
  /\ f = Select => op \in {"none", "disconnect", "connect", "databases", "metadata"}
  /\ f = Admin => op \in {"none", "switch", "metadata", "databases", "sql", "refresh"}
  /\ f \in Switches => op \in {"none", "switch", "metadata", "databases"}
  /\ f \in Loads => op \in {"none", "databases", "metadata"}

\* A call: it goes to a connection that was opened, and what it may be answered.
Formed(x) ==
  /\ x.op = "none" <=> x.st = "none"
  /\ x.op = "none" => x = Idle
  /\ x.op \notin {"none", "connect"} => x.on \in Conns /\ open[x.on].db # None
  /\ x.op = "connect" => /\ x.arg \in Targets
                         /\ x.st = "ok" => x.ans \in Conns /\ open[x.ans].target = x.arg
  /\ x.op = "switch" => x.arg \in Dbs
  /\ x.op # "connect" => x.ans \in Dbs \cup {None}
  /\ x.st # "ok" => x.ans = None

\* The connection that is set up is the one marked as active.
Chosen ==
  /\ connectingId # None <=> flow[Select].op # "none"
  /\ flow[Select].op # "none" => activeSavedId = connectingId /\ flow[Select].arg = connectingId

\* The connection in use: it was opened; it is closed between the answer to the
\* disconnect and the answer to the connect, and otherwise open on the active target.
Linked ==
  /\ \A c \in Conns : open[c].target # None => open[c].db # None
  /\ connectionId # None => open[connectionId].db # None
  /\ connectionId # None /\ flow[Select].op \notin {"disconnect", "connect"} =>
       open[connectionId].target # None /\ open[connectionId].target = activeSavedId
  /\ flow[Select].op = "disconnect" =>
       /\ connectionId # None /\ flow[Select].on = connectionId
       /\ flow[Select].st = "ok" => open[connectionId].target = None
  /\ flow[Select].op = "connect" /\ connectionId # None => open[connectionId].target = None
  /\ flow[Select].op \in {"databases", "metadata"} =>
       connectionId # None /\ flow[Select].on = connectionId

\* The database every pending read will find, or has found.
Expected == IF connectionId = None \/ flow[Select].op = "connect"
            THEN DefaultDb ELSE open[connectionId].db

\* A read that was or will be answered.
Reads(x) == x.op \in Readers /\ (x.st = "ok" \/ open[x.on].target # None)

Reading(x) ==
  Reads(x) => /\ open[x.on].db = Expected
              /\ x.st = "ok" /\ x.op # "sql" => x.ans = open[x.on].db

Changing(x) ==
  x.op = "switch" => /\ x.on = connectionId /\ objects = None
                     /\ x.st = "ok" => x.ans = open[x.on].db /\ x.ans = x.arg

\* While nothing is being switched the database shown is the one of the connection.
Showing ==
  connectionId # None /\ flow[Select].op # "connect" =>
    /\ \/ activeDatabase = open[connectionId].db
       \/ \E f \in Switchers : flow[f].op = "switch" /\ flow[f].st = "ok"
    /\ objects \in {None, open[connectionId].db}

\* A connection that is being set up is on its first database.
Fresh ==
  /\ flow[Select].op = "connect" /\ flow[Select].st = "ok" => open[flow[Select].ans].db = DefaultDb
  /\ flow[Select].op \in {"databases", "metadata"} => open[connectionId].db = DefaultDb

\* The database a statement is meant for, on connection c that is on db.
Meant(c, db) ==
  /\ admin.kind = "create" => db = admin.db
  /\ admin.kind = "drop" => db # admin.db \/ open[c].target \in Postgres

Aimed ==
  LET x == flow[Admin] IN
  /\ admin.ok /\ x.op = "switch" => Meant(x.on, x.arg)
  /\ admin.ok /\ x.op \in {"metadata", "databases", "sql"} /\ open[x.on].target # None =>
       Meant(x.on, open[x.on].db)

Calm ==
  /\ ~Crossing(flow)
  /\ \A f \in Flows : Reading(flow[f]) /\ Changing(flow[f])
  /\ Showing /\ Fresh /\ Aimed

SwitchMarked ==
  switching => \E f \in Switchers : flow[f].op \in {"switch", "metadata", "databases"}

IInv ==
  /\ TypeOK /\ \A f \in Flows : Allowed(f, flow[f].op) /\ Formed(flow[f])
  /\ Chosen /\ Linked /\ SwitchMarked
  /\ ~disturbed => Calm
  /\ ~astray

Call == [op : {"none", "disconnect", "connect", "databases", "metadata", "switch", "sql",
               "refresh"},
         on : Conns \cup {None}, arg : Targets \cup Dbs \cup {None},
         st : {"none", "sent", "ok", "error"},
         ans : Conns \cup Dbs \cup {None}, list : SUBSET Dbs]

-----------------------------------------------------------------------------
(* The names of the flows, and the records of their calls.                 *)

LEMMA Names ==
  /\ Select \in Flows /\ Admin \in Flows /\ Select # Admin /\ Admin \in Switchers
  /\ \A f \in Switches : f \in Flows /\ f \in Switchers /\ f # Select /\ f # Admin /\ f \notin Loads
  /\ \A f \in Loads : f \in Flows /\ f \notin Switchers /\ f # Select /\ f # Admin
  /\ \A f \in Switchers : f \in Flows /\ f # Select /\ (f = Admin \/ f \in Switches)
  /\ \A f \in Flows : f = Select \/ f = Admin \/ f \in Switches \/ f \in Loads
  /\ \A c \in Conns : /\ <<"databases", c>> \in Loads /\ <<"metadata", c>> \in Loads
                      /\ <<"databases", c>> # <<"metadata", c>>
  /\ Switches = {<<"switch", 1>>, <<"switch", 2>>}
<1> USE DEF Select, Admin, Switches, Loads, Flows, Switchers
<1>1. \A f \in Switches : f # Select /\ f # Admin OBVIOUS
<1>2. \A f \in Loads : f # Select /\ f # Admin /\ f \notin Switches OBVIOUS
<1>3. 1..2 = {1, 2} OBVIOUS
<1>4. Switches = {<<"switch", 1>>, <<"switch", 2>>} BY <1>3
<1> QED BY <1>1, <1>2, <1>4

LEMMA AskedIs ==
  ASSUME NEW op \in {"disconnect", "connect", "databases", "metadata", "switch", "sql", "refresh"},
         NEW c \in Conns \cup {None}, NEW arg \in Targets \cup Dbs \cup {None}
  PROVE  LET x == Asked(op, c, arg) IN
         /\ x \in Call /\ x.op = op /\ x.on = c /\ x.arg = arg /\ x.st = "sent"
         /\ x.ans = None /\ x.list = {}
BY DEF Asked, Idle, Call

LEMMA IdleIs ==
  /\ Idle \in Call /\ Idle.op = "none" /\ Idle.st = "none" /\ Idle.ans = None /\ Idle.list = {}
BY DEF Idle, Call

LEMMA Calls == ASSUME TypeOK PROVE flow \in [Flows -> Call]
BY DEF TypeOK, Call

LEMMA OneCall ==
  ASSUME TypeOK, NEW f \in Flows, NEW x \in Call, flow' = [flow EXCEPT ![f] = x]
  PROVE  /\ flow' \in [Flows -> Call] /\ flow'[f] = x
         /\ \A g \in Flows : g # f => flow'[g] = flow[g]
BY Calls

\* Without a disturbance, whoever is busy finds no other flow that changes anything.
LEMMA Alone ==
  ASSUME IInv, ~disturbed, NEW f \in Flows, NEW g \in Flows, f # g, flow[f].op # "none"
  PROVE  flow[g].op \notin {"switch", "disconnect"}
BY DEF IInv, Calm, Crossing

-----------------------------------------------------------------------------
(* What is kept.                                                           *)

\* A flow other than that of the selection leaves the connection alone.
LEMMA SelectUntouched ==
  ASSUME IInv, flow'[Select] = flow[Select], UNCHANGED <<conn, open>>
  PROVE  Chosen' /\ Linked' /\ (~disturbed => Fresh')
<1> USE DEF conn
<1>1. Chosen' BY DEF IInv, Chosen
<1>2. Linked' BY DEF IInv, Linked
<1>3. ~disturbed => Fresh' BY DEF IInv, Calm, Fresh
<1> QED BY <1>1, <1>2, <1>3

\* One call goes on; connection and server stay.
LEMMA Keep ==
  ASSUME IInv, TypeOK', NEW f \in Flows, NEW x \in Call, flow' = [flow EXCEPT ![f] = x],
         connectionId' = connectionId, open' = open, astray' = astray,
         Allowed(f, x.op), Formed(x), Chosen', Linked', SwitchMarked',
         f = Select => (x.op = "connect" <=> flow[f].op = "connect"),
         ~disturbed' => /\ ~disturbed /\ ~Crossing(flow')
                        /\ Reading(x) /\ Changing(x)' /\ Showing' /\ Fresh' /\ Aimed'
                        /\ \A g \in Flows : g # f /\ flow[g].op = "switch" => objects' = objects
  PROVE  IInv'
<1>1. TypeOK BY DEF IInv
<1>2. flow'[f] = x /\ \A g \in Flows : g # f => flow'[g] = flow[g] BY <1>1, OneCall
<1>3. \A g \in Flows : Allowed(g, flow[g].op) /\ Formed(flow[g]) BY DEF IInv
<1>4. ASSUME NEW g \in Flows PROVE (Allowed(g, flow[g].op) /\ Formed(flow[g]))'
  <2>1. CASE g = f
    <3>1. Formed(x)' BY DEF Formed
    <3> QED BY <1>2, <2>1, <3>1 DEF Formed
  <2>2. CASE g # f
    <3>1. flow'[g] = flow[g] BY <1>2, <2>2
    <3> QED BY <1>3, <3>1 DEF Formed
  <2> QED BY <2>1, <2>2
<1>5. ASSUME ~disturbed' PROVE Calm'
  <2>1. Calm BY <1>5 DEF IInv
  <2>2. (flow[Select].op = "connect")' <=> flow[Select].op = "connect"
    BY <1>2, Names
  <2>3. Expected' = Expected BY <2>2 DEF Expected
  <2>4. ASSUME NEW g \in Flows PROVE Reading(flow[g])' /\ Changing(flow[g])'
    <3>1. CASE g = f
      <4>1. flow'[g] = x BY <1>2, <3>1
      <4>2. Reading(x) /\ Changing(x)' BY <1>5
      <4>3. Reading(flow[g])' BY <2>3, <4>1, <4>2 DEF Reading, Reads
      <4>4. Changing(flow[g])' BY <4>1, <4>2 DEF Changing
      <4> QED BY <4>3, <4>4
    <3>2. CASE g # f
      <4>1. flow'[g] = flow[g] BY <1>2, <3>2
      <4>2. Reading(flow[g]) /\ Changing(flow[g]) BY <2>1 DEF Calm
      <4>3. flow[g].op = "switch" => objects' = objects BY <1>5, <3>2
      <4>4. Reading(flow[g])' BY <2>3, <4>1, <4>2 DEF Reading, Reads
      <4>5. Changing(flow[g])' BY <4>1, <4>2, <4>3 DEF Changing
      <4> QED BY <4>4, <4>5
    <3> QED BY <3>1, <3>2
  <2> QED BY <1>5, <2>4 DEF Calm
<1> QED BY <1>4, <1>5 DEF IInv

SwitchOps == {"switch", "metadata", "databases"}

LEMMA GoCalm ==
  ASSUME NEW fl, Go(fl)
  PROVE  /\ flow' = fl /\ disturbed' \in BOOLEAN
         /\ ~disturbed' => ~disturbed /\ ~Crossing(flow')
<1>1. flow' = fl /\ disturbed' = (disturbed \/ Crossing(fl)) BY DEF Go
<1>2. disturbed' \in BOOLEAN BY <1>1
<1>3. ~disturbed' => ~disturbed /\ ~Crossing(fl) BY <1>1
<1>4. Crossing(flow') = Crossing(fl) BY <1>1
<1> QED BY <1>1, <1>2, <1>3, <1>4

\* A flow other than that of the selection goes on.
LEMMA Other ==
  ASSUME IInv, TypeOK', NEW f \in Flows, f # Select, NEW x \in Call,
         Go([flow EXCEPT ![f] = x]), UNCHANGED <<conn, srv>>,
         Allowed(f, x.op), Formed(x),
         \/ ~switching'
         \/ f \in Switchers /\ x.op \in SwitchOps
         \/ switching' = switching /\ (f \in Switchers => flow[f].op \notin SwitchOps),
         flow[f].op # "none" \/ x.op = "switch" \/ objects' = objects,
         ~disturbed /\ ~disturbed' => Reading(x) /\ Changing(x)' /\ Showing' /\ Aimed'
  PROVE  IInv'
<1>0. TypeOK BY DEF IInv
<1>1. /\ flow' = [flow EXCEPT ![f] = x]
      /\ ~disturbed' => ~disturbed /\ ~Crossing(flow')
  BY GoCalm
<1>2. flow'[f] = x /\ \A g \in Flows : g # f => flow'[g] = flow[g] BY <1>0, <1>1, OneCall
<1>3. flow'[Select] = flow[Select] BY <1>2, Names
<1>4. UNCHANGED <<conn, open>> BY DEF srv
<1>5. Chosen' /\ Linked' /\ (~disturbed => Fresh') BY <1>3, <1>4, SelectUntouched
<1>6. SwitchMarked'
  <2>1. CASE ~switching' BY <2>1 DEF SwitchMarked
  <2>2. CASE f \in Switchers /\ x.op \in SwitchOps BY <1>2, <2>2 DEF SwitchMarked, SwitchOps
  <2>3. CASE switching' = switching /\ (f \in Switchers => flow[f].op \notin SwitchOps)
    <3> SUFFICES ASSUME switching' PROVE \E g \in Switchers : flow'[g].op \in SwitchOps
      BY DEF SwitchMarked, SwitchOps
    <3>1. PICK g \in Switchers : flow[g].op \in SwitchOps
      BY <2>3 DEF IInv, SwitchMarked, SwitchOps
    <3>2. g # f BY <2>3, <3>1
    <3> QED BY <1>2, <3>1, <3>2, Names
  <2> QED BY <2>1, <2>2, <2>3
<1>7. ASSUME ~disturbed', NEW g \in Flows, g # f, flow[g].op = "switch" PROVE objects' = objects
  <2>1. ~disturbed /\ ~Crossing(flow') BY <1>1, <1>7
  <2>2. flow[f].op = "none" BY <1>7, <2>1, Alone
  <2>3. x.op = "none"
    <3>1. flow'[g].op = "switch" BY <1>2, <1>7
    <3> QED BY <1>2, <1>7, <2>1, <3>1 DEF Crossing
  <2> QED BY <2>2, <2>3
<1>8. connectionId' = connectionId /\ open' = open /\ astray' = astray BY DEF conn, srv
<1>9. ~disturbed' => /\ ~disturbed /\ ~Crossing(flow')
                     /\ Reading(x) /\ Changing(x)' /\ Showing' /\ Fresh' /\ Aimed'
                     /\ \A g \in Flows : g # f /\ flow[g].op = "switch" => objects' = objects
  <2> SUFFICES ASSUME ~disturbed'
               PROVE  /\ ~disturbed /\ ~Crossing(flow')
                      /\ Reading(x) /\ Changing(x)' /\ Showing' /\ Fresh' /\ Aimed'
                      /\ \A g \in Flows : g # f /\ flow[g].op = "switch" => objects' = objects
    OBVIOUS
  <2>1. ~disturbed /\ ~Crossing(flow') BY <1>1
  <2>2. Reading(x) /\ Changing(x)' /\ Showing' /\ Aimed' BY <2>1
  <2>3. Fresh' BY <1>5, <2>1
  <2> QED BY <1>7, <2>1, <2>2, <2>3
<1> QED BY <1>1, <1>5, <1>6, <1>8, <1>9, Keep

\* What the state of a call says, without a disturbance.
LEMMA CallFacts ==
  ASSUME IInv, NEW f \in Flows
  PROVE  /\ flow[f] \in Call /\ Allowed(f, flow[f].op) /\ Formed(flow[f])
         /\ flow[f].st # "none" => flow[f].op # "none"
         /\ ~disturbed => Reading(flow[f]) /\ Changing(flow[f])
         /\ ~disturbed => ~Crossing(flow) /\ Showing /\ Fresh /\ Aimed
<1>1. flow[f] \in Call BY Calls DEF IInv
<1>2. Allowed(f, flow[f].op) /\ Formed(flow[f]) BY DEF IInv
<1>3. flow[f].st # "none" => flow[f].op # "none" BY <1>2 DEF Formed
<1>4. ~disturbed => Calm BY DEF IInv
<1> QED BY <1>1, <1>2, <1>3, <1>4 DEF Calm

\* A call that ends is as good as none.
LEMMA IdleKeeps == ASSUME NEW f \in Flows PROVE
  /\ Allowed(f, Idle.op) /\ Formed(Idle) /\ Reading(Idle) /\ Changing(Idle)'
BY IdleIs DEF Allowed, Formed, Reading, Reads, Readers, Changing

LEMMA LoadedStep ==
  ASSUME IInv, NEW c \in Conns, Loaded(c)
  PROVE  IInv'
<1>0. TypeOK BY DEF IInv
<1>1. ASSUME NEW f \in Loads, flow[f].st \in {"ok", "error"}, Go([flow EXCEPT ![f] = Idle]),
             UNCHANGED <<page, conn, switching, admin, srv, events>>,
             \/ /\ databases' = flow[f].list /\ objects' = objects
                /\ activeDatabase' = (IF Answered(f, "databases") THEN flow[f].ans ELSE activeDatabase)
             \/ /\ objects' = flow[f].ans /\ databases' = databases
                /\ activeDatabase' = activeDatabase
      PROVE  IInv'
  <2>1. f \in Flows /\ f # Select /\ f # Admin /\ f \notin Switchers BY Names
  <2>2. /\ flow[f] \in Call /\ Allowed(f, flow[f].op) /\ Formed(flow[f]) /\ flow[f].op # "none"
    BY <1>1, <2>1, CallFacts
  <2>3. flow[f].op \in {"databases", "metadata"} /\ flow[f].ans \in Dbs \cup {None}
    BY <1>1, <2>2 DEF Allowed, Formed
  <2>4. flow' = [flow EXCEPT ![f] = Idle] /\ disturbed' \in BOOLEAN BY <1>1, GoCalm
  <2>5. /\ flow' \in [Flows -> Call] /\ \A g \in Flows : g # f => flow'[g] = flow[g]
    BY <1>0, <2>1, <2>4, IdleIs, OneCall
  <2>6. TypeOK'
    <3>1. {activeDatabase', objects'} \subseteq Dbs \cup {None} /\ databases' \subseteq Dbs
      BY <1>0, <1>1, <2>2, <2>3 DEF TypeOK, Call
    <3> QED BY <1>0, <1>1, <2>4, <2>5, <3>1 DEF TypeOK, Call, page, conn, srv
  <2>7. ASSUME ~disturbed PROVE Showing' /\ Aimed'
    <3>1. Reading(flow[f]) /\ Showing /\ Aimed BY <2>1, <2>7, CallFacts
    <3>2. flow'[Select] = flow[Select] /\ flow'[Admin] = flow[Admin]
          /\ \A g \in Switchers : flow'[g] = flow[g]
      BY <2>1, <2>5, Names
    <3>3. Aimed' BY <1>1, <3>1, <3>2 DEF Aimed, Meant, srv
    <3>4. Showing'
      <4> SUFFICES ASSUME connectionId # None, flow[Select].op # "connect"
                   PROVE  /\ \/ activeDatabase' = open[connectionId].db
                             \/ \E g \in Switchers : flow[g].op = "switch" /\ flow[g].st = "ok"
                          /\ objects' \in {None, open[connectionId].db}
        BY <1>1, <3>2 DEF Showing, srv, conn
      <4>1. flow[f].st = "ok" => flow[f].ans = open[connectionId].db
        BY <2>3, <3>1 DEF Reading, Reads, Readers, Expected
      <4>2. flow[f].st = "error" => flow[f].ans = None BY <2>2 DEF Formed
      <4> QED BY <1>1, <3>1, <4>1, <4>2 DEF Showing, Answered
    <3> QED BY <3>3, <3>4
  <2>8. /\ Allowed(f, Idle.op) /\ Formed(Idle) /\ Reading(Idle) /\ Changing(Idle)'
    BY <2>1, IdleKeeps
  <2>9. switching' = switching /\ UNCHANGED <<conn, srv>> BY <1>1
  <2> QED BY <1>1, <2>1, <2>2, <2>6, <2>7, <2>8, <2>9, IdleIs, Other
<1>2. PICK f \in Loads, g \in Loads : f = <<"databases", c>> /\ g = <<"metadata", c>> BY Names
<1>3. \/ /\ flow[f].st \in {"ok", "error"} /\ Go([flow EXCEPT ![f] = Idle])
         /\ UNCHANGED <<page, conn, switching, admin, srv, events>>
         /\ databases' = flow[f].list /\ objects' = objects
         /\ activeDatabase' = (IF Answered(f, "databases") THEN flow[f].ans ELSE activeDatabase)
      \/ /\ flow[g].st \in {"ok", "error"} /\ Go([flow EXCEPT ![g] = Idle])
         /\ UNCHANGED <<page, conn, switching, admin, srv, events>>
         /\ objects' = flow[g].ans /\ databases' = databases
         /\ activeDatabase' = activeDatabase
  BY <1>2 DEF Loaded
<1> QED BY <1>1, <1>3
-----------------------------------------------------------------------------
(* switchDatabase and the administrative statements.                       *)

\* A switch begins; for an administrative flow it is aimed well.
LEMMA SwitchStarts ==
  ASSUME IInv, NEW f \in Switchers, NEW d \in Dbs, flow[f] = Idle, connectionId # None,
         StartSwitch(f, d), UNCHANGED <<page, conn, databases, srv>>,
         events' \in 0..MaxEvents,
         \/ f # Admin /\ admin' = admin
         \/ /\ f = Admin
            /\ admin' \in Tasks
            /\ admin'.kind = "create" => d = admin'.db
            /\ admin'.kind = "drop" => d # admin'.db
  PROVE  IInv'
<1>0. TypeOK /\ Linked BY DEF IInv
<1>1. f \in Flows /\ f # Select BY Names
<1>2. connectionId \in Conns /\ open[connectionId].db # None BY <1>0 DEF TypeOK, Linked
<1>3. PICK x \in Call : /\ x = Asked("switch", connectionId, d)
                        /\ x.op = "switch" /\ x.on = connectionId /\ x.arg = d
                        /\ x.st = "sent" /\ x.ans = None
  BY <1>2, AskedIs
<1>4. /\ switching' = TRUE /\ objects' = None /\ activeDatabase' = activeDatabase
      /\ Go([flow EXCEPT ![f] = x])
  BY <1>3 DEF StartSwitch
<1>5. flow' = [flow EXCEPT ![f] = x] /\ disturbed' \in BOOLEAN BY <1>4, GoCalm
<1>6. flow' \in [Flows -> Call] /\ flow'[f] = x /\ \A g \in Flows : g # f => flow'[g] = flow[g]
  BY <1>0, <1>1, <1>5, OneCall
<1>7. TypeOK' BY <1>0, <1>4, <1>5, <1>6 DEF TypeOK, Call, page, conn, srv
<1>8. Allowed(f, x.op) /\ Formed(x)
  <2>1. Allowed(f, x.op) BY <1>1, <1>3, Names DEF Allowed
  <2>2. Formed(x) BY <1>2, <1>3 DEF Formed
  <2> QED BY <2>1, <2>2
<1>9. connectionId' = connectionId /\ open' = open BY DEF conn, srv
<1>10. ASSUME ~disturbed PROVE Reading(x) /\ Changing(x)' /\ Showing' /\ Aimed'
  <2>1. Showing /\ Aimed BY <1>1, <1>10, CallFacts
  <2>2. Reading(x) BY <1>3 DEF Reading, Reads, Readers
  <2>3. Changing(x)' BY <1>3, <1>4, <1>9 DEF Changing
  <2>4. flow'[Select] = flow[Select] BY <1>1, <1>6, Names
  <2>5. \A g \in Switchers : flow[g].op = "switch" => flow'[g] = flow[g]
    <3>1. flow[f].op # "switch" BY IdleIs
    <3> QED BY <1>6, <3>1, Names
  <2>6. Showing'
    <3>1. \A g \in Switchers : flow[g].op = "switch" /\ flow[g].st = "ok" =>
             flow'[g].op = "switch" /\ flow'[g].st = "ok"
      BY <2>5
    <3> QED BY <1>4, <1>9, <2>1, <2>4, <3>1 DEF Showing
  <2>7. Aimed'
    <3>1. CASE f # Admin
      <4>1. flow'[Admin] = flow[Admin] /\ admin' = admin BY <1>6, <3>1, Names
      <4> QED BY <1>9, <2>1, <4>1 DEF Aimed, Meant
    <3>2. CASE f = Admin
      <4>1. flow'[Admin] = x BY <1>6, <3>2
      <4> QED BY <1>3, <1>9, <3>2, <4>1 DEF Aimed, Meant
    <3> QED BY <3>1, <3>2
  <2> QED BY <2>2, <2>3, <2>6, <2>7
<1> QED BY <1>1, <1>3, <1>4, <1>7, <1>8, <1>10, Other DEF SwitchOps

LEMMA Events == ASSUME TypeOK, events < MaxEvents, events' = events + 1 PROVE events' \in 0..MaxEvents
BY BoundAssumption DEF TypeOK

LEMMA SwitchDatabaseStep ==
  ASSUME IInv, NEW f \in Switches, NEW d \in Dbs, SwitchDatabase(f, d)
  PROVE  IInv'
<1>1. /\ flow[f] = Idle /\ connectionId # None /\ StartSwitch(f, d)
      /\ UNCHANGED <<page, conn, databases, srv>> /\ admin' = admin
      /\ events < MaxEvents /\ events' = events + 1
  BY DEF SwitchDatabase
<1>2. f \in Switchers /\ f # Admin BY Names
<1>3. events' \in 0..MaxEvents BY <1>1, Events DEF IInv
<1> QED BY <1>1, <1>2, <1>3, SwitchStarts

\* An administrative statement begins: it is sent to the database shown, or a switch
\* to the one it needs.
LEMMA AdminStarts ==
  ASSUME IInv, NEW kind \in {"create", "drop", "createdb"}, NEW d \in Dbs, NEW first,
         AdminSwitchesFirst(kind, d, first), UNCHANGED <<page, conn, databases, srv>>,
         first # activeDatabase => first \in Dbs,
         kind = "create" => first = d,
         kind = "drop" => first # d \/ (first = activeDatabase /\ activeSavedId \in Postgres)
  PROVE  IInv'
<1>0. TypeOK /\ Linked BY DEF IInv
<1>1. /\ events < MaxEvents /\ events' = events + 1
      /\ connectionId # None /\ flow[Admin] = Idle
      /\ admin' = [kind |-> kind, db |-> d, ok |-> TRUE]
      /\ \/ first # activeDatabase /\ StartSwitch(Admin, first)
         \/ /\ first = activeDatabase
            /\ Go([flow EXCEPT ![Admin] = Asked("sql", connectionId, d)])
            /\ switching' = switching /\ activeDatabase' = activeDatabase /\ objects' = objects
  BY DEF AdminSwitchesFirst
<1>2. events' \in 0..MaxEvents BY <1>0, <1>1, Events
<1>3. /\ admin' \in Tasks
      /\ admin'.kind = kind /\ admin'.db = d
  BY <1>1 DEF Tasks
<1>4. Admin \in Switchers /\ Admin \in Flows /\ Admin # Select BY Names
<1>5. CASE first # activeDatabase /\ StartSwitch(Admin, first)
  <2>1. first \in Dbs BY <1>5
  <2>2. admin'.kind = "create" => first = admin'.db BY <1>3
  <2>3. admin'.kind = "drop" => first # admin'.db BY <1>3, <1>5
  <2> QED BY <1>1, <1>2, <1>3, <1>4, <1>5, <2>1, <2>2, <2>3, SwitchStarts
<1>6. CASE /\ first = activeDatabase
           /\ Go([flow EXCEPT ![Admin] = Asked("sql", connectionId, d)])
           /\ switching' = switching /\ activeDatabase' = activeDatabase /\ objects' = objects
  <2>1. connectionId \in Conns /\ open[connectionId].db # None BY <1>0, <1>1 DEF TypeOK, Linked
  <2>2. PICK x \in Call : /\ x = Asked("sql", connectionId, d)
                          /\ x.op = "sql" /\ x.on = connectionId /\ x.st = "sent" /\ x.ans = None
    BY <2>1, AskedIs
  <2>3. Go([flow EXCEPT ![Admin] = x]) BY <1>6, <2>2
  <2>4. /\ flow' = [flow EXCEPT ![Admin] = x] /\ disturbed' \in BOOLEAN
        /\ ~disturbed' => ~disturbed /\ ~Crossing(flow')
    BY <2>3, GoCalm
  <2>5. /\ flow' \in [Flows -> Call] /\ flow'[Admin] = x
        /\ \A g \in Flows : g # Admin => flow'[g] = flow[g]
    BY <1>0, <1>4, <2>4, OneCall
  <2>6. TypeOK' BY <1>0, <1>2, <1>3, <1>6, <2>4, <2>5 DEF TypeOK, Call, page, conn, srv
  <2>7. Allowed(Admin, x.op) /\ Formed(x)
    <3>1. Allowed(Admin, x.op) BY <1>4, <2>2, Names DEF Allowed
    <3>2. Formed(x) BY <2>1, <2>2 DEF Formed
    <3> QED BY <3>1, <3>2
  <2>8. connectionId' = connectionId /\ open' = open BY DEF conn, srv
  <2>9. ASSUME ~disturbed, ~disturbed' PROVE Reading(x) /\ Changing(x)' /\ Showing' /\ Aimed'
    <3>1. Showing /\ ~Crossing(flow') BY <1>4, <2>4, <2>9, CallFacts
    <3>2. flow'[Select] = flow[Select] BY <1>4, <2>5, Names
    <3>3. \A g \in Flows : g # Admin => flow[g].op \notin {"switch", "disconnect"}
      BY <1>4, <2>2, <2>5, <3>1 DEF Crossing
    <3>4. \A g \in Switchers : flow[g].op # "switch" BY <1>1, <3>3, IdleIs, Names
    <3>5. \A g \in Switchers : flow'[g].op # "switch" BY <2>2, <2>5, <3>4, Names
    <3>6. open[connectionId].target # None => flow[Select].op \notin {"connect", "disconnect"}
      BY <1>0, <1>1, <1>4, <3>3, Names DEF Linked
    <3>7. open[connectionId].target # None => activeDatabase = open[connectionId].db
      BY <1>1, <3>1, <3>4, <3>6 DEF Showing
    <3>8. open[connectionId].target # None => open[connectionId].target = activeSavedId
      BY <1>0, <1>1, <3>6 DEF Linked
    <3>9. Reading(x) BY <1>1, <2>2, <3>6 DEF Reading, Reads, Expected
    <3>10. Changing(x)' BY <2>2 DEF Changing
    <3>11. Showing' BY <1>6, <2>8, <3>1, <3>2, <3>4, <3>5 DEF Showing
    <3>12. Aimed'
      <4>1. open[connectionId].target # None =>
               /\ kind = "create" => open[connectionId].db = d
               /\ kind = "drop" => open[connectionId].db # d \/ open[connectionId].target \in Postgres
        BY <1>6, <3>7, <3>8
      <4> QED BY <1>3, <2>2, <2>5, <2>8, <4>1 DEF Aimed, Meant
    <3> QED BY <3>9, <3>10, <3>11, <3>12
  <2>10. flow[Admin].op \notin SwitchOps BY <1>1, IdleIs DEF SwitchOps
  <2> QED BY <1>4, <1>6, <2>3, <2>6, <2>7, <2>9, <2>10, Other
<1> QED BY <1>1, <1>5, <1>6

LEMMA AdminSteps ==
  ASSUME IInv, NEW d \in Dbs, CreateTable(d) \/ DeleteDatabase(d) \/ CreateDatabase(d)
  PROVE  IInv'
<1>0. databases \subseteq Dbs BY DEF IInv, TypeOK
<1>1. CASE CreateTable(d)
  <2>1. AdminSwitchesFirst("create", d, d) /\ UNCHANGED <<page, conn, databases, srv>>
    BY <1>1 DEF CreateTable
  <2> QED BY <2>1, AdminStarts
<1>2. CASE CreateDatabase(d)
  <2>1. AdminSwitchesFirst("createdb", d, activeDatabase) /\ UNCHANGED <<page, conn, databases, srv>>
    BY <1>2 DEF CreateDatabase
  <2> QED BY <2>1, AdminStarts
<1>3. CASE DeleteDatabase(d)
  <2>1. UNCHANGED <<page, conn, databases, srv>> BY <1>3 DEF DeleteDatabase
  <2>2. CASE d # activeDatabase /\ AdminSwitchesFirst("drop", d, activeDatabase)
    BY <2>1, <2>2, AdminStarts
  <2>3. ASSUME d = activeDatabase,
               NEW other \in IF databases # {d} THEN databases \ {d}
                             ELSE IF activeSavedId \in Postgres THEN {DefaultDb} ELSE {},
               AdminSwitchesFirst("drop", d, other)
        PROVE  IInv'
    <3>1. other \in Dbs BY <1>0, DbAssumption
    <3>2. other # d \/ (other = activeDatabase /\ activeSavedId \in Postgres) BY <2>3
    <3> QED BY <2>1, <2>3, <3>1, <3>2, AdminStarts
  <2> QED BY <1>3, <2>2, <2>3 DEF DeleteDatabase
<1> QED BY <1>1, <1>2, <1>3

\* A flow that is not the selection's takes its answer and goes on.
LEMMA GoesOn ==
  ASSUME IInv, NEW f \in Flows, f # Select, flow[f].op # "none", NEW x \in Call, x.op # "switch",
         Go([flow EXCEPT ![f] = x]), UNCHANGED <<page, conn, srv, events>>,
         Allowed(f, x.op), Formed(x),
         {activeDatabase', objects'} \subseteq Dbs \cup {None}, databases' \subseteq Dbs,
         switching' \in BOOLEAN,
         admin' \in Tasks,
         \/ ~switching'
         \/ f \in Switchers /\ x.op \in SwitchOps
         \/ switching' = switching /\ (f \in Switchers => flow[f].op \notin SwitchOps),
         ~disturbed => Reading(x),
         ~disturbed /\ connectionId # None /\ flow[Select].op # "connect" =>
           /\ \/ activeDatabase' = open[connectionId].db
              \/ activeDatabase' = activeDatabase /\ ~(flow[f].op = "switch" /\ flow[f].st = "ok")
           /\ objects' \in {None, open[connectionId].db} \/ objects' = objects,
         f # Admin => admin' = admin,
         /\ ~disturbed /\ f = Admin
         /\ admin'.ok /\ x.op \in {"metadata", "databases", "sql"} /\ open[x.on].target # None
         => /\ admin'.kind = "create" => open[x.on].db = admin'.db
            /\ admin'.kind = "drop" => open[x.on].db # admin'.db \/ open[x.on].target \in Postgres
  PROVE  IInv'
<1>0. TypeOK BY DEF IInv
<1>1. flow' = [flow EXCEPT ![f] = x] /\ disturbed' \in BOOLEAN BY GoCalm
<1>2. flow' \in [Flows -> Call] /\ flow'[f] = x /\ \A g \in Flows : g # f => flow'[g] = flow[g]
  BY <1>0, <1>1, OneCall
<1>3. TypeOK' BY <1>0, <1>1, <1>2 DEF TypeOK, Call, page, conn, srv
<1>4. connectionId' = connectionId /\ open' = open BY DEF conn, srv
<1>5. ASSUME ~disturbed PROVE Reading(x) /\ Changing(x)' /\ Showing' /\ Aimed'
  <2>1. Showing /\ Aimed BY <1>5, CallFacts
  <2>2. Changing(x)' BY DEF Changing
  <2>3. flow'[Select] = flow[Select] BY <1>2, Names
  <2>4. Showing'
    <3> SUFFICES ASSUME connectionId # None, flow[Select].op # "connect"
                 PROVE  /\ \/ activeDatabase' = open[connectionId].db
                           \/ \E g \in Switchers : flow'[g].op = "switch" /\ flow'[g].st = "ok"
                        /\ objects' \in {None, open[connectionId].db}
      BY <1>4, <2>3 DEF Showing
    <3>1. objects' \in {None, open[connectionId].db} BY <1>5, <2>1 DEF Showing
    <3>2. CASE activeDatabase' = open[connectionId].db BY <3>1, <3>2
    <3>3. CASE activeDatabase' = activeDatabase /\ ~(flow[f].op = "switch" /\ flow[f].st = "ok")
      <4>1. CASE activeDatabase = open[connectionId].db BY <3>1, <3>3, <4>1
      <4>2. ASSUME NEW g \in Switchers, flow[g].op = "switch", flow[g].st = "ok"
            PROVE  flow'[g].op = "switch" /\ flow'[g].st = "ok"
        <5>1. g \in Flows /\ g # f BY <3>3, <4>2, Names
        <5> QED BY <1>2, <4>2, <5>1
      <4> QED BY <2>1, <3>1, <4>1, <4>2 DEF Showing
    <3> QED BY <1>5, <3>2, <3>3
  <2>5. Aimed'
    <3>1. CASE f # Admin
      <4>1. flow'[Admin] = flow[Admin] /\ admin' = admin BY <1>2, <3>1, Names
      <4> QED BY <1>4, <2>1, <4>1 DEF Aimed, Meant
    <3>2. CASE f = Admin
      <4>1. flow'[Admin] = x BY <1>2, <3>2
      <4> QED BY <1>4, <1>5, <3>2, <4>1 DEF Aimed, Meant
    <3> QED BY <3>1, <3>2
  <2> QED BY <1>5, <2>2, <2>4, <2>5
<1> QED BY <1>3, <1>5, Other

\* The state of a switch, or of the loads that follow it, without a disturbance.
LEMMA SwitcherFacts ==
  ASSUME IInv, ~disturbed, NEW f \in Switchers, flow[f].op # "none"
  PROVE  /\ Reading(flow[f]) /\ Changing(flow[f]) /\ Aimed
         /\ flow[f].op = "switch" => flow[Select].op = "none" /\ Expected = open[connectionId].db
         /\ connectionId # None /\ flow[Select].op # "connect" => Expected = open[connectionId].db
<1>1. f \in Flows /\ f # Select /\ Select \in Flows BY Names
<1>2. Reading(flow[f]) /\ Changing(flow[f]) /\ Aimed BY <1>1, CallFacts
<1>3. flow[f].op = "switch" => flow[Select].op = "none" BY <1>1, CallFacts DEF Crossing
<1>4. flow[f].op = "switch" => connectionId # None
  <2>1. flow[f].op = "switch" => flow[f].on \in Conns BY <1>1, CallFacts DEF Formed
  <2>2. None \notin Conns BY NoneAssumption, BoundAssumption DEF Conns
  <2> QED BY <1>2, <2>1, <2>2 DEF Changing
<1> QED BY <1>2, <1>3, <1>4 DEF Expected

\* What follows a switch.
LEMMA AfterSwitchIs ==
  ASSUME IInv, NEW f \in Switchers, flow[f].on \in Conns, open[flow[f].on].db # None
  PROVE  \E x \in Call : /\ x = AfterSwitch(f) /\ x.op # "switch"
                         /\ Allowed(f, x.op) /\ Formed(x)
                         /\ f # Admin => x = Idle
                         /\ f = Admin => x.op = "sql" /\ x.on = flow[f].on /\ x.st = "sent"
<1>0. f \in Flows /\ f # Select /\ f \notin Loads BY Names
<1>1. CASE f = Admin
  <2>1. admin.db \in Targets \cup Dbs \cup {None} BY DEF IInv, TypeOK, Tasks
  <2>2. PICK x \in Call : /\ x = Asked("sql", flow[f].on, admin.db)
                          /\ x.op = "sql" /\ x.on = flow[f].on /\ x.st = "sent" /\ x.ans = None
    BY <2>1, AskedIs
  <2>3. Allowed(f, x.op) BY <1>0, <1>1, <2>2, Names DEF Allowed
  <2>4. Formed(x) BY <2>2 DEF Formed
  <2>5. x = AfterSwitch(f) BY <1>1, <2>2 DEF AfterSwitch
  <2> QED BY <1>1, <2>2, <2>3, <2>4, <2>5
<1>2. CASE f # Admin
  <2>1. Idle = AfterSwitch(f) BY <1>2 DEF AfterSwitch
  <2>2. Allowed(f, Idle.op) /\ Formed(Idle) BY <1>0, IdleKeeps
  <2> QED BY <1>2, <2>1, <2>2, IdleIs
<1> QED BY <1>1, <1>2

LEMMA SwitchSteps ==
  ASSUME IInv, NEW f \in Switchers,
         Switched(f) \/ SwitchGotObjects(f) \/ SwitchGotDatabases(f)
  PROVE  IInv'
<1>0. /\ {activeDatabase, objects} \subseteq Dbs \cup {None} /\ databases \subseteq Dbs
      /\ switching \in BOOLEAN
      /\ admin \in Tasks
  BY DEF IInv, TypeOK
<1>1. f \in Flows /\ f # Select /\ (f = Admin \/ f \in Switches) /\ f \notin Loads BY Names
<1>2. flow[f] \in Call /\ Formed(flow[f]) BY <1>1, CallFacts
<1>3. /\ flow[f].st = "ok" /\ flow[f].op \in SwitchOps /\ flow[f].op # "none"
      /\ UNCHANGED <<page, conn, srv, events>> /\ admin' = admin
  BY DEF Switched, SwitchGotObjects, SwitchGotDatabases, Answered, SwitchOps
<1>4. /\ flow[f].on \in Conns /\ open[flow[f].on].db # None /\ flow[f].ans \in Dbs \cup {None}
      /\ flow[f].list \subseteq Dbs
  BY <1>2, <1>3 DEF Formed, SwitchOps, Call
<1>5. ASSUME ~disturbed
      PROVE  /\ open[flow[f].on].db = Expected /\ flow[f].ans = open[flow[f].on].db
             /\ connectionId # None /\ flow[Select].op # "connect" => Expected = open[connectionId].db
             /\ f = Admin /\ admin.ok /\ open[flow[f].on].target # None =>
                  Meant(flow[f].on, open[flow[f].on].db)
  <2>1. /\ Reading(flow[f]) /\ Changing(flow[f]) /\ Aimed
        /\ flow[f].op = "switch" => flow[Select].op = "none" /\ Expected = open[connectionId].db
        /\ connectionId # None /\ flow[Select].op # "connect" => Expected = open[connectionId].db
    BY <1>3, <1>5, SwitcherFacts
  <2>2. CASE flow[f].op = "switch" BY <1>3, <2>1, <2>2 DEF Changing, Aimed
  <2>3. CASE flow[f].op # "switch"
    BY <1>3, <2>1, <2>3 DEF Reading, Reads, Readers, SwitchOps, Aimed
  <2> QED BY <2>2, <2>3
<1>6. CASE Switched(f) \/ SwitchGotObjects(f)
  <2>1. PICK op \in {"metadata", "databases"} :
             Go([flow EXCEPT ![f] = Asked(op, flow[f].on, flow[f].arg)])
    BY <1>6 DEF Switched, SwitchGotObjects
  <2>2. flow[f].arg \in Targets \cup Dbs \cup {None} BY <1>2 DEF Call
  <2>3. PICK x \in Call : /\ x = Asked(op, flow[f].on, flow[f].arg)
                          /\ x.op = op /\ x.on = flow[f].on /\ x.st = "sent" /\ x.ans = None
    BY <1>4, <2>2, AskedIs
  <2>4. Go([flow EXCEPT ![f] = x]) BY <2>1, <2>3
  <2>5. Allowed(f, x.op) /\ Formed(x)
    <3>1. Allowed(f, x.op) BY <1>1, <2>3, Names DEF Allowed
    <3>2. Formed(x) BY <1>4, <2>3 DEF Formed
    <3> QED BY <3>1, <3>2
  <2>6. /\ databases' = databases /\ switching' = switching
        /\ \/ activeDatabase' = flow[f].ans /\ objects' = objects
           \/ /\ objects' = flow[f].ans /\ activeDatabase' = activeDatabase
              /\ flow[f].op = "metadata"
    BY <1>6 DEF Switched, SwitchGotObjects, Answered
  <2>7. ~disturbed => Reading(x) BY <1>5, <2>3 DEF Reading, Reads
  <2>8. ~disturbed /\ connectionId # None /\ flow[Select].op # "connect" =>
           /\ \/ activeDatabase' = open[connectionId].db
              \/ activeDatabase' = activeDatabase /\ ~(flow[f].op = "switch" /\ flow[f].st = "ok")
           /\ objects' \in {None, open[connectionId].db} \/ objects' = objects
    BY <1>5, <2>6
  <2>9. ~disturbed /\ f = Admin /\ admin'.ok /\ open[x.on].target # None =>
           /\ admin'.kind = "create" => open[x.on].db = admin'.db
           /\ admin'.kind = "drop" => open[x.on].db # admin'.db \/ open[x.on].target \in Postgres
    BY <1>3, <1>5, <2>3 DEF Meant
  <2>10. {activeDatabase', objects'} \subseteq Dbs \cup {None} BY <1>0, <1>4, <2>6
  <2>11. x.op \in SwitchOps /\ x.op # "switch" BY <2>3 DEF SwitchOps
  <2> QED BY <1>0, <1>1, <1>3, <2>4, <2>5, <2>6, <2>7, <2>8, <2>9, <2>10, <2>11, GoesOn
<1>7. CASE SwitchGotDatabases(f)
  <2>1. /\ databases' = flow[f].list /\ activeDatabase' = flow[f].ans /\ objects' = objects
        /\ switching' = FALSE /\ Go([flow EXCEPT ![f] = AfterSwitch(f)])
    BY <1>7 DEF SwitchGotDatabases
  <2>2. PICK x \in Call : /\ x = AfterSwitch(f) /\ x.op # "switch"
                          /\ Allowed(f, x.op) /\ Formed(x)
                          /\ f # Admin => x = Idle
                          /\ f = Admin => x.op = "sql" /\ x.on = flow[f].on /\ x.st = "sent"
    BY <1>4, AfterSwitchIs
  <2>3. Go([flow EXCEPT ![f] = x]) BY <2>1, <2>2
  <2>4. ~disturbed => Reading(x)
    <3>1. CASE f = Admin BY <1>5, <2>2, <3>1 DEF Reading, Reads
    <3>2. CASE f # Admin BY <1>1, <2>2, <3>2, IdleKeeps
    <3> QED BY <3>1, <3>2
  <2>5. ~disturbed /\ connectionId # None /\ flow[Select].op # "connect" =>
           activeDatabase' = open[connectionId].db
    BY <1>5, <2>1
  <2>6. ~disturbed /\ f = Admin /\ admin'.ok /\ open[x.on].target # None =>
           /\ admin'.kind = "create" => open[x.on].db = admin'.db
           /\ admin'.kind = "drop" => open[x.on].db # admin'.db \/ open[x.on].target \in Postgres
    BY <1>3, <1>5, <2>2 DEF Meant
  <2>7. {activeDatabase', objects'} \subseteq Dbs \cup {None} /\ databases' \subseteq Dbs
    BY <1>0, <1>4, <2>1
  <2> QED BY <1>0, <1>1, <1>3, <2>1, <2>2, <2>3, <2>4, <2>5, <2>6, <2>7, GoesOn
<1> QED BY <1>6, <1>7

LEMMA SwitchFailsStep ==
  ASSUME IInv, NEW f \in Switchers, SwitchFails(f)
  PROVE  IInv'
<1>0. /\ {activeDatabase, objects} \subseteq Dbs \cup {None} /\ databases \subseteq Dbs
      /\ admin \in Tasks
  BY DEF IInv, TypeOK
<1>1. f \in Flows /\ f # Select BY Names
<1>2. flow[f] \in Call /\ Formed(flow[f]) BY <1>1, CallFacts
<1>3. /\ flow[f].st = "error" /\ flow[f].op \in SwitchOps /\ flow[f].op # "none"
      /\ UNCHANGED <<page, conn, srv, events>> /\ switching' = FALSE
      /\ activeDatabase' = activeDatabase /\ objects' = objects /\ databases' = databases
      /\ Go([flow EXCEPT ![f] = AfterSwitch(f)])
      /\ f = Admin /\ flow[f].op = "switch" => admin' = [admin EXCEPT !.ok = FALSE]
      /\ ~(f = Admin /\ flow[f].op = "switch") => admin' = admin
  BY DEF SwitchFails, Failed, SwitchOps, shown
<1>4. flow[f].on \in Conns /\ open[flow[f].on].db # None BY <1>2, <1>3 DEF Formed, SwitchOps
<1>5. PICK x \in Call : /\ x = AfterSwitch(f) /\ x.op # "switch"
                        /\ Allowed(f, x.op) /\ Formed(x)
                        /\ f # Admin => x = Idle
                        /\ f = Admin => x.op = "sql" /\ x.on = flow[f].on /\ x.st = "sent"
  BY <1>4, AfterSwitchIs
<1>6. Go([flow EXCEPT ![f] = x]) BY <1>3, <1>5
<1>7. /\ admin' \in Tasks
      /\ f = Admin /\ flow[f].op = "switch" => ~admin'.ok
      /\ f # Admin => admin' = admin
  BY <1>0, <1>3 DEF Tasks
<1>8. ASSUME ~disturbed
      PROVE  /\ open[flow[f].on].target # None => open[flow[f].on].db = Expected
             /\ f = Admin /\ admin.ok /\ open[flow[f].on].target # None /\ flow[f].op # "switch" =>
                  Meant(flow[f].on, open[flow[f].on].db)
  <2>1. /\ Reading(flow[f]) /\ Changing(flow[f]) /\ Aimed
        /\ flow[f].op = "switch" => flow[Select].op = "none" /\ Expected = open[connectionId].db
    BY <1>3, <1>8, SwitcherFacts
  <2>2. CASE flow[f].op = "switch" BY <2>1, <2>2 DEF Changing
  <2>3. CASE flow[f].op # "switch"
    BY <1>3, <2>1, <2>3 DEF Reading, Reads, Readers, SwitchOps, Aimed
  <2> QED BY <2>2, <2>3
<1>9. ~disturbed => Reading(x)
  <2>1. CASE f = Admin BY <1>5, <1>8, <2>1 DEF Reading, Reads
  <2>2. CASE f # Admin BY <1>1, <1>5, <2>2, IdleKeeps
  <2> QED BY <2>1, <2>2
<1>10. ~disturbed /\ f = Admin /\ admin'.ok /\ open[x.on].target # None =>
         /\ admin'.kind = "create" => open[x.on].db = admin'.db
         /\ admin'.kind = "drop" => open[x.on].db # admin'.db \/ open[x.on].target \in Postgres
  BY <1>3, <1>5, <1>7, <1>8 DEF Meant
<1>11. {activeDatabase', objects'} \subseteq Dbs \cup {None} /\ databases' \subseteq Dbs
  BY <1>0, <1>3
<1> QED BY <1>1, <1>3, <1>5, <1>6, <1>7, <1>9, <1>10, <1>11, GoesOn

LEMMA AdminEnds ==
  ASSUME IInv, AdminRan \/ AdminRefreshed \/ AdminFails
  PROVE  IInv'
<1>0. /\ {activeDatabase, objects} \subseteq Dbs \cup {None} /\ databases \subseteq Dbs
      /\ switching \in BOOLEAN
      /\ admin \in Tasks
  BY DEF IInv, TypeOK
<1>1. Admin \in Flows /\ Admin # Select /\ Admin \in Switchers BY Names
<1>2. flow[Admin] \in Call /\ Formed(flow[Admin]) BY <1>1, CallFacts
<1>3. /\ flow[Admin].op \in {"sql", "refresh"} /\ flow[Admin].op # "none"
      /\ flow[Admin].op \notin SwitchOps
      /\ UNCHANGED <<page, conn, srv, events>> /\ switching' = switching
  BY DEF AdminRan, AdminRefreshed, AdminFails, Answered, SwitchOps
<1>4. /\ flow[Admin].on \in Conns /\ open[flow[Admin].on].db # None
      /\ flow[Admin].ans \in Dbs \cup {None} /\ flow[Admin].list \subseteq Dbs
  BY <1>2, <1>3 DEF Formed, Call
<1>5. ~disturbed =>
        /\ Reading(flow[Admin])
        /\ connectionId # None /\ flow[Select].op # "connect" => Expected = open[connectionId].db
  BY <1>1, <1>3, SwitcherFacts
<1>6. CASE AdminRan
  <2>1. PICK x \in Call : /\ x = Asked("refresh", flow[Admin].on, None)
                          /\ x.op = "refresh" /\ x.on = flow[Admin].on /\ x.st = "sent" /\ x.ans = None
    BY <1>4, AskedIs
  <2>2. /\ Go([flow EXCEPT ![Admin] = x]) /\ flow[Admin].st = "ok"
        /\ activeDatabase' = activeDatabase /\ objects' = objects /\ databases' = databases
        /\ admin' = admin
    BY <1>6, <2>1 DEF AdminRan, Answered, shown
  <2>3. Allowed(Admin, x.op) /\ Formed(x)
    <3>1. Allowed(Admin, x.op) BY <1>1, <2>1, Names DEF Allowed
    <3>2. Formed(x) BY <1>4, <2>1 DEF Formed
    <3> QED BY <3>1, <3>2
  <2>4. ~disturbed => Reading(x) BY <1>3, <1>5, <2>1, <2>2 DEF Reading, Reads, Readers
  <2>5. flow[Admin].op # "switch" /\ x.op # "switch" /\ x.op \notin {"metadata", "databases", "sql"}
    BY <1>3, <2>1
  <2>6. {activeDatabase', objects'} \subseteq Dbs \cup {None} /\ databases' \subseteq Dbs
    BY <1>0, <2>2
  <2> QED BY <1>0, <1>1, <1>3, <2>2, <2>3, <2>4, <2>5, <2>6, GoesOn
<1>7. CASE AdminRefreshed \/ AdminFails
  <2>1. /\ Go([flow EXCEPT ![Admin] = Idle]) /\ admin' = NoAdmin
        /\ \/ activeDatabase' = activeDatabase /\ objects' = objects /\ databases' = databases
           \/ /\ flow[Admin].op = "refresh" /\ flow[Admin].st = "ok"
              /\ \/ /\ objects' = flow[Admin].ans /\ activeDatabase' = activeDatabase
                    /\ databases' = databases
                 \/ /\ databases' = flow[Admin].list /\ activeDatabase' = flow[Admin].ans
                    /\ objects' = objects
    BY <1>7 DEF AdminRefreshed, AdminFails, Answered, shown
  <2>2. Allowed(Admin, Idle.op) /\ Formed(Idle) /\ Reading(Idle) BY <1>1, IdleKeeps
  <2>3. admin' \in Tasks
    BY <2>1 DEF NoAdmin, Tasks
  <2>4. {activeDatabase', objects'} \subseteq Dbs \cup {None} /\ databases' \subseteq Dbs
    BY <1>0, <1>4, <2>1
  <2>5. ~disturbed /\ connectionId # None /\ flow[Select].op # "connect" =>
           /\ \/ activeDatabase' = open[connectionId].db
              \/ activeDatabase' = activeDatabase /\ ~(flow[Admin].op = "switch" /\ flow[Admin].st = "ok")
           /\ objects' \in {None, open[connectionId].db} \/ objects' = objects
    BY <1>3, <1>5, <2>1 DEF Reading, Reads, Readers
  <2>6. Idle \in Call /\ Idle.op = "none" BY IdleIs
  <2> HIDE DEF Idle
  <2> QED BY <1>0, <1>1, <1>3, <2>1, <2>2, <2>3, <2>4, <2>5, <2>6, GoesOn
<1> QED BY <1>6, <1>7
-----------------------------------------------------------------------------
(* The list of targets.                                                    *)

LEMMA PageSteps ==
  ASSUME IInv,
         \/ \E t \in Targets : Pick(t)
         \/ \E items \in {Targets, Targets \ {selected}} : Listed(items)
         \/ ListFails
  PROVE  IInv'
<1>0. TypeOK BY DEF IInv
<1>1. UNCHANGED <<conn, shown, switching, flow, admin, srv, disturbed>>
  BY DEF Pick, Listed, ListFails
<1>2. /\ connections' \subseteq Targets /\ listing' \in BOOLEAN
      /\ selected' \in Targets \cup {None} /\ events' \in 0..MaxEvents
  <2>1. ASSUME NEW t \in Targets, Pick(t)
        PROVE  /\ connections' \subseteq Targets /\ listing' \in BOOLEAN
               /\ selected' \in Targets \cup {None} /\ events' \in 0..MaxEvents
    BY <1>0, <2>1, Events DEF Pick, TypeOK
  <2>2. ASSUME NEW items \in {Targets, Targets \ {selected}}, Listed(items)
        PROVE  /\ connections' \subseteq Targets /\ listing' \in BOOLEAN
               /\ selected' \in Targets \cup {None} /\ events' \in 0..MaxEvents
    <3>1. events' \in 0..MaxEvents
      <4>1. events \in 0..MaxEvents BY <1>0 DEF TypeOK
      <4>2. events' = events \/ (events < MaxEvents /\ events' = events + 1) BY <2>2 DEF Listed
      <4> QED BY <1>0, <4>1, <4>2, Events
    <3>2. /\ connections' = items /\ listing' = FALSE
          /\ selected' = IF selected \in items THEN selected ELSE None
      BY <2>2 DEF Listed
    <3> QED BY <1>0, <3>1, <3>2 DEF TypeOK
  <2>3. CASE ListFails
    BY <1>0, <2>3, Events DEF ListFails, TypeOK
  <2> QED BY <2>1, <2>2, <2>3
<1> USE DEF conn, shown, srv
<1>3. TypeOK' BY <1>0, <1>1, <1>2 DEF TypeOK
<1>4. Chosen' /\ Linked' /\ SwitchMarked' /\ ~astray'
  BY <1>1 DEF IInv, Chosen, Linked, SwitchMarked
<1>5. \A f \in Flows : (Allowed(f, flow[f].op) /\ Formed(flow[f]))'
  <2>1. \A f \in Flows : Allowed(f, flow[f].op) /\ Formed(flow[f]) BY DEF IInv
  <2> QED BY <1>1, <2>1 DEF Formed
<1>6. ASSUME ~disturbed' PROVE Calm'
  <2>1. Calm /\ flow' = flow BY <1>1, <1>6 DEF IInv
  <2>2. Expected' = Expected BY <1>1 DEF Expected
  <2>3. ASSUME NEW f \in Flows PROVE (Reading(flow[f]) /\ Changing(flow[f]))'
    <3>1. Reading(flow[f]) /\ Changing(flow[f]) BY <2>1 DEF Calm
    <3> QED BY <1>1, <2>2, <3>1 DEF Reading, Reads, Changing
  <2>4. Showing' /\ Fresh' /\ Aimed' BY <1>1, <2>1 DEF Calm, Showing, Fresh, Aimed, Meant
  <2>5. ~Crossing(flow') BY <2>1 DEF Calm
  <2> QED BY <2>3, <2>4, <2>5 DEF Calm
<1> QED BY <1>3, <1>4, <1>5, <1>6 DEF IInv

-----------------------------------------------------------------------------
(* selectWorkbenchConnection.                                              *)

\* The flow of the selection goes on.
LEMMA SelectGoes ==
  ASSUME IInv, TypeOK', NEW x \in Call, x.op # "switch", Go([flow EXCEPT ![Select] = x]),
         UNCHANGED <<switching, admin, srv>>, Allowed(Select, x.op), Formed(x), Chosen', Linked',
         flow[Select].op # "none" \/ (objects' = objects /\ connectionId' = connectionId),
         ~disturbed /\ ~disturbed' =>
           /\ Reading(x)' /\ Showing' /\ Fresh'
           /\ \A g \in Flows : g # Select /\ Reads(flow[g]) => open[flow[g].on].db = Expected'
  PROVE  IInv'
<1>0. TypeOK BY DEF IInv
<1>1. /\ flow' = [flow EXCEPT ![Select] = x]
      /\ ~disturbed' => ~disturbed /\ ~Crossing(flow')
  BY GoCalm
<1>2. flow'[Select] = x /\ \A g \in Flows : g # Select => flow'[g] = flow[g]
  BY <1>0, <1>1, OneCall, Names
<1>3. open' = open /\ astray' = astray BY DEF srv
<1>4. ASSUME NEW g \in Flows PROVE (Allowed(g, flow[g].op) /\ Formed(flow[g]))'
  <2>1. CASE g = Select
    <3>1. Formed(x)' BY <1>3 DEF Formed
    <3> QED BY <1>2, <2>1, <3>1 DEF Formed
  <2>2. CASE g # Select
    <3>1. flow'[g] = flow[g] /\ Allowed(g, flow[g].op) /\ Formed(flow[g])
      BY <1>2, <2>2 DEF IInv
    <3> QED BY <1>3, <3>1 DEF Formed
  <2> QED BY <2>1, <2>2
<1>5. SwitchMarked'
  <2>1. \A g \in Switchers : flow'[g] = flow[g] BY <1>2, Names
  <2> QED BY <2>1 DEF IInv, SwitchMarked
<1>6. ASSUME ~disturbed' PROVE Calm'
  <2>1. ~disturbed /\ ~Crossing(flow') /\ Calm BY <1>1, <1>6 DEF IInv
  <2>2. ASSUME NEW g \in Flows PROVE (Reading(flow[g]) /\ Changing(flow[g]))'
    <3>1. CASE g = Select
      <4>1. flow'[g] = x /\ Reading(x)' BY <1>2, <1>6, <2>1, <3>1
      <4>2. Reading(flow[g])' BY <4>1 DEF Reading, Reads
      <4>3. Changing(flow[g])' BY <4>1 DEF Changing
      <4> QED BY <4>2, <4>3
    <3>2. CASE g # Select
      <4>1. flow'[g] = flow[g] BY <1>2, <3>2
      <4>2. Reading(flow[g]) /\ Changing(flow[g]) BY <2>1 DEF Calm
      <4>3. Reads(flow[g]) => open[flow[g].on].db = Expected' BY <1>6, <2>1, <3>2
      <4>4. Reading(flow[g])' BY <1>3, <4>1, <4>2, <4>3 DEF Reading, Reads
      <4>5. flow[g].op = "switch" => objects' = objects /\ connectionId' = connectionId
        BY <2>1, <3>2, Alone, Names
      <4>6. Changing(flow[g])' BY <1>3, <4>1, <4>2, <4>5 DEF Changing
      <4> QED BY <4>4, <4>6
    <3> QED BY <3>1, <3>2
  <2>3. Aimed'
    <3>1. flow'[Admin] = flow[Admin] /\ admin' = admin BY <1>2, Names
    <3> QED BY <1>3, <2>1, <3>1 DEF Calm, Aimed, Meant
  <2>4. Showing' /\ Fresh' BY <1>6, <2>1
  <2> QED BY <2>1, <2>2, <2>3, <2>4 DEF Calm
<1>7. ~astray' BY <1>3 DEF IInv
<1> QED BY <1>4, <1>5, <1>6, <1>7 DEF IInv

\* While a connection is closed, nothing else is under way.
LEMMA Closing ==
  ASSUME IInv, ~disturbed, flow[Select].op = "disconnect", NEW g \in Flows, g # Select
  PROVE  flow[g].op = "none"
BY CallFacts, Names DEF Crossing

LEMMA SelectConnectionStep ==
  ASSUME IInv, SelectConnection
  PROVE  IInv'
<1>0. TypeOK /\ Chosen /\ Linked BY DEF IInv
<1>1. /\ selected \in connections /\ connectingId = None /\ connectingId' = selected
      /\ activeSavedId' = selected /\ connectionId' = connectionId
      /\ UNCHANGED <<switching, admin, srv>> /\ UNCHANGED <<page, shown, events>>
      /\ \/ /\ connectionId # None
            /\ Go([flow EXCEPT ![Select] = Asked("disconnect", connectionId, selected)])
         \/ /\ connectionId = None
            /\ Go([flow EXCEPT ![Select] = Asked("connect", None, selected)])
  BY DEF SelectConnection
<1>2. selected \in Targets /\ selected # None /\ flow[Select].op = "none"
  BY <1>0, <1>1, NoneAssumption DEF TypeOK, Chosen
<1>3. PICK x \in Call : /\ Go([flow EXCEPT ![Select] = x]) /\ x.arg = selected /\ x.st = "sent"
                        /\ x.ans = None
                        /\ \/ connectionId # None /\ x.op = "disconnect" /\ x.on = connectionId
                           \/ connectionId = None /\ x.op = "connect"
  <2>1. CASE connectionId # None
    <3>1. connectionId \in Conns \cup {None} BY <1>0 DEF TypeOK
    <3>2. PICK x \in Call : /\ x = Asked("disconnect", connectionId, selected)
                            /\ x.op = "disconnect" /\ x.on = connectionId /\ x.arg = selected
                            /\ x.st = "sent" /\ x.ans = None
      BY <1>2, <3>1, AskedIs
    <3>3. Go([flow EXCEPT ![Select] = x]) BY <1>1, <2>1, <3>2
    <3> QED BY <2>1, <3>2, <3>3
  <2>2. CASE connectionId = None
    <3>1. PICK x \in Call : /\ x = Asked("connect", None, selected)
                            /\ x.op = "connect" /\ x.arg = selected
                            /\ x.st = "sent" /\ x.ans = None
      BY <1>2, AskedIs
    <3>2. Go([flow EXCEPT ![Select] = x]) BY <1>1, <2>2, <3>1
    <3> QED BY <2>2, <3>1, <3>2
  <2> QED BY <2>1, <2>2
<1>4. /\ flow' = [flow EXCEPT ![Select] = x] /\ disturbed' \in BOOLEAN
      /\ ~disturbed' => ~disturbed /\ ~Crossing(flow')
  BY <1>3, GoCalm
<1>5. flow' \in [Flows -> Call] /\ flow'[Select] = x
      /\ \A g \in Flows : g # Select => flow'[g] = flow[g]
  BY <1>0, <1>4, OneCall, Names
<1>6. TypeOK' BY <1>0, <1>1, <1>2, <1>4, <1>5 DEF TypeOK, Call, page, shown, srv
<1>7. Allowed(Select, x.op) /\ Formed(x) /\ x.op # "switch"
  <2>1. Allowed(Select, x.op) BY <1>3, Names DEF Allowed
  <2>2. Formed(x) BY <1>0, <1>2, <1>3 DEF Formed, Linked, TypeOK
  <2> QED BY <1>3, <2>1, <2>2
<1>8. Chosen' BY <1>1, <1>2, <1>3, <1>5 DEF Chosen
<1>9. Linked' BY <1>0, <1>1, <1>2, <1>3, <1>5 DEF Linked, srv
<1>10. ASSUME ~disturbed
       PROVE  /\ Reading(x)' /\ Showing' /\ Fresh'
              /\ \A g \in Flows : g # Select /\ Reads(flow[g]) => open[flow[g].on].db = Expected'
  <2>1. open' = open /\ activeDatabase' = activeDatabase /\ objects' = objects
    BY <1>1 DEF srv, shown
  <2>2. Expected' = Expected BY <1>1, <1>2, <1>3, <1>5, <2>1 DEF Expected
  <2>3. \A g \in Flows : Reading(flow[g]) BY <1>10, CallFacts
  <2>4. Showing BY <1>10, CallFacts, Names
  <2>5. \A g \in Switchers : flow'[g] = flow[g] BY <1>5, Names
  <2>6. Showing' BY <1>1, <1>2, <1>3, <1>5, <2>1, <2>4, <2>5 DEF Showing
  <2>7. Fresh' BY <1>3, <1>5 DEF Fresh
  <2>8. Reading(x)' BY <1>3 DEF Reading, Reads, Readers
  <2> QED BY <2>2, <2>3, <2>6, <2>7, <2>8 DEF Reading
<1>11. objects' = objects BY <1>1 DEF shown
<1> QED BY <1>1, <1>3, <1>6, <1>7, <1>8, <1>9, <1>10, <1>11, SelectGoes

LEMMA DisconnectedStep ==
  ASSUME IInv, Disconnected
  PROVE  IInv'
<1>0. TypeOK /\ Chosen /\ Linked /\ Select \in Flows BY Names DEF IInv
<1>1. /\ flow[Select].op = "disconnect" /\ flow[Select].st = "ok"
      /\ Go([flow EXCEPT ![Select] = Asked("connect", None, flow[Select].arg)])
      /\ UNCHANGED <<page, conn, shown, switching, admin, srv, events>>
  BY DEF Disconnected, Answered
<1>2. /\ flow[Select].arg = connectingId /\ connectingId # None /\ activeSavedId = connectingId
      /\ connectingId \in Targets
  BY <1>0, <1>1 DEF Chosen, TypeOK
<1>3. PICK x \in Call : /\ x = Asked("connect", None, connectingId)
                        /\ x.op = "connect" /\ x.arg = connectingId /\ x.st = "sent" /\ x.ans = None
  BY <1>2, AskedIs
<1>4. Go([flow EXCEPT ![Select] = x]) BY <1>1, <1>2, <1>3
<1>5. /\ flow' = [flow EXCEPT ![Select] = x] /\ disturbed' \in BOOLEAN
  BY <1>4, GoCalm
<1>6. flow' \in [Flows -> Call] /\ flow'[Select] = x BY <1>0, <1>5, OneCall
<1>7. TypeOK' BY <1>0, <1>1, <1>5, <1>6 DEF TypeOK, Call, page, conn, shown, srv
<1>8. Allowed(Select, x.op) /\ Formed(x) /\ x.op # "switch"
  <2>1. Allowed(Select, x.op) BY <1>3, Names DEF Allowed
  <2>2. Formed(x) BY <1>2, <1>3 DEF Formed
  <2> QED BY <1>3, <2>1, <2>2
<1>9. Chosen' BY <1>1, <1>2, <1>3, <1>6 DEF Chosen, conn
<1>10. Linked' BY <1>0, <1>1, <1>2, <1>3, <1>6 DEF Linked, conn, srv
<1>11. ASSUME ~disturbed
       PROVE  /\ Reading(x)' /\ Showing' /\ Fresh'
              /\ \A g \in Flows : g # Select /\ Reads(flow[g]) => open[flow[g].on].db = Expected'
  <2>1. \A g \in Flows : g # Select => ~Reads(flow[g])
    BY <1>1, <1>11, Closing DEF Reads, Readers
  <2>2. Showing' BY <1>3, <1>6 DEF Showing
  <2>3. Fresh' BY <1>3, <1>6 DEF Fresh
  <2>4. Reading(x)' BY <1>3 DEF Reading, Reads, Readers
  <2> QED BY <2>1, <2>2, <2>3, <2>4
<1>12. UNCHANGED <<switching, admin, srv>> BY <1>1
<1>13. flow[Select].op # "none" BY <1>1
<1> QED BY <1>4, <1>7, <1>8, <1>9, <1>10, <1>11, <1>12, <1>13, SelectGoes

LEMMA SelectGotSteps ==
  ASSUME IInv, SelectGotDatabases \/ SelectGotObjects
  PROVE  IInv'
<1>0. TypeOK /\ Chosen /\ Linked /\ Select \in Flows BY Names DEF IInv
<1>1. flow[Select] \in Call /\ Formed(flow[Select]) BY <1>0, CallFacts
<1>2. /\ flow[Select].op \in {"databases", "metadata"} /\ flow[Select].st = "ok"
      /\ flow[Select].op # "none"
      /\ UNCHANGED <<page, switching, admin, srv, events>>
      /\ connectionId' = connectionId /\ activeSavedId' = activeSavedId
  BY DEF SelectGotDatabases, SelectGotObjects, Answered, conn
<1>3. /\ flow[Select].on \in Conns /\ open[flow[Select].on].db # None
      /\ flow[Select].ans \in Dbs \cup {None} /\ flow[Select].list \subseteq Dbs
      /\ flow[Select].arg \in Targets \cup Dbs \cup {None}
      /\ connectionId # None /\ flow[Select].on = connectionId
  BY <1>0, <1>1, <1>2 DEF Formed, Call, Linked
<1>4. PICK x \in Call :
        /\ Go([flow EXCEPT ![Select] = x]) /\ Allowed(Select, x.op) /\ Formed(x)
        /\ \/ /\ x.op = "metadata" /\ x.on = connectionId /\ x.arg = flow[Select].arg /\ x.st = "sent"
              /\ databases' = flow[Select].list /\ activeDatabase' = flow[Select].ans
              /\ objects' = objects /\ connectingId' = connectingId
           \/ /\ x = Idle /\ x.op = "none" /\ objects' = flow[Select].ans /\ connectingId' = None
              /\ databases' = databases /\ activeDatabase' = activeDatabase
  <2>1. CASE SelectGotDatabases
    <3>1. PICK x \in Call : /\ x = Asked("metadata", flow[Select].on, flow[Select].arg)
                            /\ x.op = "metadata" /\ x.on = connectionId /\ x.arg = flow[Select].arg
                            /\ x.st = "sent" /\ x.ans = None
      BY <1>3, AskedIs
    <3>2. Allowed(Select, x.op) BY <3>1, Names DEF Allowed
    <3>3. Formed(x) BY <1>3, <3>1 DEF Formed
    <3>4. Go([flow EXCEPT ![Select] = x]) BY <2>1, <3>1 DEF SelectGotDatabases
    <3>5. /\ databases' = flow[Select].list /\ activeDatabase' = flow[Select].ans
          /\ objects' = objects /\ connectingId' = connectingId
      BY <2>1 DEF SelectGotDatabases, conn
    <3> QED BY <3>1, <3>2, <3>3, <3>4, <3>5
  <2>2. CASE SelectGotObjects
    <3>1. Allowed(Select, Idle.op) /\ Formed(Idle) BY <1>0, IdleKeeps
    <3>2. /\ Go([flow EXCEPT ![Select] = Idle]) /\ objects' = flow[Select].ans
          /\ connectingId' = None /\ databases' = databases /\ activeDatabase' = activeDatabase
      BY <2>2 DEF SelectGotObjects
    <3> HIDE DEF Idle
    <3> QED BY <3>1, <3>2, IdleIs
  <2> QED BY <2>1, <2>2
<1>5. flow' = [flow EXCEPT ![Select] = x] /\ disturbed' \in BOOLEAN BY <1>4, GoCalm
<1>6. /\ flow' \in [Flows -> Call] /\ flow'[Select] = x
      /\ \A g \in Flows : g # Select => flow'[g] = flow[g]
  BY <1>0, <1>5, OneCall
<1>7. TypeOK'
  <2>1. /\ {activeDatabase', objects'} \subseteq Dbs \cup {None} /\ databases' \subseteq Dbs
        /\ connectingId' \in Targets \cup {None}
    BY <1>0, <1>3, <1>4 DEF TypeOK
  <2> QED BY <1>0, <1>2, <1>5, <1>6, <2>1 DEF TypeOK, Call, page, srv
<1>8. Chosen' BY <1>0, <1>2, <1>4, <1>6 DEF Chosen
<1>9. Linked'
  <2>1. x.op \in {"metadata", "none"} /\ (x.op = "metadata" => x.on = connectionId) BY <1>4
  <2>2. open' = open BY <1>2 DEF srv
  <2> QED BY <1>0, <1>2, <1>3, <1>6, <2>1, <2>2 DEF Linked
<1>10. ASSUME ~disturbed
       PROVE  /\ Reading(x)' /\ Showing' /\ Fresh'
              /\ \A g \in Flows : g # Select /\ Reads(flow[g]) => open[flow[g].on].db = Expected'
  <2>1. \A g \in Flows : Reading(flow[g]) BY <1>10, CallFacts
  <2>2. Showing /\ Fresh BY <1>0, <1>10, CallFacts
  <2>3. open' = open BY <1>2 DEF srv
  <2>4. x.op \in {"metadata", "none"} BY <1>4
  <2>5. Expected' = Expected /\ Expected = open[connectionId].db
    BY <1>2, <1>3, <1>6, <2>3, <2>4 DEF Expected
  <2>6. flow[Select].ans = open[connectionId].db
    BY <1>0, <1>2, <1>3, <2>1 DEF Reading, Reads, Readers
  <2>7. \A g \in Switchers : flow'[g] = flow[g] BY <1>6, Names
  <2>8. Showing' BY <1>2, <1>3, <1>4, <1>6, <2>2, <2>3, <2>6, <2>7 DEF Showing
  <2>9. Fresh' BY <1>2, <1>6, <2>2, <2>3, <2>4 DEF Fresh
  <2>10. Reading(x)'
    <3>1. x.op = "metadata" => x.on = connectionId /\ x.st = "sent" BY <1>4
    <3> QED BY <2>3, <2>4, <2>5, <3>1 DEF Reading, Reads, Readers
  <2> QED BY <2>1, <2>5, <2>8, <2>9, <2>10 DEF Reading
<1>11. UNCHANGED <<switching, admin, srv>> /\ x.op # "switch" BY <1>2, <1>4
<1> QED BY <1>2, <1>4, <1>7, <1>8, <1>9, <1>10, <1>11, SelectGoes

LEMMA SelectFailsStep ==
  ASSUME IInv, SelectFails
  PROVE  IInv'
<1>0. TypeOK /\ Chosen /\ Linked /\ Select \in Flows BY Names DEF IInv
<1>1. /\ flow[Select].st = "error" /\ connectionId' = None /\ connectingId' = None
      /\ activeDatabase' = (IF connectionId # None THEN None ELSE activeDatabase)
      /\ databases' = (IF connectionId # None THEN {} ELSE databases)
      /\ Go([flow EXCEPT ![Select] = Idle]) /\ activeSavedId' = activeSavedId
      /\ objects' = objects /\ UNCHANGED <<page, switching, admin, srv, events>>
  BY DEF SelectFails, Failed
<1>2. /\ flow[Select].op # "none" /\ Allowed(Select, flow[Select].op)
      /\ Allowed(Select, Idle.op) /\ Formed(Idle)
      /\ Idle \in Call /\ Idle.op = "none"
  BY <1>0, <1>1, CallFacts, IdleKeeps, IdleIs
<1> HIDE DEF Idle
<1>3. flow' = [flow EXCEPT ![Select] = Idle] /\ disturbed' \in BOOLEAN BY <1>1, GoCalm
<1>4. flow' \in [Flows -> Call] /\ flow'[Select] = Idle BY <1>0, <1>2, <1>3, OneCall
<1>5. TypeOK'
  <2>1. {activeDatabase', objects'} \subseteq Dbs \cup {None} /\ databases' \subseteq Dbs
    BY <1>0, <1>1 DEF TypeOK
  <2> QED BY <1>0, <1>1, <1>3, <1>4, <2>1 DEF TypeOK, Call, page, srv
<1>6. Chosen' BY <1>1, <1>2, <1>4 DEF Chosen
<1>7. Linked' BY <1>0, <1>1, <1>2, <1>4 DEF Linked, srv
<1>8. ASSUME ~disturbed
      PROVE  /\ Reading(Idle)' /\ Showing' /\ Fresh'
             /\ \A g \in Flows : g # Select /\ Reads(flow[g]) => open[flow[g].on].db = Expected'
  <2>1. \A g \in Flows : Reading(flow[g]) BY <1>8, CallFacts
  <2>2. Fresh BY <1>0, <1>8, CallFacts
  <2>3. Expected' = DefaultDb BY <1>1 DEF Expected
  <2>4. flow[Select].op = "disconnect" \/ Expected = DefaultDb
    BY <1>2, <2>2 DEF Allowed, Expected, Fresh
  <2>5. flow[Select].op = "disconnect" => \A g \in Flows : g # Select => ~Reads(flow[g])
    BY <1>8, Closing DEF Reads, Readers
  <2>6. Showing' BY <1>1 DEF Showing
  <2>7. Fresh' BY <1>2, <1>4 DEF Fresh
  <2>8. Reading(Idle)' BY <1>2 DEF Reading, Reads, Readers
  <2> QED BY <2>1, <2>3, <2>4, <2>5, <2>6, <2>7, <2>8 DEF Reading
<1>9. UNCHANGED <<switching, admin, srv>> /\ Idle.op # "switch" BY <1>1, <1>2
<1> QED BY <1>1, <1>2, <1>5, <1>6, <1>7, <1>8, <1>9, SelectGoes

LEMMA ConnectedStep ==
  ASSUME IInv, Connected
  PROVE  IInv'
<1>0. TypeOK /\ Chosen /\ Linked /\ Select \in Flows BY Names DEF IInv
<1>1. flow[Select] \in Call /\ Formed(flow[Select]) BY <1>0, CallFacts
<1>2. flow[Select].op = "connect" /\ flow[Select].st = "ok" BY DEF Connected, Answered
<1>3. PICK c \in Conns : c = flow[Select].ans BY <1>1, <1>2 DEF Formed
<1>4. PICK p \in Loads, q \in Loads : p = <<"databases", c>> /\ q = <<"metadata", c>> /\ p # q
  BY Names
<1>5. /\ p \in Flows /\ q \in Flows /\ p # Select /\ q # Select /\ p # Admin /\ q # Admin
      /\ p \notin Switchers /\ q \notin Switchers /\ p \notin Switches /\ q \notin Switches
  BY Names
<1>6. /\ flow[Select].arg = connectingId /\ connectingId \in Targets /\ connectingId # None
      /\ activeSavedId = connectingId
      /\ open[c].target = connectingId /\ open[c].db \in Dbs \cup {None} /\ open[c].db # None
  <2>1. /\ flow[Select].arg = connectingId /\ connectingId # None /\ activeSavedId = connectingId
        /\ connectingId \in Targets
    BY <1>0, <1>2 DEF Chosen, TypeOK
  <2>2. open[c].target = flow[Select].arg BY <1>1, <1>2, <1>3 DEF Formed
  <2>3. open[c].db \in Dbs \cup {None} BY <1>0 DEF TypeOK
  <2>4. open[c].db # None BY <1>0, <2>1, <2>2 DEF Linked
  <2> QED BY <2>1, <2>2, <2>3, <2>4
<1>7. PICK x \in Call, y \in Call, z \in Call :
        /\ x = Asked("databases", c, connectingId) /\ x.op = "databases" /\ x.on = c
        /\ x.arg = connectingId /\ x.st = "sent" /\ x.ans = None
        /\ y = Asked("databases", c, None) /\ y.op = "databases" /\ y.on = c
        /\ y.st = "sent" /\ y.ans = None
        /\ z = Asked("metadata", c, None) /\ z.op = "metadata" /\ z.on = c
        /\ z.st = "sent" /\ z.ans = None
  BY <1>6, AskedIs
<1>8. /\ connectionId' = c /\ activeDatabase' = open[c].db /\ objects' = None
      /\ Go([flow EXCEPT ![Select] = x, ![p] = y, ![q] = z])
      /\ UNCHANGED <<page, activeSavedId, connectingId, databases, switching, admin, srv, events>>
  BY <1>3, <1>4, <1>6, <1>7 DEF Connected
<1>9. /\ flow' = [flow EXCEPT ![Select] = x, ![p] = y, ![q] = z] /\ disturbed' \in BOOLEAN
      /\ ~disturbed' => ~disturbed /\ ~Crossing(flow')
  BY <1>8, GoCalm
<1>10. /\ flow' \in [Flows -> Call]
       /\ flow'[Select] = x /\ flow'[p] = y /\ flow'[q] = z
       /\ \A g \in Flows : g \notin {Select, p, q} => flow'[g] = flow[g]
  BY <1>0, <1>4, <1>5, <1>9, Calls
<1>11. TypeOK' BY <1>0, <1>6, <1>8, <1>9, <1>10 DEF TypeOK, Call, page, srv
<1>12. open' = open BY <1>8 DEF srv
<1>13. Formed(x)' /\ Formed(y)' /\ Formed(z)' BY <1>6, <1>7, <1>12 DEF Formed
<1>14. ASSUME NEW g \in Flows PROVE (Allowed(g, flow[g].op) /\ Formed(flow[g]))'
  <2>1. CASE g = Select
    <3>1. Allowed(g, x.op) BY <1>7, <2>1, Names DEF Allowed
    <3> QED BY <1>10, <1>13, <2>1, <3>1 DEF Formed
  <2>2. CASE g = p
    <3>1. Allowed(g, y.op) BY <1>5, <1>7, <2>2 DEF Allowed
    <3> QED BY <1>10, <1>13, <2>2, <3>1 DEF Formed
  <2>3. CASE g = q
    <3>1. Allowed(g, z.op) BY <1>5, <1>7, <2>3 DEF Allowed
    <3> QED BY <1>10, <1>13, <2>3, <3>1 DEF Formed
  <2>4. CASE g \notin {Select, p, q}
    <3>1. flow'[g] = flow[g] /\ Allowed(g, flow[g].op) /\ Formed(flow[g])
      BY <1>10, <2>4 DEF IInv
    <3> QED BY <1>12, <3>1 DEF Formed
  <2> QED BY <2>1, <2>2, <2>3, <2>4
<1>15. Chosen' BY <1>6, <1>7, <1>8, <1>10 DEF Chosen
<1>16. Linked'
  <2>1. c # None BY NoneAssumption, BoundAssumption DEF Conns
  <2> QED BY <1>0, <1>6, <1>7, <1>8, <1>10, <1>12, <2>1 DEF Linked
<1>17. \A g \in Switchers : flow'[g] = flow[g] BY <1>5, <1>10, Names
<1>18. SwitchMarked' BY <1>8, <1>17 DEF IInv, SwitchMarked
<1>19. ASSUME ~disturbed' PROVE Calm'
  <2>1. ~disturbed /\ ~Crossing(flow') /\ Fresh /\ Aimed
    BY <1>0, <1>9, <1>19, CallFacts
  <2>2. open[c].db = DefaultDb BY <1>2, <1>3, <2>1 DEF Fresh
  <2>3. Expected = DefaultDb BY <1>2 DEF Expected
  <2>4. Expected' = DefaultDb BY <1>7, <1>8, <1>10, <1>12, <2>2 DEF Expected
  <2>5. Reading(x)' /\ Reading(y)' /\ Reading(z)'
    BY <1>7, <1>12, <2>2, <2>4 DEF Reading
  <2>6. ASSUME NEW g \in Flows PROVE (Reading(flow[g]) /\ Changing(flow[g]))'
    <3>1. CASE g \in {Select, p, q}
      <4>1. flow'[g] \in {x, y, z} BY <1>10, <3>1
      <4>2. Reading(flow[g])' BY <2>5, <4>1 DEF Reading, Reads
      <4>3. Changing(flow[g])' BY <1>7, <4>1 DEF Changing
      <4> QED BY <4>2, <4>3
    <3>2. CASE g \notin {Select, p, q}
      <4>1. flow'[g] = flow[g] /\ Reading(flow[g]) BY <1>10, <2>1, <3>2, CallFacts
      <4>2. flow[g].op # "switch" BY <1>0, <1>2, <2>1, <3>2, Alone
      <4>3. Reading(flow[g])' BY <1>12, <2>3, <2>4, <4>1 DEF Reading, Reads
      <4>4. Changing(flow[g])' BY <4>1, <4>2 DEF Changing
      <4> QED BY <4>3, <4>4
    <3> QED BY <3>1, <3>2
  <2>7. Showing' BY <1>8, <1>12 DEF Showing
  <2>8. Fresh' BY <1>7, <1>8, <1>10, <1>12, <2>2 DEF Fresh
  <2>9. Aimed'
    <3>1. flow'[Admin] = flow[Admin] /\ admin' = admin BY <1>5, <1>8, <1>10, Names
    <3> QED BY <1>12, <2>1, <3>1 DEF Aimed, Meant
  <2> QED BY <2>1, <2>6, <2>7, <2>8, <2>9 DEF Calm
<1>20. ~astray' BY <1>8 DEF IInv, srv
<1> QED BY <1>11, <1>14, <1>15, <1>16, <1>18, <1>19, <1>20 DEF IInv

-----------------------------------------------------------------------------
(* The server and the network.                                             *)

\* A call is answered, or fails: what it was is left.
LEMMA Answers ==
  ASSUME IInv, NEW f \in Flows, NEW st \in {"ok", "error"}, NEW ans \in Conns \cup Dbs \cup {None},
         NEW list \in SUBSET Dbs,
         flow' = [flow EXCEPT ![f] = [flow[f] EXCEPT !.st = st, !.ans = ans, !.list = list]]
  PROVE  /\ flow' \in [Flows -> Call] /\ \A g \in Flows : g # f => flow'[g] = flow[g]
         /\ flow'[f].st = st /\ flow'[f].ans = ans /\ flow'[f].op = flow[f].op
         /\ flow'[f].on = flow[f].on /\ flow'[f].arg = flow[f].arg
         /\ \A g \in Flows : flow'[g].op = flow[g].op
         /\ Crossing(flow') <=> Crossing(flow)
<1>1. flow \in [Flows -> Call] BY Calls DEF IInv
<1>2. flow[f] \in Call BY <1>1
<1>3. PICK x \in Call : /\ x = [flow[f] EXCEPT !.st = st, !.ans = ans, !.list = list]
                        /\ x.st = st /\ x.ans = ans /\ x.op = flow[f].op /\ x.on = flow[f].on
                        /\ x.arg = flow[f].arg
  <2> DEFINE y == [flow[f] EXCEPT !.st = st, !.ans = ans, !.list = list]
  <2>1. y \in Call BY <1>2 DEF Call
  <2>2. y.st = st /\ y.ans = ans /\ y.op = flow[f].op /\ y.on = flow[f].on /\ y.arg = flow[f].arg
    BY <1>2 DEF Call
  <2> QED BY <2>1, <2>2
<1>4. flow' = [flow EXCEPT ![f] = x] BY <1>3
<1>5. flow' \in [Flows -> Call] /\ flow'[f] = x /\ \A g \in Flows : g # f => flow'[g] = flow[g]
  BY <1>4, OneCall DEF IInv
<1>6. \A g \in Flows : flow'[g].op = flow[g].op BY <1>3, <1>5
<1>7. Crossing(flow') <=> Crossing(flow) BY <1>6 DEF Crossing
<1> QED BY <1>3, <1>5, <1>6, <1>7

\* The server answers without opening, closing or switching anything.
LEMMA AnswerKeeps ==
  ASSUME IInv, NEW f \in Flows, flow[f].op # "none",
         NEW st \in {"ok", "error"}, NEW ans \in Dbs \cup {None}, NEW list \in SUBSET Dbs,
         flow' = [flow EXCEPT ![f] = [flow[f] EXCEPT !.st = st, !.ans = ans, !.list = list]],
         UNCHANGED <<page, conn, shown, switching, admin, open>>, ~astray',
         astray' \in BOOLEAN, exist' \in [Targets -> SUBSET Dbs],
         events' \in 0..MaxEvents, disturbed' \in BOOLEAN, ~disturbed' => ~disturbed,
         st = "error" => ans = None,
         st = "ok" => /\ flow[f].op \in Readers /\ open[flow[f].on].target # None
                      /\ flow[f].op # "sql" => ans = open[flow[f].on].db,
         ~disturbed' /\ flow[f].op = "switch" => flow[f].st # "ok"
  PROVE  IInv'
<1>0. TypeOK BY DEF IInv
<1>1. /\ flow' \in [Flows -> Call] /\ \A g \in Flows : g # f => flow'[g] = flow[g]
      /\ flow'[f].st = st /\ flow'[f].ans = ans /\ flow'[f].op = flow[f].op
      /\ flow'[f].on = flow[f].on /\ flow'[f].arg = flow[f].arg
      /\ \A g \in Flows : flow'[g].op = flow[g].op
      /\ Crossing(flow') <=> Crossing(flow)
  BY Answers
<1>2. /\ connectionId' = connectionId /\ activeSavedId' = activeSavedId
      /\ connectingId' = connectingId /\ open' = open /\ objects' = objects
      /\ activeDatabase' = activeDatabase /\ databases' = databases
  BY DEF conn, shown
<1>3. TypeOK' BY <1>0, <1>1, <1>2 DEF TypeOK, Call, page
<1>4. ASSUME NEW g \in Flows PROVE (Allowed(g, flow[g].op) /\ Formed(flow[g]))'
  <2>1. Allowed(g, flow[g].op) /\ Formed(flow[g]) BY DEF IInv
  <2>2. CASE g = f
    <3>1. flow'[f] # Idle BY <1>1, IdleIs
    <3>2. flow[f].op \notin {"none", "connect"} \/ st = "error" BY DEF Readers
    <3> QED BY <1>1, <1>2, <2>1, <2>2, <3>1, <3>2 DEF Formed
  <2>3. CASE g # f
    <3>1. flow'[g] = flow[g] BY <1>1, <2>3
    <3> QED BY <1>2, <2>1, <3>1 DEF Formed
  <2> QED BY <2>2, <2>3
<1>5. Select \in Flows /\ Admin \in Flows /\ \A g \in Switchers : g \in Flows BY Names
<1>6. /\ flow'[Select].op = flow[Select].op /\ flow'[Select].on = flow[Select].on
      /\ flow'[Select].arg = flow[Select].arg
      /\ flow'[Select].op \in {"connect", "disconnect"} /\ flow'[Select].st = "ok" =>
           flow'[Select] = flow[Select]
      /\ flow'[Admin].op = flow[Admin].op /\ flow'[Admin].on = flow[Admin].on
      /\ flow'[Admin].arg = flow[Admin].arg
  BY <1>1, <1>5 DEF Readers
<1>7. Chosen' BY <1>2, <1>6 DEF IInv, Chosen
<1>8. Linked' BY <1>2, <1>6 DEF IInv, Linked
<1>9. SwitchMarked' BY <1>1, <1>5 DEF IInv, SwitchMarked
<1>10. ASSUME ~disturbed' PROVE Calm'
  <2>1. ~disturbed /\ Calm BY <1>10 DEF IInv
  <2>2. Expected' = Expected BY <1>2, <1>6 DEF Expected
  <2>3. ASSUME NEW g \in Flows PROVE (Reading(flow[g]) /\ Changing(flow[g]))'
    <3>1. Reading(flow[g]) /\ Changing(flow[g]) BY <2>1 DEF Calm
    <3>2. CASE g = f
      <4>1. Reading(flow[g])' BY <1>1, <1>2, <2>2, <3>1, <3>2 DEF Reading, Reads
      <4>2. Changing(flow[g])' BY <1>1, <1>2, <3>1, <3>2 DEF Changing, Readers
      <4> QED BY <4>1, <4>2
    <3>3. CASE g # f
      <4>1. flow'[g] = flow[g] BY <1>1, <3>3
      <4> QED BY <1>2, <2>2, <3>1, <4>1 DEF Reading, Reads, Changing
    <3> QED BY <3>2, <3>3
  <2>4. Showing'
    <3>1. \A g \in Switchers : flow[g].op = "switch" /\ flow[g].st = "ok" =>
             flow'[g].op = "switch" /\ flow'[g].st = "ok"
      BY <1>1, <1>5, <1>10
    <3>2. Showing BY <2>1 DEF Calm
    <3> QED BY <1>2, <1>6, <3>1, <3>2 DEF Showing
  <2>5. Fresh' BY <1>2, <1>6, <2>1 DEF Calm, Fresh
  <2>6. Aimed' BY <1>2, <1>6, <2>1 DEF Calm, Aimed, Meant
  <2>7. ~Crossing(flow') BY <1>1, <2>1 DEF Calm
  <2> QED BY <2>3, <2>4, <2>5, <2>6, <2>7 DEF Calm
<1> QED BY <1>3, <1>4, <1>7, <1>8, <1>9, <1>10 DEF IInv

\* The record a reply or a failure writes.
LEMMA Written ==
  ASSUME IInv, NEW f \in Flows, NEW st, NEW ans, NEW list,
         flow' = [flow EXCEPT ![f].st = st, ![f].ans = ans, ![f].list = list]
  PROVE  flow' = [flow EXCEPT ![f] = [flow[f] EXCEPT !.st = st, !.ans = ans, !.list = list]]
<1>1. flow \in [Flows -> Call] BY Calls DEF IInv
<1> QED BY <1>1 DEF Call

LEMMA RefuseStep ==
  ASSUME IInv, NEW f \in Flows, Refuse(f)
  PROVE  IInv'
<1>0. TypeOK /\ ~astray BY DEF IInv
<1>1. flow[f] \in Call /\ Formed(flow[f]) BY CallFacts
<1>2. /\ flow[f].st = "sent" /\ flow' = [flow EXCEPT ![f].st = "error"]
      /\ UNCHANGED <<page, conn, shown, switching, admin, srv, events, disturbed>>
  BY DEF Refuse
<1>3. flow[f].op # "none" /\ flow[f].ans = None /\ flow[f].list \in SUBSET Dbs
  BY <1>1, <1>2 DEF Formed, Call
<1>4. flow' = [flow EXCEPT ![f] = [flow[f] EXCEPT !.st = "error", !.ans = None, !.list = flow[f].list]]
  <2>1. flow \in [Flows -> Call] BY <1>0, Calls
  <2>2. [flow[f] EXCEPT !.st = "error"] =
          [flow[f] EXCEPT !.st = "error", !.ans = None, !.list = flow[f].list]
    BY <1>1, <1>3 DEF Call
  <2>3. flow' = [flow EXCEPT ![f] = [flow[f] EXCEPT !.st = "error"]] BY <1>2, <2>1
  <2> QED BY <2>2, <2>3
<1>5. PICK list \in SUBSET Dbs : list = flow[f].list BY <1>3
<1>6. flow' = [flow EXCEPT ![f] = [flow[f] EXCEPT !.st = "error", !.ans = None, !.list = list]]
  BY <1>4, <1>5
<1>7. /\ UNCHANGED <<page, conn, shown, switching, admin, open>> /\ ~astray'
      /\ astray' \in BOOLEAN /\ exist' \in [Targets -> SUBSET Dbs]
      /\ events' \in 0..MaxEvents /\ disturbed' \in BOOLEAN
  BY <1>0, <1>2 DEF TypeOK, srv
<1>8. ~disturbed' => ~disturbed BY <1>2
<1> QED BY <1>2, <1>3, <1>6, <1>7, <1>8, AnswerKeeps

LEMMA FaultStep ==
  ASSUME IInv, NEW f \in Flows, Fault(f)
  PROVE  IInv'
<1>0. TypeOK /\ ~astray BY DEF IInv
<1>1. Formed(flow[f]) BY CallFacts
<1>2. /\ events < MaxEvents /\ events' = events + 1
      /\ flow' = [flow EXCEPT ![f].st = "error", ![f].ans = None, ![f].list = {}]
      /\ UNCHANGED <<page, conn, shown, switching, admin, srv>>
      /\ \/ flow[f].st = "sent" /\ disturbed' = disturbed
         \/ flow[f].st = "ok" /\ disturbed' = TRUE
  BY DEF Fault
<1>3. flow[f].op # "none" BY <1>1, <1>2 DEF Formed
<1>4. flow' = [flow EXCEPT ![f] = [flow[f] EXCEPT !.st = "error", !.ans = None, !.list = {}]]
  BY <1>2, Written
<1>5. events' \in 0..MaxEvents BY <1>0, <1>2, Events
<1>6. disturbed' \in BOOLEAN /\ (~disturbed' => ~disturbed /\ flow[f].st = "sent")
  <2>1. disturbed \in BOOLEAN BY <1>0 DEF TypeOK
  <2>2. CASE flow[f].st = "sent" /\ disturbed' = disturbed BY <2>1, <2>2
  <2>3. CASE flow[f].st = "ok" /\ disturbed' = TRUE BY <2>3
  <2> QED BY <1>2, <2>2, <2>3
<1>7. /\ UNCHANGED <<page, conn, shown, switching, admin, open>> /\ ~astray'
      /\ astray' \in BOOLEAN /\ exist' \in [Targets -> SUBSET Dbs]
  BY <1>0, <1>2 DEF TypeOK, srv
<1>8. {} \in SUBSET Dbs OBVIOUS
<1> QED BY <1>3, <1>4, <1>5, <1>6, <1>7, <1>8, AnswerKeeps

\* Connections are opened, closed and switched one at a time.
LEMMA ServeReads ==
  ASSUME IInv, NEW f \in Flows, flow[f].st = "sent", flow[f].op \in {"databases", "metadata", "refresh"},
         IsOpen(flow[f].on),
         Reply(f, open[flow[f].on].db, exist[open[flow[f].on].target]),
         UNCHANGED <<page, conn, shown, switching, admin, srv, events, disturbed>>
  PROVE  IInv'
<1>0. TypeOK /\ ~astray BY DEF IInv
<1>1. PICK c \in Conns : c = flow[f].on /\ open[c].target # None BY DEF IsOpen
<1>2. PICK ans \in Dbs \cup {None}, list \in SUBSET Dbs :
        ans = open[c].db /\ list = exist[open[c].target]
  BY <1>0, <1>1 DEF TypeOK
<1>3. flow' = [flow EXCEPT ![f] = [flow[f] EXCEPT !.st = "ok", !.ans = ans, !.list = list]]
  BY <1>1, <1>2, Written DEF Reply
<1>4. /\ UNCHANGED <<page, conn, shown, switching, admin, open>> /\ ~astray'
      /\ astray' \in BOOLEAN /\ exist' \in [Targets -> SUBSET Dbs]
      /\ events' \in 0..MaxEvents /\ disturbed' \in BOOLEAN /\ (~disturbed' => ~disturbed)
  BY <1>0 DEF TypeOK, srv
<1>5. flow[f].op \in Readers /\ flow[f].op # "none" BY DEF Readers
<1> QED BY <1>1, <1>2, <1>3, <1>4, <1>5, AnswerKeeps

LEMMA ServeSql ==
  ASSUME IInv, NEW f \in Flows, flow[f].st = "sent", flow[f].op = "sql", IsOpen(flow[f].on),
         Accepts(open[flow[f].on].target, open[flow[f].on].db),
         exist' = [exist EXCEPT ![open[flow[f].on].target] =
                     IF admin.kind = "drop" THEN @ \ {admin.db}
                     ELSE IF admin.kind = "createdb" THEN @ \cup {admin.db} ELSE @],
         astray' = \/ astray
                   \/ /\ admin.ok /\ ~disturbed
                      /\ \/ /\ admin.kind = "create"
                            /\ (IF admin.kind = "create" /\ open[flow[f].on].target \notin Postgres
                                THEN admin.db ELSE open[flow[f].on].db) # admin.db
                         \/ /\ admin.kind = "drop"
                            /\ (IF admin.kind = "create" /\ open[flow[f].on].target \notin Postgres
                                THEN admin.db ELSE open[flow[f].on].db) = admin.db,
         Reply(f, None, {}), open' = open,
         UNCHANGED <<page, conn, shown, switching, admin, events, disturbed>>
  PROVE  IInv'
<1>0. TypeOK /\ ~astray BY DEF IInv
<1>1. PICK c \in Conns : c = flow[f].on /\ open[c].target # None BY DEF IsOpen
<1>2. f = Admin BY CallFacts, Names DEF Allowed
<1>3. ~astray'
  <2>1. ASSUME ~disturbed, admin.ok PROVE Meant(c, open[c].db)
    <3>1. Aimed BY <2>1, CallFacts
    <3> QED BY <1>1, <1>2, <2>1, <3>1 DEF Aimed
  <2> QED BY <1>0, <1>1, <2>1 DEF Meant, Accepts
<1>4. exist' \in [Targets -> SUBSET Dbs] BY <1>0 DEF TypeOK, Tasks
<1>5. flow' = [flow EXCEPT ![f] = [flow[f] EXCEPT !.st = "ok", !.ans = None, !.list = {}]]
  BY Written DEF Reply
<1>6. /\ UNCHANGED <<page, conn, shown, switching, admin, open>>
      /\ astray' \in BOOLEAN /\ events' \in 0..MaxEvents /\ disturbed' \in BOOLEAN
      /\ ~disturbed' => ~disturbed
  <2>1. astray' \in BOOLEAN OBVIOUS
  <2> QED BY <1>0, <2>1 DEF TypeOK
<1>7. flow[f].op \in Readers /\ flow[f].op # "none" /\ flow[f].op # "switch" BY DEF Readers
<1>8. {} \in SUBSET Dbs OBVIOUS
<1> QED BY <1>1, <1>3, <1>4, <1>5, <1>6, <1>7, <1>8, AnswerKeeps

\* What an answer leaves, whatever the server did: the flow that is answered, the other
\* flows and all that the client keeps.
LEMMA ServedKeeps ==
  ASSUME IInv, NEW f \in Flows, flow[f].st = "sent", NEW ans \in Conns \cup Dbs \cup {None},
         Reply(f, ans, {}), open' \in [Conns -> [target : Targets \cup {None}, db : Dbs \cup {None}]],
         UNCHANGED <<exist, astray>>,
         UNCHANGED <<page, conn, shown, switching, admin, events, disturbed>>
  PROVE  /\ TypeOK' /\ ~astray' /\ SwitchMarked' /\ Chosen'
         /\ \A g \in Flows : g # f => flow'[g] = flow[g]
         /\ flow'[f].st = "ok" /\ flow'[f].ans = ans /\ flow'[f].op = flow[f].op
         /\ flow'[f].on = flow[f].on /\ flow'[f].arg = flow[f].arg
         /\ \A g \in Flows : flow'[g].op = flow[g].op
         /\ Crossing(flow') <=> Crossing(flow)
         /\ flow'[f] # Idle
<1>0. TypeOK /\ ~astray /\ Select \in Flows /\ \A g \in Switchers : g \in Flows BY Names DEF IInv
<1>1. flow' = [flow EXCEPT ![f] = [flow[f] EXCEPT !.st = "ok", !.ans = ans, !.list = {}]]
  BY Written DEF Reply
<1>2. {} \in SUBSET Dbs OBVIOUS
<1>3. /\ flow' \in [Flows -> Call] /\ \A g \in Flows : g # f => flow'[g] = flow[g]
      /\ flow'[f].st = "ok" /\ flow'[f].ans = ans /\ flow'[f].op = flow[f].op
      /\ flow'[f].on = flow[f].on /\ flow'[f].arg = flow[f].arg
      /\ \A g \in Flows : flow'[g].op = flow[g].op
      /\ Crossing(flow') <=> Crossing(flow)
  BY <1>1, <1>2, Answers
<1>4. TypeOK' BY <1>0, <1>3 DEF TypeOK, Call, page, conn, shown
<1>5. SwitchMarked' BY <1>0, <1>3 DEF IInv, SwitchMarked
<1>6. Chosen'
  <2>1. flow'[Select].op = flow[Select].op /\ flow'[Select].arg = flow[Select].arg BY <1>0, <1>3
  <2> QED BY <2>1 DEF IInv, Chosen, conn
<1>7. flow'[f] # Idle BY <1>3, IdleIs
<1> QED BY <1>0, <1>3, <1>4, <1>5, <1>6, <1>7

LEMMA ServeConnect ==
  ASSUME IInv, NEW f \in Flows, flow[f].st = "sent", flow[f].op = "connect",
         NEW n \in Conns, open[n].db = None,
         open' = [open EXCEPT ![n] = [target |-> flow[f].arg, db |-> DefaultDb]],
         Reply(f, n, {}), UNCHANGED <<exist, astray>>,
         UNCHANGED <<page, conn, shown, switching, admin, events, disturbed>>
  PROVE  IInv'
<1>0. TypeOK /\ Linked /\ Select \in Flows /\ Admin \in Flows BY Names DEF IInv
<1>1. f = Select BY CallFacts, Names DEF Allowed
<1>2. flow[f].arg \in Targets /\ flow[f].arg # None /\ DefaultDb \in Dbs /\ DefaultDb # None
  BY CallFacts, NoneAssumption, DbAssumption DEF Formed
<1>3. /\ open' \in [Conns -> [target : Targets \cup {None}, db : Dbs \cup {None}]]
      /\ open'[n].target = flow[f].arg /\ open'[n].db = DefaultDb
      /\ \A c \in Conns : c # n => open'[c] = open[c]
  BY <1>0, <1>2 DEF TypeOK
<1>4. /\ TypeOK' /\ ~astray' /\ SwitchMarked' /\ Chosen'
      /\ \A g \in Flows : g # f => flow'[g] = flow[g]
      /\ flow'[f].st = "ok" /\ flow'[f].ans = n /\ flow'[f].op = flow[f].op
      /\ flow'[f].on = flow[f].on /\ flow'[f].arg = flow[f].arg
      /\ Crossing(flow') <=> Crossing(flow) /\ flow'[f] # Idle
  BY <1>3, ServedKeeps
<1>5. /\ connectionId' = connectionId /\ objects' = objects /\ activeDatabase' = activeDatabase
      /\ activeSavedId' = activeSavedId
  BY DEF conn, shown
<1>6. connectionId # None => /\ connectionId \in Conns /\ connectionId # n
                             /\ open'[connectionId] = open[connectionId]
  BY <1>0, <1>3 DEF TypeOK, Linked
<1>7. ASSUME NEW g \in Flows, g # f, flow[g].op # "none"
      PROVE  /\ flow'[g] = flow[g] /\ flow[g].op # "connect"
             /\ flow[g].on \in Conns /\ open'[flow[g].on] = open[flow[g].on]
             /\ open[flow[g].on].db # None
  <2>1. Allowed(g, flow[g].op) /\ Formed(flow[g]) BY CallFacts
  <2>2. flow[g].op # "connect" BY <1>1, <1>7, <2>1, Names DEF Allowed
  <2>3. flow[g].on \in Conns /\ open[flow[g].on].db # None BY <1>7, <2>1, <2>2 DEF Formed
  <2> QED BY <1>3, <1>4, <1>7, <2>2, <2>3
<1>8. ASSUME NEW g \in Flows PROVE (Allowed(g, flow[g].op) /\ Formed(flow[g]))'
  <2>1. Allowed(g, flow[g].op) /\ Formed(flow[g]) BY CallFacts
  <2>2. CASE g = f BY <1>3, <1>4, <2>1, <2>2 DEF Formed
  <2>3. CASE g # f /\ flow[g].op = "none" BY <1>4, <2>1, <2>3 DEF Formed
  <2>4. CASE g # f /\ flow[g].op # "none"
    <3>1. flow'[g] = flow[g] /\ flow[g].op # "connect" /\ open'[flow[g].on] = open[flow[g].on]
      BY <1>7, <2>4
    <3> QED BY <2>1, <2>4, <3>1 DEF Formed
  <2> QED BY <2>2, <2>3, <2>4
<1>9. Linked' BY <1>0, <1>1, <1>2, <1>3, <1>4, <1>5, <1>6 DEF Linked
<1>10. ASSUME ~disturbed' PROVE Calm'
  <2>1. ~disturbed /\ Calm BY <1>10 DEF IInv
  <2>2. Expected' = DefaultDb /\ Expected = DefaultDb BY <1>1, <1>4 DEF Expected
  <2>3. ASSUME NEW g \in Flows PROVE (Reading(flow[g]) /\ Changing(flow[g]))'
    <3>1. Reading(flow[g]) /\ Changing(flow[g]) BY <2>1 DEF Calm
    <3>2. CASE g = f \/ flow[g].op = "none"
      <4>1. flow'[g].op \in {"connect", "none"} BY <1>4, <3>2
      <4> QED BY <4>1 DEF Reading, Reads, Readers, Changing
    <3>3. CASE g # f /\ flow[g].op # "none"
      <4>1. flow'[g] = flow[g] /\ open'[flow[g].on] = open[flow[g].on] BY <1>7, <3>3
      <4>2. Reading(flow[g])' BY <2>2, <3>1, <4>1 DEF Reading, Reads
      <4>3. Changing(flow[g])' BY <1>5, <3>1, <4>1 DEF Changing
      <4> QED BY <4>2, <4>3
    <3> QED BY <3>2, <3>3
  <2>4. Showing' BY <1>1, <1>4 DEF Showing
  <2>5. Fresh' BY <1>1, <1>3, <1>4 DEF Fresh
  <2>6. Aimed'
    <3>1. flow'[Admin] = flow[Admin] BY <1>0, <1>1, <1>4, Names
    <3>2. flow[Admin].op # "none" => open'[flow[Admin].on] = open[flow[Admin].on]
      BY <1>0, <1>1, <1>7, Names
    <3>3. Aimed BY <2>1 DEF Calm
    <3> QED BY <3>1, <3>2, <3>3 DEF Aimed, Meant
  <2>7. ~Crossing(flow') BY <1>4, <2>1 DEF Calm
  <2> QED BY <2>3, <2>4, <2>5, <2>6, <2>7 DEF Calm
<1> QED BY <1>4, <1>8, <1>9, <1>10 DEF IInv

LEMMA ServeDisconnect ==
  ASSUME IInv, NEW f \in Flows, flow[f].st = "sent", flow[f].op = "disconnect", IsOpen(flow[f].on),
         open' = [open EXCEPT ![flow[f].on].target = None],
         Reply(f, None, {}), UNCHANGED <<exist, astray>>,
         UNCHANGED <<page, conn, shown, switching, admin, events, disturbed>>
  PROVE  IInv'
<1>0. TypeOK /\ Linked /\ Select \in Flows /\ Admin \in Flows BY Names DEF IInv
<1>1. f = Select BY CallFacts, Names DEF Allowed
<1>2. PICK c \in Conns : c = flow[f].on BY DEF IsOpen
<1>3. /\ open' \in [Conns -> [target : Targets \cup {None}, db : Dbs \cup {None}]]
      /\ open'[c].target = None
      /\ \A d \in Conns : open'[d].db = open[d].db /\ (d # c => open'[d].target = open[d].target)
  BY <1>0, <1>2 DEF TypeOK
<1>4. /\ TypeOK' /\ ~astray' /\ SwitchMarked' /\ Chosen'
      /\ \A g \in Flows : g # f => flow'[g] = flow[g]
      /\ flow'[f].st = "ok" /\ flow'[f].ans = None /\ flow'[f].op = flow[f].op
      /\ flow'[f].on = flow[f].on /\ flow'[f].arg = flow[f].arg
      /\ Crossing(flow') <=> Crossing(flow) /\ flow'[f] # Idle
  BY <1>3, ServedKeeps
<1>5. /\ connectionId' = connectionId /\ objects' = objects /\ activeDatabase' = activeDatabase
      /\ activeSavedId' = activeSavedId
  BY DEF conn, shown
<1>6. connectionId = c /\ connectionId # None BY <1>0, <1>1, <1>2 DEF Linked
<1>7. ASSUME NEW g \in Flows PROVE (Allowed(g, flow[g].op) /\ Formed(flow[g]))'
  <2>1. Allowed(g, flow[g].op) /\ Formed(flow[g]) BY CallFacts
  <2>2. CASE g = f BY <1>2, <1>3, <1>4, <2>1, <2>2 DEF Formed
  <2>3. CASE g # f
    <3>1. flow'[g] = flow[g] BY <1>4, <2>3
    <3>2. flow[g].op # "connect" BY <1>1, <2>1, <2>3, Names DEF Allowed
    <3> QED BY <1>3, <2>1, <3>1, <3>2 DEF Formed
  <2> QED BY <2>2, <2>3
<1>8. Linked' BY <1>0, <1>1, <1>2, <1>3, <1>4, <1>5, <1>6 DEF Linked
<1>9. ASSUME ~disturbed' PROVE Calm'
  <2>1. ~disturbed /\ Calm BY <1>9 DEF IInv
  <2>2. \A g \in Flows : g # f => flow'[g].op = "none" BY <1>1, <1>4, <2>1, Closing
  <2>3. ASSUME NEW g \in Flows PROVE (Reading(flow[g]) /\ Changing(flow[g]))'
    <3>1. flow'[g].op \in {"disconnect", "none"} BY <1>4, <2>2
    <3> QED BY <3>1 DEF Reading, Reads, Readers, Changing
  <2>4. Showing'
    <3>1. Showing /\ \A g \in Switchers : flow'[g] = flow[g] BY <1>1, <1>4, <2>1, Names DEF Calm
    <3> QED BY <1>1, <1>3, <1>4, <1>5, <1>6, <3>1 DEF Showing
  <2>5. Fresh' BY <1>1, <1>4 DEF Fresh
  <2>6. Aimed' BY <1>0, <1>1, <2>2, Names DEF Aimed
  <2>7. ~Crossing(flow') BY <1>4, <2>1 DEF Calm
  <2> QED BY <2>3, <2>4, <2>5, <2>6, <2>7 DEF Calm
<1> QED BY <1>4, <1>7, <1>8, <1>9 DEF IInv

LEMMA ServeSwitch ==
  ASSUME IInv, NEW f \in Flows, flow[f].st = "sent", flow[f].op = "switch", IsOpen(flow[f].on),
         flow[f].arg \in exist[open[flow[f].on].target],
         open' = [open EXCEPT ![flow[f].on].db = flow[f].arg],
         Reply(f, flow[f].arg, {}), UNCHANGED <<exist, astray>>,
         UNCHANGED <<page, conn, shown, switching, admin, events, disturbed>>
  PROVE  IInv'
<1>0. TypeOK /\ Linked /\ Select \in Flows /\ Admin \in Flows BY Names DEF IInv
<1>1. f \in Switchers /\ f # Select BY CallFacts, Names DEF Allowed, Switchers
<1>2. PICK c \in Conns : c = flow[f].on BY DEF IsOpen
<1>3. PICK d \in Dbs : d = flow[f].arg /\ d # None BY CallFacts, NoneAssumption DEF Formed
<1>4. /\ open' \in [Conns -> [target : Targets \cup {None}, db : Dbs \cup {None}]]
      /\ open'[c].db = d
      /\ \A n \in Conns : open'[n].target = open[n].target /\ (n # c => open'[n].db = open[n].db)
  BY <1>0, <1>2, <1>3 DEF TypeOK
<1>5. /\ TypeOK' /\ ~astray' /\ SwitchMarked' /\ Chosen'
      /\ \A g \in Flows : g # f => flow'[g] = flow[g]
      /\ flow'[f].st = "ok" /\ flow'[f].ans = d /\ flow'[f].op = flow[f].op
      /\ flow'[f].on = flow[f].on /\ flow'[f].arg = flow[f].arg
      /\ Crossing(flow') <=> Crossing(flow) /\ flow'[f] # Idle
  BY <1>3, <1>4, ServedKeeps
<1>6. /\ connectionId' = connectionId /\ objects' = objects /\ activeDatabase' = activeDatabase
      /\ activeSavedId' = activeSavedId /\ admin' = admin
  BY DEF conn, shown
<1>7. connectionId # None => connectionId \in Conns BY <1>0 DEF TypeOK
<1>8. \A n \in Conns : open[n].db # None => open'[n].db # None BY <1>3, <1>4
<1>9. ASSUME NEW g \in Flows PROVE (Allowed(g, flow[g].op) /\ Formed(flow[g]))'
  <2>1. Allowed(g, flow[g].op) /\ Formed(flow[g]) BY CallFacts
  <2>2. CASE g = f BY <1>3, <1>5, <1>8, <2>1, <2>2 DEF Formed
  <2>3. CASE g # f
    <3>1. flow'[g] = flow[g] BY <1>5, <2>3
    <3> QED BY <1>4, <1>8, <2>1, <3>1 DEF Formed
  <2> QED BY <2>2, <2>3
<1>10. Linked'
  <2>1. flow'[Select] = flow[Select] BY <1>0, <1>1, <1>5
  <2> QED BY <1>0, <1>4, <1>6, <1>7, <1>8, <2>1 DEF Linked
<1>11. ASSUME ~disturbed' PROVE Calm'
  <2>1. ~disturbed /\ Calm BY <1>11 DEF IInv
  <2>2. \A g \in Flows : g # f => flow'[g].op = "none" BY <1>5, <2>1 DEF Calm, Crossing
  <2>3. flow[f].on = connectionId /\ objects = None BY <2>1 DEF Calm, Changing
  <2>4. ASSUME NEW g \in Flows PROVE (Reading(flow[g]) /\ Changing(flow[g]))'
    <3>1. flow'[g].op \in {"switch", "none"} BY <1>5, <2>2
    <3>2. Reading(flow[g])' BY <3>1 DEF Reading, Reads, Readers
    <3>3. CASE g = f BY <1>2, <1>3, <1>4, <1>5, <1>6, <2>3, <3>2, <3>3 DEF Changing
    <3>4. CASE g # f BY <2>2, <3>2, <3>4 DEF Changing
    <3> QED BY <3>3, <3>4
  <2>5. Showing' BY <1>1, <1>5, <1>6, <2>3 DEF Showing
  <2>6. Fresh' BY <1>0, <1>1, <2>2 DEF Fresh
  <2>7. Aimed'
    <3>1. CASE f = Admin
      <4>1. Aimed BY <2>1 DEF Calm
      <4> QED BY <1>2, <1>4, <1>5, <1>6, <3>1, <4>1 DEF Aimed, Meant
    <3>2. CASE f # Admin BY <1>0, <2>2, <3>2 DEF Aimed
    <3> QED BY <3>1, <3>2
  <2>8. ~Crossing(flow') BY <1>5, <2>1 DEF Calm
  <2> QED BY <2>4, <2>5, <2>6, <2>7, <2>8 DEF Calm
<1> QED BY <1>5, <1>9, <1>10, <1>11 DEF IInv

LEMMA ServeStep ==
  ASSUME IInv, NEW f \in Flows, Serve(f)
  PROVE  IInv'
<1>1. flow[f].st = "sent" /\ UNCHANGED <<page, conn, shown, switching, admin, events, disturbed>>
  BY DEF Serve
<1>2. flow[f].op \in {"connect", "disconnect", "databases", "metadata", "refresh", "switch", "sql"}
  BY DEF Serve
<1>3. CASE flow[f].op = "connect"
  <2>1. PICK n \in Conns : /\ open[n].db = None
                           /\ open' = [open EXCEPT ![n] = [target |-> flow[f].arg, db |-> DefaultDb]]
                           /\ Reply(f, n, {}) /\ UNCHANGED <<exist, astray>>
    BY <1>3 DEF Serve
  <2> QED BY <1>1, <1>3, <2>1, ServeConnect
<1>4. CASE flow[f].op = "disconnect"
  <2>1. /\ IsOpen(flow[f].on) /\ open' = [open EXCEPT ![flow[f].on].target = None]
        /\ Reply(f, None, {}) /\ UNCHANGED <<exist, astray>>
    BY <1>4 DEF Serve
  <2> QED BY <1>1, <1>4, <2>1, ServeDisconnect
<1>5. CASE flow[f].op \in {"databases", "metadata", "refresh"}
  <2>1. /\ IsOpen(flow[f].on) /\ Reply(f, open[flow[f].on].db, exist[open[flow[f].on].target])
        /\ UNCHANGED srv
    BY <1>5 DEF Serve
  <2> QED BY <1>1, <1>5, <2>1, ServeReads
<1>6. CASE flow[f].op = "switch"
  <2>1. /\ IsOpen(flow[f].on) /\ flow[f].arg \in exist[open[flow[f].on].target]
        /\ open' = [open EXCEPT ![flow[f].on].db = flow[f].arg]
        /\ Reply(f, flow[f].arg, {}) /\ UNCHANGED <<exist, astray>>
    BY <1>6 DEF Serve
  <2> QED BY <1>1, <1>6, <2>1, ServeSwitch
<1>7. CASE flow[f].op = "sql"
  <2>1. /\ IsOpen(flow[f].on) /\ Accepts(open[flow[f].on].target, open[flow[f].on].db)
        /\ exist' = [exist EXCEPT ![open[flow[f].on].target] =
                       IF admin.kind = "drop" THEN @ \ {admin.db}
                       ELSE IF admin.kind = "createdb" THEN @ \cup {admin.db} ELSE @]
        /\ Reply(f, None, {}) /\ open' = open
    BY <1>7 DEF Serve
  <2>2. astray' = \/ astray
                  \/ /\ admin.ok /\ ~disturbed
                     /\ \/ /\ admin.kind = "create"
                           /\ (IF admin.kind = "create" /\ open[flow[f].on].target \notin Postgres
                               THEN admin.db ELSE open[flow[f].on].db) # admin.db
                        \/ /\ admin.kind = "drop"
                           /\ (IF admin.kind = "create" /\ open[flow[f].on].target \notin Postgres
                               THEN admin.db ELSE open[flow[f].on].db) = admin.db
    BY <1>7 DEF Serve
  <2> QED BY <1>1, <1>7, <2>1, <2>2, ServeSql
<1> QED BY <1>2, <1>3, <1>4, <1>5, <1>6, <1>7

-----------------------------------------------------------------------------
(* The specification keeps the invariant, and what follows from it.        *)

LEMMA InitInv == Init => IInv
<1> SUFFICES ASSUME Init PROVE IInv OBVIOUS
<1>1. /\ flow = [f \in Flows |-> Idle] /\ \A f \in Flows : flow[f] = Idle BY DEF Init
<1>2. Select \in Flows /\ Admin \in Flows /\ \A f \in Switchers : f \in Flows BY Names
<1>3. TypeOK
  <2>1. flow \in [Flows -> Call] BY <1>1, IdleIs
  <2>2. 0 \in 0..MaxEvents BY BoundAssumption
  <2>3. admin \in Tasks BY DEF Init, NoAdmin, Tasks
  <2> QED BY <2>1, <2>2, <2>3 DEF Init, TypeOK, Call
<1>4. ASSUME NEW f \in Flows PROVE Allowed(f, flow[f].op) /\ Formed(flow[f])
  BY <1>1, IdleKeeps
<1>5. Chosen /\ Linked /\ SwitchMarked BY <1>1, <1>2, IdleIs DEF Init, Chosen, Linked, SwitchMarked
<1>6. Calm
  <2>1. ~Crossing(flow) BY <1>1, IdleIs DEF Crossing
  <2>2. ASSUME NEW f \in Flows PROVE Reading(flow[f]) /\ Changing(flow[f])
    BY <1>1, IdleIs DEF Reading, Reads, Readers, Changing
  <2>3. Showing /\ Fresh /\ Aimed BY <1>1, <1>2, IdleIs DEF Init, Showing, Fresh, Aimed
  <2> QED BY <2>1, <2>2, <2>3 DEF Calm
<1> QED BY <1>3, <1>4, <1>5, <1>6 DEF Init, IInv

LEMMA StutterInv == ASSUME IInv, UNCHANGED vars PROVE IInv'
<1>1. /\ UNCHANGED <<connections, listing, selected, connectionId, activeSavedId, connectingId>>
      /\ UNCHANGED <<activeDatabase, databases, objects, switching, flow, admin, open, exist>>
      /\ UNCHANGED <<astray, events, disturbed>>
  BY DEF vars, page, conn, shown, srv
<1>2. TypeOK' BY <1>1 DEF IInv, TypeOK
<1>3. (\A f \in Flows : Allowed(f, flow[f].op) /\ Formed(flow[f]))' BY <1>1 DEF IInv, Formed
<1>4. Chosen' /\ Linked' /\ SwitchMarked' BY <1>1 DEF IInv, Chosen, Linked, SwitchMarked
<1>5. (~disturbed => Calm)'
  <2> SUFFICES ASSUME ~disturbed' PROVE Calm' OBVIOUS
  <2>1. Calm BY <1>1 DEF IInv
  <2>2. Expected' = Expected BY <1>1 DEF Expected
  <2>3. (\A f \in Flows : Reading(flow[f]) /\ Changing(flow[f]))'
    BY <1>1, <2>1, <2>2 DEF Calm, Reading, Reads, Changing
  <2>4. Showing' /\ Fresh' /\ Aimed' BY <1>1, <2>1 DEF Calm, Showing, Fresh, Aimed, Meant
  <2>5. ~Crossing(flow') BY <1>1, <2>1 DEF Calm
  <2> QED BY <2>3, <2>4, <2>5 DEF Calm
<1> QED BY <1>1, <1>2, <1>3, <1>4, <1>5 DEF IInv

LEMMA NextInv == IInv /\ [Next]_vars => IInv'
<1> SUFFICES ASSUME IInv, [Next]_vars PROVE IInv' OBVIOUS
<1>1. CASE UserStep BY <1>1, PageSteps, SwitchDatabaseStep, AdminSteps DEF UserStep
<1>2. CASE ClientStep
  <2>1. CASE SelectConnection BY <2>1, SelectConnectionStep
  <2>2. CASE Disconnected BY <2>2, DisconnectedStep
  <2>3. CASE Connected BY <2>3, ConnectedStep
  <2>4. CASE SelectGotDatabases \/ SelectGotObjects BY <2>4, SelectGotSteps
  <2>5. CASE SelectFails BY <2>5, SelectFailsStep
  <2>6. CASE \E c \in Conns : Loaded(c) BY <2>6, LoadedStep
  <2>7. ASSUME NEW f \in Switchers,
               Switched(f) \/ SwitchGotObjects(f) \/ SwitchGotDatabases(f) \/ SwitchFails(f)
        PROVE  IInv'
    BY <2>7, SwitchSteps, SwitchFailsStep
  <2>8. CASE AdminRan \/ AdminRefreshed \/ AdminFails BY <2>8, AdminEnds
  <2> QED BY <1>2, <2>1, <2>2, <2>3, <2>4, <2>5, <2>6, <2>7, <2>8 DEF ClientStep
<1>3. CASE (\E items \in {Targets, Targets \ {selected}} : Listed(items)) \/ ListFails
  BY <1>3, PageSteps
<1>4. ASSUME NEW f \in Flows, Serve(f) \/ Refuse(f) \/ Fault(f) PROVE IInv'
  BY <1>4, ServeStep, RefuseStep, FaultStep
<1>5. CASE UNCHANGED vars BY <1>5, StutterInv
<1> QED BY <1>1, <1>2, <1>3, <1>4, <1>5 DEF Next

LEMMA Invariant == Spec => []IInv
BY InitInv, NextInv, PTL DEF Spec

\* The variables of the workbench and of the server keep their types
\* (DatabaseWorkbench.tsx: the state hooks of the component).
THEOREM TypeCorrect == Spec => []TypeOK
<1>1. IInv => TypeOK BY DEF IInv
<1> QED BY <1>1, Invariant, PTL

\* selectWorkbenchConnection (DatabaseWorkbench.tsx, 399-423): when no connection is being
\* set up, the one in use is open on the server and is that of the target marked as active,
\* whatever failed and whichever answers came late.
THEOREM ConnectionFollowsSelection == Spec => []ConnectionMatchesSelection
<1>1. IInv => ConnectionMatchesSelection
  <2> SUFFICES ASSUME IInv, connectingId = None, connectionId # None
               PROVE  IsOpen(connectionId) /\ open[connectionId].target = activeSavedId
    BY DEF ConnectionMatchesSelection
  <2>1. flow[Select].op = "none" /\ connectionId \in Conns BY DEF IInv, Chosen, TypeOK
  <2> QED BY <2>1 DEF IInv, Linked, IsOpen
<1> QED BY <1>1, Invariant, PTL

\* The marks and the names on the screen (DatabaseWorkbench.tsx, 141-155, 282-300): a mark
\* of being busy belongs to a handler that is still under way, and, unless an answer was lost
\* or a change crossed another call, the database and the objects shown when nothing is under
\* way are those of the connection.
THEOREM ScreenIsTrue == Spec => []ScreenTellsTruth
<1>1. IInv => MarksHaveOwner BY DEF IInv, Chosen, SwitchMarked, MarksHaveOwner
<1>2. IInv => ShownIsCurrent
  <2> SUFFICES ASSUME IInv, AtRest, connectionId # None, ~disturbed
               PROVE  activeDatabase = open[connectionId].db /\ objects \in {None, activeDatabase}
    BY DEF ShownIsCurrent
  <2>1. \A f \in Flows : flow[f].op = "none" BY IdleIs DEF AtRest
  <2>2. Showing BY DEF IInv, Calm
  <2> QED BY <2>1, <2>2, Names DEF Showing
<1> QED BY <1>1, <1>2, Invariant, PTL DEF ScreenTellsTruth

\* The administrative statements (DatabaseWorkbench.tsx, 321-347): unless an answer was lost
\* or a change crossed another call, and if the switch before it succeeded, a table is created
\* in the database that was named, and no database is dropped by a connection that is on it.
THEOREM AdminRunsWhereSaid == Spec => []AdminWhereSaid
<1>1. IInv => AdminWhereSaid BY DEF IInv, AdminWhereSaid
<1> QED BY <1>1, Invariant, PTL
=============================================================================
