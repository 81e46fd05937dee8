--------------------------- MODULE WorkspaceTabs ---------------------------
(***************************************************************************)
(* The tabs of the database workbench and the statements they run          *)
(* (web/src/app/DatabaseWorkbench.tsx, features/workspace, features/editor *)
(* and features/history of the web client).                                *)
(*                                                                         *)
(* A run is one call of run, reloadTableTab or handleDeleteTable.  It has  *)
(* captured its tab, its connection and its statement when it began, and   *)
(* applies its answers whatever has become of the tabs since.  The editor  *)
(* captures, in the same way, the handler of its shortcut when it mounts.  *)
(*                                                                         *)
(* Left out: messages, transactions, which of its two views a table tab    *)
(* shows, and what a table tab shows (module TableEditor).                 *)
(***************************************************************************)
EXTENDS Naturals, Sequences, SequencesExt

CONSTANTS
  Statements,    \* what can be in the editor
  Unsafe,        \* statements that classifyClientRisk wants confirmed
  Guide,         \* the text of a new tab
  Tables, Keys,  \* tables of the server; Redis keys or MongoDB collections
  MaxRuns, MaxTabs, MaxQueryTabs, MaxResets, \* bounds
  MaxHistory,    \* entries kept: 500 in the code
  None

ASSUME StatementAssumption == Unsafe \subseteq Statements /\ Guide \in Statements \ Unsafe
ASSUME NoneAssumption == None \notin Statements /\ None \notin Nat
ASSUME BoundAssumption == {MaxRuns, MaxTabs, MaxQueryTabs, MaxResets, MaxHistory} \subseteq Nat \ {0}

Runs == 1..MaxRuns
Conns == 1..(MaxResets + 1)

QueryId(n) == <<"query", n>>
TableId(t) == <<"table", t>>
KeyId(k) == <<"key", k>>
ConsoleId(n) == <<"console", n>>
Home == <<"home", None>>

Ids == {QueryId(n) : n \in 1..MaxQueryTabs} \cup {TableId(t) : t \in Tables}
       \cup {KeyId(k) : k \in Keys} \cup {ConsoleId(n) : n \in 2..(2 + MaxQueryTabs)} \cup {Home}

IsQuery(id) == id[1] = "query"
IsTable(id) == id[1] = "table"

VARIABLES
  conn,        \* connectionId, or None
  driver,      \* of the connection: "sql", "redis" or "mongodb"
  tabs,        \* the tabs, in order
  active,      \* activeTabId
  risk,        \* the statement RiskDialog asks about, or None
  editor,      \* what the shortcut of the mounted editor has captured, or None
  consoles,    \* redisConsoleCounter
  created,     \* query tabs created: their ids are never used twice
  resets,      \* changes of the connection or of the database
  runs,
  history      \* listHistory(), newest first

vars == <<conn, driver, tabs, active, risk, editor, consoles, created, resets, runs, history>>

\* `last' is the latest run of the tab, and `crossed' says that the run, or the
\* tab, began while another run was under way: both serve the properties only.
NewTab(id, sql) == [id |-> id, status |-> "idle", sql |-> sql, result |-> None, queryId |-> None,
                    last |-> None, crossed |-> FALSE]
NoRun == [st |-> "unused", tab |-> Home, conn |-> None, sql |-> None, was |-> Home]

Has(ts, id) == \E i \in DOMAIN ts : ts[i].id = id
TabOf(ts, id) == ts[CHOOSE i \in DOMAIN ts : ts[i].id = id]

\* updateTab: {...tab, ...patch}.
UpdateTab(ts, id, patch) ==
  [i \in DOMAIN ts |->
     IF ts[i].id # id THEN ts[i]
     ELSE [k \in DOMAIN ts[i] |-> IF k \in DOMAIN patch THEN patch[k] ELSE ts[i][k]]]

\* filter((tab) => tab.id !== id): at most one tab goes, as ids are unique.
Without(ts, id) ==
  IF Has(ts, id) THEN RemoveAt(ts, CHOOSE i \in DOMAIN ts : ts[i].id = id) ELSE ts

InFlight(r) == runs[r].st \in {"start", "poll"}
IsDrop(r) == runs[r].sql = None
RunsOf(id) == {r \in Runs : InFlight(r) /\ ~IsDrop(r) /\ runs[r].tab = id}
Free(r) == runs[r].st = "unused" /\ \A q \in Runs : q < r => runs[q].st # "unused"

TypeOK ==
  /\ conn \in Conns \cup {None} /\ driver \in {"sql", "redis", "mongodb"}
  /\ Len(tabs) <= MaxTabs
  /\ \A i \in DOMAIN tabs :
       tabs[i] \in [id : Ids, status : {"idle", "running", "error"}, sql : Statements,
                    result : Runs \cup {None}, queryId : Runs \cup {None},
                    last : Runs \cup {None}, crossed : BOOLEAN]
  /\ active \in Ids
  /\ risk \in Statements \cup {None}
  /\ editor = None \/ editor \in [tab : Ids, sql : Statements, conn : Conns]
  /\ consoles \in 2..(3 + MaxQueryTabs) /\ created \in 1..MaxQueryTabs /\ resets \in 0..MaxResets
  /\ runs \in [Runs -> [st : {"unused", "start", "poll", "done"}, tab : Ids,
                        conn : Conns \cup {None}, sql : Statements \cup {None}, was : Ids]]
  /\ Len(history) <= MaxHistory
  /\ \A i \in DOMAIN history : history[i] \in [sql : Statements, run : Runs]

\* The editor is mounted while a query tab of an SQL connection is shown, and
\* the shortcut keeps the handler of the moment it was mounted (SqlEditor, 57).
Mount(c, dr, ts, id) ==
  IF c # None /\ dr = "sql" /\ IsQuery(id) /\ Has(ts, id)
  THEN IF editor # None THEN editor ELSE [tab |-> id, sql |-> TabOf(ts, id).sql, conn |-> c]
  ELSE None

\* The tabs are ts and the active one is id.
Show(ts, id) ==
  /\ tabs' = ts
  /\ active' = id
  /\ editor' = Mount(conn, driver, ts, id)

Init ==
  /\ conn = 1 /\ driver = "sql"
  /\ tabs = <<NewTab(QueryId(1), Guide)>>
  /\ active = QueryId(1)
  /\ risk = None
  /\ editor = [tab |-> QueryId(1), sql |-> Guide, conn |-> 1]
  /\ consoles = 2 /\ created = 1 /\ resets = 0
  /\ runs = [r \in Runs |-> NoRun]
  /\ history = <<>>

-----------------------------------------------------------------------------
(* Runs.                                                                   *)

\* The rows of the run before are left in the tab until the answer comes.
BeginKeeps(r, ts, id, s, c) ==
  /\ Free(r)
  /\ runs' = [runs EXCEPT ![r] = [st |-> "start", tab |-> id, conn |-> c, sql |-> s, was |-> Home]]
  /\ tabs' = UpdateTab(ts, id, [status |-> "running", queryId |-> None,
                                last |-> r, crossed |-> RunsOf(id) # {}])

\* A run r of the tab id begins; the tab shows that it is under way.
Begin(r, ts, id, s, c) ==
  /\ Free(r)
  /\ runs' = [runs EXCEPT ![r] = [st |-> "start", tab |-> id, conn |-> c, sql |-> s, was |-> Home]]
  /\ tabs' = UpdateTab(ts, id, [status |-> "running", result |-> None, queryId |-> None,
                                last |-> r, crossed |-> RunsOf(id) # {}])

\* run, of a tab and a statement.
Run(id, s, c) ==
  \E r \in Runs :
    /\ Begin(r, tabs, id, s, c)
    /\ risk' = None

\* execute: a statement that wants confirmation opens the dialog instead.
ExecuteText(id, s, c) ==
  \/ s \in Unsafe /\ risk' = s /\ UNCHANGED <<tabs, runs>>
  \/ s \notin Unsafe /\ Run(id, s, c)

Current == TabOf(tabs, active)

\* The button above the editor: it acts on what is shown.
Execute ==
  /\ risk = None /\ editor # None /\ Current.status # "running"
  /\ ExecuteText(active, Current.sql, conn)
  /\ UNCHANGED <<conn, driver, active, editor, consoles, created, resets, history>>

\* Ctrl+Enter in the editor: it acts on what was shown when the editor mounted.
Shortcut ==
  /\ risk = None /\ editor # None
  /\ ExecuteText(editor.tab, editor.sql, editor.conn)
  /\ UNCHANGED <<conn, driver, active, editor, consoles, created, resets, history>>

\* The dialog confirms the statement that is shown now; without a query tab it
\* does nothing and stays.
Confirm ==
  /\ risk # None /\ conn # None /\ Has(tabs, active) /\ IsQuery(active)
  /\ Run(active, Current.sql, conn)
  /\ UNCHANGED <<conn, driver, active, editor, consoles, created, resets, history>>

CancelRisk ==
  /\ risk # None
  /\ risk' = None
  /\ UNCHANGED <<conn, driver, tabs, active, editor, consoles, created, resets, runs, history>>

\* startQuery has answered: the tab learns the id that its stop button needs.
Started(r) ==
  /\ runs[r].st = "start"
  /\ runs' = [runs EXCEPT ![r].st = "poll"]
  /\ tabs' = IF IsDrop(r) THEN tabs ELSE UpdateTab(tabs, runs[r].tab, [queryId |-> r])
  /\ UNCHANGED <<conn, driver, active, risk, editor, consoles, created, resets, history>>

\* The entry takes its statement from the tab when the answer comes.
AddHistoryLate(s, r) ==
  LET shown == IF Has(tabs, runs[r].tab) THEN TabOf(tabs, runs[r].tab).sql ELSE s
      all == <<[sql |-> shown, run |-> r]>> \o history
  IN history' = SubSeq(all, 1, IF Len(all) < MaxHistory THEN Len(all) ELSE MaxHistory)

\* addHistory: the statement that was sent, in front of the earlier ones.
AddHistory(s, r) ==
  LET all == <<[sql |-> s, run |-> r]>> \o history
  IN history' = SubSeq(all, 1, IF Len(all) < MaxHistory THEN Len(all) ELSE MaxHistory)

End(r) == runs' = [runs EXCEPT ![r].st = "done"]

FirstQuery(ts) == LET at == {i \in DOMAIN ts : IsQuery(ts[i].id)}
                  IN IF at = {} THEN Home ELSE ts[CHOOSE i \in at : \A j \in at : i <= j].id

\* The rows go to the tab that is active by now.
FinishedInActive(r) ==
  /\ runs[r].st = "poll" /\ ~IsDrop(r)
  /\ End(r)
  /\ tabs' = UpdateTab(UpdateTab(tabs, runs[r].tab, [status |-> "idle"]),
                       IF IsQuery(active) /\ IsQuery(runs[r].tab) THEN active ELSE runs[r].tab,
                       [result |-> r])
  /\ IF IsQuery(runs[r].tab) THEN AddHistory(runs[r].sql, r) ELSE UNCHANGED history
  /\ UNCHANGED <<conn, driver, active, risk, editor, consoles, created, resets>>

\* A statement without an answer is sent again, without limit.
FinishedRetries(r) ==
  /\ runs[r].st = "poll" /\ ~IsDrop(r)
  /\ runs' = [runs EXCEPT ![r].st = "start"]
  /\ UNCHANGED <<conn, driver, tabs, active, risk, editor, consoles, created, resets, history>>

\* The answer goes to the tab the run was begun for, if it still exists.
Finished(r) ==
  /\ runs[r].st = "poll" /\ ~IsDrop(r)
  /\ End(r)
  /\ tabs' = UpdateTab(tabs, runs[r].tab, [result |-> r, status |-> "idle"])
  /\ IF IsQuery(runs[r].tab) THEN AddHistory(runs[r].sql, r) ELSE UNCHANGED history
  /\ UNCHANGED <<conn, driver, active, risk, editor, consoles, created, resets>>

\* An error of either call, or 45 seconds without a result.  A failed DROP is
\* reported in the first query tab.
RunFails(r) ==
  /\ InFlight(r)
  /\ End(r)
  /\ tabs' = UpdateTab(tabs, IF IsDrop(r) THEN FirstQuery(tabs) ELSE runs[r].tab, [status |-> "error"])
  /\ IF IsQuery(runs[r].tab) THEN AddHistory(runs[r].sql, r) ELSE UNCHANGED history
  /\ UNCHANGED <<conn, driver, active, risk, editor, consoles, created, resets>>

-----------------------------------------------------------------------------
(* Tables and keys.                                                        *)

\* createTableTab, when the table has no tab; a run of a closed tab of the same
\* table may still be under way.
WithTable(t) ==
  IF Has(tabs, TableId(t)) THEN tabs
  ELSE Append(tabs, [NewTab(TableId(t), Guide) EXCEPT !.crossed = (RunsOf(TableId(t)) # {})])

\* reloadTableTab of an existing tab, or of a table whose tab is made.
Reload(t, ts) == \E r \in Runs : Begin(r, ts, TableId(t), Guide, conn)

\* loadTableData, from the tree of objects: the tab is made when it is missing.
LoadTableData(t) ==
  /\ risk = None /\ conn # None /\ driver = "sql" /\ Len(WithTable(t)) <= MaxTabs
  /\ active' = TableId(t)
  /\ editor' = None
  /\ Reload(t, WithTable(t))
  /\ UNCHANGED <<conn, driver, risk, consoles, created, resets, history>>

\* Paging, filters, sorting, refreshing and a saved draft reload the tab shown.
ReloadTable(t) ==
  /\ risk = None /\ conn # None /\ active = TableId(t) /\ Has(tabs, active)
  /\ Reload(t, tabs)
  /\ UNCHANGED <<conn, driver, active, risk, editor, consoles, created, resets, history>>

\* openTableStructure makes the tab without loading its rows.
OpenTableStructure(t) ==
  /\ risk = None /\ conn # None /\ driver = "sql" /\ Len(WithTable(t)) <= MaxTabs
  /\ Show(WithTable(t), TableId(t))
  /\ UNCHANGED <<conn, driver, risk, consoles, created, resets, runs, history>>

\* openRedisKey, and loadTableData and its like for a MongoDB collection.
OpenKey(k) ==
  /\ risk = None /\ conn # None /\ driver # "sql"
  /\ LET ts == IF Has(tabs, KeyId(k)) THEN tabs ELSE Append(tabs, NewTab(KeyId(k), Guide))
     IN Len(ts) <= MaxTabs /\ Show(ts, KeyId(k))
  /\ UNCHANGED <<conn, driver, risk, consoles, created, resets, runs, history>>

\* handleDeleteTable, from the tree: the run carries no statement of the user.
DeleteTable(t) ==
  /\ risk = None /\ conn # None /\ driver = "sql"
  /\ \A r \in Runs : InFlight(r) => ~IsDrop(r)
  /\ \E r \in Runs :
       /\ Free(r)
       /\ runs' = [runs EXCEPT ![r] = [st |-> "start", tab |-> TableId(t), conn |-> conn,
                                       sql |-> None, was |-> active]]
  /\ UNCHANGED <<conn, driver, tabs, active, risk, editor, consoles, created, resets, history>>

\* The table is gone: the first query tab reports it, the tab of the table is
\* closed, and the first tab is shown if the closed one was active at the start.
Dropped(r) ==
  /\ runs[r].st = "poll" /\ IsDrop(r)
  /\ End(r)
  /\ LET rest == Without(UpdateTab(tabs, FirstQuery(tabs), [status |-> "idle"]), runs[r].tab)
     IN Show(rest, IF runs[r].was = runs[r].tab /\ rest # <<>> THEN rest[1].id ELSE active)
  /\ UNCHANGED <<conn, driver, risk, consoles, created, resets, history>>

-----------------------------------------------------------------------------
(* Tabs.                                                                   *)

\* A click shows the tab, and loads a table that has no rows yet.
ClickTab(id) ==
  /\ risk = None /\ Has(tabs, id) /\ id # active
  /\ active' = id
  /\ editor' = Mount(conn, driver, tabs, id)
  /\ LET tab == TabOf(tabs, id)
         idle == IsTable(id) /\ tab.status # "running" /\ tab.result = None /\ conn # None
     IN \/ idle /\ Reload(id[2], tabs)
        \/ ~idle /\ UNCHANGED <<tabs, runs>>
  /\ UNCHANGED <<conn, driver, risk, consoles, created, resets, history>>

\* The arrow keys only show another tab.
KeyTab(id) ==
  /\ risk = None /\ Has(tabs, id) /\ id # active
  /\ Show(tabs, id)
  /\ UNCHANGED <<conn, driver, risk, consoles, created, resets, runs, history>>

\* closeTab: the last tab stays, and the neighbour to the left is shown.
CloseTab(id) ==
  /\ risk = None /\ Has(tabs, id) /\ Len(tabs) > 1
  /\ LET i == CHOOSE n \in DOMAIN tabs : tabs[n].id = id
         next == Without(tabs, id)
     IN Show(next, IF active = id THEN next[IF i > 1 THEN i - 1 ELSE 1].id ELSE active)
  /\ UNCHANGED <<conn, driver, risk, consoles, created, resets, runs, history>>

\* createId: an id no other tab has had.
FreshId == created + 1

\* openQueryTab, for the "+" button or for a table of the tree.
OpenQueryTab ==
  /\ risk = None /\ driver # "redis" /\ created < MaxQueryTabs /\ Len(tabs) < MaxTabs
  /\ created' = created + 1
  /\ Show(Append(tabs, NewTab(QueryId(FreshId), Guide)), QueryId(FreshId))
  /\ UNCHANGED <<conn, driver, risk, consoles, resets, runs, history>>

OpenRedisConsole ==
  /\ risk = None /\ driver = "redis" /\ consoles < 2 + MaxQueryTabs /\ Len(tabs) < MaxTabs
  /\ consoles' = consoles + 1
  /\ Show(Append(tabs, NewTab(ConsoleId(consoles), Guide)), ConsoleId(consoles))
  /\ UNCHANGED <<conn, driver, risk, created, resets, runs, history>>

\* Typing, choosing a table of the toolbar or an entry of the history.
Edit(s) ==
  /\ risk = None /\ editor # None /\ s # Current.sql
  /\ tabs' = UpdateTab(tabs, active, [sql |-> s])
  /\ UNCHANGED <<conn, driver, active, risk, editor, consoles, created, resets, runs, history>>

-----------------------------------------------------------------------------
(* What module WorkbenchConnection does to the tabs.                       *)

\* createDefaultWorkspaceTab: a console, a home page or a query tab.
DefaultTab(dr) ==
  IF dr = "redis" THEN consoles' = consoles + 1 /\ tabs' = <<NewTab(ConsoleId(consoles), Guide)>> /\ created' = created
  ELSE IF dr = "mongodb" THEN consoles' = consoles /\ tabs' = <<NewTab(Home, Guide)>> /\ created' = created
  ELSE consoles' = consoles /\ tabs' = <<NewTab(QueryId(FreshId), Guide)>> /\ created' = created + 1

\* resetWorkspace, when a connection is made (c is new) or the database is
\* switched (c = conn): the dialog, the history and the runs stay.
ResetWorkspace(c, dr) ==
  /\ resets < MaxResets /\ created < MaxQueryTabs /\ consoles < 2 + MaxQueryTabs
  /\ resets' = resets + 1
  /\ conn' = c /\ driver' = dr
  /\ DefaultTab(dr)
  /\ active' = tabs'[1].id
  /\ editor' = Mount(c, dr, tabs', tabs'[1].id)
  /\ UNCHANGED <<risk, runs, history>>

\* A connection could not be set up: the tabs stay, and the first query tab
\* shows the error.
ConnectionLost ==
  /\ conn # None
  /\ conn' = None
  /\ tabs' = UpdateTab(tabs, FirstQuery(tabs), [status |-> "error"])
  /\ editor' = None
  /\ UNCHANGED <<driver, active, risk, consoles, created, resets, runs, history>>

-----------------------------------------------------------------------------

Answer(r) == Started(r) \/ Finished(r) \/ RunFails(r) \/ Dropped(r)

Next ==
  \/ Execute \/ Shortcut \/ Confirm \/ CancelRisk
  \/ \E s \in Statements : Edit(s)
  \/ \E r \in Runs : Answer(r)
  \/ \E t \in Tables : LoadTableData(t) \/ ReloadTable(t) \/ OpenTableStructure(t) \/ DeleteTable(t)
  \/ \E k \in Keys : OpenKey(k)
  \/ \E id \in Ids : ClickTab(id) \/ KeyTab(id) \/ CloseTab(id)
  \/ OpenQueryTab \/ OpenRedisConsole
  \/ conn # None /\ ResetWorkspace(conn, driver)
  \/ resets < MaxResets /\ \E dr \in {"sql", "redis", "mongodb"} : ResetWorkspace(resets + 2, dr)
  \/ ConnectionLost

Spec == Init /\ [][Next]_vars

\* Every call answers or is given up, and pollQuery gives up after 45 seconds.  This
\* takes for granted that an answer whose headers have come is read to its end: the
\* deadline of a call covers its headers alone (client.ts 244-273), and pollQuery
\* looks at the clock between two polls, so that a body that never ends would leave
\* the tab running (ApiSession has the bodies apart).
FairSpec == Spec /\ \A r \in Runs : WF_vars(Answer(r))

-----------------------------------------------------------------------------

\* No two tabs have the same id, whatever was opened, closed and reset
\* (types.ts 69-141): updateTab would write the answer of one into the other.
TabIdsUnique == \A i, j \in DOMAIN tabs : tabs[i].id = tabs[j].id => i = j

\* A tab that says it is running has a run that will end it (lines 432-458 and
\* 200-217), also when the tab was closed and opened again meanwhile.
SpinnerHasRun == \A i \in DOMAIN tabs : tabs[i].status = "running" => RunsOf(tabs[i].id) # {}

\* A query tab shows only the result of a statement it ran itself, on the
\* connection it was made for (lines 435-447): a late answer from before a
\* reset or a reconnection never turns up in a new tab.
OwnAnswers ==
  \A i \in DOMAIN tabs : IsQuery(tabs[i].id) /\ tabs[i].result # None =>
    /\ runs[tabs[i].result].tab = tabs[i].id
    /\ conn # None => runs[tabs[i].result].conn = conn

\* Unless a tab or its latest run began while another run was under way, the tab
\* shows the rows of that run or none, and its stop button stops that run
\* (lines 437-447): no rows of an earlier run under the new statement.
LastRunShown ==
  \A i \in DOMAIN tabs :
    ~tabs[i].crossed => {tabs[i].result, tabs[i].queryId} \subseteq {None, tabs[i].last}

\* Each entry of the history is the statement that its run sent, whatever has
\* been typed since, and no run is entered twice (lines 448 and 455).
HistoryIsWhatRan ==
  /\ \A i \in DOMAIN history : history[i].sql = runs[history[i].run].sql
  /\ \A i, j \in DOMAIN history : history[i].run = history[j].run => i = j

\* A tab does not stay running (pollQuery, lines 170-181), if the bodies of the answers
\* come to an end.
SpinnerStops == \A id \in {i \in Ids : IsQuery(i) \/ IsTable(i)} :
                  (Has(tabs, id) /\ TabOf(tabs, id).status = "running")
                                  ~> (Has(tabs, id) => TabOf(tabs, id).status # "running")

\* The tooltip of the run button (line 689) says that Ctrl/Cmd + Enter runs the
\* statement, as the button does: the one that is shown.
ShortcutRunsShown ==
  [][\A r \in Runs : runs[r].st = "unused" /\ runs'[r].st = "start" /\ IsQuery(runs'[r].tab) =>
       runs'[r].tab = active /\ runs'[r].sql = TabOf(tabs, active).sql]_vars

\* Tabs are kept apart through late answers, closing, reopening and resets: ids are
\* unique, who is running has a run, and rows are a tab's own (lines 200-217, 432-458).
TabsKeepApart == TabIdsUnique /\ SpinnerHasRun /\ OwnAnswers

=============================================================================
