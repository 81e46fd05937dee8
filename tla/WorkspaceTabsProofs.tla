------------------------ MODULE WorkspaceTabsProofs ------------------------
(***************************************************************************)
(* Theorems about WorkspaceTabs, for any number of tabs, runs, tables,     *)
(* resets and statements, and any length of the history.                   *)
(***************************************************************************)
EXTENDS WorkspaceTabs, SequenceTheorems, TLAPS

Tab == [id : Ids, status : {"idle", "running", "error"}, sql : Statements,
        result : Runs \cup {None}, queryId : Runs \cup {None},
        last : Runs \cup {None}, crossed : BOOLEAN]
Entry == [sql : Statements, run : Runs]
RunType == [st : {"unused", "start", "poll", "done"}, tab : Ids,
            conn : Conns \cup {None}, sql : Statements \cup {None}, was : Ids]

IsConsole(id) == id[1] = "console"

\* Ids that were handed out already: the next one is none of them.
Known(id) == /\ IsQuery(id) => id[2] <= created
             /\ IsConsole(id) => id[2] < consoles

\* What holds of every tab: its spinner has a run, its rows are of a run of its own
\* that has ended, all its runs used the present connection, and, unless it is
\* crossed, its latest run is the only one that may still write to it.
Good(t) ==
  /\ Known(t.id)
  /\ t.status = "running" => RunsOf(t.id) # {}
  /\ t.result # None => runs[t.result].st = "done" /\ runs[t.result].tab = t.id
  /\ IsQuery(t.id) /\ conn # None =>
       \A r \in Runs : runs[r].st # "unused" /\ runs[r].tab = t.id => runs[r].conn = conn
  /\ ~t.crossed => /\ RunsOf(t.id) \subseteq {t.last}
                   /\ {t.result, t.queryId} \subseteq {None, t.last}

\* Runs are of query and table tabs, and a run without a statement is of a table.
Assigned(r) ==
  runs[r].st # "unused" => /\ IsQuery(runs[r].tab) \/ IsTable(runs[r].tab)
                           /\ Known(runs[r].tab)
                           /\ IsDrop(r) => IsTable(runs[r].tab)

\* What the shortcut has captured is a query tab of the present connection, or one
\* that has been closed.
Captured ==
  editor # None =>
    /\ IsQuery(editor.tab) /\ Known(editor.tab)
    /\ conn # None /\ driver = "sql" /\ IsQuery(active) /\ Has(tabs, active)
    /\ \A t \in ToSet(tabs) : t.id = editor.tab => editor.conn = conn

\* The runs of the history have ended, which is why none is entered again.
Entered ==
  /\ \A i \in DOMAIN history : runs[history[i].run].st = "done"
  /\ HistoryIsWhatRan

IInv ==
  /\ TypeOK /\ tabs \in Seq(Tab) /\ history \in Seq(Entry)
  /\ TabIdsUnique
  /\ \A t \in ToSet(tabs) : Good(t)
  /\ \A r \in Runs : Assigned(r)
  /\ Captured
  /\ Entered

-----------------------------------------------------------------------------
(* The operators on tabs.                                                  *)

Fields == {"id", "status", "sql", "result", "queryId", "last", "crossed"}

\* {...tab, ...patch}, as UpdateTab computes it.
Merge(t, patch) == [k \in DOMAIN t |-> IF k \in DOMAIN patch THEN patch[k] ELSE t[k]]

LEMMA MergeFields ==
  ASSUME NEW t \in Tab, NEW patch
  PROVE  /\ DOMAIN Merge(t, patch) = Fields
         /\ \A k \in Fields : Merge(t, patch)[k] = IF k \in DOMAIN patch THEN patch[k] ELSE t[k]
<1>1. DOMAIN t = Fields BY DEF Tab, Fields
<1> QED BY <1>1 DEF Merge

\* A patch of the status and, perhaps, of the rows.
LEMMA MergeStatus ==
  ASSUME NEW t \in Tab, NEW s \in {"idle", "running", "error"}
  PROVE  LET u == Merge(t, [status |-> s]) IN
         /\ u \in Tab /\ u.id = t.id /\ u.status = s /\ u.sql = t.sql /\ u.result = t.result
         /\ u.queryId = t.queryId /\ u.last = t.last /\ u.crossed = t.crossed
<1> DEFINE u == Merge(t, [status |-> s])
<1>1. DOMAIN t = Fields /\ DOMAIN [status |-> s] = {"status"} BY DEF Tab, Fields
<1> QED BY <1>1 DEF Merge, Tab, Fields

LEMMA MergeRows ==
  ASSUME NEW t \in Tab, NEW r \in Runs
  PROVE  LET u == Merge(t, [result |-> r, status |-> "idle"]) IN
         /\ u \in Tab /\ u.id = t.id /\ u.status = "idle" /\ u.sql = t.sql /\ u.result = r
         /\ u.queryId = t.queryId /\ u.last = t.last /\ u.crossed = t.crossed
<1>1. DOMAIN t = Fields /\ DOMAIN [result |-> r, status |-> "idle"] = {"result", "status"} BY DEF Tab, Fields
<1> QED BY <1>1 DEF Merge, Tab, Fields

LEMMA MergeQuery ==
  ASSUME NEW t \in Tab, NEW r \in Runs
  PROVE  LET u == Merge(t, [queryId |-> r]) IN
         /\ u \in Tab /\ u.id = t.id /\ u.status = t.status /\ u.sql = t.sql /\ u.result = t.result
         /\ u.queryId = r /\ u.last = t.last /\ u.crossed = t.crossed
<1>1. DOMAIN t = Fields /\ DOMAIN [queryId |-> r] = {"queryId"} BY DEF Tab, Fields
<1> QED BY <1>1 DEF Merge, Tab, Fields

LEMMA MergeSql ==
  ASSUME NEW t \in Tab, NEW s \in Statements
  PROVE  LET u == Merge(t, [sql |-> s]) IN
         /\ u \in Tab /\ u.id = t.id /\ u.status = t.status /\ u.sql = s /\ u.result = t.result
         /\ u.queryId = t.queryId /\ u.last = t.last /\ u.crossed = t.crossed
<1>1. DOMAIN t = Fields /\ DOMAIN [sql |-> s] = {"sql"} BY DEF Tab, Fields
<1> QED BY <1>1 DEF Merge, Tab, Fields

LEMMA MergeBegin ==
  ASSUME NEW t \in Tab, NEW r \in Runs, NEW b \in BOOLEAN
  PROVE  LET u == Merge(t, [status |-> "running", result |-> None, queryId |-> None,
                            last |-> r, crossed |-> b]) IN
         /\ u \in Tab /\ u.id = t.id /\ u.status = "running" /\ u.sql = t.sql /\ u.result = None
         /\ u.queryId = None /\ u.last = r /\ u.crossed = b
<1>1. /\ DOMAIN t = Fields
      /\ DOMAIN [status |-> "running", result |-> None, queryId |-> None, last |-> r, crossed |-> b]
           = {"status", "result", "queryId", "last", "crossed"}
  BY DEF Tab, Fields
<1> QED BY <1>1 DEF Merge, Tab, Fields

\* updateTab writes the tab with the id, and no other.
LEMMA UpdateTabFields ==
  ASSUME NEW ts \in Seq(Tab), NEW id, NEW patch,
         \A t \in Tab : Merge(t, patch) \in Tab
  PROVE  LET us == UpdateTab(ts, id, patch) IN
         /\ us \in Seq(Tab) /\ Len(us) = Len(ts) /\ DOMAIN us = DOMAIN ts
         /\ \A i \in DOMAIN ts : us[i] = IF ts[i].id # id THEN ts[i] ELSE Merge(ts[i], patch)
<1> DEFINE us == UpdateTab(ts, id, patch)
<1>1. us = [i \in DOMAIN ts |-> IF ts[i].id # id THEN ts[i] ELSE Merge(ts[i], patch)]
  BY DEF UpdateTab, Merge
<1>2. DOMAIN ts = 1..Len(ts) /\ Len(ts) \in Nat /\ \A i \in 1..Len(ts) : ts[i] \in Tab OBVIOUS
<1> HIDE DEF us
<1>3. us \in [1..Len(ts) -> Tab] BY <1>1, <1>2
<1>4. us \in Seq(Tab) /\ Len(us) = Len(ts) BY <1>2, <1>3
<1> QED BY <1>1, <1>2, <1>4 DEF us

LEMMA RemoveAtFields ==
  ASSUME NEW S, NEW s \in Seq(S), NEW i \in 1..Len(s)
  PROVE  /\ RemoveAt(s, i) \in Seq(S) /\ Len(RemoveAt(s, i)) = Len(s) - 1
         /\ \A n \in 1..(Len(s) - 1) : RemoveAt(s, i)[n] = IF n < i THEN s[n] ELSE s[n + 1]
<1> DEFINE a == SubSeq(s, 1, i - 1)
           b == SubSeq(s, i + 1, Len(s))
<1>1. a \in Seq(S) /\ Len(a) = i - 1 /\ \A n \in 1..(i - 1) : a[n] = s[n] OBVIOUS
<1>2. b \in Seq(S) /\ Len(b) = Len(s) - i /\ \A n \in 1..(Len(s) - i) : b[n] = s[i + n] OBVIOUS
<1>3. RemoveAt(s, i) = a \o b BY DEF RemoveAt
<1> HIDE DEF a, b
<1>4. a \o b \in Seq(S) /\ Len(a \o b) = Len(a) + Len(b) BY <1>1, <1>2, ConcatProperties
<1>5. ASSUME NEW n \in 1..(Len(s) - 1) PROVE (a \o b)[n] = IF n < i THEN s[n] ELSE s[n + 1]
  <2>1. CASE n < i BY <2>1, <1>1, <1>2
  <2>2. CASE ~(n < i)
    <3>1. (a \o b)[n] = b[n - Len(a)] BY <2>2, <1>1, <1>2
    <3> QED BY <3>1, <2>2, <1>1, <1>2
  <2> QED BY <2>1, <2>2
<1> QED BY <1>1, <1>2, <1>3, <1>4, <1>5

\* The tabs of a sequence in which ids are unique, without one of them.
LEMMA WithoutFields ==
  ASSUME NEW ts \in Seq(Tab), NEW id, \A i, j \in DOMAIN ts : ts[i].id = ts[j].id => i = j
  PROVE  LET us == Without(ts, id) IN
         /\ us \in Seq(Tab) /\ Len(us) <= Len(ts)
         /\ \A i, j \in DOMAIN us : us[i].id = us[j].id => i = j
         /\ ToSet(us) \subseteq ToSet(ts)
         /\ Has(ts, id) => Len(us) = Len(ts) - 1
<1> DEFINE us == Without(ts, id)
<1>1. CASE ~Has(ts, id) BY <1>1 DEF Without, ToSet
<1>2. CASE Has(ts, id)
  <2> DEFINE c == CHOOSE i \in DOMAIN ts : ts[i].id = id
  <2>1. c \in 1..Len(ts) BY <1>2 DEF Has
  <2>2. us = RemoveAt(ts, c) BY <1>2 DEF Without
  <2> HIDE DEF c
  <2>3. /\ us \in Seq(Tab) /\ Len(us) = Len(ts) - 1
        /\ \A n \in 1..(Len(ts) - 1) : us[n] = IF n < c THEN ts[n] ELSE ts[n + 1]
    BY <2>1, <2>2, RemoveAtFields
  <2> HIDE DEF us
  <2>4. DOMAIN us = 1..(Len(ts) - 1) /\ DOMAIN ts = 1..Len(ts) /\ Len(ts) \in Nat BY <2>3
  <2>5. \A i, j \in DOMAIN us : us[i].id = us[j].id => i = j
    <3> SUFFICES ASSUME NEW i \in DOMAIN us, NEW j \in DOMAIN us, us[i].id = us[j].id PROVE i = j OBVIOUS
    <3> DEFINE f(n) == IF n < c THEN n ELSE n + 1
    <3>1. us[i] = ts[f(i)] /\ us[j] = ts[f(j)] /\ f(i) \in DOMAIN ts /\ f(j) \in DOMAIN ts BY <2>1, <2>3, <2>4
    <3>2. f(i) = f(j) BY <3>1
    <3> QED BY <2>1, <2>4, <3>2
  <2>6. ToSet(us) \subseteq ToSet(ts)
    <3>1. ASSUME NEW n \in DOMAIN us PROVE us[n] \in ToSet(ts)
      <4>1. n \in DOMAIN ts /\ n + 1 \in DOMAIN ts BY <2>4
      <4>2. us[n] = ts[n] \/ us[n] = ts[n + 1] BY <2>3, <2>4
      <4> QED BY <4>1, <4>2 DEF ToSet
    <3> QED BY <3>1 DEF ToSet
  <2>7. Len(us) <= Len(ts) BY <2>3, <2>4
  <2> QED BY <2>3, <2>5, <2>6, <2>7 DEF us
<1> QED BY <1>1, <1>2

LEMMA AppendFields ==
  ASSUME NEW ts \in Seq(Tab), NEW t \in Tab, \A i, j \in DOMAIN ts : ts[i].id = ts[j].id => i = j,
         \A u \in ToSet(ts) : u.id # t.id
  PROVE  LET us == Append(ts, t) IN
         /\ us \in Seq(Tab) /\ Len(us) = Len(ts) + 1
         /\ \A i, j \in DOMAIN us : us[i].id = us[j].id => i = j
         /\ ToSet(us) = ToSet(ts) \cup {t}
<1> DEFINE us == Append(ts, t)
<1>1. /\ us \in Seq(Tab) /\ Len(us) = Len(ts) + 1 /\ DOMAIN us = 1..(Len(ts) + 1)
      /\ Len(ts) \in Nat /\ DOMAIN ts = 1..Len(ts)
      /\ \A i \in 1..Len(ts) : us[i] = ts[i]
      /\ us[Len(ts) + 1] = t
  OBVIOUS
<1> HIDE DEF us
<1>2. \A i \in 1..Len(ts) : ts[i] \in ToSet(ts) BY <1>1 DEF ToSet
<1>3. \A i, j \in DOMAIN us : us[i].id = us[j].id => i = j
  <2>0. \A i \in 1..Len(ts) : ts[i].id # t.id BY <1>2
  <2> SUFFICES ASSUME NEW i \in DOMAIN us, NEW j \in DOMAIN us, us[i].id = us[j].id PROVE i = j OBVIOUS
  <2>1. CASE i \in 1..Len(ts) /\ j \in 1..Len(ts) BY <1>1, <2>1
  <2>2. CASE i = Len(ts) + 1 /\ j \in 1..Len(ts) BY <1>1, <2>0, <2>2
  <2>3. CASE i \in 1..Len(ts) /\ j = Len(ts) + 1 BY <1>1, <2>0, <2>3
  <2>4. CASE i = Len(ts) + 1 /\ j = Len(ts) + 1 BY <2>4
  <2> QED BY <1>1, <2>1, <2>2, <2>3, <2>4
<1>4. ToSet(us) = ToSet(ts) \cup {t}
  <2>1. \A i \in DOMAIN us : us[i] \in ToSet(ts) \cup {t} BY <1>1, <1>2
  <2>2. \A i \in DOMAIN ts : ts[i] \in ToSet(us) BY <1>1 DEF ToSet
  <2>3. t \in ToSet(us) BY <1>1 DEF ToSet
  <2> QED BY <2>1, <2>2, <2>3 DEF ToSet
<1> QED BY <1>1, <1>3, <1>4 DEF us

-----------------------------------------------------------------------------
(* Ids.                                                                    *)

\* The kinds of id.
LEMMA IdFacts ==
  /\ \A n : IsQuery(QueryId(n)) /\ ~IsTable(QueryId(n)) /\ ~IsConsole(QueryId(n)) /\ QueryId(n)[2] = n
  /\ \A n : IsConsole(ConsoleId(n)) /\ ~IsTable(ConsoleId(n)) /\ ~IsQuery(ConsoleId(n)) /\ ConsoleId(n)[2] = n
  /\ \A n : IsTable(TableId(n)) /\ ~IsQuery(TableId(n)) /\ ~IsConsole(TableId(n)) /\ TableId(n)[2] = n
  /\ \A n : ~IsTable(KeyId(n)) /\ ~IsQuery(KeyId(n)) /\ ~IsConsole(KeyId(n))
  /\ ~IsTable(Home) /\ ~IsQuery(Home) /\ ~IsConsole(Home)
  BY DEF QueryId, ConsoleId, TableId, KeyId, Home, IsQuery, IsTable, IsConsole

LEMMA IdTypes ==
  /\ \A n \in 1..MaxQueryTabs : QueryId(n) \in Ids
  /\ \A n \in 2..(2 + MaxQueryTabs) : ConsoleId(n) \in Ids
  /\ \A t \in Tables : TableId(t) \in Ids
  /\ \A k \in Keys : KeyId(k) \in Ids
  /\ Home \in Ids
  BY DEF Ids

LEMMA TableIds == ASSUME NEW id \in Ids, IsTable(id) PROVE id[2] \in Tables /\ TableId(id[2]) = id
<1>1. \/ \E n \in 1..MaxQueryTabs : id = QueryId(n)
      \/ \E t \in Tables : id = TableId(t)
      \/ \E k \in Keys : id = KeyId(k)
      \/ \E n \in 2..(2 + MaxQueryTabs) : id = ConsoleId(n)
      \/ id = Home
  BY DEF Ids
<1> QED BY <1>1, IdFacts

LEMMA QueryIds == ASSUME NEW id \in Ids, IsQuery(id) PROVE id[2] \in Nat
<1>1. \/ \E n \in 1..MaxQueryTabs : id = QueryId(n)
      \/ \E t \in Tables : id = TableId(t)
      \/ \E k \in Keys : id = KeyId(k)
      \/ \E n \in 2..(2 + MaxQueryTabs) : id = ConsoleId(n)
      \/ id = Home
  BY DEF Ids
<1> QED BY <1>1, IdFacts

LEMMA NewTabFields ==
  ASSUME NEW id \in Ids, NEW b \in BOOLEAN
  PROVE  LET t == [NewTab(id, Guide) EXCEPT !.crossed = b] IN
         /\ t \in Tab /\ t.id = id /\ t.status = "idle" /\ t.result = None /\ t.queryId = None
         /\ t.last = None /\ t.crossed = b
         /\ b = FALSE => t = NewTab(id, Guide)
<1>1. NewTab(id, Guide) = [id |-> id, status |-> "idle", sql |-> Guide, result |-> None,
                           queryId |-> None, last |-> None, crossed |-> FALSE]
  BY DEF NewTab
<1>2. [NewTab(id, Guide) EXCEPT !.crossed = b]
        = [id |-> id, status |-> "idle", sql |-> Guide, result |-> None,
           queryId |-> None, last |-> None, crossed |-> b]
  BY <1>1
<1> QED BY <1>1, <1>2, StatementAssumption DEF Tab

\* The tab of an id that some tab has.
LEMMA TabOfFields ==
  ASSUME NEW ts \in Seq(Tab), NEW id, Has(ts, id)
  PROVE  TabOf(ts, id) \in Tab /\ TabOf(ts, id) \in ToSet(ts) /\ TabOf(ts, id).id = id
<1>1. PICK i \in DOMAIN ts : i = CHOOSE n \in DOMAIN ts : ts[n].id = id BY DEF Has
<1>2. ts[i].id = id BY <1>1 DEF Has
<1>3. TabOf(ts, id) = ts[i] BY <1>1 DEF TabOf
<1> QED BY <1>2, <1>3 DEF ToSet

-----------------------------------------------------------------------------
(* Steps.                                                                  *)

\* The runs other than by their state stay what they are, and none begins.
Settles ==
  /\ runs' \in [Runs -> RunType]
  /\ \A r \in Runs : /\ runs'[r].tab = runs[r].tab /\ runs'[r].conn = runs[r].conn
                     /\ runs'[r].sql = runs[r].sql
                     /\ InFlight(r)' => InFlight(r)
                     /\ runs'[r].st = "unused" <=> runs[r].st = "unused"
                     /\ runs[r].st = "done" => runs'[r].st = "done"

\* u is what a step makes of the tab t.
From(t, u) ==
  /\ u \in Tab /\ u.id = t.id /\ u.last = t.last /\ u.crossed = t.crossed
  /\ u.status = "running" => t.status = "running" /\ \A r \in RunsOf(t.id) : InFlight(r)'
  /\ \/ u.result = t.result
     \/ u.result \in RunsOf(t.id) /\ runs'[u.result].st = "done"
  /\ u.queryId = t.queryId \/ u.queryId \in RunsOf(t.id)

\* A tab nothing ran for yet.
New(u) ==
  /\ u \in Tab /\ u.status = "idle" /\ u.result = None /\ u.queryId = None
  /\ ~u.crossed => RunsOf(u.id) = {}
  /\ Known(u.id)'
  /\ IsQuery(u.id) => ~Known(u.id)

LEMMA KnownStays ==
  ASSUME NEW id \in Ids, TypeOK, TypeOK', created' >= created, consoles' >= consoles, Known(id)
  PROVE  Known(id)'
<1>1. \/ \E n \in 1..MaxQueryTabs : id = QueryId(n)
      \/ \E t \in Tables : id = TableId(t)
      \/ \E k \in Keys : id = KeyId(k)
      \/ \E n \in 2..(2 + MaxQueryTabs) : id = ConsoleId(n)
      \/ id = Home
  BY DEF Ids
<1>2. IsQuery(id) \/ IsConsole(id) => id[2] \in Nat BY <1>1, IdFacts
<1>3. created \in Nat /\ created' \in Nat /\ consoles \in Nat /\ consoles' \in Nat
  BY BoundAssumption DEF TypeOK
<1> QED BY <1>2, <1>3 DEF Known, IsQuery, IsConsole

LEMMA FromGood ==
  ASSUME NEW t \in Tab, NEW u, Good(t), From(t, u), Settles, Known(t.id)',
         conn' = conn \/ conn' = None
  PROVE  Good(u)'
<1>1. \A x, r : r \in RunsOf(x)' => r \in RunsOf(x) BY DEF RunsOf, Settles, IsDrop
<1>2. u.status = "running" => RunsOf(u.id)' # {}
  <2> SUFFICES ASSUME u.status = "running" PROVE RunsOf(u.id)' # {} OBVIOUS
  <2>1. PICK r \in RunsOf(t.id) : InFlight(r)' BY DEF Good, From
  <2>2. r \in RunsOf(t.id)' BY <2>1 DEF RunsOf, Settles, IsDrop
  <2> QED BY <2>2 DEF From
<1>3. u.result # None => (runs[u.result].st = "done" /\ runs[u.result].tab = u.id)'
  <2>1. CASE u.result = t.result
    <3>1. u.result # None => u.result \in Runs BY DEF From, Tab
    <3> QED BY <2>1, <3>1 DEF Good, From, Settles
  <2>2. CASE u.result \in RunsOf(t.id) /\ runs'[u.result].st = "done"
    BY <2>2 DEF RunsOf, From, Settles
  <2> QED BY <2>1, <2>2 DEF From
<1>4. IsQuery(u.id) /\ conn' # None =>
        \A r \in Runs : runs'[r].st # "unused" /\ runs'[r].tab = u.id => runs'[r].conn = conn'
  BY DEF Good, From, Settles
<1>5. ~u.crossed => /\ RunsOf(u.id)' \subseteq {u.last}
                    /\ {u.result, u.queryId} \subseteq {None, u.last}
  BY <1>1 DEF Good, From
<1>6. Known(u.id)' BY DEF From
<1> QED BY <1>2, <1>3, <1>4, <1>5, <1>6 DEF Good

LEMMA NewGood == ASSUME NEW u, New(u), Settles, \A r \in Runs : Assigned(r) PROVE Good(u)'
<1>1. \A x, r : r \in RunsOf(x)' => r \in RunsOf(x) BY DEF RunsOf, Settles, IsDrop
<1>2. IsQuery(u.id) => \A r \in Runs : runs'[r].st # "unused" => runs'[r].tab # u.id
  BY DEF New, Settles, Assigned
<1> QED BY <1>1, <1>2 DEF Good, New

\* A mounted editor keeps what it has captured, or captures the tab that is shown.
LEMMA MountCaptures ==
  ASSUME IInv, TypeOK', tabs' \in Seq(Tab), \A t \in ToSet(tabs') : Known(t.id)',
         created' >= created, consoles' >= consoles,
         editor # None => \A t \in ToSet(tabs') : t.id = editor.tab => editor.conn = conn',
         editor' = Mount(conn', driver', tabs', active')
  PROVE  Captured'
<1> SUFFICES ASSUME editor' # None PROVE Captured' BY DEF Captured
<1>1. /\ conn' # None /\ driver' = "sql" /\ IsQuery(active') /\ Has(tabs', active')
      /\ editor' = IF editor # None THEN editor
                   ELSE [tab |-> active', sql |-> TabOf(tabs', active').sql, conn |-> conn']
  BY DEF Mount
<1>2. CASE editor # None
  <2>1. IsQuery(editor.tab) /\ Known(editor.tab) BY <1>2 DEF IInv, Captured
  <2>2. editor.tab \in Ids /\ TypeOK BY <1>2 DEF IInv, TypeOK
  <2>3. Known(editor.tab)' BY <1>1, <1>2, <2>1, <2>2, KnownStays
  <2> QED BY <1>1, <1>2, <2>1, <2>3 DEF Captured
<1>3. CASE editor = None
  <2>1. editor'.tab = active' /\ editor'.conn = conn' BY <1>1, <1>3
  <2>2. \E t \in ToSet(tabs') : t.id = active' BY <1>1 DEF Has, ToSet
  <2>3. Known(active)' BY <2>2 DEF Known, IsQuery, IsConsole
  <2> QED BY <1>1, <2>1, <2>3 DEF Captured, Known
<1> QED BY <1>2, <1>3

\* A step that begins no run: every tab it leaves is one of before, or new.
LEMMA SettlesKeeps ==
  ASSUME IInv, Settles, tabs' \in Seq(Tab), Len(tabs') <= MaxTabs, TabIdsUnique',
         \A u \in ToSet(tabs') : New(u) \/ \E t \in ToSet(tabs) : From(t, u),
         conn' \in {conn, None} \/ (conn' \in Conns /\ \A u \in ToSet(tabs') : New(u)),
         driver' \in {"sql", "redis", "mongodb"}, active' \in Ids, risk' \in Statements \cup {None},
         consoles' \in 2..(3 + MaxQueryTabs), created' \in 1..MaxQueryTabs, resets' \in 0..MaxResets,
         created' >= created, consoles' >= consoles,
         history' \in Seq(Entry), Len(history') <= MaxHistory, Entered',
         \/ editor' = Mount(conn', driver', tabs', active')
         \/ editor' = None
         \/ /\ editor' = editor /\ active' = active /\ conn' = conn /\ driver' = driver
            /\ Has(tabs, active) => Has(tabs', active)
  PROVE  IInv'
<1>a. TypeOK /\ tabs \in Seq(Tab) /\ Captured /\ \A r \in Runs : Assigned(r) BY DEF IInv
<1>b. conn' \in Conns \cup {None} BY <1>a DEF TypeOK
<1>c. DOMAIN tabs' = 1..Len(tabs') /\ \A i \in DOMAIN tabs' : tabs'[i] \in Tab OBVIOUS
<1>d. \A i \in DOMAIN history' : history'[i] \in Entry OBVIOUS
<1>1. editor' = None \/ editor' \in [tab : Ids, sql : Statements, conn : Conns]
  <2>1. CASE editor' = Mount(conn', driver', tabs', active')
    <3>1. CASE editor' = None \/ editor' = editor BY <1>a, <3>1 DEF TypeOK
    <3>2. CASE /\ conn' # None /\ Has(tabs', active')
               /\ editor' = [tab |-> active', sql |-> TabOf(tabs', active').sql, conn |-> conn']
      <4>1. TabOf(tabs', active') \in Tab BY <3>2, TabOfFields
      <4>2. TabOf(tabs', active').sql \in Statements BY <4>1 DEF Tab
      <4> QED BY <1>b, <3>2, <4>2
    <3> QED BY <2>1, <3>1, <3>2 DEF Mount
  <2>2. CASE editor' = None \/ editor' = editor BY <1>a, <2>2 DEF TypeOK
  <2> QED BY <2>1, <2>2
<1>2. TypeOK'
  <2>1. runs' \in [Runs -> RunType] BY DEF Settles
  <2> QED BY <1>1, <1>b, <1>c, <1>d, <2>1 DEF TypeOK, Tab, Entry, RunType
<1>3. ASSUME NEW u \in ToSet(tabs') PROVE Known(u.id)' /\ Good(u)'
  <2>1. CASE New(u)
    <3>1. Good(u)' BY <1>a, <2>1, NewGood
    <3> QED BY <3>1 DEF Good
  <2>2. CASE ~New(u) /\ \E t \in ToSet(tabs) : From(t, u)
    <3>1. PICK t \in ToSet(tabs) : From(t, u) BY <2>2
    <3>2. t \in Tab /\ Good(t) BY <1>a DEF IInv, ToSet
    <3>3. t.id \in Ids /\ Known(t.id) BY <3>2 DEF Tab, Good
    <3>4. Known(t.id)' BY <1>a, <1>2, <3>3, KnownStays
    <3>5. conn' \in {conn, None} BY <2>2
    <3>6. Good(u)' BY <3>1, <3>2, <3>4, <3>5, FromGood
    <3> QED BY <3>6 DEF Good
  <2> QED BY <1>3, <2>1, <2>2
<1>4. ASSUME NEW r \in Runs PROVE Assigned(r)'
  <2>1. runs[r].tab \in Ids BY <1>a DEF TypeOK
  <2>2. Assigned(r) /\ runs'[r].tab = runs[r].tab /\ runs'[r].sql = runs[r].sql
        /\ (runs'[r].st = "unused" <=> runs[r].st = "unused")
    BY <1>a DEF Settles
  <2>3. PICK id \in Ids : id = runs[r].tab BY <2>1
  <2>4. Known(id) => Known(id)' BY <1>a, <1>2, KnownStays
  <2> QED BY <2>2, <2>3, <2>4 DEF Assigned, IsDrop
<1>5. Captured'
  <2>1. editor # None => \A t \in ToSet(tabs') : t.id = editor.tab => editor.conn = conn' \/ conn' = None
    <3> SUFFICES ASSUME editor # None, NEW u \in ToSet(tabs'), u.id = editor.tab
                 PROVE  editor.conn = conn' \/ conn' = None
      OBVIOUS
    <3>1. IsQuery(editor.tab) /\ Known(editor.tab) BY <1>a DEF Captured
    <3>2. ~New(u) BY <3>1 DEF New
    <3>3. PICK t \in ToSet(tabs) : From(t, u) BY <3>2
    <3>4. t.id = editor.tab BY <3>3 DEF From
    <3> QED BY <1>a, <3>2, <3>4 DEF Captured
  <2>2. CASE editor' = None BY <2>2 DEF Captured
  <2>3. CASE editor' = Mount(conn', driver', tabs', active') /\ conn' # None
    BY <1>2, <1>3, <2>1, <2>3, MountCaptures
  <2>4. CASE editor' = Mount(conn', driver', tabs', active') /\ conn' = None
    BY <2>4 DEF Captured, Mount
  <2>5. CASE /\ editor' = editor /\ active' = active /\ conn' = conn /\ driver' = driver
             /\ Has(tabs, active) => Has(tabs', active)
             /\ editor # None
    <3>1. editor.tab \in Ids /\ Known(editor.tab) BY <1>a, <2>5 DEF Captured, TypeOK
    <3>2. PICK id \in Ids : id = editor.tab BY <3>1
    <3>3. Known(id)' BY <1>a, <1>2, <3>1, <3>2, KnownStays
    <3>4. Known(editor.tab)' BY <2>5, <3>2, <3>3
    <3> QED BY <1>a, <2>1, <2>5, <3>4 DEF Captured
  <2> QED BY <2>2, <2>3, <2>4, <2>5
<1> QED BY <1>2, <1>3, <1>4, <1>5 DEF IInv

\* The history when nothing is entered.
LEMMA HistoryStays ==
  ASSUME IInv, Settles, history' = history
  PROVE  history' \in Seq(Entry) /\ Len(history') <= MaxHistory /\ Entered'
<1>1. history \in Seq(Entry) /\ Len(history) <= MaxHistory /\ Entered BY DEF IInv, TypeOK
<1>2. \A i \in DOMAIN history : history[i].run \in Runs
  <2>1. \A i \in DOMAIN history : history[i] \in Entry BY <1>1
  <2> QED BY <2>1 DEF Entry
<1> QED BY <1>1, <1>2 DEF Entered, HistoryIsWhatRan, Settles

\* A run that ends is entered with the statement it sent, once.
LEMMA HistoryGrows ==
  ASSUME IInv, Settles, NEW r \in Runs, InFlight(r), runs'[r].st = "done",
         IF IsQuery(runs[r].tab) THEN AddHistory(runs[r].sql, r) ELSE UNCHANGED history
  PROVE  history' \in Seq(Entry) /\ Len(history') <= MaxHistory /\ Entered'
<1>a. TypeOK /\ Entered /\ Assigned(r) /\ history \in Seq(Entry) BY DEF IInv
<1>1. CASE ~IsQuery(runs[r].tab) BY <1>1, HistoryStays
<1>2. CASE IsQuery(runs[r].tab)
  <2>1. ~IsTable(runs[r].tab) BY <1>2 DEF IsQuery, IsTable
  <2>2. runs[r].sql \in Statements BY <1>a, <2>1 DEF Assigned, InFlight, IsDrop, TypeOK
  <2> DEFINE e == [sql |-> runs[r].sql, run |-> r]
             one == <<e>>
             all == one \o history
             n == IF Len(all) < MaxHistory THEN Len(all) ELSE MaxHistory
  <2>3. e \in Entry /\ e.sql = runs[r].sql /\ e.run = r BY <2>2 DEF Entry
  <2>4. history' = SubSeq(all, 1, n) BY <1>2 DEF AddHistory
  <2> HIDE DEF e
  <2>5. one \in Seq(Entry) /\ Len(one) = 1 /\ one[1] = e BY <2>3
  <2> HIDE DEF one
  <2>6. /\ all \in Seq(Entry) /\ Len(all) = 1 + Len(history) /\ all[1] = e
        /\ \A i \in 2..Len(all) : all[i] = history[i - 1]
    <3>1. /\ all \in Seq(Entry) /\ Len(all) = Len(one) + Len(history)
          /\ \A i \in 1..(Len(one) + Len(history)) :
               all[i] = IF i <= Len(one) THEN one[i] ELSE history[i - Len(one)]
      BY <1>a, <2>5, ConcatProperties
    <3> HIDE DEF all
    <3>2. Len(history) \in Nat BY <1>a
    <3> QED BY <2>5, <3>1, <3>2
  <2> HIDE DEF all
  <2>7. Len(history) \in Nat /\ MaxHistory \in Nat \ {0} BY <1>a, BoundAssumption
  <2>8. n \in 1..Len(all) /\ n <= MaxHistory BY <2>6, <2>7
  <2> HIDE DEF n
  <2>9. /\ history' \in Seq(Entry) /\ Len(history') = n /\ DOMAIN history' = 1..n
        /\ \A i \in 1..n : history'[i] = all[i]
    BY <2>4, <2>6, <2>8
  <2>10. history'[1] = e /\ \A i \in 2..n : history'[i] = history[i - 1] /\ i - 1 \in DOMAIN history
    BY <2>6, <2>7, <2>8, <2>9
  <2>11. \A i \in DOMAIN history : history[i].run # r /\ history[i].run \in Runs
    <3>1. \A i \in DOMAIN history : history[i] \in Entry BY <1>a
    <3> QED BY <1>a, <3>1 DEF Entered, InFlight, Entry
  <2>12. \A i \in DOMAIN history' : /\ runs'[history'[i].run].st = "done"
                                    /\ history'[i].sql = runs'[history'[i].run].sql
    <3> SUFFICES ASSUME NEW i \in 1..n
                 PROVE  /\ runs'[history'[i].run].st = "done"
                        /\ history'[i].sql = runs'[history'[i].run].sql
      BY <2>9
    <3>1. CASE i = 1 BY <2>3, <2>10, <3>1 DEF Settles
    <3>2. CASE i # 1
      <4>1. i \in 2..n BY <2>8, <3>2
      <4> QED BY <1>a, <2>10, <2>11, <4>1 DEF Entered, HistoryIsWhatRan, Settles
    <3> QED BY <3>1, <3>2
  <2>13. \A i, j \in DOMAIN history' : history'[i].run = history'[j].run => i = j
    <3> SUFFICES ASSUME NEW i \in 1..n, NEW j \in 1..n, history'[i].run = history'[j].run PROVE i = j
      BY <2>9
    <3>1. CASE i = 1 /\ j # 1
      <4>1. j \in 2..n BY <2>8, <3>1
      <4> QED BY <2>3, <2>10, <2>11, <3>1, <4>1
    <3>2. CASE i # 1 /\ j = 1
      <4>1. i \in 2..n BY <2>8, <3>2
      <4> QED BY <2>3, <2>10, <2>11, <3>2, <4>1
    <3>3. CASE i # 1 /\ j # 1
      <4>1. i \in 2..n /\ j \in 2..n BY <2>8, <3>3
      <4>2. i - 1 = j - 1 BY <1>a, <2>10, <4>1 DEF Entered, HistoryIsWhatRan
      <4> QED BY <2>8, <4>2
    <3> QED BY <3>1, <3>2, <3>3
  <2> QED BY <2>8, <2>9, <2>12, <2>13 DEF Entered, HistoryIsWhatRan
<1> QED BY <1>1, <1>2

\* A run begins, of a tab of ts or of one that was closed.
LEMMA BeginsWell ==
  ASSUME IInv, NEW r \in Runs, NEW ts \in Seq(Tab), NEW id \in Ids, NEW s \in Statements, NEW c \in Conns,
         Begin(r, ts, id, s, c), Len(ts) <= MaxTabs,
         \A i, j \in DOMAIN ts : ts[i].id = ts[j].id => i = j,
         \A t \in ToSet(ts) : Good(t),
         IsQuery(id) \/ IsTable(id), Known(id),
         IsQuery(id) => \A t \in ToSet(ts) : t.id = id => c = conn,
         UNCHANGED <<conn, driver, consoles, created, resets, history>>,
         active' \in Ids, risk' \in Statements \cup {None},
         editor' = None \/ (editor' = editor /\ active' = active /\ ts = tabs)
  PROVE  IInv'
<1>a. TypeOK /\ Captured /\ Entered /\ (\A q \in Runs : Assigned(q)) /\ history \in Seq(Entry) BY DEF IInv
<1>b. runs \in [Runs -> RunType] BY <1>a DEF TypeOK, RunType
<1> DEFINE new == [st |-> "start", tab |-> id, conn |-> c, sql |-> s, was |-> Home]
           b == RunsOf(id) # {}
           patch == [status |-> "running", result |-> None, queryId |-> None, last |-> r, crossed |-> b]
<1>1. /\ runs[r].st = "unused" /\ runs' = [runs EXCEPT ![r] = new] /\ tabs' = UpdateTab(ts, id, patch)
  BY DEF Begin, Free
<1>2. new \in RunType /\ new.st = "start" /\ new.tab = id /\ new.conn = c /\ new.sql = s /\ s # None
  BY IdTypes, NoneAssumption DEF RunType
<1> HIDE DEF new
<1>3. /\ runs' \in [Runs -> RunType] /\ runs'[r] = new /\ \A q \in Runs \ {r} : runs'[q] = runs[q]
  BY <1>1, <1>2, <1>b
<1>4. ASSUME NEW x, NEW q PROVE q \in RunsOf(x)' <=> q \in RunsOf(x) \/ (q = r /\ x = id)
  <2>1. CASE q = r
    <3>1. r \notin RunsOf(x) BY <1>1 DEF RunsOf, InFlight
    <3>2. r \in RunsOf(x)' <=> x = id BY <1>2, <1>3 DEF RunsOf, InFlight, IsDrop
    <3> QED BY <2>1, <3>1, <3>2
  <2>2. CASE q # r
    <3>1. q \in Runs => runs'[q] = runs[q] BY <1>3, <2>2
    <3> QED BY <2>2, <3>1 DEF RunsOf, InFlight, IsDrop
  <2> QED BY <2>1, <2>2
<1>5. b \in BOOLEAN OBVIOUS
<1>6. ASSUME NEW t \in Tab
      PROVE  /\ Merge(t, patch) \in Tab /\ Merge(t, patch).id = t.id
             /\ Merge(t, patch).result = None /\ Merge(t, patch).queryId = None
             /\ Merge(t, patch).last = r /\ Merge(t, patch).crossed = b
  <2> HIDE DEF b
  <2> QED BY <1>5, MergeBegin
<1>7. /\ tabs' \in Seq(Tab) /\ Len(tabs') = Len(ts) /\ DOMAIN tabs' = DOMAIN ts
      /\ \A i \in DOMAIN ts : tabs'[i] = IF ts[i].id # id THEN ts[i] ELSE Merge(ts[i], patch)
  <2> HIDE DEF patch
  <2> QED BY <1>1, <1>6, UpdateTabFields
<1>8. \A i \in DOMAIN ts : ts[i] \in Tab /\ ts[i] \in ToSet(ts) /\ tabs'[i].id = ts[i].id
  <2> HIDE DEF patch
  <2>1. \A i \in DOMAIN ts : ts[i] \in Tab OBVIOUS
  <2>2. \A i \in DOMAIN ts : tabs'[i].id = ts[i].id BY <1>6, <1>7, <2>1
  <2> QED BY <2>1, <2>2 DEF ToSet
<1>9. TabIdsUnique' BY <1>7, <1>8 DEF TabIdsUnique
<1>10. ASSUME NEW u \in ToSet(tabs') PROVE Good(u)'
  <2>1. PICK i \in DOMAIN ts : u = tabs'[i] BY <1>7 DEF ToSet
  <2>2. PICK t \in Tab : t = ts[i] BY <1>8
  <2>3. Good(t) /\ t \in ToSet(ts) BY <1>8, <2>2
  <2>4. Known(t.id)' BY <2>3 DEF Good, Known
  <2>5. ASSUME NEW q \in Runs, runs'[q].st # "unused", runs'[q].tab = t.id, IsQuery(t.id), conn # None
        PROVE  runs'[q].conn = conn
    <3>1. CASE q = r BY <1>2, <1>3, <2>3, <2>5, <3>1
    <3>2. CASE q # r BY <1>3, <2>3, <2>5, <3>2 DEF Good
    <3> QED BY <3>1, <3>2
  <2>6. CASE t.id # id
    <3>1. u = t BY <1>7, <2>1, <2>2, <2>6
    <3>2. \A q : q \in RunsOf(t.id)' <=> q \in RunsOf(t.id) BY <1>4, <2>6
    <3>3. t.result # None => (runs[t.result].st = "done" /\ runs[t.result].tab = t.id)'
      <4>1. t.result # None => t.result \in Runs /\ t.result # r BY <1>1, <2>3 DEF Tab, Good
      <4> QED BY <1>3, <2>3, <4>1 DEF Good
    <3> QED BY <2>3, <2>4, <2>5, <3>1, <3>2, <3>3 DEF Good
  <2>7. CASE t.id = id
    <3>1. u = Merge(t, patch) BY <1>7, <2>1, <2>2, <2>7
    <3>2. u.id = id /\ u.result = None /\ u.queryId = None /\ u.last = r /\ u.crossed = b
      BY <1>6, <2>7, <3>1
    <3>3. r \in RunsOf(id)' BY <1>4
    <3>4. ~b => RunsOf(id)' \subseteq {r} BY <1>4
    <3> HIDE DEF b
    <3> QED BY <2>4, <2>5, <2>7, <3>2, <3>3, <3>4 DEF Good
  <2> QED BY <2>6, <2>7
<1>11. ASSUME NEW q \in Runs PROVE Assigned(q)'
  <2>1. CASE q = r BY <1>2, <1>3, <2>1 DEF Assigned, IsDrop, Known
  <2>2. CASE q # r BY <1>a, <1>3, <2>2 DEF Assigned, IsDrop, Known
  <2> QED BY <2>1, <2>2
<1>12. Captured'
  <2>1. CASE editor' = None BY <2>1 DEF Captured
  <2>2. CASE editor' = editor /\ active' = active /\ ts = tabs /\ editor # None
    <3>1. /\ IsQuery(editor.tab) /\ Known(editor.tab) /\ conn # None /\ driver = "sql"
          /\ IsQuery(active) /\ Has(tabs, active)
          /\ \A t \in ToSet(tabs) : t.id = editor.tab => editor.conn = conn
      BY <1>a, <2>2 DEF Captured
    <3>2. Has(tabs', active) BY <1>7, <1>8, <2>2, <3>1 DEF Has
    <3>3. ASSUME NEW u \in ToSet(tabs'), u.id = editor.tab PROVE editor.conn = conn
      <4>1. PICK i \in DOMAIN ts : u = tabs'[i] BY <1>7 DEF ToSet
      <4> QED BY <1>8, <2>2, <3>1, <3>3, <4>1
    <3>4. Known(editor.tab)' BY <2>2, <3>1 DEF Known
    <3> QED BY <2>2, <3>1, <3>2, <3>3, <3>4 DEF Captured
  <2> QED BY <2>1, <2>2
<1>13. Entered'
  <2>1. \A i \in DOMAIN history : history[i] \in Entry BY <1>a
  <2>2. \A i \in DOMAIN history : history[i].run \in Runs \ {r} BY <1>a, <1>1, <2>1 DEF Entered, Entry
  <2> QED BY <1>a, <1>3, <2>2 DEF Entered, HistoryIsWhatRan
<1>14. TypeOK'
  <2>1. \A i \in DOMAIN tabs' : tabs'[i] \in Tab BY <1>7
  <2> QED BY <1>a, <1>3, <1>7, <2>1 DEF TypeOK, Tab, RunType
<1> QED BY <1>a, <1>7, <1>9, <1>10, <1>11, <1>12, <1>13, <1>14 DEF IInv

\* The tabs with that of a table, made when it is missing.
LEMMA WithTableFields ==
  ASSUME IInv, NEW t \in Tables
  PROVE  /\ WithTable(t) \in Seq(Tab)
         /\ \A i, j \in DOMAIN WithTable(t) : WithTable(t)[i].id = WithTable(t)[j].id => i = j
         /\ \A u \in ToSet(WithTable(t)) : Good(u)
         /\ \A u \in ToSet(WithTable(t)) :
              \/ u \in ToSet(tabs)
              \/ /\ u \in Tab /\ u.id = TableId(t) /\ u.status = "idle" /\ u.result = None
                 /\ u.queryId = None /\ (~u.crossed => RunsOf(u.id) = {})
<1>a. /\ tabs \in Seq(Tab) /\ (\A u \in ToSet(tabs) : Good(u))
      /\ \A i, j \in DOMAIN tabs : tabs[i].id = tabs[j].id => i = j
  BY DEF IInv, TabIdsUnique
<1>1. CASE Has(tabs, TableId(t)) BY <1>a, <1>1 DEF WithTable
<1>2. CASE ~Has(tabs, TableId(t))
  <2> DEFINE b == RunsOf(TableId(t)) # {}
             n == [NewTab(TableId(t), Guide) EXCEPT !.crossed = b]
  <2>1. TableId(t) \in Ids /\ ~IsQuery(TableId(t)) /\ ~IsConsole(TableId(t)) BY IdTypes, IdFacts
  <2>2. b \in BOOLEAN OBVIOUS
  <2>3. WithTable(t) = Append(tabs, n) BY <1>2 DEF WithTable
  <2>4. b <=> RunsOf(TableId(t)) # {} OBVIOUS
  <2> HIDE DEF b
  <2>5. /\ n \in Tab /\ n.id = TableId(t) /\ n.status = "idle" /\ n.result = None /\ n.queryId = None
        /\ n.last = None /\ n.crossed = b
    <3>1. PICK id \in Ids : id = TableId(t) BY <2>1
    <3>2. PICK c \in BOOLEAN : c = b BY <2>2
    <3>3. n = [NewTab(id, Guide) EXCEPT !.crossed = c] BY <3>1, <3>2
    <3> HIDE DEF n
    <3> QED BY <3>1, <3>2, <3>3, NewTabFields
  <2> HIDE DEF n
  <2>6. \A u \in ToSet(tabs) : u.id # n.id BY <1>2, <2>5 DEF ToSet, Has
  <2>7. /\ WithTable(t) \in Seq(Tab)
        /\ \A i, j \in DOMAIN WithTable(t) : WithTable(t)[i].id = WithTable(t)[j].id => i = j
        /\ ToSet(WithTable(t)) = ToSet(tabs) \cup {n}
    BY <1>a, <2>3, <2>5, <2>6, AppendFields
  <2>8. Good(n) BY <2>1, <2>4, <2>5 DEF Good, Known
  <2>9. \A u \in ToSet(WithTable(t)) : Good(u) BY <1>a, <2>7, <2>8
  <2> QED BY <2>4, <2>5, <2>7, <2>9
<1> QED BY <1>1, <1>2

-----------------------------------------------------------------------------
(* The actions.                                                            *)

\* Only the dialog changes, or nothing does.
LEMMA DialogKeeps ==
  ASSUME IInv, risk' \in Statements \cup {None},
         UNCHANGED <<conn, driver, tabs, active, editor, consoles, created, resets, runs, history>>
  PROVE  IInv'
<1>1. TypeOK' BY DEF IInv, TypeOK
<1>2. \A t : Good(t) => Good(t)' BY DEF Good, Known, RunsOf, InFlight, IsDrop
<1>3. \A r \in Runs : Assigned(r)' BY DEF IInv, Assigned, Known, IsDrop
<1>4. Captured' BY DEF IInv, Captured, Known
<1>5. Entered' BY DEF IInv, Entered, HistoryIsWhatRan
<1>6. tabs' \in Seq(Tab) /\ history' \in Seq(Entry) /\ TabIdsUnique' BY DEF IInv, TabIdsUnique
<1> QED BY <1>1, <1>2, <1>3, <1>4, <1>5, <1>6 DEF IInv

\* What the tabs of an invariant state are.
LEMMA TabFacts ==
  ASSUME IInv
  PROVE  /\ tabs \in Seq(Tab) /\ Len(tabs) <= MaxTabs
         /\ \A i, j \in DOMAIN tabs : tabs[i].id = tabs[j].id => i = j
         /\ \A t \in ToSet(tabs) : t \in Tab /\ Good(t) /\ Known(t.id) /\ t.id \in Ids
         /\ \A id : Has(tabs, id) <=> \E t \in ToSet(tabs) : t.id = id
<1>1. tabs \in Seq(Tab) /\ Len(tabs) <= MaxTabs BY DEF IInv, TypeOK
<1>2. \A i, j \in DOMAIN tabs : tabs[i].id = tabs[j].id => i = j BY DEF IInv, TabIdsUnique
<1>3. \A t \in ToSet(tabs) : t \in Tab /\ Good(t)
  <2>1. \A i \in DOMAIN tabs : tabs[i] \in Tab BY <1>1
  <2> QED BY <2>1 DEF IInv, ToSet
<1>4. \A t \in ToSet(tabs) : Known(t.id) /\ t.id \in Ids BY <1>3 DEF Good, Tab
<1>5. \A id : Has(tabs, id) <=> \E t \in ToSet(tabs) : t.id = id BY DEF Has, ToSet
<1> QED BY <1>1, <1>2, <1>3, <1>4, <1>5

\* A run of a query tab, or of one that was closed, with a statement of the editor.
LEMMA RunKeeps ==
  ASSUME IInv, NEW id \in Ids, NEW s \in Statements, NEW c \in Conns, Run(id, s, c),
         IsQuery(id), Known(id), \A t \in ToSet(tabs) : t.id = id => c = conn,
         UNCHANGED <<conn, driver, active, editor, consoles, created, resets, history>>
  PROVE  IInv'
<1>1. PICK r \in Runs : Begin(r, tabs, id, s, c) /\ risk' = None BY DEF Run
<1>2. active' \in Ids /\ risk' \in Statements \cup {None} BY <1>1 DEF IInv, TypeOK
<1>3. /\ tabs \in Seq(Tab) /\ Len(tabs) <= MaxTabs
      /\ \A i, j \in DOMAIN tabs : tabs[i].id = tabs[j].id => i = j
      /\ \A t \in ToSet(tabs) : Good(t)
  BY TabFacts
<1>4. PICK ts \in Seq(Tab) : ts = tabs BY <1>3
<1>5. /\ Begin(r, ts, id, s, c) /\ Len(ts) <= MaxTabs
      /\ \A i, j \in DOMAIN ts : ts[i].id = ts[j].id => i = j
      /\ \A t \in ToSet(ts) : Good(t)
      /\ \A t \in ToSet(ts) : t.id = id => c = conn
  BY <1>1, <1>3, <1>4
<1> QED BY <1>2, <1>4, <1>5, BeginsWell

LEMMA ExecuteKeeps == ASSUME IInv, Execute \/ Shortcut \/ Confirm \/ CancelRisk PROVE IInv'
<1>a. TypeOK /\ Captured BY DEF IInv
<1>0. ASSUME NEW id \in Ids, NEW s \in Statements, NEW c \in Conns, ExecuteText(id, s, c),
             IsQuery(id), Known(id), \A t \in ToSet(tabs) : t.id = id => c = conn,
             UNCHANGED <<conn, driver, active, editor, consoles, created, resets, history>>
      PROVE  IInv'
  <2>1. CASE risk' = s /\ UNCHANGED <<tabs, runs>> BY <1>0, <2>1, DialogKeeps
  <2>2. CASE Run(id, s, c) BY <1>0, <2>2, RunKeeps
  <2> QED BY <1>0, <2>1, <2>2 DEF ExecuteText
<1>1. ASSUME IsQuery(active), Has(tabs, active)
      PROVE  active \in Ids /\ Known(active) /\ Current.sql \in Statements
  <2>1. active \in Ids BY <1>a DEF TypeOK
  <2>2. PICK id \in Ids : id = active BY <2>1
  <2>3. Current \in Tab /\ Known(id) BY <1>1, <2>2, TabFacts, TabOfFields DEF Current
  <2> QED BY <2>2, <2>3 DEF Tab
<1>2. CASE Execute
  <2>1. /\ conn # None /\ IsQuery(active) /\ Has(tabs, active) /\ conn \in Conns
    BY <1>2, <1>a DEF Execute, Captured, TypeOK
  <2>2. PICK id \in Ids, s \in Statements, c \in Conns : id = active /\ s = Current.sql /\ c = conn
    BY <1>1, <2>1
  <2>3. Known(id) /\ IsQuery(id) /\ ExecuteText(id, s, c)
        /\ UNCHANGED <<conn, driver, active, editor, consoles, created, resets, history>>
    BY <1>1, <1>2, <2>1, <2>2 DEF Execute
  <2> QED BY <1>0, <2>2, <2>3
<1>3. CASE Shortcut
  <2>1. /\ IsQuery(editor.tab) /\ Known(editor.tab)
        /\ \A t \in ToSet(tabs) : t.id = editor.tab => editor.conn = conn
        /\ editor \in [tab : Ids, sql : Statements, conn : Conns]
    BY <1>3, <1>a DEF Shortcut, Captured, TypeOK
  <2>2. PICK id \in Ids, s \in Statements, c \in Conns : id = editor.tab /\ s = editor.sql /\ c = editor.conn
    BY <2>1
  <2>3. Known(id) /\ IsQuery(id) /\ ExecuteText(id, s, c) /\ (\A t \in ToSet(tabs) : t.id = id => c = conn)
        /\ UNCHANGED <<conn, driver, active, editor, consoles, created, resets, history>>
    BY <1>3, <2>1, <2>2 DEF Shortcut
  <2> QED BY <1>0, <2>3
<1>4. CASE Confirm
  <2>1. conn \in Conns /\ IsQuery(active) /\ Has(tabs, active) BY <1>4, <1>a DEF Confirm, TypeOK
  <2>2. PICK id \in Ids, s \in Statements, c \in Conns : id = active /\ s = Current.sql /\ c = conn
    BY <1>1, <2>1
  <2>3. Known(id) /\ IsQuery(id) /\ Run(id, s, c)
        /\ UNCHANGED <<conn, driver, active, editor, consoles, created, resets, history>>
    BY <1>1, <1>4, <2>1, <2>2 DEF Confirm
  <2> QED BY <2>2, <2>3, RunKeeps
<1>5. CASE CancelRisk BY <1>5, DialogKeeps DEF CancelRisk
<1> QED BY <1>2, <1>3, <1>4, <1>5

\* The runs of a step that begins and ends none.
LEMMA RunsStay ==
  ASSUME IInv, runs' = runs
  PROVE  Settles /\ \A t \in Tab : From(t, t)
<1>1. runs \in [Runs -> RunType] BY DEF IInv, TypeOK, RunType
<1> QED BY <1>1 DEF Settles, From, InFlight, RunsOf

\* A run goes on, or ends.
LEMMA RunSettles ==
  ASSUME IInv, NEW r \in Runs, NEW x \in {"poll", "done"}, InFlight(r),
         runs' = [runs EXCEPT ![r].st = x]
  PROVE  /\ Settles /\ runs'[r].st = x
         /\ \A q \in Runs \ {r} : InFlight(q)' <=> InFlight(q)
<1>1. runs \in [Runs -> RunType] BY DEF IInv, TypeOK, RunType
<1>2. runs[r] \in RunType BY <1>1
<1>3. /\ runs'[r] = [runs[r] EXCEPT !.st = x] /\ runs' \in [Runs -> RunType]
      /\ \A q \in Runs \ {r} : runs'[q] = runs[q]
  BY <1>1, <1>2 DEF RunType
<1>4. /\ runs'[r].st = x /\ runs'[r].tab = runs[r].tab /\ runs'[r].conn = runs[r].conn
      /\ runs'[r].sql = runs[r].sql
  BY <1>2, <1>3 DEF RunType
<1> QED BY <1>3, <1>4 DEF Settles, InFlight

\* updateTab, when every tab it may write becomes one that follows from it.
LEMMA UpdateFrom ==
  ASSUME IInv, NEW id, NEW patch, \A t \in Tab : Merge(t, patch) \in Tab /\ Merge(t, patch).id = t.id,
         \A t \in ToSet(tabs) : From(t, IF t.id # id THEN t ELSE Merge(t, patch))
  PROVE  LET us == UpdateTab(tabs, id, patch) IN
         /\ us \in Seq(Tab) /\ Len(us) <= MaxTabs
         /\ \A i, j \in DOMAIN us : us[i].id = us[j].id => i = j
         /\ \A u \in ToSet(us) : \E t \in ToSet(tabs) : From(t, u)
         /\ \A x : Has(tabs, x) <=> Has(us, x)
<1> DEFINE us == UpdateTab(tabs, id, patch)
<1>1. tabs \in Seq(Tab) /\ Len(tabs) <= MaxTabs /\ \A i, j \in DOMAIN tabs : tabs[i].id = tabs[j].id => i = j
  BY TabFacts
<1>2. /\ us \in Seq(Tab) /\ Len(us) = Len(tabs) /\ DOMAIN us = DOMAIN tabs
      /\ \A i \in DOMAIN tabs : us[i] = IF tabs[i].id # id THEN tabs[i] ELSE Merge(tabs[i], patch)
  BY <1>1, UpdateTabFields
<1> HIDE DEF us
<1>3. \A i \in DOMAIN tabs : tabs[i] \in Tab /\ tabs[i] \in ToSet(tabs) BY <1>1 DEF ToSet
<1>4. \A i \in DOMAIN tabs : us[i].id = tabs[i].id BY <1>2, <1>3
<1>5. \A u \in ToSet(us) : \E t \in ToSet(tabs) : From(t, u)
  <2> SUFFICES ASSUME NEW u \in ToSet(us) PROVE \E t \in ToSet(tabs) : From(t, u) OBVIOUS
  <2>1. PICK i \in DOMAIN tabs : u = us[i] BY <1>2 DEF ToSet
  <2>2. PICK t \in ToSet(tabs) : t = tabs[i] BY <1>3
  <2>3. u = IF t.id # id THEN t ELSE Merge(t, patch) BY <1>2, <2>1, <2>2
  <2> QED BY <2>2, <2>3
<1>6. \A x : Has(tabs, x) <=> Has(us, x) BY <1>2, <1>4 DEF Has
<1> QED BY <1>1, <1>2, <1>4, <1>5, <1>6 DEF us

\* The variables of the tabs are not the only ones a step may change: these are
\* what most steps leave alone.
Rest == UNCHANGED <<conn, driver, risk, consoles, created, resets>>

LEMMA RestFacts ==
  ASSUME IInv, Rest
  PROVE  /\ conn' = conn /\ driver' \in {"sql", "redis", "mongodb"} /\ risk' \in Statements \cup {None}
         /\ consoles' \in 2..(3 + MaxQueryTabs) /\ created' \in 1..MaxQueryTabs /\ resets' \in 0..MaxResets
         /\ created' >= created /\ consoles' >= consoles
<1>1. TypeOK BY DEF IInv
<1>2. created \in Int /\ consoles \in Int BY <1>1, BoundAssumption DEF TypeOK
<1> QED BY <1>1, <1>2 DEF Rest, TypeOK

\* Answers of the server.
LEMMA AnswerKeeps ==
  ASSUME IInv, NEW r \in Runs, Started(r) \/ Finished(r) \/ RunFails(r)
  PROVE  IInv'
<1>a. TypeOK /\ Assigned(r) BY DEF IInv
<1>b. Rest /\ active' = active /\ editor' = editor /\ active' \in Ids /\ InFlight(r)
  BY <1>a DEF Started, Finished, RunFails, Rest, InFlight, TypeOK
<1>c. \A t \in ToSet(tabs) : t \in Tab BY TabFacts
<1>d. /\ tabs \in Seq(Tab) /\ Len(tabs) <= MaxTabs
      /\ \A i, j \in DOMAIN tabs : tabs[i].id = tabs[j].id => i = j
  BY TabFacts
<1>0. ASSUME Settles, tabs' \in Seq(Tab), Len(tabs') <= MaxTabs, TabIdsUnique',
             \A u \in ToSet(tabs') : \E t \in ToSet(tabs) : From(t, u),
             Has(tabs, active) => Has(tabs', active),
             history' \in Seq(Entry), Len(history') <= MaxHistory, Entered'
      PROVE  IInv'
  <2>1. /\ conn' = conn /\ driver' \in {"sql", "redis", "mongodb"} /\ risk' \in Statements \cup {None}
        /\ consoles' \in 2..(3 + MaxQueryTabs) /\ created' \in 1..MaxQueryTabs /\ resets' \in 0..MaxResets
        /\ created' >= created /\ consoles' >= consoles /\ driver' = driver
    BY <1>b, RestFacts DEF Rest
  <2> QED BY <1>0, <1>b, <2>1, SettlesKeeps
\* updateTab of the tab id, when the run is poll or done afterwards.
<1>1. ASSUME NEW id, NEW patch, Settles, tabs' = UpdateTab(tabs, id, patch),
             \A t \in Tab : Merge(t, patch) \in Tab /\ Merge(t, patch).id = t.id,
             \A t \in ToSet(tabs) : From(t, IF t.id # id THEN t ELSE Merge(t, patch)),
             history' \in Seq(Entry), Len(history') <= MaxHistory, Entered'
      PROVE  IInv'
  <2>1. /\ tabs' \in Seq(Tab) /\ Len(tabs') <= MaxTabs
        /\ \A i, j \in DOMAIN tabs' : tabs'[i].id = tabs'[j].id => i = j
        /\ \A u \in ToSet(tabs') : \E t \in ToSet(tabs) : From(t, u)
        /\ \A x : Has(tabs, x) <=> Has(tabs', x)
    BY <1>1, UpdateFrom
  <2> QED BY <1>0, <1>1, <2>1 DEF TabIdsUnique
<1>2. CASE Started(r)
  <2>1. runs[r].st = "start" /\ runs' = [runs EXCEPT ![r].st = "poll"] /\ history' = history
    BY <1>2 DEF Started
  <2>2. Settles /\ runs'[r].st = "poll" /\ \A q \in Runs \ {r} : InFlight(q)' <=> InFlight(q)
    BY <1>b, <2>1, RunSettles
  <2>3. \A q \in Runs : InFlight(q)' <=> InFlight(q) BY <1>b, <2>2 DEF InFlight
  <2>4. history' \in Seq(Entry) /\ Len(history') <= MaxHistory /\ Entered' BY <2>1, <2>2, HistoryStays
  <2>5. \A t \in Tab : From(t, t) BY <2>3 DEF From, RunsOf
  <2>6. CASE IsDrop(r)
    <3>1. tabs' = tabs BY <1>2, <2>6 DEF Started
    <3>2. \A u \in ToSet(tabs') : \E t \in ToSet(tabs) : From(t, u) BY <1>c, <2>5, <3>1
    <3>3. tabs' \in Seq(Tab) /\ Len(tabs') <= MaxTabs /\ TabIdsUnique' BY <1>d, <3>1 DEF TabIdsUnique
    <3> QED BY <1>0, <2>2, <2>4, <3>1, <3>2, <3>3
  <2>7. CASE ~IsDrop(r)
    <3> DEFINE patch == [queryId |-> r]
    <3>1. tabs' = UpdateTab(tabs, runs[r].tab, patch) BY <1>2, <2>7 DEF Started
    <3>2. ASSUME NEW t \in Tab
          PROVE  LET u == Merge(t, patch) IN
                 /\ u \in Tab /\ u.id = t.id /\ u.status = t.status /\ u.result = t.result
                 /\ u.queryId = r /\ u.last = t.last /\ u.crossed = t.crossed
      BY MergeQuery
    <3> HIDE DEF patch
    <3>3. ASSUME NEW t \in Tab, t.id = runs[r].tab PROVE From(t, Merge(t, patch))
      <4>1. r \in RunsOf(t.id) BY <1>b, <2>7, <3>3 DEF RunsOf
      <4> QED BY <2>3, <3>2, <4>1 DEF From, RunsOf
    <3>4. \A t \in ToSet(tabs) : From(t, IF t.id # runs[r].tab THEN t ELSE Merge(t, patch))
      BY <1>c, <2>5, <3>3
    <3> QED BY <1>1, <2>2, <2>4, <3>1, <3>2, <3>4
  <2> QED BY <2>6, <2>7
<1>3. ASSUME ~Started(r), runs' = [runs EXCEPT ![r].st = "done"],
             IF IsQuery(runs[r].tab) THEN AddHistory(runs[r].sql, r) ELSE UNCHANGED history
      PROVE  /\ Settles /\ runs'[r].st = "done" /\ history' \in Seq(Entry)
             /\ Len(history') <= MaxHistory /\ Entered'
             /\ \A t \in Tab : t.id # runs[r].tab \/ IsDrop(r) => \A q \in RunsOf(t.id) : InFlight(q)'
  <2>1. Settles /\ runs'[r].st = "done" /\ \A q \in Runs \ {r} : InFlight(q)' <=> InFlight(q)
    BY <1>b, <1>3, RunSettles
  <2>2. history' \in Seq(Entry) /\ Len(history') <= MaxHistory /\ Entered'
    BY <1>b, <1>3, <2>1, HistoryGrows
  <2>3. ASSUME NEW t \in Tab, t.id # runs[r].tab \/ IsDrop(r), NEW q \in RunsOf(t.id) PROVE InFlight(q)'
    <3>1. q \in Runs /\ q # r /\ InFlight(q) BY <2>3 DEF RunsOf
    <3> QED BY <2>1, <3>1
  <2> QED BY <2>1, <2>2, <2>3
<1>4. CASE Finished(r) /\ ~Started(r)
  <2> DEFINE patch == [result |-> r, status |-> "idle"]
  <2>1. /\ ~IsDrop(r) /\ runs' = [runs EXCEPT ![r].st = "done"]
        /\ tabs' = UpdateTab(tabs, runs[r].tab, patch)
        /\ IF IsQuery(runs[r].tab) THEN AddHistory(runs[r].sql, r) ELSE UNCHANGED history
    BY <1>4 DEF Finished, End
  <2>2. /\ Settles /\ runs'[r].st = "done" /\ history' \in Seq(Entry)
        /\ Len(history') <= MaxHistory /\ Entered'
        /\ \A t \in Tab : t.id # runs[r].tab \/ IsDrop(r) => \A q \in RunsOf(t.id) : InFlight(q)'
    BY <1>3, <1>4, <2>1
  <2>3. ASSUME NEW t \in Tab
        PROVE  LET u == Merge(t, patch) IN
               /\ u \in Tab /\ u.id = t.id /\ u.status = "idle" /\ u.result = r
               /\ u.queryId = t.queryId /\ u.last = t.last /\ u.crossed = t.crossed
    BY MergeRows
  <2> HIDE DEF patch
  <2>4. ASSUME NEW t \in Tab, t.id = runs[r].tab PROVE From(t, Merge(t, patch))
    <3>1. r \in RunsOf(t.id) BY <1>b, <2>1, <2>4 DEF RunsOf
    <3> QED BY <2>2, <2>3, <3>1 DEF From
  <2>5. ASSUME NEW t \in Tab, t.id # runs[r].tab PROVE From(t, t) BY <2>2, <2>5 DEF From
  <2>6. \A t \in ToSet(tabs) : From(t, IF t.id # runs[r].tab THEN t ELSE Merge(t, patch))
    BY <1>c, <2>4, <2>5
  <2> QED BY <1>1, <2>1, <2>2, <2>3, <2>6
<1>5. CASE RunFails(r) /\ ~Started(r)
  <2> DEFINE patch == [status |-> "error"]
             id == IF IsDrop(r) THEN FirstQuery(tabs) ELSE runs[r].tab
  <2>1. /\ runs' = [runs EXCEPT ![r].st = "done"] /\ tabs' = UpdateTab(tabs, id, patch)
        /\ IF IsQuery(runs[r].tab) THEN AddHistory(runs[r].sql, r) ELSE UNCHANGED history
    BY <1>5 DEF RunFails, End
  <2>2. /\ Settles /\ runs'[r].st = "done" /\ history' \in Seq(Entry)
        /\ Len(history') <= MaxHistory /\ Entered'
        /\ \A t \in Tab : t.id # runs[r].tab \/ IsDrop(r) => \A q \in RunsOf(t.id) : InFlight(q)'
    BY <1>3, <1>5, <2>1
  <2>3. ASSUME NEW t \in Tab
        PROVE  LET u == Merge(t, patch) IN
               /\ u \in Tab /\ u.id = t.id /\ u.status = "error" /\ u.result = t.result
               /\ u.queryId = t.queryId /\ u.last = t.last /\ u.crossed = t.crossed
    BY MergeStatus
  <2> HIDE DEF patch
  <2>4. ASSUME NEW t \in Tab PROVE From(t, Merge(t, patch)) BY <2>3 DEF From
  <2>5. ASSUME NEW t \in Tab, t.id # id PROVE From(t, t) BY <2>2, <2>5 DEF From
  <2> HIDE DEF id
  <2>6. \A t \in ToSet(tabs) : From(t, IF t.id # id THEN t ELSE Merge(t, patch)) BY <1>c, <2>4, <2>5
  <2> QED BY <1>1, <2>1, <2>2, <2>3, <2>6
<1> QED BY <1>2, <1>4, <1>5

\* The tabs of a step that begins no run and closes, shows or makes some.
LEMMA ShowKeeps ==
  ASSUME IInv, Settles, Rest, NEW ts \in Seq(Tab), NEW id \in Ids, Show(ts, id), Len(ts) <= MaxTabs,
         \A i, j \in DOMAIN ts : ts[i].id = ts[j].id => i = j,
         \A u \in ToSet(ts) : New(u) \/ \E t \in ToSet(tabs) : From(t, u), history' = history
  PROVE  IInv'
<1>1. /\ conn' = conn /\ driver' \in {"sql", "redis", "mongodb"} /\ risk' \in Statements \cup {None}
      /\ consoles' \in 2..(3 + MaxQueryTabs) /\ created' \in 1..MaxQueryTabs /\ resets' \in 0..MaxResets
      /\ created' >= created /\ consoles' >= consoles /\ driver' = driver
  BY RestFacts DEF Rest
<1>2. history' \in Seq(Entry) /\ Len(history') <= MaxHistory /\ Entered' BY HistoryStays
<1>3. tabs' = ts /\ active' = id /\ editor' = Mount(conn, driver, ts, id) BY DEF Show
<1>4. TabIdsUnique' BY <1>3 DEF TabIdsUnique
<1>5. editor' = Mount(conn', driver', tabs', active') BY <1>1, <1>3 DEF Mount
<1> QED BY <1>1, <1>2, <1>3, <1>4, <1>5, SettlesKeeps

LEMMA DroppedKeeps == ASSUME IInv, NEW r \in Runs, Dropped(r) PROVE IInv'
<1>a. TypeOK BY DEF IInv
<1>c. \A t \in ToSet(tabs) : t \in Tab BY TabFacts
<1> DEFINE patch == [status |-> "idle"]
           id == FirstQuery(tabs)
           us == UpdateTab(tabs, id, patch)
           rest == Without(us, runs[r].tab)
           shown == IF runs[r].was = runs[r].tab /\ rest # <<>> THEN rest[1].id ELSE active
<1>1. /\ runs[r].st = "poll" /\ IsDrop(r) /\ runs' = [runs EXCEPT ![r].st = "done"]
      /\ Show(rest, shown) /\ Rest /\ history' = history /\ InFlight(r)
  BY DEF Dropped, End, Rest, InFlight
<1>2. Settles /\ \A q \in Runs \ {r} : InFlight(q)' <=> InFlight(q) BY <1>1, RunSettles
<1>3. ASSUME NEW t \in Tab PROVE From(t, t) BY <1>1, <1>2 DEF From, RunsOf
<1>4. ASSUME NEW t \in Tab
      PROVE  LET u == Merge(t, patch) IN
             /\ u \in Tab /\ u.id = t.id /\ u.status = "idle" /\ u.result = t.result
             /\ u.queryId = t.queryId /\ u.last = t.last /\ u.crossed = t.crossed
  BY MergeStatus
<1> HIDE DEF patch, id
<1>5. ASSUME NEW t \in Tab PROVE From(t, Merge(t, patch)) BY <1>4 DEF From
<1>6. \A t \in ToSet(tabs) : From(t, IF t.id # id THEN t ELSE Merge(t, patch)) BY <1>c, <1>3, <1>5
<1>7. /\ us \in Seq(Tab) /\ Len(us) <= MaxTabs
      /\ \A i, j \in DOMAIN us : us[i].id = us[j].id => i = j
      /\ \A u \in ToSet(us) : \E t \in ToSet(tabs) : From(t, u)
  BY <1>4, <1>6, UpdateFrom
<1> HIDE DEF us
<1>8. /\ rest \in Seq(Tab) /\ Len(rest) <= Len(us)
      /\ \A i, j \in DOMAIN rest : rest[i].id = rest[j].id => i = j
      /\ ToSet(rest) \subseteq ToSet(us)
  BY <1>7, WithoutFields
<1>9. shown \in Ids
  <2>1. active \in Ids BY <1>a DEF TypeOK
  <2>2. rest # <<>> => rest[1] \in Tab BY <1>8
  <2> HIDE DEF rest
  <2> QED BY <2>1, <2>2 DEF Tab
<1>10. Len(rest) <= MaxTabs
  <2>1. Len(rest) \in Nat /\ Len(us) \in Nat /\ MaxTabs \in Nat BY <1>7, <1>8, BoundAssumption
  <2> QED BY <1>7, <1>8, <2>1
<1> HIDE DEF rest, shown
<1> QED BY <1>1, <1>2, <1>7, <1>8, <1>9, <1>10, ShowKeeps

\* A tab of an id that no table has and that was not handed out is new.
LEMMA NewTabNew ==
  ASSUME IInv, NEW id \in Ids, ~IsTable(id), IsQuery(id) => ~Known(id), Known(id)'
  PROVE  New(NewTab(id, Guide)) /\ NewTab(id, Guide).id = id
<1>1. PICK t : t = NewTab(id, Guide) OBVIOUS
<1>2. FALSE \in BOOLEAN OBVIOUS
<1>3. /\ t \in Tab /\ t.id = id /\ t.status = "idle" /\ t.result = None /\ t.queryId = None
  BY <1>1, <1>2, NewTabFields
<1>4. RunsOf(id) = {} BY DEF IInv, Assigned, RunsOf, InFlight
<1> QED BY <1>1, <1>3, <1>4 DEF New

\* Opening tables and keys.
LEMMA OpenKeeps ==
  ASSUME IInv,
         \/ \E t \in Tables : LoadTableData(t) \/ ReloadTable(t) \/ OpenTableStructure(t)
         \/ \E k \in Keys : OpenKey(k)
  PROVE  IInv'
<1>a. TypeOK BY DEF IInv
<1>b. /\ tabs \in Seq(Tab) /\ Len(tabs) <= MaxTabs
      /\ \A i, j \in DOMAIN tabs : tabs[i].id = tabs[j].id => i = j
      /\ \A t \in ToSet(tabs) : t \in Tab /\ Good(t) /\ Known(t.id) /\ t.id \in Ids
      /\ \A id : Has(tabs, id) <=> \E t \in ToSet(tabs) : t.id = id
  BY TabFacts
<1>c. Guide \in Statements BY StatementAssumption
<1>1. ASSUME NEW t \in Tables, LoadTableData(t) PROVE IInv'
  <2>1. PICK r \in Runs : Begin(r, WithTable(t), TableId(t), Guide, conn) BY <1>1 DEF LoadTableData, Reload
  <2>2. /\ conn \in Conns /\ Len(WithTable(t)) <= MaxTabs /\ active' = TableId(t) /\ editor' = None
        /\ UNCHANGED <<conn, driver, consoles, created, resets, history>> /\ risk' \in Statements \cup {None}
    BY <1>1, <1>a DEF LoadTableData, TypeOK
  <2>3. /\ WithTable(t) \in Seq(Tab)
        /\ \A i, j \in DOMAIN WithTable(t) : WithTable(t)[i].id = WithTable(t)[j].id => i = j
        /\ \A u \in ToSet(WithTable(t)) : Good(u)
    BY WithTableFields
  <2>4. PICK ts \in Seq(Tab), id \in Ids, c \in Conns : ts = WithTable(t) /\ id = TableId(t) /\ c = conn
    BY <2>2, <2>3, IdTypes
  <2>5. IsTable(id) /\ ~IsQuery(id) /\ Known(id) BY <2>4, IdFacts DEF Known
  <2>6. /\ Begin(r, ts, id, Guide, c) /\ Len(ts) <= MaxTabs
        /\ \A i, j \in DOMAIN ts : ts[i].id = ts[j].id => i = j
        /\ \A u \in ToSet(ts) : Good(u)
        /\ active' \in Ids
    BY <2>1, <2>2, <2>3, <2>4
  <2> QED BY <1>c, <2>2, <2>5, <2>6, BeginsWell
<1>2. ASSUME NEW t \in Tables, ReloadTable(t) PROVE IInv'
  <2>1. PICK r \in Runs : Begin(r, tabs, TableId(t), Guide, conn) BY <1>2 DEF ReloadTable, Reload
  <2>2. /\ conn \in Conns /\ active' = active /\ editor' = editor /\ active' \in Ids
        /\ UNCHANGED <<conn, driver, consoles, created, resets, history>> /\ risk' \in Statements \cup {None}
    BY <1>2, <1>a DEF ReloadTable, TypeOK
  <2>3. PICK ts \in Seq(Tab), id \in Ids, c \in Conns : ts = tabs /\ id = TableId(t) /\ c = conn
    BY <1>b, <2>2, IdTypes
  <2>4. IsTable(id) /\ ~IsQuery(id) /\ Known(id) BY <2>3, IdFacts DEF Known
  <2>5. /\ Begin(r, ts, id, Guide, c) /\ Len(ts) <= MaxTabs
        /\ \A i, j \in DOMAIN ts : ts[i].id = ts[j].id => i = j
        /\ \A u \in ToSet(ts) : Good(u)
    BY <1>b, <2>1, <2>3
  <2> QED BY <1>c, <2>2, <2>3, <2>4, <2>5, BeginsWell
<1>3. ASSUME NEW t \in Tables, OpenTableStructure(t) PROVE IInv'
  <2>1. /\ Len(WithTable(t)) <= MaxTabs /\ Show(WithTable(t), TableId(t)) /\ Rest
        /\ runs' = runs /\ history' = history
    BY <1>3 DEF OpenTableStructure, Rest
  <2>2. /\ WithTable(t) \in Seq(Tab)
        /\ \A i, j \in DOMAIN WithTable(t) : WithTable(t)[i].id = WithTable(t)[j].id => i = j
        /\ \A u \in ToSet(WithTable(t)) :
              \/ u \in ToSet(tabs)
              \/ /\ u \in Tab /\ u.id = TableId(t) /\ u.status = "idle" /\ u.result = None
                 /\ u.queryId = None /\ (~u.crossed => RunsOf(u.id) = {})
    BY WithTableFields
  <2>3. TableId(t) \in Ids /\ ~IsQuery(TableId(t)) /\ ~IsConsole(TableId(t)) BY IdTypes, IdFacts
  <2>4. Settles /\ \A u \in ToSet(tabs) : From(u, u) BY <1>b, <2>1, RunsStay
  <2>5. \A u \in ToSet(WithTable(t)) : New(u) \/ \E v \in ToSet(tabs) : From(v, u)
    BY <2>2, <2>3, <2>4 DEF New, Known
  <2>6. PICK ts \in Seq(Tab), id \in Ids : ts = WithTable(t) /\ id = TableId(t) BY <2>2, <2>3
  <2>7. /\ Show(ts, id) /\ Len(ts) <= MaxTabs
        /\ \A i, j \in DOMAIN ts : ts[i].id = ts[j].id => i = j
        /\ \A u \in ToSet(ts) : New(u) \/ \E v \in ToSet(tabs) : From(v, u)
    BY <2>1, <2>2, <2>5, <2>6
  <2> QED BY <2>1, <2>4, <2>7, ShowKeeps
<1>4. ASSUME NEW k \in Keys, OpenKey(k) PROVE IInv'
  <2> DEFINE ts == IF Has(tabs, KeyId(k)) THEN tabs ELSE Append(tabs, NewTab(KeyId(k), Guide))
  <2>1. Len(ts) <= MaxTabs /\ Show(ts, KeyId(k)) /\ Rest /\ runs' = runs /\ history' = history
    BY <1>4 DEF OpenKey, Rest
  <2>2. Settles /\ \A u \in ToSet(tabs) : From(u, u) BY <1>b, <2>1, RunsStay
  <2>3. PICK id \in Ids : id = KeyId(k) BY IdTypes
  <2>4. ~IsQuery(id) /\ ~IsTable(id) /\ ~IsConsole(id) BY <2>3, IdFacts
  <2>5. Known(id)' BY <2>4 DEF Known, IsQuery, IsConsole
  <2>6. New(NewTab(id, Guide)) /\ NewTab(id, Guide).id = id BY <2>4, <2>5, NewTabNew
  <2>7. NewTab(id, Guide) \in Tab BY <2>6 DEF New
  <2>8. /\ ts \in Seq(Tab)
        /\ \A i, j \in DOMAIN ts : ts[i].id = ts[j].id => i = j
        /\ \A u \in ToSet(ts) : New(u) \/ u \in ToSet(tabs)
    <3>1. CASE Has(tabs, id) BY <1>b, <2>3, <3>1
    <3>2. CASE ~Has(tabs, id)
      <4>1. ts = Append(tabs, NewTab(id, Guide)) BY <2>3, <3>2
      <4>2. \A u \in ToSet(tabs) : u.id # NewTab(id, Guide).id BY <1>b, <2>6, <3>2
      <4>3. /\ ts \in Seq(Tab)
            /\ \A i, j \in DOMAIN ts : ts[i].id = ts[j].id => i = j
            /\ ToSet(ts) = ToSet(tabs) \cup {NewTab(id, Guide)}
        BY <1>b, <2>7, <4>1, <4>2, AppendFields
      <4> QED BY <2>6, <4>3
    <3> QED BY <3>1, <3>2
  <2> HIDE DEF ts
  <2>9. \A u \in ToSet(ts) : New(u) \/ \E v \in ToSet(tabs) : From(v, u) BY <2>2, <2>8
  <2> QED BY <2>1, <2>2, <2>3, <2>8, <2>9, ShowKeeps
<1> QED BY <1>1, <1>2, <1>3, <1>4

\* A DROP is a run that no tab waits for.
LEMMA DeleteKeeps == ASSUME IInv, NEW t \in Tables, DeleteTable(t) PROVE IInv'
<1>a. TypeOK /\ (\A q \in Runs : Assigned(q)) /\ Captured /\ Entered /\ history \in Seq(Entry) BY DEF IInv
<1>b. runs \in [Runs -> RunType] /\ active \in Ids BY <1>a DEF TypeOK, RunType
<1> DEFINE new == [st |-> "start", tab |-> TableId(t), conn |-> conn, sql |-> None, was |-> active]
<1>1. PICK r \in Runs : runs[r].st = "unused" /\ runs' = [runs EXCEPT ![r] = new] BY DEF DeleteTable, Free
<1>2. UNCHANGED <<conn, driver, tabs, active, risk, editor, consoles, created, resets, history>>
  BY DEF DeleteTable
<1>3. new \in RunType /\ new.tab = TableId(t) /\ new.sql = None
  BY <1>a, <1>b, IdTypes DEF RunType, TypeOK
<1> HIDE DEF new
<1>4. runs' \in [Runs -> RunType] /\ runs'[r] = new /\ \A q \in Runs \ {r} : runs'[q] = runs[q]
  BY <1>1, <1>3, <1>b
<1>5. ASSUME NEW x, NEW q PROVE q \in RunsOf(x)' <=> q \in RunsOf(x)
  <2>1. CASE q = r BY <1>1, <1>3, <1>4, <2>1 DEF RunsOf, InFlight, IsDrop
  <2>2. CASE q # r
    <3>1. q \in Runs => runs'[q] = runs[q] BY <1>4, <2>2
    <3> QED BY <2>2, <3>1 DEF RunsOf, InFlight, IsDrop
  <2> QED BY <2>1, <2>2
<1>6. IsTable(new.tab) /\ ~IsQuery(new.tab) /\ ~IsConsole(new.tab) BY <1>3, IdFacts
<1>7. ASSUME NEW u \in ToSet(tabs) PROVE Good(u)'
  <2>1. Good(u) /\ u \in Tab BY TabFacts
  <2>2. u.result # None => u.result \in Runs \ {r} BY <1>1, <2>1 DEF Good, Tab
  <2>3. \A q : q \in RunsOf(u.id)' <=> q \in RunsOf(u.id) BY <1>5
  <2>4. IsQuery(u.id) => \A q \in Runs : runs'[q].tab = u.id => q # r BY <1>4, <1>6
  <2> QED BY <1>2, <1>4, <2>1, <2>2, <2>3, <2>4 DEF Good, Known
<1>8. ASSUME NEW q \in Runs PROVE Assigned(q)'
  <2>1. CASE q = r BY <1>4, <1>6, <2>1 DEF Assigned, Known
  <2>2. CASE q # r BY <1>a, <1>2, <1>4, <2>2 DEF Assigned, IsDrop, Known
  <2> QED BY <2>1, <2>2
<1>9. Captured' BY <1>a, <1>2 DEF Captured, Known
<1>10. Entered'
  <2>1. \A i \in DOMAIN history : history[i] \in Entry BY <1>a
  <2>2. \A i \in DOMAIN history : history[i].run \in Runs \ {r} BY <1>a, <1>1, <2>1 DEF Entered, Entry
  <2> QED BY <1>a, <1>2, <1>4, <2>2 DEF Entered, HistoryIsWhatRan
<1>11. TypeOK' BY <1>a, <1>2, <1>4 DEF TypeOK, RunType
<1>12. tabs' \in Seq(Tab) /\ history' \in Seq(Entry) /\ TabIdsUnique' BY <1>2 DEF IInv, TabIdsUnique
<1> QED BY <1>2, <1>7, <1>8, <1>9, <1>10, <1>11, <1>12 DEF IInv

\* Clicking, showing and closing tabs, and typing.
LEMMA ClickKeeps ==
  ASSUME IInv, NEW id \in Ids, ClickTab(id) \/ KeyTab(id) \/ CloseTab(id)
  PROVE  IInv'
<1>a. TypeOK BY DEF IInv
<1>b. /\ tabs \in Seq(Tab) /\ Len(tabs) <= MaxTabs
      /\ \A i, j \in DOMAIN tabs : tabs[i].id = tabs[j].id => i = j
      /\ \A t \in ToSet(tabs) : t \in Tab /\ Good(t) /\ Known(t.id) /\ t.id \in Ids
      /\ \A x : Has(tabs, x) <=> \E t \in ToSet(tabs) : t.id = x
  BY TabFacts
<1>0. ASSUME Show(tabs, id), runs' = runs, Rest, history' = history PROVE IInv'
  <2>1. Settles /\ \A t \in Tab : From(t, t) BY <1>0, RunsStay
  <2>2. \A u \in ToSet(tabs) : New(u) \/ \E t \in ToSet(tabs) : From(t, u) BY <1>b, <2>1
  <2>3. PICK ts \in Seq(Tab) : ts = tabs BY <1>b
  <2>4. /\ Show(ts, id) /\ Len(ts) <= MaxTabs
        /\ \A i, j \in DOMAIN ts : ts[i].id = ts[j].id => i = j
        /\ \A u \in ToSet(ts) : New(u) \/ \E t \in ToSet(tabs) : From(t, u)
    BY <1>0, <1>b, <2>2, <2>3
  <2> QED BY <1>0, <2>1, <2>4, ShowKeeps
<1>1. CASE KeyTab(id) BY <1>0, <1>1 DEF KeyTab, Rest
<1>2. CASE ClickTab(id)
  <2>1. /\ active' = id /\ editor' = Mount(conn, driver, tabs, id)
        /\ UNCHANGED <<conn, driver, risk, consoles, created, resets, history>>
        /\ \/ IsTable(id) /\ conn # None /\ Reload(id[2], tabs)
           \/ UNCHANGED <<tabs, runs>>
    BY <1>2 DEF ClickTab
  <2>2. CASE UNCHANGED <<tabs, runs>>
    BY <1>0, <2>1, <2>2 DEF Show, Rest
  <2>3. CASE IsTable(id) /\ conn # None /\ Reload(id[2], tabs)
    <3>1. TableId(id[2]) = id BY <2>3, TableIds
    <3>2. PICK r \in Runs : Begin(r, tabs, id, Guide, conn) BY <2>3, <3>1 DEF Reload
    <3>3. ~IsQuery(id) /\ Known(id) BY <2>3 DEF Known, IsTable, IsQuery, IsConsole
    <3>4. editor' = None BY <2>1, <3>3 DEF Mount
    <3>5. conn \in Conns /\ risk' \in Statements \cup {None} BY <1>a, <2>1, <2>3 DEF TypeOK
    <3>6. PICK ts \in Seq(Tab), c \in Conns : ts = tabs /\ c = conn BY <1>b, <3>5
    <3>7. /\ Begin(r, ts, id, Guide, c) /\ Len(ts) <= MaxTabs
          /\ \A i, j \in DOMAIN ts : ts[i].id = ts[j].id => i = j
          /\ \A u \in ToSet(ts) : Good(u)
      BY <1>b, <3>2, <3>6
    <3>8. Guide \in Statements BY StatementAssumption
    <3> QED BY <2>1, <2>3, <3>3, <3>4, <3>5, <3>7, <3>8, BeginsWell
  <2> QED BY <2>1, <2>2, <2>3
<1>3. CASE CloseTab(id)
  <2> DEFINE i == CHOOSE n \in DOMAIN tabs : tabs[n].id = id
             next == Without(tabs, id)
             shown == IF active = id THEN next[IF i > 1 THEN i - 1 ELSE 1].id ELSE active
  <2>1. Has(tabs, id) /\ Len(tabs) > 1 /\ Show(next, shown) /\ Rest /\ runs' = runs /\ history' = history
    BY <1>3 DEF CloseTab, Rest
  <2>2. i \in 1..Len(tabs) BY <1>b, <2>1 DEF Has
  <2> HIDE DEF i
  <2>3. /\ next \in Seq(Tab) /\ Len(next) = Len(tabs) - 1
        /\ \A m, n \in DOMAIN next : next[m].id = next[n].id => m = n
        /\ ToSet(next) \subseteq ToSet(tabs)
    BY <1>b, <2>1, WithoutFields
  <2> HIDE DEF next
  <2>4. shown \in Ids
    <3>1. Len(tabs) \in Nat BY <1>b
    <3>2. (IF i > 1 THEN i - 1 ELSE 1) \in 1..Len(next) BY <2>1, <2>2, <2>3, <3>1
    <3>3. next[IF i > 1 THEN i - 1 ELSE 1] \in Tab BY <2>3, <3>2
    <3> QED BY <1>a, <3>3 DEF Tab, TypeOK
  <2>5. Len(next) <= MaxTabs
    <3>1. Len(tabs) \in Nat /\ MaxTabs \in Nat BY <1>b, BoundAssumption
    <3> QED BY <1>b, <2>3, <3>1
  <2>6. Settles /\ \A t \in Tab : From(t, t) BY <2>1, RunsStay
  <2>7. \A u \in ToSet(next) : New(u) \/ \E t \in ToSet(tabs) : From(t, u) BY <1>b, <2>3, <2>6
  <2> HIDE DEF shown
  <2> QED BY <2>1, <2>3, <2>4, <2>5, <2>6, <2>7, ShowKeeps
<1> QED BY <1>1, <1>2, <1>3

LEMMA EditKeeps == ASSUME IInv, NEW s \in Statements, Edit(s) PROVE IInv'
<1> DEFINE patch == [sql |-> s]
<1>1. /\ tabs' = UpdateTab(tabs, active, patch) /\ Rest /\ active' = active /\ editor' = editor
      /\ runs' = runs /\ history' = history /\ active' \in Ids
  BY DEF Edit, Rest, IInv, TypeOK
<1>2. ASSUME NEW t \in Tab
      PROVE  LET u == Merge(t, patch) IN
             /\ u \in Tab /\ u.id = t.id /\ u.status = t.status /\ u.result = t.result
             /\ u.queryId = t.queryId /\ u.last = t.last /\ u.crossed = t.crossed
  BY MergeSql
<1> HIDE DEF patch
<1>3. Settles /\ \A t \in Tab : From(t, t) BY <1>1, RunsStay
<1>4. ASSUME NEW t \in Tab PROVE From(t, Merge(t, patch)) BY <1>2, <1>3 DEF From
<1>5. \A t \in ToSet(tabs) : From(t, IF t.id # active THEN t ELSE Merge(t, patch)) BY <1>3, <1>4, TabFacts
<1>6. /\ tabs' \in Seq(Tab) /\ Len(tabs') <= MaxTabs
      /\ \A i, j \in DOMAIN tabs' : tabs'[i].id = tabs'[j].id => i = j
      /\ \A u \in ToSet(tabs') : \E t \in ToSet(tabs) : From(t, u)
      /\ \A x : Has(tabs, x) <=> Has(tabs', x)
  BY <1>1, <1>2, <1>5, UpdateFrom
<1>7. TabIdsUnique' BY <1>6 DEF TabIdsUnique
<1>8. /\ conn' = conn /\ driver' \in {"sql", "redis", "mongodb"} /\ risk' \in Statements \cup {None}
      /\ consoles' \in 2..(3 + MaxQueryTabs) /\ created' \in 1..MaxQueryTabs /\ resets' \in 0..MaxResets
      /\ created' >= created /\ consoles' >= consoles /\ driver' = driver
  BY <1>1, RestFacts DEF Rest
<1>9. history' \in Seq(Entry) /\ Len(history') <= MaxHistory /\ Entered' BY <1>1, <1>3, HistoryStays
<1> QED BY <1>1, <1>3, <1>6, <1>7, <1>8, <1>9, SettlesKeeps

\* New query tabs and consoles have ids that no tab, run or shortcut has had.
LEMMA MakeKeeps == ASSUME IInv, OpenQueryTab \/ OpenRedisConsole PROVE IInv'
<1>a. TypeOK BY DEF IInv
<1>b. /\ tabs \in Seq(Tab) /\ Len(tabs) <= MaxTabs
      /\ \A i, j \in DOMAIN tabs : tabs[i].id = tabs[j].id => i = j
      /\ \A t \in ToSet(tabs) : t \in Tab /\ Good(t) /\ Known(t.id) /\ t.id \in Ids
  BY TabFacts
<1>c. created \in Nat /\ consoles \in Nat /\ MaxQueryTabs \in Nat /\ created >= 1 /\ consoles >= 2
  BY <1>a, BoundAssumption DEF TypeOK
<1>1. PICK id \in Ids : /\ ~IsTable(id) /\ ~Known(id) /\ Known(id)'
                        /\ Show(Append(tabs, NewTab(id, Guide)), id)
                        /\ created' \in 1..MaxQueryTabs /\ consoles' \in 2..(3 + MaxQueryTabs)
                        /\ created' >= created /\ consoles' >= consoles
  <2>1. CASE OpenQueryTab
    <3>1. /\ created < MaxQueryTabs /\ created' = created + 1 /\ consoles' = consoles
          /\ Show(Append(tabs, NewTab(QueryId(created + 1), Guide)), QueryId(created + 1))
      BY <2>1 DEF OpenQueryTab, FreshId
    <3>2. created + 1 \in 1..MaxQueryTabs BY <1>c, <3>1
    <3>3. PICK id \in Ids : id = QueryId(created + 1) BY <3>2, IdTypes
    <3>4. IsQuery(id) /\ ~IsTable(id) /\ ~IsConsole(id) /\ id[2] = created + 1 BY <3>3, IdFacts
    <3>5. ~Known(id) /\ Known(id)' BY <1>c, <3>1, <3>4 DEF Known, IsConsole, IsQuery
    <3> QED BY <1>a, <1>c, <3>1, <3>2, <3>3, <3>4, <3>5 DEF TypeOK
  <2>2. CASE OpenRedisConsole
    <3>1. /\ consoles < 2 + MaxQueryTabs /\ consoles' = consoles + 1 /\ created' = created
          /\ Show(Append(tabs, NewTab(ConsoleId(consoles), Guide)), ConsoleId(consoles))
      BY <2>2 DEF OpenRedisConsole
    <3>2. consoles \in 2..(2 + MaxQueryTabs) BY <1>c, <3>1
    <3>3. PICK id \in Ids : id = ConsoleId(consoles) BY <3>2, IdTypes
    <3>4. IsConsole(id) /\ ~IsTable(id) /\ ~IsQuery(id) /\ id[2] = consoles BY <3>3, IdFacts
    <3>5. ~Known(id) /\ Known(id)' BY <1>c, <3>1, <3>4 DEF Known, IsConsole, IsQuery
    <3> QED BY <1>a, <1>c, <3>1, <3>2, <3>3, <3>4, <3>5 DEF TypeOK
  <2> QED BY <2>1, <2>2
<1>2. /\ Len(tabs) < MaxTabs /\ UNCHANGED <<conn, driver, risk, resets, runs, history>>
  BY DEF OpenQueryTab, OpenRedisConsole
<1>3. New(NewTab(id, Guide)) /\ NewTab(id, Guide).id = id BY <1>1, NewTabNew
<1>4. NewTab(id, Guide) \in Tab BY <1>3 DEF New
<1>5. \A t \in ToSet(tabs) : t.id # NewTab(id, Guide).id BY <1>b, <1>1, <1>3
<1>6. tabs' = Append(tabs, NewTab(id, Guide)) /\ active' = id /\ editor' = Mount(conn, driver, tabs', id)
  BY <1>1 DEF Show
<1>7. /\ tabs' \in Seq(Tab) /\ Len(tabs') = Len(tabs) + 1
      /\ \A i, j \in DOMAIN tabs' : tabs'[i].id = tabs'[j].id => i = j
      /\ ToSet(tabs') = ToSet(tabs) \cup {NewTab(id, Guide)}
  BY <1>b, <1>4, <1>5, <1>6, AppendFields
<1>8. Len(tabs') <= MaxTabs /\ TabIdsUnique'
  <2>1. Len(tabs) \in Nat /\ MaxTabs \in Nat BY <1>b, BoundAssumption
  <2> QED BY <1>2, <1>7, <2>1 DEF TabIdsUnique
<1>9. Settles /\ \A t \in Tab : From(t, t) BY <1>2, RunsStay
<1>10. \A u \in ToSet(tabs') : New(u) \/ \E t \in ToSet(tabs) : From(t, u) BY <1>b, <1>3, <1>7, <1>9
<1>11. history' \in Seq(Entry) /\ Len(history') <= MaxHistory /\ Entered' BY <1>2, <1>9, HistoryStays
<1>12. /\ editor' = Mount(conn', driver', tabs', active') /\ conn' \in {conn, None} /\ active' \in Ids
  BY <1>2, <1>6 DEF Mount
<1>13. /\ driver' \in {"sql", "redis", "mongodb"} /\ risk' \in Statements \cup {None}
       /\ resets' \in 0..MaxResets
  BY <1>a, <1>2 DEF TypeOK
<1> QED BY <1>1, <1>7, <1>8, <1>9, <1>10, <1>11, <1>12, <1>13, SettlesKeeps

\* A reset leaves one tab, which is new; a lost connection only an error.
LEMMA ResetKeeps ==
  ASSUME IInv, NEW c \in Conns, NEW dr \in {"sql", "redis", "mongodb"}, ResetWorkspace(c, dr)
  PROVE  IInv'
<1>a. TypeOK BY DEF IInv
<1>c. /\ created \in Nat /\ consoles \in Nat /\ MaxQueryTabs \in Nat /\ created >= 1 /\ consoles >= 2
      /\ resets \in Nat /\ MaxResets \in Nat /\ MaxTabs \in Nat \ {0}
  BY <1>a, BoundAssumption DEF TypeOK
<1>1. /\ created < MaxQueryTabs /\ consoles < 2 + MaxQueryTabs /\ resets < MaxResets
      /\ resets' = resets + 1 /\ conn' = c /\ driver' = dr /\ DefaultTab(dr) /\ active' = tabs'[1].id
      /\ editor' = Mount(c, dr, tabs', tabs'[1].id) /\ UNCHANGED <<risk, runs, history>>
  BY DEF ResetWorkspace
<1>2. PICK id \in Ids : /\ ~IsTable(id) /\ (IsQuery(id) => ~Known(id)) /\ Known(id)'
                        /\ tabs' = <<NewTab(id, Guide)>>
                        /\ created' \in 1..MaxQueryTabs /\ consoles' \in 2..(3 + MaxQueryTabs)
                        /\ created' >= created /\ consoles' >= consoles
  <2>1. CASE dr = "redis"
    <3>1. consoles' = consoles + 1 /\ tabs' = <<NewTab(ConsoleId(consoles), Guide)>> /\ created' = created
      BY <1>1, <2>1 DEF DefaultTab
    <3>2. consoles \in 2..(2 + MaxQueryTabs) BY <1>1, <1>c
    <3>3. PICK id \in Ids : id = ConsoleId(consoles) BY <3>2, IdTypes
    <3>4. IsConsole(id) /\ ~IsTable(id) /\ ~IsQuery(id) /\ id[2] = consoles BY <3>3, IdFacts
    <3>5. Known(id)' BY <1>c, <3>1, <3>4 DEF Known, IsConsole, IsQuery
    <3> QED BY <1>a, <1>c, <3>1, <3>2, <3>3, <3>4, <3>5 DEF TypeOK
  <2>2. CASE dr = "mongodb"
    <3>1. consoles' = consoles /\ tabs' = <<NewTab(Home, Guide)>> /\ created' = created
      BY <1>1, <2>2 DEF DefaultTab
    <3>2. PICK id \in Ids : id = Home BY IdTypes
    <3>3. ~IsConsole(id) /\ ~IsTable(id) /\ ~IsQuery(id) BY <3>2, IdFacts
    <3>4. Known(id)' BY <3>3 DEF Known, IsConsole, IsQuery
    <3> QED BY <1>a, <1>c, <3>1, <3>2, <3>3, <3>4 DEF TypeOK
  <2>3. CASE dr = "sql"
    <3>1. consoles' = consoles /\ tabs' = <<NewTab(QueryId(created + 1), Guide)>> /\ created' = created + 1
      BY <1>1, <2>3 DEF DefaultTab, FreshId
    <3>2. created + 1 \in 1..MaxQueryTabs BY <1>1, <1>c
    <3>3. PICK id \in Ids : id = QueryId(created + 1) BY <3>2, IdTypes
    <3>4. IsQuery(id) /\ ~IsTable(id) /\ ~IsConsole(id) /\ id[2] = created + 1 BY <3>3, IdFacts
    <3>5. ~Known(id) /\ Known(id)' BY <1>c, <3>1, <3>4 DEF Known, IsConsole, IsQuery
    <3> QED BY <1>a, <1>c, <3>1, <3>2, <3>3, <3>4, <3>5 DEF TypeOK
  <2> QED BY <2>1, <2>2, <2>3
<1>3. New(NewTab(id, Guide)) /\ NewTab(id, Guide).id = id BY <1>2, NewTabNew
<1>4. NewTab(id, Guide) \in Tab BY <1>3 DEF New
<1>5. PICK n \in Tab : n = NewTab(id, Guide) BY <1>4
<1>6. tabs' = <<n>> /\ n.id = id /\ New(n) BY <1>2, <1>3, <1>5
<1>7. tabs' \in Seq(Tab) /\ Len(tabs') = 1 /\ DOMAIN tabs' = 1..1 /\ tabs'[1] = n BY <1>6
<1>8. /\ Len(tabs') <= MaxTabs /\ TabIdsUnique' /\ (\A u \in ToSet(tabs') : New(u)) /\ active' = id
  BY <1>1, <1>6, <1>7, <1>c DEF TabIdsUnique, ToSet
<1>9. Settles BY <1>1, RunsStay
<1>10. history' \in Seq(Entry) /\ Len(history') <= MaxHistory /\ Entered' BY <1>1, <1>9, HistoryStays
<1>11. editor' = Mount(conn', driver', tabs', active') BY <1>1 DEF Mount
<1>12. risk' \in Statements \cup {None} /\ resets' \in 0..MaxResets BY <1>a, <1>1, <1>c DEF TypeOK
<1> QED BY <1>1, <1>2, <1>7, <1>8, <1>9, <1>10, <1>11, <1>12, SettlesKeeps

LEMMA LostKeeps == ASSUME IInv, ConnectionLost PROVE IInv'
<1>a. TypeOK BY DEF IInv
<1> DEFINE patch == [status |-> "error"]
           id == FirstQuery(tabs)
<1>1. /\ tabs' = UpdateTab(tabs, id, patch) /\ conn' = None /\ editor' = None
      /\ UNCHANGED <<driver, active, risk, consoles, created, resets, runs, history>>
  BY DEF ConnectionLost
<1>2. ASSUME NEW t \in Tab
      PROVE  LET u == Merge(t, patch) IN
             /\ u \in Tab /\ u.id = t.id /\ u.status = "error" /\ u.result = t.result
             /\ u.queryId = t.queryId /\ u.last = t.last /\ u.crossed = t.crossed
  BY MergeStatus
<1> HIDE DEF patch, id
<1>3. Settles /\ \A t \in Tab : From(t, t) BY <1>1, RunsStay
<1>4. ASSUME NEW t \in Tab PROVE From(t, Merge(t, patch)) BY <1>2 DEF From
<1>5. \A t \in ToSet(tabs) : From(t, IF t.id # id THEN t ELSE Merge(t, patch)) BY <1>3, <1>4, TabFacts
<1>6. /\ tabs' \in Seq(Tab) /\ Len(tabs') <= MaxTabs
      /\ \A i, j \in DOMAIN tabs' : tabs'[i].id = tabs'[j].id => i = j
      /\ \A u \in ToSet(tabs') : \E t \in ToSet(tabs) : From(t, u)
  BY <1>1, <1>2, <1>5, UpdateFrom
<1>7. TabIdsUnique' BY <1>6 DEF TabIdsUnique
<1>8. history' \in Seq(Entry) /\ Len(history') <= MaxHistory /\ Entered' BY <1>1, <1>3, HistoryStays
<1>9. /\ driver' \in {"sql", "redis", "mongodb"} /\ active' \in Ids /\ risk' \in Statements \cup {None}
      /\ consoles' \in 2..(3 + MaxQueryTabs) /\ created' \in 1..MaxQueryTabs /\ resets' \in 0..MaxResets
      /\ created' >= created /\ consoles' >= consoles
  <2>1. created \in Int /\ consoles \in Int BY <1>a, BoundAssumption DEF TypeOK
  <2> QED BY <1>a, <1>1, <2>1 DEF TypeOK
<1> QED BY <1>1, <1>3, <1>6, <1>7, <1>8, <1>9, SettlesKeeps

-----------------------------------------------------------------------------

LEMMA InitInv == Init => IInv
<1> SUFFICES ASSUME Init PROVE IInv OBVIOUS
<1>0. MaxQueryTabs \in Nat \ {0} /\ MaxResets \in Nat \ {0} /\ MaxTabs \in Nat \ {0} /\ MaxHistory \in Nat \ {0}
  BY BoundAssumption
<1>1. PICK id \in Ids : id = QueryId(1) BY <1>0, IdTypes
<1>2. IsQuery(id) /\ ~IsTable(id) /\ ~IsConsole(id) /\ id[2] = 1 BY <1>1, IdFacts
<1>3. FALSE \in BOOLEAN OBVIOUS
<1>4. PICK n : n = NewTab(id, Guide) OBVIOUS
<1>5. /\ n \in Tab /\ n.id = id /\ n.status = "idle" /\ n.result = None /\ n.queryId = None
  BY <1>3, <1>4, NewTabFields
<1>6. tabs = <<n>> /\ active = id /\ editor = [tab |-> id, sql |-> Guide, conn |-> 1] /\ history = <<>>
  BY <1>1, <1>4 DEF Init
<1>7. tabs \in Seq(Tab) /\ Len(tabs) = 1 /\ DOMAIN tabs = {1} /\ tabs[1] = n BY <1>5, <1>6
<1>8. NoRun \in RunType /\ NoRun.st = "unused" BY IdTypes DEF NoRun, RunType
<1>9. \A r \in Runs : runs[r] = NoRun /\ runs[r].st = "unused" BY <1>8 DEF Init
<1>10. runs \in [Runs -> RunType] BY <1>8 DEF Init
<1>11. history \in Seq(Entry) /\ Len(history) = 0 /\ DOMAIN history = {} BY <1>6
<1>12. TypeOK
  <2>1. 1 \in Conns BY <1>0 DEF Conns
  <2>2. editor \in [tab : Ids, sql : Statements, conn : Conns] BY <1>6, <2>1, StatementAssumption
  <2>3. /\ conn \in Conns \cup {None} /\ driver \in {"sql", "redis", "mongodb"} /\ risk \in Statements \cup {None}
        /\ consoles \in 2..(3 + MaxQueryTabs) /\ created \in 1..MaxQueryTabs /\ resets \in 0..MaxResets
    BY <1>0, <2>1 DEF Init
  <2>4. Len(tabs) <= MaxTabs /\ Len(history) <= MaxHistory BY <1>0, <1>7, <1>11
  <2> QED BY <1>5, <1>6, <1>7, <1>10, <1>11, <2>2, <2>3, <2>4 DEF TypeOK, Tab, RunType
<1>13. ToSet(tabs) = {n} BY <1>7 DEF ToSet
<1>14. \A x : RunsOf(x) = {} BY <1>9 DEF RunsOf, InFlight
<1>15. Known(id) BY <1>2 DEF Known, Init
<1>16. Good(n) BY <1>5, <1>9, <1>14, <1>15 DEF Good
<1>17. \A r \in Runs : Assigned(r) BY <1>9 DEF Assigned
<1>18. Captured
  <2>1. editor.tab = id /\ editor.conn = 1 BY <1>6
  <2>2. driver = "sql" /\ conn = 1 BY DEF Init
  <2>3. Has(tabs, active) BY <1>5, <1>6, <1>7 DEF Has
  <2>4. conn # None
    BY <2>2, NoneAssumption
  <2> QED BY <1>2, <1>6, <1>15, <2>1, <2>2, <2>3, <2>4 DEF Captured
<1>19. Entered BY <1>11 DEF Entered, HistoryIsWhatRan
<1>20. TabIdsUnique BY <1>7 DEF TabIdsUnique
<1> QED BY <1>7, <1>11, <1>12, <1>13, <1>16, <1>17, <1>18, <1>19, <1>20 DEF IInv

LEMMA NextInv == IInv /\ [Next]_vars => IInv'
<1> SUFFICES ASSUME IInv, [Next]_vars PROVE IInv' OBVIOUS
<1>a. TypeOK BY DEF IInv
<1>1. CASE Execute \/ Shortcut \/ Confirm \/ CancelRisk BY <1>1, ExecuteKeeps
<1>2. CASE \E s \in Statements : Edit(s) BY <1>2, EditKeeps
<1>3. CASE \E r \in Runs : Answer(r) BY <1>3, AnswerKeeps, DroppedKeeps DEF Answer
<1>4. CASE \/ \E t \in Tables : LoadTableData(t) \/ ReloadTable(t) \/ OpenTableStructure(t)
           \/ \E k \in Keys : OpenKey(k)
  BY <1>4, OpenKeeps
<1>5. CASE \E t \in Tables : DeleteTable(t) BY <1>5, DeleteKeeps
<1>6. CASE \E id \in Ids : ClickTab(id) \/ KeyTab(id) \/ CloseTab(id) BY <1>6, ClickKeeps
<1>7. CASE OpenQueryTab \/ OpenRedisConsole BY <1>7, MakeKeeps
<1>8. CASE conn # None /\ ResetWorkspace(conn, driver)
  <2>1. conn \in Conns /\ driver \in {"sql", "redis", "mongodb"} BY <1>8, <1>a DEF TypeOK
  <2>2. PICK c \in Conns, dr \in {"sql", "redis", "mongodb"} : c = conn /\ dr = driver BY <2>1
  <2>3. ResetWorkspace(c, dr) BY <1>8, <2>2
  <2> QED BY <2>3, ResetKeeps
<1>9. CASE resets < MaxResets /\ \E dr \in {"sql", "redis", "mongodb"} : ResetWorkspace(resets + 2, dr)
  <2>1. PICK dr \in {"sql", "redis", "mongodb"} : ResetWorkspace(resets + 2, dr) BY <1>9
  <2>2. resets + 2 \in Conns BY <1>a, <1>9, BoundAssumption DEF TypeOK, Conns
  <2>3. PICK c \in Conns : c = resets + 2 BY <2>2
  <2>4. ResetWorkspace(c, dr) BY <2>1, <2>3
  <2> QED BY <2>4, ResetKeeps
<1>10. CASE ConnectionLost BY <1>10, LostKeeps
<1>11. CASE UNCHANGED vars
  <2>1. risk' \in Statements \cup {None} BY <1>a, <1>11 DEF vars, TypeOK
  <2> QED BY <1>11, <2>1, DialogKeeps DEF vars
<1> QED BY <1>1, <1>2, <1>3, <1>4, <1>5, <1>6, <1>7, <1>8, <1>9, <1>10, <1>11 DEF Next

LEMMA Invariant == Spec => []IInv
  BY InitInv, NextInv, PTL DEF Spec

\* Type correctness: whatever is opened, closed, run, reset and answered late, the
\* tabs, the runs and the history stay in their types and within their bounds.
THEOREM TypeCorrect == Spec => []TypeOK
<1>1. IInv => TypeOK BY DEF IInv
<1> QED BY <1>1, Invariant, PTL

\* No two tabs share an id, a tab that shows a spinner has a run that will end it,
\* and a query tab shows only rows of its own statements on its own connection, for
\* any number of tabs, late answers, closed and reopened tabs and resets.
THEOREM TabsStayApart == Spec => []TabsKeepApart
<1>1. IInv => TabsKeepApart
  <2> SUFFICES ASSUME IInv PROVE TabsKeepApart OBVIOUS
  <2>1. \A i \in DOMAIN tabs : tabs[i] \in Tab /\ Good(tabs[i]) /\ tabs[i] \in ToSet(tabs)
    <3>1. \A i \in DOMAIN tabs : tabs[i] \in ToSet(tabs) BY DEF ToSet
    <3> QED BY <3>1, TabFacts
  <2>2. TabIdsUnique BY DEF IInv
  <2>3. SpinnerHasRun BY <2>1 DEF SpinnerHasRun, Good
  <2>4. OwnAnswers
    <3> SUFFICES ASSUME NEW i \in DOMAIN tabs, IsQuery(tabs[i].id), tabs[i].result # None
                 PROVE  /\ runs[tabs[i].result].tab = tabs[i].id
                        /\ conn # None => runs[tabs[i].result].conn = conn
      BY DEF OwnAnswers
    <3>1. tabs[i].result \in Runs BY <2>1 DEF Tab
    <3> QED BY <2>1, <3>1 DEF Good
  <2> QED BY <2>2, <2>3, <2>4 DEF TabsKeepApart
<1> QED BY <1>1, Invariant, PTL

\* A tab of which no two runs overlapped shows the rows of its latest run or none,
\* and its stop button stops that run.
THEOREM LatestRunShown == Spec => []LastRunShown
<1>1. IInv => LastRunShown
  <2> SUFFICES ASSUME IInv PROVE LastRunShown OBVIOUS
  <2>1. \A i \in DOMAIN tabs : Good(tabs[i])
    <3>1. \A i \in DOMAIN tabs : tabs[i] \in ToSet(tabs) BY DEF ToSet
    <3> QED BY <3>1, TabFacts
  <2> QED BY <2>1 DEF LastRunShown, Good
<1> QED BY <1>1, Invariant, PTL

\* Every entry of the history is the statement its run sent, and no run is entered
\* twice, for any length of the history and whatever was typed meanwhile.
THEOREM HistoryIsTrue == Spec => []HistoryIsWhatRan
<1>1. IInv => HistoryIsWhatRan BY DEF IInv, Entered
<1> QED BY <1>1, Invariant, PTL
=============================================================================
