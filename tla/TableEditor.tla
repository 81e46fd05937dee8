---------------------------- MODULE TableEditor ----------------------------
(***************************************************************************)
(* The data view of a table tab (web/src/features/table of the web client, *)
(* with the reload of the tab in web/src/app/DatabaseWorkbench.tsx): one   *)
(* page of rows, a draft of changes that refers to the rows by their place *)
(* on the page, and its application, one call of the API per row.          *)
(*                                                                         *)
(* A row has a key and one other column.  While the rows are loaded the    *)
(* grid takes no clicks (workbench.css: pointer-events none), the buttons  *)
(* around it do.  Of the server there is what table/service.go answers to  *)
(* the calls of the page, of the network that a call may fail.             *)
(***************************************************************************)
EXTENDS Naturals, Sequences, Ordering

CONSTANTS
  PKs,         \* keys, numbers
  Vals,        \* values of the other column
  Null,        \* SQL NULL
  PageSize,
  MaxEvents,   \* clicks of the user, and calls that fail without a reason
  None

VARIABLES
  stored,      \* the table on the server: a value for every key, or None
  query,       \* page, sort order and filter of the tab
  rows,        \* the page as it was loaded
  status,
  draft,       \* TableDraft; null is the empty draft
  selected,    \* selectedRow, counted from 1, or None
  loads,       \* calls of reloadTableTab under way
  applies,     \* calls of applyDraft under way
  events,
  drawn,       \* history: the rows the changes of the draft were made on
  overlap      \* history: the last reload began while another was under way

vars == <<stored, query, rows, status, draft, selected, loads, applies, events, drawn, overlap>>

Slots == 1..2

Cells == PKs \cup Vals \cup {Null}
Record == [k : PKs \cup {Null}, v : Vals \cup {Null}]
EmptyDraft == [edited |-> <<>>, new |-> <<>>, deleted |-> <<>>]
Queries == [page : {1, 2}, desc : BOOLEAN, only : Vals \cup {None}]
NoLoad == [st |-> "none", query |-> None, data |-> <<>>]
NoApply == [st |-> "none", calls |-> <<>>, crossed |-> FALSE, rekeyed |-> FALSE,
            shown |-> None, kept |-> None]

TypeOK ==
  /\ stored \in [PKs -> Vals \cup {Null, None}]
  /\ query \in Queries
  /\ Len(rows) <= PageSize /\ \A i \in DOMAIN rows : rows[i] \in Record
  /\ status \in {"idle", "running", "error"}
  /\ DOMAIN draft.edited \subseteq 1..PageSize
  /\ \A i \in DOMAIN draft.edited : draft.edited[i] \in Record
  /\ \A i \in DOMAIN draft.new : draft.new[i] \in Record
  /\ \A i \in DOMAIN draft.deleted : draft.deleted[i] \in 1..PageSize
  /\ selected \in 1..(PageSize + MaxEvents) \cup {None}
  /\ \A s \in Slots : loads[s].st \in {"none", "sent", "ok", "error"}
                      /\ applies[s].st \in {"none", "sent", "ok", "error"}
  /\ events \in 0..MaxEvents
  /\ overlap \in BOOLEAN

\* buildTableSelectSQL, and what the server answers to it.
Select(q) ==
  LET match == InOrder({k \in PKs : stored[k] # None /\ (q.only # None => stored[k] = q.only)})
      all == [i \in 1..Len(match) |-> match[IF q.desc THEN Len(match) + 1 - i ELSE i]]
      first == (q.page - 1) * PageSize
      last == IF first + PageSize < Len(all) THEN first + PageSize ELSE Len(all)
  IN [i \in 1..(last - first) |-> [k |-> all[first + i], v |-> stored[all[first + i]]]]

Init ==
  /\ stored \in [PKs -> Vals]
  /\ query = [page |-> 1, desc |-> FALSE, only |-> None]
  /\ rows = Select(query)
  /\ status = "idle"
  /\ draft = EmptyDraft /\ selected = None
  /\ loads = [s \in Slots |-> NoLoad]
  /\ applies = [s \in Slots |-> NoApply]
  /\ events = 0
  /\ drawn = <<>> /\ overlap = FALSE

Click == events < MaxEvents /\ events' = events + 1

-----------------------------------------------------------------------------
(* What is shown, and the draft.                                           *)

\* displayRows: the rows that are not deleted, with their edits, and the new
\* ones after them; src is the place on the page, 0 for a new row.
DisplayRows ==
  LET kept == InOrder({i \in 1..Len(rows) : \A n \in DOMAIN draft.deleted : draft.deleted[n] # i})
      Shown(i) == IF i \in DOMAIN draft.edited THEN draft.edited[i] ELSE rows[i]
  IN [n \in 1..Len(kept) |-> [src |-> kept[n], rec |-> Shown(kept[n])]]
     \o [n \in 1..Len(draft.new) |-> [src |-> 0, rec |-> draft.new[n]]]

\* compactDraft: an edited row that equals the loaded one is no change.
CompactDraft(d) ==
  LET changed == {i \in DOMAIN d.edited : i <= Len(rows) /\ d.edited[i] # rows[i]}
  IN [d EXCEPT !.edited = [i \in changed |-> d.edited[i]]]

\* hasEffectiveDraftChanges.
Dirty == CompactDraft(draft) # EmptyDraft

PlacesUsed(d) == DOMAIN d.edited \cup {d.deleted[i] : i \in DOMAIN d.deleted}

\* The draft is d; what it was made on is remembered with its first place.
Draft(d) ==
  /\ draft' = d
  /\ drawn' = IF PlacesUsed(d) = {} THEN <<>> ELSE IF PlacesUsed(draft) = {} THEN rows ELSE drawn

\* updateCell on the n-th row shown; col is "k" or "v", and an empty text is NULL.
UpdateCell(n, col, value) ==
  /\ Click /\ status # "running"
  /\ n \in 1..Len(DisplayRows)
  /\ LET item == DisplayRows[n]
         at == n - (Len(DisplayRows) - Len(draft.new))
         edited == [i \in DOMAIN draft.edited \cup {item.src} |->
                      IF i = item.src THEN [item.rec EXCEPT ![col] = value] ELSE draft.edited[i]]
     IN \/ /\ item.src = 0
           /\ Draft(CompactDraft([draft EXCEPT !.new[at] = [@ EXCEPT ![col] = value]]))
        \/ /\ item.src # 0 /\ item.rec[col] # value
           /\ Draft(CompactDraft([draft EXCEPT !.edited = edited]))
  /\ UNCHANGED <<stored, query, rows, status, selected, loads, applies, overlap>>

\* The button stays enabled while the rows are loaded.
AddRow ==
  /\ Click
  /\ Draft([draft EXCEPT !.new = Append(@, [k |-> Null, v |-> Null])])
  /\ selected' = Len(DisplayRows) + 1
  /\ UNCHANGED <<stored, query, rows, status, loads, applies, overlap>>

SelectRow(n) ==
  /\ status # "running" /\ n \in 1..Len(DisplayRows) /\ n # selected /\ events < MaxEvents
  /\ selected' = n
  /\ UNCHANGED <<stored, query, rows, status, draft, loads, applies, events, drawn, overlap>>

\* A new row is taken out of the draft; a loaded one is marked, and its edits
\* are dropped.
DeleteSelectedRow ==
  /\ Click
  /\ selected # None /\ selected \in 1..Len(DisplayRows)
  /\ LET item == DisplayRows[selected]
         at == selected - (Len(DisplayRows) - Len(draft.new))
         src == item.src
     IN \/ src = 0 /\ Draft([draft EXCEPT !.new = Without(@, at)])
        \/ /\ src # 0
           /\ Draft([draft EXCEPT !.deleted = Append(@, src),
                                  !.edited = [i \in DOMAIN @ \ {src} |-> @[i]]])
  /\ selected' = None
  /\ UNCHANGED <<stored, query, rows, status, loads, applies, overlap>>

Discard ==
  /\ Click /\ Dirty
  /\ Draft(EmptyDraft)
  /\ selected' = None
  /\ UNCHANGED <<stored, query, rows, status, loads, applies, overlap>>

-----------------------------------------------------------------------------
(* Reloading the page.                                                     *)

Loading == {s \in Slots : loads[s].st # "none"}

\* The draft survives a reload.
StartReloadKeeps(q) ==
  \E s \in Slots :
    /\ loads[s].st = "none" /\ \A n \in Slots : n < s => loads[n].st # "none"
    /\ loads' = [loads EXCEPT ![s] = [st |-> "sent", query |-> q, data |-> <<>>]]
    /\ query' = q
    /\ rows' = <<>> /\ status' = "running" /\ selected' = None
    /\ overlap' = (Loading # {})
    /\ UNCHANGED <<draft, drawn>>

\* prepareTableTabReload: the page is emptied, and the draft is dropped.
StartReload(q) ==
  \E s \in Slots :
    /\ loads[s].st = "none" /\ \A n \in Slots : n < s => loads[n].st # "none"
    /\ loads' = [loads EXCEPT ![s] = [st |-> "sent", query |-> q, data |-> <<>>]]
    /\ query' = q
    /\ rows' = <<>> /\ status' = "running" /\ selected' = None
    /\ draft' = EmptyDraft /\ drawn' = <<>>
    /\ overlap' = (Loading # {})

\* The buttons of the page, the menu of a column and the refresh button wait
\* for the rows; any page can be typed, so that `next' needs no case of its own.
Turn(q) ==
  /\ Click /\ status # "running"
  /\ \/ q = query
     \/ \E d \in BOOLEAN : q = [query EXCEPT !.desc = d, !.page = 1]
     \/ \E p \in {1, 2} : q = [query EXCEPT !.page = p]
  /\ StartReload(q)
  /\ UNCHANGED <<stored, applies>>

\* The filter panel does not wait for the rows.
ApplyFilters(only) ==
  /\ Click
  /\ StartReload([query EXCEPT !.only = only, !.page = 1])
  /\ UNCHANGED <<stored, applies>>

Loaded(s) ==
  /\ loads[s].st = "ok"
  /\ rows' = loads[s].data
  /\ status' = "idle"
  /\ loads' = [loads EXCEPT ![s] = NoLoad]
  /\ UNCHANGED <<stored, query, draft, selected, applies, events, drawn, overlap>>

LoadFails(s) ==
  /\ loads[s].st = "error"
  /\ status' = "error"
  /\ loads' = [loads EXCEPT ![s] = NoLoad]
  /\ UNCHANGED <<stored, query, rows, draft, selected, applies, events, drawn, overlap>>

-----------------------------------------------------------------------------
(* Applying the draft.                                                     *)

Row(i) == IF i <= Len(rows) THEN rows[i] ELSE [k |-> Null, v |-> Null]

\* buildRowUpdate: only columns that are not keys are sent, and none if they
\* are as they were.
Updates == InOrder({i \in DOMAIN draft.edited : draft.edited[i].v # Row(i).v})

\* Updates that come after the first one are left out.
CallsOneUpdate ==
  [n \in 1..Len(draft.deleted) |-> [op |-> "delete", k |-> Row(draft.deleted[n]).k, v |-> Null]]
  \o [n \in 1..(IF Len(Updates) > 1 THEN 1 ELSE Len(Updates)) |->
        [op |-> "update", k |-> Row(Updates[n]).k, v |-> draft.edited[Updates[n]].v]]
  \o [n \in 1..Len(draft.new) |-> [op |-> "insert", k |-> draft.new[n].k, v |-> draft.new[n].v]]

\* The calls of applyDraft, in order.  A place that is no longer on the page has
\* no key, and no call with it succeeds.
Calls ==
  [n \in 1..Len(draft.deleted) |-> [op |-> "delete", k |-> Row(draft.deleted[n]).k, v |-> Null]]
  \o [n \in 1..Len(Updates) |-> [op |-> "update", k |-> Row(Updates[n]).k,
                                 v |-> draft.edited[Updates[n]].v]]
  \o [n \in 1..Len(draft.new) |-> [op |-> "insert", k |-> draft.new[n].k, v |-> draft.new[n].v]]

\* A key cell of a loaded row was edited.  It is shown and counts as a change
\* (compactDraft compares every column), but buildRowUpdate leaves it out.
Rekeyed == \E i \in DOMAIN draft.edited : draft.edited[i].k # Row(i).k

Differs(rec, row) == rec.k # row.k \/ rec.v # row.v

LastOf(shown, mine) == shown[CHOOSE n \in mine : \A m \in mine : m <= n].rec.v

\* The table as the screen shows it: a row the draft changes or adds is under the
\* key that is shown, a deleted one and the old key of a changed one are gone, and
\* every other row is as it is.
Promised ==
  [k \in PKs |->
     LET shown == DisplayRows
         mine == {n \in 1..Len(shown) :
                    /\ shown[n].rec.k = k
                    /\ shown[n].src # 0 => Differs(shown[n].rec, rows[shown[n].src])}
         gone == \/ \E i \in DOMAIN draft.deleted : Row(draft.deleted[i]).k = k
                 \/ \E i \in DOMAIN draft.edited : Row(i).k = k /\ draft.edited[i].k # k
     IN IF mine # {} THEN LastOf(shown, mine) ELSE IF gone THEN None ELSE stored[k]]

\* The same with every loaded row under the key it was loaded with.
UnderLoadedKeys ==
  [k \in PKs |->
     LET shown == DisplayRows
         mine == {n \in 1..Len(shown) :
                    IF shown[n].src = 0 THEN shown[n].rec.k = k
                    ELSE rows[shown[n].src].k = k /\ shown[n].rec.v # rows[shown[n].src].v}
     IN IF mine # {} THEN LastOf(shown, mine)
        ELSE IF \E i \in DOMAIN draft.deleted : Row(draft.deleted[i]).k = k THEN None
        ELSE stored[k]]

\* The click: rows and draft are captured, and every call waits for the one
\* before it.  A second click starts all over beside the first.
ApplyDraft ==
  /\ Click /\ Dirty
  /\ \E s \in Slots :
       /\ applies[s].st = "none" /\ \A n \in Slots : n < s => applies[n].st # "none"
       /\ LET crossed == \E n \in Slots : applies[n].st # "none"
              all == [n \in Slots |-> [applies[n] EXCEPT !.crossed = @ \/ applies[n].st # "none"]]
          IN IF Calls = <<>>
             THEN UNCHANGED applies /\ StartReload(query)
             ELSE /\ applies' = [all EXCEPT ![s] = [st |-> "sent", calls |-> Calls, crossed |-> crossed,
                                                    rekeyed |-> Rekeyed, shown |-> Promised,
                                                    kept |-> UnderLoadedKeys]]
                  /\ UNCHANGED <<query, rows, status, draft, selected, loads, drawn, overlap>>
  /\ UNCHANGED stored

ApplyGoesOn(s) ==
  /\ applies[s].st = "ok" /\ Len(applies[s].calls) > 1
  /\ applies' = [applies EXCEPT ![s].st = "sent", ![s].calls = Tail(@)]
  /\ UNCHANGED <<stored, query, rows, status, draft, selected, loads, events, drawn, overlap>>

\* After the last call the draft is dropped and the page is loaded again.
Applied(s) ==
  /\ applies[s].st = "ok" /\ Len(applies[s].calls) = 1
  /\ applies' = [applies EXCEPT ![s] = NoApply]
  /\ StartReload(query)
  /\ UNCHANGED <<stored, events>>

\* After an error the rest is not sent, and the draft stays.
ApplyFails(s) ==
  /\ applies[s].st = "error"
  /\ applies' = [applies EXCEPT ![s] = NoApply]
  /\ status' = "error"
  /\ UNCHANGED <<stored, query, rows, draft, selected, loads, events, drawn, overlap>>

-----------------------------------------------------------------------------
(* The server (BuildUpdate, BuildDelete, BuildInsert and ExecuteOne of     *)
(* table/service.go) and the network.                                      *)

Possible(c) == /\ c.k \in PKs
               /\ (c.op = "insert") = (stored[c.k] = None)

\* MySQL does not count a row an update leaves as it was, and ExecuteOne wants one
\* row: such a call may be refused.
ChangesNothing(c) == c.op = "update" /\ Possible(c) /\ stored[c.k] = c.v

Serve(s) ==
  \/ /\ loads[s].st = "sent"
     /\ loads' = [loads EXCEPT ![s].st = "ok", ![s].data = Select(loads[s].query)]
     /\ UNCHANGED <<stored, applies>>
  \/ /\ applies[s].st = "sent"
     /\ LET c == Head(applies[s].calls) IN
          \/ /\ Possible(c)
             /\ stored' = [stored EXCEPT ![c.k] = IF c.op = "delete" THEN None ELSE c.v]
             /\ applies' = [applies EXCEPT ![s].st = "ok"]
          \/ /\ ~Possible(c) \/ ChangesNothing(c)
             /\ applies' = [applies EXCEPT ![s].st = "error"] /\ UNCHANGED stored
     /\ UNCHANGED loads

\* The network fails, or the user stops the query that loads the page.
Fault(s) ==
  /\ Click
  /\ \/ loads[s].st = "sent" /\ loads' = [loads EXCEPT ![s].st = "error"] /\ UNCHANGED applies
     \/ applies[s].st \in {"sent", "ok"} /\ applies' = [applies EXCEPT ![s].st = "error"]
        /\ UNCHANGED loads

ServerStep ==
  /\ \E s \in Slots : (Serve(s) /\ UNCHANGED events) \/ (Fault(s) /\ UNCHANGED stored)
  /\ UNCHANGED <<query, rows, status, draft, selected, drawn, overlap>>

Next ==
  \/ \E n \in 1..(PageSize + MaxEvents) :
       \/ \E k \in PKs \cup {Null} : UpdateCell(n, "k", k)
       \/ \E v \in Vals \cup {Null} : UpdateCell(n, "v", v)
       \/ SelectRow(n)
  \/ AddRow \/ DeleteSelectedRow \/ Discard \/ ApplyDraft
  \/ \E q \in Queries : Turn(q)
  \/ \E only \in Vals \cup {None} : ApplyFilters(only)
  \/ \E s \in Slots : Loaded(s) \/ LoadFails(s) \/ ApplyGoesOn(s) \/ Applied(s) \/ ApplyFails(s)
  \/ ServerStep

Spec == Init /\ [][Next]_vars

-----------------------------------------------------------------------------

\* The changes of a draft refer to the rows they were made on, unless the last
\* reload began while another was under way (tableTabLoader.ts 34): otherwise an
\* edit of one row would be sent with the key of another.
DraftFitsRows == PlacesUsed(draft) # {} /\ ~overlap => drawn = rows

\* When the last call of an apply has succeeded, the table is what the screen showed
\* when the user clicked (TableView.tsx 93-115 and 191-206), every other row as it
\* was, unless two applies were under way together.  If the key cell of a loaded row
\* was edited the screen shows more than is sent (tableMutations.ts 54): then the
\* other cells of that row are under the key it was loaded with, the key that was
\* typed is lost, and nothing else is touched.
AppliedIsWhatWasShown ==
  \A s \in Slots :
    LET a == applies[s] IN
      a.st = "ok" /\ Len(a.calls) = 1 /\ ~a.crossed =>
        stored = a.kept /\ (~a.rekeyed => stored = a.shown)

=============================================================================
