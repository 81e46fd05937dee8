---------------------------- MODULE SchemaEditor ----------------------------
(***************************************************************************)
(* The structure view of a table tab (SchemaWorkspace.tsx of the web       *)
(* client): the structure is loaded, edited into a draft, previewed after  *)
(* 280 ms without a change, and saved with the token of the preview.       *)
(*                                                                         *)
(* A structure is a version; the draft is the version on the screen, and   *)
(* its operations are those that lead from the loaded version to it        *)
(* (module SchemaDraft).  The view stays mounted when the tab shows        *)
(* another table.  Of the server there are the answers of the routes for the *)
(* structure of a table (module SchemaService has them in detail).         *)
(***************************************************************************)
EXTENDS Naturals, Sequences

CONSTANTS
  Tables,
  Versions,    \* numbers; 0 is the version of every table at the start
  MaxWork,     \* clicks of the user, and calls that fail
  None

VARIABLES
  tables,      \* on the server: the version of every table
  spent,       \* on the server: the tokens that were used
  table,       \* the table the tab shows
  detail,      \* what was loaded: [table, version], or None
  shown,       \* the version on the screen
  preview,     \* [id, table, from, to], or None; the id stands for the token
  previewBusy, busy, editing,
  timer,       \* the preview that is asked for when the timer ends, or None
  request,     \* previewRequest
  previews,    \* calls of previewSchema: [ask, st]
  reads,       \* calls of load: [table, st, version, saved]
  save,        \* the call of executeSchema
  work,
  promise      \* history: what a click on save promised, or None

vars == <<tables, spent, table, detail, shown, preview, previewBusy, busy, editing, timer,
          request, previews, reads, save, work, promise>>

Answer == {"sent", "ok", "error"}
Ask == [id : 0..MaxWork, table : Tables, from : Versions, to : Versions]
NoSave == [st |-> "none", token |-> None, table |-> None]

TypeOK ==
  /\ tables \in [Tables -> Versions]
  /\ table \in Tables /\ shown \in Versions
  /\ detail = None \/ (detail.table \in Tables /\ detail.version \in Versions)
  /\ (preview = None \/ preview \in Ask) /\ (timer = None \/ timer \in Ask)
  /\ previewBusy \in BOOLEAN /\ busy \in BOOLEAN /\ editing \in BOOLEAN
  /\ request \in 0..MaxWork /\ work \in 0..MaxWork
  /\ \A p \in previews : p.ask \in Ask /\ p.st \in Answer
  /\ \A r \in reads : r.table \in Tables /\ r.st \in Answer
  /\ save.st \in {"none"} \cup Answer

\* operations is not empty.
Changed == detail # None /\ shown # detail.version

Read(t, saved) == [table |-> t, st |-> "sent", version |-> 0, saved |-> saved]

Init ==
  /\ tables = [t \in Tables |-> 0] /\ spent = {}
  /\ table = CHOOSE t \in Tables : TRUE
  /\ detail = None /\ shown = 0 /\ preview = None
  /\ previewBusy = FALSE /\ busy = TRUE /\ editing = FALSE
  /\ timer = None /\ request = 0
  /\ previews = {} /\ reads = {Read(table, FALSE)}
  /\ save = NoSave /\ work = 0 /\ promise = None

Work == work < MaxWork /\ work' = work + 1

\* The effect on detail, operations and refreshPreview: the timer that runs is
\* cleared, and a new one holds the operations and the table of this render.
\* Without operations the preview is dropped (value: what preview is otherwise).
Debounce(d, v, t, value) ==
  IF d # None /\ v # d.version
  THEN /\ timer' = [id |-> 0, table |-> t, from |-> d.version, to |-> v]
       /\ preview' = value
  ELSE /\ timer' = None
       /\ preview' = IF d = None THEN value ELSE None

-----------------------------------------------------------------------------
(* The user.                                                               *)

Change(v) ==
  /\ Work /\ editing /\ detail # None /\ v # shown
  /\ shown' = v
  /\ Debounce(detail, v, table, preview)
  /\ UNCHANGED <<tables, spent, table, detail, previewBusy, busy, editing, request, previews,
                 reads, save, promise>>

StartEditing ==
  /\ detail # None /\ ~editing
  /\ editing' = TRUE
  /\ UNCHANGED <<tables, spent, table, detail, shown, preview, previewBusy, busy, timer, request,
                 previews, reads, save, work, promise>>

Discard ==
  /\ Work /\ editing /\ Changed
  /\ shown' = detail.version /\ editing' = FALSE
  /\ Debounce(detail, detail.version, table, None)
  /\ UNCHANGED <<tables, spent, table, detail, previewBusy, busy, request, previews, reads, save, promise>>

\* The tab shows another table: load is called, and until its answer the draft of
\* the table before stays.
Move(t) ==
  /\ Work /\ t # table
  /\ table' = t /\ busy' = TRUE
  /\ reads' = reads \cup {Read(t, FALSE)}
  /\ Debounce(detail, shown, t, preview)
  /\ UNCHANGED <<tables, spent, detail, shown, previewBusy, editing, request, previews, save, promise>>

CanSave == editing /\ Changed /\ preview # None /\ ~busy /\ ~previewBusy

\* execute, after the confirmation of a dangerous change.  The click promises what is shown when the preview is that of the
\* draft, the draft that of this table, and nobody has changed the table.
Save ==
  /\ Work /\ CanSave /\ save.st = "none"
  /\ save' = [st |-> "sent", token |-> preview, table |-> table]
  /\ busy' = TRUE
  /\ promise' = IF /\ timer = None
                   /\ detail.table = table /\ tables[table] = detail.version
                THEN [table |-> table, version |-> shown] ELSE None
  /\ UNCHANGED <<tables, spent, table, detail, shown, preview, previewBusy, editing, timer, request,
                 previews, reads>>

-----------------------------------------------------------------------------
(* Callbacks.                                                              *)

\* The timer ends: refreshPreview.
AskPreview ==
  /\ timer # None /\ request < MaxWork
  /\ request' = request + 1
  /\ previewBusy' = TRUE
  /\ previews' = previews \cup {[ask |-> [timer EXCEPT !.id = request + 1], st |-> "sent"]}
  /\ timer' = None
  /\ UNCHANGED <<tables, spent, table, detail, shown, preview, busy, editing, reads, save, work, promise>>

\* Every answer is taken, not only that of the last request.
PreviewedAny(p) ==
  /\ p \in previews /\ p.st # "sent"
  /\ previews' = previews \ {p}
  /\ preview' = IF p.st = "ok" THEN p.ask ELSE None
  /\ previewBusy' = FALSE
  /\ UNCHANGED <<tables, spent, table, detail, shown, busy, editing, timer, request, reads, save, work, promise>>

\* The answer of the last request is taken, the others are dropped.
Previewed(p) ==
  /\ p \in previews /\ p.st # "sent"
  /\ previews' = previews \ {p}
  /\ IF p.ask.id = request
     THEN /\ preview' = IF p.st = "ok" THEN p.ask ELSE None
          /\ previewBusy' = FALSE
     ELSE UNCHANGED <<preview, previewBusy>>
  /\ UNCHANGED <<tables, spent, table, detail, shown, busy, editing, timer, request, reads, save, work, promise>>

\* load has answered; its caller may be execute, which then leaves the editor.
LoadedDetail(r) ==
  /\ r \in reads /\ r.st # "sent"
  /\ reads' = reads \ {r}
  /\ busy' = FALSE
  /\ editing' = (editing /\ ~r.saved)
  /\ IF r.st = "ok"
     THEN LET d == [table |-> r.table, version |-> r.version] IN
          /\ detail' = d /\ shown' = r.version
          /\ Debounce(d, r.version, table, None)
     ELSE UNCHANGED <<detail, shown, preview, timer>>
  /\ UNCHANGED <<tables, spent, table, previewBusy, request, previews, save, work, promise>>

\* execute goes on: the structure is loaded again, or the draft is kept.
Saved ==
  /\ save.st \in {"ok", "error"}
  /\ save' = NoSave /\ promise' = None
  /\ IF save.st = "ok"
     THEN reads' = reads \cup {Read(save.table, TRUE)} /\ busy' = TRUE
     ELSE UNCHANGED reads /\ busy' = FALSE
  /\ UNCHANGED <<tables, spent, table, detail, shown, preview, previewBusy, editing, timer, request,
                 previews, work>>

-----------------------------------------------------------------------------
(* The server (api/internal/schema, module SchemaService) and the network. *)

Serve ==
  /\ \/ \E p \in previews : /\ p.st = "sent"
                            /\ previews' = (previews \ {p}) \cup {[p EXCEPT !.st = "ok"]}
                            /\ UNCHANGED <<tables, spent, reads, save>>
     \/ \E r \in reads : /\ r.st = "sent"
                         /\ reads' = (reads \ {r}) \cup {[r EXCEPT !.st = "ok", !.version = tables[r.table]]}
                         /\ UNCHANGED <<tables, spent, previews, save>>
     \/ /\ save.st = "sent"
        /\ LET k == save.token IN
             IF k.id \notin spent /\ tables[k.table] = k.from /\ k.table = save.table
             THEN /\ tables' = [tables EXCEPT ![k.table] = k.to]
                  /\ spent' = spent \cup {k.id} /\ save' = [save EXCEPT !.st = "ok"]
             ELSE save' = [save EXCEPT !.st = "error"] /\ UNCHANGED <<tables, spent>>
        /\ UNCHANGED <<previews, reads>>
  /\ UNCHANGED <<table, detail, shown, preview, previewBusy, busy, editing, timer, request, work, promise>>

Fail ==
  /\ Work
  /\ \/ \E p \in previews : /\ p.st = "sent"
                            /\ previews' = (previews \ {p}) \cup {[p EXCEPT !.st = "error"]}
                            /\ UNCHANGED <<reads, save>>
     \/ \E r \in reads : /\ r.st = "sent"
                         /\ reads' = (reads \ {r}) \cup {[r EXCEPT !.st = "error"]}
                         /\ UNCHANGED <<previews, save>>
     \/ /\ save.st = "sent" /\ save' = [save EXCEPT !.st = "error"]
        /\ UNCHANGED <<previews, reads>>
  /\ UNCHANGED <<tables, spent, table, detail, shown, preview, previewBusy, busy, editing, timer,
                 request, promise>>

Callback == AskPreview \/ Saved \/ (\E p \in previews : Previewed(p)) \/ (\E r \in reads : LoadedDetail(r))

Next ==
  \/ \E v \in Versions : Change(v)
  \/ StartEditing \/ Discard \/ Save
  \/ \E t \in Tables : Move(t)
  \/ Callback \/ Serve \/ Fail

Spec == Init /\ [][Next]_vars

-----------------------------------------------------------------------------

\* Once the timer has ended and the view is not busy with it, the preview on the
\* screen is that of the draft and of the table on the screen (lines 25-55): of
\* several answers the last asked for wins, in whatever order they come.
PreviewIsOfDraft ==
  Changed /\ timer = None /\ ~previewBusy /\ preview # None =>
    /\ preview.from = detail.version /\ preview.to = shown
    /\ preview.table = table

\* A save that succeeds makes of the table what the screen showed at the click
\* (line 56), when the preview had caught up with the draft.
SaveDoesWhatWasShown ==
  promise # None /\ save.st = "ok" => tables[promise.table] = promise.version

\* The preview that can be saved is that of the draft, and the save does what it
\* says (lines 25-56), in whatever order the answers come.
SavedAsPreviewed == PreviewIsOfDraft /\ SaveDoesWhatWasShown

=============================================================================
