---------------------------- MODULE SchemaDraft ----------------------------
(***************************************************************************)
(* The draft of the structure editor of the web client                     *)
(* (web/src/features/schema: schemaDraft.ts, indexOps.ts, IndexDialog.tsx  *)
(* and the handlers of SchemaWorkspace.tsx): the user edits the columns    *)
(* and the indexes on the screen, and the client turns the draft into a    *)
(* list of operations that the server runs in that order.                  *)
(*                                                                         *)
(* The field `type' stands for what alter_column sends (type, nullable,    *)
(* default).  What an operation does to a table is the database's.         *)
(***************************************************************************)
EXTENDS Naturals, Sequences, FiniteSets, Ordering

CONSTANTS
  LoadedNames,      \* the names of the columns the table was loaded with
  Names,       \* names the user may type for a column
  Types, Comments,
  BaseIndexes, \* the names of the indexes the table was loaded with
  IndexNames,
  MaxEdits,
  None

VARIABLES
  columns,     \* DraftColumn[]; orig is originalName, None for a new column
  extra,       \* the operations on indexes
  edits,
  clash        \* history: an index was given the name of another one on the list

vars == <<columns, extra, edits, clash>>

-----------------------------------------------------------------------------
(* The table as it was loaded (detail): its first column is the key.       *)

\* The columns in the order of the table; the name given to a new column.
Order == CHOOSE s \in [1..Cardinality(LoadedNames) -> LoadedNames] :
           \A i, j \in DOMAIN s : s[i] = s[j] => i = j
Before == [i \in DOMAIN Order |-> [name |-> Order[i], type |-> CHOOSE t \in Types : TRUE,
                                  comment |-> CHOOSE m \in Comments : TRUE, primary |-> i = 1]]
NewName(n) == <<"new_column", n>>
Base == {[name |-> n, unique |-> FALSE] : n \in BaseIndexes}
Index == [name : IndexNames, unique : BOOLEAN]
ColumnName == LoadedNames \cup Names \cup ({"new_column"} \X Nat)
Column == [name : ColumnName, type : Types, comment : Comments, primary : BOOLEAN]
DraftColumn == [name : ColumnName, type : Types, comment : Comments, primary : BOOLEAN,
                orig : LoadedNames \cup {None}]

TypeOK ==
  /\ \A i \in DOMAIN columns : columns[i] \in DraftColumn
  /\ \A i, j \in DOMAIN columns : columns[i].primary /\ columns[j].primary => i = j
  /\ \A i \in DOMAIN extra : extra[i].kind \in {"add", "drop"} /\ extra[i].index \in Index
  /\ edits \in 0..MaxEdits /\ clash \in BOOLEAN

AsLoaded == [i \in 1..Len(Before) |->
  [name |-> Before[i].name, type |-> Before[i].type, comment |-> Before[i].comment,
   primary |-> Before[i].primary, orig |-> Before[i].name]]

Init == columns = AsLoaded /\ extra = <<>> /\ edits = 0 /\ clash = FALSE

Edit == edits < MaxEdits /\ edits' = edits + 1

-----------------------------------------------------------------------------
(* Columns.                                                                *)

\* change: a new primary key takes the tick from the others.
Change(i, field, value) ==
  /\ Edit /\ i \in DOMAIN columns /\ columns[i][field] # value
  /\ columns' = [n \in DOMAIN columns |->
                   IF n = i THEN [columns[n] EXCEPT ![field] = value]
                   ELSE IF field = "primary" /\ value THEN [columns[n] EXCEPT !.primary = FALSE]
                   ELSE columns[n]]
  /\ UNCHANGED <<extra, clash>>

AddColumn ==
  /\ Edit
  /\ columns' = Append(columns, [name |-> NewName(Len(columns) + 1), type |-> CHOOSE t \in Types : TRUE,
                                 comment |-> CHOOSE m \in Comments : TRUE, primary |-> FALSE, orig |-> None])
  /\ UNCHANGED <<extra, clash>>

DropColumn(i) ==
  /\ Edit /\ i \in DOMAIN columns
  /\ columns' = Without(columns, i)
  /\ UNCHANGED <<extra, clash>>

Original(c) == Before[CHOOSE i \in DOMAIN Before : Before[i].name = c.orig]
FirstPrimary(cs) == IF \E i \in DOMAIN cs : cs[i].primary
                    THEN cs[CHOOSE i \in DOMAIN cs : cs[i].primary /\ \A j \in 1..(i - 1) : ~cs[j].primary].name
                    ELSE None

Op(kind, name, column) == [kind |-> kind, name |-> name, column |-> column]
When(test, op) == IF test THEN <<op>> ELSE <<>>

\* A column that was renamed is altered under its old name.
ColumnOpsOldName(c) ==
  IF c.orig = None THEN <<Op("add_column", None, c)>>
  ELSE When(c.orig # c.name, Op("rename_column", c.orig, c))
       \o When(Original(c).type # c.type, Op("alter_column", None, [c EXCEPT !.name = c.orig]))
       \o When(Original(c).comment # c.comment, Op("set_column_comment", None, c))

\* The loop of diffColumns for one column of the draft.
ColumnOps(c) ==
  IF c.orig = None THEN <<Op("add_column", None, c)>>
  ELSE When(c.orig # c.name, Op("rename_column", c.orig, c))
       \o When(Original(c).type # c.type, Op("alter_column", None, c))
       \o When(Original(c).comment # c.comment, Op("set_column_comment", None, c))

\* diffColumns(Before, columns).  The last line of the function takes a drop out
\* again when a new column has the name of the dropped one.
DiffColumns ==
  LET gone == Only(Before, {b \in DOMAIN Before : \A i \in DOMAIN columns :
                              /\ columns[i].orig # Before[b].name
                              /\ columns[i].orig = None => columns[i].name # Before[b].name})
      was == FirstPrimary(Before)
      is == FirstPrimary(columns)
  IN [i \in 1..Len(gone) |-> Op("drop_column", gone[i].name, None)]
     \o Loop(LAMBDA ops, c : ops \o ColumnOps(c), <<>>, columns)
     \o When(was # is /\ is # None, Op("set_primary", is, None))
     \o When(was # is /\ is = None, Op("drop_primary", None, None))

-----------------------------------------------------------------------------
(* Indexes.                                                                *)

Drop(name) == [kind |-> "drop", index |-> [name |-> name, unique |-> FALSE]]
Add(index) == [kind |-> "add", index |-> index]
InBase(name) == \E b \in Base : b.name = name

\* The operations that are left when the drops and the adds of some names are taken out.
Keep(dropped, added) ==
  Only(extra, {i \in DOMAIN extra : /\ extra[i].kind = "drop" => extra[i].index.name \notin dropped
                                    /\ extra[i].kind = "add" => extra[i].index.name \notin added})

\* resolveIndexes; the sort for the screen is left out.
ApplyVisible(list, op) == {b \in list : b.name # op.index.name}
                          \cup (IF op.kind = "add" THEN {op.index} ELSE {})
VisibleIndexes == Loop(ApplyVisible, Base, extra)

Takes(name, other) == \E x \in VisibleIndexes : x.name = name /\ x.name # other

\* onAdd, appendAddIndex: the dialog asks for a name and does not look at the list.
AddIndex(index) ==
  /\ Edit
  /\ extra' = Keep({}, {index.name}) \o <<Add(index)>>
  /\ clash' = (clash \/ Takes(index.name, None))
  /\ UNCHANGED columns

\* onEdit, replaceIndex: a loaded index is dropped and added again.
ReplaceIndex(original, index) ==
  /\ Edit /\ \E x \in VisibleIndexes : x.name = original
  /\ extra' = Keep({original}, {original, index.name}) \o When(InBase(original), Drop(original)) \o <<Add(index)>>
  /\ clash' = (clash \/ Takes(index.name, original))
  /\ UNCHANGED columns

\* onDrop, dropIndexOps.
DropIndex(name) ==
  /\ Edit /\ \E x \in VisibleIndexes : x.name = name
  /\ extra' = Keep({name}, {name}) \o When(InBase(name), Drop(name))
  /\ UNCHANGED <<columns, clash>>

-----------------------------------------------------------------------------

Discard ==
  /\ DiffColumns # <<>> \/ extra # <<>>
  /\ columns' = AsLoaded /\ extra' = <<>> /\ clash' = FALSE
  /\ UNCHANGED edits

Next ==
  \/ \E i \in 1..(Cardinality(LoadedNames) + MaxEdits) :
       \/ \E n \in Names : Change(i, "name", n)
       \/ \E t \in Types : Change(i, "type", t)
       \/ \E m \in Comments : Change(i, "comment", m)
       \/ \E b \in BOOLEAN : Change(i, "primary", b)
       \/ DropColumn(i)
  \/ AddColumn
  \/ \E x \in Index : AddIndex(x) \/ \E n \in IndexNames : ReplaceIndex(n, x)
  \/ \E n \in IndexNames : DropIndex(n)
  \/ Discard

Spec == Init /\ [][Next]_vars

-----------------------------------------------------------------------------
(* What the server does with the operations (api/internal/schema): a table *)
(* is the set of its columns; Failed is an operation that cannot be done.  *)
(* PostgreSQL is taken; MySQL refuses set_primary and drop_primary when    *)
(* there is no key to drop (generate.go 114-139).                          *)

Failed == {None}
Has(cols, name) == \E c \in cols : c.name = name

RunColumn(cols, op) ==
  IF cols = Failed THEN Failed
  ELSE IF op.kind = "drop_column"
    THEN IF Has(cols, op.name) THEN {c \in cols : c.name # op.name} ELSE Failed
  ELSE IF op.kind = "add_column"
    THEN IF Has(cols, op.column.name) THEN Failed
         ELSE cols \cup {[name |-> op.column.name, type |-> op.column.type,
                          comment |-> op.column.comment, primary |-> FALSE]}
  ELSE IF op.kind = "rename_column"
    THEN IF ~Has(cols, op.name) \/ Has(cols, op.column.name) THEN Failed
         ELSE {IF c.name = op.name THEN [c EXCEPT !.name = op.column.name] ELSE c : c \in cols}
  ELSE IF op.kind \in {"alter_column", "set_column_comment"}
    THEN IF ~Has(cols, op.column.name) THEN Failed
         ELSE {IF c.name # op.column.name THEN c
               ELSE IF op.kind = "alter_column" THEN [c EXCEPT !.type = op.column.type]
               ELSE [c EXCEPT !.comment = op.column.comment] : c \in cols}
  ELSE {[c EXCEPT !.primary = (op.kind = "set_primary" /\ c.name = op.name)] : c \in cols}

RunIndex(list, op) ==
  IF list = Failed \/ (op.kind = "add") = (\E x \in list : x.name = op.index.name) THEN Failed
  ELSE IF op.kind = "add" THEN list \cup {op.index}
  ELSE {x \in list : x.name # op.index.name}

Shown == {[name |-> columns[i].name, type |-> columns[i].type,
           comment |-> columns[i].comment, primary |-> columns[i].primary] : i \in DOMAIN columns}

\* No two columns have a name, and none has the name another one was loaded with.
NamesFree ==
  /\ \A i, j \in DOMAIN columns : columns[i].name = columns[j].name => i = j
  /\ \A i \in DOMAIN columns, b \in DOMAIN Before :
       columns[i].name = Before[b].name => columns[i].orig = Before[b].name

\* The operations on columns, run in the order diffColumns gives them
\* (schemaDraft.ts 10-53), succeed and make the table that is on the screen, as
\* long as the names do not cross.
ColumnsBecomeShown ==
  NamesFree =>
    Loop(RunColumn, {Before[i] : i \in DOMAIN Before}, DiffColumns) = Shown

\* diffColumns compares the keys by name, and takes a new key that has the name of
\* the old one for the old one.
KeyTookName == \E i \in DOMAIN columns : /\ columns[i].primary
                                         /\ columns[i].name = FirstPrimary(Before)
                                         /\ columns[i].orig # columns[i].name

\* Whatever the names, a run that succeeds makes the table on the screen, but for
\* a key that took the name of the key: the server may refuse a draft, and makes
\* no other table of it.
ColumnsNeverMisread ==
  LET result == Loop(RunColumn, {Before[i] : i \in DOMAIN Before}, DiffColumns)
  IN result # Failed /\ ~KeyTookName => result = Shown

\* The operations on indexes, after any sequence of adding, editing and dropping
\* (indexOps.ts 4-50), succeed and make the list on the screen, as long as no
\* index was given the name of another one.
IndexesBecomeShown == ~clash => Loop(RunIndex, Base, extra) = VisibleIndexes

\* The operations that a draft is turned into make the structure on the screen, or
\* are refused where names cross (schemaDraft.ts 10-53, indexOps.ts 4-50).
DraftBecomesShown == ColumnsBecomeShown /\ ColumnsNeverMisread /\ IndexesBecomeShown

=============================================================================
