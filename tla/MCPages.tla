------------------------------ MODULE MCPages ------------------------------
(***************************************************************************)
(* The pages of the web client and the views of a table and of Redis keys  *)
(* in the database workbench.  They share no state, and a behaviour is     *)
(* that of one of them.                                                    *)
(***************************************************************************)
EXTENDS Naturals, Sequences, FiniteSets

CONSTANTS Conns, Files, FirstSessions, MaxSessions, MaxClicks,
          Teams, MaxConnections, MaxTurns,
          UserIds, FirstUsers, Self, TeamIds, FirstTeam, MaxActs,
          PKs, Vals, Null, PageSize, MaxEvents,
          LoadedNames, Names, Types, Comments, BaseIndexes, IndexNames, MaxEdits,
          Tables, Versions, MaxWork,
          Keyspace, Matching, FirstDb, ScanCount, MaxScans,
          Absent

VARIABLES made, imported, sessions, selectedId, shownOf, searching, sshBusy, conn, remote,
          tailStatus, tailing, ref, tailLines, lastTail, calls, mounted, clicks,
          registry, created, admins, listed, adminTeams, kindFilter, chosen, formMode, editing,
          form, saving, deleteTarget, requests, turns,
          accounts, disabled, groups, roles, users, teams, teamMembers, dialog, busy, jobs, past, acts,
          stored, query, rows, status, draft, selected, loads, applies, events, drawn, overlap,
          columns, extra, edits, clash,
          tables, spent, structureTable, detail, shown, preview, previewBusy, structureBusy, structureEditing,
          timer, request, previews, reads, save, work, promise,
          match, cursor, keys, loading, expanded, selectedKey, scans, db, asked, mixed,
          page

\* Keys `a', `a:b', `a:b:c' and `b:a' in one database, `a:b' and `c' in the other, and
\* the patterns `*' and `a*'.
FirstKeys == << <<1>>, <<1, 2>>, <<1, 2, 3>>, <<2, 1>> >>
OtherKeys == << <<1, 2>>, <<3>> >>
AllKeys == {FirstKeys[i] : i \in DOMAIN FirstKeys} \cup {OtherKeys[i] : i \in DOMAIN OtherKeys}
TwoDatabases == [d \in {FirstDb, "other"} |-> IF d = FirstDb THEN FirstKeys ELSE OtherKeys]
TwoPatterns == [m \in {"*", "a*"} |-> {k \in AllKeys : m = "*" \/ k[1] = 1}]

Logs == INSTANCE LogsView WITH None <- Absent
Connections == INSTANCE ConnectionCenter WITH None <- Absent
Settings == INSTANCE SettingsPages WITH None <- Absent
Data == INSTANCE TableEditor WITH None <- Absent
Draft == INSTANCE SchemaDraft WITH None <- Absent
Structure == INSTANCE SchemaEditor WITH None <- Absent, table <- structureTable, busy <- structureBusy,
                                        editing <- structureEditing
Browser == INSTANCE RedisKeys WITH None <- Absent, AnyKey <- "*"

\* What stands for an absent value is no number, no request for a preview and no
\* connection; a log directory has finitely many files; there is a table, and its
\* first version is 0.
ASSUME AbsentAssumption == Absent \notin Nat \cup Structure!Ask \cup Connections!Item
ASSUME FilesAssumption == IsFiniteSet(Files)
ASSUME TablesAssumption == Tables # {} /\ 0 \in Versions /\ MaxWork \in Nat

\* The system administrator and a team exist at the start; a user is not a team.
ASSUME SettingsAssumption ==
  /\ IsFiniteSet(UserIds) /\ UserIds \subseteq Nat /\ UserIds \cap TeamIds = {}
  /\ FirstUsers \subseteq UserIds /\ Self \in FirstUsers /\ FirstTeam \in TeamIds

\* The keys of a table are numbers, and NULL is none of them.
ASSUME DataAssumption == IsFiniteSet(PKs) /\ PKs \subseteq Nat /\ Null \notin PKs /\ PageSize \in Nat

\* A table has finitely many columns, and what stands for an absent value is none, no
\* index and no name of one.
ASSUME DraftAssumption ==
  /\ IsFiniteSet(LoadedNames) /\ Types # {} /\ Comments # {}
  /\ Absent \notin Draft!ColumnName \cup Draft!Column \cup IndexNames \cup Draft!Base \cup Draft!Index

\* A key has at least one part, and is in its database once; a scan makes progress.
ASSUME KeyspaceAssumption ==
  /\ \A d \in DOMAIN Keyspace :
       /\ Keyspace[d] \in Seq(Seq(Nat) \ {<<>>})
       /\ \A i, j \in DOMAIN Keyspace[d] : Keyspace[d][i] = Keyspace[d][j] => i = j
  /\ ScanCount \in Nat \ {0}

logsVars == <<made, imported, sessions, selectedId, shownOf, searching, sshBusy, conn, remote,
              tailStatus, tailing, ref, tailLines, lastTail, calls, mounted, clicks>>
connectionVars == <<registry, created, admins, listed, adminTeams, kindFilter, chosen, formMode,
                    editing, form, saving, deleteTarget, requests, turns>>
settingsVars == <<accounts, disabled, groups, roles, users, teams, teamMembers, dialog, busy, jobs,
                  past, acts>>

dataVars == <<stored, query, rows, status, draft, selected, loads, applies, events, drawn, overlap>>
draftVars == <<columns, extra, edits, clash>>
structureVars == <<tables, spent, structureTable, detail, shown, preview, previewBusy, structureBusy,
                   structureEditing, timer, request, previews, reads, save, work, promise>>
browserVars == <<match, cursor, keys, loading, expanded, selectedKey, scans, db, asked, mixed>>
pageVars == <<logsVars, connectionVars, settingsVars>>
viewVars == <<dataVars, draftVars, structureVars, browserVars>>

\* What is not shown has one initial state.
PagesInit == /\ page \in {"logs", "connections", "settings", "data", "draft", "structure", "keys"}
             /\ Logs!Init /\ Connections!Init /\ Settings!Init
             /\ Data!Init /\ Draft!Init /\ Structure!Init /\ Browser!Init
             /\ page # "connections" => \A i \in DOMAIN registry : registry[i].team = Absent
             /\ page # "settings" => disabled = {}
             /\ page # "keys" => db = FirstDb

PageStep == /\ \/ page = "logs" /\ Logs!Next /\ UNCHANGED <<connectionVars, settingsVars>>
               \/ page = "connections" /\ Connections!Next /\ UNCHANGED <<logsVars, settingsVars>>
               \/ page = "settings" /\ Settings!Next /\ UNCHANGED <<logsVars, connectionVars>>
            /\ UNCHANGED <<viewVars, page>>

ViewStep == /\ \/ page = "data" /\ Data!Next /\ UNCHANGED <<draftVars, structureVars, browserVars>>
               \/ page = "draft" /\ Draft!Next /\ UNCHANGED <<dataVars, structureVars, browserVars>>
               \/ page = "structure" /\ Structure!Next /\ UNCHANGED <<dataVars, draftVars, browserVars>>
               \/ page = "keys" /\ Browser!Next /\ UNCHANGED <<dataVars, draftVars, structureVars>>
            /\ UNCHANGED <<pageVars, page>>

PagesNext == PageStep \/ ViewStep

PagesSpec == PagesInit /\ [][PagesNext]_<<pageVars, viewVars, page>>

-----------------------------------------------------------------------------

\* The logs page has its tails in hand: what runs can be stopped, and what is shown
\* is of the last one (LogsPage.tsx 175-177 and 300-369).
TailInHand == page = "logs" => Logs!TailInHand

\* An import of all files that goes on to the search has put every one of them into
\* the session of the click (LogsPage.tsx 401-428).
BatchIsComplete == page = "logs" => Logs!BatchIsComplete

\* The credentials of a connection were typed into its own form, and are enough to
\* log in by SSH (ConnectionsPage.tsx 182-198, connectionForm.ts 84-97).
CredentialsInPlace == page = "connections" => Connections!CredentialsInPlace

\* A save of members that keeps an administrator and demotes nobody is not refused
\* (SettingsTeamsPage.tsx 145-157).
PlannedSaveNotRefused == page = "settings" => Settings!PlannedSaveNotRefused

\* What was deleted does not come back with a late answer (SettingsUsersPage.tsx
\* 109-155, SettingsTeamsPage.tsx 95-135).
DeletedStaysGone == page = "settings" => Settings!DeletedStaysGone

\* The draft of the data view refers to the rows it was made on, unless two
\* reloads overlapped (tableTabLoader.ts 34).
DraftFitsRows == page = "data" => Data!DraftFitsRows

\* An apply that ends well has done what the screen showed at the click, and
\* nothing else (TableView.tsx 191-212); an edited key cell, which is shown and not
\* sent (tableMutations.ts 54), is lost, and nothing more than it.
AppliedIsWhatWasShown == page = "data" => Data!AppliedIsWhatWasShown

\* The operations that a draft of a structure is turned into make what is on the
\* screen, or are refused where names cross (schemaDraft.ts 10-53, indexOps.ts 4-50).
DraftBecomesShown == page = "draft" => Draft!DraftBecomesShown

\* The preview that can be saved is that of the draft, and a save that succeeds has
\* made what the screen showed at the click (SchemaWorkspace.tsx 25-56).
SavedAsPreviewed == page = "structure" => Structure!SavedAsPreviewed

\* A scan of keys that came to its end undisturbed is drawn whole and in its folders
\* (RedisKeyTree.tsx 84-93, redisKeyHierarchy.ts 26-45).
TreeIsWhole == page = "keys" => Browser!TreeIsWhole

=============================================================================
