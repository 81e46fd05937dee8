----------------------------- MODULE RedisKeys -----------------------------
(***************************************************************************)
(* The key browser of the web client (web/src/features/redis:              *)
(* RedisKeyTree.tsx and redisKeyHierarchy.ts): the keys of a Redis         *)
(* database are scanned page by page and drawn as a tree of folders.       *)
(*                                                                         *)
(* A key is the sequence of its parts (key.split(':')).  The order of the  *)
(* rows is left out.  Redis itself is external: a keyspace that does not   *)
(* change while it is scanned, in pages that may hold no matching key.     *)
(***************************************************************************)
EXTENDS Naturals, Sequences, FiniteSets, Ordering

CONSTANTS
  Keyspace,    \* the keys of each database, in the order of a scan
  Matching,    \* the keys each pattern matches
  AnyKey,      \* the pattern `*'
  ScanCount,   \* keys Redis looks at for one page
  MaxScans,
  None

VARIABLES
  match, cursor, keys, loading, expanded,
  selectedKey, \* DatabaseWorkbench: the key that was opened last, or None
  scans,       \* the calls of load that have not ended
  db,          \* API server: the database of the connection
  asked,
  mixed        \* history: the list may come from more than one scan

vars == <<match, cursor, keys, loading, expanded, selectedKey, scans, db, asked, mixed>>

-----------------------------------------------------------------------------
(* redisKeyHierarchy.ts.  A tree gives the keys that lie directly in each  *)
(* folder; a folder is the sequence of its parts, and the root is <<>>.    *)

Elements(s) == {s[i] : i \in DOMAIN s}

FolderPathForKey(k) == {SubSeq(k, 1, i) : i \in 1..(Len(k) - 1)}

\* The folder a key lies in, and whether a folder or a key s lies in folder p or is p.
Folder(k) == SubSeq(k, 1, Len(k) - 1)
Under(p, s) == Len(p) <= Len(s) /\ SubSeq(s, 1, Len(p)) = p

\* The folders on the way are made when they are missing.
InsertKey(tree, k) ==
  [p \in DOMAIN tree \cup FolderPathForKey(k) |->
     (IF p \in DOMAIN tree THEN tree[p] ELSE <<>>) \o (IF p = Folder(k) THEN <<k>> ELSE <<>>)]

BuildRedisKeyTree(ks) == Loop(InsertKey, [p \in {<<>>} |-> <<>>], ks)

CountKeys(tree, p) == Cardinality(UNION {{q} \X (1..Len(tree[q])) : q \in {q \in DOMAIN tree : Under(p, q)}})

\* The rows that are drawn: children only of folders that are open.
Drawn(s) == FolderPathForKey(s) \subseteq expanded
FolderRows == {p \in DOMAIN BuildRedisKeyTree(keys) \ {<<>>} : Drawn(p)}
KeyRows == {k \in Elements(keys) : Drawn(k)}

-----------------------------------------------------------------------------
(* RedisKeyTree.                                                           *)

Scan(id, m, c, append) ==
  [id |-> id, match |-> m, cursor |-> c, append |-> append, served |-> FALSE, page |-> <<>>, next |-> 0]

\* The effect after mounting calls load(0, false).
Init ==
  /\ match = AnyKey /\ cursor = 0 /\ keys = <<>> /\ expanded = {} /\ selectedKey = None
  /\ db \in DOMAIN Keyspace
  /\ loading = TRUE /\ scans = {Scan(1, AnyKey, 0, FALSE)} /\ asked = 1
  /\ mixed = FALSE

\* load up to its await.
Load(m, c, append) ==
  /\ asked < MaxScans
  /\ asked' = asked + 1
  /\ scans' = scans \cup {Scan(asked', m, c, append)}
  /\ loading' = TRUE
  /\ mixed' = (scans # {} \/ (mixed /\ append))

\* Every change of the pattern is a new load, whether one is under way or not.
SetMatch(m) ==
  /\ m # match
  /\ match' = m
  /\ Load(m, 0, FALSE)
  /\ UNCHANGED <<cursor, keys, expanded, selectedKey, db>>

ScanAgain ==
  /\ ~loading
  /\ Load(match, 0, FALSE)
  /\ UNCHANGED <<match, cursor, keys, expanded, selectedKey, db>>

LoadMore ==
  /\ ~loading /\ cursor # 0
  /\ Load(match, cursor, TRUE)
  /\ UNCHANGED <<match, cursor, keys, expanded, selectedKey, db>>

\* SCAN: the next cursor is 0 at the end of the keyspace.
Serve(l) ==
  LET end == Least({l.cursor + ScanCount, Len(Keyspace[db])})
      found == InOrder({i \in (l.cursor + 1)..end : Keyspace[db][i] \in Matching[l.match]})
      page == [n \in DOMAIN found |-> Keyspace[db][found[n]]]
  IN /\ ~l.served
     /\ scans' = (scans \ {l}) \cup {[l EXCEPT !.served = TRUE, !.page = page,
                                             !.next = IF end = Len(Keyspace[db]) THEN 0 ELSE end]}
     /\ UNCHANGED <<match, cursor, keys, loading, expanded, selectedKey, db, asked, mixed>>

\* A further page takes the place of the earlier ones.
LoadedReplaces(l) ==
  /\ l.served
  /\ keys' = l.page /\ cursor' = l.next
  /\ loading' = FALSE /\ scans' = scans \ {l}
  /\ UNCHANGED <<match, expanded, selectedKey, db, asked, mixed>>

\* load after its await.
Loaded(l) ==
  /\ l.served
  /\ keys' = IF l.append THEN keys \o l.page ELSE l.page
  /\ cursor' = l.next
  /\ loading' = FALSE /\ scans' = scans \ {l}
  /\ UNCHANGED <<match, expanded, selectedKey, db, asked, mixed>>

\* The list and the cursor stay as they are, also where they are of another pattern.
LoadFails(l) ==
  /\ loading' = FALSE /\ scans' = scans \ {l}
  /\ mixed' = (mixed \/ ~l.append)
  /\ UNCHANGED <<match, cursor, keys, expanded, selectedKey, db, asked>>

ToggleFolder(p) ==
  /\ p \in FolderRows
  /\ expanded' = IF p \in expanded THEN expanded \ {p} ELSE expanded \cup {p}
  /\ UNCHANGED <<match, cursor, keys, loading, selectedKey, scans, db, asked, mixed>>

\* onOpenKey, and the effect that opens the folders of the key.
OpenKey(k) ==
  /\ k \in KeyRows /\ k # selectedKey
  /\ selectedKey' = k
  /\ expanded' = expanded \cup FolderPathForKey(k)
  /\ UNCHANGED <<match, cursor, keys, loading, scans, db, asked, mixed>>

\* DatabaseWorkbench switches the database of the connection and keeps its id, so
\* that nothing here is loaded again.
SwitchDatabase(d) ==
  /\ d # db
  /\ db' = d /\ selectedKey' = None
  /\ mixed' = TRUE
  /\ UNCHANGED <<match, cursor, keys, loading, expanded, scans, asked>>

Next == \/ \E m \in DOMAIN Matching : SetMatch(m)
        \/ ScanAgain \/ LoadMore
        \/ \E l \in scans : Serve(l) \/ Loaded(l) \/ LoadFails(l)
        \/ \E p \in FolderRows : ToggleFolder(p)
        \/ \E k \in KeyRows : OpenKey(k)
        \/ \E d \in DOMAIN Keyspace : SwitchDatabase(d)

-----------------------------------------------------------------------------

\* When a scan has come to its end and no other load crossed it or failed, the tree
\* holds every key of the database that matches the pattern, in the folder its name
\* says, and no other; and each folder counts the keys below it (RedisKeyTree.tsx
\* 84-93, redisKeyHierarchy.ts 26-45).
TreeIsWhole ==
  scans = {} /\ cursor = 0 /\ ~mixed =>
    LET tree == BuildRedisKeyTree(keys)
        found == Elements(Keyspace[db]) \cap Matching[match]
    IN /\ UNION {Elements(tree[p]) : p \in DOMAIN tree} = found
       /\ \A k \in found : k \in Elements(tree[Folder(k)])
       /\ \A p \in DOMAIN tree : CountKeys(tree, p) = Cardinality({k \in found : Under(p, k) /\ k # p})

=============================================================================
