----------------------------- MODULE Workbench -----------------------------
(***************************************************************************)
(* The in-memory runtime of the database workbench: the handles of the     *)
(* open connections (session/store.go), the queries that run in goroutines *)
(* of their own (query/service.go), the explicit transactions              *)
(* (query/transaction.go) and the routes that use them                     *)
(* (httpapi/router.go).  A handle is a pool of at most PoolSize database   *)
(* connections; closing it lets the users it has finish and turns away the *)
(* ones that wait.  A step is what a handler does under one lock, or one   *)
(* call of the database.  Statements, rows, the routes that only read and   *)
(* the Redis and MongoDB handles, which have no transactions, are left out. *)
(***************************************************************************)
EXTENDS Naturals, FiniteSets

CONSTANTS
  Conns,      \* connection identifiers (PutHandle draws a fresh one)
  Handles,    \* the handles OpenHandle may return, each once
  DBs,        \* databases of the server connected to
  Txs,        \* transaction identifiers (Begin draws a fresh one)
  Jobs,       \* query identifiers (Start draws a fresh one)
  Reqs,       \* requests served at the same time
  PoolSize,   \* SetMaxOpenConns
  None

ASSUME PoolAssumption == PoolSize \in Nat \ {0}
ASSUME NoneAssumption == None \notin Conns \cup Handles \cup DBs \cup Txs \cup Jobs \cup Reqs
ASSUME KindsAssumption ==      \* whoever uses a connection is of one kind
  Txs \cap Jobs = {} /\ Txs \cap Reqs = {} /\ Jobs \cap Reqs = {}

VARIABLES
  entry,      \* session.Store: the handle of a connection
  used,       \* connection identifiers drawn so far
  hdb,        \* the database a handle was opened on
  hstate,     \* "new", "open" or "closed"
  slots,      \* who uses a connection of the handle's pool
  items,      \* TransactionService.items
  tx,         \* the state of a transaction, its scope and its handle
  job,        \* the queries
  req         \* the requests in progress

store == <<entry, used, hdb, hstate>>
txns == <<items, tx>>
vars == <<store, slots, txns, job, req>>

NoTx == [st |-> "new", c |-> None, h |-> None]
NoJob == [st |-> "new", h |-> None, t |-> None]
Idle == [pc |-> "idle", c |-> None, h |-> None, db |-> None, t |-> None]

TypeOK ==
  /\ entry \in [Conns -> Handles \cup {None}]
  /\ used \in SUBSET Conns
  /\ hdb \in [Handles -> DBs \cup {None}]
  /\ hstate \in [Handles -> {"new", "open", "closed"}]
  /\ slots \in [Handles -> SUBSET (Txs \cup Jobs \cup Reqs)]
  /\ items \in SUBSET Txs
  /\ tx \in [Txs -> [st: {"new", "open", "committed", "rolledback"},
                     c: Conns \cup {None}, h: Handles \cup {None}]]
  /\ job \in [Jobs -> [st: {"new", "waiting", "running", "ok", "failed"},
                       h: Handles \cup {None}, t: Txs \cup {None}]]
  /\ req \in [Reqs -> [pc: {"idle", "open", "publish", "begin", "register", "commit",
                            "rollback", "query", "mutate", "turn", "execute"},
                       c: Conns \cup {None}, h: Handles \cup {None},
                       db: DBs \cup {None}, t: Txs \cup {None}]]
  /\ \A r \in Reqs : req[r].pc \in {"publish", "begin", "query", "mutate"} => req[r].h # None

Init ==
  /\ entry = [c \in Conns |-> None]
  /\ used = {}
  /\ hdb = [h \in Handles |-> None]
  /\ hstate = [h \in Handles |-> "new"]
  /\ slots = [h \in Handles |-> {}]
  /\ items = {}
  /\ tx = [t \in Txs |-> NoTx]
  /\ job = [j \in Jobs |-> NoJob]
  /\ req = [r \in Reqs |-> Idle]

Become(r, q) == req' = [req EXCEPT ![r] = q]

-----------------------------------------------------------------------------
(* database/sql: a pool of PoolSize connections.                           *)

Free(h) == hstate[h] = "open" /\ Cardinality(slots[h]) < PoolSize
Acquire(h, x) == Free(h) /\ slots' = [slots EXCEPT ![h] = @ \cup {x}]
Release(h, x) == slots' = [slots EXCEPT ![h] = @ \ {x}]

-----------------------------------------------------------------------------
(* Connecting, switching the database and disconnecting.                   *)

\* POST /api/connections: the handle is opened first and stored afterwards.
Connect(r, d) ==
  /\ req[r].pc = "idle"
  /\ Become(r, [Idle EXCEPT !.pc = "open", !.db = d])
  /\ UNCHANGED <<store, slots, txns, job>>

\* POST /api/connections/{id}/database: the configuration is read, and a request
\* for the current database is answered at once.
Switch(r, c, d) ==
  /\ req[r].pc = "idle"
  /\ entry[c] # None /\ hdb[entry[c]] # d
  /\ Become(r, [Idle EXCEPT !.pc = "open", !.c = c, !.db = d])
  /\ UNCHANGED <<store, slots, txns, job>>

Open(r, h) ==
  /\ req[r].pc = "open"
  /\ hstate[h] = "new"
  /\ hstate' = [hstate EXCEPT ![h] = "open"]
  /\ hdb' = [hdb EXCEPT ![h] = req[r].db]
  /\ Become(r, [req[r] EXCEPT !.pc = "publish", !.h = h])
  /\ UNCHANGED <<entry, used, slots, txns, job>>

\* The server cannot be reached within 10 s.
OpenFails(r) == req[r].pc = "open" /\ Become(r, Idle) /\ UNCHANGED <<store, slots, txns, job>>

PutHandle(r, c) ==
  /\ req[r].pc = "publish" /\ req[r].c = None
  /\ c \notin used
  /\ entry' = [entry EXCEPT ![c] = req[r].h]
  /\ used' = used \cup {c}
  /\ Become(r, Idle)
  /\ UNCHANGED <<hdb, hstate, slots, txns, job>>

\* Mutant: the handle that is replaced is not closed.
ReplaceHandleLeaks(r) ==
  /\ req[r].pc = "publish" /\ req[r].c # None
  /\ IF entry[req[r].c] = None
       THEN hstate' = [hstate EXCEPT ![req[r].h] = "closed"] /\ UNCHANGED entry
       ELSE entry' = [entry EXCEPT ![req[r].c] = req[r].h] /\ UNCHANGED hstate
  /\ Become(r, Idle)
  /\ UNCHANGED <<used, hdb, slots, txns, job>>

\* ReplaceHandle closes the handle it replaces; when the connection has gone in
\* the meantime, the route closes the new one.
ReplaceHandle(r) ==
  LET c == req[r].c IN
  /\ req[r].pc = "publish" /\ c # None
  /\ IF entry[c] = None
       THEN hstate' = [hstate EXCEPT ![req[r].h] = "closed"] /\ UNCHANGED entry
       ELSE /\ hstate' = [hstate EXCEPT ![entry[c]] = "closed"]
            /\ entry' = [entry EXCEPT ![c] = req[r].h]
  /\ Become(r, Idle)
  /\ UNCHANGED <<used, hdb, slots, txns, job>>

\* DELETE /api/connections/{id}: transactions and queries are left alone.
Disconnect(c) ==
  /\ entry[c] # None
  /\ hstate' = [hstate EXCEPT ![entry[c]] = "closed"]
  /\ entry' = [entry EXCEPT ![c] = None]
  /\ UNCHANGED <<used, hdb, slots, txns, job, req>>

-----------------------------------------------------------------------------
(* Transactions.                                                           *)

\* The routes for transactions, queries and row mutations look the handle up first;
\* when they use it, it may have been replaced or closed.
LookUp(r, c, l) ==
  /\ req[r].pc = "idle"
  /\ entry[c] # None
  /\ Become(r, [Idle EXCEPT !.pc = l, !.c = c, !.h = entry[c]])
  /\ UNCHANGED <<store, slots, txns, job>>

\* BeginTx waits for a connection of the pool with no deadline, whether or not the
\* client is still there.
Begin(r, t) ==
  /\ req[r].pc = "begin"
  /\ tx[t].st = "new"
  /\ Acquire(req[r].h, t)
  /\ tx' = [tx EXCEPT ![t] = [st |-> "open", c |-> req[r].c, h |-> req[r].h]]
  /\ Become(r, [req[r] EXCEPT !.pc = "register", !.t = t])
  /\ UNCHANGED <<store, items, job>>

\* A closed pool turns away whoever waits for a connection, a finished transaction
\* whoever waits for its turn; a pool with room may fail to reach its server.
TurnedAway(r) ==
  /\ \/ /\ req[r].pc \in {"begin", "mutate"}
        /\ hstate[req[r].h] = "closed" \/ Free(req[r].h)
     \/ req[r].pc = "turn" /\ tx[req[r].t].st # "open"
  /\ Become(r, Idle)
  /\ UNCHANGED <<store, slots, txns, job>>

Register(r) ==
  /\ req[r].pc = "register"
  /\ items' = items \cup {req[r].t}
  /\ Become(r, Idle)
  /\ UNCHANGED <<store, slots, tx, job>>

\* TransactionService.Get: a transaction is found under its connection only.
Get(c, t) == t \in items /\ tx[t].c = c

\* TransactionService.take: of the requests that want to finish a transaction, the
\* first one removes it; the others are told that there is none.
Take(r, c, t, l) ==
  /\ req[r].pc = "idle"
  /\ Get(c, t)
  /\ items' = items \ {t}
  /\ Become(r, [Idle EXCEPT !.pc = l, !.t = t])
  /\ UNCHANGED <<store, slots, tx, job>>

\* A statement runs on the transaction's connection.
Busy(t) ==
  \/ \E j \in Jobs : job[j].st = "running" /\ job[j].t = t
  \/ \E r \in Reqs : req[r].pc = "execute" /\ req[r].t = t

\* Mutant: the transaction that could not be committed keeps its connection.
FinishKeepsSlot(r) ==
  LET t == req[r].t IN
  /\ req[r].pc \in {"commit", "rollback"}
  /\ ~Busy(t)
  /\ \/ /\ tx' = [tx EXCEPT ![t].st = IF req[r].pc = "commit" THEN "committed" ELSE "rolledback"]
        /\ Release(tx[t].h, t)
     \/ tx' = [tx EXCEPT ![t].st = "rolledback"] /\ UNCHANGED slots
  /\ Become(r, Idle)
  /\ UNCHANGED <<store, items, job>>

\* tx.Commit and tx.Rollback wait for the statement that runs in the transaction.
\* The connection goes back to the pool, also when the commit fails.
Finish(r) ==
  LET t == req[r].t IN
  /\ req[r].pc \in {"commit", "rollback"}
  /\ ~Busy(t)
  /\ \E st \in {"committed", "rolledback"} :
       /\ req[r].pc = "rollback" => st = "rolledback"
       /\ tx' = [tx EXCEPT ![t].st = IF @ = "open" THEN st ELSE @]
  /\ Release(tx[t].h, t)
  /\ Become(r, Idle)
  /\ UNCHANGED <<store, items, job>>

-----------------------------------------------------------------------------
(* Queries.                                                                *)

\* POST .../queries: the transaction, if one is named, must be one of the
\* connection; Start launches the goroutine.
Start(r, t, j) ==
  /\ req[r].pc = "query"
  /\ job[j].st = "new"
  /\ t # None => Get(req[r].c, t)
  /\ job' = [job EXCEPT ![j] = [st |-> "waiting", h |-> req[r].h, t |-> t]]
  /\ Become(r, Idle)
  /\ UNCHANGED <<store, slots, txns>>

\* The request is refused: a risk that was not confirmed, a mutation that cannot be
\* built, a transaction that is not there; or the client leaves.
Rejected(r) ==
  /\ req[r].pc \in {"query", "mutate", "turn"}
  /\ Become(r, Idle)
  /\ UNCHANGED <<store, slots, txns, job>>

SetJob(j, st) == job' = [job EXCEPT ![j].st = st]

\* Mutant: a statement of a transaction runs whatever has become of it.
RunStale(j) ==
  /\ job[j].st = "waiting"
  /\ IF job[j].t = None THEN Acquire(job[j].h, j) ELSE ~Busy(job[j].t) /\ UNCHANGED slots
  /\ SetJob(j, "running")
  /\ UNCHANGED <<store, txns, req>>

\* Outside of a transaction the statement waits for a connection of the pool; in
\* one it waits for its turn on the transaction's connection.
Run(j) ==
  LET t == job[j].t IN
  /\ job[j].st = "waiting"
  /\ IF t = None THEN Acquire(job[j].h, j)
     ELSE tx[t].st = "open" /\ ~Busy(t) /\ UNCHANGED slots
  /\ SetJob(j, "running")
  /\ UNCHANGED <<store, txns, req>>

\* The statement returns: rows, a count, or an error when it is wrong, was canceled
\* or has used up its 30 s.
Complete(j) ==
  /\ job[j].st = "running"
  /\ \E st \in {"ok", "failed"} : SetJob(j, st)
  /\ IF job[j].t = None THEN Release(job[j].h, j) ELSE UNCHANGED slots
  /\ UNCHANGED <<store, txns, req>>

\* A query that waits ends with an error: its 30 s are over, it was canceled, its
\* pool was closed, or its transaction has been finished.
GiveUp(j) ==
  /\ job[j].st = "waiting"
  /\ SetJob(j, "failed")
  /\ UNCHANGED <<store, slots, txns, req>>

-----------------------------------------------------------------------------
(* POST .../rows/{operation}, under the context of the request: in the     *)
(* transaction it names, or in one of its own that it commits or rolls     *)
(* back.                                                                   *)

MutateIn(r, t) ==
  /\ req[r].pc = "mutate"
  /\ Get(req[r].c, t)
  /\ Become(r, [req[r] EXCEPT !.pc = "turn", !.t = t])
  /\ UNCHANGED <<store, slots, txns, job>>

Execute(r) ==
  /\ \/ req[r].pc = "mutate" /\ Acquire(req[r].h, r)
     \/ /\ req[r].pc = "turn"
        /\ tx[req[r].t].st = "open" /\ ~Busy(req[r].t)
        /\ UNCHANGED slots
  /\ Become(r, [req[r] EXCEPT !.pc = "execute"])
  /\ UNCHANGED <<store, txns, job>>

EndMutation(r) ==
  /\ req[r].pc = "execute"
  /\ IF req[r].t = None THEN Release(req[r].h, r) ELSE UNCHANGED slots
  /\ Become(r, Idle)
  /\ UNCHANGED <<store, txns, job>>

-----------------------------------------------------------------------------
\* What the server does by itself once a request or a query has begun.
ReqStep(r) ==
  \/ \E h \in Handles : Open(r, h)
  \/ OpenFails(r)
  \/ \E c \in Conns : PutHandle(r, c)
  \/ ReplaceHandle(r)
  \/ \E t \in Txs : Begin(r, t)
  \/ \E t \in Txs \cup {None}, j \in Jobs : Start(r, t, j)
  \/ \E t \in Txs : MutateIn(r, t)
  \/ TurnedAway(r) \/ Register(r) \/ Finish(r) \/ Execute(r) \/ EndMutation(r)

JobStep(j) == Run(j) \/ Complete(j) \/ GiveUp(j)

Client ==
  \/ \E r \in Reqs :
       \/ \E d \in DBs : Connect(r, d) \/ \E c \in Conns : Switch(r, c, d)
       \/ \E c \in Conns, l \in {"begin", "query", "mutate"} : LookUp(r, c, l)
       \/ \E c \in Conns, t \in Txs, l \in {"commit", "rollback"} : Take(r, c, t, l)
       \/ Rejected(r)
  \/ \E c \in Conns : Disconnect(c)

Next == Client \/ (\E r \in Reqs : ReqStep(r)) \/ (\E j \in Jobs : JobStep(j))

Spec == Init /\ [][Next]_vars

-----------------------------------------------------------------------------
(* Properties.                                                             *)

\* Every open handle is the handle of some connection, or is held by the request
\* that has just opened it and will store or close it: concurrent connects,
\* switches and disconnects leak no pool.
NoHandleLeaks ==
  \A h \in Handles : hstate[h] = "open" =>
     \/ \E c \in Conns : entry[c] = h
     \/ \E r \in Reqs : req[r].pc = "publish" /\ req[r].h = h

\* The handle of a connection is open, and belongs to one connection only: no
\* request that looks a connection up is given a pool that somebody closed.
StoredHandlesUsable ==
  \A c \in Conns : entry[c] # None =>
     /\ hstate[entry[c]] = "open"
     /\ \A b \in Conns \ {c} : entry[b] # entry[c]

\* A transaction that a client can name is open, and an open one can be named or is
\* in the hands of the one request that registers or finishes it: whatever commits,
\* rollbacks and disconnects race, none is finished twice and none is forgotten.
OpenIsReachable ==
  \A t \in Txs :
    LET holders == {r \in Reqs : req[r].pc \in {"register", "commit", "rollback"} /\ req[r].t = t} IN
    tx[t].st = "open" <=> (t \in items \/ holders # {})

\* A statement sent to a transaction runs while the transaction is open, and alone:
\* a commit or rollback that overtakes it makes it fail.
RunsInsideTransaction ==
  \A t \in Txs :
    LET users == {j \in Jobs : job[j].st = "running" /\ job[j].t = t}
                 \cup {r \in Reqs : req[r].pc = "execute" /\ req[r].t = t}
    IN  users # {} => tx[t].st = "open" /\ Cardinality(users) = 1

\* The connections of a pool in use are those of its open transactions, its running
\* statements and its row mutations: whoever ends gives its connection back.
SlotsAccountedFor ==
  \A h \in Handles : slots[h] =
     {t \in Txs : tx[t].st = "open" /\ tx[t].h = h}
     \cup {j \in Jobs : job[j].st = "running" /\ job[j].t = None /\ job[j].h = h}
     \cup {r \in Reqs : req[r].pc = "execute" /\ req[r].t = None /\ req[r].h = h}

\* However connects, switches, disconnects, commits and rollbacks race, no pool and
\* no transaction is lost track of and none is handed out closed (session/store.go,
\* query/transaction.go).
NothingForgotten == NoHandleLeaks /\ StoredHandlesUsable /\ OpenIsReachable

=============================================================================
