------------------------------ MODULE Migrate ------------------------------
(***************************************************************************)
(* migrate.Apply: every server process brings the schema up when it        *)
(* starts, under a session-level advisory lock of PostgreSQL.  A process   *)
(* runs Apply once, on one connection of its pool; a restarted server is   *)
(* another process.  A step of a process is one statement it sends; the    *)
(* server may also run a statement whose client has given up, because the  *)
(* lock and an open transaction belong to the server's session and live    *)
(* until PostgreSQL notices that the connection is closed.                 *)
(***************************************************************************)
EXTENDS Naturals, Sequences

CONSTANTS
  Procs,      \* the server processes, each with one connection
  Version,    \* process p embeds the migrations 1 .. Version[p], sorted by name
  None        \* nobody holds the lock

ASSUME VersionAssumption == Version \in [Procs -> Nat \ {0}]
ASSUME NoneAssumption == None \notin Procs

VARIABLES
  history,    \* the migration files whose SQL was committed, in order
  recorded,   \* the rows of schema_migrations
  lock,       \* the process whose session holds the advisory lock
  pc,         \* the next statement of Apply
  next,       \* the file applyFile is at
  conn,       \* the process's connection
  txn,        \* what its open transaction has done and not committed
  inflight    \* a statement the server may still run for a client that is gone

vars == <<history, recorded, lock, pc, next, conn, txn, inflight>>

Statements == {"lock", "table", "check", "exec", "record", "commit", "unlock"}
Outcomes == {"done", "failed", "crashed"}

TypeOK ==
  /\ history \in Seq(Nat)
  /\ recorded \in SUBSET Nat
  /\ lock \in Procs \cup {None}
  /\ pc \in [Procs -> {"off"} \cup Statements \cup Outcomes]
  /\ next \in [Procs -> Nat]
  /\ conn \in [Procs -> {"none", "open", "pooled", "gone", "closed"}]
  /\ txn \in [Procs -> SUBSET {"ran", "recorded"}]
  /\ inflight \in [Procs -> Statements \cup {"none"}]

Running(p) == pc[p] \in Statements

Init ==
  /\ history = <<>>
  /\ recorded = {}
  /\ lock = None
  /\ pc = [p \in Procs |-> "off"]
  /\ next = [p \in Procs |-> 1]
  /\ conn = [p \in Procs |-> "none"]
  /\ txn = [p \in Procs |-> {}]
  /\ inflight = [p \in Procs |-> "none"]

-----------------------------------------------------------------------------
(* What the server does with a statement of p's session.                   *)

ServerRuns(p, s) ==
  /\ s = "lock" => lock = None
  /\ lock' = IF s = "lock" THEN p ELSE IF s = "unlock" /\ lock = p THEN None ELSE lock
  /\ txn' = [txn EXCEPT ![p] = IF s = "exec" THEN @ \cup {"ran"}
                               ELSE IF s = "record" THEN @ \cup {"recorded"}
                               ELSE IF s = "commit" THEN {} ELSE @]
  /\ history' = IF s = "commit" /\ "ran" \in txn[p] THEN Append(history, next[p]) ELSE history
  /\ recorded' = IF s = "commit" /\ "recorded" \in txn[p] THEN recorded \cup {next[p]}
                                                         ELSE recorded

Goto(p, l) == pc' = [pc EXCEPT ![p] = l]

\* A statement that succeeds, after which p is at l.
Statement(p, s, l) ==
  /\ pc[p] = s
  /\ ServerRuns(p, s)
  /\ Goto(p, l)

-----------------------------------------------------------------------------
(* applyMigrations.                                                        *)

\* pool.Acquire.
Start(p) ==
  /\ pc[p] = "off"
  /\ Goto(p, "lock")
  /\ conn' = [conn EXCEPT ![p] = "open"]
  /\ UNCHANGED <<history, recorded, lock, next, txn, inflight>>

\* Mutant: pg_try_advisory_lock with the result ignored.
AcquireLockTry(p) ==
  /\ pc[p] = "lock"
  /\ lock' = IF lock = None THEN p ELSE lock
  /\ Goto(p, "table")
  /\ UNCHANGED <<history, recorded, next, conn, txn, inflight>>

\* SELECT pg_advisory_lock: waits until the lock is free.
AcquireLock(p) == Statement(p, "lock", "table") /\ UNCHANGED <<next, conn, inflight>>

\* CREATE TABLE IF NOT EXISTS schema_migrations.
CreateTable(p) == Statement(p, "table", "check") /\ UNCHANGED <<next, conn, inflight>>

\* The file after the one p is at, or the unlock when there is none.
AfterFile(p) == IF next[p] < Version[p] THEN "check" ELSE "unlock"

\* Mutant: the files are applied from the first one not recorded, without
\* looking again.
CheckFileOnce(p) ==
  /\ Statement(p, "check", "exec")
  /\ UNCHANGED <<next, conn, inflight>>

\* applyFile: begin, and is the file recorded?  Then the transaction ends at once.
CheckFile(p) ==
  /\ Statement(p, "check", IF next[p] \in recorded THEN AfterFile(p) ELSE "exec")
  /\ next' = [next EXCEPT ![p] = IF next[p] \in recorded THEN @ + 1 ELSE @]
  /\ UNCHANGED <<conn, inflight>>

\* Mutant: the file is run outside of the transaction, on the connection.
ExecFileAutocommit(p) ==
  /\ pc[p] = "exec"
  /\ history' = Append(history, next[p])
  /\ Goto(p, "record")
  /\ UNCHANGED <<recorded, lock, next, conn, txn, inflight>>

ExecFile(p) == Statement(p, "exec", "record") /\ UNCHANGED <<next, conn, inflight>>

RecordFile(p) == Statement(p, "record", "commit") /\ UNCHANGED <<next, conn, inflight>>

CommitFile(p) ==
  /\ Statement(p, "commit", AfterFile(p))
  /\ next' = [next EXCEPT ![p] = @ + 1]
  /\ UNCHANGED <<conn, inflight>>

\* Apply returns nil only when every file went through and the lock was given
\* back; the server then serves.
Result(p) == IF next[p] > Version[p] THEN "done" ELSE "failed"

\* finishLockedConnection: a connection whose unlock is confirmed goes back to
\* the pool, any other is closed.
Unlock(p) ==
  /\ Statement(p, "unlock", IF lock = p THEN Result(p) ELSE "failed")
  /\ conn' = [conn EXCEPT ![p] = IF lock = p THEN "pooled" ELSE "gone"]
  /\ UNCHANGED <<next, inflight>>

-----------------------------------------------------------------------------
(* Failures.                                                               *)

\* Mutant: Apply returns an error before the deferred unlock is installed, and the
\* connection is forgotten.
RefusedForgets(p) ==
  /\ Running(p)
  /\ txn' = [txn EXCEPT ![p] = {}]
  /\ Goto(p, "failed")
  /\ UNCHANGED <<history, recorded, lock, next, conn, inflight>>

\* Mutant: after an error Apply waits for a rollback it never sends.
RefusedStuck(p) ==
  /\ Running(p)
  /\ Goto(p, "rollback")
  /\ UNCHANGED <<history, recorded, lock, next, conn, txn, inflight>>

\* The server refuses the statement.  An error in applyFile rolls back, and
\* finishLockedConnection still unlocks; an error of the lock or of the unlock
\* itself leaves the lock in doubt, and the connection is closed.
Refused(p) ==
  /\ Running(p)
  /\ txn' = [txn EXCEPT ![p] = {}]
  /\ IF pc[p] \in {"lock", "unlock"}
       THEN Goto(p, "failed") /\ conn' = [conn EXCEPT ![p] = "gone"]
       ELSE Goto(p, "unlock") /\ UNCHANGED conn
  /\ UNCHANGED <<history, recorded, lock, next, inflight>>

\* Mutant: the connection is released to the pool although the unlock timed out.
LostReleases(p) ==
  /\ Running(p)
  /\ Goto(p, "failed")
  /\ conn' = [conn EXCEPT ![p] = IF pc[p] = "unlock" THEN "pooled" ELSE "gone"]
  /\ inflight' = [inflight EXCEPT ![p] = IF pc[p] = "unlock" THEN "none" ELSE pc[p]]
  /\ UNCHANGED <<history, recorded, lock, next, txn>>

\* The context ends or the connection breaks while a statement is on its way.
\* pgx closes the connection, so the rollback and the unlock that follow do not
\* reach the server.
Lost(p) ==
  /\ Running(p)
  /\ Goto(p, "failed")
  /\ conn' = [conn EXCEPT ![p] = "gone"]
  /\ inflight' = [inflight EXCEPT ![p] = pc[p]]
  /\ UNCHANGED <<history, recorded, lock, next, txn>>

\* The process dies; the statement it sent may be on its way or not.
Crash(p) ==
  /\ Running(p)
  /\ Goto(p, "crashed")
  /\ conn' = [conn EXCEPT ![p] = "gone"]
  /\ \E s \in {pc[p], "none"} : inflight' = [inflight EXCEPT ![p] = s]
  /\ UNCHANGED <<history, recorded, lock, next, txn>>

\* The server runs a statement nobody waits for any more.
RunLate(p) ==
  /\ conn[p] = "gone"
  /\ inflight[p] # "none"
  /\ ServerRuns(p, inflight[p])
  /\ inflight' = [inflight EXCEPT ![p] = "none"]
  /\ UNCHANGED <<pc, next, conn>>

\* The server notices that the connection is closed and ends the session.
EndSession(p) ==
  /\ conn[p] = "gone"
  /\ conn' = [conn EXCEPT ![p] = "closed"]
  /\ lock' = IF lock = p THEN None ELSE lock
  /\ txn' = [txn EXCEPT ![p] = {}]
  /\ inflight' = [inflight EXCEPT ![p] = "none"]
  /\ UNCHANGED <<history, recorded, pc, next>>

-----------------------------------------------------------------------------
Succeed(p) ==
  \/ AcquireLock(p) \/ CreateTable(p) \/ CheckFile(p) \/ ExecFile(p)
  \/ RecordFile(p) \/ CommitFile(p) \/ Unlock(p)

\* A statement ends, one way or the other.
Step(p) == Succeed(p) \/ Refused(p) \/ Lost(p)

Server(p) == RunLate(p) \/ EndSession(p)

\* Every process has run and every session has ended.
Quiet ==
  /\ \A p \in Procs : pc[p] \in Outcomes /\ conn[p] # "gone"
  /\ UNCHANGED vars

Next == (\E p \in Procs : Start(p) \/ Step(p) \/ Crash(p) \/ Server(p)) \/ Quiet

Spec == Init /\ [][Next]_vars

\* Every statement runs under a deadline (15 s for Apply, 5 s for the unlock), so
\* it ends; PostgreSQL ends the session of a closed connection.
Fairness == \A p \in Procs : WF_vars(Step(p)) /\ WF_vars(EndSession(p))

FairSpec == Spec /\ Fairness

-----------------------------------------------------------------------------
(* Properties.                                                             *)

\* The promise of Apply: SchemaUpgrade with the committed files as the schema and
\* the processes whose Apply returned nil as the servers that serve.
Upgrade == INSTANCE SchemaUpgrade WITH
             schema <- history, serving <- {p \in Procs : pc[p] = "done"}

\* However many replicas start, fail or crash together, each file takes effect
\* once, in order, and no server serves on an older schema than it was built for.
UpgradeSpec == Upgrade!Spec

\* schema_migrations tells the truth: exactly the files that took effect are
\* recorded, even when a commit is answered by an error.
RecordedIsApplied == recorded = {history[i] : i \in 1 .. Len(history)}

\* No connection goes back to the pool with the advisory lock: it would hold it
\* for as long as the process lives, and no other replica could start.
PooledHoldsNoLock == \A p \in Procs : conn[p] = "pooled" => lock # p

\* One session at a time has work in a transaction, and it is the lock's holder:
\* also a session whose client is gone and whose commit may still come.
OneMigrator == \A p \in Procs : txn[p] # {} => lock = p

\* The lock is always given back, whoever fails or dies while holding it.
LockIsReleased == \A p \in Procs : lock = p ~> lock # p
=============================================================================
