--------------------------- MODULE MigrateProofs ---------------------------
(***************************************************************************)
(* Proofs about Migrate, for any number of processes built with any number *)
(* of migrations.  The argument: a session inside the locked part of Apply *)
(* holds the lock, also after its client has gone and while its commit may *)
(* still come; only the holder of the lock adds to the history; and before *)
(* a file is run, Apply has seen under that lock that it is the next one.  *)
(***************************************************************************)
EXTENDS Migrate, SequenceTheorems, TLAPS

\* The statements sent between the lock and its release.
Locked == {"table", "check", "exec", "record", "commit", "unlock"}

\* The files took effect once, in order, and are recorded.
InOrder == /\ history = [i \in 1 .. Len(history) |-> i]
           /\ recorded = 1 .. Len(history)

\* Where the connection of p is, and what the server may still do for it.
Connection(p) ==
  /\ pc[p] = "off" => conn[p] = "none"
  /\ pc[p] \in Statements => conn[p] = "open"
  /\ pc[p] \in {"off"} \cup Statements => inflight[p] = "none"
  /\ pc[p] \in Outcomes => conn[p] \in {"pooled", "gone", "closed"}

\* The session of p holds the lock while it is, or may yet be, in the locked part.
Holding(p) ==
  /\ pc[p] \in Locked => lock = p
  /\ conn[p] = "gone" /\ inflight[p] \in Locked => lock = p
  /\ pc[p] \in {"off", "lock"} => lock # p
  /\ conn[p] = "gone" /\ inflight[p] = "lock" => lock # p
  /\ conn[p] \in {"pooled", "closed"} => lock # p

\* What the open transaction of p has done.
Working(p) ==
  /\ pc[p] \in {"off", "lock", "table", "check", "exec", "unlock"} => txn[p] = {}
  /\ pc[p] = "record" => txn[p] = {"ran"}
  /\ pc[p] = "commit" => txn[p] = {"ran", "recorded"}
  /\ conn[p] = "gone" /\ inflight[p] \in {"lock", "unlock"} => txn[p] = {}
  /\ conn[p] = "gone" /\ inflight[p] = "commit" => txn[p] = {"ran", "recorded"}
  /\ txn[p] # {} => lock = p

\* The file p is at, against the files that took effect.
Position(p) ==
  /\ next[p] >= 1
  /\ pc[p] \in {"off", "lock", "table"} => next[p] = 1
  /\ pc[p] \in {"check", "unlock"} => next[p] <= Len(history) + 1
  /\ pc[p] \in {"exec", "record", "commit"} => next[p] = Len(history) + 1
  /\ conn[p] = "gone" /\ inflight[p] = "commit" => next[p] = Len(history) + 1
  /\ pc[p] = "done" => Version[p] <= Len(history)

PInv(p) == Connection(p) /\ Holding(p) /\ Working(p) /\ Position(p)

IInv == TypeOK /\ InOrder /\ \A p \in Procs : PInv(p)

-----------------------------------------------------------------------------
\* The state before any server was started.
LEMMA InitIInv == Init => IInv
  BY VersionAssumption, NoneAssumption
     DEF Init, IInv, TypeOK, InOrder, PInv, Connection, Holding, Working, Position,
         Statements, Outcomes, Locked

\* The file that is committed is the one after the last: the history stays in
\* order and schema_migrations agrees with it.
LEMMA CommitNext ==
  ASSUME TypeOK, InOrder, NEW f \in Nat, f = Len(history) + 1,
         history' = Append(history, f), recorded' = recorded \cup {f}
  PROVE  /\ InOrder' /\ Len(history') = Len(history) + 1
         /\ history' \in Seq(Nat) /\ recorded' \in SUBSET Nat
  <1>1. Len(history') = Len(history) + 1 BY DEF TypeOK
  <1>2. history' = [i \in 1 .. Len(history') |-> i]
    BY <1>1 DEF TypeOK, InOrder
  <1>3. recorded' = 1 .. Len(history') BY <1>1 DEF TypeOK, InOrder
  <1>4. history' \in Seq(Nat) BY AppendProperties DEF TypeOK
  <1>5. recorded' \in SUBSET Nat BY DEF TypeOK
  <1> QED BY <1>1, <1>2, <1>3, <1>4, <1>5 DEF InOrder

\* A step of p that leaves the history alone, and the lock unless it was free or
\* p's own, preserves what the invariant says of every other process.
LEMMA OthersUndisturbed ==
  ASSUME IInv, NEW p \in Procs, NEW q \in Procs, q # p,
         pc'[q] = pc[q], next'[q] = next[q], conn'[q] = conn[q], txn'[q] = txn[q],
         inflight'[q] = inflight[q],
         lock' = lock \/ (lock \in {p, None} /\ lock' \in {p, None}),
         \/ history' = history
         \/ Len(history') = Len(history) + 1 /\ lock = p
  PROVE  PInv(q)'
  <1>1. lock' = q <=> lock = q BY NoneAssumption
  <1>2. Connection(q)' BY DEF IInv, PInv, Connection
  <1>3. Holding(q)' BY <1>1 DEF IInv, PInv, Holding
  <1>4. Working(q)' BY <1>1 DEF IInv, PInv, Working
  <1>5. Len(history) \in Nat /\ Version[q] \in Nat /\ next[q] \in Nat
    BY VersionAssumption DEF IInv, TypeOK
  <1>6. Position(q)'
    <2>1. CASE history' = history BY <2>1 DEF IInv, PInv, Position
    <2>2. CASE Len(history') = Len(history) + 1 /\ lock = p
      <3>1. pc[q] \notin {"exec", "record", "commit"}
        BY <2>2 DEF IInv, PInv, Holding, Locked
      <3>2. ~(conn[q] = "gone" /\ inflight[q] = "commit")
        BY <2>2 DEF IInv, PInv, Holding, Locked
      <3> QED BY <1>5, <2>2, <3>1, <3>2 DEF IInv, PInv, Position
    <2> QED BY <2>1, <2>2
  <1> QED BY <1>2, <1>3, <1>4, <1>6 DEF PInv


\* Every step preserves the invariant: one case per action, and under it the
\* types, the history, the process that moves and the others.
LEMMA StepIInv == IInv /\ [Next]_vars => IInv'
  <1> SUFFICES ASSUME IInv, [Next]_vars PROVE IInv'
    OBVIOUS
  <1> USE DEF Statements, Outcomes, Locked
  <1>t. TypeOK /\ InOrder /\ Len(history) \in Nat
    BY DEF IInv, TypeOK
  <1>s. ASSUME NEW p \in Procs, TypeOK', InOrder', PInv(p)',
               \A q \in Procs \ {p} : /\ pc'[q] = pc[q] /\ next'[q] = next[q]
                                      /\ conn'[q] = conn[q] /\ txn'[q] = txn[q]
                                      /\ inflight'[q] = inflight[q],
               lock' = lock \/ (lock \in {p, None} /\ lock' \in {p, None}),
               \/ history' = history
               \/ Len(history') = Len(history) + 1 /\ lock = p
        PROVE  IInv'
    BY <1>s, OthersUndisturbed DEF IInv
  <1>1. ASSUME NEW p \in Procs, Start(p) PROVE IInv'
    <2> USE <1>1, <1>t DEF Start, Goto
    <2>1. TypeOK' BY DEF TypeOK
    <2>2. InOrder' BY DEF InOrder
    <2>3. PInv(p)' BY DEF TypeOK, IInv, PInv, Connection, Holding, Working, Position
    <2> QED BY <2>1, <2>2, <2>3, <1>s DEF TypeOK
  <1>2. ASSUME NEW p \in Procs, AcquireLock(p) PROVE IInv'
    <2> USE <1>2, <1>t DEF AcquireLock, Statement, ServerRuns, Goto
    <2>1. TypeOK' BY DEF TypeOK
    <2>2. InOrder' BY DEF InOrder
    <2>3. PInv(p)' BY DEF TypeOK, IInv, PInv, Connection, Holding, Working, Position
    <2> QED BY <2>1, <2>2, <2>3, <1>s DEF TypeOK
  <1>3. ASSUME NEW p \in Procs, CreateTable(p) PROVE IInv'
    <2> USE <1>3, <1>t DEF CreateTable, Statement, ServerRuns, Goto
    <2>1. TypeOK' BY DEF TypeOK
    <2>2. InOrder' BY DEF InOrder
    <2>3. PInv(p)' BY DEF TypeOK, IInv, PInv, Connection, Holding, Working, Position
    <2> QED BY <2>1, <2>2, <2>3, <1>s DEF TypeOK
  <1>4. ASSUME NEW p \in Procs, CheckFile(p) PROVE IInv'
    <2> USE <1>4, <1>t DEF CheckFile, AfterFile, Statement, ServerRuns, Goto
    <2>1. TypeOK' BY VersionAssumption DEF TypeOK
    <2>2. InOrder' BY DEF InOrder
    <2>3. PInv(p)'
      <3>1. Connection(p)' /\ Holding(p)' /\ Working(p)'
        BY DEF TypeOK, IInv, PInv, Connection, Holding, Working
      <3>2. next[p] \in Nat /\ next[p] <= Len(history) + 1
        BY DEF TypeOK, IInv, PInv, Position
      <3>3. conn'[p] = "open" /\ next'[p] \in Nat
        BY <3>2 DEF TypeOK, IInv, PInv, Connection
      <3>4. ASSUME next[p] \in recorded PROVE Position(p)'
        <4>1. next'[p] = next[p] + 1 /\ next[p] <= Len(history)
          BY <3>4 DEF TypeOK, InOrder
        <4>2. pc'[p] \in {"check", "unlock"} BY <3>4 DEF TypeOK
        <4> QED BY <3>2, <3>3, <4>1, <4>2 DEF Position
      <3>5. ASSUME next[p] \notin recorded PROVE Position(p)'
        <4>1. next'[p] = next[p] /\ next[p] = Len(history) + 1
          <5>1. next'[p] = next[p] BY <3>5 DEF TypeOK
          <5>2. next[p] >= 1 BY DEF IInv, PInv, Position
          <5>3. ~(next[p] <= Len(history)) BY <3>2, <3>5, <5>2 DEF InOrder
          <5> QED BY <3>2, <5>1, <5>3
        <4>2. pc'[p] = "exec" BY <3>5 DEF TypeOK
        <4> QED BY <3>2, <3>3, <4>1, <4>2 DEF Position
      <3>6. Position(p)' BY <3>4, <3>5
      <3> QED BY <3>1, <3>6 DEF PInv
    <2> QED BY <2>1, <2>2, <2>3, <1>s DEF TypeOK
  <1>5. ASSUME NEW p \in Procs, ExecFile(p) PROVE IInv'
    <2> USE <1>5, <1>t DEF ExecFile, Statement, ServerRuns, Goto
    <2>1. TypeOK' BY DEF TypeOK
    <2>2. InOrder' BY DEF InOrder
    <2>3. PInv(p)' BY DEF TypeOK, IInv, PInv, Connection, Holding, Working, Position
    <2> QED BY <2>1, <2>2, <2>3, <1>s DEF TypeOK
  <1>6. ASSUME NEW p \in Procs, RecordFile(p) PROVE IInv'
    <2> USE <1>6, <1>t DEF RecordFile, Statement, ServerRuns, Goto
    <2>1. TypeOK' BY DEF TypeOK
    <2>2. InOrder' BY DEF InOrder
    <2>3. PInv(p)' BY DEF TypeOK, IInv, PInv, Connection, Holding, Working, Position
    <2> QED BY <2>1, <2>2, <2>3, <1>s DEF TypeOK
  <1>7. ASSUME NEW p \in Procs, CommitFile(p) PROVE IInv'
    <2> USE <1>7, <1>t DEF CommitFile, AfterFile, Statement, ServerRuns, Goto
    <2>1. /\ next[p] \in Nat /\ next[p] = Len(history) + 1 /\ lock = p
          /\ txn[p] = {"ran", "recorded"}
      BY DEF TypeOK, IInv, PInv, Holding, Working, Position
    <2>2. history' = Append(history, next[p]) /\ recorded' = recorded \cup {next[p]}
      BY <2>1
    <2>3. /\ InOrder' /\ Len(history') = Len(history) + 1
          /\ history' \in Seq(Nat) /\ recorded' \in SUBSET Nat
      BY <2>1, <2>2, CommitNext
    <2>4. TypeOK'
      <3>2. pc' \in [Procs -> {"off"} \cup Statements \cup Outcomes] BY DEF TypeOK
      <3>3. next' \in [Procs -> Nat] /\ txn' \in [Procs -> SUBSET {"ran", "recorded"}]
        BY <2>1 DEF TypeOK
      <3> QED BY <2>1, <2>3, <3>2, <3>3 DEF TypeOK
    <2>5. PInv(p)'
      <3>1. Connection(p)' /\ Holding(p)' /\ Working(p)'
        BY <2>1 DEF TypeOK, IInv, PInv, Connection, Holding, Working
      <3>2. Position(p)' BY <2>1, <2>3 DEF TypeOK, IInv, PInv, Connection, Position
      <3> QED BY <3>1, <3>2 DEF PInv
    <2> QED BY <2>1, <2>3, <2>4, <2>5, <1>s DEF TypeOK
  <1>8. ASSUME NEW p \in Procs, Unlock(p) PROVE IInv'
    <2> USE <1>8, <1>t DEF Unlock, Result, Statement, ServerRuns, Goto
    <2>1. lock = p /\ next[p] <= Len(history) + 1 /\ txn[p] = {} /\ inflight[p] = inflight'[p]
      BY DEF IInv, PInv, Holding, Working, Position
    <2>2. TypeOK' BY <2>1 DEF TypeOK
    <2>3. InOrder' BY DEF InOrder
    <2>4. PInv(p)'
      <3>1. Connection(p)' /\ Holding(p)' /\ Working(p)'
        BY <2>1, NoneAssumption DEF TypeOK, IInv, PInv, Connection, Holding, Working
      <3>2. Position(p)'
        BY <2>1, VersionAssumption DEF TypeOK, IInv, PInv, Connection, Position
      <3> QED BY <3>1, <3>2 DEF PInv
    <2> QED BY <2>1, <2>2, <2>3, <2>4, <1>s DEF TypeOK
  <1>9. ASSUME NEW p \in Procs, Refused(p) PROVE IInv'
    <2> USE <1>9, <1>t DEF Refused, Running, Goto
    <2>1. TypeOK' BY DEF TypeOK
    <2>2. InOrder' BY DEF InOrder
    <2>3. CASE pc[p] \in {"lock", "unlock"}
      <3>1. /\ pc'[p] = "failed" /\ conn'[p] = "gone" /\ txn'[p] = {}
            /\ inflight'[p] = inflight[p]
        BY <2>3 DEF TypeOK
      <3>2. inflight[p] = "none"
        BY <2>3 DEF TypeOK, IInv, PInv, Connection
      <3>3. PInv(p)'
        BY <3>1, <3>2 DEF TypeOK, IInv, PInv, Connection, Holding, Working, Position
      <3> QED BY <2>1, <2>2, <3>3, <1>s DEF TypeOK
    <2>4. CASE pc[p] \notin {"lock", "unlock"}
      <3>1. /\ pc'[p] = "unlock" /\ conn'[p] = "open" /\ txn'[p] = {} /\ lock = p
            /\ lock' = lock /\ inflight'[p] = "none"
        BY <2>4 DEF TypeOK, IInv, PInv, Connection, Holding
      <3>2. Connection(p)' /\ Holding(p)' /\ Working(p)'
        BY <3>1 DEF Connection, Holding, Working
      <3>3. next[p] >= 1 /\ next[p] <= Len(history) + 1
        BY <2>4 DEF TypeOK, IInv, PInv, Position
      <3>4. Position(p)' BY <3>1, <3>3 DEF Position
      <3>5. PInv(p)' BY <3>2, <3>4 DEF PInv
      <3> QED BY <2>1, <2>2, <2>4, <3>5, <1>s DEF TypeOK
    <2> QED BY <2>3, <2>4
  <1>10. ASSUME NEW p \in Procs, Lost(p) PROVE IInv'
    <2> USE <1>10, <1>t DEF Lost, Running, Goto
    <2>1. TypeOK' BY DEF TypeOK
    <2>2. InOrder' BY DEF InOrder
    <2>3. PInv(p)' BY DEF TypeOK, IInv, PInv, Connection, Holding, Working, Position
    <2> QED BY <2>1, <2>2, <2>3, <1>s DEF TypeOK
  <1>11. ASSUME NEW p \in Procs, Crash(p) PROVE IInv'
    <2> USE <1>11, <1>t DEF Crash, Running, Goto
    <2>0. PICK s \in {pc[p], "none"} : inflight' = [inflight EXCEPT ![p] = s]
      OBVIOUS
    <2>1. TypeOK' BY <2>0 DEF TypeOK
    <2>2. InOrder' BY DEF InOrder
    <2>3. PInv(p)'
      BY <2>0 DEF TypeOK, IInv, PInv, Connection, Holding, Working, Position
    <2> QED BY <2>0, <2>1, <2>2, <2>3, <1>s DEF TypeOK
  <1>12. ASSUME NEW p \in Procs, RunLate(p) PROVE IInv'
    <2> USE <1>12, <1>t DEF RunLate, ServerRuns
    <2>0. /\ pc[p] \in Outcomes /\ inflight[p] \in Statements
          /\ inflight[p] # "lock" => lock = p
      BY DEF TypeOK, IInv, PInv, Connection, Holding
    <2>1. CASE inflight[p] = "commit"
      <3>1. /\ next[p] \in Nat /\ next[p] = Len(history) + 1 /\ lock = p
            /\ txn[p] = {"ran", "recorded"}
        BY <2>1 DEF TypeOK, IInv, PInv, Holding, Working, Position
      <3>2. history' = Append(history, next[p]) /\ recorded' = recorded \cup {next[p]}
        BY <2>1, <3>1
      <3>3. /\ InOrder' /\ Len(history') = Len(history) + 1
            /\ history' \in Seq(Nat) /\ recorded' \in SUBSET Nat
        BY <3>1, <3>2, CommitNext
      <3>4. TypeOK'
        <4>2. txn' \in [Procs -> SUBSET {"ran", "recorded"}] BY <2>1 DEF TypeOK
        <4>3. inflight' \in [Procs -> Statements \cup {"none"}] BY DEF TypeOK
        <4> QED BY <2>1, <3>1, <3>3, <4>2, <4>3 DEF TypeOK
      <3>5. PInv(p)'
        <4>1. Connection(p)' /\ Holding(p)' /\ Working(p)'
          BY <2>0, <2>1, <3>1 DEF TypeOK, IInv, PInv, Connection, Holding, Working
        <4>2. Version[p] \in Nat BY VersionAssumption
        <4>3. Position(p)'
          BY <2>0, <2>1, <3>3, <4>2 DEF TypeOK, IInv, PInv, Position
        <4> QED BY <4>1, <4>3 DEF PInv
      <3> QED BY <2>1, <3>1, <3>3, <3>4, <3>5, <1>s DEF TypeOK
    <2>2. CASE inflight[p] # "commit"
      <3>1. history' = history /\ recorded' = recorded BY <2>2
      <3>2. TypeOK' BY <2>2 DEF TypeOK
      <3>3. InOrder' BY <3>1 DEF InOrder
      <3>4. PInv(p)'
        <4>1. Connection(p)' BY <2>0 DEF TypeOK, IInv, PInv, Connection
        <4>2. Holding(p)' BY <2>0, <2>2 DEF TypeOK, IInv, PInv, Connection, Holding
        <4>3. Working(p)' BY <2>0, <2>2, NoneAssumption DEF TypeOK, IInv, PInv, Working
        <4>4. Position(p)' BY <2>0, <3>1 DEF TypeOK, IInv, PInv, Position
        <4> QED BY <4>1, <4>2, <4>3, <4>4 DEF PInv
      <3>5. lock' = lock \/ (lock \in {p, None} /\ lock' \in {p, None})
        BY <2>0, <2>2
      <3> QED BY <3>1, <3>2, <3>3, <3>4, <3>5, <1>s DEF TypeOK
    <2> QED BY <2>1, <2>2
  <1>13. ASSUME NEW p \in Procs, EndSession(p) PROVE IInv'
    <2> USE <1>13, <1>t DEF EndSession
    <2>0. pc[p] \in Outcomes BY DEF TypeOK, IInv, PInv, Connection
    <2>1. TypeOK' BY DEF TypeOK
    <2>2. InOrder' BY DEF InOrder
    <2>3. PInv(p)'
      BY <2>0, NoneAssumption
         DEF TypeOK, IInv, PInv, Connection, Holding, Working, Position
    <2> QED BY <2>1, <2>2, <2>3, <1>s DEF TypeOK
  <1>14. CASE UNCHANGED vars
    BY <1>14 DEF vars, IInv, TypeOK, InOrder, PInv, Connection, Holding, Working, Position
  <1> QED
    BY <1>1, <1>2, <1>3, <1>4, <1>5, <1>6, <1>7, <1>8, <1>9, <1>10, <1>11, <1>12, <1>13,
       <1>14 DEF Next, Step, Succeed, Server, Quiet

\* The invariant of every execution.
LEMMA Invariant == Spec => []IInv
  BY InitIInv, StepIInv, PTL DEF Spec

\* Type correctness.
THEOREM TypeCorrect == Spec => []TypeOK
  BY Invariant, PTL DEF IInv

\* schema_migrations agrees with the files that took effect, through refused
\* statements, lost answers, crashes and commits that come late.
THEOREM RecordsTellTheTruth == Spec => []RecordedIsApplied
  <1>1. IInv => RecordedIsApplied
    BY DEF IInv, TypeOK, InOrder, RecordedIsApplied
  <1> QED BY Invariant, <1>1, PTL

\* No connection goes back to the pool while its session holds the lock.
THEOREM PoolIsClean == Spec => []PooledHoldsNoLock
  <1>1. IInv => PooledHoldsNoLock
    BY DEF IInv, PInv, Holding, PooledHoldsNoLock
  <1> QED BY Invariant, <1>1, PTL

\* At most one session has work in a transaction, and it holds the lock.
THEOREM MigratorsExclude == Spec => []OneMigrator
  <1>1. IInv => OneMigrator
    BY DEF IInv, PInv, Working, OneMigrator
  <1> QED BY Invariant, <1>1, PTL

\* Apply implements its promise: the files take effect once and in order, and a
\* server serves only on a schema that has all of its own.
THEOREM ImplementsUpgrade == Spec => UpgradeSpec
  <1> USE DEF Statements, Outcomes, Locked
  <1>1. Init => Upgrade!Init
    BY DEF Init, Upgrade!Init
  <1>2. IInv /\ [Next]_vars => [Upgrade!Next]_<<history, {p \in Procs : pc[p] = "done"}>>
    <2> DEFINE serving == {p \in Procs : pc[p] = "done"}
    <2> SUFFICES ASSUME IInv, [Next]_vars
                 PROVE  \/ Upgrade!Next
                        \/ history' = history /\ serving' = serving
      OBVIOUS
    <2>s. ASSUME NEW p \in Procs, pc' = [pc EXCEPT ![p] = pc'[p]],
                 pc[p] # "done", pc'[p] # "done"
          PROVE  serving' = serving
      BY <2>s DEF IInv, TypeOK
    <2>h. ASSUME NEW p \in Procs, next[p] = Len(history) + 1,
                 history' = Append(history, next[p]), serving' = serving
          PROVE  Upgrade!Next
      BY <2>h DEF Upgrade!Next, Upgrade!Upgrade
    <2>1. ASSUME NEW p \in Procs, Start(p) \/ Refused(p) \/ Lost(p) \/ Crash(p)
          PROVE  history' = history /\ serving' = serving
      <3>1. history' = history /\ pc[p] # "done" /\ pc'[p] # "done"
        BY <2>1 DEF IInv, TypeOK, Start, Refused, Lost, Crash, Running, Goto
      <3>2. pc' = [pc EXCEPT ![p] = pc'[p]]
        BY <2>1 DEF IInv, TypeOK, Start, Refused, Lost, Crash, Goto
      <3> QED BY <2>s, <3>1, <3>2
    <2>2. ASSUME NEW p \in Procs,
                 AcquireLock(p) \/ CreateTable(p) \/ CheckFile(p) \/ ExecFile(p) \/ RecordFile(p)
          PROVE  history' = history /\ serving' = serving
      <3>1. history' = history /\ pc[p] # "done" /\ pc'[p] # "done"
        BY <2>2 DEF IInv, TypeOK, AcquireLock, CreateTable, CheckFile, ExecFile, RecordFile,
                    AfterFile, Statement, ServerRuns, Goto
      <3>2. pc' = [pc EXCEPT ![p] = pc'[p]]
        BY <2>2 DEF IInv, TypeOK, AcquireLock, CreateTable, CheckFile, ExecFile, RecordFile,
                    Statement, Goto
      <3> QED BY <2>s, <3>1, <3>2
    <2>3. ASSUME NEW p \in Procs, CommitFile(p) PROVE Upgrade!Next
      <3>1. next[p] = Len(history) + 1 /\ txn[p] = {"ran", "recorded"}
        BY <2>3 DEF IInv, PInv, Working, Position, CommitFile, Statement
      <3>2. history' = Append(history, next[p])
        BY <2>3, <3>1 DEF CommitFile, Statement, ServerRuns
      <3>3. pc' = [pc EXCEPT ![p] = pc'[p]] /\ pc[p] # "done" /\ pc'[p] # "done"
        BY <2>3 DEF IInv, TypeOK, CommitFile, AfterFile, Statement, Goto
      <3> QED BY <2>s, <2>h, <3>1, <3>2, <3>3
    <2>4. ASSUME NEW p \in Procs, Unlock(p)
          PROVE  Upgrade!Next \/ (history' = history /\ serving' = serving)
      <3>1. history' = history /\ lock = p /\ next[p] <= Len(history) + 1
        BY <2>4 DEF IInv, PInv, Holding, Position, Unlock, Statement, ServerRuns
      <3>2. pc' = [pc EXCEPT ![p] = Result(p)] /\ pc[p] # "done"
        BY <2>4, <3>1 DEF Unlock, Statement, Goto
      <3>3. CASE next[p] > Version[p]
        <4>1. Version[p] <= Len(history)
          BY <3>1, <3>3, VersionAssumption DEF IInv, TypeOK
        <4>2. serving' = serving \cup {p}
          BY <3>2, <3>3 DEF IInv, TypeOK, Result
        <4>3. Upgrade!Serve(p) BY <3>1, <4>1, <4>2 DEF Upgrade!Serve
        <4> QED BY <4>3 DEF Upgrade!Next
      <3>4. CASE ~(next[p] > Version[p])
        <4>1. serving' = serving BY <3>2, <3>4 DEF IInv, TypeOK, Result
        <4> QED BY <3>1, <4>1
      <3> QED BY <3>3, <3>4
    <2>5. ASSUME NEW p \in Procs, RunLate(p)
          PROVE  Upgrade!Next \/ (history' = history /\ serving' = serving)
      <3>1. serving' = serving BY <2>5 DEF RunLate
      <3>2. CASE inflight[p] = "commit"
        <4>1. next[p] = Len(history) + 1 /\ txn[p] = {"ran", "recorded"}
          BY <2>5, <3>2 DEF IInv, PInv, Working, Position, RunLate
        <4>2. history' = Append(history, next[p])
          BY <2>5, <3>2, <4>1 DEF RunLate, ServerRuns
        <4> QED BY <2>h, <3>1, <4>1, <4>2
      <3>3. CASE inflight[p] # "commit"
        BY <2>5, <3>1, <3>3 DEF RunLate, ServerRuns
      <3> QED BY <3>2, <3>3
    <2>6. ASSUME NEW p \in Procs, EndSession(p)
          PROVE  history' = history /\ serving' = serving
      BY <2>6 DEF EndSession
    <2>7. CASE UNCHANGED vars BY <2>7 DEF vars
    <2> QED
      BY <2>1, <2>2, <2>3, <2>4, <2>5, <2>6, <2>7 DEF Next, Step, Succeed, Server, Quiet
  <1> QED BY Invariant, <1>1, <1>2, PTL DEF Spec, UpgradeSpec, Upgrade!Spec
=============================================================================
