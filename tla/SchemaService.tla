--------------------------- MODULE SchemaService ---------------------------
(***************************************************************************)
(* Changes of a table's structure: schema/service.go, schema/generate.go   *)
(* and the schema routes of httpapi/router.go.  A preview turns a list of  *)
(* operations into DDL and signs it, with a fingerprint of the structure,  *)
(* into a token; executing the token reads the structure again and runs    *)
(* the DDL, in one transaction on PostgreSQL and statement by statement on *)
(* MySQL.  The structure is the set of facts that the fingerprint tells    *)
(* apart, about one column; names, types and SQL text are left out.  The   *)
(* operations previewed have valid names and types, and there is at least  *)
(* one of them.  The queries of DescribeTable are one step.  Time appears  *)
(* only as the second a token expires in: two equal previews of one second *)
(* are the same token, and any token may have expired when it is verified. *)
(* The server is not restarted: its used tokens are in memory.             *)
(***************************************************************************)
EXTENDS Naturals, Sequences, FiniteSets

CONSTANTS
  Reqs,        \* the requests served at the same time
  Changes,     \* the lists of operations that clients preview
  Drifts,      \* the structures other programs may give the table
  Expiries,    \* the seconds at which tokens expire
  MaxTokens,   \* bound on the previews
  Partial,     \* may the queries for keys, indexes and foreign keys fail?
  None

Facts == {"column", "renamed", "comment", "altered", "primary", "index", "foreign"}
Kinds == {"add_column", "add_commented_column", "drop_column", "rename_column", "alter_column",
          "set_column_comment", "set_primary", "drop_primary", "add_index", "drop_index",
          "add_foreign_key", "drop_foreign_key"}
Dialects == {"postgres", "mysql"}

ASSUME ChangesAssumption == Changes \subseteq Seq(Kinds) \ {<<>>}
ASSUME DriftsAssumption == Drifts \subseteq SUBSET Facts
ASSUME BoundsAssumption == MaxTokens \in Nat /\ Partial \in BOOLEAN
ASSUME NoneAssumption == None \notin Reqs

VARIABLES
  dialect,     \* of the database connected to
  table,       \* the structure, as committed
  lock,        \* the request whose transaction has the table locked (PostgreSQL)
  issued,      \* the tokens signed so far
  used,        \* Service.used
  ran,         \* the tokens whose DDL was admitted
  reran,       \* those that were admitted once more
  req          \* the requests in progress

vars == <<dialect, table, lock, issued, used, ran, reran, req>>

-----------------------------------------------------------------------------
(* Generate: the statements of an operation.  A statement fails unless the *)
(* facts it needs hold and those it adds do not.                           *)

Statement(need, del, add, destructive) ==
  [need |-> need, del |-> del, add |-> add, destructive |-> destructive]

Statements(d, kind) ==
  LET column(add) == Statement({}, {}, add, FALSE)
      \* MySQL's MODIFY COLUMN states the whole definition again.
      alter(f) == Statement({"column"}, IF d = "mysql" THEN {"altered", "comment"} ELSE {f}, {f}, FALSE)
      drop(f) == Statement({f}, {f}, {}, TRUE)
      dropKey == Statement({}, {"primary"}, {}, TRUE)     \* DROP CONSTRAINT IF EXISTS
  IN  CASE kind = "add_column" -> <<column({"column"})>>
        [] kind = "add_commented_column" ->
             IF d = "postgres" THEN <<column({"column"}), alter("comment")>>
                               ELSE <<column({"column", "comment"})>>
        [] kind = "drop_column" ->
             <<Statement({"column"}, Facts \ {"renamed"}, {}, TRUE)>>
        [] kind = "rename_column" -> <<Statement({"column"}, {"column"}, {"renamed"}, FALSE)>>
        [] kind = "alter_column" -> <<alter("altered")>>
        [] kind = "set_column_comment" -> <<alter("comment")>>
        [] kind = "set_primary" ->
             IF d = "postgres" THEN <<dropKey, Statement({"column"}, {}, {"primary"}, FALSE)>>
                               ELSE <<Statement({"column", "primary"}, {"primary"}, {"primary"}, FALSE)>>
        [] kind = "drop_primary" ->
             IF d = "postgres" THEN <<dropKey>> ELSE <<drop("primary")>>
        [] kind = "add_index" -> <<Statement({"column"}, {}, {"index"}, FALSE)>>
        [] kind = "drop_index" -> <<drop("index")>>
        [] kind = "add_foreign_key" -> <<Statement({"column"}, {}, {"foreign"}, FALSE)>>
        [] kind = "drop_foreign_key" -> <<drop("foreign")>>

Generate(d, ops) ==
  LET upTo[i \in 0 .. Len(ops)] ==
        IF i = 0 THEN <<>> ELSE upTo[i - 1] \o Statements(d, ops[i])
  IN  upTo[Len(ops)]

Can(s, st) == s.need \subseteq st /\ (st \ s.del) \cap s.add = {}
Apply(s, st) == (st \ s.del) \cup s.add

-----------------------------------------------------------------------------
StatementType == [need: SUBSET Facts, del: SUBSET Facts, add: SUBSET Facts, destructive: BOOLEAN]

\* A token: what was signed, and the structure the table had when it was.
Token(fp, exp, ddl, base) == [fp |-> fp, exp |-> exp, ddl |-> ddl, base |-> base]

Idle == [pc |-> "idle", tok |-> None, current |-> {}, confirmed |-> FALSE, i |-> 1,
         work |-> {}, applied |-> 0, moved |-> FALSE]

Signed(t) ==
  /\ t.fp \in SUBSET Facts /\ t.base \in SUBSET Facts /\ t.exp \in Expiries
  /\ t.ddl \in Seq(StatementType)

\* A request is admitted while its DDL may run.
Admitted == {"begin", "run", "commit"}

TypeOK ==
  /\ dialect \in Dialects
  /\ table \in SUBSET Facts
  /\ lock # None => lock \in Reqs /\ req[lock].pc \in {"run", "commit"}
  /\ \A t \in issued : Signed(t)
  /\ used \subseteq issued
  /\ ran \subseteq issued /\ reran \subseteq ran
  /\ \A r \in Reqs :
       /\ req[r].pc \in {"idle", "verify", "ok", "failed"} \cup Admitted
       /\ req[r].tok \in issued \cup {None}
       /\ req[r].current \in SUBSET Facts /\ req[r].work \in SUBSET Facts
       /\ req[r].confirmed \in BOOLEAN /\ req[r].moved \in BOOLEAN
       /\ req[r].i \in Nat /\ req[r].applied \in Nat

Init ==
  /\ dialect \in Dialects
  /\ table = {"column", "primary"}
  /\ lock = None
  /\ issued = {} /\ used = {} /\ ran = {} /\ reran = {}
  /\ req = [r \in Reqs |-> Idle]

-----------------------------------------------------------------------------
\* DescribeTable: the query for the columns must succeed; when those for the keys
\* or for indexes and foreign keys fail, the error is ignored and they are missing.
Reads ==
  IF Partial THEN {table, table \ {"primary"}, table \ {"index", "foreign"},
                   table \ {"primary", "index", "foreign"}}
             ELSE {table}

Preview(ops, fp, exp) ==
  LET t == Token(fp, exp, Generate(dialect, ops), table) IN
  /\ Cardinality(issued) < MaxTokens
  /\ fp \in Reads
  /\ issued' = issued \cup {t}
  /\ UNCHANGED <<dialect, table, lock, used, ran, reran, req>>

Become(r, q) == req' = [req EXCEPT ![r] = q]

\* A request that is over: what it read and worked on is forgotten.
Over(q, pc) == [q EXCEPT !.pc = pc, !.current = {}, !.work = {}, !.confirmed = FALSE, !.moved = FALSE]
End(r, pc) == Become(r, Over(req[r], pc))

\* The execute route reads the structure before it calls Execute.
Describe(r, t, c, fp) ==
  /\ req[r].pc \in {"idle", "ok", "failed"}
  /\ t \in issued /\ fp \in Reads
  /\ Become(r, [Idle EXCEPT !.pc = "verify", !.tok = t, !.confirmed = c, !.current = fp])
  /\ UNCHANGED <<dialect, table, lock, issued, used, ran, reran>>

Destructive(t) == \E k \in 1 .. Len(t.ddl) : t.ddl[k].destructive

\* Mutant: no drift check.
VerifiedAnyStructure(r) ==
  Destructive(req[r].tok) => req[r].confirmed

\* The checks of Execute that need neither the clock nor the lock.
Verified(r) ==
  LET t == req[r].tok IN
  t.fp = req[r].current /\ (Destructive(t) => req[r].confirmed)

\* DDL is about to run.
Count(t) == ran' = ran \cup {t} /\ reran' = reran \cup ({t} \cap ran)

\* Mutant: the token is checked and not marked.
AdmitUnmarked(r) ==
  /\ req[r].pc = "verify"
  /\ Verified(r) /\ req[r].tok \notin used
  /\ Count(req[r].tok)
  /\ Become(r, [req[r] EXCEPT !.pc = IF dialect = "postgres" THEN "begin" ELSE "run", !.current = {}])
  /\ UNCHANGED <<dialect, table, lock, issued, used>>

\* The token is checked and marked as used under the service's lock.
Admit(r) ==
  LET t == req[r].tok IN
  /\ req[r].pc = "verify"
  /\ Verified(r) /\ t \notin used
  /\ used' = used \cup {t}
  /\ Count(t)
  /\ Become(r, [req[r] EXCEPT !.pc = IF dialect = "postgres" THEN "begin" ELSE "run", !.current = {}])
  /\ UNCHANGED <<dialect, table, lock, issued>>

\* A check fails, or the token has expired.
Refuse(r) ==
  /\ req[r].pc = "verify"
  /\ Become(r, Idle)
  /\ UNCHANGED <<dialect, table, lock, issued, used, ran, reran>>

\* BeginTx, which may fail: the token stays used.
Begin(r) ==
  /\ req[r].pc = "begin"
  /\ Become(r, [req[r] EXCEPT !.pc = "run"]) \/ End(r, "failed")
  /\ UNCHANGED <<dialect, table, lock, issued, used, ran, reran>>

\* The table gets another structure, and the requests that have read it and have
\* not yet touched it are told apart.
Change(st, q, r) ==
  /\ table' = st
  /\ LET waiting(p) == req[p].i = 1 /\ req[p].pc \in {"verify", "begin", "run"} IN
     req' = [p \in Reqs |-> IF p = r THEN q
                            ELSE [req[p] EXCEPT !.moved = @ \/ (table # st /\ waiting(p))]]

Last(r) == req[r].i = Len(req[r].tok.ddl)
Current(r) == req[r].tok.ddl[req[r].i]

\* A statement has taken effect by itself.
Done(r) ==
  LET q == [req[r] EXCEPT !.i = @ + 1, !.applied = @ + 1, !.moved = FALSE] IN
  IF Last(r) THEN Over(q, "ok") ELSE q

\* Mutant: on PostgreSQL too the statements run outside of the transaction.
ExecPostgresAutocommit(r) ==
  /\ req[r].pc = "run" /\ dialect = "postgres"
  /\ Can(Current(r), table)
  /\ Change(Apply(Current(r), table), Done(r), r)
  /\ UNCHANGED <<dialect, lock, issued, used, ran, reran>>

\* On PostgreSQL a statement runs in the transaction; the first one waits for the
\* lock on the table, here taken as exclusive, which is held until it ends.
ExecPostgres(r) ==
  LET q == req[r]
      st == IF lock = r THEN q.work ELSE table
  IN  /\ q.pc = "run" /\ dialect = "postgres"
      /\ lock \in {r, None}
      /\ Can(Current(r), st)
      /\ lock' = r
      /\ Become(r, [q EXCEPT !.work = Apply(Current(r), st), !.i = @ + 1, !.moved = FALSE,
                             !.pc = IF Last(r) THEN "commit" ELSE @])
      /\ UNCHANGED <<dialect, table, issued, used, ran, reran>>

\* A statement fails, or is cut off with its request: the transaction is rolled back.
\* On MySQL a statement that was cut off may have been executed all the same.
Fail(r) ==
  LET q == req[r] IN
  /\ q.pc = "run"
  /\ lock' = IF lock = r THEN None ELSE lock
  /\ \/ End(r, "failed") /\ UNCHANGED table
     \/ /\ dialect = "mysql" /\ Can(Current(r), table)
        /\ Change(Apply(Current(r), table), Over([q EXCEPT !.applied = @ + 1], "failed"), r)
  /\ UNCHANGED <<dialect, issued, used, ran, reran>>

\* COMMIT; one that is answered by an error may have been executed.
Commit(r) ==
  LET q == req[r] IN
  /\ q.pc = "commit"
  /\ lock' = None
  /\ \/ \E pc \in {"ok", "failed"} :
          Change(q.work, Over([q EXCEPT !.applied = Len(q.tok.ddl)], pc), r)
     \/ End(r, "failed") /\ UNCHANGED table
  /\ UNCHANGED <<dialect, issued, used, ran, reran>>

\* On MySQL every statement takes effect by itself.
ExecMySQL(r) ==
  /\ req[r].pc = "run" /\ dialect = "mysql"
  /\ Can(Current(r), table)
  /\ Change(Apply(Current(r), table), Done(r), r)
  /\ UNCHANGED <<dialect, lock, issued, used, ran, reran>>

\* Another program changes the table.
Drift(st) ==
  /\ lock = None /\ st # table
  /\ Change(st, None, None)
  /\ UNCHANGED <<dialect, lock, issued, used, ran, reran>>

Next ==
  \/ \E ops \in Changes : \E fp \in Reads, exp \in Expiries : Preview(ops, fp, exp)
  \/ \E r \in Reqs :
       \/ \E t \in issued, c \in BOOLEAN : \E fp \in Reads : Describe(r, t, c, fp)
       \/ Admit(r) \/ Refuse(r) \/ Begin(r)
       \/ ExecPostgres(r) \/ ExecMySQL(r) \/ Fail(r) \/ Commit(r)
  \/ \E st \in Drifts : Drift(st)

Spec == Init /\ [][Next]_vars

-----------------------------------------------------------------------------
(* Properties.                                                             *)

\* However many requests send the same token, one of them at most gets to run its
\* DDL.
TokenRunsOnce == reran = {}

\* The DDL starts on the structure that was previewed, or the table has changed
\* since this very request read it: a change made before that is always noticed.
DriftOnlyInWindow ==
  \A r \in Reqs : req[r].pc \in {"begin", "run"} /\ req[r].i = 1 =>
    table = req[r].tok.base \/ req[r].moved

\* On PostgreSQL all statements of a token take effect or none, whatever fails.
AllOrNothing ==
  \A r \in Reqs : dialect = "postgres" /\ req[r].tok # None =>
    req[r].applied \in {0, Len(req[r].tok.ddl)}

\* A change reported as a success took effect completely; when one is reported as
\* failed on MySQL, the statements reported as executed were, and the one reported
\* as failed may have been.
ReportedIsApplied ==
  \A r \in Reqs :
    /\ req[r].pc = "ok" => req[r].applied = Len(req[r].tok.ddl)
    /\ req[r].pc = "failed" /\ dialect = "mysql" => req[r].applied \in {req[r].i - 1, req[r].i}

\* The answer of Execute tells what became of the table, whichever statement failed
\* or was cut off (service.go 84-130).
OutcomeIsReported == AllOrNothing /\ ReportedIsApplied

=============================================================================
