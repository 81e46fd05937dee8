-------------------------- MODULE WorkbenchProofs --------------------------
(***************************************************************************)
(* Proofs about Workbench: for any number of connections, pools, pool      *)
(* sizes, transactions, queries and requests.                              *)
(*                                                                         *)
(* The parts of the invariant are stated by who owns what: a handle is     *)
(* owned by a connection or by the request that publishes it, an open      *)
(* transaction by the list of transactions or by the request that          *)
(* registers or finishes it, a connection of a pool by whoever uses it.     *)
(***************************************************************************)
EXTENDS Workbench, FiniteSetTheorems, TLAPS

Publishes(r, h) == req[r].pc = "publish" /\ req[r].h = h
Holds(r, t) == req[r].pc \in {"register", "commit", "rollback"} /\ req[r].t = t
Executes(r, t) == req[r].pc = "execute" /\ req[r].t = t
Mutates(r, h) == req[r].pc = "execute" /\ req[r].t = None /\ req[r].h = h
Runs(j, t) == job[j].st = "running" /\ job[j].t = t
RunsOn(j, h) == job[j].st = "running" /\ job[j].t = None /\ job[j].h = h

\* What a request at a place of its route has in hand.
Shape(q) ==
  /\ q.pc \in {"register", "commit", "rollback", "turn"} => q.t # None
  /\ q.pc = "mutate" => q.t = None

\* The connections: an entry of the store is open and of one connection, whose
\* identifier has been drawn; a handle that is to be published is open, in no entry
\* and in the hands of one request; and no open handle is lost.
Stored ==
  /\ \A c \in Conns : entry[c] # None => c \in used /\ hstate[entry[c]] = "open"
  /\ \A b, c \in Conns : entry[b] # None /\ entry[b] = entry[c] => b = c
  /\ \A r \in Reqs, h \in Handles : Publishes(r, h) =>
       /\ hstate[h] = "open"
       /\ \A c \in Conns : entry[c] # h
       /\ \A s \in Reqs : Publishes(s, h) => s = r
  /\ \A h \in Handles : hstate[h] = "open" =>
       (\E c \in Conns : entry[c] = h) \/ (\E r \in Reqs : Publishes(r, h))

\* The transactions: one that is open is listed or in the hands of a request, of one
\* request only, and not both.
Owned ==
  /\ \A t \in Txs : tx[t].st = "open" <=> (t \in items \/ \E r \in Reqs : Holds(r, t))
  /\ \A r \in Reqs, t \in Txs : Holds(r, t) =>
       t \notin items /\ \A s \in Reqs : Holds(s, t) => s = r

\* The statements in a transaction run while it is open, one at a time.
Inside ==
  /\ \A j \in Jobs, t \in Txs : Runs(j, t) =>
       /\ tx[t].st = "open"
       /\ \A k \in Jobs : Runs(k, t) => k = j
       /\ \A r \in Reqs : ~Executes(r, t)
  /\ \A r \in Reqs, t \in Txs : Executes(r, t) =>
       /\ tx[t].st = "open"
       /\ \A s \in Reqs : Executes(s, t) => s = r

\* A connection of a pool is used by those who have acquired it and not ended.
Counted ==
  \A h \in Handles :
    /\ \A t \in Txs : t \in slots[h] <=> tx[t].st = "open" /\ tx[t].h = h
    /\ \A j \in Jobs : j \in slots[h] <=> RunsOn(j, h)
    /\ \A r \in Reqs : r \in slots[h] <=> Mutates(r, h)

Typed == TypeOK /\ \A r \in Reqs : Shape(req[r])

IInv == Typed /\ Stored /\ Owned /\ Inside /\ Counted

Places == {"idle", "open", "publish", "begin", "register", "commit", "rollback", "query",
           "mutate", "turn", "execute"}
Request == [pc : Places, c : Conns \cup {None}, h : Handles \cup {None},
            db : DBs \cup {None}, t : Txs \cup {None}]

-----------------------------------------------------------------------------
(* What each part depends on.                                              *)

LEMMA StoredKept ==
  ASSUME Stored, UNCHANGED <<entry, used, hstate>>,
         \A r \in Reqs, h \in Handles : Publishes(r, h)' <=> Publishes(r, h)
  PROVE  Stored'
<1> SUFFICES ASSUME TRUE PROVE Stored' OBVIOUS
<1> USE DEF Stored
<1> HIDE DEF Publishes
<1> QED OBVIOUS

LEMMA OwnedKept ==
  ASSUME Owned, items' = items, \A t \in Txs : tx'[t].st = tx[t].st,
         \A r \in Reqs, t \in Txs : Holds(r, t)' <=> Holds(r, t)
  PROVE  Owned'
BY DEF Owned

LEMMA InsideKept ==
  ASSUME Inside, \A t \in Txs : tx[t].st = "open" => tx'[t].st = "open",
         \A j \in Jobs, t \in Txs : Runs(j, t)' => Runs(j, t),
         \A r \in Reqs, t \in Txs : Executes(r, t)' => Executes(r, t)
  PROVE  Inside'
BY DEF Inside

LEMMA CountedKept ==
  ASSUME Counted, slots' = slots,
         \A t \in Txs, h \in Handles :
           (tx[t].st = "open" /\ tx[t].h = h)' <=> tx[t].st = "open" /\ tx[t].h = h,
         \A j \in Jobs, h \in Handles : RunsOn(j, h)' <=> RunsOn(j, h),
         \A r \in Reqs, h \in Handles : Mutates(r, h)' <=> Mutates(r, h)
  PROVE  Counted'
BY DEF Counted

\* A request moves from a place to another one.
LEMMA Moves ==
  ASSUME Typed, NEW r \in Reqs, NEW q, q \in Request, Shape(q), Become(r, q),
         q.pc \in {"publish", "begin", "query", "mutate"} => q.h # None
  PROVE  /\ req' \in [Reqs -> Request]
         /\ req'[r] = q /\ \A s \in Reqs : s # r => req'[s] = req[s]
         /\ \A s \in Reqs : Shape(req'[s])
         /\ \A s \in Reqs : req'[s].pc \in {"publish", "begin", "query", "mutate"} => req'[s].h # None
<1>1. req \in [Reqs -> Request] BY DEF Typed, TypeOK, Request, Places
<1>2. req' = [req EXCEPT ![r] = q] BY DEF Become
<1>3. req' \in [Reqs -> Request] BY <1>1, <1>2
<1>4. req'[r] = q /\ \A s \in Reqs : s # r => req'[s] = req[s] BY <1>1, <1>2
<1>5. \A s \in Reqs : Shape(req[s]) BY DEF Typed
<1>6. \A s \in Reqs : req[s].pc \in {"publish", "begin", "query", "mutate"} => req[s].h # None
  BY DEF Typed, TypeOK
<1>7. ASSUME NEW s \in Reqs
      PROVE  /\ Shape(req'[s])
             /\ req'[s].pc \in {"publish", "begin", "query", "mutate"} => req'[s].h # None
  <2>1. CASE s = r BY <1>4, <2>1
  <2>2. CASE s # r
    <3>1. req'[s] = req[s] BY <1>4, <2>2
    <3> QED BY <1>5, <1>6, <3>1
  <2> QED BY <2>1, <2>2
<1> QED BY <1>3, <1>4, <1>7
-----------------------------------------------------------------------------
Owning == {"publish", "register", "commit", "rollback", "execute"}

\* A request moves between places at which it owns nothing.
LEMMA QuietMove ==
  ASSUME IInv, NEW r \in Reqs, NEW q, q \in Request, Shape(q), Become(r, q),
         q.pc \in {"publish", "begin", "query", "mutate"} => q.h # None,
         req[r].pc \notin Owning, q.pc \notin Owning,
         UNCHANGED <<store, slots, txns, job>>
  PROVE  IInv'
<1> USE DEF store, txns
<1>1. Typed BY DEF IInv
<1>2. /\ req' \in [Reqs -> Request]
      /\ req'[r] = q /\ \A s \in Reqs : s # r => req'[s] = req[s]
      /\ \A s \in Reqs : Shape(req'[s])
      /\ \A s \in Reqs : req'[s].pc \in {"publish", "begin", "query", "mutate"} => req'[s].h # None
  BY <1>1, Moves
<1>3. Typed'
  <2>1. TypeOK' BY <1>1, <1>2 DEF Typed, TypeOK, Request, Places
  <2> QED BY <1>2, <2>1 DEF Typed
<1>4. \A s \in Reqs : s = r \/ req'[s] = req[s] BY <1>2
<1>5. /\ \A s \in Reqs, h \in Handles : Publishes(s, h)' <=> Publishes(s, h)
      /\ \A s \in Reqs, t \in Txs : Holds(s, t)' <=> Holds(s, t)
      /\ \A s \in Reqs, t \in Txs : Executes(s, t)' <=> Executes(s, t)
      /\ \A s \in Reqs, h \in Handles : Mutates(s, h)' <=> Mutates(s, h)
  BY <1>2, <1>4 DEF Owning, Publishes, Holds, Executes, Mutates
<1>6. Stored' BY <1>5, StoredKept DEF IInv
<1>7. Owned' BY <1>5, OwnedKept DEF IInv
<1>8. /\ \A j \in Jobs, t \in Txs : Runs(j, t)' <=> Runs(j, t)
      /\ \A j \in Jobs, h \in Handles : RunsOn(j, h)' <=> RunsOn(j, h)
  BY DEF Runs, RunsOn
<1>9. Inside' BY <1>5, <1>8, InsideKept DEF IInv
<1>10. Counted' BY <1>5, <1>8, CountedKept DEF IInv
<1> QED BY <1>3, <1>6, <1>7, <1>9, <1>10 DEF IInv

\* The record of a request.
LEMMA Requests ==
  ASSUME Typed, NEW r \in Reqs
  PROVE  req[r] \in Request /\ Shape(req[r]) /\ Idle \in Request /\ Shape(Idle)
BY DEF Typed, TypeOK, Request, Places, Idle, Shape

LEMMA QuietSteps ==
  ASSUME IInv, NEW r \in Reqs,
         \/ \E d \in DBs : Connect(r, d)
         \/ \E d \in DBs, c \in Conns : Switch(r, c, d)
         \/ \E c \in Conns, l \in {"begin", "query", "mutate"} : LookUp(r, c, l)
         \/ Rejected(r) \/ OpenFails(r) \/ TurnedAway(r)
         \/ \E t \in Txs : MutateIn(r, t)
  PROVE  IInv'
<1>0. /\ Typed /\ entry \in [Conns -> Handles \cup {None}]
      /\ req[r] \in Request /\ Shape(req[r]) /\ Idle \in Request /\ Shape(Idle)
      /\ req[r].pc \in {"publish", "begin", "query", "mutate"} => req[r].h # None
  BY Requests DEF IInv, Typed, TypeOK
<1>1. ASSUME NEW d \in DBs, Connect(r, d) PROVE IInv'
  <2> DEFINE q == [Idle EXCEPT !.pc = "open", !.db = d]
  <2>1. q \in Request /\ Shape(q) /\ q.pc = "open" BY <1>0 DEF Request, Places, Shape, Idle
  <2>2. Become(r, q) /\ req[r].pc = "idle" /\ UNCHANGED <<store, slots, txns, job>>
    BY <1>1 DEF Connect
  <2> HIDE DEF q
  <2> QED BY <2>1, <2>2, QuietMove DEF Owning
<1>2. ASSUME NEW d \in DBs, NEW c \in Conns, Switch(r, c, d) PROVE IInv'
  <2> DEFINE q == [Idle EXCEPT !.pc = "open", !.c = c, !.db = d]
  <2>1. q \in Request /\ Shape(q) /\ q.pc = "open" BY <1>0 DEF Request, Places, Shape, Idle
  <2>2. Become(r, q) /\ req[r].pc = "idle" /\ UNCHANGED <<store, slots, txns, job>>
    BY <1>2 DEF Switch
  <2> HIDE DEF q
  <2> QED BY <2>1, <2>2, QuietMove DEF Owning
<1>3. ASSUME NEW c \in Conns, NEW l \in {"begin", "query", "mutate"}, LookUp(r, c, l) PROVE IInv'
  <2> DEFINE q == [Idle EXCEPT !.pc = l, !.c = c, !.h = entry[c]]
  <2>1. q \in Request /\ Shape(q) /\ q.pc = l /\ q.h = entry[c]
    BY <1>0 DEF Request, Places, Shape, Idle
  <2>2. /\ Become(r, q) /\ req[r].pc = "idle" /\ entry[c] # None
        /\ UNCHANGED <<store, slots, txns, job>>
    BY <1>3 DEF LookUp
  <2> HIDE DEF q
  <2> QED BY <2>1, <2>2, QuietMove DEF Owning
<1>4. CASE Rejected(r) \/ OpenFails(r) \/ TurnedAway(r)
  <2>1. Become(r, Idle) /\ UNCHANGED <<store, slots, txns, job>>
    BY <1>4 DEF Rejected, OpenFails, TurnedAway
  <2>2. req[r].pc \notin Owning BY <1>4 DEF Rejected, OpenFails, TurnedAway, Owning
  <2>3. Idle.pc = "idle" BY DEF Idle
  <2> HIDE DEF Idle
  <2> QED BY <1>0, <2>1, <2>2, <2>3, QuietMove DEF Owning
<1>5. ASSUME NEW t \in Txs, MutateIn(r, t) PROVE IInv'
  <2> DEFINE q == [req[r] EXCEPT !.pc = "turn", !.t = t]
  <2>1. q \in Request /\ q.pc = "turn" /\ q.t = t BY <1>0 DEF Request, Places
  <2>2. Shape(q) BY <2>1, NoneAssumption DEF Shape
  <2>3. Become(r, q) /\ req[r].pc = "mutate" /\ UNCHANGED <<store, slots, txns, job>>
    BY <1>5 DEF MutateIn
  <2> HIDE DEF q
  <2> QED BY <2>1, <2>2, <2>3, QuietMove DEF Owning
<1> QED BY <1>1, <1>2, <1>3, <1>4, <1>5
-----------------------------------------------------------------------------
(* The connections.                                                        *)

\* A request that opens or publishes a handle leaves the transactions alone.
LEMMA StoreMove ==
  ASSUME IInv, NEW r \in Reqs, NEW q, q \in Request, Shape(q), Become(r, q),
         q.pc \in {"publish", "begin", "query", "mutate"} => q.h # None,
         req[r].pc \in {"open", "publish"}, q.pc \in {"idle", "publish"},
         UNCHANGED <<slots, txns, job>>,
         entry' \in [Conns -> Handles \cup {None}], used' \in SUBSET Conns,
         hdb' \in [Handles -> DBs \cup {None}],
         hstate' \in [Handles -> {"new", "open", "closed"}]
  PROVE  /\ Typed' /\ Owned' /\ Inside' /\ Counted'
         /\ req'[r] = q /\ \A s \in Reqs : s # r => req'[s] = req[s]
<1> USE DEF txns
<1>1. Typed BY DEF IInv
<1>2. /\ req' \in [Reqs -> Request]
      /\ req'[r] = q /\ \A s \in Reqs : s # r => req'[s] = req[s]
      /\ \A s \in Reqs : Shape(req'[s])
      /\ \A s \in Reqs : req'[s].pc \in {"publish", "begin", "query", "mutate"} => req'[s].h # None
  BY <1>1, Moves
<1>3. Typed'
  <2>1. TypeOK' BY <1>1, <1>2 DEF Typed, TypeOK, Request, Places
  <2> QED BY <1>2, <2>1 DEF Typed
<1>4. \A s \in Reqs : s = r \/ req'[s] = req[s] BY <1>2
<1>5. /\ \A s \in Reqs, t \in Txs : Holds(s, t)' <=> Holds(s, t)
      /\ \A s \in Reqs, t \in Txs : Executes(s, t)' <=> Executes(s, t)
      /\ \A s \in Reqs, h \in Handles : Mutates(s, h)' <=> Mutates(s, h)
  BY <1>2, <1>4 DEF Holds, Executes, Mutates
<1>6. Owned' BY <1>5, OwnedKept DEF IInv
<1>7. /\ \A j \in Jobs, t \in Txs : Runs(j, t)' <=> Runs(j, t)
      /\ \A j \in Jobs, h \in Handles : RunsOn(j, h)' <=> RunsOn(j, h)
  BY DEF Runs, RunsOn
<1>8. Inside' BY <1>5, <1>7, InsideKept DEF IInv
<1>9. Counted' BY <1>5, <1>7, CountedKept DEF IInv
<1> QED BY <1>2, <1>3, <1>6, <1>8, <1>9

LEMMA OpenStep ==
  ASSUME IInv, NEW r \in Reqs, NEW h \in Handles, Open(r, h)
  PROVE  IInv'
<1> DEFINE q == [req[r] EXCEPT !.pc = "publish", !.h = h]
<1>0. Typed /\ req[r] \in Request /\ Shape(req[r]) BY Requests DEF IInv
<1>1. q \in Request /\ q.pc = "publish" /\ q.h = h BY <1>0 DEF Request, Places
<1>2. Shape(q) BY <1>1 DEF Shape
<1>3. /\ Become(r, q) /\ req[r].pc = "open" /\ hstate[h] = "new"
      /\ UNCHANGED <<slots, txns, job>> /\ UNCHANGED <<entry, used>>
      /\ hstate' = [hstate EXCEPT ![h] = "open"] /\ hdb' = [hdb EXCEPT ![h] = req[r].db]
  BY DEF Open
<1> HIDE DEF q
<1>4. /\ entry' \in [Conns -> Handles \cup {None}] /\ used' \in SUBSET Conns
      /\ hdb' \in [Handles -> DBs \cup {None}]
      /\ hstate' \in [Handles -> {"new", "open", "closed"}]
      /\ hstate \in [Handles -> {"new", "open", "closed"}]
  BY <1>0, <1>3 DEF Typed, TypeOK, Request
<1>5. /\ Typed' /\ Owned' /\ Inside' /\ Counted'
      /\ req'[r] = q /\ \A s \in Reqs : s # r => req'[s] = req[s]
  BY <1>1, <1>2, <1>3, <1>4, NoneAssumption, StoreMove
<1>6. Stored'
  <2>1. \A g \in Handles : hstate'[g] = IF g = h THEN "open" ELSE hstate[g] BY <1>3, <1>4
  <2>2. \A s \in Reqs, g \in Handles : Publishes(s, g)' <=> (s = r /\ g = h) \/ (s # r /\ Publishes(s, g))
    <3>1. \A g \in Handles : Publishes(r, g)' <=> g = h BY <1>1, <1>5 DEF Publishes
    <3>2. \A s \in Reqs, g \in Handles : s # r => (Publishes(s, g)' <=> Publishes(s, g))
      BY <1>5 DEF Publishes
    <3> QED BY <3>1, <3>2
  <2>3. \A g \in Handles : ~Publishes(r, g) BY <1>3 DEF Publishes
  <2>4. Stored BY DEF IInv
  <2>5. \A c \in Conns : entry[c] \in Handles \cup {None} BY <1>0 DEF Typed, TypeOK
  <2>6. entry' = entry /\ used' = used BY <1>3
  <2>7. (\A c \in Conns : entry[c] # h) /\ (\A s \in Reqs : ~Publishes(s, h))
    BY <1>3, <2>4, NoneAssumption DEF Stored
  <2>8. \A c \in Conns : entry'[c] # None => c \in used' /\ hstate'[entry'[c]] = "open"
    BY <2>1, <2>4, <2>5, <2>6 DEF Stored
  <2>9. \A b, c \in Conns : entry'[b] # None /\ entry'[b] = entry'[c] => b = c
    BY <2>4, <2>6 DEF Stored
  <2>10. \A s \in Reqs, g \in Handles : Publishes(s, g)' =>
           /\ hstate'[g] = "open"
           /\ \A c \in Conns : entry'[c] # g
           /\ \A u \in Reqs : Publishes(u, g)' => u = s
    BY <2>1, <2>2, <2>4, <2>6, <2>7 DEF Stored
  <2>11. \A g \in Handles : hstate'[g] = "open" =>
           (\E c \in Conns : entry'[c] = g) \/ (\E s \in Reqs : Publishes(s, g)')
    <3>1. Publishes(r, h)' BY <2>2
    <3>2. ASSUME NEW g \in Handles, g # h, hstate'[g] = "open"
          PROVE  (\E c \in Conns : entry'[c] = g) \/ (\E s \in Reqs : Publishes(s, g)')
      BY <2>1, <2>2, <2>3, <2>4, <2>6, <3>2 DEF Stored
    <3> QED BY <3>1, <3>2
  <2> QED BY <2>8, <2>9, <2>10, <2>11 DEF Stored
<1> QED BY <1>5, <1>6 DEF IInv

LEMMA PutHandleStep ==
  ASSUME IInv, NEW r \in Reqs, NEW d \in Conns, PutHandle(r, d)
  PROVE  IInv'
<1>0. Typed /\ req[r] \in Request /\ Idle \in Request /\ Shape(Idle) /\ Idle.pc = "idle"
  BY Requests DEF IInv, Idle
<1>1. PICK h \in Handles : h = req[r].h
  <2>1. req[r].pc = "publish" /\ req[r].h # None BY <1>0 DEF PutHandle, Typed, TypeOK
  <2> QED BY <1>0, <2>1 DEF Request
<1>2. /\ Become(r, Idle) /\ req[r].pc = "publish" /\ d \notin used
      /\ UNCHANGED <<slots, txns, job>> /\ UNCHANGED <<hdb, hstate>>
      /\ entry' = [entry EXCEPT ![d] = h] /\ used' = used \cup {d}
  BY <1>1 DEF PutHandle
<1>3. /\ entry' \in [Conns -> Handles \cup {None}] /\ used' \in SUBSET Conns
      /\ hdb' \in [Handles -> DBs \cup {None}]
      /\ hstate' \in [Handles -> {"new", "open", "closed"}]
      /\ entry \in [Conns -> Handles \cup {None}]
  BY <1>0, <1>2 DEF Typed, TypeOK
<1> HIDE DEF Idle
<1>4. /\ Typed' /\ Owned' /\ Inside' /\ Counted'
      /\ req'[r] = Idle /\ \A s \in Reqs : s # r => req'[s] = req[s]
  BY <1>0, <1>2, <1>3, StoreMove
<1>5. Stored'
  <2>1. \A c \in Conns : entry'[c] = IF c = d THEN h ELSE entry[c] BY <1>2, <1>3
  <2>2. \A s \in Reqs, g \in Handles : Publishes(s, g)' <=> s # r /\ Publishes(s, g)
    BY <1>0, <1>4 DEF Publishes
  <2>3. \A g \in Handles : Publishes(r, g) <=> g = h BY <1>1, <1>2 DEF Publishes
  <2>4. Stored BY DEF IInv
  <2>5. \A c \in Conns : entry[c] \in Handles \cup {None} BY <1>3
  <2>6. hstate' = hstate /\ used' = used \cup {d} /\ entry[d] = None
    BY <1>2, <2>4 DEF Stored
  <2>7. hstate[h] = "open" /\ (\A c \in Conns : entry[c] # h) BY <2>3, <2>4 DEF Stored
  <2>8. \A c \in Conns : entry'[c] # None => c \in used' /\ hstate'[entry'[c]] = "open"
    BY <2>1, <2>4, <2>6, <2>7 DEF Stored
  <2>9. \A b, c \in Conns : entry'[b] # None /\ entry'[b] = entry'[c] => b = c
    BY <2>1, <2>4, <2>7 DEF Stored
  <2>10. \A s \in Reqs, g \in Handles : Publishes(s, g)' =>
           /\ hstate'[g] = "open"
           /\ \A c \in Conns : entry'[c] # g
           /\ \A u \in Reqs : Publishes(u, g)' => u = s
    BY <2>1, <2>2, <2>3, <2>4, <2>6 DEF Stored
  <2>11. \A g \in Handles : hstate'[g] = "open" =>
           (\E c \in Conns : entry'[c] = g) \/ (\E s \in Reqs : Publishes(s, g)')
    BY <2>1, <2>2, <2>3, <2>4, <2>6, NoneAssumption DEF Stored
  <2> QED BY <2>8, <2>9, <2>10, <2>11 DEF Stored
<1> QED BY <1>4, <1>5 DEF IInv
LEMMA ReplaceHandleStep ==
  ASSUME IInv, NEW r \in Reqs, ReplaceHandle(r)
  PROVE  IInv'
<1>0. Typed /\ req[r] \in Request /\ Idle \in Request /\ Shape(Idle) /\ Idle.pc = "idle"
  BY Requests DEF IInv, Idle
<1>1. PICK h \in Handles : h = req[r].h
  <2>1. req[r].pc = "publish" /\ req[r].h # None BY <1>0 DEF ReplaceHandle, Typed, TypeOK
  <2> QED BY <1>0, <2>1 DEF Request
<1>2. PICK d \in Conns : d = req[r].c BY <1>0 DEF ReplaceHandle, Request
<1>3. /\ Become(r, Idle) /\ req[r].pc = "publish"
      /\ UNCHANGED <<slots, txns, job>> /\ UNCHANGED <<used, hdb>>
      /\ \/ entry[d] = None /\ hstate' = [hstate EXCEPT ![h] = "closed"] /\ entry' = entry
         \/ /\ entry[d] # None /\ hstate' = [hstate EXCEPT ![entry[d]] = "closed"]
            /\ entry' = [entry EXCEPT ![d] = h]
  BY <1>1, <1>2 DEF ReplaceHandle
<1>4. /\ entry \in [Conns -> Handles \cup {None}]
      /\ hstate \in [Handles -> {"new", "open", "closed"}]
      /\ used \in SUBSET Conns /\ hdb \in [Handles -> DBs \cup {None}]
  BY <1>0 DEF Typed, TypeOK
<1>5. /\ entry' \in [Conns -> Handles \cup {None}] /\ used' \in SUBSET Conns
      /\ hdb' \in [Handles -> DBs \cup {None}]
      /\ hstate' \in [Handles -> {"new", "open", "closed"}]
  BY <1>3, <1>4
<1> HIDE DEF Idle
<1>6. /\ Typed' /\ Owned' /\ Inside' /\ Counted'
      /\ req'[r] = Idle /\ \A s \in Reqs : s # r => req'[s] = req[s]
  BY <1>0, <1>3, <1>5, StoreMove
<1>7. /\ \A s \in Reqs, g \in Handles : Publishes(s, g)' <=> s # r /\ Publishes(s, g)
      /\ \A g \in Handles : Publishes(r, g) <=> g = h
  BY <1>0, <1>1, <1>3, <1>6 DEF Publishes
<1>8. Stored /\ used' = used BY <1>3 DEF IInv
<1>9. /\ hstate[h] = "open" /\ \A c \in Conns : entry[c] # h
      /\ \A s \in Reqs : s # r => ~Publishes(s, h)
  BY <1>7, <1>8 DEF Stored
<1>10. Stored'
  <2>1. CASE entry[d] = None
    <3>1. entry' = entry /\ \A g \in Handles : hstate'[g] = IF g = h THEN "closed" ELSE hstate[g]
      BY <1>3, <1>4, <2>1
    <3>2. \A c \in Conns : entry'[c] # None => c \in used' /\ hstate'[entry'[c]] = "open"
      BY <1>4, <1>8, <1>9, <3>1 DEF Stored
    <3>3. \A b, c \in Conns : entry'[b] # None /\ entry'[b] = entry'[c] => b = c
      BY <1>8, <3>1 DEF Stored
    <3>4. \A s \in Reqs, g \in Handles : Publishes(s, g)' =>
             /\ hstate'[g] = "open"
             /\ \A c \in Conns : entry'[c] # g
             /\ \A u \in Reqs : Publishes(u, g)' => u = s
      BY <1>7, <1>8, <1>9, <3>1 DEF Stored
    <3>5. \A g \in Handles : hstate'[g] = "open" =>
             (\E c \in Conns : entry'[c] = g) \/ (\E s \in Reqs : Publishes(s, g)')
      BY <1>7, <1>8, <3>1 DEF Stored
    <3> QED BY <3>2, <3>3, <3>4, <3>5 DEF Stored
  <2>2. CASE entry[d] # None
    <3>0. PICK k \in Handles : k = entry[d] BY <1>4, <2>2
    <3>1. /\ \A c \in Conns : entry'[c] = IF c = d THEN h ELSE entry[c]
          /\ \A g \in Handles : hstate'[g] = IF g = k THEN "closed" ELSE hstate[g]
      BY <1>3, <1>4, <2>2, <3>0
    <3>2. \A c \in Conns : entry'[c] # None => c \in used' /\ hstate'[entry'[c]] = "open"
      BY <1>4, <1>8, <1>9, <2>2, <3>0, <3>1 DEF Stored
    <3>3. \A b, c \in Conns : entry'[b] # None /\ entry'[b] = entry'[c] => b = c
      BY <1>8, <1>9, <3>1 DEF Stored
    <3>4. \A s \in Reqs, g \in Handles : Publishes(s, g)' =>
             /\ hstate'[g] = "open"
             /\ \A c \in Conns : entry'[c] # g
             /\ \A u \in Reqs : Publishes(u, g)' => u = s
      BY <1>7, <1>8, <1>9, <3>0, <3>1 DEF Stored
    <3>5. \A g \in Handles : hstate'[g] = "open" =>
             (\E c \in Conns : entry'[c] = g) \/ (\E s \in Reqs : Publishes(s, g)')
      BY <1>7, <1>8, <3>0, <3>1 DEF Stored
    <3> QED BY <3>2, <3>3, <3>4, <3>5 DEF Stored
  <2> QED BY <2>1, <2>2
<1> QED BY <1>6, <1>10 DEF IInv

LEMMA DisconnectStep ==
  ASSUME IInv, NEW d \in Conns, Disconnect(d)
  PROVE  IInv'
<1>1. /\ entry \in [Conns -> Handles \cup {None}]
      /\ hstate \in [Handles -> {"new", "open", "closed"}]
  BY DEF IInv, Typed, TypeOK
<1>2. PICK k \in Handles : k = entry[d] BY <1>1 DEF Disconnect
<1>3. /\ entry' = [entry EXCEPT ![d] = None] /\ hstate' = [hstate EXCEPT ![k] = "closed"]
      /\ UNCHANGED <<used, hdb, slots, items, tx, job, req>>
  BY <1>2 DEF Disconnect, txns
<1>4. Typed' BY <1>1, <1>3 DEF IInv, Typed, TypeOK
<1>5. /\ \A s \in Reqs, g \in Handles : Publishes(s, g)' <=> Publishes(s, g)
      /\ \A s \in Reqs, t \in Txs : Holds(s, t)' <=> Holds(s, t)
      /\ \A s \in Reqs, t \in Txs : Executes(s, t)' <=> Executes(s, t)
      /\ \A s \in Reqs, h \in Handles : Mutates(s, h)' <=> Mutates(s, h)
      /\ \A j \in Jobs, t \in Txs : Runs(j, t)' <=> Runs(j, t)
      /\ \A j \in Jobs, h \in Handles : RunsOn(j, h)' <=> RunsOn(j, h)
  BY <1>3 DEF Publishes, Holds, Executes, Mutates, Runs, RunsOn
<1>6. Owned' BY <1>3, <1>5, OwnedKept DEF IInv
<1>7. Inside' BY <1>3, <1>5, InsideKept DEF IInv
<1>8. Counted' BY <1>3, <1>5, CountedKept DEF IInv
<1>9. Stored'
  <2>1. /\ \A c \in Conns : entry'[c] = IF c = d THEN None ELSE entry[c]
        /\ \A g \in Handles : hstate'[g] = IF g = k THEN "closed" ELSE hstate[g]
        /\ used' = used /\ Stored
    BY <1>1, <1>3 DEF IInv
  <2>2. \A c \in Conns : entry'[c] # None => c \in used' /\ hstate'[entry'[c]] = "open"
    BY <1>1, <1>2, <2>1, NoneAssumption DEF Stored
  <2>3. \A b, c \in Conns : entry'[b] # None /\ entry'[b] = entry'[c] => b = c
    BY <2>1 DEF Stored
  <2>4. \A s \in Reqs, g \in Handles : Publishes(s, g)' =>
           /\ hstate'[g] = "open"
           /\ \A c \in Conns : entry'[c] # g
           /\ \A u \in Reqs : Publishes(u, g)' => u = s
    BY <1>2, <1>5, <2>1, NoneAssumption DEF Stored
  <2>5. \A g \in Handles : hstate'[g] = "open" =>
           (\E c \in Conns : entry'[c] = g) \/ (\E s \in Reqs : Publishes(s, g)')
    BY <1>2, <1>5, <2>1 DEF Stored
  <2> QED BY <2>2, <2>3, <2>4, <2>5 DEF Stored
<1> QED BY <1>4, <1>6, <1>7, <1>8, <1>9 DEF IInv

-----------------------------------------------------------------------------
(* The transactions.                                                       *)

LEMMA BeginStep ==
  ASSUME IInv, NEW r \in Reqs, NEW t \in Txs, Begin(r, t)
  PROVE  IInv'
<1>0. Typed /\ req[r] \in Request /\ Shape(req[r]) BY Requests DEF IInv
<1>1. PICK h \in Handles : h = req[r].h
  <2>1. req[r].pc = "begin" /\ req[r].h # None BY <1>0 DEF Begin, Typed, TypeOK
  <2> QED BY <1>0, <2>1 DEF Request
<1> DEFINE q == [req[r] EXCEPT !.pc = "register", !.t = t]
<1>2. q \in Request /\ q.pc = "register" /\ q.t = t BY <1>0 DEF Request, Places
<1>3. Shape(q) BY <1>2, NoneAssumption DEF Shape
<1>4. /\ Become(r, q) /\ req[r].pc = "begin" /\ tx[t].st = "new"
      /\ slots' = [slots EXCEPT ![h] = @ \cup {t}]
      /\ tx' = [tx EXCEPT ![t] = [st |-> "open", c |-> req[r].c, h |-> h]]
      /\ UNCHANGED <<entry, used, hdb, hstate, items, job>>
  BY <1>1 DEF Begin, Acquire, store
<1> HIDE DEF q
<1>5. /\ req' \in [Reqs -> Request]
      /\ req'[r] = q /\ \A s \in Reqs : s # r => req'[s] = req[s]
      /\ \A s \in Reqs : Shape(req'[s])
      /\ \A s \in Reqs : req'[s].pc \in {"publish", "begin", "query", "mutate"} => req'[s].h # None
  BY <1>0, <1>2, <1>3, <1>4, Moves
<1>6. Typed'
  <2>1. req[r].c \in Conns \cup {None} BY <1>0 DEF Request
  <2>2. TypeOK' BY <1>0, <1>4, <1>5, <2>1 DEF Typed, TypeOK, Request, Places
  <2> QED BY <1>5, <2>2 DEF Typed
<1>7. /\ \A s \in Reqs, g \in Handles : Publishes(s, g)' <=> Publishes(s, g)
      /\ \A s \in Reqs, u \in Txs : s # r => (Holds(s, u)' <=> Holds(s, u))
      /\ \A u \in Txs : Holds(r, u)' <=> u = t
      /\ \A u \in Txs : ~Holds(r, u)
      /\ \A s \in Reqs, u \in Txs : Executes(s, u)' <=> Executes(s, u)
      /\ \A s \in Reqs, g \in Handles : Mutates(s, g)' <=> Mutates(s, g)
  <2>1. \A s \in Reqs : s = r \/ req'[s] = req[s] BY <1>5
  <2> QED BY <1>2, <1>4, <1>5, <2>1 DEF Publishes, Holds, Executes, Mutates
<1>8. /\ \A j \in Jobs, u \in Txs : Runs(j, u)' <=> Runs(j, u)
      /\ \A j \in Jobs, g \in Handles : RunsOn(j, g)' <=> RunsOn(j, g)
  BY <1>4 DEF Runs, RunsOn
<1>9. /\ \A u \in Txs : u # t => tx'[u] = tx[u]
      /\ tx'[t].st = "open" /\ tx'[t].h = h
  BY <1>0, <1>4 DEF Typed, TypeOK
<1>10. Stored' BY <1>4, <1>7, StoredKept DEF IInv
<1>11. Owned'
  <2>1. t \notin items /\ \A s \in Reqs : ~Holds(s, t) BY <1>4 DEF IInv, Owned
  <2>2. \A u \in Txs : u # t => tx'[u].st = tx[u].st BY <1>9
  <2>3. items' = items BY <1>4
  <2>4. ASSUME NEW u \in Txs PROVE tx'[u].st = "open" <=> (u \in items' \/ \E s \in Reqs : Holds(s, u)')
    <3>1. CASE u = t BY <1>7, <1>9, <3>1
    <3>2. CASE u # t
      <4>1. \A s \in Reqs : Holds(s, u)' <=> Holds(s, u) BY <1>7, <3>2
      <4> QED BY <2>2, <2>3, <3>2, <4>1 DEF IInv, Owned
    <3> QED BY <3>1, <3>2
  <2>5. ASSUME NEW s \in Reqs, NEW u \in Txs, Holds(s, u)'
        PROVE  u \notin items' /\ \A v \in Reqs : Holds(v, u)' => v = s
    <3>1. CASE u = t
      <4>1. \A v \in Reqs : Holds(v, u)' => v = r BY <1>7, <2>1, <3>1
      <4> QED BY <2>1, <2>3, <2>5, <3>1, <4>1
    <3>2. CASE u # t
      <4>1. \A v \in Reqs : Holds(v, u)' <=> Holds(v, u) BY <1>7, <3>2
      <4> QED BY <2>3, <2>5, <4>1 DEF IInv, Owned
    <3> QED BY <3>1, <3>2
  <2> QED BY <2>4, <2>5 DEF Owned
<1>12. Inside'
  <2>1. \A u \in Txs : tx[u].st = "open" => tx'[u].st = "open" BY <1>9
  <2> QED BY <1>7, <1>8, <2>1, InsideKept DEF IInv
<1>13. Counted'
  <2>1. slots \in [Handles -> SUBSET (Txs \cup Jobs \cup Reqs)] BY <1>0 DEF Typed, TypeOK
  <2>2. \A g \in Handles : slots'[g] = IF g = h THEN slots[g] \cup {t} ELSE slots[g]
    BY <1>4, <2>1
  <2>3. \A j \in Jobs : j # t BY KindsAssumption
  <2>4. \A s \in Reqs : s # t BY KindsAssumption
  <2>5. Counted BY DEF IInv
  <2>6. ASSUME NEW g \in Handles, NEW u \in Txs
        PROVE  u \in slots'[g] <=> tx'[u].st = "open" /\ tx'[u].h = g
    <3>1. u \in slots[g] <=> tx[u].st = "open" /\ tx[u].h = g BY <2>5 DEF Counted
    <3> QED BY <1>4, <1>9, <2>2, <3>1
  <2>7. ASSUME NEW g \in Handles, NEW j \in Jobs PROVE j \in slots'[g] <=> RunsOn(j, g)'
    <3>1. j \in slots[g] <=> RunsOn(j, g) BY <2>5 DEF Counted
    <3> QED BY <1>8, <2>2, <2>3, <3>1
  <2>8. ASSUME NEW g \in Handles, NEW s \in Reqs PROVE s \in slots'[g] <=> Mutates(s, g)'
    <3>1. s \in slots[g] <=> Mutates(s, g) BY <2>5 DEF Counted
    <3> QED BY <1>7, <2>2, <2>4, <3>1
  <2> QED BY <2>6, <2>7, <2>8 DEF Counted
<1> QED BY <1>6, <1>10, <1>11, <1>12, <1>13 DEF IInv
\* A request that hands a transaction over: to the list, or to itself.
LEMMA HandOver ==
  ASSUME IInv, NEW r \in Reqs, NEW q, q \in Request, Shape(q), Become(r, q),
         q.pc \in {"idle", "commit", "rollback"}, req[r].pc \in {"idle", "register"},
         UNCHANGED <<store, slots, tx, job>>, items' \in SUBSET Txs
  PROVE  /\ Typed' /\ Stored' /\ Inside' /\ Counted'
         /\ req'[r] = q /\ \A s \in Reqs : s # r => req'[s] = req[s]
<1> USE DEF store
<1>1. Typed BY DEF IInv
<1>2. /\ req' \in [Reqs -> Request]
      /\ req'[r] = q /\ \A s \in Reqs : s # r => req'[s] = req[s]
      /\ \A s \in Reqs : Shape(req'[s])
      /\ \A s \in Reqs : req'[s].pc \in {"publish", "begin", "query", "mutate"} => req'[s].h # None
  BY <1>1, Moves
<1>3. Typed'
  <2>1. TypeOK' BY <1>1, <1>2 DEF Typed, TypeOK, Request, Places
  <2> QED BY <1>2, <2>1 DEF Typed
<1>4. \A s \in Reqs : s = r \/ req'[s] = req[s] BY <1>2
<1>5. /\ \A s \in Reqs, h \in Handles : Publishes(s, h)' <=> Publishes(s, h)
      /\ \A s \in Reqs, t \in Txs : Executes(s, t)' <=> Executes(s, t)
      /\ \A s \in Reqs, h \in Handles : Mutates(s, h)' <=> Mutates(s, h)
  BY <1>2, <1>4 DEF Publishes, Executes, Mutates
<1>6. Stored' BY <1>5, StoredKept DEF IInv
<1>7. /\ \A j \in Jobs, t \in Txs : Runs(j, t)' <=> Runs(j, t)
      /\ \A j \in Jobs, h \in Handles : RunsOn(j, h)' <=> RunsOn(j, h)
  BY DEF Runs, RunsOn
<1>8. Inside' BY <1>5, <1>7, InsideKept DEF IInv
<1>9. Counted' BY <1>5, <1>7, CountedKept DEF IInv
<1> QED BY <1>2, <1>3, <1>6, <1>8, <1>9

LEMMA RegisterStep ==
  ASSUME IInv, NEW r \in Reqs, Register(r)
  PROVE  IInv'
<1>0. Typed /\ req[r] \in Request /\ Shape(req[r]) /\ Idle \in Request /\ Shape(Idle)
  BY Requests DEF IInv
<1>1. PICK t \in Txs : t = req[r].t BY <1>0 DEF Register, Shape, Request
<1>2. /\ Become(r, Idle) /\ req[r].pc = "register" /\ items' = items \cup {t}
      /\ UNCHANGED <<store, slots, tx, job>>
  BY <1>1 DEF Register
<1>3. Idle.pc = "idle" BY DEF Idle
<1> HIDE DEF Idle
<1>4. items' \in SUBSET Txs BY <1>0, <1>2 DEF Typed, TypeOK
<1>5. /\ Typed' /\ Stored' /\ Inside' /\ Counted'
      /\ req'[r] = Idle /\ \A s \in Reqs : s # r => req'[s] = req[s]
  BY <1>0, <1>2, <1>3, <1>4, HandOver
<1>6. /\ \A s \in Reqs, u \in Txs : Holds(s, u)' <=> s # r /\ Holds(s, u)
      /\ \A u \in Txs : Holds(r, u) <=> u = t
  BY <1>1, <1>2, <1>3, <1>5 DEF Holds
<1>7. Owned'
  <2>1. \A s \in Reqs : s # r => ~Holds(s, t) BY <1>6 DEF IInv, Owned
  <2>2. Owned /\ items' = items \cup {t} /\ tx' = tx BY <1>2 DEF IInv
  <2> QED BY <1>6, <2>1, <2>2 DEF Owned
<1> QED BY <1>5, <1>7 DEF IInv

LEMMA TakeStep ==
  ASSUME IInv, NEW r \in Reqs, NEW c \in Conns, NEW t \in Txs, NEW l \in {"commit", "rollback"},
         Take(r, c, t, l)
  PROVE  IInv'
<1> DEFINE q == [Idle EXCEPT !.pc = l, !.t = t]
<1>0. Typed /\ req[r] \in Request /\ Idle \in Request BY Requests DEF IInv
<1>1. q \in Request /\ q.pc = l /\ q.t = t BY <1>0 DEF Request, Places, Idle
<1>2. Shape(q) BY <1>1, NoneAssumption DEF Shape
<1>3. /\ Become(r, q) /\ req[r].pc = "idle" /\ t \in items /\ items' = items \ {t}
      /\ UNCHANGED <<store, slots, tx, job>>
  BY DEF Take, Get
<1> HIDE DEF q
<1>4. items' \in SUBSET Txs BY <1>0, <1>3 DEF Typed, TypeOK
<1>5. /\ Typed' /\ Stored' /\ Inside' /\ Counted'
      /\ req'[r] = q /\ \A s \in Reqs : s # r => req'[s] = req[s]
  BY <1>1, <1>2, <1>3, <1>4, HandOver
<1>6. /\ \A s \in Reqs, u \in Txs : s # r => (Holds(s, u)' <=> Holds(s, u))
      /\ \A u \in Txs : Holds(r, u)' <=> u = t
      /\ \A u \in Txs : ~Holds(r, u)
  BY <1>1, <1>3, <1>5 DEF Holds
<1>7. Owned'
  <2>1. \A s \in Reqs : ~Holds(s, t) BY <1>3 DEF IInv, Owned
  <2>2. Owned /\ items' = items \ {t} /\ tx' = tx BY <1>3 DEF IInv
  <2>3. \A s \in Reqs, u \in Txs : Holds(s, u)' <=> (s = r /\ u = t) \/ Holds(s, u) BY <1>6
  <2>4. \A u \in Txs : tx'[u].st = "open" <=> (u \in items' \/ \E s \in Reqs : Holds(s, u)')
    BY <1>3, <2>2, <2>3 DEF Owned
  <2>5. \A s \in Reqs, u \in Txs : Holds(s, u)' =>
           u \notin items' /\ \A v \in Reqs : Holds(v, u)' => v = s
    BY <2>1, <2>2, <2>3 DEF Owned
  <2> QED BY <2>4, <2>5 DEF Owned
<1> QED BY <1>5, <1>7 DEF IInv

LEMMA FinishStep ==
  ASSUME IInv, NEW r \in Reqs, Finish(r)
  PROVE  IInv'
<1>0. Typed /\ req[r] \in Request /\ Shape(req[r]) /\ Idle \in Request /\ Shape(Idle)
  BY Requests DEF IInv
<1>1. PICK t \in Txs : t = req[r].t BY <1>0 DEF Finish, Shape, Request
<1>2. /\ Become(r, Idle) /\ req[r].pc \in {"commit", "rollback"} /\ ~Busy(t)
      /\ \E st \in {"committed", "rolledback"} :
           tx' = [tx EXCEPT ![t].st = IF @ = "open" THEN st ELSE @]
      /\ slots' = [slots EXCEPT ![tx[t].h] = @ \ {t}]
      /\ UNCHANGED <<entry, used, hdb, hstate, items, job>>
  BY <1>1 DEF Finish, Release, store
<1>3. Idle.pc = "idle" BY DEF Idle
<1> HIDE DEF Idle
<1>4. /\ req' \in [Reqs -> Request]
      /\ req'[r] = Idle /\ \A s \in Reqs : s # r => req'[s] = req[s]
      /\ \A s \in Reqs : Shape(req'[s])
      /\ \A s \in Reqs : req'[s].pc \in {"publish", "begin", "query", "mutate"} => req'[s].h # None
  BY <1>0, <1>2, <1>3, Moves
<1>5. \A s \in Reqs : s = r \/ req'[s] = req[s] BY <1>4
<1>6. /\ \A s \in Reqs, g \in Handles : Publishes(s, g)' <=> Publishes(s, g)
      /\ \A s \in Reqs, u \in Txs : Holds(s, u)' <=> s # r /\ Holds(s, u)
      /\ \A u \in Txs : Holds(r, u) <=> u = t
      /\ \A s \in Reqs, u \in Txs : Executes(s, u)' <=> Executes(s, u)
      /\ \A s \in Reqs, g \in Handles : Mutates(s, g)' <=> Mutates(s, g)
  BY <1>1, <1>2, <1>3, <1>4, <1>5 DEF Publishes, Holds, Executes, Mutates
<1>7. /\ \A j \in Jobs, u \in Txs : Runs(j, u)' <=> Runs(j, u)
      /\ \A j \in Jobs, g \in Handles : RunsOn(j, g)' <=> RunsOn(j, g)
  BY <1>2 DEF Runs, RunsOn
<1>8. /\ t \notin items /\ tx[t].st = "open"
      /\ \A s \in Reqs : s # r => ~Holds(s, t)
  BY <1>6 DEF IInv, Owned
<1>9. /\ \A u \in Txs : u # t => tx'[u] = tx[u]
      /\ tx'[t].st \in {"committed", "rolledback"}
      /\ tx' \in [Txs -> [st: {"new", "open", "committed", "rolledback"},
                          c: Conns \cup {None}, h: Handles \cup {None}]]
  BY <1>0, <1>2, <1>8 DEF Typed, TypeOK
<1>10. slots' \in [Handles -> SUBSET (Txs \cup Jobs \cup Reqs)]
  BY <1>0, <1>2 DEF Typed, TypeOK
<1>11. Typed'
  <2>1. TypeOK' BY <1>0, <1>2, <1>4, <1>9, <1>10 DEF Typed, TypeOK, Request, Places
  <2> QED BY <1>4, <2>1 DEF Typed
<1>12. Stored' BY <1>2, <1>6, StoredKept DEF IInv
<1>13. Owned'
  <2>1. Owned /\ items' = items BY <1>2 DEF IInv
  <2>2. \A u \in Txs : tx'[u].st = "open" <=> u # t /\ tx[u].st = "open" BY <1>9
  <2>3. \A u \in Txs : tx'[u].st = "open" <=> (u \in items' \/ \E s \in Reqs : Holds(s, u)')
    BY <1>6, <1>8, <2>1, <2>2 DEF Owned
  <2>4. \A s \in Reqs, u \in Txs : Holds(s, u)' =>
           u \notin items' /\ \A v \in Reqs : Holds(v, u)' => v = s
    BY <1>6, <2>1 DEF Owned
  <2> QED BY <2>3, <2>4 DEF Owned
<1>14. Inside'
  <2>1. (\A j \in Jobs : ~Runs(j, t)) /\ (\A s \in Reqs : ~Executes(s, t))
    BY <1>2 DEF Busy, Runs, Executes
  <2>2. \A u \in Txs : u # t => tx'[u].st = tx[u].st BY <1>9
  <2> QED BY <1>6, <1>7, <2>1, <2>2 DEF IInv, Inside
<1>15. Counted'
  <2>1. slots \in [Handles -> SUBSET (Txs \cup Jobs \cup Reqs)] BY <1>0 DEF Typed, TypeOK
  <2>2. \A g \in Handles : slots'[g] = IF g = tx[t].h THEN slots[g] \ {t} ELSE slots[g]
    BY <1>2, <2>1
  <2>3. (\A j \in Jobs : j # t) /\ (\A s \in Reqs : s # t) BY KindsAssumption
  <2>4. Counted BY DEF IInv
  <2>5. ASSUME NEW g \in Handles, NEW u \in Txs
        PROVE  u \in slots'[g] <=> tx'[u].st = "open" /\ tx'[u].h = g
    <3>1. u \in slots[g] <=> tx[u].st = "open" /\ tx[u].h = g BY <2>4 DEF Counted
    <3> QED BY <1>9, <2>2, <3>1
  <2>6. ASSUME NEW g \in Handles, NEW j \in Jobs PROVE j \in slots'[g] <=> RunsOn(j, g)'
    <3>1. j \in slots[g] <=> RunsOn(j, g) BY <2>4 DEF Counted
    <3> QED BY <1>7, <2>2, <2>3, <3>1
  <2>7. ASSUME NEW g \in Handles, NEW s \in Reqs PROVE s \in slots'[g] <=> Mutates(s, g)'
    <3>1. s \in slots[g] <=> Mutates(s, g) BY <2>4 DEF Counted
    <3> QED BY <1>6, <2>2, <2>3, <3>1
  <2> QED BY <2>5, <2>6, <2>7 DEF Counted
<1> QED BY <1>11, <1>12, <1>13, <1>14, <1>15 DEF IInv
-----------------------------------------------------------------------------
(* Queries and row mutations.                                              *)

\* A query goes on while no request does.
LEMMA JobMoves ==
  ASSUME IInv, NEW j \in Jobs, NEW st \in {"waiting", "running", "ok", "failed"}, SetJob(j, st),
         slots' \in [Handles -> SUBSET (Txs \cup Jobs \cup Reqs)],
         UNCHANGED <<store, txns, req>>
  PROVE  /\ Typed' /\ Stored' /\ Owned'
         /\ \A k \in Jobs : k # j => job'[k] = job[k]
         /\ job'[j].st = st /\ job'[j].t = job[j].t /\ job'[j].h = job[j].h
         /\ \A s \in Reqs, t \in Txs : Executes(s, t)' <=> Executes(s, t)
         /\ \A s \in Reqs, h \in Handles : Mutates(s, h)' <=> Mutates(s, h)
<1> USE DEF store, txns
<1>1. Typed BY DEF IInv
<1>2. job' = [job EXCEPT ![j].st = st] BY DEF SetJob
<1>3. job \in [Jobs -> [st: {"new", "waiting", "running", "ok", "failed"},
                        h: Handles \cup {None}, t: Txs \cup {None}]]
  BY <1>1 DEF Typed, TypeOK
<1>4. job' \in [Jobs -> [st: {"new", "waiting", "running", "ok", "failed"},
                         h: Handles \cup {None}, t: Txs \cup {None}]]
  BY <1>2, <1>3
<1>5. /\ \A k \in Jobs : k # j => job'[k] = job[k]
      /\ job'[j].st = st /\ job'[j].t = job[j].t /\ job'[j].h = job[j].h
  BY <1>2, <1>3
<1>6. Typed' BY <1>1, <1>4 DEF Typed, TypeOK
<1>7. /\ \A s \in Reqs, h \in Handles : Publishes(s, h)' <=> Publishes(s, h)
      /\ \A s \in Reqs, t \in Txs : Holds(s, t)' <=> Holds(s, t)
      /\ \A s \in Reqs, t \in Txs : Executes(s, t)' <=> Executes(s, t)
      /\ \A s \in Reqs, h \in Handles : Mutates(s, h)' <=> Mutates(s, h)
  BY DEF Publishes, Holds, Executes, Mutates
<1>8. Stored' BY <1>7, StoredKept DEF IInv
<1>9. Owned' BY <1>7, OwnedKept DEF IInv
<1> QED BY <1>5, <1>6, <1>7, <1>8, <1>9

LEMMA StartStep ==
  ASSUME IInv, NEW r \in Reqs, NEW t \in Txs \cup {None}, NEW j \in Jobs, Start(r, t, j)
  PROVE  IInv'
<1>0. Typed /\ req[r] \in Request /\ Idle \in Request /\ Shape(Idle) /\ Idle.pc = "idle"
  BY Requests DEF IInv, Idle
<1>1. PICK g \in Handles \cup {None} : g = req[r].h BY <1>0 DEF Request
<1>2. /\ Become(r, Idle) /\ req[r].pc = "query" /\ job[j].st = "new"
      /\ job' = [job EXCEPT ![j] = [st |-> "waiting", h |-> g, t |-> t]]
      /\ UNCHANGED <<entry, used, hdb, hstate, slots, items, tx>>
  BY <1>1 DEF Start, store, txns
<1> HIDE DEF Idle
<1>3. /\ req' \in [Reqs -> Request]
      /\ req'[r] = Idle /\ \A s \in Reqs : s # r => req'[s] = req[s]
      /\ \A s \in Reqs : Shape(req'[s])
      /\ \A s \in Reqs : req'[s].pc \in {"publish", "begin", "query", "mutate"} => req'[s].h # None
  BY <1>0, <1>2, Moves
<1>4. job' \in [Jobs -> [st: {"new", "waiting", "running", "ok", "failed"},
                         h: Handles \cup {None}, t: Txs \cup {None}]]
  BY <1>0, <1>2 DEF Typed, TypeOK
<1>5. Typed'
  <2>1. TypeOK' BY <1>0, <1>2, <1>3, <1>4 DEF Typed, TypeOK, Request, Places
  <2> QED BY <1>3, <2>1 DEF Typed
<1>6. \A s \in Reqs : s = r \/ req'[s] = req[s] BY <1>3
<1>7. /\ \A s \in Reqs, h \in Handles : Publishes(s, h)' <=> Publishes(s, h)
      /\ \A s \in Reqs, u \in Txs : Holds(s, u)' <=> Holds(s, u)
      /\ \A s \in Reqs, u \in Txs : Executes(s, u)' <=> Executes(s, u)
      /\ \A s \in Reqs, h \in Handles : Mutates(s, h)' <=> Mutates(s, h)
  BY <1>0, <1>2, <1>3, <1>6 DEF Publishes, Holds, Executes, Mutates
<1>8. \A k \in Jobs : job'[k] = job[k] \/ (k = j /\ job'[k].st = "waiting")
  BY <1>0, <1>2 DEF Typed, TypeOK
<1>9. /\ \A k \in Jobs, u \in Txs : Runs(k, u)' <=> Runs(k, u)
      /\ \A k \in Jobs, h \in Handles : RunsOn(k, h)' <=> RunsOn(k, h)
  BY <1>2, <1>8 DEF Runs, RunsOn
<1>10. Stored' BY <1>2, <1>7, StoredKept DEF IInv
<1>11. Owned' BY <1>2, <1>7, OwnedKept DEF IInv
<1>12. Inside' BY <1>2, <1>7, <1>9, InsideKept DEF IInv
<1>13. Counted' BY <1>2, <1>7, <1>9, CountedKept DEF IInv
<1> QED BY <1>5, <1>10, <1>11, <1>12, <1>13 DEF IInv

LEMMA RunStep ==
  ASSUME IInv, NEW j \in Jobs, Run(j)
  PROVE  IInv'
<1>0. Typed BY DEF IInv
<1>1. slots \in [Handles -> SUBSET (Txs \cup Jobs \cup Reqs)] BY <1>0 DEF Typed, TypeOK
<1>2. /\ SetJob(j, "running") /\ job[j].st = "waiting" /\ UNCHANGED <<store, txns, req>>
      /\ \/ job[j].t = None /\ slots' = [slots EXCEPT ![job[j].h] = @ \cup {j}]
         \/ /\ job[j].t # None /\ tx[job[j].t].st = "open" /\ ~Busy(job[j].t)
            /\ slots' = slots
  BY DEF Run, Acquire
<1>3. slots' \in [Handles -> SUBSET (Txs \cup Jobs \cup Reqs)] BY <1>1, <1>2
<1>4. /\ Typed' /\ Stored' /\ Owned'
      /\ \A k \in Jobs : k # j => job'[k] = job[k]
      /\ job'[j].st = "running" /\ job'[j].t = job[j].t /\ job'[j].h = job[j].h
      /\ \A s \in Reqs, t \in Txs : Executes(s, t)' <=> Executes(s, t)
      /\ \A s \in Reqs, h \in Handles : Mutates(s, h)' <=> Mutates(s, h)
  BY <1>2, <1>3, JobMoves
<1>5. tx' = tx BY <1>2 DEF txns
<1>6. /\ \A k \in Jobs, t \in Txs : k # j => (Runs(k, t)' <=> Runs(k, t))
      /\ \A k \in Jobs, h \in Handles : k # j => (RunsOn(k, h)' <=> RunsOn(k, h))
      /\ \A t \in Txs : ~Runs(j, t)
      /\ \A t \in Txs : Runs(j, t)' <=> t = job[j].t
      /\ \A h \in Handles : ~RunsOn(j, h)
      /\ \A h \in Handles : RunsOn(j, h)' <=> job[j].t = None /\ h = job[j].h
  BY <1>2, <1>4 DEF Runs, RunsOn
<1>7. Inside'
  <2>1. CASE job[j].t \notin Txs
    <3>1. \A k \in Jobs, t \in Txs : Runs(k, t)' => Runs(k, t) BY <1>6, <2>1
    <3> QED BY <1>4, <1>5, <3>1, InsideKept DEF IInv
  <2>2. CASE job[j].t \in Txs
    <3>1. PICK t \in Txs : t = job[j].t BY <2>2
    <3>2. tx[t].st = "open" /\ ~Busy(t) BY <1>2, <3>1, NoneAssumption
    <3>3. (\A k \in Jobs : ~Runs(k, t)) /\ (\A s \in Reqs : ~Executes(s, t))
      BY <3>2 DEF Busy, Runs, Executes
    <3>4. \A k \in Jobs, u \in Txs : Runs(k, u)' <=> (k = j /\ u = t) \/ Runs(k, u)
      BY <1>6, <3>1
    <3> QED BY <1>4, <1>5, <3>2, <3>3, <3>4 DEF IInv, Inside
  <2> QED BY <2>1, <2>2
<1>8. Counted'
  <2>1. \A g \in Handles : slots'[g] = IF job[j].t = None /\ g = job[j].h
                                       THEN slots[g] \cup {j} ELSE slots[g]
    BY <1>1, <1>2
  <2>2. (\A t \in Txs : t # j) /\ (\A s \in Reqs : s # j) BY KindsAssumption
  <2>3. Counted BY DEF IInv
  <2>4. ASSUME NEW g \in Handles, NEW t \in Txs
        PROVE  t \in slots'[g] <=> tx'[t].st = "open" /\ tx'[t].h = g
    <3>1. t \in slots[g] <=> tx[t].st = "open" /\ tx[t].h = g BY <2>3 DEF Counted
    <3> QED BY <1>5, <2>1, <2>2, <3>1
  <2>5. ASSUME NEW g \in Handles, NEW k \in Jobs PROVE k \in slots'[g] <=> RunsOn(k, g)'
    <3>1. k \in slots[g] <=> RunsOn(k, g) BY <2>3 DEF Counted
    <3> QED BY <1>6, <2>1, <3>1
  <2>6. ASSUME NEW g \in Handles, NEW s \in Reqs PROVE s \in slots'[g] <=> Mutates(s, g)'
    <3>1. s \in slots[g] <=> Mutates(s, g) BY <2>3 DEF Counted
    <3> QED BY <1>4, <2>1, <2>2, <3>1
  <2> QED BY <2>4, <2>5, <2>6 DEF Counted
<1> QED BY <1>4, <1>7, <1>8 DEF IInv

LEMMA JobEndStep ==
  ASSUME IInv, NEW j \in Jobs, Complete(j) \/ GiveUp(j)
  PROVE  IInv'
<1>0. Typed BY DEF IInv
<1>1. slots \in [Handles -> SUBSET (Txs \cup Jobs \cup Reqs)] BY <1>0 DEF Typed, TypeOK
<1>2. PICK st \in {"ok", "failed"} : SetJob(j, st) BY DEF Complete, GiveUp
<1>3. /\ UNCHANGED <<store, txns, req>>
      /\ \/ /\ job[j].st = "running"
            /\ \/ job[j].t = None /\ slots' = [slots EXCEPT ![job[j].h] = @ \ {j}]
               \/ job[j].t # None /\ slots' = slots
         \/ job[j].st = "waiting" /\ slots' = slots
  BY DEF Complete, GiveUp, Release
<1>4. slots' \in [Handles -> SUBSET (Txs \cup Jobs \cup Reqs)] BY <1>1, <1>3
<1>5. /\ Typed' /\ Stored' /\ Owned'
      /\ \A k \in Jobs : k # j => job'[k] = job[k]
      /\ job'[j].st = st /\ job'[j].t = job[j].t /\ job'[j].h = job[j].h
      /\ \A s \in Reqs, t \in Txs : Executes(s, t)' <=> Executes(s, t)
      /\ \A s \in Reqs, h \in Handles : Mutates(s, h)' <=> Mutates(s, h)
  BY <1>2, <1>3, <1>4, JobMoves
<1>6. tx' = tx BY <1>3 DEF txns
<1>7. /\ \A k \in Jobs, t \in Txs : Runs(k, t)' <=> k # j /\ Runs(k, t)
      /\ \A k \in Jobs, h \in Handles : RunsOn(k, h)' <=> k # j /\ RunsOn(k, h)
      /\ \A h \in Handles : RunsOn(j, h) <=> job[j].st = "running" /\ job[j].t = None /\ h = job[j].h
  BY <1>5 DEF Runs, RunsOn
<1>8. Inside' BY <1>5, <1>6, <1>7, InsideKept DEF IInv
<1>9. Counted'
  <2>1. \A g \in Handles : slots'[g] = IF job[j].st = "running" /\ job[j].t = None /\ g = job[j].h
                                       THEN slots[g] \ {j} ELSE slots[g]
    BY <1>1, <1>3
  <2>2. (\A t \in Txs : t # j) /\ (\A s \in Reqs : s # j) BY KindsAssumption
  <2>3. Counted BY DEF IInv
  <2>4. ASSUME NEW g \in Handles, NEW t \in Txs
        PROVE  t \in slots'[g] <=> tx'[t].st = "open" /\ tx'[t].h = g
    <3>1. t \in slots[g] <=> tx[t].st = "open" /\ tx[t].h = g BY <2>3 DEF Counted
    <3> QED BY <1>6, <2>1, <2>2, <3>1
  <2>5. ASSUME NEW g \in Handles, NEW k \in Jobs PROVE k \in slots'[g] <=> RunsOn(k, g)'
    <3>1. k \in slots[g] <=> RunsOn(k, g) BY <2>3 DEF Counted
    <3> QED BY <1>7, <2>1, <3>1
  <2>6. ASSUME NEW g \in Handles, NEW s \in Reqs PROVE s \in slots'[g] <=> Mutates(s, g)'
    <3>1. s \in slots[g] <=> Mutates(s, g) BY <2>3 DEF Counted
    <3> QED BY <1>5, <2>1, <2>2, <3>1
  <2> QED BY <2>4, <2>5, <2>6 DEF Counted
<1> QED BY <1>5, <1>8, <1>9 DEF IInv
\* A request begins or ends the statement of a row mutation.
LEMMA MutationMoves ==
  ASSUME IInv, NEW r \in Reqs, NEW q, q \in Request, Shape(q), Become(r, q),
         q.pc \in {"execute", "idle"}, req[r].pc \in {"mutate", "turn", "execute"},
         slots' \in [Handles -> SUBSET (Txs \cup Jobs \cup Reqs)],
         UNCHANGED <<store, txns, job>>
  PROVE  /\ Typed' /\ Stored' /\ Owned'
         /\ req'[r] = q /\ \A s \in Reqs : s # r => req'[s] = req[s]
         /\ \A j \in Jobs, t \in Txs : Runs(j, t)' <=> Runs(j, t)
         /\ \A j \in Jobs, h \in Handles : RunsOn(j, h)' <=> RunsOn(j, h)
<1> USE DEF store, txns
<1>1. Typed BY DEF IInv
<1>2. /\ req' \in [Reqs -> Request]
      /\ req'[r] = q /\ \A s \in Reqs : s # r => req'[s] = req[s]
      /\ \A s \in Reqs : Shape(req'[s])
      /\ \A s \in Reqs : req'[s].pc \in {"publish", "begin", "query", "mutate"} => req'[s].h # None
  BY <1>1, Moves
<1>3. Typed'
  <2>1. TypeOK' BY <1>1, <1>2 DEF Typed, TypeOK, Request, Places
  <2> QED BY <1>2, <2>1 DEF Typed
<1>4. \A s \in Reqs : s = r \/ req'[s] = req[s] BY <1>2
<1>5. /\ \A s \in Reqs, h \in Handles : Publishes(s, h)' <=> Publishes(s, h)
      /\ \A s \in Reqs, t \in Txs : Holds(s, t)' <=> Holds(s, t)
  BY <1>2, <1>4 DEF Publishes, Holds
<1>6. Stored' BY <1>5, StoredKept DEF IInv
<1>7. Owned' BY <1>5, OwnedKept DEF IInv
<1>8. /\ \A j \in Jobs, t \in Txs : Runs(j, t)' <=> Runs(j, t)
      /\ \A j \in Jobs, h \in Handles : RunsOn(j, h)' <=> RunsOn(j, h)
  BY DEF Runs, RunsOn
<1> QED BY <1>2, <1>3, <1>6, <1>7, <1>8

LEMMA ExecuteStep ==
  ASSUME IInv, NEW r \in Reqs, Execute(r)
  PROVE  IInv'
<1> DEFINE q == [req[r] EXCEPT !.pc = "execute"]
<1>0. Typed /\ req[r] \in Request /\ Shape(req[r]) BY Requests DEF IInv
<1>1. slots \in [Handles -> SUBSET (Txs \cup Jobs \cup Reqs)] BY <1>0 DEF Typed, TypeOK
<1>2. /\ q \in Request /\ q.pc = "execute" /\ q.t = req[r].t /\ q.h = req[r].h /\ Shape(q)
  BY <1>0 DEF Request, Places, Shape
<1>3. /\ Become(r, q) /\ UNCHANGED <<store, txns, job>>
      /\ \/ req[r].pc = "mutate" /\ slots' = [slots EXCEPT ![req[r].h] = @ \cup {r}]
         \/ /\ req[r].pc = "turn" /\ tx[req[r].t].st = "open" /\ ~Busy(req[r].t)
            /\ slots' = slots
  BY DEF Execute, Acquire
<1> HIDE DEF q
<1>4. /\ req[r].pc = "mutate" <=> req[r].t = None
      /\ req[r].pc \in {"mutate", "turn"}
  BY <1>0, <1>3 DEF Shape
<1>5. slots' \in [Handles -> SUBSET (Txs \cup Jobs \cup Reqs)] BY <1>1, <1>3
<1>6. /\ Typed' /\ Stored' /\ Owned'
      /\ req'[r] = q /\ \A s \in Reqs : s # r => req'[s] = req[s]
      /\ \A j \in Jobs, t \in Txs : Runs(j, t)' <=> Runs(j, t)
      /\ \A j \in Jobs, h \in Handles : RunsOn(j, h)' <=> RunsOn(j, h)
  BY <1>2, <1>3, <1>4, <1>5, MutationMoves
<1>7. tx' = tx BY <1>3 DEF txns
<1>8. /\ \A s \in Reqs, t \in Txs : s # r => (Executes(s, t)' <=> Executes(s, t))
      /\ \A s \in Reqs, h \in Handles : s # r => (Mutates(s, h)' <=> Mutates(s, h))
      /\ \A t \in Txs : ~Executes(r, t)
      /\ \A t \in Txs : Executes(r, t)' <=> t = req[r].t
      /\ \A h \in Handles : ~Mutates(r, h)
      /\ \A h \in Handles : Mutates(r, h)' <=> req[r].t = None /\ h = req[r].h
  BY <1>2, <1>4, <1>6 DEF Executes, Mutates
<1>9. Inside'
  <2>1. CASE req[r].t \notin Txs
    <3>1. \A s \in Reqs, t \in Txs : Executes(s, t)' => Executes(s, t) BY <1>8, <2>1
    <3> QED BY <1>6, <1>7, <3>1, InsideKept DEF IInv
  <2>2. CASE req[r].t \in Txs
    <3>1. PICK t \in Txs : t = req[r].t BY <2>2
    <3>2. tx[t].st = "open" /\ ~Busy(t) BY <1>3, <1>4, <3>1, NoneAssumption
    <3>3. (\A k \in Jobs : ~Runs(k, t)) /\ (\A s \in Reqs : ~Executes(s, t))
      BY <3>2 DEF Busy, Runs, Executes
    <3>4. \A s \in Reqs, u \in Txs : Executes(s, u)' <=> (s = r /\ u = t) \/ Executes(s, u)
      BY <1>8, <3>1
    <3> QED BY <1>6, <1>7, <3>2, <3>3, <3>4 DEF IInv, Inside
  <2> QED BY <2>1, <2>2
<1>10. Counted'
  <2>1. \A g \in Handles : slots'[g] = IF req[r].t = None /\ g = req[r].h
                                       THEN slots[g] \cup {r} ELSE slots[g]
    BY <1>1, <1>3, <1>4
  <2>2. (\A t \in Txs : t # r) /\ (\A j \in Jobs : j # r) BY KindsAssumption
  <2>3. Counted BY DEF IInv
  <2>4. ASSUME NEW g \in Handles, NEW t \in Txs
        PROVE  t \in slots'[g] <=> tx'[t].st = "open" /\ tx'[t].h = g
    <3>1. t \in slots[g] <=> tx[t].st = "open" /\ tx[t].h = g BY <2>3 DEF Counted
    <3> QED BY <1>7, <2>1, <2>2, <3>1
  <2>5. ASSUME NEW g \in Handles, NEW k \in Jobs PROVE k \in slots'[g] <=> RunsOn(k, g)'
    <3>1. k \in slots[g] <=> RunsOn(k, g) BY <2>3 DEF Counted
    <3> QED BY <1>6, <2>1, <2>2, <3>1
  <2>6. ASSUME NEW g \in Handles, NEW s \in Reqs PROVE s \in slots'[g] <=> Mutates(s, g)'
    <3>1. s \in slots[g] <=> Mutates(s, g) BY <2>3 DEF Counted
    <3> QED BY <1>8, <2>1, <3>1
  <2> QED BY <2>4, <2>5, <2>6 DEF Counted
<1> QED BY <1>6, <1>9, <1>10 DEF IInv

LEMMA EndMutationStep ==
  ASSUME IInv, NEW r \in Reqs, EndMutation(r)
  PROVE  IInv'
<1>0. Typed /\ req[r] \in Request /\ Idle \in Request /\ Shape(Idle) /\ Idle.pc = "idle"
  BY Requests DEF IInv, Idle
<1>1. slots \in [Handles -> SUBSET (Txs \cup Jobs \cup Reqs)] BY <1>0 DEF Typed, TypeOK
<1>2. /\ Become(r, Idle) /\ UNCHANGED <<store, txns, job>> /\ req[r].pc = "execute"
      /\ \/ req[r].t = None /\ slots' = [slots EXCEPT ![req[r].h] = @ \ {r}]
         \/ req[r].t # None /\ slots' = slots
  BY DEF EndMutation, Release
<1>3. slots' \in [Handles -> SUBSET (Txs \cup Jobs \cup Reqs)] BY <1>1, <1>2
<1> HIDE DEF Idle
<1>4. /\ Typed' /\ Stored' /\ Owned'
      /\ req'[r] = Idle /\ \A s \in Reqs : s # r => req'[s] = req[s]
      /\ \A j \in Jobs, t \in Txs : Runs(j, t)' <=> Runs(j, t)
      /\ \A j \in Jobs, h \in Handles : RunsOn(j, h)' <=> RunsOn(j, h)
  BY <1>0, <1>2, <1>3, MutationMoves
<1>5. tx' = tx BY <1>2 DEF txns
<1>6. /\ \A s \in Reqs, t \in Txs : Executes(s, t)' <=> s # r /\ Executes(s, t)
      /\ \A s \in Reqs, h \in Handles : Mutates(s, h)' <=> s # r /\ Mutates(s, h)
      /\ \A h \in Handles : Mutates(r, h) <=> req[r].t = None /\ h = req[r].h
  BY <1>0, <1>2, <1>4 DEF Executes, Mutates
<1>7. Inside' BY <1>4, <1>5, <1>6, InsideKept DEF IInv
<1>8. Counted'
  <2>1. \A g \in Handles : slots'[g] = IF req[r].t = None /\ g = req[r].h
                                       THEN slots[g] \ {r} ELSE slots[g]
    BY <1>1, <1>2
  <2>2. (\A t \in Txs : t # r) /\ (\A j \in Jobs : j # r) BY KindsAssumption
  <2>3. Counted BY DEF IInv
  <2>4. ASSUME NEW g \in Handles, NEW t \in Txs
        PROVE  t \in slots'[g] <=> tx'[t].st = "open" /\ tx'[t].h = g
    <3>1. t \in slots[g] <=> tx[t].st = "open" /\ tx[t].h = g BY <2>3 DEF Counted
    <3> QED BY <1>5, <2>1, <2>2, <3>1
  <2>5. ASSUME NEW g \in Handles, NEW k \in Jobs PROVE k \in slots'[g] <=> RunsOn(k, g)'
    <3>1. k \in slots[g] <=> RunsOn(k, g) BY <2>3 DEF Counted
    <3> QED BY <1>4, <2>1, <2>2, <3>1
  <2>6. ASSUME NEW g \in Handles, NEW s \in Reqs PROVE s \in slots'[g] <=> Mutates(s, g)'
    <3>1. s \in slots[g] <=> Mutates(s, g) BY <2>3 DEF Counted
    <3> QED BY <1>6, <2>1, <3>1
  <2> QED BY <2>4, <2>5, <2>6 DEF Counted
<1> QED BY <1>4, <1>7, <1>8 DEF IInv

-----------------------------------------------------------------------------
LEMMA InitInv == Init => IInv
<1> SUFFICES ASSUME Init PROVE IInv OBVIOUS
<1>1. \A r \in Reqs : req[r] = Idle BY DEF Init
<1>2. Typed BY <1>1 DEF Init, Typed, TypeOK, NoTx, NoJob, Idle, Shape
<1>3. /\ \A r \in Reqs, h \in Handles : ~Publishes(r, h)
      /\ \A r \in Reqs, t \in Txs : ~Holds(r, t)
      /\ \A r \in Reqs, t \in Txs : ~Executes(r, t)
      /\ \A r \in Reqs, h \in Handles : ~Mutates(r, h)
  BY <1>1 DEF Idle, Publishes, Holds, Executes, Mutates
<1>4. /\ \A j \in Jobs, t \in Txs : ~Runs(j, t)
      /\ \A j \in Jobs, h \in Handles : ~RunsOn(j, h)
  BY DEF Init, NoJob, Runs, RunsOn
<1>5. \A t \in Txs : tx[t].st = "new" BY DEF Init, NoTx
<1>6. Stored BY <1>3 DEF Init, Stored
<1>7. Owned BY <1>3, <1>5 DEF Init, Owned
<1>8. Inside BY <1>3, <1>4 DEF Inside
<1>9. Counted BY <1>3, <1>4, <1>5 DEF Init, Counted
<1> QED BY <1>2, <1>6, <1>7, <1>8, <1>9 DEF IInv

LEMMA NextInv == IInv /\ [Next]_vars => IInv'
<1> SUFFICES ASSUME IInv, [Next]_vars PROVE IInv' OBVIOUS
<1>1. ASSUME NEW r \in Reqs, ReqStep(r) PROVE IInv'
  BY <1>1, OpenStep, QuietSteps, PutHandleStep, ReplaceHandleStep, BeginStep, StartStep,
     RegisterStep, FinishStep, ExecuteStep, EndMutationStep DEF ReqStep
<1>2. ASSUME NEW j \in Jobs, JobStep(j) PROVE IInv'
  BY <1>2, RunStep, JobEndStep DEF JobStep
<1>3. CASE Client
  BY <1>3, QuietSteps, TakeStep, DisconnectStep DEF Client
<1>4. CASE UNCHANGED vars
  <2> USE <1>4 DEF vars, store, txns
  <2>1. /\ \A s \in Reqs, g \in Handles : Publishes(s, g)' <=> Publishes(s, g)
        /\ \A s \in Reqs, t \in Txs : Holds(s, t)' <=> Holds(s, t)
        /\ \A s \in Reqs, t \in Txs : Executes(s, t)' <=> Executes(s, t)
        /\ \A s \in Reqs, h \in Handles : Mutates(s, h)' <=> Mutates(s, h)
        /\ \A j \in Jobs, t \in Txs : Runs(j, t)' <=> Runs(j, t)
        /\ \A j \in Jobs, h \in Handles : RunsOn(j, h)' <=> RunsOn(j, h)
    BY DEF Publishes, Holds, Executes, Mutates, Runs, RunsOn
  <2>2. Typed' BY DEF IInv, Typed, TypeOK
  <2> QED BY <2>1, <2>2, StoredKept, OwnedKept, InsideKept, CountedKept DEF IInv
<1> QED BY <1>1, <1>2, <1>3, <1>4 DEF Next

LEMMA Invariant == Spec => []IInv
  BY InitInv, NextInv, PTL DEF Spec

\* Type correctness: whatever connects, switches, commits and closes race, the store,
\* the pools, the transactions, the queries and the requests stay in their types.
THEOREM TypeCorrect == Spec => []TypeOK
<1>1. IInv => TypeOK BY DEF IInv, Typed
<1> QED BY <1>1, Invariant, PTL

\* No pool and no transaction is lost track of and none is handed out closed, for any
\* number of requests that connect, switch, disconnect, begin, commit and roll back.
THEOREM NothingIsForgotten == Spec => []NothingForgotten
<1>1. IInv => NothingForgotten
  <2> SUFFICES ASSUME IInv PROVE NothingForgotten OBVIOUS
  <2>1. NoHandleLeaks BY DEF IInv, Stored, Publishes, NoHandleLeaks
  <2>2. StoredHandlesUsable BY DEF IInv, Stored, StoredHandlesUsable
  <2>3. OpenIsReachable
    <3> SUFFICES ASSUME NEW t \in Txs
                 PROVE  tx[t].st = "open" <=>
                          \/ t \in items
                          \/ {r \in Reqs : /\ req[r].pc \in {"register", "commit", "rollback"}
                                           /\ req[r].t = t} # {}
      BY DEF OpenIsReachable
    <3>1. {r \in Reqs : /\ req[r].pc \in {"register", "commit", "rollback"}
                        /\ req[r].t = t} # {} <=> \E r \in Reqs : Holds(r, t)
      BY DEF Holds
    <3> QED BY <3>1 DEF IInv, Owned
  <2> QED BY <2>1, <2>2, <2>3 DEF NothingForgotten
<1> QED BY <1>1, Invariant, PTL

\* A statement sent to a transaction runs while the transaction is open, and alone,
\* however many queries, row mutations, commits and rollbacks want the transaction.
THEOREM StatementsRunInside == Spec => []RunsInsideTransaction
<1>1. IInv => RunsInsideTransaction
  <2> SUFFICES ASSUME IInv, NEW t \in Txs,
                      {j \in Jobs : job[j].st = "running" /\ job[j].t = t}
                      \cup {r \in Reqs : req[r].pc = "execute" /\ req[r].t = t} # {}
               PROVE  /\ tx[t].st = "open"
                      /\ Cardinality({j \in Jobs : job[j].st = "running" /\ job[j].t = t}
                           \cup {r \in Reqs : req[r].pc = "execute" /\ req[r].t = t}) = 1
    BY DEF RunsInsideTransaction
  <2> DEFINE users == {j \in Jobs : job[j].st = "running" /\ job[j].t = t}
                      \cup {r \in Reqs : req[r].pc = "execute" /\ req[r].t = t}
  <2>1. /\ \A j \in Jobs : j \in users <=> Runs(j, t)
        /\ \A r \in Reqs : r \in users <=> Executes(r, t)
        /\ users \subseteq Jobs \cup Reqs
    BY KindsAssumption DEF Runs, Executes
  <2>2. users # {} OBVIOUS
  <2> HIDE DEF users
  <2>3. PICK x \in users : TRUE BY <2>2
  <2>4. tx[t].st = "open" /\ \A y \in users : y = x
    <3>1. Inside BY DEF IInv
    <3> QED BY <2>1, <2>3, <3>1 DEF Inside
  <2>5. users = {x} BY <2>3, <2>4
  <2>6. Cardinality({x}) = 1 BY FS_Singleton
  <2> QED BY <2>4, <2>5, <2>6 DEF users
<1> QED BY <1>1, Invariant, PTL

\* The connections of every pool in use are those of its open transactions, its
\* running statements and its row mutations, also after the pool was closed.
THEOREM SlotsAreAccountedFor == Spec => []SlotsAccountedFor
<1>1. IInv => SlotsAccountedFor
  <2> SUFFICES ASSUME IInv, NEW h \in Handles
               PROVE  slots[h] =
                        {t \in Txs : tx[t].st = "open" /\ tx[t].h = h}
                        \cup {j \in Jobs : job[j].st = "running" /\ job[j].t = None /\ job[j].h = h}
                        \cup {r \in Reqs : req[r].pc = "execute" /\ req[r].t = None /\ req[r].h = h}
    BY DEF SlotsAccountedFor
  <2>1. slots[h] \subseteq Txs \cup Jobs \cup Reqs BY DEF IInv, Typed, TypeOK
  <2>2. /\ \A t \in Txs : t \in slots[h] <=> tx[t].st = "open" /\ tx[t].h = h
        /\ \A j \in Jobs : j \in slots[h] <=> job[j].st = "running" /\ job[j].t = None /\ job[j].h = h
        /\ \A r \in Reqs : r \in slots[h] <=> req[r].pc = "execute" /\ req[r].t = None /\ req[r].h = h
    BY DEF IInv, Counted, RunsOn, Mutates
  <2> QED BY <2>1, <2>2
<1> QED BY <1>1, Invariant, PTL
=============================================================================
