------------------------ MODULE LoginSessionsProofs ------------------------
(***************************************************************************)
(* Theorems about LoginSessions, for any number of sessions, requests and  *)
(* updates and any life of a session.                                      *)
(***************************************************************************)
EXTENDS LoginSessions, TLAPS

Opened == {"sadd", "expire", "undoKey", "undoBoth", "undoIndex"}
LoginPCs == {"authenticate", "setnx"} \cup Opened
RevokePCs == {"update", "smembers", "del"}
UsePCs == {"get", "principal", "serve", "reload", "delKey", "srem"}

\* Which requests reach which commands.
Routed(r) ==
  /\ req[r].pc \in LoginPCs => req[r].kind = "login"
  /\ req[r].pc \in RevokePCs => req[r].kind = "revoke"
  /\ req[r].pc \in UsePCs => req[r].kind \in {"request", "logout", "reject"}

\* A request uses a session that some client holds, and one that only has the
\* index left to clean has deleted the session.
Used(r) ==
  /\ req[r].pc \in UsePCs => req[r].sid \in given
  /\ req[r].pc = "srem" => key[req[r].sid] = None

\* A request that finds the account active knows it.
Knows(r) ==
  /\ req[r].pc \in UsePCs /\ status = "active" => req[r].was
  /\ req[r].pc = "serve" => req[r].was

\* The session a login is opening is held by nobody.
Own(r) == req[r].pc \in Opened => req[r].sid \in Ids \ given

Part(r) == Routed(r) /\ Used(r) /\ Knows(r) /\ Own(r)

\* Two logins never open the same session.
Distinct ==
  \A r, q \in Reqs : /\ req[r].pc \in Opened /\ req[q].pc \in Opened
                     /\ req[r].sid = req[q].sid
                     => r = q

\* A session that was logged out had been given to a client, which is why its key
\* is not written again.
Gone == out \subseteq given /\ LoggedOutIsGone

IInv == TypeOK /\ (\A r \in Reqs : Part(r)) /\ Distinct /\ Gone

-----------------------------------------------------------------------------
(* The revocation of sessions.                                             *)

Lives == \A i \in Ids : key[i] # None => key[i].ends <= now + TTL

\* The index does not expire before a session on it that a client holds.
Outlives == \A i \in given \ late : key[i] # None => indexEnds = 0 \/ key[i].ends <= indexEnds

\* The sessions that a client holds or is about to be given, but for the late ones.
Counted == (given \cup Indexing) \ late

\* They are on the index, and were opened after the last revocation.
Listed == \A i \in Counted : key[i] # None => i \in index /\ key[i].epoch >= revoked

\* The key of a session that is not on the index yet has the epoch its login has seen.
Marked(r) == req[r].pc = "sadd" /\ key[req[r].sid] # None => key[req[r].sid].epoch = req[r].seen

\* A DEL is about every session that counts.
Revoking(r) == req[r].pc = "del" => \A i \in Counted : key[i] # None => i \in req[r].ids

RInv == Lives /\ Outlives /\ Listed /\ \A r \in Reqs : Marked(r) /\ Revoking(r)

-----------------------------------------------------------------------------

PCs == {"idle"} \cup LoginPCs \cup RevokePCs \cup UsePCs

\* The fields of a request that goes on at l.
LEMMA AtFields ==
  ASSUME TypeOK, NEW r \in Reqs, NEW l \in PCs
  PROVE  /\ At(r, l) \in Request /\ At(r, l).pc = l /\ At(r, l).kind = req[r].kind
         /\ At(r, l).sid = req[r].sid /\ At(r, l).seen = req[r].seen
         /\ At(r, l).ids = req[r].ids /\ At(r, l).was = req[r].was
<1>1. req[r] \in Request BY DEF TypeOK
<1> QED BY <1>1 DEF At, Request, PCs, LoginPCs, RevokePCs, UsePCs, Opened

LEMMA IdleFields == Idle \in Request /\ Idle.pc = "idle"
<1>1. 0 \in 0 .. MaxEpoch BY TimeAssumption
<1> QED BY <1>1 DEF Idle, Request, Kinds

LEMMA Becomes ==
  ASSUME TypeOK, NEW r \in Reqs, NEW q \in Request, Become(r, q)
  PROVE  /\ req' \in [Reqs -> Request]
         /\ \A p \in Reqs \ {r} : req'[p] = req[p]
         /\ req'[r].pc = q.pc
         /\ q.pc # "idle" => req'[r] = q
  BY IdleFields DEF Become, TypeOK

\* DEL and the commands on the index keep the types, and DEL writes no key.
LEMMA DelFields ==
  ASSUME TypeOK, NEW s, DelKeys(s)
  PROVE  /\ key' \in [Ids -> Key \cup {None}]
         /\ \A i \in Ids : key'[i] = IF i \in s THEN None ELSE key[i]
  BY DEF DelKeys, TypeOK

LEMMA IndexFields ==
  ASSUME TypeOK, NEW s \in SUBSET Ids, SetIndex(s)
  PROVE  /\ index' = s /\ index' \in SUBSET Ids /\ indexEnds' \in Nat
         /\ indexEnds' = 0 \/ (indexEnds' = indexEnds /\ s # {})
  BY DEF SetIndex, TypeOK

\* What a request must have established when it goes on as q.
Ready(r, q) ==
  /\ q.pc \in LoginPCs => q.kind = "login"
  /\ q.pc \in RevokePCs => q.kind = "revoke"
  /\ q.pc \in UsePCs => /\ q.kind \in {"request", "logout", "reject"}
                        /\ q.sid \in given
                        /\ status = "active" => q.was
  /\ q.pc = "srem" => key'[q.sid] = None
  /\ q.pc = "serve" => q.was
  /\ q.pc \in Opened => /\ q.sid \in Ids \ given
                        /\ \/ req[r].pc \in Opened /\ q.sid = req[r].sid
                           \/ \A p \in Reqs : req[p].sid # q.sid

\* A step of one request that writes no key of a session that was given out.
LEMMA StepKeeps ==
  ASSUME IInv, NEW r \in Reqs, NEW q \in Request, Become(r, q),
         UNCHANGED <<account, now, given>>,
         key' \in [Ids -> Key \cup {None}], index' \in SUBSET Ids, indexEnds' \in Nat,
         revoked' \in 0 .. MaxEpoch, late' \in SUBSET Ids,
         \A i \in given : key[i] = None => key'[i] = None,
         \A i \in out' : i \in out \/ (i \in given /\ key'[i] = None),
         Ready(r, q)
  PROVE  IInv'
<1>a. TypeOK /\ Distinct /\ Gone /\ \A p \in Reqs : Part(p) BY DEF IInv
<1>1. /\ req' \in [Reqs -> Request]
      /\ \A p \in Reqs \ {r} : req'[p] = req[p]
      /\ req'[r].pc = q.pc
      /\ q.pc # "idle" => req'[r] = q
  BY <1>a, Becomes
<1>2. out' \subseteq given BY <1>a DEF Gone
<1>3. TypeOK' BY <1>a, <1>1, <1>2 DEF TypeOK, account
<1>4. ASSUME NEW p \in Reqs \ {r} PROVE Part(p)'
  <2>1. Part(p) /\ req'[p] = req[p] BY <1>a, <1>1
  <2>2. Routed(p)' BY <2>1 DEF Part, Routed
  <2>3. Used(p)' BY <2>1 DEF Part, Used, UsePCs
  <2>4. Knows(p)' /\ Own(p)' BY <2>1 DEF Part, Knows, Own, account
  <2> QED BY <2>2, <2>3, <2>4 DEF Part
<1>5. Part(r)'
  <2>0. CASE q.pc = "idle"
    BY <1>1, <2>0 DEF Part, Routed, Used, Knows, Own, LoginPCs, RevokePCs, UsePCs, Opened
  <2>1. CASE q.pc # "idle"
    <3>1. req'[r] = q BY <1>1, <2>1
    <3>2. Routed(r)' BY <3>1 DEF Ready, Routed
    <3>3. Used(r)' /\ Knows(r)' BY <3>1 DEF Ready, Used, Knows, account
    <3>4. Own(r)' BY <3>1 DEF Ready, Own
    <3> QED BY <3>2, <3>3, <3>4 DEF Part
  <2> QED BY <2>0, <2>1
<1>6. Distinct'
  <2> SUFFICES ASSUME NEW p1 \in Reqs, NEW p2 \in Reqs, p1 # p2, req'[p1].pc \in Opened,
                      req'[p2].pc \in Opened, req'[p1].sid = req'[p2].sid
               PROVE  FALSE
    BY DEF Distinct
  <2>1. ASSUME NEW p \in Reqs \ {r}, req[p].pc \in Opened, q.pc \in Opened, req'[r].sid = req[p].sid
        PROVE FALSE
    <3>1. req'[r] = q BY <1>1, <2>1 DEF Opened
    <3> QED BY <1>a, <2>1, <3>1 DEF Ready, Distinct
  <2> QED BY <1>1, <1>a, <2>1 DEF Distinct
<1>7. Gone' BY <1>a, <1>2 DEF Gone, LoggedOutIsGone
<1> QED BY <1>3, <1>4, <1>5, <1>6, <1>7 DEF IInv

LEMMA InitInv == Init => IInv
<1> SUFFICES ASSUME Init PROVE IInv OBVIOUS
<1>1. 0 \in 0 .. MaxEpoch /\ 0 \in 0 .. MaxTime BY TimeAssumption
<1>2. TypeOK BY <1>1, IdleFields DEF Init, TypeOK
<1>3. \A r \in Reqs : req[r].pc = "idle" BY IdleFields DEF Init
<1>4. \A r \in Reqs : Part(r)
  BY <1>3 DEF Part, Routed, Used, Knows, Own, LoginPCs, RevokePCs, UsePCs, Opened
<1>5. Distinct BY <1>3 DEF Distinct, Opened
<1>6. Gone BY DEF Init, Gone, LoggedOutIsGone
<1> QED BY <1>2, <1>4, <1>5, <1>6 DEF IInv

\* The commands of a login.
LEMMA LoginKeeps ==
  ASSUME IInv, NEW r \in Reqs,
         \/ Authenticate(r) \/ SAdd(r) \/ UndoIndex(r) \/ UndoKey(r)
         \/ \E i \in Ids : SetNX(r, i)
  PROVE  IInv'
<1>a. TypeOK /\ Part(r) BY DEF IInv
<1>b. req[r] \in Request BY <1>a DEF TypeOK
<1>c. \A i \in out : key[i] = None /\ i \in given BY DEF IInv, Gone, LoggedOutIsGone
<1>d. Idle \in Request /\ Ready(r, Idle)
  BY IdleFields DEF Ready, LoginPCs, RevokePCs, UsePCs, Opened
<1>1. CASE Authenticate(r)
  <2> DEFINE l == IF status = "active" THEN "setnx" ELSE "idle"
             q == [At(r, l) EXCEPT !.seen = epoch]
  <2>1. req[r].kind = "login" BY <1>1, <1>a DEF Authenticate, Part, Routed, LoginPCs
  <2>2. l \in PCs /\ l \in {"setnx", "idle"} BY DEF PCs, LoginPCs
  <2> HIDE DEF l
  <2>3. q \in Request /\ q.pc = l /\ q.kind = "login"
    BY <1>a, <2>1, <2>2, AtFields DEF Request, TypeOK
  <2>4. Ready(r, q) BY <2>2, <2>3 DEF Ready, LoginPCs, RevokePCs, UsePCs, Opened
  <2>5. Become(r, q) /\ UNCHANGED <<account, redis, now, outcome>> BY <1>1 DEF Authenticate, l
  <2> HIDE DEF q
  <2> QED BY <1>a, <1>c, <2>3, <2>4, <2>5, StepKeeps DEF TypeOK, redis, outcome
<1>2. ASSUME NEW i \in Ids, SetNX(r, i) PROVE IInv'
  <2> DEFINE q == [At(r, "sadd") EXCEPT !.sid = i]
             Effect == /\ key' = [key EXCEPT ![i] = [epoch |-> req[r].seen, ends |-> now + TTL]]
                       /\ UNCHANGED <<index, indexEnds>>
  <2>1. req[r].kind = "login" /\ Unused(i) /\ UNCHANGED <<account, now, outcome>>
    BY <1>2, <1>a DEF SetNX, Part, Routed, LoginPCs
  <2>2. "sadd" \in PCs BY DEF PCs, LoginPCs, Opened
  <2>3. q \in Request /\ q.pc = "sadd" /\ q.kind = "login" /\ q.sid = i
    BY <1>a, <2>1, <2>2, AtFields DEF Request
  <2>4. Ready(r, q)
    BY <2>1, <2>3 DEF Ready, LoginPCs, RevokePCs, UsePCs, Opened, Unused
  <2>5. [epoch |-> req[r].seen, ends |-> now + TTL] \in Key
    BY <1>a, <1>b, TimeAssumption DEF Key, Request, TypeOK
  <2>6. /\ key' \in [Ids -> Key \cup {None}] /\ index' \in SUBSET Ids /\ indexEnds' \in Nat
        /\ \A j \in given : key[j] = None => key'[j] = None
    BY <1>2, <1>a, <2>1, <2>5 DEF SetNX, Command, redis, TypeOK, Unused
  <2>7. Become(r, q) \/ Become(r, Idle) BY <1>2 DEF SetNX, Command
  <2> HIDE DEF q
  <2> QED BY <1>a, <1>c, <1>d, <2>1, <2>3, <2>4, <2>6, <2>7, StepKeeps DEF TypeOK, outcome
<1>3. CASE SAdd(r)
  <2>1. /\ req[r].pc = "sadd" /\ req[r].kind = "login" /\ req[r].sid \in Ids \ given
        /\ UNCHANGED <<account, now, given, out, revoked>>
    BY <1>3, <1>a DEF SAdd, Part, Routed, LoginPCs, Own, Opened
  <2>5. late' \in SUBSET Ids BY <1>3, <1>a, <2>1 DEF SAdd, TypeOK
  <2>2. \/ Become(r, At(r, "expire"))
        \/ Become(r, At(r, "undoKey"))
    BY <1>3 DEF SAdd, Command
  <2>3. /\ key' = key /\ index' \in SUBSET Ids /\ indexEnds' \in Nat
    <3>1. index \cup {req[r].sid} \in SUBSET Ids BY <1>a, <2>1 DEF TypeOK
    <3> QED BY <1>3, <1>a, <3>1, IndexFields DEF SAdd, Command, redis, TypeOK
  <2>4. ASSUME NEW l \in {"expire", "undoKey"} PROVE At(r, l) \in Request /\ Ready(r, At(r, l))
    <3>1. l \in PCs BY DEF PCs, LoginPCs, Opened
    <3>2. /\ At(r, l) \in Request /\ At(r, l).pc = l /\ At(r, l).kind = "login"
          /\ At(r, l).sid = req[r].sid
      BY <1>a, <2>1, <3>1, AtFields
    <3> QED BY <2>1, <3>2 DEF Ready, LoginPCs, RevokePCs, UsePCs, Opened
  <2> QED BY <1>a, <1>c, <2>1, <2>2, <2>3, <2>4, <2>5, StepKeeps DEF TypeOK
<1>4. CASE UndoKey(r)
  <2>1. /\ req[r].pc \in {"undoKey", "undoBoth"} /\ req[r].kind = "login"
        /\ req[r].sid \in Ids \ given
        /\ UNCHANGED <<account, now, outcome>>
    BY <1>4, <1>a DEF UndoKey, Part, Routed, LoginPCs, Own, Opened
  <2> DEFINE l == IF req[r].pc = "undoBoth" THEN "undoIndex" ELSE "idle"
  <2>2. Become(r, At(r, l)) BY <1>4 DEF UndoKey, Command
  <2>3. /\ key' \in [Ids -> Key \cup {None}] /\ index' \in SUBSET Ids /\ indexEnds' \in Nat
        /\ \A j \in Ids : key[j] = None => key'[j] = None
    <3>1. CASE DelKeys({req[r].sid}) /\ UNCHANGED <<index, indexEnds>>
      BY <1>a, <3>1, DelFields DEF TypeOK
    <3>2. CASE UNCHANGED redis BY <1>a, <3>2 DEF TypeOK, redis
    <3> QED BY <1>4, <3>1, <3>2 DEF UndoKey, Command
  <2>4. l \in {"undoIndex", "idle"} /\ l \in PCs BY DEF PCs, LoginPCs, Opened
  <2> HIDE DEF l
  <2>5. /\ At(r, l) \in Request /\ At(r, l).pc = l /\ At(r, l).kind = "login"
        /\ At(r, l).sid = req[r].sid
    BY <1>a, <2>1, <2>4, AtFields
  <2>6. Ready(r, At(r, l)) BY <2>1, <2>4, <2>5 DEF Ready, LoginPCs, RevokePCs, UsePCs, Opened
  <2>7. given \subseteq Ids BY <1>a DEF TypeOK
  <2> QED BY <1>a, <1>c, <2>1, <2>2, <2>3, <2>5, <2>6, <2>7, StepKeeps DEF TypeOK, outcome
<1>5. CASE UndoIndex(r)
  <2>1. Become(r, Idle) /\ UNCHANGED <<account, now, outcome, key>>
    BY <1>5 DEF UndoIndex, Command, redis
  <2>2. index' \in SUBSET Ids /\ indexEnds' \in Nat
    <3>1. index \ {req[r].sid} \in SUBSET Ids BY <1>a DEF TypeOK
    <3> QED BY <1>5, <1>a, <3>1, IndexFields DEF UndoIndex, Command, redis, TypeOK
  <2> QED BY <1>a, <1>c, <1>d, <2>1, <2>2, StepKeeps DEF TypeOK, outcome
<1> QED BY <1>1, <1>2, <1>3, <1>4, <1>5

\* The last command of a login gives its session out.
LEMMA ExpireKeeps == ASSUME IInv, NEW r \in Reqs, Expire(r) PROVE IInv'
<1>a. TypeOK /\ Part(r) /\ Distinct /\ Gone BY DEF IInv
<1>b. \A i \in out : key[i] = None /\ i \in given BY DEF IInv, Gone, LoggedOutIsGone
<1>1. /\ req[r].pc = "expire" /\ req[r].kind = "login" /\ req[r].sid \in Ids \ given
      /\ UNCHANGED <<account, now, out, revoked, late>>
  BY <1>a DEF Expire, Part, Routed, LoginPCs, Own, Opened
<1>2. key' = key /\ index' = index /\ indexEnds' \in Nat
  <2>1. now + TTL \in Nat BY <1>a, TimeAssumption DEF TypeOK
  <2> QED BY <1>a, <2>1 DEF Expire, Command, redis, TypeOK
<1>3. Idle \in Request /\ Idle.pc = "idle" BY IdleFields
<1>4. "undoBoth" \in PCs BY DEF PCs, LoginPCs, Opened
<1>5. /\ At(r, "undoBoth") \in Request /\ At(r, "undoBoth").pc = "undoBoth"
      /\ At(r, "undoBoth").kind = "login" /\ At(r, "undoBoth").sid = req[r].sid
  BY <1>a, <1>1, <1>4, AtFields
<1>6. CASE Become(r, At(r, "undoBoth"))
  <2>1. req'[r].pc = "undoBoth" BY <1>a, <1>5, <1>6, Becomes
  <2>2. given' = given BY <2>1 DEF Expire
  <2>3. Ready(r, At(r, "undoBoth")) BY <1>1, <1>5 DEF Ready, LoginPCs, RevokePCs, UsePCs, Opened
  <2> QED BY <1>a, <1>b, <1>1, <1>2, <1>5, <1>6, <2>2, <2>3, StepKeeps DEF TypeOK
<1>7. CASE Become(r, Idle)
  <2>1. /\ req' \in [Reqs -> Request] /\ req'[r].pc = "idle"
        /\ \A p \in Reqs \ {r} : req'[p] = req[p]
    BY <1>a, <1>3, <1>7, Becomes
  <2>2. given' = given \cup {req[r].sid} BY <2>1 DEF Expire
  <2>3. TypeOK' BY <1>a, <1>1, <1>2, <2>1, <2>2 DEF TypeOK, account
  <2>4. ASSUME NEW p \in Reqs \ {r} PROVE Part(p)'
    <3>1. Part(p) /\ req'[p] = req[p] BY <2>1 DEF IInv
    <3>2. req[p].pc \in Opened => req[p].sid # req[r].sid BY <1>a, <1>1 DEF Distinct, Opened
    <3>3. Routed(p)' /\ Used(p)' BY <1>2, <2>2, <3>1 DEF Part, Routed, Used
    <3>4. Knows(p)' BY <1>1, <3>1 DEF Part, Knows, account
    <3>5. Own(p)' BY <2>2, <3>1, <3>2 DEF Part, Own
    <3> QED BY <3>3, <3>4, <3>5 DEF Part
  <2>5. Part(r)' BY <2>1 DEF Part, Routed, Used, Knows, Own, LoginPCs, RevokePCs, UsePCs, Opened
  <2>6. Distinct' BY <1>a, <2>1 DEF Distinct, Opened
  <2>7. Gone' BY <1>a, <1>1, <1>2, <2>2 DEF Gone, LoggedOutIsGone
  <2> QED BY <2>3, <2>4, <2>5, <2>6, <2>7 DEF IInv
<1> QED BY <1>6, <1>7 DEF Expire, Command

\* The commands of a revocation, but for the update itself.
LEMMA RevokeKeeps ==
  ASSUME IInv, NEW r \in Reqs, UpdateFails(r) \/ SMembers(r) \/ Del(r)
  PROVE  IInv'
<1>a. TypeOK /\ Part(r) BY DEF IInv
<1>b. req[r] \in Request BY <1>a DEF TypeOK
<1>c. \A i \in out : key[i] = None /\ i \in given BY DEF IInv, Gone, LoggedOutIsGone
<1>d. Idle \in Request /\ Ready(r, Idle)
  BY IdleFields DEF Ready, LoginPCs, RevokePCs, UsePCs, Opened
<1>e. req[r].kind = "revoke" BY <1>a DEF UpdateFails, SMembers, Del, Part, Routed, RevokePCs
<1>1. CASE UpdateFails(r)
  <2>1. "idle" \in PCs BY DEF PCs
  <2>2. At(r, "idle") \in Request /\ At(r, "idle").pc = "idle" BY <1>a, <2>1, AtFields
  <2>3. Ready(r, At(r, "idle")) BY <2>2 DEF Ready, LoginPCs, RevokePCs, UsePCs, Opened
  <2> QED BY <1>1, <1>a, <1>c, <2>2, <2>3, StepKeeps DEF UpdateFails, Goto, TypeOK, redis, outcome
<1>2. CASE SMembers(r)
  <2> DEFINE q == [At(r, "del") EXCEPT !.ids = index]
  <2>1. "del" \in PCs BY DEF PCs, RevokePCs
  <2>2. q \in Request /\ q.pc = "del" /\ q.kind = "revoke"
    BY <1>a, <1>e, <2>1, AtFields DEF Request, TypeOK
  <2>3. Ready(r, q) BY <2>2 DEF Ready, LoginPCs, RevokePCs, UsePCs, Opened
  <2>4. (Become(r, q) \/ Become(r, Idle)) /\ UNCHANGED <<account, redis, now, outcome>>
    BY <1>2 DEF SMembers, Command
  <2> HIDE DEF q
  <2> QED BY <1>a, <1>c, <1>d, <2>2, <2>3, <2>4, StepKeeps DEF TypeOK, redis, outcome
<1>3. CASE Del(r)
  <2>1. Become(r, At(r, "idle")) /\ UNCHANGED <<account, now, given, out, late>>
    BY <1>3 DEF Del, Goto
  <2>2. revoked' \in 0 .. MaxEpoch BY <1>3, <1>a, <1>b DEF Del, Revoked, TypeOK, Request
  <2>3. /\ key' \in [Ids -> Key \cup {None}] /\ index' \in SUBSET Ids /\ indexEnds' \in Nat
        /\ \A j \in Ids : key[j] = None => key'[j] = None
    <3>1. CASE DelKeys(req[r].ids) /\ SetIndex({}) BY <1>a, <3>1, DelFields, IndexFields
    <3>2. CASE UNCHANGED redis BY <1>a, <3>2 DEF TypeOK, redis
    <3> QED BY <1>3, <3>1, <3>2 DEF Del
  <2>4. given \subseteq Ids /\ late \subseteq Ids BY <1>a DEF TypeOK
  <2>5. "idle" \in PCs BY DEF PCs
  <2>6. At(r, "idle") \in Request /\ At(r, "idle").pc = "idle" BY <1>a, <2>5, AtFields
  <2>7. Ready(r, At(r, "idle")) BY <2>6 DEF Ready, LoginPCs, RevokePCs, UsePCs, Opened
  <2> QED BY <1>c, <2>1, <2>2, <2>3, <2>4, <2>6, <2>7, StepKeeps
<1> QED BY <1>1, <1>2, <1>3

\* The commands of the other requests.
LEMMA UseKeeps ==
  ASSUME IInv, NEW r \in Reqs,
         Get(r) \/ Principal(r) \/ Serve(r) \/ Reload(r) \/ DelKey(r) \/ SRem(r)
  PROVE  IInv'
<1>a. TypeOK /\ Part(r) /\ given \subseteq Ids BY DEF IInv, TypeOK
<1>b. req[r] \in Request BY <1>a DEF TypeOK
<1>c. \A i \in out : key[i] = None /\ i \in given BY DEF IInv, Gone, LoggedOutIsGone
<1>d. Idle \in Request /\ Ready(r, Idle)
  BY IdleFields DEF Ready, LoginPCs, RevokePCs, UsePCs, Opened
<1>e. /\ req[r].pc \in UsePCs /\ req[r].kind \in {"request", "logout", "reject"}
      /\ req[r].sid \in given /\ (status = "active" => req[r].was)
  BY <1>a DEF Get, Principal, Serve, Reload, DelKey, SRem, Part, Routed, Used, Knows, UsePCs
\* Going on at l, with the kind or the sessions looked up set anew.
<1>1. ASSUME NEW l \in {"idle", "principal", "serve", "reload", "delKey", "srem"},
             NEW q \in Request, q.pc = l, q.kind \in {"request", "logout", "reject"},
             q.sid = req[r].sid, q.was = req[r].was,
             l = "srem" => key'[req[r].sid] = None, l = "serve" => status = "active"
      PROVE  Ready(r, q)
  BY <1>1, <1>e DEF Ready, LoginPCs, RevokePCs, UsePCs, Opened
<1>2. ASSUME NEW l \in {"idle", "principal", "serve", "reload", "delKey", "srem"},
             l = "srem" => key'[req[r].sid] = None, l = "serve" => status = "active"
      PROVE  At(r, l) \in Request /\ Ready(r, At(r, l))
  <2>1. l \in PCs BY DEF PCs, UsePCs
  <2>2. /\ At(r, l) \in Request /\ At(r, l).pc = l /\ At(r, l).kind = req[r].kind
        /\ At(r, l).sid = req[r].sid /\ At(r, l).was = req[r].was
    BY <1>a, <2>1, AtFields
  <2> QED BY <1>1, <1>2, <1>e, <2>2
<1>3. ASSUME NEW q \in Request, Become(r, q), Ready(r, q), UNCHANGED <<account, redis, now, outcome>>
      PROVE  IInv'
  BY <1>3, <1>a, <1>c, StepKeeps DEF TypeOK, redis, outcome
<1>4. CASE Get(r)
  <2>1. \E l \in {"idle", "principal"} : Become(r, At(r, l)) \/ Become(r, Idle)
    BY <1>4 DEF Get, Command
  <2> QED BY <1>2, <1>3, <1>4, <1>d, <2>1 DEF Get
<1>5. CASE Principal(r)
  <2>1. CASE status = "active" /\ Goto(r, IF req[r].kind = "logout" THEN "reload" ELSE "serve")
    BY <1>2, <1>3, <1>5, <2>1 DEF Principal, Goto
  <2>2. CASE Become(r, [At(r, "reload") EXCEPT !.kind = "reject"])
    <3> DEFINE q == [At(r, "reload") EXCEPT !.kind = "reject"]
    <3>1. "reload" \in PCs BY DEF PCs, UsePCs
    <3>2. /\ q \in Request /\ q.pc = "reload" /\ q.kind = "reject"
          /\ q.sid = req[r].sid /\ q.was = req[r].was
      BY <1>a, <3>1, AtFields DEF Request, Kinds
    <3>3. Become(r, q) BY <2>2
    <3> HIDE DEF q
    <3>4. Ready(r, q) BY <1>1, <3>2
    <3> QED BY <1>3, <1>5, <3>2, <3>3, <3>4 DEF Principal
  <2> QED BY <1>5, <2>1, <2>2 DEF Principal
<1>6. CASE Serve(r) BY <1>2, <1>3, <1>6 DEF Serve, Goto
<1>7. CASE Reload(r)
  <2> DEFINE ids == IF key[req[r].sid] = None THEN {} ELSE {req[r].sid}
             q == [At(r, "delKey") EXCEPT !.ids = ids]
  <2>1. "delKey" \in PCs /\ ids \in SUBSET Ids BY <1>a, <1>e DEF PCs, UsePCs
  <2>2. Become(r, q) \/ Become(r, Idle) BY <1>7 DEF Reload, Command
  <2> HIDE DEF ids
  <2>3. /\ q \in Request /\ q.pc = "delKey" /\ q.kind \in {"request", "logout", "reject"}
        /\ q.sid = req[r].sid /\ q.was = req[r].was
    BY <1>a, <1>e, <2>1, AtFields DEF Request
  <2> HIDE DEF q
  <2>4. Ready(r, q) BY <1>1, <2>3
  <2> QED BY <1>3, <1>7, <1>d, <2>2, <2>3, <2>4 DEF Reload
<1>8. CASE DelKey(r)
  <2>1. UNCHANGED <<account, now, given, revoked, late>> BY <1>8 DEF DelKey
  <2>2. /\ key' \in [Ids -> Key \cup {None}] /\ index' \in SUBSET Ids /\ indexEnds' \in Nat
        /\ \A j \in Ids : key[j] = None => key'[j] = None
    <3>1. CASE DelKeys({req[r].sid}) /\ UNCHANGED <<index, indexEnds>>
      BY <1>a, <3>1, DelFields DEF TypeOK
    <3>2. CASE UNCHANGED redis BY <1>a, <3>2 DEF TypeOK, redis
    <3> QED BY <1>8, <3>1, <3>2 DEF DelKey
  <2>3. CASE /\ DelKeys({req[r].sid})
             /\ Goto(r, IF req[r].ids = {} THEN "idle" ELSE "srem")
             /\ LogoutDone(r, req[r].ids = {})
    <3>1. key'[req[r].sid] = None BY <1>a, <1>e, <2>3, DelFields
    <3>2. \A i \in out' : i \in out \/ i = req[r].sid BY <2>3 DEF LogoutDone
    <3>3. PICK l \in {"idle", "srem"} : Become(r, At(r, l)) BY <2>3 DEF Goto
    <3>4. At(r, l) \in Request /\ Ready(r, At(r, l)) BY <1>2, <3>1
    <3>5. \A i \in out' : i \in out \/ (i \in given /\ key'[i] = None) BY <1>e, <3>1, <3>2
    <3> QED BY <1>a, <2>1, <2>2, <3>3, <3>4, <3>5, StepKeeps DEF TypeOK
  <2>4. CASE Goto(r, "idle") /\ UNCHANGED out
    BY <1>2, <1>a, <1>c, <2>1, <2>2, <2>4, StepKeeps DEF TypeOK, Goto
  <2> QED BY <1>8, <2>3, <2>4 DEF DelKey
<1>9. CASE SRem(r)
  <2>1. UNCHANGED <<account, now, given, revoked, late, key>> /\ Become(r, At(r, "idle"))
    BY <1>9 DEF SRem, Goto, redis
  <2>2. index' \in SUBSET Ids /\ indexEnds' \in Nat
    <3>1. index \ {req[r].sid} \in SUBSET Ids BY <1>a DEF TypeOK
    <3> QED BY <1>9, <1>a, <3>1, IndexFields DEF SRem, redis, TypeOK
  <2>3. key'[req[r].sid] = None BY <1>9, <1>a, <2>1 DEF SRem, Part, Used
  <2>4. \A i \in out' : i \in out \/ i = req[r].sid BY <1>9 DEF SRem, LogoutDone
  <2>5. At(r, "idle") \in Request /\ Ready(r, At(r, "idle")) BY <1>2
  <2>6. \A i \in out' : i \in out \/ (i \in given /\ key'[i] = None) BY <1>e, <2>3, <2>4
  <2> QED BY <1>a, <2>1, <2>2, <2>5, <2>6, StepKeeps DEF TypeOK
<1> QED BY <1>4, <1>5, <1>6, <1>7, <1>8, <1>9

\* A committed update: the requests under way see an account that became active.
LEMMA UpdateKeeps ==
  ASSUME IInv, NEW r \in Reqs, NEW s \in {"active", "disabled", "deleted"}, NEW p \in BOOLEAN,
         Update(r, s, p)
  PROVE  IInv'
<1>a. TypeOK /\ Distinct /\ Gone /\ \A q \in Reqs : Part(q) BY DEF IInv
<1>b. \A q \in Reqs : req[q] \in Request BY <1>a DEF TypeOK
<1> DEFINE revokes == s \in {"disabled", "deleted"} \/ p
           me == IF revokes THEN [At(r, "smembers") EXCEPT !.seen = epoch + 1] ELSE Idle
<1>1. /\ req[r].pc = "update" /\ req[r].kind = "revoke"
      /\ status' = s /\ UNCHANGED <<redis, now, outcome>>
      /\ epoch' = IF revokes THEN epoch + 1 ELSE epoch
      /\ revokes => epoch < MaxEpoch
      /\ req' = [q \in Reqs |-> IF q = r THEN me
                       ELSE [req[q] EXCEPT !.was = @ \/ (s = "active" /\ req[q].pc # "idle")]]
  BY <1>a DEF Update, Part, Routed, RevokePCs
<1>2. epoch \in Nat /\ MaxEpoch \in Nat /\ epoch <= MaxEpoch BY <1>a, TimeAssumption DEF TypeOK
<1>3. epoch' \in 0 .. MaxEpoch /\ (revokes => epoch + 1 \in 0 .. MaxEpoch) BY <1>1, <1>2
<1>4. me \in Request /\ me.pc \in {"idle", "smembers"} /\ (me.pc = "smembers" => me.kind = "revoke")
  <2>1. "smembers" \in PCs BY DEF PCs, RevokePCs
  <2> QED BY <1>a, <1>1, <1>3, <2>1, AtFields, IdleFields DEF Request
<1> HIDE DEF revokes, me
<1>5. req'[r] = me BY <1>1
<1>6. ASSUME NEW q \in Reqs \ {r}
      PROVE  /\ req'[q] \in Request /\ req'[q].pc = req[q].pc /\ req'[q].kind = req[q].kind
             /\ req'[q].sid = req[q].sid
             /\ req'[q].was = (req[q].was \/ (s = "active" /\ req[q].pc # "idle"))
  <2>1. req'[q] = [req[q] EXCEPT !.was = @ \/ (s = "active" /\ req[q].pc # "idle")] BY <1>1
  <2> QED BY <1>b, <2>1 DEF Request
<1>7. req' \in [Reqs -> Request] BY <1>1, <1>4, <1>5, <1>6
<1>8. TypeOK' BY <1>a, <1>1, <1>3, <1>7 DEF TypeOK, redis, outcome
<1>9. ASSUME NEW q \in Reqs \ {r} PROVE Part(q)'
  <2>1. Part(q) BY <1>a
  <2>2. Routed(q)' BY <1>6, <2>1 DEF Part, Routed
  <2>0. key' = key /\ given' = given BY <1>1 DEF redis, outcome
  <2>3. Used(q)' /\ Own(q)' BY <1>6, <2>0, <2>1 DEF Part, Used, Own
  <2>4. req[q].pc = "serve" => req'[q].was BY <1>6, <2>1 DEF Part, Knows
  <2>5. req[q].pc \in UsePCs /\ s = "active" => req'[q].was BY <1>6 DEF UsePCs
  <2>6. Knows(q)' BY <1>1, <1>6, <2>4, <2>5 DEF Knows
  <2> QED BY <2>2, <2>3, <2>6 DEF Part
<1>10. Part(r)'
  BY <1>4, <1>5 DEF Part, Routed, Used, Knows, Own, LoginPCs, RevokePCs, UsePCs, Opened
<1>11. Distinct' BY <1>a, <1>4, <1>5, <1>6 DEF Distinct, Opened
<1>12. Gone' BY <1>a, <1>1 DEF Gone, LoggedOutIsGone, redis, outcome
<1> QED BY <1>8, <1>9, <1>10, <1>11, <1>12 DEF IInv

LEMMA NextInv == IInv /\ [Next]_vars => IInv'
<1> SUFFICES ASSUME IInv, [Next]_vars PROVE IInv' OBVIOUS
<1>a. TypeOK BY DEF IInv
<1>c. \A i \in out : key[i] = None /\ i \in given BY DEF IInv, Gone, LoggedOutIsGone
<1>1. CASE Tick
  <2>1. /\ now' \in 0 .. MaxTime /\ UNCHANGED <<account, req, given, out, revoked>>
        /\ DelKeys({i \in Ids : key[i] # None /\ key[i].ends <= now'})
    BY <1>1, <1>a, TimeAssumption DEF Tick, TypeOK
  <2>2. index' \in SUBSET Ids /\ indexEnds' \in Nat
    <3>1. {} \in SUBSET Ids /\ index \in SUBSET Ids BY <1>a DEF TypeOK
    <3> QED BY <1>1, <1>a, <3>1, IndexFields DEF Tick
  <2>3. /\ key' \in [Ids -> Key \cup {None}]
        /\ \A i \in Ids : key[i] = None => key'[i] = None
    BY <1>a, <2>1, DelFields
  <2>8. late' \in SUBSET Ids BY <1>1, <1>a DEF Tick, Indexing, TypeOK
  <2>4. TypeOK' BY <1>a, <2>1, <2>2, <2>3, <2>8 DEF TypeOK, account
  <2>5. ASSUME NEW r \in Reqs PROVE Part(r)'
    <3>1. Part(r) /\ given \subseteq Ids BY <1>a DEF IInv, TypeOK
    <3> QED BY <2>1, <2>3, <3>1 DEF Part, Routed, Used, Knows, Own, account, UsePCs
  <2>6. Distinct' BY <2>1 DEF IInv, Distinct
  <2>7. Gone' BY <1>a, <2>1, <2>3 DEF IInv, Gone, LoggedOutIsGone, TypeOK
  <2> QED BY <2>4, <2>5, <2>6, <2>7 DEF IInv
<1>2. ASSUME NEW r \in Reqs, NEW k \in {"login", "revoke", "request", "logout"}, NEW i \in given \cup {None},
             Begin(r, k, i), k \in {"request", "logout"} => i \in given
      PROVE  IInv'
  <2> DEFINE q == [Idle EXCEPT !.pc = First(k), !.kind = k, !.sid = i, !.was = status = "active"]
  <2>1. /\ q \in Request /\ q.pc = First(k) /\ q.kind = k /\ q.sid = i /\ q.was = (status = "active")
    <3>1. First(k) \in {"authenticate", "update", "get"} BY DEF First
    <3> QED BY <1>a, <3>1, IdleFields DEF Request, Kinds, Idle, TypeOK
  <2>2. Become(r, q) /\ UNCHANGED <<account, redis, now, outcome>> BY <1>2 DEF Begin
  <2> HIDE DEF q
  <2>3. Ready(r, q) BY <1>2, <2>1 DEF Ready, First, LoginPCs, RevokePCs, UsePCs, Opened
  <2> QED BY <1>a, <1>c, <2>1, <2>2, <2>3, StepKeeps DEF TypeOK, redis, outcome
<1>3. ASSUME NEW r \in Reqs, Step(r) PROVE IInv'
  BY <1>3, LoginKeeps, ExpireKeeps, RevokeKeeps, UseKeeps, UpdateKeeps DEF Step
<1>4. ASSUME NEW r \in Reqs, Crash(r) PROVE IInv'
  <2>1. "idle" \in PCs BY DEF PCs
  <2>2. At(r, "idle") \in Request /\ At(r, "idle").pc = "idle" BY <1>a, <2>1, AtFields
  <2>3. Ready(r, At(r, "idle")) BY <2>2 DEF Ready, LoginPCs, RevokePCs, UsePCs, Opened
  <2> QED BY <1>4, <1>a, <1>c, <2>2, <2>3, StepKeeps DEF Crash, Goto, TypeOK, redis, outcome
<1>5. CASE UNCHANGED vars
  BY <1>5 DEF vars, account, redis, outcome, IInv, TypeOK, Part, Routed, Used, Knows, Own, Distinct,
     Gone, LoggedOutIsGone
<1> QED BY <1>1, <1>2, <1>3, <1>4, <1>5 DEF Next

LEMMA Invariant == Spec => []IInv
  BY InitInv, NextInv, PTL DEF Spec

\* Type correctness: whatever commands fail and requests overlap, the sessions, the
\* index and the requests stay in their types, and the epochs within their bound.
THEOREM TypeCorrect == Spec => []TypeOK
<1>1. IInv => TypeOK BY DEF IInv
<1> QED BY <1>1, Invariant, PTL

\* A session whose logout was answered with success never comes back, whatever
\* logins, revocations and other logouts do at the same time: its token has been
\* given out, and no login writes such a key again.
THEOREM LogoutIsFinal == Spec => []LoggedOutIsGone
<1>1. IInv => LoggedOutIsGone BY DEF IInv, Gone
<1> QED BY <1>1, Invariant, PTL

\* Every request that is served found the account active at some moment since it
\* began, also when its session outlived the account.
THEOREM OnlyActiveServed == Spec => []ServedWhileActive
<1>1. IInv => ServedWhileActive BY DEF IInv, Part, Knows, ServedWhileActive
<1> QED BY <1>1, Invariant, PTL

-----------------------------------------------------------------------------
(* Revocation.                                                             *)

\* A key that appears is that of a session nobody holds, and young enough.
Fresh(i) ==
  key'[i].ends <= now + TTL /\ i \notin given /\ \A p \in Reqs : req[p].sid # i

\* What a request must have established for the revocations when it goes on as q.
Safe(r, q) ==
  /\ q.pc = "sadd" /\ key'[q.sid] # None => key'[q.sid].epoch = q.seen
  /\ q.pc = "expire" /\ q.sid \notin late'
       => /\ key'[q.sid] # None => q.sid \in index' /\ key'[q.sid].epoch >= revoked
          /\ \A p \in Reqs \ {r} : req[p].pc # "del"
  /\ q.pc = "del" => \A i \in Counted : key'[i] # None => i \in q.ids

\* A step of one request that drops from the index only what nobody needs there.
LEMMA StepReaches ==
  ASSUME IInv, RInv, NEW r \in Reqs, NEW q \in Request, Become(r, q),
         now' = now, given' = given, revoked' = revoked, late \subseteq late',
         \A i \in Ids : key'[i] \in {key[i], None} \/ Fresh(i),
         \A i \in index : \/ i \in index' \/ key'[i] = None
                          \/ i \notin given /\ \A p \in Reqs \ {r} : req[p].pc = "expire" => req[p].sid # i,
         indexEnds' \in {0, indexEnds, now + TTL},
         Safe(r, q)
  PROVE  RInv'
<1>a. TypeOK /\ (\A p \in Reqs : Part(p)) /\ given \subseteq Ids BY DEF IInv, TypeOK
<1>b. Lives /\ Outlives /\ Listed /\ \A p \in Reqs : Marked(p) /\ Revoking(p) BY DEF RInv
<1>1. /\ \A p \in Reqs \ {r} : req'[p] = req[p]
      /\ req'[r].pc = q.pc
      /\ q.pc # "idle" => req'[r] = q
  BY <1>a, Becomes
<1>2. Lives' BY <1>b DEF Lives, Fresh
<1>3. ASSUME NEW i \in Ids, key'[i] # None, i \in given \/ \E p \in Reqs : req[p].sid = i
      PROVE  key'[i] = key[i]
  BY <1>3 DEF Fresh
<1>4. Outlives'
  <2> SUFFICES ASSUME NEW i \in given \ late, key'[i] # None
               PROVE  indexEnds' = 0 \/ key'[i].ends <= indexEnds'
    BY DEF Outlives
  <2>1. key'[i] = key[i] BY <1>a, <1>3
  <2>2. key[i].ends <= now + TTL BY <1>a, <1>b, <2>1 DEF Lives
  <2>3. indexEnds = 0 \/ key[i].ends <= indexEnds BY <1>b, <2>1 DEF Outlives
  <2> QED BY <2>1, <2>2, <2>3
\* What counts after the step counted before, or is what the request has just indexed.
<1>5. ASSUME NEW i \in Counted'
      PROVE  \/ /\ i \in Counted /\ i \in Ids
                /\ i \in given \/ \E p \in Reqs \ {r} : req[p].pc = "expire" /\ req[p].sid = i
             \/ q.pc = "expire" /\ i = q.sid /\ i \notin late'
  <2>1. i \notin late' /\ i \notin late BY DEF Counted
  <2>2. CASE i \in given BY <1>a, <2>1, <2>2 DEF Counted
  <2>3. CASE i \in Indexing'
    <3>1. PICK p \in Reqs : req'[p].pc = "expire" /\ req'[p].sid = i BY <2>3 DEF Indexing
    <3>2. CASE p = r BY <1>1, <2>1, <3>1, <3>2
    <3>3. CASE p # r
      <4>1. req[p].pc = "expire" /\ req[p].sid = i BY <1>1, <3>1, <3>3
      <4>2. i \in Ids BY <1>a, <4>1 DEF Part, Own, Opened
      <4>3. i \in Indexing BY <4>1, <4>2 DEF Indexing
      <4> QED BY <2>1, <3>3, <4>1, <4>2, <4>3 DEF Counted
    <3> QED BY <3>2, <3>3
  <2> QED BY <2>2, <2>3 DEF Counted
<1>6. Listed'
  <2> SUFFICES ASSUME NEW i \in Counted', key'[i] # None
               PROVE  i \in index' /\ key'[i].epoch >= revoked
    BY DEF Listed
  <2>1. CASE q.pc = "expire" /\ i = q.sid /\ i \notin late' BY <2>1 DEF Safe
  <2>2. CASE /\ i \in Counted /\ i \in Ids
             /\ i \in given \/ \E p \in Reqs \ {r} : req[p].pc = "expire" /\ req[p].sid = i
    <3>1. key'[i] = key[i] BY <1>3, <2>2
    <3>2. i \in index /\ key[i].epoch >= revoked BY <1>b, <2>2, <3>1 DEF Listed
    <3> QED BY <2>2, <3>1, <3>2
  <2> QED BY <1>5, <2>1, <2>2
<1>7. ASSUME NEW p \in Reqs \ {r} PROVE Marked(p)' /\ Revoking(p)'
  <2>1. req'[p] = req[p] /\ Marked(p) /\ Revoking(p) /\ Own(p) BY <1>1, <1>a, <1>b DEF Part
  <2>2. Marked(p)'
    <3> SUFFICES ASSUME req[p].pc = "sadd", key'[req[p].sid] # None
                 PROVE  key'[req[p].sid].epoch = req[p].seen
      BY <2>1 DEF Marked
    <3>1. req[p].sid \in Ids BY <2>1 DEF Own, Opened
    <3>2. key'[req[p].sid] = key[req[p].sid] BY <1>3, <3>1
    <3> QED BY <2>1, <3>2 DEF Marked
  <2>3. Revoking(p)'
    <3> SUFFICES ASSUME req[p].pc = "del", NEW i \in Counted', key'[i] # None
                 PROVE  i \in req[p].ids
      BY <2>1 DEF Revoking
    <3>1. CASE q.pc = "expire" /\ i = q.sid /\ i \notin late' BY <3>1 DEF Safe
    <3>2. CASE /\ i \in Counted /\ i \in Ids
               /\ i \in given \/ \E t \in Reqs \ {r} : req[t].pc = "expire" /\ req[t].sid = i
      <4>1. key'[i] = key[i] BY <1>3, <3>2
      <4> QED BY <2>1, <3>2, <4>1 DEF Revoking
    <3> QED BY <1>5, <3>1, <3>2
  <2> QED BY <2>2, <2>3
<1>8. Marked(r)' /\ Revoking(r)'
  <2>1. CASE q.pc = "idle" BY <1>1, <2>1 DEF Marked, Revoking
  <2>2. CASE q.pc # "idle"
    <3>1. req'[r] = q BY <1>1, <2>2
    <3>2. Marked(r)' BY <3>1 DEF Safe, Marked
    <3>3. Revoking(r)' BY <1>5, <3>1 DEF Safe, Revoking
    <3> QED BY <3>2, <3>3
  <2> QED BY <2>1, <2>2
<1> QED BY <1>2, <1>4, <1>6, <1>7, <1>8 DEF RInv

LEMMA InitReaches == Init => RInv
<1> SUFFICES ASSUME Init PROVE RInv OBVIOUS
<1>1. \A r \in Reqs : req[r].pc = "idle" BY IdleFields DEF Init
<1>2. \A r \in Reqs : Marked(r) /\ Revoking(r) BY <1>1 DEF Marked, Revoking
<1>3. Lives /\ Outlives BY DEF Init, Lives, Outlives
<1>4. Counted = {} BY <1>1 DEF Init, Counted, Indexing
<1>5. Listed BY <1>4 DEF Listed
<1> QED BY <1>2, <1>3, <1>5 DEF RInv

\* The commands of a login up to the last.
LEMMA LoginReaches ==
  ASSUME IInv, RInv, NEW r \in Reqs,
         \/ Authenticate(r) \/ SAdd(r) \/ UndoIndex(r) \/ UndoKey(r)
         \/ \E i \in Ids : SetNX(r, i)
  PROVE  RInv'
<1>a. TypeOK /\ Part(r) /\ given \subseteq Ids /\ Distinct BY DEF IInv, TypeOK
<1>b. req[r] \in Request BY <1>a DEF TypeOK
<1>c. Marked(r) BY DEF RInv
<1>d. Idle \in Request /\ Safe(r, Idle) BY IdleFields DEF Safe
<1>1. CASE Authenticate(r)
  <2> DEFINE l == IF status = "active" THEN "setnx" ELSE "idle"
             q == [At(r, l) EXCEPT !.seen = epoch]
  <2>1. Become(r, q) /\ UNCHANGED <<account, redis, now, outcome>> BY <1>1 DEF Authenticate
  <2>2. l \in PCs /\ l \in {"setnx", "idle"} BY DEF PCs, LoginPCs
  <2> HIDE DEF l
  <2>3. q \in Request /\ q.pc = l BY <1>a, <2>2, AtFields DEF Request, TypeOK
  <2> HIDE DEF q
  <2>4. Safe(r, q) BY <2>2, <2>3 DEF Safe
  <2> QED BY <2>1, <2>3, <2>4, StepReaches DEF account, redis, outcome
<1>2. ASSUME NEW i \in Ids, SetNX(r, i) PROVE RInv'
  <2> DEFINE q == [At(r, "sadd") EXCEPT !.sid = i]
  <2>1. Unused(i) /\ UNCHANGED <<account, now, outcome>> /\ UNCHANGED <<index, indexEnds>>
    BY <1>2 DEF SetNX, Command, redis
  <2>2. "sadd" \in PCs BY DEF PCs, LoginPCs, Opened
  <2>3. q \in Request /\ q.pc = "sadd" /\ q.sid = i /\ q.seen = req[r].seen
    BY <1>a, <2>2, AtFields DEF Request
  <2>4. \/ /\ key' = [key EXCEPT ![i] = [epoch |-> req[r].seen, ends |-> now + TTL]]
           /\ Become(r, q) \/ Become(r, Idle)
        \/ key' = key /\ Become(r, Idle)
    BY <1>2 DEF SetNX, Command, redis
  <2> HIDE DEF q
  <2>5. /\ now' = now /\ given' = given /\ revoked' = revoked /\ late' = late
        /\ index' = index /\ indexEnds' = indexEnds
    BY <2>1 DEF outcome
  <2>6. CASE key' = key /\ Become(r, Idle)
    BY <1>d, <2>5, <2>6, StepReaches
  <2>7. CASE key' = [key EXCEPT ![i] = [epoch |-> req[r].seen, ends |-> now + TTL]]
    <3>1. /\ key'[i] = [epoch |-> req[r].seen, ends |-> now + TTL]
          /\ \A j \in Ids \ {i} : key'[j] = key[j]
      BY <1>a, <2>7 DEF TypeOK
    <3>2. key'[i].epoch = req[r].seen /\ key'[i].ends = now + TTL BY <3>1
    <3>3. Fresh(i)
      <4>1. now + TTL \in Nat BY <1>a, TimeAssumption DEF TypeOK
      <4> QED BY <2>1, <3>2, <4>1 DEF Fresh, Unused
    <3>4. \A j \in Ids : key'[j] \in {key[j], None} \/ Fresh(j) BY <3>1, <3>3
    <3>5. Safe(r, q) BY <2>3, <3>2 DEF Safe
    <3>6. Become(r, q) \/ Become(r, Idle) BY <2>4
    <3> QED BY <1>d, <2>3, <2>5, <3>4, <3>5, <3>6, StepReaches
  <2> QED BY <2>4, <2>6, <2>7
<1>3. CASE SAdd(r)
  <2>1. /\ req[r].pc = "sadd" /\ req[r].sid \in Ids \ given
        /\ UNCHANGED <<account, now, given, out, revoked>>
        /\ late' = IF TooLate(r) THEN late \cup {req[r].sid} ELSE late
    BY <1>3, <1>a DEF SAdd, Part, Own, Opened
  <2>2. /\ key' = key /\ index \subseteq index' /\ indexEnds' \in {0, indexEnds}
    BY <1>3 DEF SAdd, Command, SetIndex, redis
  <2>3. PICK l \in {"expire", "undoKey"} :
          Become(r, At(r, l)) /\ (l = "expire" => index' = index \cup {req[r].sid})
    BY <1>3 DEF SAdd, Command, SetIndex
  <2>4. /\ At(r, l) \in Request /\ At(r, l).pc = l /\ At(r, l).sid = req[r].sid
    <3>1. l \in PCs BY DEF PCs, LoginPCs, Opened
    <3> QED BY <1>a, <3>1, AtFields
  \* A session that is not late has seen the last revocation, and none has read the index.
  <2>5. ASSUME req[r].sid \notin late'
        PROVE  req[r].seen >= revoked /\ \A p \in Reqs : req[p].pc # "del"
    <3>1. ~TooLate(r) BY <2>1, <2>5
    <3>2. req[r].seen \in Nat /\ revoked \in Nat BY <1>a, <1>b DEF Request, TypeOK
    <3> QED BY <3>1, <3>2 DEF TooLate
  <2>6. key[req[r].sid] # None => key[req[r].sid].epoch = req[r].seen BY <1>c, <2>1 DEF Marked
  <2>7. Safe(r, At(r, l)) BY <2>2, <2>3, <2>4, <2>5, <2>6 DEF Safe
  <2>8. late \subseteq late' BY <2>1
  <2> QED BY <2>1, <2>2, <2>3, <2>4, <2>7, <2>8, StepReaches
<1>4. CASE UndoKey(r)
  <2> DEFINE l == IF req[r].pc = "undoBoth" THEN "undoIndex" ELSE "idle"
  <2>1. Become(r, At(r, l)) /\ UNCHANGED <<account, now, outcome>> /\ UNCHANGED <<index, indexEnds>>
    BY <1>4 DEF UndoKey, Command, redis
  <2>2. \A j \in Ids : key'[j] \in {key[j], None}
    BY <1>4, <1>a DEF UndoKey, Command, DelKeys, redis
  <2>3. l \in {"undoIndex", "idle"} /\ l \in PCs BY DEF PCs, LoginPCs, Opened
  <2> HIDE DEF l
  <2>4. At(r, l) \in Request /\ At(r, l).pc = l BY <1>a, <2>3, AtFields
  <2>5. Safe(r, At(r, l)) BY <2>3, <2>4 DEF Safe
  <2> QED BY <2>1, <2>2, <2>4, <2>5, StepReaches DEF account, outcome
<1>5. CASE UndoIndex(r)
  <2>1. /\ Become(r, Idle) /\ UNCHANGED <<account, now, outcome>> /\ key' = key
        /\ indexEnds' \in {0, indexEnds} /\ index \ {req[r].sid} \subseteq index'
    BY <1>5 DEF UndoIndex, Command, SetIndex, redis
  <2>2. req[r].pc \in Opened /\ req[r].sid \notin given BY <1>5, <1>a DEF UndoIndex, Part, Own, Opened
  <2>3. \A p \in Reqs \ {r} : req[p].pc = "expire" => req[p].sid # req[r].sid
    BY <1>a, <2>2 DEF Distinct, Opened
  <2> QED BY <1>d, <2>1, <2>2, <2>3, StepReaches DEF account, outcome
<1> QED BY <1>1, <1>2, <1>3, <1>4, <1>5

\* The last command of a login: the index now lives as long as any session there is.
LEMMA ExpireReaches == ASSUME IInv, RInv, NEW r \in Reqs, Expire(r) PROVE RInv'
<1>a. TypeOK /\ Part(r) /\ given \subseteq Ids BY DEF IInv, TypeOK
<1>b. Lives /\ Outlives /\ Listed /\ \A p \in Reqs : Marked(p) /\ Revoking(p) BY DEF RInv
<1>1. /\ req[r].pc = "expire" /\ req[r].sid \in Ids \ given
      /\ UNCHANGED <<account, now, out, revoked, late>>
  BY <1>a DEF Expire, Part, Own, Opened
<1>2. /\ key' = key /\ index' = index
      /\ indexEnds' \in {0, indexEnds, now + TTL}
  BY DEF Expire, Command, redis
<1>3. Idle \in Request /\ Idle.pc = "idle" BY IdleFields
<1>4. "undoBoth" \in PCs BY DEF PCs, LoginPCs, Opened
<1>5. At(r, "undoBoth") \in Request /\ At(r, "undoBoth").pc = "undoBoth" BY <1>a, <1>4, AtFields
<1>6. CASE Become(r, At(r, "undoBoth"))
  <2>1. req'[r].pc = "undoBoth" BY <1>a, <1>5, <1>6, Becomes
  <2>2. given' = given BY <2>1 DEF Expire
  <2>3. Safe(r, At(r, "undoBoth")) BY <1>5 DEF Safe
  <2> QED BY <1>1, <1>2, <1>5, <1>6, <2>2, <2>3, StepReaches
<1>7. CASE Become(r, Idle) /\ indexEnds' \in {0, now + TTL}
  <2>1. /\ req'[r].pc = "idle" /\ \A p \in Reqs \ {r} : req'[p] = req[p]
    BY <1>a, <1>3, <1>7, Becomes
  <2>2. given' = given \cup {req[r].sid} BY <2>1 DEF Expire
  <2>3. Counted' \subseteq Counted
    <3>1. req[r].sid \in Indexing BY <1>1 DEF Indexing
    <3>2. Indexing' \subseteq Indexing
      <4> SUFFICES ASSUME NEW i \in Indexing' PROVE i \in Indexing OBVIOUS
      <4>1. PICK p \in Reqs : req'[p].pc = "expire" /\ req'[p].sid = i /\ i \in Ids BY DEF Indexing
      <4>2. p # r BY <2>1, <4>1
      <4> QED BY <2>1, <4>1, <4>2 DEF Indexing
    <3> QED BY <1>1, <2>2, <3>1, <3>2 DEF Counted
  <2>4. Lives' BY <1>b, <1>1, <1>2 DEF Lives
  <2>5. Listed' BY <1>b, <1>1, <1>2, <2>3 DEF Listed
  <2>6. Outlives'
    <3> SUFFICES ASSUME NEW i \in given' \ late', key[i] # None
                 PROVE  indexEnds' = 0 \/ key[i].ends <= indexEnds'
      BY <1>2 DEF Outlives
    <3>1. i \in Ids BY <1>a, <1>1, <2>2
    <3>2. key[i].ends <= now + TTL BY <1>b, <3>1 DEF Lives
    <3> QED BY <1>7, <3>2
  <2>7. ASSUME NEW p \in Reqs PROVE Marked(p)' /\ Revoking(p)'
    <3>1. CASE p = r BY <2>1, <3>1 DEF Marked, Revoking
    <3>2. CASE p # r
      <4>1. req'[p] = req[p] BY <2>1, <3>2
      <4>2. Marked(p)' BY <1>b, <1>2, <4>1 DEF Marked
      <4>3. Revoking(p)' BY <1>b, <1>2, <2>3, <4>1 DEF Revoking
      <4> QED BY <4>2, <4>3
    <3> QED BY <3>1, <3>2
  <2> QED BY <2>4, <2>5, <2>6, <2>7 DEF RInv
<1> QED BY <1>6, <1>7 DEF Expire, Command

\* The commands of a revocation after its update: SMEMBERS reads all that counts, and
\* the DEL, if Redis carries it out, leaves none of it.
LEMMA RevokeReaches ==
  ASSUME IInv, RInv, NEW r \in Reqs, UpdateFails(r) \/ SMembers(r) \/ Del(r)
  PROVE  RInv'
<1>a. TypeOK /\ Part(r) /\ given \subseteq Ids BY DEF IInv, TypeOK
<1>b. Lives /\ Outlives /\ Listed /\ \A p \in Reqs : Marked(p) /\ Revoking(p) BY DEF RInv
<1>c. Idle \in Request /\ Safe(r, Idle) BY IdleFields DEF Safe
<1>d. At(r, "idle") \in Request /\ At(r, "idle").pc = "idle" /\ Safe(r, At(r, "idle"))
  <2>1. "idle" \in PCs BY DEF PCs
  <2>2. At(r, "idle") \in Request /\ At(r, "idle").pc = "idle" BY <1>a, <2>1, AtFields
  <2> QED BY <2>2 DEF Safe
<1>1. CASE UpdateFails(r)
  BY <1>1, <1>d, StepReaches DEF UpdateFails, Goto, account, redis, outcome
<1>2. CASE SMembers(r)
  <2> DEFINE q == [At(r, "del") EXCEPT !.ids = index]
  <2>1. /\ Become(r, q) \/ Become(r, Idle)
        /\ UNCHANGED <<account, redis, now, outcome>>
    BY <1>2 DEF SMembers, Command
  <2>2. "del" \in PCs BY DEF PCs, RevokePCs
  <2>3. q \in Request /\ q.pc = "del" /\ q.ids = index
    BY <1>a, <2>2, AtFields DEF Request, TypeOK
  <2> HIDE DEF q
  <2>4. \A i \in Counted : key'[i] # None => i \in index BY <1>b, <2>1 DEF Listed, redis
  <2>5. Safe(r, q) BY <2>3, <2>4 DEF Safe
  <2> QED BY <1>c, <2>1, <2>3, <2>5, StepReaches DEF account, redis, outcome
<1>3. CASE Del(r)
  <2>0. /\ req[r].pc = "del" /\ Become(r, At(r, "idle")) /\ UNCHANGED <<account, now, given, out, late>>
    BY <1>3 DEF Del, Goto
  <2>1. CASE UNCHANGED <<redis, revoked>>
    BY <1>d, <2>0, <2>1, StepReaches DEF redis
  <2>2. CASE DelKeys(req[r].ids) /\ SetIndex({}) /\ Revoked(r)
    <3>1. req'[r].pc = "idle" /\ \A p \in Reqs \ {r} : req'[p] = req[p]
      BY <1>a, <1>d, <2>0, Becomes
    <3>2. \A i \in Ids : key'[i] = IF i \in req[r].ids THEN None ELSE key[i]
      BY <1>a, <2>2, DelFields
    <3>3. Counted' \subseteq Counted /\ Counted \subseteq Ids
      <4>1. Indexing' \subseteq Indexing
        <5> SUFFICES ASSUME NEW i \in Indexing' PROVE i \in Indexing OBVIOUS
        <5>1. PICK p \in Reqs : req'[p].pc = "expire" /\ req'[p].sid = i /\ i \in Ids BY DEF Indexing
        <5>2. p # r BY <3>1, <5>1
        <5> QED BY <3>1, <5>1, <5>2 DEF Indexing
      <4>2. Indexing \subseteq Ids BY DEF Indexing
      <4> QED BY <1>a, <2>0, <4>1, <4>2 DEF Counted
    <3>4. \A i \in Counted : key'[i] = None BY <1>b, <2>0, <3>2, <3>3 DEF Revoking
    <3>5. Lives' BY <1>b, <2>0, <3>2 DEF Lives
    <3>6. Listed' BY <3>3, <3>4 DEF Listed
    <3>7. Outlives' BY <2>0, <3>4 DEF Outlives, Counted
    <3>8. ASSUME NEW p \in Reqs PROVE Marked(p)' /\ Revoking(p)'
      <4>1. CASE p = r BY <3>1, <4>1 DEF Marked, Revoking
      <4>2. CASE p # r
        <5>1. req'[p] = req[p] /\ Marked(p) /\ Own(p) BY <1>b, <3>1, <4>2 DEF IInv, Part
        <5>2. Marked(p)' BY <3>2, <5>1 DEF Marked, Own, Opened
        <5>3. Revoking(p)' BY <3>3, <3>4 DEF Revoking
        <5> QED BY <5>2, <5>3
      <4> QED BY <4>1, <4>2
    <3> QED BY <3>5, <3>6, <3>7, <3>8 DEF RInv
  <2> QED BY <1>3, <2>1, <2>2 DEF Del
<1> QED BY <1>1, <1>2, <1>3

\* The commands of the other requests take from the index only a session that is gone.
LEMMA UseReaches ==
  ASSUME IInv, RInv, NEW r \in Reqs,
         Get(r) \/ Principal(r) \/ Serve(r) \/ Reload(r) \/ DelKey(r) \/ SRem(r)
  PROVE  RInv'
<1>a. TypeOK /\ Part(r) /\ given \subseteq Ids BY DEF IInv, TypeOK
<1>b. req[r] \in Request /\ req[r].sid \in given
  BY <1>a DEF TypeOK, Part, Used, UsePCs, Get, Principal, Serve, Reload, DelKey, SRem
<1>1. ASSUME NEW q \in Request, q.pc \in {"idle"} \cup UsePCs PROVE Safe(r, q)
  BY <1>1 DEF Safe, UsePCs
<1>2. ASSUME NEW l \in {"idle"} \cup UsePCs
      PROVE  At(r, l) \in Request /\ At(r, l).pc = l /\ Safe(r, At(r, l))
  <2>1. l \in PCs BY DEF PCs
  <2>2. At(r, l) \in Request /\ At(r, l).pc = l BY <1>a, <2>1, AtFields
  <2> QED BY <1>1, <2>2
<1>3. Idle \in Request /\ Safe(r, Idle) BY <1>1, IdleFields
<1>4. PICK q \in Request : Become(r, q) /\ Safe(r, q)
  <2>1. CASE Get(r)
    <3>1. \E l \in {"idle", "principal"} : Become(r, At(r, l)) \/ Become(r, Idle) BY <2>1 DEF Get, Command
    <3> QED BY <1>2, <1>3, <3>1 DEF UsePCs
  <2>2. CASE Principal(r)
    <3>1. \/ \E l \in {"reload", "serve"} : Become(r, At(r, l))
          \/ Become(r, [At(r, "reload") EXCEPT !.kind = "reject"])
      BY <2>2 DEF Principal, Goto
    <3>2. [At(r, "reload") EXCEPT !.kind = "reject"] \in Request
          /\ [At(r, "reload") EXCEPT !.kind = "reject"].pc = "reload"
      BY <1>2 DEF Request, Kinds, UsePCs
    <3> QED BY <1>1, <1>2, <3>1, <3>2 DEF UsePCs
  <2>3. CASE Serve(r) BY <1>2, <2>3 DEF Serve, Goto, UsePCs
  <2>4. CASE Reload(r)
    <3> DEFINE ids == IF key[req[r].sid] = None THEN {} ELSE {req[r].sid}
               q == [At(r, "delKey") EXCEPT !.ids = ids]
    <3>1. ids \in SUBSET Ids BY <1>a, <1>b
    <3>2. Become(r, q) \/ Become(r, Idle) BY <2>4 DEF Reload, Command
    <3> HIDE DEF ids
    <3>3. q \in Request /\ q.pc = "delKey" BY <1>2, <3>1 DEF Request, UsePCs
    <3> HIDE DEF q
    <3> QED BY <1>1, <1>3, <3>2, <3>3 DEF UsePCs
  <2>5. CASE DelKey(r)
    <3>1. \E l \in {"idle", "srem"} : Become(r, At(r, l)) BY <2>5 DEF DelKey, Goto
    <3> QED BY <1>2, <3>1 DEF UsePCs
  <2>6. CASE SRem(r) BY <1>2, <2>6 DEF SRem, Goto, UsePCs
  <2> QED BY <2>1, <2>2, <2>3, <2>4, <2>5, <2>6
<1>5. now' = now /\ given' = given /\ revoked' = revoked /\ late' = late
  BY DEF Get, Principal, Serve, Reload, DelKey, SRem, account, outcome
<1>6. \A i \in Ids : key'[i] \in {key[i], None}
  BY DEF Get, Principal, Serve, Reload, DelKey, SRem, redis, DelKeys
<1>7. indexEnds' \in {0, indexEnds}
  BY DEF Get, Principal, Serve, Reload, DelKey, SRem, redis, SetIndex
<1>8. \A i \in index : i \in index' \/ key'[i] = None
  <2>1. CASE SRem(r)
    <3>1. key[req[r].sid] = None BY <1>a, <2>1 DEF SRem, Part, Used
    <3>2. key' = key /\ index \ {req[r].sid} \subseteq index' BY <2>1 DEF SRem, redis, SetIndex
    <3> QED BY <3>1, <3>2
  <2>2. CASE ~SRem(r)
    BY <2>2 DEF Get, Principal, Serve, Reload, DelKey, redis
  <2> QED BY <2>1, <2>2
<1> QED BY <1>4, <1>5, <1>6, <1>7, <1>8, StepReaches

\* A committed update touches no session.
LEMMA UpdateReaches ==
  ASSUME IInv, RInv, NEW r \in Reqs, NEW s \in {"active", "disabled", "deleted"}, NEW p \in BOOLEAN,
         Update(r, s, p)
  PROVE  RInv'
<1>a. TypeOK BY DEF IInv
<1>b. \A q \in Reqs : req[q] \in Request BY <1>a DEF TypeOK
<1>c. Lives /\ Outlives /\ Listed /\ \A q \in Reqs : Marked(q) /\ Revoking(q) BY DEF RInv
<1> DEFINE revokes == s \in {"disabled", "deleted"} \/ p
           me == IF revokes THEN [At(r, "smembers") EXCEPT !.seen = epoch + 1] ELSE Idle
<1>1. /\ req[r].pc = "update" /\ UNCHANGED <<redis, now, outcome>>
      /\ req' = [q \in Reqs |-> IF q = r THEN me
                       ELSE [req[q] EXCEPT !.was = @ \/ (s = "active" /\ req[q].pc # "idle")]]
  BY DEF Update
<1>2. me.pc \in {"idle", "smembers"}
  <2>1. "smembers" \in PCs BY DEF PCs, RevokePCs
  <2> QED BY <1>a, <2>1, AtFields, IdleFields DEF Request
<1> HIDE DEF me
<1>3. req'[r] = me BY <1>1
<1>4. ASSUME NEW q \in Reqs \ {r}
      PROVE  /\ req'[q].pc = req[q].pc /\ req'[q].sid = req[q].sid
             /\ req'[q].seen = req[q].seen /\ req'[q].ids = req[q].ids
  <2>1. req'[q] = [req[q] EXCEPT !.was = @ \/ (s = "active" /\ req[q].pc # "idle")] BY <1>1
  <2> QED BY <1>b, <2>1 DEF Request
<1>5. /\ key' = key /\ index' = index /\ indexEnds' = indexEnds /\ now' = now
      /\ given' = given /\ late' = late /\ revoked' = revoked
  BY <1>1 DEF redis, outcome
<1>6. Counted' \subseteq Counted
  <2>1. Indexing' \subseteq Indexing
    <3> SUFFICES ASSUME NEW i \in Indexing' PROVE i \in Indexing OBVIOUS
    <3>1. PICK q \in Reqs : req'[q].pc = "expire" /\ req'[q].sid = i /\ i \in Ids BY DEF Indexing
    <3>2. q # r BY <1>2, <1>3, <3>1
    <3> QED BY <1>4, <3>1, <3>2 DEF Indexing
  <2> QED BY <1>5, <2>1 DEF Counted
<1>7. Lives' /\ Outlives' BY <1>c, <1>5 DEF Lives, Outlives
<1>8. Listed' BY <1>c, <1>5, <1>6 DEF Listed
<1>9. ASSUME NEW q \in Reqs PROVE Marked(q)' /\ Revoking(q)'
  <2>1. CASE q = r BY <1>2, <1>3, <2>1 DEF Marked, Revoking
  <2>2. CASE q # r
    <3>1. Marked(q) /\ Revoking(q) BY <1>c
    <3>2. /\ req'[q].pc = req[q].pc /\ req'[q].sid = req[q].sid
          /\ req'[q].seen = req[q].seen /\ req'[q].ids = req[q].ids
      BY <1>4, <2>2
    <3>3. Marked(q)' BY <1>5, <3>1, <3>2 DEF Marked
    <3>4. Revoking(q)' BY <1>5, <1>6, <3>1, <3>2 DEF Revoking
    <3> QED BY <3>3, <3>4
  <2> QED BY <2>1, <2>2
<1> QED BY <1>7, <1>8, <1>9 DEF RInv

\* Time passes: an index that expires takes no session with it that is alive and counts.
LEMMA TickReaches == ASSUME IInv, RInv, Tick PROVE RInv'
<1>a. TypeOK /\ given \subseteq Ids BY DEF IInv, TypeOK
<1>b. Lives /\ Outlives /\ Listed /\ \A r \in Reqs : Marked(r) /\ Revoking(r) /\ Own(r)
  BY DEF RInv, IInv, Part
<1>1. /\ now' = now + 1 /\ UNCHANGED <<account, req, given, out, revoked>>
      /\ DelKeys({i \in Ids : key[i] # None /\ key[i].ends <= now'})
  BY DEF Tick
<1>2. \A i \in Ids : key'[i] = IF key[i] # None /\ key[i].ends <= now' THEN None ELSE key[i]
  BY <1>a, <1>1, DelFields
<1>3. now \in Nat /\ indexEnds \in Nat /\ \A i \in Ids : key[i] # None => key[i].ends \in Nat
  BY <1>a DEF TypeOK, Key
<1>4. Lives' BY <1>b, <1>1, <1>2, <1>3, TimeAssumption DEF Lives
<1>5. Indexing' = Indexing /\ Indexing \subseteq Ids BY <1>1 DEF Indexing
<1>6. late \subseteq late' BY DEF Tick
<1>7. Counted' \subseteq Counted /\ Counted \subseteq Ids BY <1>a, <1>1, <1>5, <1>6 DEF Counted
<1>8. ASSUME NEW i \in Ids, key'[i] # None PROVE key'[i] = key[i] /\ ~(key[i].ends <= now')
  BY <1>2, <1>8
<1>9. CASE indexEnds # 0 /\ indexEnds <= now'
  <2>1. late' = late \cup Indexing BY <1>9 DEF Tick
  <2>2. Counted' \subseteq given \ late BY <1>1, <1>5, <2>1 DEF Counted
  <2>3. ASSUME NEW i \in given \ late PROVE key'[i] = None
    <3> SUFFICES ASSUME key'[i] # None PROVE FALSE OBVIOUS
    <3>1. key'[i] = key[i] /\ ~(key[i].ends <= now') BY <1>a, <1>8
    <3>2. key[i].ends <= indexEnds BY <1>b, <1>9, <3>1 DEF Outlives
    <3> QED BY <1>a, <1>1, <1>3, <1>9, <3>1, <3>2
  <2>4. \A i \in Counted' : key'[i] = None BY <2>2, <2>3
  <2>5. Listed' BY <2>4 DEF Listed
  <2>6. Outlives' BY <1>1, <1>6, <2>3 DEF Outlives
  <2>7. ASSUME NEW r \in Reqs PROVE Marked(r)' /\ Revoking(r)'
    <3>1. Marked(r)' BY <1>b, <1>1, <1>2 DEF Marked, Own, Opened
    <3>2. Revoking(r)' BY <2>4 DEF Revoking
    <3> QED BY <3>1, <3>2
  <2> QED BY <1>4, <2>5, <2>6, <2>7 DEF RInv
<1>10. CASE ~(indexEnds # 0 /\ indexEnds <= now')
  <2>1. late' = late /\ index' = index /\ indexEnds' \in {0, indexEnds} BY <1>10 DEF Tick, SetIndex
  <2>2. Listed' BY <1>b, <1>1, <1>7, <1>8, <2>1 DEF Listed
  <2>3. Outlives'
    <3> SUFFICES ASSUME NEW i \in given \ late, key'[i] # None
                 PROVE  indexEnds' = 0 \/ key'[i].ends <= indexEnds'
      BY <1>1, <2>1 DEF Outlives
    <3>1. key'[i] = key[i] BY <1>a, <1>8
    <3>2. indexEnds = 0 \/ key[i].ends <= indexEnds BY <1>b, <3>1 DEF Outlives
    <3> QED BY <2>1, <3>1, <3>2
  <2>4. ASSUME NEW r \in Reqs PROVE Marked(r)' /\ Revoking(r)'
    <3>1. Marked(r)' BY <1>b, <1>1, <1>2 DEF Marked, Own, Opened
    <3>2. Revoking(r)'
      <4>1. req' = req BY <1>1
      <4>2. \A i \in Counted' : key'[i] # None => i \in Counted /\ key'[i] = key[i] BY <1>7, <1>8
      <4> QED BY <1>b, <4>1, <4>2 DEF Revoking
    <3> QED BY <3>1, <3>2
  <2> QED BY <1>4, <2>2, <2>3, <2>4 DEF RInv
<1> QED BY <1>9, <1>10

LEMMA NextReaches == ASSUME IInv, RInv, [Next]_vars PROVE RInv'
<1>a. TypeOK /\ given \subseteq Ids BY DEF IInv, TypeOK
<1>1. CASE Tick BY <1>1, TickReaches
<1>2. ASSUME NEW r \in Reqs, NEW k \in {"login", "revoke", "request", "logout"}, NEW i \in given \cup {None},
             Begin(r, k, i)
      PROVE  RInv'
  <2> DEFINE q == [Idle EXCEPT !.pc = First(k), !.kind = k, !.sid = i, !.was = status = "active"]
  <2>1. q \in Request /\ q.pc \in {"authenticate", "update", "get"}
    <3>1. First(k) \in {"authenticate", "update", "get"} BY DEF First
    <3> QED BY <1>a, <3>1, IdleFields DEF Request, Kinds, Idle, TypeOK
  <2>2. Become(r, q) /\ UNCHANGED <<account, redis, now, outcome>> BY <1>2 DEF Begin
  <2> HIDE DEF q
  <2>3. Safe(r, q) BY <2>1 DEF Safe
  <2> QED BY <2>1, <2>2, <2>3, StepReaches DEF account, redis, outcome
<1>3. ASSUME NEW r \in Reqs, Step(r) PROVE RInv'
  BY <1>3, LoginReaches, ExpireReaches, RevokeReaches, UseReaches, UpdateReaches DEF Step
<1>4. ASSUME NEW r \in Reqs, Crash(r) PROVE RInv'
  <2>1. "idle" \in PCs BY DEF PCs
  <2>2. At(r, "idle") \in Request /\ At(r, "idle").pc = "idle" BY <1>a, <2>1, AtFields
  <2>3. Safe(r, At(r, "idle")) BY <2>2 DEF Safe
  <2> QED BY <1>4, <2>2, <2>3, StepReaches DEF Crash, Goto, account, redis, outcome
<1>5. CASE UNCHANGED vars
  BY <1>5 DEF vars, account, redis, outcome, RInv, Lives, Outlives, Counted, Indexing, Listed, Marked,
     Revoking
<1> QED BY <1>1, <1>2, <1>3, <1>4, <1>5 DEF Next

\* Whatever logins, logouts, rejections and revocations overlap, however slow they are
\* and whatever commands fail: a session a client holds is on the index and was opened
\* with a password checked after the last update whose revocation Redis carried out,
\* unless it was put on the index between the SMEMBERS and the DEL of a revocation, or
\* after the revocation of an update made since its password was checked, or its index
\* expired between its SADD and its EXPIRE (sessions.go 55-120).
THEOREM RevocationReaches == Spec => []RevocationReachesListed
<1>1. Init => IInv /\ RInv BY InitInv, InitReaches
<1>2. IInv /\ RInv /\ [Next]_vars => (IInv /\ RInv)' BY NextInv, NextReaches
<1>3. IInv /\ RInv => RevocationReachesListed BY DEF RInv, Listed, Counted, RevocationReachesListed
<1> QED BY <1>1, <1>2, <1>3, PTL DEF Spec
=============================================================================
