--------------------------- MODULE LoginSessions ---------------------------
(***************************************************************************)
(* Login sessions: api/internal/identity/sessions.go, with the handlers    *)
(* and the middleware that call it (httpapi/auth_handlers.go and           *)
(* auth_middleware.go).  A session is a Redis key with a time to live; a   *)
(* set per user lists the user's sessions so that all can be revoked.      *)
(* Every Redis command and every PostgreSQL statement is a step of its     *)
(* own.  Sessions of different users share no key, so the model has one    *)
(* account.  A wrong password changes nothing and is left out, and so are  *)
(* the contents of a session and the CSRF token.  Any command may fail,    *)
(* any request may be cut off, and time may pass between any two commands. *)
(***************************************************************************)
EXTENDS Naturals

CONSTANTS
  Ids,        \* the tokens randomSessionToken may return
  Reqs,       \* the requests served at the same time
  TTL,        \* the life of a session key, in ticks
  MaxTime,    \* bound on the clock
  MaxEpoch,   \* bound on the updates that must revoke
  None        \* no key, no session

Kinds == {"login", "request", "logout", "reject", "revoke"}

ASSUME TimeAssumption == TTL \in Nat \ {0} /\ MaxTime \in Nat /\ MaxEpoch \in Nat

VARIABLES
  status,      \* the users row: "active", "disabled" or "deleted"
  epoch,       \* how often a committed update required the sessions to be revoked
  key,         \* ops:session:<id>, with the epoch its password was checked in
  index,       \* ops:user-sessions:<userID>
  indexEnds,   \* when the index expires; 0 when it has no expiry
  now,         \* the clock
  req,         \* the requests in progress
  given,       \* sessions whose cookie was sent to the client
  out,         \* sessions whose logout was answered with success
  revoked,     \* the last epoch whose revocation Redis has carried out
  late         \* sessions put on the index too late for a revocation, or taken off it
               \* by its expiry, while they were being opened

account == <<status, epoch>>
redis == <<key, index, indexEnds>>
outcome == <<given, out, revoked, late>>
vars == <<account, redis, now, req, outcome>>

Key == [epoch: 0 .. MaxEpoch, ends: Nat]

\* A request: its next command, the session it is about, the epoch it has read or
\* caused, the sessions it has looked up, and whether the account was active at
\* some moment since it began.
Request == [pc: {"idle", "authenticate", "setnx", "sadd", "expire", "undoKey", "undoBoth",
                 "undoIndex", "update", "smembers", "del", "get", "principal", "serve",
                 "reload", "delKey", "srem"},
            kind: Kinds, sid: Ids \cup {None}, seen: 0 .. MaxEpoch,
            ids: SUBSET Ids, was: BOOLEAN]

Idle == [pc |-> "idle", kind |-> "request", sid |-> None, seen |-> 0, ids |-> {}, was |-> FALSE]

TypeOK ==
  /\ status \in {"active", "disabled", "deleted"}
  /\ epoch \in 0 .. MaxEpoch
  /\ key \in [Ids -> Key \cup {None}]
  /\ index \in SUBSET Ids
  /\ indexEnds \in Nat
  /\ now \in 0 .. MaxTime
  /\ req \in [Reqs -> Request]
  /\ given \in SUBSET Ids
  /\ out \in SUBSET Ids
  /\ revoked \in 0 .. MaxEpoch
  /\ late \in SUBSET Ids

Init ==
  /\ status = "active"
  /\ epoch = 0
  /\ key = [i \in Ids |-> None]
  /\ index = {}
  /\ indexEnds = 0
  /\ now = 0
  /\ req = [r \in Reqs |-> Idle]
  /\ given = {}
  /\ out = {}
  /\ revoked = 0
  /\ late = {}

-----------------------------------------------------------------------------
(* Redis.                                                                  *)

\* A request goes on as q; nothing is kept of one that has ended.
Become(r, q) == req' = [req EXCEPT ![r] = IF q.pc = "idle" THEN Idle ELSE q]

At(r, l) == [req[r] EXCEPT !.pc = l]

Goto(r, l) == Become(r, At(r, l))

\* A command with the given effect.  When it fails, because Redis or the request's
\* context does, it may or may not have taken effect.
Command(r, effect, ok, failed) ==
  \/ effect /\ Become(r, ok)
  \/ (effect \/ UNCHANGED redis) /\ Become(r, failed)

\* A set with no members is no key, and has no expiry.
SetIndex(s) == index' = s /\ indexEnds' = IF s = {} THEN 0 ELSE indexEnds

DelKeys(s) == key' = [i \in Ids |-> IF i \in s THEN None ELSE key[i]]

\* The sessions on the index whose Create has not yet given it a longer life.
Indexing == {i \in Ids : \E r \in Reqs : req[r].pc = "expire" /\ req[r].sid = i}

\* The clock moves, and Redis drops what has expired.
Tick ==
  /\ now < MaxTime
  /\ now' = now + 1
  /\ DelKeys({i \in Ids : key[i] # None /\ key[i].ends <= now'})
  /\ IF indexEnds # 0 /\ indexEnds <= now'
       THEN SetIndex({}) /\ late' = late \cup Indexing
       ELSE SetIndex(index) /\ UNCHANGED late
  /\ UNCHANGED <<account, req, given, out, revoked>>

-----------------------------------------------------------------------------
(* A request begins.                                                       *)

First(k) == IF k = "login" THEN "authenticate" ELSE IF k = "revoke" THEN "update" ELSE "get"

Begin(r, k, i) ==
  /\ req[r].pc = "idle"
  /\ Become(r, [Idle EXCEPT !.pc = First(k), !.kind = k, !.sid = i,
                           !.was = status = "active"])
  /\ UNCHANGED <<account, redis, now, outcome>>

\* The server stops, or the client leaves, between two commands.
Crash(r) ==
  /\ req[r].pc # "idle"
  /\ Goto(r, "idle")
  /\ UNCHANGED <<account, redis, now, outcome>>

-----------------------------------------------------------------------------
(* POST /api/auth/login: Authenticate, then Sessions.Create.               *)

Authenticate(r) ==
  /\ req[r].pc = "authenticate"
  /\ Become(r, [At(r, IF status = "active" THEN "setnx" ELSE "idle") EXCEPT !.seen = epoch])
  /\ UNCHANGED <<account, redis, now, outcome>>

\* The token is random: no key and no other login has it.
Unused(i) == key[i] = None /\ i \notin given /\ \A r \in Reqs : req[r].sid # i

SetNX(r, i) ==
  /\ req[r].pc = "setnx"
  /\ Unused(i)
  /\ Command(r, /\ key' = [key EXCEPT ![i] = [epoch |-> req[r].seen, ends |-> now + TTL]]
                /\ UNCHANGED <<index, indexEnds>>,
             [At(r, "sadd") EXCEPT !.sid = i], Idle)
  /\ UNCHANGED <<account, now, outcome>>

\* A revocation has read the index and not yet deleted it, or the revocation of an
\* update made since the password was checked has been carried out.
TooLate(r) == req[r].seen < revoked \/ \E q \in Reqs : req[q].pc = "del"

SAdd(r) ==
  /\ req[r].pc = "sadd"
  /\ Command(r, SetIndex(index \cup {req[r].sid}) /\ UNCHANGED key, At(r, "expire"), At(r, "undoKey"))
  /\ late' = IF TooLate(r) THEN late \cup {req[r].sid} ELSE late
  /\ UNCHANGED <<account, now, given, out, revoked>>

\* EXPIRE of the index; when it succeeds, Create returns and the cookie is sent.
\* A missing key is not an error.
Expire(r) ==
  /\ req[r].pc = "expire"
  /\ Command(r, /\ indexEnds' = IF index = {} THEN 0 ELSE now + TTL
                /\ UNCHANGED <<key, index>>,
             Idle, At(r, "undoBoth"))
  /\ given' = IF req'[r].pc = "idle" THEN given \cup {req[r].sid} ELSE given
  /\ UNCHANGED <<account, now, out, revoked, late>>

\* The clean-up of a Create that failed: DEL of the session, and SREM when it had
\* been indexed.  Failures of the clean-up are ignored.
UndoKey(r) ==
  /\ req[r].pc \in {"undoKey", "undoBoth"}
  /\ LET then == At(r, IF req[r].pc = "undoBoth" THEN "undoIndex" ELSE "idle") IN
       Command(r, DelKeys({req[r].sid}) /\ UNCHANGED <<index, indexEnds>>, then, then)
  /\ UNCHANGED <<account, now, outcome>>

UndoIndex(r) ==
  /\ req[r].pc = "undoIndex"
  /\ Command(r, SetIndex(index \ {req[r].sid}) /\ UNCHANGED key, Idle, Idle)
  /\ UNCHANGED <<account, now, outcome>>

-----------------------------------------------------------------------------
(* PATCH and DELETE /api/users/{id}: the update, then Sessions.DeleteUser. *)

\* The committed update, to status s and perhaps with a new password.  A change of
\* name or role, and enabling the account again, revoke nothing.
Update(r, s, password) ==
  LET revokes == s \in {"disabled", "deleted"} \/ password
      me == IF revokes THEN [At(r, "smembers") EXCEPT !.seen = epoch + 1] ELSE Idle
  IN
  /\ req[r].pc = "update"
  /\ status # "deleted"
  /\ revokes => epoch < MaxEpoch
  /\ status' = s
  /\ epoch' = IF revokes THEN epoch + 1 ELSE epoch
  /\ req' = [q \in Reqs |-> IF q = r THEN me
                            ELSE [req[q] EXCEPT !.was = @ \/ (s = "active" /\ req[q].pc # "idle")]]
  /\ UNCHANGED <<redis, now, outcome>>

\* The update fails: nothing is revoked.
UpdateFails(r) ==
  /\ req[r].pc = "update"
  /\ Goto(r, "idle")
  /\ UNCHANGED <<account, redis, now, outcome>>

\* The handler ignores what DeleteUser returns and answers with success either way.
SMembers(r) ==
  /\ req[r].pc = "smembers"
  /\ Command(r, UNCHANGED redis, [At(r, "del") EXCEPT !.ids = index], Idle)
  /\ UNCHANGED <<account, redis, now, outcome>>

Revoked(r) == revoked' = IF req[r].seen > revoked THEN req[r].seen ELSE revoked

\* Mutant: only the index is deleted.
DelIndexOnly(r) ==
  /\ req[r].pc = "del"
  /\ \/ SetIndex({}) /\ UNCHANGED key /\ Revoked(r)
     \/ UNCHANGED <<redis, revoked>>
  /\ Goto(r, "idle")
  /\ UNCHANGED <<account, now, given, out, late>>

\* One DEL of the session keys and of the index.
Del(r) ==
  /\ req[r].pc = "del"
  /\ \/ DelKeys(req[r].ids) /\ SetIndex({}) /\ Revoked(r)
     \/ UNCHANGED <<redis, revoked>>
  /\ Goto(r, "idle")
  /\ UNCHANGED <<account, now, given, out, late>>

-----------------------------------------------------------------------------
(* Every other request: authMiddleware, then the handler.                  *)

Get(r) ==
  /\ req[r].pc = "get"
  /\ Command(r, UNCHANGED redis, At(r, IF key[req[r].sid] = None THEN "idle" ELSE "principal"), Idle)
  /\ UNCHANGED <<account, redis, now, outcome>>

\* Mutant: the middleware trusts the session and does not look the user up.
PrincipalTrusted(r) ==
  /\ req[r].pc = "principal"
  /\ Goto(r, IF req[r].kind = "logout" THEN "reload" ELSE "serve")
  /\ UNCHANGED <<account, redis, now, outcome>>

\* PrincipalForUser: a missing or disabled account, or an error, rejects the
\* request and deletes the session.
Principal(r) ==
  /\ req[r].pc = "principal"
  /\ \/ /\ status = "active"
        /\ Goto(r, IF req[r].kind = "logout" THEN "reload" ELSE "serve")
     \/ Become(r, [At(r, "reload") EXCEPT !.kind = "reject"])
  /\ UNCHANGED <<account, redis, now, outcome>>

\* The handler runs and answers.
Serve(r) ==
  /\ req[r].pc = "serve"
  /\ Goto(r, "idle")
  /\ UNCHANGED <<account, redis, now, outcome>>

(* Sessions.Delete, called by logout and by the rejection: GET, DEL, SREM. *)
Reload(r) ==
  /\ req[r].pc = "reload"
  /\ Command(r, UNCHANGED redis,
             [At(r, "delKey") EXCEPT !.ids = IF key[req[r].sid] = None THEN {} ELSE {req[r].sid}], Idle)
  /\ UNCHANGED <<account, redis, now, outcome>>

\* Logout is answered with success once nothing is left to do.
LogoutDone(r, answered) ==
  out' = IF req[r].kind = "logout" /\ answered THEN out \cup {req[r].sid} ELSE out

\* Mutant: an error of DEL is taken for success.
DelKeyUnchecked(r) ==
  /\ req[r].pc = "delKey"
  /\ \/ DelKeys({req[r].sid}) /\ UNCHANGED <<index, indexEnds>> /\ Goto(r, "srem") /\ UNCHANGED out
     \/ UNCHANGED redis /\ Goto(r, "idle") /\ LogoutDone(r, TRUE)
  /\ UNCHANGED <<account, now, given, revoked, late>>

DelKey(r) ==
  /\ req[r].pc = "delKey"
  /\ \/ /\ DelKeys({req[r].sid}) /\ UNCHANGED <<index, indexEnds>>
        /\ Goto(r, IF req[r].ids = {} THEN "idle" ELSE "srem")
        /\ LogoutDone(r, req[r].ids = {})
     \/ /\ \/ DelKeys({req[r].sid}) /\ UNCHANGED <<index, indexEnds>>
           \/ UNCHANGED redis
        /\ Goto(r, "idle")
        /\ UNCHANGED out
  /\ UNCHANGED <<account, now, given, revoked, late>>

SRem(r) ==
  /\ req[r].pc = "srem"
  /\ \/ SetIndex(index \ {req[r].sid}) /\ UNCHANGED key /\ LogoutDone(r, TRUE)
     \/ SetIndex(index \ {req[r].sid}) /\ UNCHANGED <<key, out>>
     \/ UNCHANGED <<redis, out>>
  /\ Goto(r, "idle")
  /\ UNCHANGED <<account, now, given, revoked, late>>

-----------------------------------------------------------------------------
Step(r) ==
  \/ Authenticate(r) \/ SAdd(r) \/ Expire(r) \/ UndoIndex(r) \/ UndoKey(r)
  \/ \E i \in Ids : SetNX(r, i)
  \/ \E s \in {"active", "disabled", "deleted"}, p \in BOOLEAN : Update(r, s, p)
  \/ UpdateFails(r) \/ SMembers(r) \/ Del(r)
  \/ Get(r) \/ Principal(r) \/ Serve(r) \/ Reload(r) \/ DelKey(r) \/ SRem(r)

Next ==
  \/ Tick
  \/ \E r \in Reqs :
       \/ \E k \in {"login", "revoke"} : Begin(r, k, None)
       \/ \E k \in {"request", "logout"}, i \in given : Begin(r, k, i)
       \/ Step(r) \/ Crash(r)

Spec == Init /\ [][Next]_vars

-----------------------------------------------------------------------------
(* Properties.                                                             *)

\* The revocations that Redis carried out leave no session that a client holds and
\* that was opened with a password checked before the update, and the index lists
\* every live one, so that the next revocation will find it.  So it is for every
\* session whose own login came in time, whatever other logins, logouts and
\* revocations do meanwhile and whatever commands fail.  Not so for a session that was
\* put on the index between the SMEMBERS and the DEL of a revocation, or after the
\* revocation of an update made since its password was checked, or whose index expired
\* between its SADD and its EXPIRE: those are late (sessions.go 55-120).
RevocationReachesListed ==
  \A i \in given \ late : key[i] # None => key[i].epoch >= revoked /\ i \in index

\* Changes of the password and of the disabled state revoke all sessions of the user:
\* none that a client holds was opened with a password checked before an update
\* whose revocation was carried out.  The code does not keep it (auth_handlers.go 52).
ChangeRevokesAll == \A i \in given : key[i] # None => key[i].epoch >= revoked

\* A session whose logout was answered with success is gone, also when other
\* requests of the same session, logouts or revocations run at the same time.
LoggedOutIsGone == \A i \in out : key[i] = None

\* A request is served only if the account was active at some moment since the
\* request began, although the session outlives a disabled account when the
\* revocation fails.
ServedWhileActive == \A r \in Reqs : req[r].pc = "serve" => req[r].was

=============================================================================
