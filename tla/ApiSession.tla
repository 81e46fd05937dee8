----------------------------- MODULE ApiSession -----------------------------
(***************************************************************************)
(* The anonymous session of the web client (web/src/api/client.ts).  Every *)
(* request waits for a session first; requests that need one at the same   *)
(* time share one creation, which tries up to three times; an answer       *)
(* "401 invalid_session" discards the session, and the request is repeated *)
(* once with a new one.                                                    *)
(*                                                                         *)
(* fetch() answers when the headers have come, and the body is read after  *)
(* that.  A step is what the browser runs without yielding: the promise    *)
(* callbacks that follow headers or a body belong to that step.            *)
(***************************************************************************)
EXTENDS Naturals, FiniteSets

CONSTANTS
  Requests,      \* calls of request() and of exportCSV()
  Exports,       \* the calls of exportCSV(), which are sent without a timeout
  MaxCreations,  \* promises createSession() may make
  MaxRestarts,   \* restarts of the server, which forget all sessions
  None

Attempts == 3    \* tries of one creation

ASSUME RequestAssumption == IsFiniteSet(Requests) /\ Exports \subseteq Requests
ASSUME BoundAssumption == /\ MaxCreations \in Nat
                          /\ MaxRestarts \in Nat
                          /\ 2 * Cardinality(Requests) <= MaxCreations
ASSUME NoneAssumption == None \notin Nat

Creations == 1..MaxCreations
Sids == 1..(Attempts * MaxCreations)

VARIABLES
  sessionId,     \* APIClient.sessionId: the number of a session, or None
  sessionReady,  \* APIClient.sessionReady: a creation, or None
  prom,          \* the creations: state, tries used, session the server made
  req,           \* the calls: where they are and whether they were repeated
  net,           \* what the network holds for each call
  valid,         \* the sessions the server knows
  last,          \* sessions the server has made
  executed,      \* how often the server has executed each call
  restarts

client == <<sessionId, sessionReady, prom, req>>
server == <<net, valid, last, executed, restarts>>
vars == <<client, server>>

Nothing == [msg |-> "none", sid |-> None]
CallWith(s) == [msg |-> "call", sid |-> s]
Answer(a) == [msg |-> a, sid |-> None]

Answers == {"ok", "error", "invalid"}
Pending == {"posting", "created", "reading", "backoff"}
Ended == {"done", "failed", "refused", "invalid"}

TypeOK ==
  /\ sessionId \in Sids \cup {None}
  /\ sessionReady \in Creations \cup {None}
  /\ prom \in [Creations -> [st : Pending \cup {"unused", "settled"},
                             tries : 0..Attempts, sid : Sids \cup {None}]]
  /\ req \in [Requests -> [pc : {"idle", "join", "sent", "reading"} \cup Ended,
                           on : Creations \cup {None}, retried : BOOLEAN]]
  /\ net \in [Requests -> [msg : {"none", "call"} \cup Answers, sid : Sids \cup {None}]]
  /\ valid \subseteq Sids
  /\ last \in 0..(Attempts * MaxCreations)
  /\ executed \in [Requests -> Nat]
  /\ restarts \in 0..MaxRestarts

Init ==
  /\ sessionId = None
  /\ sessionReady = None
  /\ prom = [p \in Creations |-> [st |-> "unused", tries |-> 0, sid |-> None]]
  /\ req = [r \in Requests |-> [pc |-> "idle", on |-> None, retried |-> FALSE]]
  /\ net = [r \in Requests |-> Nothing]
  /\ valid = {}
  /\ last = 0
  /\ executed = [r \in Requests |-> 0]
  /\ restarts = 0

-----------------------------------------------------------------------------
(* createSession and request.                                              *)

Unused == {p \in Creations : prom[p].st = "unused"}
NextCreation == CHOOSE p \in Unused : \A q \in Unused : p <= q

\* A creation for every caller that finds no session.
CreateSessionUnshared(r, ready, again) ==
  /\ Unused # {}
  /\ sessionReady' = NextCreation
  /\ prom' = [prom EXCEPT ![NextCreation].st = "posting"]
  /\ req' = [req EXCEPT ![r] = [pc |-> "join", on |-> NextCreation, retried |-> again]]

\* createSession() without a session: the creation under way is shared; without
\* one, a new one is made, and its first POST is sent at once.
CreateSession(r, ready, again) ==
  \/ /\ ready # None
     /\ sessionReady' = ready
     /\ req' = [req EXCEPT ![r] = [pc |-> "join", on |-> ready, retried |-> again]]
     /\ UNCHANGED prom
  \/ /\ ready = None
     /\ Unused # {}
     /\ sessionReady' = NextCreation
     /\ prom' = [prom EXCEPT ![NextCreation].st = "posting"]
     /\ req' = [req EXCEPT ![r] = [pc |-> "join", on |-> NextCreation, retried |-> again]]

\* request() and exportCSV(): wait for the session, and send.
Call(r) ==
  /\ req[r].pc = "idle"
  /\ \/ /\ sessionId # None
        /\ req' = [req EXCEPT ![r].pc = "sent"]
        /\ net' = [net EXCEPT ![r] = CallWith(sessionId)]
        /\ UNCHANGED <<sessionReady, prom>>
     \/ /\ sessionId = None
        /\ CreateSession(r, sessionReady, FALSE)
        /\ UNCHANGED net
  /\ UNCHANGED <<sessionId, valid, last, executed, restarts>>

\* A creation fails: sessionReady is cleared, whichever creation it holds by
\* now, and the callers that wait for this one fail.
SettleFailure(p) ==
  /\ sessionReady' = None
  /\ prom' = [prom EXCEPT ![p] = [@ EXCEPT !.st = "settled", !.sid = None]]
  /\ req' = [r \in Requests |-> IF req[r].pc = "join" /\ req[r].on = p
                                THEN [req[r] EXCEPT !.pc = "failed", !.on = None]
                                ELSE req[r]]
  /\ UNCHANGED <<sessionId, net>>

\* The headers of the answer to POST /api/sessions come, and the timer is cleared.
\* The answer has a session only when the server made one, and it may be an error
\* all the same.
SessionHeaders(p) ==
  /\ prom[p].st \in {"posting", "created"}
  /\ \E s \in {prom[p].sid, None} :
       prom' = [prom EXCEPT ![p].st = "reading", ![p].sid = s]
  /\ UNCHANGED <<sessionId, sessionReady, req, server>>

\* The body has come: the session is kept, sessionReady cleared, and the callers
\* that wait for this creation are sent with the session.
SessionCreated(p) ==
  /\ prom[p].st = "reading"
  /\ prom[p].sid # None
  /\ sessionId' = prom[p].sid
  /\ sessionReady' = None
  /\ prom' = [prom EXCEPT ![p].st = "settled", ![p].sid = None]
  /\ req' = [r \in Requests |-> IF req[r].pc = "join" /\ req[r].on = p
                                THEN [req[r] EXCEPT !.pc = "sent", !.on = None]
                                ELSE req[r]]
  /\ net' = [r \in Requests |-> IF req[r].pc = "join" /\ req[r].on = p
                                THEN CallWith(prom[p].sid) ELSE net[r]]
  /\ UNCHANGED <<valid, last, executed, restarts>>

\* An attempt failed: tried again after a pause, unless it was the third.
AttemptFails(p) ==
  /\ \/ /\ prom[p].tries + 1 < Attempts
        /\ prom' = [prom EXCEPT ![p] = [st |-> "backoff", tries |-> @.tries + 1, sid |-> None]]
        /\ UNCHANGED <<sessionId, sessionReady, req, net>>
     \/ /\ prom[p].tries + 1 = Attempts
        /\ SettleFailure(p)
  /\ UNCHANGED <<valid, last, executed, restarts>>

\* No headers within 15 s, or a network error, before or after the server made the
\* session.
SessionAttemptFails(p) == prom[p].st \in {"posting", "created"} /\ AttemptFails(p)

\* The body of the session breaks off or is none, or the answer is 408, 429 or 5xx.
SessionAnswerFails(p) == prom[p].st = "reading" /\ AttemptFails(p)

\* Any other error is not tried again; its body is read first, whole or not.
SessionRefused(p) ==
  /\ prom[p].st = "reading"
  /\ prom[p].sid = None
  /\ SettleFailure(p)
  /\ UNCHANGED <<valid, last, executed, restarts>>

\* The second pause never ends.
SessionRetryOnce(p) ==
  /\ prom[p].st = "backoff"
  /\ prom[p].tries < 2
  /\ prom' = [prom EXCEPT ![p].st = "posting"]
  /\ UNCHANGED <<sessionId, sessionReady, req, server>>

\* The pause is over: the next attempt.
SessionRetry(p) ==
  /\ prom[p].st = "backoff"
  /\ prom' = [prom EXCEPT ![p].st = "posting"]
  /\ UNCHANGED <<sessionId, sessionReady, req, server>>

\* 401 invalid_session for the first time: invalidateSession() forgets session
\* and creation, whichever they are by now, and the call starts over.
Rejected(r) ==
  /\ ~req[r].retried
  /\ sessionId' = None
  /\ CreateSession(r, None, TRUE)
  /\ net' = [net EXCEPT ![r] = Nothing]

\* The end of a call.
End(r, outcome) ==
  /\ req' = [req EXCEPT ![r].pc = outcome]
  /\ net' = [net EXCEPT ![r] = Nothing]
  /\ UNCHANGED <<sessionId, sessionReady, prom>>

\* The headers of the answer come, and the timer is cleared; 204 has no body.
Headers(r) ==
  /\ req[r].pc = "sent"
  /\ net[r].msg \in Answers
  /\ \/ req' = [req EXCEPT ![r].pc = "reading"] /\ UNCHANGED <<sessionId, sessionReady, prom, net>>
     \/ net[r].msg = "ok" /\ End(r, "done")
  /\ UNCHANGED <<valid, last, executed, restarts>>

\* The body of the answer has come.
Receive(r) ==
  /\ req[r].pc = "reading"
  /\ \/ net[r].msg = "ok" /\ End(r, "done")
     \/ net[r].msg = "error" /\ End(r, "refused")
     \/ net[r].msg = "invalid" /\ Rejected(r)
     \/ net[r].msg = "invalid" /\ req[r].retried /\ End(r, "invalid")
  /\ UNCHANGED <<valid, last, executed, restarts>>

\* The body breaks off: a result is lost, and an error loses its code, so that the
\* call is not repeated.
BodyFails(r) ==
  /\ req[r].pc = "reading"
  /\ \/ net[r].msg = "ok" /\ End(r, "failed")
     \/ net[r].msg # "ok" /\ End(r, "refused")
  /\ UNCHANGED <<valid, last, executed, restarts>>

\* A call that is repeated when no answer comes in time.
LostRepeats(r) ==
  /\ req[r].pc = "sent"
  /\ \/ ~req[r].retried /\ sessionId # None
        /\ req' = [req EXCEPT ![r].retried = TRUE]
        /\ net' = [net EXCEPT ![r] = CallWith(sessionId)]
     \/ (req[r].retried \/ sessionId = None)
        /\ req' = [req EXCEPT ![r].pc = "failed"] /\ UNCHANGED net
  /\ UNCHANGED <<sessionId, sessionReady, prom, valid, last, executed, restarts>>

\* No headers within 15 s: fetchWithTimeout gives up; or the network fails.  The
\* server may still execute the call.
Lost(r) ==
  /\ req[r].pc = "sent"
  /\ req' = [req EXCEPT ![r].pc = "failed"]
  /\ UNCHANGED <<sessionId, sessionReady, prom, server>>

-----------------------------------------------------------------------------
(* The API server, as far as the client sees it.                           *)

MakeSession(p) ==
  /\ prom[p].st = "posting"
  /\ last' = last + 1
  /\ valid' = valid \cup {last + 1}
  /\ prom' = [prom EXCEPT ![p].st = "created", ![p].sid = last + 1]
  /\ UNCHANGED <<sessionId, sessionReady, req, net, executed, restarts>>

\* A call is executed when its session is known, and rejected when it is not.
Serve(r) ==
  /\ net[r].msg = "call"
  /\ \/ /\ net[r].sid \in valid
        /\ executed' = [executed EXCEPT ![r] = @ + 1]
        /\ \E answer \in {"ok", "error"} : net' = [net EXCEPT ![r] = Answer(answer)]
     \/ /\ net[r].sid \notin valid
        /\ net' = [net EXCEPT ![r] = Answer("invalid")]
        /\ UNCHANGED executed
  /\ UNCHANGED <<client, valid, last, restarts>>

Restart ==
  /\ restarts < MaxRestarts
  /\ restarts' = restarts + 1
  /\ valid' = {}
  /\ UNCHANGED <<client, net, last, executed>>

-----------------------------------------------------------------------------

Next ==
  \/ \E r \in Requests : \/ Call(r) \/ Headers(r) \/ Receive(r) \/ BodyFails(r) \/ Lost(r)
                         \/ Serve(r)
  \/ \E p \in Creations : \/ SessionHeaders(p) \/ SessionCreated(p) \/ SessionAttemptFails(p)
                          \/ SessionAnswerFails(p) \/ SessionRefused(p) \/ SessionRetry(p)
                          \/ MakeSession(p)
  \/ Restart

Spec == Init /\ [][Next]_vars

\* The timer of fetchWithTimeout ends every POST for a session and every call but an
\* export as long as no headers have come, and the timer of the pause runs down.  The
\* server need not answer at all, and a body need never end: nothing limits its reading.
Fairness ==
  /\ \A p \in Creations : WF_vars(SessionAttemptFails(p)) /\ WF_vars(SessionRetry(p))
  /\ \A r \in Requests \ Exports : WF_vars(Lost(r))

FairSpec == Spec /\ Fairness

-----------------------------------------------------------------------------

\* The server executes a call at most once: only a call it rejected is repeated,
\* and one that was given up (line 242) is not.
AtMostOnce == \A r \in Requests : executed[r] <= 1

\* Who waits, waits for a creation that is still under way, and so does who
\* comes next: the shared promise is given up when it settles (lines 60-62),
\* with a session or with an error.
WaitersArePending ==
  /\ sessionReady # None => prom[sessionReady].st \in Pending
  /\ \A r \in Requests : req[r].pc = "join" => prom[req[r].on].st \in Pending

\* One restart of the server is never seen by a caller, however the answers
\* of requests and creations that were under way cross (lines 266-269).
SurvivesRestart ==
  restarts <= 1 => \A r \in Requests : req[r].pc # "invalid"

\* Until the server forgets a session, requests share one creation (line 32).
OneCreation ==
  restarts = 0 => Cardinality({p \in Creations : prom[p].st \in Pending}) <= 1

\* A call waits for a body, its own or that of the session it needs.
Stalled(r) ==
  \/ req[r].pc = "reading"
  \/ req[r].pc = "join" /\ prom[req[r].on].st = "reading"

\* Every call ends, whether the server answers or not (lines 51-62, 234-247): only a
\* body that never ends, of its own answer or of the answer to the POST for the session
\* it shares with others, can keep it waiting for ever (lines 45, 48, 264, 273).
\* Exports wait for as long as the browser does.
CallsEnd ==
  \A r \in Requests \ Exports :
     (req[r].pc # "idle" ~> req[r].pc \in Ended) \/ <>[]Stalled(r)

\* Repeating a call is safe and enough: the server executes it once at most, and its
\* caller sees nothing of a restart (lines 234-271).
RepeatsSafely == AtMostOnce /\ SurvivesRestart

\* Requests share one creation of a session, and nobody waits for one that has
\* settled (lines 30-62).
SharedCreation == OneCreation /\ WaitersArePending

=============================================================================
