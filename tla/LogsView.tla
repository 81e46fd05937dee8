------------------------------ MODULE LogsView ------------------------------
(***************************************************************************)
(* The logs page of the web client (web/src/pages/LogsPage.tsx with        *)
(* web/src/logs/client.ts): sessions, searches, uploads, files of an SSH   *)
(* connection that are browsed and imported, and the live tail of one of   *)
(* them.  Every handler runs to its next await; its calls are answered in  *)
(* any order.                                                              *)
(*                                                                         *)
(* The panels of the page are one click away from each other and are left  *)
(* out, and so are the texts.  Of the server (httpapi/log_handlers.go) there *)
(* is what the page sees: sessions are created, files stored and listed, a *)
(* tail sends its events.                                                  *)
(***************************************************************************)
EXTENDS Naturals, Sequences, FiniteSets, Ordering

CONSTANTS
  Conns,       \* SSH connections
  Files,       \* log files on every one of them, numbers
  FirstSessions, \* how many sessions there are when the page is opened
  MaxSessions,
  MaxClicks,   \* clicks of the user, and calls that fail without a reason
  None

VARIABLES
  made,        \* on the server: the sessions are 1..made
  imported,    \* on the server: <<session, connection, file>>
  sessions,    \* the list on the page
  selectedId,
  shownOf,     \* the session whose entries are shown, or None
  searching, sshBusy,
  conn,        \* sshConnectionId
  remote,      \* the connection whose files are listed, or None
  tailStatus, tailing,
  ref,         \* tailAbortRef: the number of a tail, or None
  tailLines,   \* the tails whose lines are on the screen
  lastTail,    \* history: the tail that was started last
  calls,       \* what is under way
  mounted, clicks

vars == <<made, imported, sessions, selectedId, shownOf, searching, sshBusy, conn, remote,
          tailStatus, tailing, ref, tailLines, lastTail, calls, mounted, clicks>>

\* A call: kind, the click n it comes from, the handler it belongs to (own), the
\* session and the connection of that click, the files that are left, all of them,
\* and its state.
Call(kind, own, sess, c, files) ==
  [kind |-> kind, n |-> clicks + 1, own |-> own, sess |-> sess, conn |-> c,
   left |-> files, all |-> files, st |-> "sent"]

Then(c, kind) == [c EXCEPT !.kind = kind, !.st = "sent"]

Of(own) == {c \in calls : c.own = own}

\* selected: the first session of the list stands in for one that is not on it.
Selected == IF selectedId \in sessions THEN selectedId
            ELSE IF sessions = {} THEN None ELSE Greatest(sessions)

Init ==
  /\ made = FirstSessions /\ imported = {}
  /\ sessions = {} /\ selectedId = None /\ shownOf = None
  /\ searching = FALSE /\ sshBusy = FALSE
  /\ conn = None /\ remote = None
  /\ tailStatus = "idle" /\ tailing = FALSE /\ ref = None /\ tailLines = {} /\ lastTail = None
  /\ calls = {[kind |-> "load", n |-> 0, own |-> "page", sess |-> None, conn |-> None,
               left |-> <<>>, all |-> <<>>, st |-> "sent"]}
  /\ mounted = TRUE /\ clicks = 0

Click == mounted /\ clicks < MaxClicks /\ clicks' = clicks + 1

listVars == <<sessions, selectedId>>
tailVars == <<tailStatus, tailing, ref, tailLines, lastTail>>
sshVars == <<sshBusy, conn, remote>>
serverVars == <<made, imported>>

-----------------------------------------------------------------------------
(* Sessions and searches.                                                  *)

SelectSession(s) ==
  /\ Click /\ s \in sessions
  /\ selectedId' = s /\ shownOf' = None
  /\ UNCHANGED <<serverVars, sessions, searching, sshVars, tailVars, calls, mounted>>

\* The search button; refreshSearch.
Search ==
  /\ Click /\ Selected # None /\ ~searching
  /\ searching' = TRUE
  /\ calls' = calls \cup {Call("search", "page", Selected, None, <<>>)}
  /\ UNCHANGED <<serverVars, listVars, shownOf, sshVars, tailVars, mounted>>

CreateSession ==
  /\ Click /\ made < MaxSessions /\ Of("create") = {}
  /\ calls' = calls \cup {Call("create", "create", None, None, <<>>)}
  /\ UNCHANGED <<serverVars, listVars, shownOf, searching, sshVars, tailVars, mounted>>

Upload ==
  /\ Click /\ Selected # None /\ Of("upload") = {}
  /\ calls' = calls \cup {Call("upload", "upload", Selected, None, <<>>)}
  /\ UNCHANGED <<serverVars, listVars, shownOf, searching, sshVars, tailVars, mounted>>

-----------------------------------------------------------------------------
(* SSH files.                                                              *)

SelectConnection(c) ==
  /\ Click /\ c # conn /\ conn # None
  /\ conn' = c /\ remote' = None
  /\ UNCHANGED <<serverVars, listVars, shownOf, searching, sshBusy, tailVars, calls, mounted>>

\* testSshConnection, browseSsh and scanSsh; a directory can be entered while
\* another one is read.
Ssh(kind) ==
  /\ Click /\ conn # None
  /\ ~sshBusy \/ (kind = "browse" /\ remote # None)
  /\ sshBusy' = TRUE
  /\ calls' = calls \cup {Call(kind, "page", None, conn, <<>>)}
  /\ UNCHANGED <<serverVars, listVars, shownOf, searching, conn, remote, tailVars, mounted>>

\* importRemoteFile, for one file of the list.
ImportRemoteFile(f) ==
  /\ Click /\ remote # None /\ Selected # None /\ conn # None
  /\ \A c \in calls : c.kind = "import" => Head(c.left) # f
  /\ calls' = calls \cup {Call("import", "import", Selected, conn, <<f>>)}
  /\ UNCHANGED <<serverVars, listVars, shownOf, searching, sshVars, tailVars, mounted>>

\* importVisibleFiles: one after the other, into the session of the click; none does
\* nothing.
ImportVisibleFiles ==
  /\ Click /\ remote # None /\ Selected # None /\ conn # None /\ Of("batch") = {} /\ Files # {}
  /\ calls' = calls \cup {Call("import", "batch", Selected, conn, InOrder(Files))}
  /\ UNCHANGED <<serverVars, listVars, shownOf, searching, sshVars, tailVars, mounted>>

-----------------------------------------------------------------------------
(* The tail.                                                               *)

IsTail(c) == c.kind = "tail"

\* stopTail; the call whose controller was aborted has only its finally left.
Aborted == {IF IsTail(c) /\ c.n = ref THEN [c EXCEPT !.st = "aborted"] ELSE c : c \in calls}

StopTail ==
  /\ Click /\ tailStatus \in {"live", "connecting"}
  /\ calls' = Aborted
  /\ ref' = None /\ tailing' = FALSE /\ tailStatus' = "stopped"
  /\ UNCHANGED <<serverVars, listVars, shownOf, searching, sshVars, tailLines, lastTail, mounted>>

\* The tail before is not stopped.
StartTailKeeps(f) ==
  /\ Click /\ remote # None /\ Selected # None /\ conn # None
  /\ calls' = calls \cup {Call("tail", "tail", Selected, conn, <<f>>)}
  /\ ref' = clicks + 1 /\ lastTail' = clicks + 1
  /\ tailing' = TRUE /\ tailStatus' = "connecting" /\ tailLines' = {}
  /\ UNCHANGED <<serverVars, listVars, shownOf, searching, sshVars, mounted>>

\* The lines of the tail before stay on the screen.
StartTailAppends(f) ==
  /\ Click /\ remote # None /\ Selected # None /\ conn # None
  /\ calls' = Aborted \cup {Call("tail", "tail", Selected, conn, <<f>>)}
  /\ ref' = clicks + 1 /\ lastTail' = clicks + 1
  /\ tailing' = TRUE /\ tailStatus' = "connecting"
  /\ UNCHANGED <<serverVars, listVars, shownOf, searching, sshVars, tailLines, mounted>>

\* startTail: the tail before is stopped, and its lines are cleared.
StartTail(f) ==
  /\ Click /\ remote # None /\ Selected # None /\ conn # None
  /\ ~(tailing /\ \E c \in calls : IsTail(c) /\ c.n = lastTail /\ c.all = <<f>>)
  /\ calls' = Aborted \cup {Call("tail", "tail", Selected, conn, <<f>>)}
  /\ ref' = clicks + 1 /\ lastTail' = clicks + 1
  /\ tailing' = TRUE /\ tailStatus' = "connecting" /\ tailLines' = {}
  /\ UNCHANGED <<serverVars, listVars, shownOf, searching, sshVars, mounted>>

\* An event of the stream.  An aborted one delivers none: abort() drops what the
\* stream holds and makes the read that waits fail, and what a read has already
\* returned was delivered before the click that aborts could begin (client.ts
\* 222-232 awaits nothing else).
TailEvent(c, e) ==
  /\ IsTail(c) /\ c.st = "sent" /\ c \in calls
  /\ \/ e = "ready" /\ tailStatus' = "live" /\ UNCHANGED <<tailLines, calls>>
     \/ e = "line" /\ tailLines' = tailLines \cup {c.n} /\ UNCHANGED <<tailStatus, calls>>
     \/ /\ e \in {"error", "idle", "stopped"}     \* error, done, stopped: the last event
        /\ tailStatus' = e
        /\ calls' = (calls \ {c}) \cup {[c EXCEPT !.st = "over"]}
        /\ UNCHANGED tailLines
  /\ UNCHANGED <<serverVars, listVars, shownOf, searching, sshVars, tailing, ref, lastTail, mounted, clicks>>

\* The end of startTail: the stream is over, broken or aborted.  The finally does
\* not ask whose tail is running when it clears tailing.
TailStops(c) ==
  /\ IsTail(c) /\ c.st # "sent"
  /\ tailStatus' = IF c.st = "broken" THEN "error"
                   ELSE IF c.st = "over" /\ tailStatus \in {"live", "connecting"} THEN "stopped"
                   ELSE tailStatus
  /\ ref' = IF ref = c.n THEN None ELSE ref
  /\ tailing' = FALSE
  /\ calls' = (calls \ {c}) \cup {Then(c, "load")}
  /\ UNCHANGED <<serverVars, listVars, shownOf, searching, sshVars, tailLines, lastTail, mounted, clicks>>

\* The page is left: the effect of line 175.
Leave ==
  /\ Click
  /\ mounted' = FALSE
  /\ calls' = Aborted
  /\ UNCHANGED <<serverVars, listVars, shownOf, searching, sshVars, tailVars>>

-----------------------------------------------------------------------------
(* Answers; the rest of the handler up to its next await.                  *)

LoadAnswered(c) ==
  /\ c.kind = "load"
  /\ calls' = calls \ {c}
  /\ IF c.st = "ok"
     THEN /\ sessions' = 1..made
          /\ selectedId' = IF selectedId = None /\ made > 0 THEN made ELSE selectedId
          /\ conn' = IF conn = None THEN CHOOSE x \in Conns : TRUE ELSE conn
     ELSE UNCHANGED <<listVars, conn>>
  /\ UNCHANGED <<shownOf, searching, sshBusy, remote>>

\* refreshSearch; upload and the imports load the list after it, also when it fails.
SearchAnswered(c) ==
  /\ c.kind = "search"
  /\ shownOf' = IF c.st = "ok" THEN c.sess ELSE shownOf
  /\ searching' = FALSE
  /\ calls' = IF c.own = "page" THEN calls \ {c} ELSE (calls \ {c}) \cup {Then(c, "load")}
  /\ UNCHANGED <<listVars, sshVars>>

CreateAnswered(c) ==
  /\ c.kind = "create"
  /\ calls' = calls \ {c}
  /\ IF c.st = "ok"
     THEN sessions' = sessions \cup {c.sess} /\ selectedId' = c.sess
     ELSE UNCHANGED listVars
  /\ UNCHANGED <<shownOf, searching, sshVars>>

SshAnswered(c) ==
  /\ c.kind \in {"test", "browse", "scan"}
  /\ calls' = calls \ {c}
  /\ remote' = IF c.st = "ok" /\ c.kind # "test" THEN c.conn ELSE remote
  /\ sshBusy' = FALSE
  /\ UNCHANGED <<listVars, shownOf, searching, conn>>

\* The next file goes to the session that is selected now.
StoredHere(c) ==
  /\ c.kind \in {"upload", "import"}
  /\ \/ /\ c.st = "ok" /\ Len(c.left) > 1
        /\ calls' = (calls \ {c}) \cup {[Then(c, "import") EXCEPT !.left = Tail(@), !.sess = Selected]}
        /\ UNCHANGED searching
     \/ /\ c.st = "ok" /\ Len(c.left) <= 1
        /\ calls' = (calls \ {c}) \cup {Then(c, "search")} /\ searching' = TRUE
     \/ c.st = "error" /\ calls' = calls \ {c} /\ UNCHANGED searching
  /\ UNCHANGED <<listVars, shownOf, sshVars>>

\* upload, importRemoteFile and importVisibleFiles go on with the next file or with
\* the search; an error ends them.
Stored(c) ==
  /\ c.kind \in {"upload", "import"}
  /\ \/ /\ c.st = "ok" /\ Len(c.left) > 1
        /\ calls' = (calls \ {c}) \cup {[Then(c, "import") EXCEPT !.left = Tail(@)]}
        /\ UNCHANGED searching
     \/ /\ c.st = "ok" /\ Len(c.left) <= 1
        /\ calls' = (calls \ {c}) \cup {Then(c, "search")} /\ searching' = TRUE
     \/ c.st = "error" /\ calls' = calls \ {c} /\ UNCHANGED searching
  /\ UNCHANGED <<listVars, shownOf, sshVars>>

Answered(c) ==
  /\ c \in calls /\ c.st \in {"ok", "error"}
  /\ LoadAnswered(c) \/ SearchAnswered(c) \/ CreateAnswered(c) \/ SshAnswered(c) \/ Stored(c)
  /\ UNCHANGED <<serverVars, tailVars, mounted, clicks>>

-----------------------------------------------------------------------------
(* The server and the network.                                             *)

Serve(c) ==
  /\ c \in calls /\ c.st = "sent" /\ ~IsTail(c)
  /\ calls' = (calls \ {c}) \cup
       {[c EXCEPT !.st = "ok", !.sess = IF c.kind = "create" THEN made + 1 ELSE @]}
  /\ made' = IF c.kind = "create" THEN made + 1 ELSE made
  /\ imported' = IF c.kind = "import" THEN imported \cup {<<c.sess, c.conn, Head(c.left)>>} ELSE imported
  /\ UNCHANGED <<listVars, shownOf, searching, sshVars, tailVars, mounted, clicks>>

\* A call fails or its answer is lost; a tail breaks off.
Fault(c) ==
  /\ c \in calls /\ c.st \in {"sent", "ok"} /\ clicks < MaxClicks /\ clicks' = clicks + 1
  /\ calls' = (calls \ {c}) \cup {[c EXCEPT !.st = IF IsTail(c) THEN "broken" ELSE "error"]}
  /\ UNCHANGED <<serverVars, listVars, shownOf, searching, sshVars, tailVars, mounted>>

Next ==
  \/ \E s \in 1..MaxSessions : SelectSession(s)
  \/ Search \/ CreateSession \/ Upload
  \/ \E c \in Conns : SelectConnection(c)
  \/ \E kind \in {"test", "browse", "scan"} : Ssh(kind)
  \/ \E f \in Files : ImportRemoteFile(f) \/ StartTail(f)
  \/ ImportVisibleFiles \/ StopTail \/ Leave
  \/ \E c \in calls : \/ \E e \in {"ready", "line", "error", "idle", "stopped"} : TailEvent(c, e)
                      \/ TailStops(c) \/ Answered(c) \/ Serve(c) \/ Fault(c)

Spec == Init /\ [][Next]_vars

-----------------------------------------------------------------------------

\* A tail that runs can be stopped: it is the one the page holds the controller
\* of, the stop button is enabled, and leaving the page has aborted it (lines
\* 175-177 and 300-369).  Otherwise the server would follow a file nobody watches.
TailUnderControl ==
  \A c \in calls : IsTail(c) /\ c.st = "sent" =>
    mounted /\ ref = c.n /\ tailStatus \in {"connecting", "live"}

\* The lines on the screen are those of the tail that was started last (lines
\* 316-346), however late the one before ends.
LinesOfOneTail == tailLines \subseteq {lastTail}

\* When the import of all files goes on to the search, every file of the click is
\* in the session of the click (lines 401-428), whatever was selected since.
BatchIsComplete ==
  \A c \in calls : c.own = "batch" /\ c.kind \in {"search", "load"} =>
    \A i \in DOMAIN c.all : <<c.sess, c.conn, c.all[i]>> \in imported

\* The page has its tails in hand: what runs can be stopped, and what is shown is of
\* the last one (lines 175-177 and 300-369).
TailInHand == TailUnderControl /\ LinesOfOneTail

=============================================================================
