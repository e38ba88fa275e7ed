---------------------------- MODULE ConsoleSessions ----------------------------
(***************************************************************************)
(* What the console keeps open: the admin session of a browser             *)
(* (auth_service.py, api/auth.py), the status and log WebSockets that live *)
(* on it (api/websocket.py), whose status comes from the shared snapshot of *)
(* StatusSnapshot, and the change of the admin password, which rewrites one *)
(* key of .env (admin_password_service.py).                                *)
(*                                                                         *)
(* A handler is a caller of the snapshot while it collects its first       *)
(* frame, and so is the broadcast loop.  Time passes in ticks; the event   *)
(* loop wakes a handler in the tick of its deadline, while what runs in a  *)
(* thread may take any time.  Origins, signatures, fingerprints and the    *)
(* login throttle are left out: a cookie is the session it names.          *)
(***************************************************************************)
EXTENDS StatusSnapshot

CONSTANTS
    StatusSockets, LogSockets,  \* connections of the browser; the first are callers
    Broadcaster,                \* the caller that is the broadcast loop
    Sessions, Changers,         \* admin sessions; threads that change the password
    MaxPending,                 \* _resolve_max_pending_ws_authorizations
    Interval, Lease,            \* a recheck is due after Interval .. Lease ticks
    MaxTime, MaxEdits, MaxChanges  \* bounds: ticks; edits of .env by the operator;
                                   \* passwords written before the last change begins

Sockets == StatusSockets \cup LogSockets
ASSUME SocketsAssumption == StatusSockets \cup {Broadcaster} \subseteq Callers
ASSUME TimeAssumption == /\ Interval \in Nat /\ Lease \in Nat /\ MaxTime \in Nat
                         /\ MaxEdits \in Nat /\ MaxChanges \in Nat
ASSUME ConsoleAssumption == None \notin Nat \cup Changers /\ Broadcaster \notin StatusSockets

VARIABLES
    now,
    cookie,      \* the session of the browser's cookie, or None
    ended,       \* of each session: None while it is valid, or when it ended
    used,        \* the sessions that have been created
    at,          \* where the handler of a socket is
    carried,     \* the session of the cookie a socket came with
    deadline, opened,  \* its next recheck; when its loop began, or None
    inbox,       \* what the peer sent last: nothing, a frame, or its disconnect
    registered,  \* status_manager.active_connections
    sending,     \* the sockets the broadcast under way has not reached
    pending,     \* _pending_ws_authorizations
    sent,        \* the sockets that got a frame in this step
    env,         \* .env: the password's hash, its other keys, the file's identity
    environ,     \* the hash in the process environment
    holder,      \* who holds the Manager mutation lock
    change,      \* of each password change: where it is, what it read and writes
    edits, wrote, raced  \* history: edits of .env; the hash written last; an edit
                         \* came between the last identity check and the replace

clocks == <<now, cookie, ended, used>>
sockets == <<at, carried, deadline, opened, inbox, registered, sending, pending>>
password == <<env, environ, holder, change, edits, wrote, raced>>
consoleVars == <<vars, clocks, sockets, sent, password>>

-----------------------------------------------------------------------------
(* Sessions.                                                                 *)

Live(session) == session # None /\ ended[session] = None

\* revoke_admin_session is idempotent, and a browser without a cookie revokes none.
Revoked == [k \in Sessions |-> IF k = cookie /\ ended[k] = None THEN now ELSE ended[k]]

\* POST /auth/login: the session of the old cookie is revoked, then a new one is made,
\* which may fail.
Login(k) ==
    /\ k \notin used
    /\ ended' = Revoked
    /\ \/ used' = used \cup {k} /\ cookie' = k
       \/ UNCHANGED <<used, cookie>>
    /\ UNCHANGED <<now, vars, sockets, password>>

Logout ==
    /\ cookie # None /\ cookie' = None
    /\ ended' = Revoked
    /\ UNCHANGED <<now, used, vars, sockets, password>>

\* SESSION_TTL_SECONDS have passed; the cookie stays with the browser.
SessionExpires(k) ==
    /\ k \in used /\ ended[k] = None
    /\ ended' = [ended EXCEPT ![k] = now]
    /\ UNCHANGED <<now, cookie, used, vars, sockets, password>>

-----------------------------------------------------------------------------
(* The handlers ws_status and ws_logs.                                       *)

DueFrom(t) == t + Interval .. t + Lease

\* What the handler's finally leaves behind.
Gone(S) ==
    /\ registered' = registered \ S /\ sending' = sending \ S
    /\ inbox' = [s \in Sockets |-> IF s \in S THEN "none" ELSE inbox[s]]
    /\ opened' = [s \in Sockets |-> IF s \in S THEN None ELSE opened[s]]
    /\ carried' = [s \in Sockets |-> IF s \in S THEN None ELSE carried[s]]
    /\ deadline' = [s \in Sockets |-> IF s \in S THEN 0 ELSE deadline[s]]

Close(s) ==
    /\ at' = [at EXCEPT ![s] = "closed"]
    /\ Gone({s})
    /\ UNCHANGED <<pending, vars, clocks, password>>

\* _authorize_with_limit: at the limit a handshake is refused with 1013.
Connect(s) ==
    /\ at[s] = "closed" /\ pending < MaxPending
    /\ at' = [at EXCEPT ![s] = "authorizing"] /\ pending' = pending + 1
    /\ carried' = [carried EXCEPT ![s] = cookie]
    /\ UNCHANGED <<deadline, opened, inbox, registered, sending, vars, clocks, password>>

\* No valid session (4401), or the check raises.
Refuse(s) ==
    /\ at[s] = "authorizing"
    /\ pending' = pending - 1
    /\ at' = [at EXCEPT ![s] = "closed"] /\ Gone({s})
    /\ UNCHANGED <<vars, clocks, password>>

\* The handshake is accepted only after the session was found valid.
Authorize(s) ==
    /\ at[s] = "authorizing" /\ Live(carried[s])
    /\ pending' = pending - 1
    /\ at' = [at EXCEPT ![s] = "accepting"]
    /\ UNCHANGED <<carried, deadline, opened, inbox, registered, sending, vars, clocks, password>>

\* A status socket is registered and collects its first frame ...
AcceptStatus(s) ==
    /\ at[s] = "accepting"
    /\ registered' = registered \cup {s}
    /\ at' = [at EXCEPT ![s] = "collecting"]
    /\ Call(s)
    /\ UNCHANGED <<carried, deadline, opened, inbox, sending, pending, clocks, password>>

\* ... a log socket opens its stream.
AcceptLogs(s) ==
    /\ at[s] = "accepting"
    /\ at' = [at EXCEPT ![s] = "opening"]
    /\ UNCHANGED <<carried, deadline, opened, inbox, registered, sending, pending,
                   vars, clocks, password>>

\* The loop begins, with its first deadline.
Open(s, due) ==
    /\ at' = [at EXCEPT ![s] = "open"]
    /\ opened' = [opened EXCEPT ![s] = now]
    /\ deadline' = [deadline EXCEPT ![s] = due]

OpenLogs(s) ==
    /\ at[s] = "opening"
    /\ \E due \in DueFrom(now) : Open(s, due)
    /\ UNCHANGED <<carried, inbox, registered, sending, pending, vars, clocks, password>>

\* Frame, disconnect, or an exception that ends the handler.
PeerSends(s, message) ==
    /\ at[s] = "open" /\ inbox[s] = "none"
    /\ inbox' = [inbox EXCEPT ![s] = message]
    /\ UNCHANGED <<at, carried, deadline, opened, registered, sending, pending, vars, clocks, password>>

\* Mutant: every frame starts the wait anew.
Receive_Restarts(s) ==
    /\ at[s] = "open" /\ inbox[s] = "frame"
    /\ inbox' = [inbox EXCEPT ![s] = "none"]
    /\ deadline' = [deadline EXCEPT ![s] = now + Interval]
    /\ UNCHANGED <<at, carried, opened, registered, sending, pending, vars, clocks, password>>

\* A frame is taken for a keepalive and does not move the deadline.
Receive(s) ==
    /\ at[s] = "open" /\ inbox[s] = "frame"
    /\ inbox' = [inbox EXCEPT ![s] = "none"]
    /\ UNCHANGED <<at, carried, deadline, opened, registered, sending, pending, vars, clocks, password>>

Disconnected(s) == at[s] = "open" /\ inbox[s] = "gone" /\ Close(s)
\* The accept fails, the stream cannot be opened or ends, a send or a check raises.
HandlerRaises(s) == at[s] \in {"accepting", "opening", "open", "checking"} /\ Close(s)

\* The deadline has come: the next one counts from here, before the check.
Wake(s) ==
    /\ at[s] = "open" /\ now >= deadline[s]
    /\ at' = [at EXCEPT ![s] = "checking"]
    /\ \E due \in DueFrom(now) : deadline' = [deadline EXCEPT ![s] = due]
    /\ UNCHANGED <<carried, opened, inbox, registered, sending, pending, vars, clocks, password>>

\* The check, in a thread.  A log handler that waited for it with a chunk in hand sends
\* the chunk now.
Recheck(s) ==
    /\ at[s] = "checking"
    /\ \/ ~Live(carried[s]) /\ Close(s) /\ sent' = {}
       \/ /\ Live(carried[s])
          /\ at' = [at EXCEPT ![s] = "open"]
          /\ sent' \in SUBSET ({s} \cap LogSockets)
          /\ UNCHANGED <<carried, deadline, opened, inbox, registered, sending, pending,
                         vars, clocks, password>>

-----------------------------------------------------------------------------
(* Frames.                                                                   *)

\* Mutant: the chunk that is there goes out before the recheck.
LogChunk_First(s) ==
    /\ at[s] = "open"
    /\ sent' = {s}
    /\ UNCHANGED <<sockets, vars, clocks, password>>

\* A chunk goes out only while the recheck is not due.
LogChunk(s) ==
    /\ at[s] = "open" /\ now < deadline[s]
    /\ sent' = {s}
    /\ UNCHANGED <<sockets, vars, clocks, password>>

\* Once a tick of the loop: with nobody connected the collection is skipped.
BeginBroadcast ==
    /\ sending = {} /\ registered # {} /\ pc[Broadcaster] = "idle"
    /\ Call(Broadcaster)
    /\ UNCHANGED <<sockets, clocks, password>>

Broadcast(s) ==
    /\ s \in sending /\ sending' = sending \ {s}
    /\ sent' = {s}
    /\ UNCHANGED <<at, carried, deadline, opened, inbox, registered, pending, vars, clocks, password>>

\* A peer that does not read for 3 s, or whose send raises, is dropped; the close
\* that should wake its handler may fail as well.
DropClient(s) ==
    /\ s \in sending /\ sending' = sending \ {s}
    /\ registered' = registered \ {s}
    /\ \/ inbox' = [inbox EXCEPT ![s] = "gone"] \/ UNCHANGED inbox
    /\ UNCHANGED <<at, carried, deadline, opened, pending, vars, clocks, password>>

-----------------------------------------------------------------------------
(* The snapshot's steps, and what its callers do when get returns.           *)

Returned == {t \in Callers : pc[t] # "idle" /\ pc'[t] = "idle"}
Answered == answer' # None

\* A handler goes on to its loop, or closes when get raises; the broadcast loop
\* sends to the connections there are now, or waits for its next round.
AfterGet ==
    LET failed == IF Answered THEN {} ELSE Returned \cap StatusSockets
        served == IF Answered THEN Returned \cap StatusSockets ELSE {}
    IN  /\ \E due \in DueFrom(now) :
              /\ at' = [s \in Sockets |-> CASE s \in failed -> "closed"
                                            [] s \in served -> "open"
                                            [] OTHER -> at[s]]
              /\ deadline' = [s \in Sockets |-> CASE s \in failed -> 0
                                                  [] s \in served -> due
                                                  [] OTHER -> deadline[s]]
        /\ opened' = [s \in Sockets |-> IF s \in served THEN now ELSE opened[s]]
        /\ inbox' = [s \in Sockets |-> IF s \in failed THEN "none" ELSE inbox[s]]
        /\ carried' = [s \in Sockets |-> IF s \in failed THEN None ELSE carried[s]]
        /\ registered' = registered \ failed
        /\ sending' = (IF Answered /\ Broadcaster \in Returned THEN registered ELSE sending)
                      \ failed
        /\ sent' = served
        /\ UNCHANGED <<pending, clocks, password>>

Serving(t) == Serve(t) /\ AfterGet
Collecting(t) == Collect(t) /\ AfterGet

\* Other requests of the REST API, and the mutations, belong to no socket.
Elsewhere ==
    /\ \/ \E t \in Callers \ (StatusSockets \cup {Broadcaster}) : Call(t)
       \/ \E m \in Mutators : Mutate(m)
       \/ Expire
    /\ UNCHANGED <<clocks, sockets, password>>

\* The event loop is on time: no open handler is left past its deadline.
Tick ==
    /\ now < MaxTime /\ now' = now + 1
    /\ \A s \in Sockets : at[s] = "open" => now < deadline[s]
    /\ UNCHANGED <<cookie, ended, used, vars, sockets, password>>

-----------------------------------------------------------------------------
(* The password: change_admin_password, one thread each.                     *)

Changing(w, where) == change[w].at = where
Go(w, c) == change' = [change EXCEPT ![w] = c]
NoChange == [at |-> "idle", id |-> 0, hash |-> 0, other |-> 0]
GiveUp(w) == Go(w, NoChange)

\* The current password was right and .env is read, before the lock.
ReadEnv(w) ==
    /\ Changing(w, "idle") /\ wrote < MaxChanges
    /\ Go(w, [NoChange EXCEPT !.at = "lock", !.id = env.id])
    /\ UNCHANGED <<env, environ, holder, edits, wrote, raced>>

\* The lock is refused while another holds it; under it .env must still be the file
\* that was read, and is read for the rewrite.
LockEnv(w) ==
    /\ Changing(w, "lock")
    /\ \/ /\ holder = None /\ env.id = change[w].id
          /\ holder' = w
          /\ Go(w, [at |-> "check", id |-> env.id, hash |-> wrote + 1, other |-> env.other])
       \/ /\ holder # None \/ env.id # change[w].id
          /\ GiveUp(w) /\ UNCHANGED holder
    /\ UNCHANGED <<env, environ, edits, wrote, raced>>

\* Mutant: what was read is not compared with what is there now.
CheckIdentity_Trusts(w) ==
    /\ Changing(w, "check")
    /\ Go(w, [change[w] EXCEPT !.at = "replace"])
    /\ UNCHANGED <<env, environ, holder, edits, wrote, raced>>

\* The temporary file is written; .env must still be the one that was read.
CheckIdentity(w) ==
    /\ Changing(w, "check")
    /\ \/ env.id = change[w].id /\ Go(w, [change[w] EXCEPT !.at = "replace"]) /\ UNCHANGED holder
       \/ env.id # change[w].id /\ GiveUp(w) /\ holder' = None
    /\ UNCHANGED <<env, environ, edits, wrote, raced>>

ReplaceEnv(w) ==
    /\ Changing(w, "replace")
    /\ env' = [hash |-> change[w].hash, other |-> change[w].other, id |-> env.id + 1]
    /\ wrote' = change[w].hash
    /\ Go(w, [change[w] EXCEPT !.at = "publish"]) /\ holder' = None
    /\ UNCHANGED <<environ, edits, raced>>

\* Only then, and outside the lock, the process environment.
SetEnviron(w) ==
    /\ Changing(w, "publish")
    /\ environ' = change[w].hash
    /\ GiveUp(w)
    /\ UNCHANGED <<env, holder, edits, wrote, raced>>

\* A write fails: the temporary file is removed.
ChangeFails(w) ==
    /\ Changing(w, "check") /\ GiveUp(w) /\ holder' = None
    /\ UNCHANGED <<env, environ, edits, wrote, raced>>

\* The operator edits another key, without the lock.
EditEnv ==
    /\ edits < MaxEdits /\ edits' = edits + 1
    /\ env' = [hash |-> env.hash, other |-> env.other + 1, id |-> env.id + 1]
    /\ raced' = (raced \/ \E w \in Changers : Changing(w, "replace"))
    /\ UNCHANGED <<environ, holder, change, wrote>>

PasswordStep ==
    /\ \/ \E w \in Changers : ReadEnv(w) \/ LockEnv(w) \/ CheckIdentity(w) \/ ReplaceEnv(w)
                              \/ SetEnviron(w) \/ ChangeFails(w)
       \/ EditEnv
    /\ UNCHANGED <<vars, clocks, sockets>>

-----------------------------------------------------------------------------
\* The backend is killed and starts again: the sessions are in the database and stay,
\* the sockets, the snapshot and what was under way are gone, and .env is loaded.
Restart ==
    /\ at' = [s \in Sockets |-> "closed"] /\ Gone(Sockets) /\ pending' = 0
    /\ epoch' = 0 /\ active' = {} /\ flight' = None /\ cached' = NoCache /\ fresh' = FALSE
    /\ pc' = [t \in Callers |-> "idle"] /\ attempt' = [t \in Callers |-> 1]
    /\ seen' = [t \in Callers |-> 0] /\ rows' = [t \in Callers |-> NoRows]
    /\ answer' = None
    /\ change' = [w \in Changers |-> NoChange] /\ holder' = None
    /\ environ' = env.hash
    /\ UNCHANGED <<world, settled, clocks, env, edits, wrote, raced>>

-----------------------------------------------------------------------------
ConsoleInit ==
    /\ Init
    /\ now = 0 /\ cookie = None /\ used = {} /\ ended = [k \in Sessions |-> None]
    /\ at = [s \in Sockets |-> "closed"] /\ carried = [s \in Sockets |-> None]
    /\ deadline = [s \in Sockets |-> 0] /\ opened = [s \in Sockets |-> None]
    /\ inbox = [s \in Sockets |-> "none"]
    /\ registered = {} /\ sending = {} /\ pending = 0 /\ sent = {}
    /\ env = [hash |-> 0, other |-> 0, id |-> 0] /\ environ = 0 /\ holder = None
    /\ change = [w \in Changers |-> NoChange]
    /\ edits = 0 /\ wrote = 0 /\ raced = FALSE

SessionStep == Logout \/ \E k \in Sessions : Login(k) \/ SessionExpires(k)

HandlerStep(s) ==
    \/ Connect(s) \/ Refuse(s) \/ Authorize(s)
    \/ s \in StatusSockets /\ AcceptStatus(s)
    \/ s \in LogSockets /\ (AcceptLogs(s) \/ OpenLogs(s))
    \/ (\E message \in {"frame", "gone"} : PeerSends(s, message))
    \/ Receive(s) \/ Disconnected(s) \/ HandlerRaises(s) \/ Wake(s) \/ DropClient(s)

FrameStep == \/ \E s \in Sockets : Recheck(s)
             \/ \E s \in LogSockets : LogChunk(s)
             \/ \E s \in StatusSockets : Broadcast(s)

ConsoleNext ==
    \/ FrameStep
    \/ \E t \in Callers : Serving(t) \/ Collecting(t)
    \/ /\ \/ SessionStep \/ Tick \/ BeginBroadcast \/ Elsewhere \/ PasswordStep \/ Restart
          \/ \E s \in Sockets : HandlerStep(s)
       /\ sent' = {}

ConsoleSpec == ConsoleInit /\ [][ConsoleNext]_consoleVars

\* As in StatusSnapshot: a caller's own steps are taken, a collection may hang.
FairConsole == ConsoleSpec /\ \A t \in Callers : WF_consoleVars(Serving(t))

-----------------------------------------------------------------------------
(* Properties.                                                               *)

Ended(s) == carried[s] # None /\ ended[carried[s]] # None
Later(a, b) == IF a > b THEN a ELSE b
LeaseEnd(s) == Later(ended[carried[s]], opened[s]) + Lease

\* A session that was logged out, replaced or has expired keeps a socket for at most
\* one recheck interval after it ended or the socket's loop began: a log socket gets
\* no chunk from the end of that lease on, a status socket none after it except while
\* its recheck is under way.  No traffic of the peer and no slow recheck prolongs it.
LeaseHolds ==
    [][ \A s \in sent' :
          Ended(s) /\ opened[s] # None =>
              \/ now < LeaseEnd(s)
              \/ s \in StatusSockets /\ (now = LeaseEnd(s) \/ at[s] = "checking") ]_consoleVars

\* Handshakes that are refused, raise or are admitted give their place back: the
\* limit sheds only while that many are really being authorized.
PlacesAreGivenBack == pending = Cardinality({s \in Sockets : at[s] = "authorizing"})

\* No change of .env is lost: whatever password changes run, fail or are refused, the
\* file has every edit of the operator and the password that was written last, unless
\* an edit fell between the last identity check of a change and its replace.
EnvKeepsEveryChange == ~raced => env.other = edits /\ env.hash = wrote
=============================================================================
