------------------------- MODULE MCConsoleSessions -------------------------
(* TLC instances of ConsoleSessions: the snapshot alone, as two requests see *)
(* it; a status socket beside the broadcast, over a snapshot without         *)
(* mutations whose containers are read in one order; a log socket before     *)
(* anything was collected; or the password.                                  *)
EXTENDS ConsoleSessions

CONSTANTS x, y

Closed(S) == \A s \in S : at[s] = "closed"
Handshakes == \A s \in Sockets : at[s] \in {"closed", "authorizing"}

PasswordRests == wrote = 0 /\ edits = 0 /\ \A w \in Changers : Changing(w, "idle")
SocketsRest == now = 0 /\ used = {} /\ Closed(Sockets)
CallersRest == \A t \in Callers : pc[t] = "idle"

Requests == SocketsRest /\ PasswordRests
StatusSocket ==
    /\ Closed(LogSockets) \/ Handshakes
    /\ epoch = 0 /\ \A t \in Callers \ (StatusSockets \cup {Broadcaster}) : pc[t] = "idle"
    /\ \A t \in Callers : rows[t][x] = Unread => rows[t][y] = Unread
LogSocket == (Closed(StatusSockets) \/ Handshakes) /\ epoch = 0 /\ CallersRest /\ cached = NoCache
Password == SocketsRest /\ epoch = 0 /\ CallersRest /\ cached = NoCache

\* Across a restart the containers are followed only if nothing had changed them.
Scope ==
    /\ epoch = 0 => \A c \in Containers : world[c] = 0
    /\ Requests \/ ((StatusSocket \/ LogSocket) /\ PasswordRests) \/ Password
=============================================================================
