----------------------------- MODULE PinRequests -----------------------------
(***************************************************************************)
(* The pending rotation request: the one file that the backend writes for  *)
(* the operator's root command (runtime_pin_request.py), over the pins of  *)
(* PairRotation.  A POST of the console proposes one revision, `ktdctl pin *)
(* apply-pending` carries it out under the mutation lock, and DELETE,      *)
(* `clear-pending` and `clear-pending --force` remove the file.  The POSTs *)
(* and the removals run beside each other and beside ktdctl: none of them  *)
(* takes a lock.                                                           *)
(*                                                                         *)
(* A file is the request that was put into its inode and whether all of it *)
(* is there; a number stands for the request's uuid.  Reasons, actors and  *)
(* times are dropped, and so are the owner, the links and the mode of the  *)
(* file.                                                                   *)
(***************************************************************************)
EXTENDS PairRotation

CONSTANTS
    Posters, Removers,  \* the backend's POST threads; DELETEs and clear-pendings
    ReadsRegistry,      \* the backend may read runtime-pins.json itself
    MaxRequests         \* bound: requests that reach the file

Requests == [id : 1 .. MaxRequests, role : {"map", "pinvi"}, base : Pairs, next : Pairs]
NoRequest == [id |-> 0, role |-> "map", base |-> Seed, next |-> Seed]

ASSUME RequestsAssumption == MaxRequests \in Nat /\ ReadsRegistry \in BOOLEAN
ASSUME NoFileAssumption == Absent \notin [request : Requests, whole : BOOLEAN]

VARIABLES
    file,       \* the request file: Absent, or its request and whether it is whole
    posts,      \* of each POST thread: where it is, and the request it files
    removals,   \* of each remover: whether it decided to unlink, and for which id
    applying,   \* apply-pending: where it is, and the request it read
    filed,      \* how many requests have been given an id
    recorded,   \* history: the ids whose POST answered 201 and was audited
    cancelled,  \* history: the ids a remover was told to remove
    applied,    \* history: the ids whose rotation was carried out
    overlapped  \* history: a removal ran beside another one or beside a POST's write

requestVars == <<file, posts, removals, applying, filed, recorded, cancelled, applied>>
allVars == <<vars, requestVars, overlapped>>

-----------------------------------------------------------------------------
\* _open_verified_request_file: an absent file is no request and no error.
Opened == file # Absent
\* read_runtime_pin_request.
Readable == Opened /\ file.whole
Replaced(pair, role, revision) == [pair EXCEPT ![role] = revision]

Post(p, at, request) == posts' = [posts EXCEPT ![p] = [at |-> at, request |-> request]]
EndPost(p) == Post(p, "idle", NoRequest)

\* read_published_runtime_pins: a backend that cannot read the registry cannot
\* tell a public copy that is behind.
Published == ReadsRegistry => pins.pair = pinsPublic.pair

\* POST /runtime-pins/requests: everything it refuses it decides on the public
\* copy and on the file as they are now.
PostReads(p, role, revision) ==
    LET base == pinsPublic.pair
        next == Replaced(base, role, revision)
    IN  /\ posts[p].at = "idle" /\ filed < MaxRequests
        /\ Published
        /\ next # base /\ ~IsTerminal(pinsPublic, base) /\ ~IsBlocked(pinsPublic, next)
        /\ file = Absent
        /\ filed' = filed + 1
        /\ Post(p, "create", [id |-> filed + 1, role |-> role, base |-> base, next |-> next])
        /\ UNCHANGED <<vars, file, removals, applying, recorded, cancelled, applied>>

\* Mutant: the request is put in place of whatever is there (replace_existing).
PostCreates_Replaces(p) ==
    /\ posts[p].at = "create"
    /\ file' = [request |-> posts[p].request, whole |-> FALSE]
    /\ Post(p, "fill", posts[p].request)
    /\ UNCHANGED <<vars, removals, applying, filed, recorded, cancelled, applied>>

\* _exclusive_write_json creates the file empty; O_EXCL refuses any file that is
\* there, readable or not.
PostCreates(p) ==
    /\ posts[p].at = "create"
    /\ \/ file = Absent
          /\ file' = [request |-> posts[p].request, whole |-> FALSE]
          /\ Post(p, "fill", posts[p].request)
       \/ file # Absent /\ EndPost(p) /\ UNCHANGED file
    /\ UNCHANGED <<vars, removals, applying, filed, recorded, cancelled, applied>>

\* The body goes into the inode, which may have lost its name.
PostFills(p) ==
    /\ posts[p].at = "fill"
    /\ file' = IF file # Absent /\ file.request = posts[p].request
               THEN [file EXCEPT !.whole = TRUE] ELSE file
    /\ Post(p, "chmod", posts[p].request)
    /\ UNCHANGED <<vars, removals, applying, filed, recorded, cancelled, applied>>

\* chmod goes by the name: without a file it raises and the POST is refused, with
\* one, whosever it is, the POST is recorded.
PostEnds(p) ==
    /\ posts[p].at = "chmod"
    /\ recorded' = IF file = Absent THEN recorded ELSE recorded \cup {posts[p].request.id}
    /\ EndPost(p)
    /\ UNCHANGED <<vars, file, removals, applying, filed, cancelled, applied>>

\* The write, its fsync or chmod raises: what has the name is unlinked.
PostFails(p) ==
    /\ posts[p].at \in {"fill", "chmod"}
    /\ faults < MaxFaults /\ faults' = faults + 1
    /\ file' = Absent
    /\ EndPost(p)
    /\ UNCHANGED <<files, process, trusted, reseeded, installs,
                   removals, applying, filed, recorded, cancelled, applied>>

\* The backend is killed: its POSTs stop where they are.
BackendDies ==
    /\ \E p \in Posters : posts[p].at # "idle"
    /\ faults < MaxFaults /\ faults' = faults + 1
    /\ posts' = [p \in Posters |-> [at |-> "idle", request |-> NoRequest]]
    /\ UNCHANGED <<files, process, trusted, reseeded, installs,
                   file, removals, applying, filed, recorded, cancelled, applied>>

-----------------------------------------------------------------------------
Remove(r, at, id) == removals' = [removals EXCEPT ![r] = [at |-> at, id |-> id]]

\* clear_runtime_pin_request: the id is compared with what was read just now ...
ClearReads(r) ==
    /\ removals[r].at = "idle"
    /\ Readable
    /\ Remove(r, "unlink", file.request.id)
    /\ UNCHANGED <<vars, file, posts, applying, filed, recorded, cancelled, applied>>

\* discard_unreadable_runtime_pin_request (--force) takes only what is not a
\* request; it asks for no id.
ForceReads(r) ==
    /\ removals[r].at = "idle"
    /\ Opened /\ ~file.whole
    /\ Remove(r, "unlink", 0)
    /\ UNCHANGED <<vars, file, posts, applying, filed, recorded, cancelled, applied>>

\* ... and the unlink goes by the name alone.
RemoverUnlinks(r) ==
    /\ removals[r].at = "unlink"
    /\ file' = Absent
    /\ cancelled' = cancelled \cup ({removals[r].id} \ {0})
    /\ Remove(r, "idle", 0)
    /\ UNCHANGED <<vars, posts, applying, filed, recorded, applied>>

-----------------------------------------------------------------------------
\* Mutant: a pending intent is resumed without asking whose it is.
MayApply_AnyIntent(request) ==
    \/ intent # Absent
    \/ /\ intent = Absent /\ request.base = pins.pair
       /\ Replaced(pins.pair, request.role, request.next[request.role]) = request.next
       /\ ~IsBlocked(pins, request.next)

\* What apply-pending asks of the request it read: a pending intent is its own, or
\* nothing has been pinned since and the digest comes out as proposed.
MayApply(request) ==
    \/ intent # Absent /\ intent.pins.pair = request.next
    \/ /\ intent = Absent /\ request.base = pins.pair
       /\ Replaced(pins.pair, request.role, request.next[request.role]) = request.next
       /\ ~IsBlocked(pins, request.next)

\* ktdctl pin apply-pending, from here to its end under the mutation lock: the
\* rotation is that of PairRotation, a refusal leaves the request.
ApplyPending(blockPrevious) ==
    /\ applying.at = "idle"
    /\ Readable /\ MayApply(file.request)
    /\ RotateRole(file.request.role, file.request.next[file.request.role], blockPrevious)
    /\ applying' = [at |-> "rotate", request |-> file.request]
    /\ UNCHANGED <<file, posts, removals, filed, recorded, cancelled, applied>>

EndApply == applying' = [at |-> "idle", request |-> NoRequest]

\* Mutant: what is there after the rotation is taken for the request it applied.
ApplyCompares_AnyId ==
    /\ applying.at = "rotate" /\ Idle
    /\ applied' = applied \cup {applying.request.id}
    /\ \/ Readable /\ applying' = [applying EXCEPT !.at = "unlink"]
       \/ ~Readable /\ EndApply
    /\ UNCHANGED <<vars, file, posts, removals, filed, recorded, cancelled>>

\* The rotation is done: the request is cleared by its id.  Another request, or one
\* that cannot be read, is left (exit 3).
ApplyCompares ==
    /\ applying.at = "rotate" /\ Idle
    /\ applied' = applied \cup {applying.request.id}
    /\ \/ /\ Readable /\ file.request.id = applying.request.id
          /\ applying' = [applying EXCEPT !.at = "unlink"]
       \/ ~(Readable /\ file.request.id = applying.request.id) /\ EndApply
    /\ UNCHANGED <<vars, file, posts, removals, filed, recorded, cancelled>>

ApplyUnlinks ==
    /\ applying.at = "unlink"
    /\ file' = Absent
    /\ EndApply
    /\ UNCHANGED <<vars, posts, removals, filed, recorded, cancelled, applied>>

\* ktdctl is killed, or a write raises, in apply-pending or in another command.
KtdctlDies ==
    /\ \/ Die /\ EndApply
       \/ /\ applying.at # "idle" /\ Idle
          /\ faults < MaxFaults /\ faults' = faults + 1
          /\ EndApply
          /\ UNCHANGED <<files, process, trusted, reseeded, installs>>
    /\ UNCHANGED <<file, posts, removals, filed, recorded, cancelled, applied>>

-----------------------------------------------------------------------------
\* The other pin commands, which hold the lock that apply-pending holds.
OtherCommand ==
    /\ applying.at = "idle"
    /\ RotateSome \/ (\E q \in Pairs : Rollback(q)) \/ BlockSome \/ Rebind \/ MigrateExecution
       \/ Reseed \/ InstallManager
    /\ UNCHANGED requestVars

CommandWrites == Write /\ UNCHANGED requestVars

PostSome == \E p \in Posters :
    \/ \E revision \in Maps : PostReads(p, "map", revision)
    \/ \E revision \in Pinvis : PostReads(p, "pinvi", revision)
    \/ PostCreates(p) \/ PostFills(p) \/ PostEnds(p) \/ PostFails(p)

RemoveSome == \E r \in Removers : ClearReads(r) \/ ForceReads(r) \/ RemoverUnlinks(r)

ApplySome == (\E blockPrevious \in BOOLEAN : ApplyPending(blockPrevious))
             \/ ApplyCompares \/ ApplyUnlinks

\* A remover, or apply-pending itself, has decided and not yet unlinked.
Unlinking(r) == removals[r].at = "unlink"
Unlinks == applying.at = "unlink"
Overlap == \/ \E r, q \in Removers : r # q /\ Unlinking(r) /\ Unlinking(q)
           \/ Unlinks /\ \E r \in Removers : Unlinking(r)
           \/ /\ Unlinks \/ \E r \in Removers : Unlinking(r)
              /\ \E p \in Posters : posts[p].at \in {"fill", "chmod"}

RequestsInit ==
    /\ Init
    /\ file = Absent /\ filed = 0
    /\ posts = [p \in Posters |-> [at |-> "idle", request |-> NoRequest]]
    /\ removals = [r \in Removers |-> [at |-> "idle", id |-> 0]]
    /\ applying = [at |-> "idle", request |-> NoRequest]
    /\ recorded = {} /\ cancelled = {} /\ applied = {}
    /\ overlapped = FALSE

RequestsNext ==
    /\ OtherCommand \/ CommandWrites \/ KtdctlDies
       \/ PostSome \/ BackendDies \/ RemoveSome \/ ApplySome
    /\ overlapped' = (overlapped \/ Overlap')

RequestsSpec == RequestsInit /\ [][RequestsNext]_allVars

-----------------------------------------------------------------------------
(* Properties.                                                               *)

\* What apply-pending counts as applied is what the request proposed: when its
\* rotation is done every registry and copy names the proposed pair, also when the
\* rotation it completed was begun, half written and interrupted earlier.
AppliesWhatWasAsked ==
    applying.at # "idle" /\ Idle =>
        /\ pins.pair = applying.request.next /\ pinsPublic.pair = applying.request.next
        /\ intent = Absent
        /\ execs # Absent => execs.pair = applying.request.next
                             /\ execsPublic.pair = applying.request.next

\* A request that was answered with 201 stays until it is applied or cancelled by its
\* id: two POSTs are never both recorded for one file, and neither a retried apply nor
\* a failed write takes away the request of another.  It is promised as long as no
\* removal runs between another one's read and unlink or beside a POST's write.
RecordedIsKept ==
    ~overlapped => \A id \in recorded :
        id \in applied \cup cancelled \/ (file # Absent /\ file.request.id = id)
=============================================================================
