---------------------------- MODULE Idempotency ----------------------------
(***************************************************************************)
(* The idempotency middleware (src/app/core/idempotency): what happens to  *)
(* POST requests that carry an Idempotency-Key and a valid token, from the *)
(* insert of the PENDING record to the stored response.  Requests that     *)
(* dispatch passes through (another method, no key, no user) never touch   *)
(* this state and are not members of Requests.                             *)
(*                                                                         *)
(* Two database transactions serve one request.  The middleware's session  *)
(* inserts the PENDING record and commits only after the router answered;  *)
(* until then the row is invisible to other READ COMMITTED transactions    *)
(* but its index entry makes their ON CONFLICT insert wait.  holder[k] is  *)
(* the request whose uncommitted record occupies the unique index entry of *)
(* key k; rec[k] is the committed row.  The router's session (get_db) is   *)
(* biz[r]; it is committed by the exit code of the dependency.             *)
(***************************************************************************)
CONSTANTS
    Requests,       \* HTTP attempts: a retry by the client is another attempt
    Keys,           \* (user_id, key) pairs
    Calls,          \* (method, path) pairs
    Bodies,         \* request fingerprints: sha256 of the body
    Instances,      \* application processes sharing the database
    None,
    TeardownFirst   \* TRUE: get_db commits before the response reaches the
                    \* middleware; FALSE: the two overlap

ASSUME NoneAssumption ==
    /\ None \notin Requests
    /\ None \notin [status : {"PENDING", "COMPLETED"}, call : Calls, body : Bodies,
                    by : Requests, expired : BOOLEAN]
    /\ None \notin [key : Keys, call : Calls, body : Bodies, inst : Instances]
ASSUME TeardownAssumption == TeardownFirst \in BOOLEAN

VARIABLES
    pc,       \* where dispatch stands for the request
    args,     \* what the request asked for
    out,      \* how the router answered: "ok", "rejected" (4xx), "error" (5xx)
    biz,      \* the router's database transaction
    lost,     \* the middleware's connection broke: its transaction is gone
    holder,   \* per key: the request whose uncommitted record is in the index
    rec,      \* per key: the committed row of idempotency_records
    reply,    \* what the client got: a code and the execution it stems from
    purged    \* history: executions whose record cleanup_expired removed

vars == <<pc, args, out, biz, lost, holder, rec, reply, purged>>

-----------------------------------------------------------------------------
(* Types *)

Args    == [key : Keys, call : Calls, body : Bodies, inst : Instances]
Records == [status : {"PENDING", "COMPLETED"}, call : Calls, body : Bodies,
            by : Requests, expired : BOOLEAN]
PC      == {"idle", "acquire", "conflict", "router", "respond", "marked",
            "unwind", "done", "dead"}
Outcome == {"none", "ok", "rejected", "error"}
Replies == [code : {"none", "ok", "rejected", "error", "ID001", "ID002", "ID003"},
            by : Requests \cup {None}]

NoReply == [code |-> "none", by |-> None]
Key(r)  == args[r].key

TypeOK ==
    /\ pc     \in [Requests -> PC]
    /\ args   \in [Requests -> Args \cup {None}]
    /\ out    \in [Requests -> Outcome]
    /\ biz    \in [Requests -> {"none", "open", "committed", "rolledback"}]
    /\ lost   \subseteq Requests
    /\ holder \in [Keys -> Requests \cup {None}]
    /\ rec    \in [Keys -> Records \cup {None}]
    /\ reply  \in [Requests -> Replies]
    /\ purged \subseteq Requests
    /\ \A r \in Requests : pc[r] # "idle" => args[r] # None

Init ==
    /\ pc     = [r \in Requests |-> "idle"]
    /\ args   = [r \in Requests |-> None]
    /\ out    = [r \in Requests |-> "none"]
    /\ biz    = [r \in Requests |-> "none"]
    /\ lost   = {}
    /\ holder = [k \in Keys |-> None]
    /\ rec    = [k \in Keys |-> None]
    /\ reply  = [r \in Requests |-> NoReply]
    /\ purged = {}

-----------------------------------------------------------------------------
(* The middleware's session *)

Goto(r, from, to) ==
    /\ pc[r] = from
    /\ pc' = [pc EXCEPT ![r] = to]

Answer(r, code, by) == reply' = [reply EXCEPT ![r] = [code |-> code, by |-> by]]

\* Whatever r's session inserted or updated without committing disappears
FreeKeysOf(R) == [k \in Keys |-> IF holder[k] \in R THEN None ELSE holder[k]]

Arrive(r, k, c, b, i) ==
    /\ Goto(r, "idle", "acquire")
    /\ args' = [args EXCEPT ![r] = [key |-> k, call |-> c, body |-> b, inst |-> i]]
    /\ UNCHANGED <<out, biz, lost, holder, rec, reply, purged>>

\* Variant: a lookup followed by an insert, which does not wait for the index entry
TryAcquireByLookup(r) ==
    /\ Goto(r, "acquire", "router")
    /\ rec[Key(r)] = None
    /\ holder' = [holder EXCEPT ![Key(r)] = r]
    /\ biz'    = [biz EXCEPT ![r] = "open"]
    /\ UNCHANGED <<args, out, lost, rec, reply, purged>>

\* Variant: the PENDING record is committed before the router runs
TryAcquireAndCommit(r) ==
    /\ pc[r] = "acquire"
    /\ UNCHANGED <<args, out, lost, holder, reply, purged>>
    /\ \/ /\ rec[Key(r)] = None
          /\ pc'  = [pc EXCEPT ![r] = "router"]
          /\ rec' = [rec EXCEPT ![Key(r)] =
                        [status |-> "PENDING", call |-> args[r].call,
                         body |-> args[r].body, by |-> r, expired |-> FALSE]]
          /\ biz' = [biz EXCEPT ![r] = "open"]
       \/ /\ rec[Key(r)] # None
          /\ pc' = [pc EXCEPT ![r] = "conflict"]
          /\ UNCHANGED <<rec, biz>>

\* INSERT ... ON CONFLICT DO NOTHING RETURNING waits while another
\* transaction's uncommitted row occupies the index entry
TryAcquire(r) ==
    /\ pc[r] = "acquire"
    /\ holder[Key(r)] = None
    /\ UNCHANGED <<args, out, lost, rec, reply, purged>>
    /\ \/ /\ rec[Key(r)] = None
          /\ pc'     = [pc EXCEPT ![r] = "router"]
          /\ holder' = [holder EXCEPT ![Key(r)] = r]
          /\ biz'    = [biz EXCEPT ![r] = "open"]
       \/ /\ rec[Key(r)] # None
          /\ pc' = [pc EXCEPT ![r] = "conflict"]
          /\ UNCHANGED <<holder, biz>>

\* Variant: the fingerprint of the stored request is not compared
ConflictCodeAnyBody(a, row) ==
    IF row = None THEN "ID003"
    ELSE IF row.call # a.call THEN "ID001"
    ELSE IF row.status = "COMPLETED" THEN "cached" ELSE "ID003"

\* What a request that lost the insert is told about the row it finds
ConflictCode(a, row) ==
    IF row = None THEN "ID003"
    ELSE IF row.call # a.call THEN "ID001"
    ELSE IF row.body # a.body THEN "ID002"
    ELSE IF row.status = "COMPLETED" THEN "cached" ELSE "ID003"

\* Variant: the answer is the outcome of the lookup, not the stored response
AnswerConflictRaw(r) ==
    /\ Goto(r, "conflict", "done")
    /\ Answer(r, ConflictCode(args[r], rec[Key(r)]), None)
    /\ UNCHANGED <<args, out, biz, lost, holder, rec, purged>>

AnswerConflict(r) ==
    /\ Goto(r, "conflict", "done")
    /\ LET row  == rec[Key(r)]
           code == ConflictCode(args[r], row)
       IN  IF code = "cached" THEN Answer(r, out[row.by], row.by)
                              ELSE Answer(r, code, None)
    /\ UNCHANGED <<args, out, biz, lost, holder, rec, purged>>

-----------------------------------------------------------------------------
(* The router and its get_db session *)

\* The handler returned; get_db's exit code has still to commit
RouterSucceeds(r) ==
    /\ Goto(r, "router", "respond")
    /\ out' = [out EXCEPT ![r] = "ok"]
    /\ UNCHANGED <<args, biz, lost, holder, rec, reply, purged>>

\* A CustomException crosses get_db (rollback) and becomes a 4xx or 5xx answer
RouterRefuses(r, code) ==
    /\ Goto(r, "router", "respond")
    /\ out' = [out EXCEPT ![r] = code]
    /\ biz' = [biz EXCEPT ![r] = "rolledback"]
    /\ UNCHANGED <<args, lost, holder, rec, reply, purged>>

\* An unhandled exception crosses get_db and call_next: the except block is next
RouterRaises(r) ==
    /\ Goto(r, "router", "unwind")
    /\ biz' = [biz EXCEPT ![r] = "rolledback"]
    /\ UNCHANGED <<args, out, lost, holder, rec, reply, purged>>

TeardownDue(r) ==
    /\ biz[r] = "open"
    /\ \/ pc[r] = "respond"
       \/ ~TeardownFirst /\ pc[r] \in {"marked", "unwind", "done"}

TeardownCommits(r) ==
    /\ TeardownDue(r)
    /\ biz' = [biz EXCEPT ![r] = "committed"]
    /\ UNCHANGED <<pc, args, out, lost, holder, rec, reply, purged>>

\* The commit raises, or is cancelled with the request's task group; the
\* database may have carried it out all the same.  Before the response is
\* handed over, the failure is an exception of call_next
TeardownRaises(r) ==
    /\ TeardownDue(r)
    /\ \E fate \in {"committed", "rolledback"} : biz' = [biz EXCEPT ![r] = fate]
    /\ pc'  = IF TeardownFirst THEN [pc EXCEPT ![r] = "unwind"] ELSE pc
    /\ UNCHANGED <<args, out, lost, holder, rec, reply, purged>>

\* Variant: the middleware goes on before get_db has committed
ResponseEarly(r) == out[r] # "none"

ResponseReady(r) == TeardownFirst => biz[r] # "open"

-----------------------------------------------------------------------------
(* After the response: store it, or release the key *)

MarkCompleted(r) ==
    /\ ResponseReady(r)
    /\ out[r] # "error"
    /\ r \notin lost
    /\ Goto(r, "respond", "marked")
    /\ UNCHANGED <<args, out, biz, lost, holder, rec, reply, purged>>

\* Variant: the session is closed without the commit
CommitRecordSkipped(r) ==
    /\ r \notin lost
    /\ Goto(r, "marked", "done")
    /\ holder' = FreeKeysOf({r})
    /\ Answer(r, out[r], r)
    /\ UNCHANGED <<args, out, biz, lost, rec, purged>>

\* The commit of the record; when its acknowledgement is lost the record stays,
\* but dispatch takes its except block on a dead connection
CommitRecord(r) ==
    /\ pc[r] = "marked"
    /\ r \notin lost
    /\ rec' = [rec EXCEPT ![Key(r)] =
                  [status |-> "COMPLETED", call |-> args[r].call, body |-> args[r].body,
                   by |-> r, expired |-> FALSE]]
    /\ holder' = FreeKeysOf({r})
    /\ \/ /\ pc' = [pc EXCEPT ![r] = "done"]
          /\ Answer(r, out[r], r)
          /\ UNCHANGED lost
       \/ /\ pc' = [pc EXCEPT ![r] = "unwind"]
          /\ lost' = lost \cup {r}
          /\ UNCHANGED reply
    /\ UNCHANGED <<args, out, biz, purged>>

\* mark_completed or the commit raises: the except block is next
StoreFails(r) ==
    /\ ResponseReady(r)
    /\ pc[r] \in {"respond", "marked"}
    /\ out[r] # "error"
    /\ pc' = [pc EXCEPT ![r] = "unwind"]
    /\ UNCHANGED <<args, out, biz, lost, holder, rec, reply, purged>>

\* status >= 500: release and commit, and the client gets the router's answer
ReleaseOnError(r) ==
    /\ out[r] = "error"
    /\ Goto(r, "respond", "done")
    /\ holder' = FreeKeysOf({r})
    /\ Answer(r, "error", None)
    /\ UNCHANGED <<args, out, biz, lost, rec, purged>>

\* Variant: the except block neither releases nor ends the transaction
UnwindHolding(r) ==
    /\ Goto(r, "unwind", "done")
    /\ Answer(r, "error", None)
    /\ UNCHANGED <<args, out, biz, lost, holder, rec, purged>>

\* the except block: release, commit and raise; if the release itself raises
\* (the connection is lost) the key is free all the same
Unwind(r) ==
    /\ Goto(r, "unwind", "done")
    /\ holder' = FreeKeysOf({r})
    /\ Answer(r, "error", None)
    /\ UNCHANGED <<args, out, biz, lost, rec, purged>>

-----------------------------------------------------------------------------
(* Faults, time and the hourly job *)

InMiddlewareTx(r) == pc[r] \in {"router", "respond", "marked", "unwind"}

\* Variant: the index entry survives its transaction
LoseConnectionHolding(r) ==
    /\ InMiddlewareTx(r)
    /\ r \notin lost
    /\ lost' = lost \cup {r}
    /\ UNCHANGED <<pc, args, out, biz, holder, rec, reply, purged>>

\* The database drops the middleware's connection: its transaction rolls back,
\* and the router does not notice
LoseConnection(r) ==
    /\ InMiddlewareTx(r)
    /\ r \notin lost
    /\ lost'   = lost \cup {r}
    /\ holder' = FreeKeysOf({r})
    /\ UNCHANGED <<pc, args, out, biz, rec, reply, purged>>

\* The process dies: every open transaction of its requests rolls back
RunsOn(r, i) == pc[r] # "idle" /\ args[r].inst = i

Crash(i) ==
    /\ \E r \in Requests : RunsOn(r, i) /\ (pc[r] \notin {"done", "dead"} \/ biz[r] = "open")
    /\ pc'  = [r \in Requests |-> IF RunsOn(r, i) /\ pc[r] # "done" THEN "dead" ELSE pc[r]]
    /\ biz' = [r \in Requests |-> IF RunsOn(r, i) /\ biz[r] = "open" THEN "rolledback"
                                                                   ELSE biz[r]]
    /\ holder' = FreeKeysOf({r \in Requests : RunsOn(r, i)})
    /\ UNCHANGED <<args, out, lost, rec, reply, purged>>

\* COMPLETED_TTL_HOURS (or PENDING_TTL_SECONDS) go by for the committed row of k
Expire(k) ==
    /\ rec[k] # None
    /\ ~rec[k].expired
    /\ rec' = [rec EXCEPT ![k].expired = TRUE]
    /\ UNCHANGED <<pc, args, out, biz, lost, holder, reply, purged>>

ExpiredKeys == {k \in Keys : rec[k] # None /\ rec[k].expired}

CleanupExpired ==
    /\ ExpiredKeys # {}
    /\ rec'    = [k \in Keys |-> IF k \in ExpiredKeys THEN None ELSE rec[k]]
    /\ purged' = purged \cup {rec[k].by : k \in ExpiredKeys}
    /\ UNCHANGED <<pc, args, out, biz, lost, holder, reply>>

-----------------------------------------------------------------------------

\* What the server does for a request once it has arrived
Serve(r) ==
    \/ TryAcquire(r)
    \/ AnswerConflict(r)
    \/ RouterSucceeds(r)
    \/ \E code \in {"rejected", "error"} : RouterRefuses(r, code)
    \/ RouterRaises(r)
    \/ MarkCompleted(r)
    \/ CommitRecord(r)
    \/ StoreFails(r)
    \/ ReleaseOnError(r)
    \/ Unwind(r)

Teardown(r) == TeardownCommits(r) \/ TeardownRaises(r)

Next ==
    \/ \E r \in Requests :
          \/ \E k \in Keys, c \in Calls, b \in Bodies, i \in Instances : Arrive(r, k, c, b, i)
          \/ Serve(r)
          \/ Teardown(r)
          \/ LoseConnection(r)
    \/ \E i \in Instances : Crash(i)
    \/ \E k \in Keys : Expire(k)
    \/ CleanupExpired

Spec == Init /\ [][Next]_vars

(* The event loop runs every ready coroutine, and the router and the        *)
(* teardown of its session terminate; faults, crashes and time are not fair *)
Fairness == \A r \in Requests : WF_vars(Serve(r)) /\ WF_vars(Teardown(r))

FairSpec == Spec /\ Fairness

-----------------------------------------------------------------------------
(* Properties *)

InRouter(r) == pc[r] \in {"router", "respond", "marked"}

\* Two executions of the same key never overlap: while one request is between
\* the insert of its record and the end of its transaction, no other request
\* with the key is (the promise of "ON CONFLICT DO NOTHING is an atomic lock"),
\* unless the database dropped the connection that held the first one's record.
OneExecutionPerKey ==
    \A r1, r2 \in Requests :
        (r1 # r2 /\ InRouter(r1) /\ InRouter(r2) /\ Key(r1) = Key(r2))
            => (r1 \in lost \/ r2 \in lost)

\* r's response is the committed row of its key, or was until its TTL ran out
Kept(r) == r \in purged \/ (rec[Key(r)] # None /\ rec[Key(r)].by = r)

\* The execution failed after its router answered: it crashed, lost the
\* middleware's connection, or its client was told 500
Failed(r) == pc[r] \in {"dead", "unwind"} \/ r \in lost \/ reply[r].code = "error"

\* At most one committed effect per key, outside the windows the code admits: if
\* the business transactions of two attempts with one key both committed, one of
\* them failed without leaving its record, or its record's TTL has run out.
OneEffectPerKey ==
    \A r1, r2 \in Requests :
        (r1 # r2 /\ biz[r1] = "committed" /\ biz[r2] = "committed" /\ Key(r1) = Key(r2))
            => \E r \in {r1, r2} : (Failed(r) /\ ~Kept(r)) \/ r \in purged

\* A client that gets a stored response gets the one of an execution with its
\* own key, path and body, as the router gave it: keys never leak an answer
\* to another call.
ReplayMatchesRequest ==
    \A r \in Requests :
        LET e == reply[r].by IN
        e # None => /\ args[e].key = args[r].key
                    /\ args[e].call = args[r].call
                    /\ args[e].body = args[r].body
                    /\ reply[r].code = out[e]
                    /\ out[e] \in {"ok", "rejected"}

\* No transaction ever sees a PENDING record: it is inserted and completed or
\* deleted inside one transaction, so cleanup_expired can never take the record
\* of a request that is still running, however long the router runs.
NoPendingRowVisible == \A k \in Keys : rec[k] # None => rec[k].status = "COMPLETED"

\* A request that is refused with ID003 met neither a running execution of its
\* key nor a committed record: the code only gives this answer to a
\* request whose conflicting row was cleaned up between its insert and its read.
InProgressOnlyAfterCleanup ==
    [][\A r \in Requests : (reply'[r].code = "ID003" /\ reply[r].code = "none")
            => (rec[Key(r)] = None /\ \E e \in purged : Key(e) = Key(r))]_vars

\* A success the client has been told of, at first hand or replayed, is durable.
OkReplyIsDurable ==
    \A r \in Requests : reply[r].code = "ok" => biz[reply[r].by] = "committed"

\* Every request is answered, unless its process dies: requests that wait for a
\* key's index entry are let in or answered when the holder's transaction ends.
EveryRequestAnswered ==
    \A r \in Requests : pc[r] = "acquire" ~> pc[r] \in {"done", "dead"}

-----------------------------------------------------------------------------
(* The inductive invariant behind the safety properties *)

Ended(r) == pc[r] \in {"unwind", "done", "dead"}

\* The request in a key's index entry is in its transaction and asked for the key
HolderIsRunning ==
    \A k \in Keys : holder[k] # None =>
        InMiddlewareTx(holder[k]) /\ Key(holder[k]) = k /\ holder[k] \notin lost

\* An execution that has not ended owns the index entry of its key
RunningHolds == \A r \in Requests : InRouter(r) /\ r \notin lost => holder[Key(r)] = r

\* A key is not held while a committed row exists for it
HeldKeyHasNoRow == \A k \in Keys : holder[k] # None => rec[k] = None

\* A committed row describes the call and the answer of an execution of its key
RowDescribesExecution ==
    \A k \in Keys : rec[k] # None =>
        LET e == rec[k].by IN
        /\ rec[k].status = "COMPLETED"
        /\ args[e].key = k
        /\ args[e].call = rec[k].call
        /\ args[e].body = rec[k].body
        /\ out[e] \in {"ok", "rejected"}
        /\ Ended(e)

\* A stored answer was given once, by an execution of the same call that is over
AnswerDescribesExecution ==
    \A r \in Requests : reply[r].by # None =>
        pc[r] = "done" /\ Ended(reply[r].by)

\* A request whose own execution was answered below 500 left its record
AnsweredIsKept ==
    \A r \in Requests :
        (pc[r] = "done" /\ biz[r] # "none" /\ reply[r].code # "error") => Kept(r)

\* Only an answer below 500 is marked completed
AnswerIsKnown ==
    \A r \in Requests : /\ pc[r] = "respond" => out[r] # "none"
                        /\ pc[r] = "marked" => out[r] \in {"ok", "rejected"}

\* Neither transaction of a request is there to commit or to lose before it acquired
NothingBeforeAcquire ==
    \A r \in Requests :
        /\ biz[r] = "committed" => pc[r] # "router"
        /\ biz[r] # "none" => pc[r] \notin {"idle", "acquire", "conflict"}
        /\ r \in lost => pc[r] \notin {"idle", "acquire"}

IInv ==
    /\ TypeOK
    /\ HolderIsRunning
    /\ RunningHolds
    /\ HeldKeyHasNoRow
    /\ RowDescribesExecution
    /\ AnswerDescribesExecution
    /\ ReplayMatchesRequest
    /\ AnsweredIsKept
    /\ AnswerIsKnown
    /\ NothingBeforeAcquire
=============================================================================
