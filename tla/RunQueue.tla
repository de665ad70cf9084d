------------------------------ MODULE RunQueue ------------------------------
(***************************************************************************)
(* The durable run store: the tables run_control, run_queue,               *)
(* run_submissions and approval_requests, and every transaction            *)
(* pkg/storage/run_control.go and pkg/storage/approval.go run on them.     *)
(*                                                                         *)
(* Callers appear only as the tokens they hold.  A token is what one       *)
(* execution of a run remembers: the claim (worker, generation, attempt)   *)
(* ClaimRun returned, or generation 0 for a synchronous run.  A token can  *)
(* outlive the claim it names; the store's guards are what a stale holder  *)
(* meets.  WorkerRun.tla restricts the holders to what the server does.    *)
(*                                                                         *)
(* Clocks are abstracted to what the statements compare with "now":        *)
(* live[r], ready[r] and due[c] say on which side of it lease_expires_at   *)
(* (updated_at for a synchronous run), available_at and expires_at lie.    *)
(***************************************************************************)
EXTENDS Naturals, FiniteSets

CONSTANTS
    Runs,           \* run ids
    SessionOf,      \* SessionOf[r]: run_control.session_id of r
    Workers,        \* worker ids
    Calls,          \* tool calls that need an approval (approval_requests rows)
    RunOfCall,      \* RunOfCall[c]: approval_requests.run_id of c
    Keys,           \* client idempotency keys
    Outcomes,       \* terminal statuses an execution reports
    NoWorker,       \* worker_id = ''
    NoRun, NoCall, NoKey,
    MaxAttempts,    \* run_queue.max_attempts
    MaxInFlight,    \* storage.MaxInFlightRuns
    MaxSubmissions, \* storage.MaxRunSubmissions
    MaxPending,     \* storage.MaxPendingApprovals
    SerialWriters   \* TRUE: SQLite, write transactions are serialised;
                    \* FALSE: PostgreSQL at its default READ COMMITTED

ASSUME ConstantsAssumption ==
    /\ MaxAttempts \in Nat \ {0}
    /\ MaxInFlight \in Nat
    /\ IsFiniteSet(Runs)
    /\ IsFiniteSet(Calls)
    /\ RunOfCall \in [Calls -> Runs]
    /\ Outcomes \subseteq {"completed", "limited", "failed", "cancelled"}
    /\ NoWorker \notin Workers
    /\ NoRun \notin Runs
    /\ NoCall \notin Calls
    /\ NoKey \notin Keys
    /\ SerialWriters \in BOOLEAN

VARIABLES
    status,          \* run_control.status; "none" when there is no record
    cancelRequested, \* run_control.cancel_requested
    row,             \* is there a run_queue row
    worker,          \* run_queue.worker_id
    live,            \* lease_expires_at > now; heartbeat fresh when row is absent
    attempt,         \* run_queue.attempt
    generation,      \* run_queue.generation
    ready,           \* run_queue.available_at <= now
    approval,        \* approval_requests.status; "none" when there is no row
    expiresAt,       \* approval_requests.expires_at, as a rank
    due,             \* approval_requests.expires_at <= now
    submission,      \* run_submissions: key -> run id
    admitted,        \* open transactions that passed the capacity count
    selected,        \* candidate an open ClaimRun transaction has read
    held             \* the tokens of executions still in progress

control == <<status, cancelRequested>>
queue == <<row, worker, live, attempt, generation, ready>>
approvals == <<approval, expiresAt, due>>
submissions == <<submission, admitted>>
vars == <<control, queue, approvals, submissions, selected, held>>

Terminal == {"completed", "limited", "failed", "cancelled"}
Unfinished == {"queued", "running", "waiting_approval"}
Decisions == {"approved", "denied", "expired"}

\* One execution's memory of the run it works on.
Token == [run : Runs, worker : Workers \cup {NoWorker}, gen : Nat,
          attempt : Nat, asked : Calls \cup {NoCall}]

Transaction == [run : Runs, kind : {"sync", "async"}, key : Keys \cup {NoKey}]

\* Every column holds a value of its type: the statuses are those the code
\* writes, a claim names a worker, a token a run.
TypeOK ==
    /\ status \in [Runs -> {"none"} \cup Unfinished \cup Terminal]
    /\ cancelRequested \in [Runs -> BOOLEAN]
    /\ row \in [Runs -> BOOLEAN]
    /\ worker \in [Runs -> Workers \cup {NoWorker}]
    /\ live \in [Runs -> BOOLEAN]
    /\ attempt \in [Runs -> Nat]
    /\ generation \in [Runs -> Nat]
    /\ ready \in [Runs -> BOOLEAN]
    /\ approval \in [Calls -> {"none", "pending"} \cup Decisions]
    /\ expiresAt \in [Calls -> Nat]
    /\ due \in [Calls -> BOOLEAN]
    /\ submission \in [Keys -> Runs \cup {NoRun}]
    /\ admitted \subseteq Transaction
    /\ selected \in [Workers -> Runs \cup {NoRun}]
    /\ held \subseteq Token

Init ==
    /\ status = [r \in Runs |-> "none"]
    /\ cancelRequested = [r \in Runs |-> FALSE]
    /\ row = [r \in Runs |-> FALSE]
    /\ worker = [r \in Runs |-> NoWorker]
    /\ live = [r \in Runs |-> FALSE]
    /\ attempt = [r \in Runs |-> 0]
    /\ generation = [r \in Runs |-> 0]
    /\ ready = [r \in Runs |-> FALSE]
    /\ approval = [c \in Calls |-> "none"]
    /\ expiresAt = [c \in Calls |-> 0]
    /\ due = [c \in Calls |-> FALSE]
    /\ submission = [k \in Keys |-> NoRun]
    /\ admitted = {}
    /\ selected = [w \in Workers |-> NoRun]
    /\ held = {}

-----------------------------------------------------------------------------
(* Admission: CreateRun, EnqueueRun, EnqueueRunOnce.                       *)

InFlight == {r \in Runs : status[r] \in Unfinished}

\* Mutant: the cap is off by one.
HasCapacityOffByOne == Cardinality(InFlight) <= MaxInFlight

\* ensureInFlightCapacity.
HasCapacity == Cardinality(InFlight) < MaxInFlight

SubmissionsFull == Cardinality({k \in Keys : submission[k] # NoRun}) >= MaxSubmissions

\* Mutant: the index of schema version 9, before approvals existed.
RunningOnlyIndex == {"running"}

\* The statuses covered by the partial unique index run_control_one_active.
IndexedStatuses == {"running", "waiting_approval"}

IndexFree(r) ==
    \A q \in Runs \ {r} :
        SessionOf[q] = SessionOf[r] => status[q] \notin IndexedStatuses

\* The columns of a deleted row are dead; the model keeps attempt and
\* generation as they were.
DeleteRow(r) ==
    /\ row' = [row EXCEPT ![r] = FALSE]
    /\ worker' = [worker EXCEPT ![r] = NoWorker]
    /\ live' = [live EXCEPT ![r] = FALSE]
    /\ ready' = [ready EXCEPT ![r] = FALSE]
    /\ UNCHANGED <<attempt, generation>>

\* Mutant: a repeat does not wait for the open transaction that has its key.
BeginSubmitNoWait(x) ==
    /\ status[x.run] = "none"
    /\ \A t \in admitted : t.run # x.run
    /\ x.kind = "sync" => x.key = NoKey
    /\ x.key # NoKey => ~SubmissionsFull /\ submission[x.key] = NoRun
    /\ SerialWriters => admitted = {}
    /\ HasCapacity
    /\ admitted' = admitted \cup {x}
    /\ UNCHANGED <<control, queue, approvals, submission, selected, held>>

\* CreateRun, EnqueueRun and EnqueueRunOnce up to and including the capacity
\* count.  Run ids are generated by the caller and fresh.  An EnqueueRunOnce
\* whose key is bound replays the bound run and changes nothing; one whose key
\* is being inserted by an open transaction waits for it.
BeginSubmit(x) ==
    /\ status[x.run] = "none"
    /\ \A t \in admitted : t.run # x.run
    /\ x.kind = "sync" => x.key = NoKey
    /\ x.key # NoKey =>
          /\ ~SubmissionsFull
          /\ submission[x.key] = NoRun
          /\ \A t \in admitted : t.key # x.key
    /\ SerialWriters => admitted = {}
    /\ HasCapacity
    /\ admitted' = admitted \cup {x}
    /\ UNCHANGED <<control, queue, approvals, submission, selected, held>>

\* CreateRun: insert the running record of a synchronous run.
CreateRun(x) ==
    /\ x.kind = "sync"
    /\ IndexFree(x.run)
    /\ status' = [status EXCEPT ![x.run] = "running"]
    /\ live' = [live EXCEPT ![x.run] = TRUE]
    /\ held' = held \cup {[run |-> x.run, worker |-> NoWorker, gen |-> 0,
                           attempt |-> 0, asked |-> NoCall]}
    /\ admitted' = admitted \ {x}
    /\ UNCHANGED <<cancelRequested, row, worker, attempt, generation, ready,
                   approvals, submission, selected>>

\* EnqueueRun / EnqueueRunOnce: insert control record, queue row and, with a
\* key, the submission.
EnqueueRun(x) ==
    /\ x.kind = "async"
    /\ status' = [status EXCEPT ![x.run] = "queued"]
    /\ row' = [row EXCEPT ![x.run] = TRUE]
    /\ ready' = [ready EXCEPT ![x.run] = TRUE]
    /\ submission' = IF x.key = NoKey THEN submission
                     ELSE [submission EXCEPT ![x.key] = x.run]
    /\ admitted' = admitted \ {x}
    /\ UNCHANGED <<cancelRequested, worker, live, attempt, generation,
                   approvals, selected, held>>

\* Rolled back: the unique index refused the insert, or the request went away.
RollbackSubmit(x) ==
    /\ admitted' = admitted \ {x}
    /\ UNCHANGED <<control, queue, approvals, submission, selected, held>>

\* Mutant: retention that looks only at the age of a submission.
PruneAnySubmission(k) ==
    /\ submission[k] # NoRun
    /\ submission' = [submission EXCEPT ![k] = NoRun]
    /\ UNCHANGED <<control, queue, approvals, admitted, selected, held>>

\* Retention: a key is forgotten only after its run is terminal.
PruneRunSubmissions(k) ==
    /\ submission[k] # NoRun
    /\ status[submission[k]] \notin Unfinished
    /\ submission' = [submission EXCEPT ![k] = NoRun]
    /\ UNCHANGED <<control, queue, approvals, admitted, selected, held>>

-----------------------------------------------------------------------------
(* Claims.                                                                 *)

\* sqlClaimCandidate, the read of a ClaimRun transaction.
ClaimCandidate(w, r) ==
    /\ selected[w] = NoRun
    /\ status[r] = "queued"
    /\ ~cancelRequested[r]
    /\ ready[r]
    /\ \A q \in Runs : SessionOf[q] = SessionOf[r] =>
            status[q] \notin {"running", "waiting_approval"}
    /\ selected' = [selected EXCEPT ![w] = r]
    /\ UNCHANGED <<control, queue, approvals, submissions, held>>

\* sqlClaimRunControl affects a row and the unique index admits it.
Claimable(r) ==
    /\ status[r] = "queued"
    /\ ~cancelRequested[r]
    /\ IndexFree(r)

\* The writes of a ClaimRun transaction and the token it returns.
ClaimRun(w) ==
    /\ selected[w] # NoRun
    /\ LET r == selected[w] IN
        /\ Claimable(r)
        /\ status' = [status EXCEPT ![r] = "running"]
        /\ worker' = [worker EXCEPT ![r] = w]
        /\ live' = [live EXCEPT ![r] = TRUE]
        /\ attempt' = [attempt EXCEPT ![r] = @ + 1]
        /\ generation' = [generation EXCEPT ![r] = @ + 1]
        /\ held' = held \cup {[run |-> r, worker |-> w, gen |-> generation[r] + 1,
                               attempt |-> attempt[r] + 1, asked |-> NoCall]}
    /\ selected' = [selected EXCEPT ![w] = NoRun]
    /\ UNCHANGED <<cancelRequested, row, ready, approvals, submissions>>

\* The candidate was taken, cancelled or is shut out by the index: try again.
ClaimMissed(w) ==
    /\ selected[w] # NoRun
    /\ ~Claimable(selected[w])
    /\ selected' = [selected EXCEPT ![w] = NoRun]
    /\ UNCHANGED <<control, queue, approvals, submissions, held>>

\* Mutant: ownership by worker id alone.
OwnsClaimAnyGeneration(t) ==
    /\ t.gen >= 1
    /\ status[t.run] = "running"
    /\ row[t.run]
    /\ worker[t.run] = t.worker
    /\ live[t.run]

\* The WHERE clause shared by every mutation of a live claim.
OwnsClaim(t) ==
    /\ t.gen >= 1
    /\ status[t.run] = "running"
    /\ row[t.run]
    /\ worker[t.run] = t.worker
    /\ generation[t.run] = t.gen
    /\ live[t.run]

\* A renewal moves a deadline that is still ahead further ahead.
RenewRunClaim(t) ==
    /\ OwnsClaim(t)
    /\ live' = [live EXCEPT ![t.run] = TRUE]
    /\ UNCHANGED <<control, row, worker, attempt, generation, ready,
                   approvals, submissions, selected, held>>

\* Called by settleQueuedPreparationFailure while attempts are left.
RetryRunClaim(t) ==
    /\ t.attempt < MaxAttempts
    /\ OwnsClaim(t)
    /\ status' = [status EXCEPT ![t.run] = "queued"]
    /\ worker' = [worker EXCEPT ![t.run] = NoWorker]
    /\ live' = [live EXCEPT ![t.run] = FALSE]
    /\ ready' = [ready EXCEPT ![t.run] = FALSE]
    /\ held' = held \ {t}
    /\ UNCHANGED <<cancelRequested, row, attempt, generation,
                   approvals, submissions, selected>>

\* A pause gives the attempt back.
PauseRunClaim(t) ==
    /\ t.asked # NoCall
    /\ OwnsClaim(t)
    /\ status' = [status EXCEPT ![t.run] = "waiting_approval"]
    /\ worker' = [worker EXCEPT ![t.run] = NoWorker]
    /\ live' = [live EXCEPT ![t.run] = FALSE]
    /\ attempt' = [attempt EXCEPT ![t.run] = IF @ > 0 THEN @ - 1 ELSE 0]
    /\ held' = held \ {t}
    /\ UNCHANGED <<cancelRequested, row, generation, ready,
                   approvals, submissions, selected>>

\* A synchronous run becomes a durable continuation.
PauseRun(t) ==
    /\ t.gen = 0
    /\ t.asked # NoCall
    /\ status[t.run] = "running"
    /\ ~row[t.run]
    /\ status' = [status EXCEPT ![t.run] = "waiting_approval"]
    /\ row' = [row EXCEPT ![t.run] = TRUE]
    /\ live' = [live EXCEPT ![t.run] = FALSE]
    /\ attempt' = [attempt EXCEPT ![t.run] = 0]
    /\ generation' = [generation EXCEPT ![t.run] = 0]
    /\ ready' = [ready EXCEPT ![t.run] = TRUE]
    /\ held' = held \ {t}
    /\ UNCHANGED <<cancelRequested, worker, approvals, submissions, selected>>

FinishRunClaim(t, s) ==
    /\ OwnsClaim(t)
    /\ status' = [status EXCEPT ![t.run] = s]
    /\ DeleteRow(t.run)
    /\ held' = held \ {t}
    /\ UNCHANGED <<cancelRequested, approvals, submissions, selected>>

\* Mutant: FinishRun without its status = 'running' condition.
FinishRunAnyStatus(t, s) ==
    /\ t.gen = 0
    /\ status' = [status EXCEPT ![t.run] = s]
    /\ DeleteRow(t.run)
    /\ held' = held \ {t}
    /\ UNCHANGED <<cancelRequested, approvals, submissions, selected>>

\* FinishRun, the end of a synchronous run.
FinishRun(t, s) ==
    /\ t.gen = 0
    /\ status[t.run] = "running"
    /\ status' = [status EXCEPT ![t.run] = s]
    /\ DeleteRow(t.run)
    /\ held' = held \ {t}
    /\ UNCHANGED <<cancelRequested, approvals, submissions, selected>>

HeartbeatRun(t) ==
    /\ t.gen = 0
    /\ status[t.run] = "running"
    /\ live' = [live EXCEPT ![t.run] = TRUE]
    /\ UNCHANGED <<control, row, worker, attempt, generation, ready,
                   approvals, submissions, selected, held>>

\* The execution ends without a word: crash, shutdown, or a lost claim.
Drop(t) ==
    /\ held' = held \ {t}
    /\ UNCHANGED <<control, queue, approvals, submissions, selected>>

-----------------------------------------------------------------------------
(* Recovery.                                                               *)

\* Mutant: claims without an attempt left are not scanned.
ExpiredRetryableClaims ==
    {r \in Runs : status[r] = "running" /\ worker[r] # NoWorker /\ ~live[r]
                    /\ attempt[r] < MaxAttempts}

\* sqlExpiredRunClaims.
ExpiredClaims ==
    {r \in Runs : status[r] = "running" /\ worker[r] # NoWorker /\ ~live[r]}

\* Mutant: recovery that never gives up.
RecoveredUnbounded(r) ==
    IF cancelRequested[r] THEN "cancelled" ELSE "queued"

\* Mutant: the error code bound to the status column.
RecoveredSwapsColumns(r) ==
    IF cancelRequested[r] THEN "cancelled" ELSE "worker_lost_retry"

\* What RecoverExpiredRunClaims makes of one expired claim.
Recovered(r) ==
    CASE cancelRequested[r] -> "cancelled"
      [] ~cancelRequested[r] /\ attempt[r] < MaxAttempts -> "queued"
      [] OTHER -> "failed"

\* One transaction over the expired claims it could lock (SKIP LOCKED).
RecoverExpiredRunClaims(E) ==
    /\ E # {}
    /\ E \subseteq ExpiredClaims
    /\ status' = [r \in Runs |-> IF r \in E THEN Recovered(r) ELSE status[r]]
    /\ row' = [r \in Runs |-> row[r] /\ (r \in E => Recovered(r) = "queued")]
    /\ worker' = [r \in Runs |-> IF r \in E THEN NoWorker ELSE worker[r]]
    /\ ready' = [r \in Runs |-> IF r \in E THEN Recovered(r) = "queued" ELSE ready[r]]
    /\ UNCHANGED <<cancelRequested, live, attempt, generation,
                   approvals, submissions, selected, held>>

StaleRuns == {r \in Runs : status[r] = "running" /\ ~row[r] /\ ~live[r]}

\* Synchronous runs whose heartbeat stopped, at server start.
FailStaleRuns ==
    /\ StaleRuns # {}
    /\ status' = [r \in Runs |-> IF r \in StaleRuns THEN "failed" ELSE status[r]]
    /\ UNCHANGED <<cancelRequested, queue, approvals, submissions, selected, held>>

-----------------------------------------------------------------------------
(* Approvals and cancellation.                                             *)

PendingCalls == {c \in Calls : approval[c] = "pending"}

\* RequestApproval answers "pending": a new row, or the one already there.
\* The insert is not fenced, so the token may be stale.  Every other answer
\* leaves the store alone and the execution goes on.
RequestApproval(t, c) ==
    /\ RunOfCall[c] = t.run
    /\ t.asked = NoCall
    /\ \/ /\ approval[c] = "none"
          /\ Cardinality(PendingCalls) < MaxPending
          /\ approval' = [approval EXCEPT ![c] = "pending"]
          /\ expiresAt' = [expiresAt EXCEPT ![c] =
                              1 + Cardinality({d \in Calls : approval[d] # "none"})]
       \/ /\ approval[c] = "pending"
          /\ UNCHANGED <<approval, expiresAt>>
    /\ held' = (held \ {t}) \cup {[t EXCEPT !.asked = c]}
    /\ UNCHANGED <<control, queue, due, submissions, selected>>

\* Mutant: a decision requeues the run whatever its status.
ResumableAnyStatus(r) == ~cancelRequested[r] /\ row[r]

\* sqlResumeApprovedRun and sqlWakeRunQueue both affect a row.
Resumable(r) == status[r] = "waiting_approval" /\ ~cancelRequested[r] /\ row[r]

\* decideAndResume when it commits; otherwise it rolls back with an error.
DecideAndResume(c, decision) ==
    LET r == RunOfCall[c] IN
    /\ approval[c] = "pending"
    /\ Resumable(r)
    /\ approval' = [approval EXCEPT ![c] = decision]
    /\ status' = [status EXCEPT ![r] = "queued"]
    /\ ready' = [ready EXCEPT ![r] = TRUE]
    /\ worker' = [worker EXCEPT ![r] = NoWorker]
    /\ live' = [live EXCEPT ![r] = FALSE]
    /\ UNCHANGED <<cancelRequested, row, attempt, generation, expiresAt, due,
                   submissions, selected, held>>

DecideApproval(c) == \E d \in {"approved", "denied"} : DecideAndResume(c, d)

\* One iteration of ExpireApprovals.  The pass walks the due requests in
\* expires_at order and returns at the first error, so only the head of that
\* order can be expired.
ExpireApproval(c) ==
    /\ due[c]
    /\ \A d \in PendingCalls : due[d] => expiresAt[c] <= expiresAt[d]
    /\ DecideAndResume(c, "expired")

\* RequestRunCancel of a running run only raises the flag.
CancelRunning(r) ==
    /\ status[r] = "running"
    /\ cancelRequested' = [cancelRequested EXCEPT ![r] = TRUE]
    /\ UNCHANGED <<status, queue, approvals, submissions, selected, held>>

\* Mutant: the queue row outlives the cancelled run.
CancelIdleKeepsRow(r) ==
    /\ status[r] \in {"queued", "waiting_approval"}
    /\ status' = [status EXCEPT ![r] = "cancelled"]
    /\ cancelRequested' = [cancelRequested EXCEPT ![r] = TRUE]
    /\ UNCHANGED <<queue, approvals, submissions, selected, held>>

\* RequestRunCancel of a queued or waiting run ends it.
CancelIdle(r) ==
    /\ status[r] \in {"queued", "waiting_approval"}
    /\ status' = [status EXCEPT ![r] = "cancelled"]
    /\ cancelRequested' = [cancelRequested EXCEPT ![r] = TRUE]
    /\ approval' = [c \in Calls |->
                       IF RunOfCall[c] = r /\ approval[c] = "pending"
                       THEN "denied" ELSE approval[c]]
    /\ DeleteRow(r)
    /\ UNCHANGED <<expiresAt, due, submissions, selected, held>>

\* Mutant: approvals are withdrawn before the cancellation is accepted.
CancelAnyApproval(c) ==
    /\ approval[c] = "pending"
    /\ approval' = [approval EXCEPT ![c] = "denied"]
    /\ UNCHANGED <<control, queue, expiresAt, due, submissions, selected, held>>

\* CancelRunApprovals, one row at a time, called by the cancel handler after
\* RequestRunCancel accepted.
CancelRunApproval(c) ==
    /\ cancelRequested[RunOfCall[c]]
    /\ approval[c] = "pending"
    /\ approval' = [approval EXCEPT ![c] = "denied"]
    /\ UNCHANGED <<control, queue, expiresAt, due, submissions, selected, held>>

-----------------------------------------------------------------------------
(* The passage of time.                                                    *)

LeaseExpires(r) ==
    /\ status[r] = "running"
    /\ live[r]
    /\ live' = [live EXCEPT ![r] = FALSE]
    /\ UNCHANGED <<control, row, worker, attempt, generation, ready,
                   approvals, submissions, selected, held>>

BecomesAvailable(r) ==
    /\ row[r]
    /\ ~ready[r]
    /\ ready' = [ready EXCEPT ![r] = TRUE]
    /\ UNCHANGED <<control, row, worker, live, attempt, generation,
                   approvals, submissions, selected, held>>

ApprovalFallsDue(c) ==
    /\ approval[c] = "pending"
    /\ ~due[c]
    /\ \A d \in PendingCalls : expiresAt[d] < expiresAt[c] => due[d]
    /\ due' = [due EXCEPT ![c] = TRUE]
    /\ UNCHANGED <<control, queue, approval, expiresAt, submissions, selected, held>>

-----------------------------------------------------------------------------
Submission ==
    \/ \E x \in Transaction : BeginSubmit(x)
    \/ \E x \in admitted : CreateRun(x)
    \/ \E x \in admitted : EnqueueRun(x)
    \/ \E x \in admitted : RollbackSubmit(x)
    \/ \E k \in Keys : PruneRunSubmissions(k)

Claim ==
    \/ \E w \in Workers, r \in Runs : ClaimCandidate(w, r)
    \/ \E w \in Workers : ClaimRun(w)
    \/ \E w \in Workers : ClaimMissed(w)

Execution ==
    \/ \E t \in held : RenewRunClaim(t)
    \/ \E t \in held : RetryRunClaim(t)
    \/ \E t \in held : PauseRunClaim(t)
    \/ \E t \in held : PauseRun(t)
    \/ \E t \in held, s \in Outcomes : FinishRunClaim(t, s)
    \/ \E t \in held, s \in Outcomes : FinishRun(t, s)
    \/ \E t \in held : HeartbeatRun(t)
    \/ \E t \in held, c \in Calls : RequestApproval(t, c)
    \/ \E t \in held : Drop(t)

Recovery ==
    \/ \E E \in SUBSET Runs : RecoverExpiredRunClaims(E)
    \/ FailStaleRuns

Operator ==
    \/ \E c \in Calls : DecideApproval(c)
    \/ \E c \in Calls : ExpireApproval(c)
    \/ \E r \in Runs : CancelRunning(r)
    \/ \E r \in Runs : CancelIdle(r)
    \/ \E c \in Calls : CancelRunApproval(c)

Time ==
    \/ \E r \in Runs : LeaseExpires(r)
    \/ \E r \in Runs : BecomesAvailable(r)
    \/ \E c \in Calls : ApprovalFallsDue(c)

Next == Submission \/ Claim \/ Execution \/ Recovery \/ Operator \/ Time

Spec == Init /\ [][Next]_vars

-----------------------------------------------------------------------------
(* Safety.                                                                 *)

\* A session never has two runs that are running or waiting for an approval,
\* whichever of CreateRun, ClaimRun, the pauses and recovery meet (the promise
\* of the index run_control_one_active, sql_schema.go).
OneActiveRunPerSession ==
    \A q, r \in Runs :
        /\ SessionOf[q] = SessionOf[r]
        /\ status[q] \in {"running", "waiting_approval"}
        /\ status[r] \in {"running", "waiting_approval"}
        => q = r

\* The two tables agree after every transaction: a queued or waiting run has
\* its queue row, a finished one has none, and a worker owns a row exactly
\* while its run is running out of the queue.
QueueMatchesControl ==
    \A r \in Runs :
        /\ status[r] \in {"queued", "waiting_approval"} => row[r]
        /\ status[r] \in Terminal \cup {"none"} => ~row[r]
        /\ worker[r] # NoWorker <=> status[r] = "running" /\ row[r]

\* No run is executed more than max_attempts times without an intervening
\* pause: retries, lease recovery and resumption leave a queued run with an
\* attempt to spend (ClaimRun itself does not look).
AttemptsBounded ==
    \A r \in Runs :
        /\ attempt[r] <= MaxAttempts
        /\ status[r] = "queued" => attempt[r] < MaxAttempts

\* The generation is a fencing token: of all executions of a run still in
\* progress, stale ones included, at most one passes the store's ownership
\* check, even when workers share an id.
OneOwnerPerRun ==
    \A t, u \in held : t.run = u.run /\ OwnsClaim(t) /\ OwnsClaim(u) => t = u

\* A run that waits for an approval has a request somebody can still decide,
\* unless its cancellation was requested: no pause is committed on the strength
\* of an answer that was given to an earlier execution.
WaitingRunIsDecidable ==
    \A r \in Runs :
        status[r] = "waiting_approval" /\ ~cancelRequested[r] =>
            \E c \in Calls : RunOfCall[c] = r /\ approval[c] = "pending"

\* What the executions in progress remember agrees with the store as far as the
\* guards rely on it.  A generation is never handed out twice; a holder of the
\* current one knows the attempt it consumes; and while its run goes on
\* uncancelled, the request it was told is pending is still pending.
TokensConsistent ==
    /\ \A t \in held :
        /\ status[t.run] # "none"
        /\ t.gen <= generation[t.run]
        /\ t.asked # NoCall => RunOfCall[t.asked] = t.run
        /\ status[t.run] = "running" /\ t.gen = generation[t.run] =>
            /\ t.gen >= 1 => t.attempt = attempt[t.run]
            /\ t.asked # NoCall /\ ~cancelRequested[t.run] => approval[t.asked] = "pending"
    /\ \A t, u \in held : t.run = u.run /\ t.gen = u.gen => t = u

\* An idempotency key stays bound to the run it created for as long as that
\* run is unfinished, so neither a repeated submission that meets the first one
\* in flight nor one that follows retention starts a second run of the key
\* (EnqueueRunOnce, PruneRunSubmissions).
KeyKeepsUnfinishedRun ==
    [][\A k \in Keys :
          submission[k] # NoRun /\ status[submission[k]] \in Unfinished
            => submission'[k] = submission[k]]_vars

\* The number of queued, running and waiting runs never exceeds the cap.
InFlightCapped == Cardinality(InFlight) <= MaxInFlight

TerminalKept ==
    \A r \in Runs : status[r] \in Terminal => status'[r] = status[r] /\ ~row'[r]

\* A terminal status is final and its queue row never comes back, whatever
\* stale executions, recovery, approvals and cancellations still do.
TerminalIsFinal == [][TerminalKept]_vars

DecisionKept ==
    \A c \in Calls :
        /\ approval[c] \in Decisions => approval'[c] = approval[c]
        /\ approval[c] = "pending" /\ approval'[c] # "pending" =>
              \/ status[RunOfCall[c]] = "waiting_approval"
              \/ cancelRequested'[RunOfCall[c]]

\* A decided request is never decided again, and a request is only ever decided
\* for a run that is waiting or whose cancellation was requested
\* (decideAndResume, CancelRunApprovals).
DecisionIsFinal == [][DecisionKept]_vars

-----------------------------------------------------------------------------
(* Liveness.  Fairness: the worker loops poll for ever and take the oldest  *)
(* candidate first, so a run that keeps being a candidate is selected; an   *)
(* execution ends (the agent loop has step, call and time limits) or its    *)
(* process does; a deadline nobody renews passes; the recovery and expiry   *)
(* loops tick.  FailStaleRuns is not fair: RecoverStaleRuns, its only       *)
(* caller, runs when a server starts, and no server has to.                 *)

Settle(t) ==
    \/ RetryRunClaim(t)
    \/ PauseRunClaim(t)
    \/ PauseRun(t)
    \/ \E s \in Outcomes : FinishRunClaim(t, s)
    \/ \E s \in Outcomes : FinishRun(t, s)
    \/ Drop(t)

LeaseAbandoned(r) == (\A t \in held : t.run # r) /\ LeaseExpires(r)

RecoverAll == RecoverExpiredRunClaims(ExpiredClaims)

\* One clause per loop or clock: it serves somebody while there is somebody to
\* serve.  Only the order of the claims is assumed to favour nobody.
Fairness ==
    /\ \A r \in Runs : SF_vars(\E w \in Workers : ClaimCandidate(w, r))
    /\ WF_vars(\E w \in Workers : ClaimRun(w) \/ ClaimMissed(w))
    /\ WF_vars(\E t \in held : Settle(t))
    /\ WF_vars(\E r \in Runs : LeaseAbandoned(r))
    /\ WF_vars(\E r \in Runs : BecomesAvailable(r))
    /\ WF_vars(RecoverAll)
    /\ WF_vars(\E c \in Calls : ApprovalFallsDue(c))
    /\ WF_vars(\E c \in Calls : ExpireApproval(c))

FairSpec == Spec /\ Fairness

\* Servers are also restarted for ever.  More than the code promises, so that a
\* counterexample owes nothing to a synchronous run nobody swept.
RestartingSpec == FairSpec /\ WF_vars(FailStaleRuns)

\* A synchronous run whose process died: only a starting server ends it.
Orphaned(q) ==
    status[q] = "running" /\ ~row[q] /\ ~live[q] /\ \A t \in held : t.run # q

\* A run that waits and is not resumed: it paused after its cancellation was
\* accepted, or every expiry pass ends at a due request that cannot be resumed.
Stranded(q) ==
    /\ status[q] = "waiting_approval"
    /\ \/ cancelRequested[q]
       \/ \E c \in PendingCalls : due[c] /\ ~Resumable(RunOfCall[c])

Obstructs(q, r) == q # r /\ SessionOf[q] = SessionOf[r] /\ (Orphaned(q) \/ Stranded(q))

\* Every queued run reaches a terminal status, waits for an approval or has its
\* cancellation requested, whatever crashes, lost leases, retries, pauses,
\* decisions and expiries come in between; the one way for it to stay in the
\* queue is another run of its Session that is orphaned or stranded for ever.
QueuedRunSettles ==
    \A r \in Runs :
        \/ \E q \in Runs : <>[]Obstructs(q, r)
        \/ status[r] = "queued" ~>
              \/ status[r] \in Terminal \cup {"waiting_approval"}
              \/ cancelRequested[r]

\* README.md: cancel one queued, running, or approval-waiting durable run.
CancelTakesEffect ==
    \A r \in Runs : cancelRequested[r] ~> status[r] \in Terminal

\* README.md: the same run is requeued when the request expires.
ExpiredRequestRequeues ==
    \A c \in Calls :
        (due[c] /\ approval[c] = "pending" /\ Resumable(RunOfCall[c]))
            ~> status[RunOfCall[c]] # "waiting_approval"

=============================================================================
