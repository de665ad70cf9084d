------------------------------ MODULE WorkerRun -----------------------------
(***************************************************************************)
(* Executions of runs over the durable store: the queued executor          *)
(* (server_run_worker.go), the synchronous one (handleRun in               *)
(* server_run.go) and the cancel handler, composed with the run store of   *)
(* RunQueue, the Session log, the Session leases and the tool journal.     *)
(*                                                                         *)
(* An execution is named by its run and claim generation; generation 0 is  *)
(* the synchronous request.  It works on a private view of the log: the    *)
(* durable prefix it loaded plus the events it appended and has not yet    *)
(* persisted.  Any number of executions may be alive; the processes they   *)
(* run in share nothing but the store, so the per-process Session mutex    *)
(* excludes nobody here.                                                   *)
(*                                                                         *)
(* A run makes at most one tool call, which is not idempotent and is       *)
(* identified with the run; it needs an approval when Calls has an entry   *)
(* for the run.                                                            *)
(***************************************************************************)
EXTENDS RunQueue, Sequences

CONSTANTS
    SyncRuns,    \* the runs submitted by POST /runs, the others by /runs/async
    Cancellable, \* the runs somebody may cancel
    NoHolder

Log == INSTANCE SessionEvents

VARIABLES
    log,      \* per Session: the durable event log
    lease,    \* per Session: the execution whose unexpired lease is in the table
    ex,       \* the executions in progress
    journal,  \* per run: state of its tool call in tool_invocations
    effects,  \* per run: how often the tool acted
    closer    \* per run: the cancel handler's work after GetRun

sessions == <<log, lease>>
tool == <<journal, effects>>
wvars == <<vars, sessions, ex, tool, closer>>

Sessions == {SessionOf[r] : r \in Runs}

RunOf(e) == e[1]
Gen(e) == e[2]
SessionOfEx(e) == SessionOf[RunOf(e)]
Id(t) == <<t.run, t.gen>>

\* The token of an execution; a synchronous one has none before CreateRun.
Tok(e) == CHOOSE t \in held : Id(t) = e

\* An event of the run's tool call or of the run itself.
Event(r, kind) == Log!Event(r, kind, <<r>>)

Events(r, kinds) == [i \in 1..Len(kinds) |-> Event(r, kinds[i])]

WInit ==
    /\ Init
    /\ log = [s \in Sessions |-> <<>>]
    /\ lease = [s \in Sessions |-> NoHolder]
    /\ ex = <<>>
    /\ journal = [r \in Runs |-> "none"]
    /\ effects = [r \in Runs |-> 0]
    /\ closer = [r \in Runs |-> [step |-> "off", waiting |-> FALSE, base |-> 0]]

-----------------------------------------------------------------------------
(* What an execution reads and how it writes.                              *)

RunStatus(events, r) == Log!RunStatus(events, r)

\* The Session as an execution sees it.
View(e) == SubSeq(log[SessionOfEx(e)], 1, ex[e].base) \o ex[e].buf

At(e, steps) == e \in DOMAIN ex /\ ex[e].step \in steps

Goto(e, step) == ex' = [ex EXCEPT ![e].step = step]

\* Append to the private Session, for the write-behind to persist.
Emit(e, kinds, step) ==
    ex' = [ex EXCEPT ![e].step = step,
                     ![e].buf = @ \o Events(RunOf(e), kinds)]

\* The agent loop is over: flush, then report this status.
Conclude(e, kinds, status_) ==
    ex' = [ex EXCEPT ![e].step = "flush", ![e].outcome = status_,
                     ![e].buf = @ \o Events(RunOf(e), kinds)]

\* Mutant: the fence no longer compares the Session version.
FenceIgnoresVersion(e) ==
    Gen(e) >= 1 =>
        /\ OwnsClaim(Tok(e))
        /\ ~cancelRequested[RunOf(e)]
        /\ lease[SessionOfEx(e)] = e

\* Mutant: the fence checks the version only.
FenceIgnoresClaim(e) == ex[e].base = Len(log[SessionOfEx(e)])

\* The condition of a non-empty append: the version compare-and-swap and, for a
\* queued execution, the durable fence.
Fence(e) ==
    /\ ex[e].base = Len(log[SessionOfEx(e)])
    /\ Gen(e) >= 1 =>
        /\ OwnsClaim(Tok(e))
        /\ ~cancelRequested[RunOf(e)]
        /\ lease[SessionOfEx(e)] = e

\* Mutant: every pending event is counted as durable.
PersistCountsAll(e, n, step) ==
    /\ n > 0 => Fence(e)
    /\ log' = [log EXCEPT ![SessionOfEx(e)] = @ \o SubSeq(ex[e].buf, 1, n)]
    /\ ex' = [ex EXCEPT ![e].base = @ + Len(ex[e].buf), ![e].step = step,
                        ![e].buf = SubSeq(@, n + 1, Len(@))]

\* WriteBehind.flushOnce succeeds: the first n pending events become durable.
Persist(e, n, step) ==
    /\ n > 0 => Fence(e)
    /\ log' = [log EXCEPT ![SessionOfEx(e)] = @ \o SubSeq(ex[e].buf, 1, n)]
    /\ ex' = [ex EXCEPT ![e].base = @ + n, ![e].step = step,
                        ![e].buf = SubSeq(@, n + 1, Len(@))]

PersistAll(e, step) == Persist(e, Len(ex[e].buf), step)

Release(e) == lease' = [lease EXCEPT ![SessionOfEx(e)] = IF @ = e THEN NoHolder ELSE @]

Gone(e) == ex' = [f \in DOMAIN ex \ {e} |-> ex[f]]

-----------------------------------------------------------------------------
(* Admission to execution: claim or request, Session lease, load, repair.  *)

Fresh == [step |-> "claimed", base |-> 0, buf |-> <<>>, outcome |-> "none"]

Begin(e, fields) == ex' = [f \in DOMAIN ex \cup {e} |-> IF f = e THEN fields ELSE ex[f]]

\* runWorkerOnce: ClaimRun returned a run.
Claimed(w) ==
    /\ ClaimRun(w)
    /\ LET r == selected[w] IN Begin(<<r, generation'[r]>>, Fresh)
    /\ UNCHANGED <<sessions, tool, closer>>

\* acquireRunLease of executeQueuedRun.
AcquireLease(e) ==
    /\ At(e, {"claimed"})
    /\ lease[SessionOfEx(e)] = NoHolder
    /\ lease' = [lease EXCEPT ![SessionOfEx(e)] = e]
    /\ Goto(e, "leased")
    /\ UNCHANGED <<vars, log, tool, closer>>

\* handleRun up to the lease.  The run id is new.
SyncRequest(r) ==
    /\ r \in SyncRuns
    /\ status[r] = "none"
    /\ <<r, 0>> \notin DOMAIN ex
    /\ lease[SessionOf[r]] = NoHolder
    /\ lease' = [lease EXCEPT ![SessionOf[r]] = <<r, 0>>]
    /\ Begin(<<r, 0>>, [Fresh EXCEPT !.step = "leased"])
    /\ UNCHANGED <<vars, log, tool, closer>>

\* sessions.Load, after the lease is held.  A log that needs no repair is not
\* checked against the store again.
LoadSession(e) ==
    LET s == SessionOfEx(e) IN
    /\ At(e, {"leased"})
    /\ ex' = [ex EXCEPT ![e].step = IF Log!RepairInterrupted(log[s]) = <<>> THEN "repaired"
                                                                       ELSE "loaded",
                        ![e].base = Len(log[s])]
    /\ UNCHANGED <<vars, sessions, tool, closer>>

\* RepairInterruptedSession(Fenced).
RepairSession(e) ==
    LET s == SessionOfEx(e) synthetic == Log!RepairInterrupted(View(e)) IN
    /\ At(e, {"loaded"})
    /\ Fence(e)
    /\ log' = [log EXCEPT ![s] = @ \o synthetic]
    /\ ex' = [ex EXCEPT ![e].step = "repaired", ![e].base = @ + Len(synthetic)]
    /\ UNCHANGED <<vars, lease, tool, closer>>

\* The version moved: reload once, and accept a log that needs no repair.
RepairConflict(e) ==
    LET s == SessionOfEx(e) IN
    /\ At(e, {"loaded"})
    /\ ex[e].base # Len(log[s])
    /\ Log!RepairInterrupted(log[s]) = <<>>
    /\ ex' = [ex EXCEPT ![e].step = "repaired", ![e].base = Len(log[s])]
    /\ UNCHANGED <<vars, sessions, tool, closer>>

\* settleQueuedPreparationFailure while attempts are left.  It is reached from
\* every step before the agent loop.
PreparationRetried(e) ==
    /\ At(e, {"claimed", "leased", "loaded", "repaired"})
    /\ Gen(e) >= 1
    /\ RetryRunClaim(Tok(e))
    /\ Release(e)
    /\ Gone(e)
    /\ UNCHANGED <<log, tool, closer>>

\* settleQueuedPreparationFailure for the last attempt or, once the Session is
\* loaded, a permanent failure: a suspended run is closed in the log first.
PreparationFailed(e) ==
    /\ At(e, {"claimed", "leased", "loaded", "repaired"})
    /\ Gen(e) >= 1
    /\ Tok(e).attempt >= MaxAttempts \/ At(e, {"loaded", "repaired"})
    /\ IF At(e, {"loaded", "repaired"}) /\ RunStatus(View(e), RunOf(e)) = "waiting"
       THEN /\ Fence(e)
            /\ log' = [log EXCEPT ![SessionOfEx(e)] =
                          @ \o Events(RunOf(e), <<"resolved", "failed">>)]
       ELSE UNCHANGED log
    /\ ex' = [ex EXCEPT ![e].step = "settle", ![e].outcome = "failed"]
    /\ UNCHANGED <<vars, lease, tool, closer>>

\* The same after a failed repair, which leaves no Session to close.
RepairFailed(e) ==
    /\ At(e, {"loaded"})
    /\ Gen(e) >= 1
    /\ Tok(e).attempt >= MaxAttempts
    /\ ex' = [ex EXCEPT ![e].step = "settle", ![e].outcome = "failed"]
    /\ UNCHANGED <<vars, sessions, tool, closer>>

\* executeQueuedRun finds the run ended in the log, or started and not suspended.
AlreadyStarted(e) ==
    LET found == RunStatus(View(e), RunOf(e)) IN
    /\ At(e, {"repaired"})
    /\ Gen(e) >= 1
    /\ found \in Log!Ends \cup {"open"}
    /\ ex' = [ex EXCEPT ![e].step = "settle",
                        ![e].outcome = IF found = "open" THEN "failed" ELSE found]
    /\ UNCHANGED <<vars, sessions, tool, closer>>

SyncTransaction(e) == [run |-> RunOf(e), kind |-> "sync", key |-> NoKey]

\* createRunControl.
SyncSubmit(e) ==
    /\ At(e, {"repaired"})
    /\ Gen(e) = 0
    /\ BeginSubmit(SyncTransaction(e))
    /\ Goto(e, "creating")
    /\ UNCHANGED <<sessions, tool, closer>>

SyncCreate(e) ==
    /\ At(e, {"creating"})
    /\ CreateRun(SyncTransaction(e))
    /\ Goto(e, "created")
    /\ UNCHANGED <<sessions, tool, closer>>

SyncRefused(e) ==
    /\ At(e, {"creating"})
    /\ RollbackSubmit(SyncTransaction(e))
    /\ Release(e)
    /\ Gone(e)
    /\ UNCHANGED <<log, tool, closer>>

-----------------------------------------------------------------------------
(* The agent loop: RunTurn, ResumeTurn, ContinueTurn are reduced to the     *)
(* order of their events, approvals, checkpoints and tool effects.         *)

\* Mutant: a run that was closed as failed, as repair does, is started over.
StartableAgain(e) ==
    /\ At(e, {IF Gen(e) = 0 THEN "created" ELSE "repaired"})
    /\ RunStatus(View(e), RunOf(e)) \in {"none", "failed"}

Startable(e) ==
    /\ At(e, {IF Gen(e) = 0 THEN "created" ELSE "repaired"})
    /\ RunStatus(View(e), RunOf(e)) = "none"

Resuming(e) ==
    /\ At(e, {"repaired"})
    /\ Gen(e) >= 1
    /\ RunStatus(View(e), RunOf(e)) = "waiting"

StartTurn(e) ==
    /\ Startable(e)
    /\ Emit(e, <<"start">>, "model")
    /\ UNCHANGED <<vars, sessions, tool, closer>>

ResumeTurn(e) ==
    /\ Resuming(e)
    /\ Emit(e, <<"resume">>, "tool")
    /\ UNCHANGED <<vars, sessions, tool, closer>>

\* validateSessionRun refused: no event is appended.
TurnRefused(e) ==
    /\ Startable(e) \/ Resuming(e)
    /\ Conclude(e, <<>>, "failed")
    /\ UNCHANGED <<vars, sessions, tool, closer>>

\* The model asks for the tool; the run completes; or it fails, in which case
\* an open approval is not resolved.
ModelCallsTool(e) ==
    /\ At(e, {"model"})
    /\ "call" \notin Log!KindsOf(View(e), RunOf(e))
    /\ Emit(e, <<"call">>, "tool")
    /\ UNCHANGED <<vars, sessions, tool, closer>>

Concludes(e, k) ==
    /\ \/ At(e, {"model"}) /\ k \in {"completed", "failed"}
       \/ At(e, {"tool"}) /\ k = "failed"
    /\ Conclude(e, <<k>>, k)
    /\ UNCHANGED <<vars, sessions, tool, closer>>

\* The context of a synchronous run was cancelled: by its client, by a cancel
\* request or because its Session lease could not be renewed.
SyncCancelled(e) ==
    /\ At(e, {"model", "tool"})
    /\ Gen(e) = 0
    /\ Conclude(e, <<"cancelled">>, "cancelled")
    /\ UNCHANGED <<vars, sessions, tool, closer>>

GateOf(r) == {c \in Calls : RunOfCall[c] = r}

\* The result of the call, followed by the resolution of its approval when the
\* run was suspended on it.
Answer(e) ==
    IF RunStatus(View(e), RunOf(e)) = "waiting" THEN <<"result", "resolved">> ELSE <<"result">>

\* The approval was denied or has expired, or another gate of the protected
\* funnel refused the call; an approver error resolves nothing.
ToolDenied(e) ==
    /\ At(e, {"tool"})
    /\ \/ /\ \E c \in GateOf(RunOf(e)) : approval[c] \in {"denied", "expired"}
          /\ Emit(e, Answer(e), "model")
       \/ Emit(e, <<"result">>, "model")
    /\ UNCHANGED <<vars, sessions, tool, closer>>

\* pauseForApproval: the request is stored before the event that records it.
ToolPauses(e, c) ==
    /\ At(e, {"tool"})
    /\ RequestApproval(Tok(e), c)
    /\ Conclude(e, IF RunStatus(View(e), RunOf(e)) = "waiting" THEN <<>> ELSE <<"ask">>,
                "waiting")
    /\ UNCHANGED <<sessions, tool, closer>>

Allowed(e) ==
    /\ At(e, {"tool"})
    /\ \A c \in GateOf(RunOf(e)) : approval[c] = "approved"

\* Mutant: the tool is begun before its call is durable.
NoCheckpoint(e) ==
    /\ Allowed(e)
    /\ Goto(e, "journal")
    /\ UNCHANGED <<vars, sessions, tool, closer>>

\* requestApproval answers approved, a decision that is final, or none is
\* needed; checkpointToolInvocationJournal: everything pending is durable
\* before Begin.
Checkpoint(e) ==
    /\ Allowed(e)
    /\ PersistAll(e, "journal")
    /\ UNCHANGED <<vars, lease, tool, closer>>

\* Mutant: Begin lets every started invocation run again.
BeginAgain(e) ==
    /\ At(e, {"journal"})
    /\ journal' = [journal EXCEPT ![RunOf(e)] = IF @ = "completed" THEN @ ELSE "started"]
    /\ IF journal[RunOf(e)] # "completed" THEN Goto(e, "effect")
                                          ELSE Emit(e, Answer(e), "model")
    /\ UNCHANGED <<vars, sessions, effects, closer>>

\* BeginToolInvocation: execute_new, replay or outcome_unknown (ToolJournal.tla
\* has its statements one by one).
BeginTool(e) ==
    /\ At(e, {"journal"})
    /\ journal' = [journal EXCEPT ![RunOf(e)] = IF @ = "none" THEN "started" ELSE @]
    /\ IF journal[RunOf(e)] = "none" THEN Goto(e, "effect") ELSE Emit(e, Answer(e), "model")
    /\ UNCHANGED <<vars, sessions, effects, closer>>

\* A call that is denied, or fails before the provider acts, leaves the same rows
\* and events as one that acts: ToolJournal tells them apart.
ToolActs(e) ==
    /\ At(e, {"effect"})
    /\ effects' = [effects EXCEPT ![RunOf(e)] = @ + 1]
    /\ Goto(e, "record")
    /\ UNCHANGED <<vars, sessions, journal, closer>>

\* CompleteToolInvocation, which may fail, then tool/result.
CompleteTool(e) ==
    /\ At(e, {"record"})
    /\ \/ journal' = [journal EXCEPT ![RunOf(e)] = "completed"]
       \/ UNCHANGED journal
    /\ Emit(e, Answer(e), "model")
    /\ UNCHANGED <<vars, sessions, effects, closer>>

-----------------------------------------------------------------------------
(* Write-behind and the end of an execution.                               *)

\* The timer flushes between two events.
BackgroundFlush(e) ==
    /\ At(e, {"model", "tool", "flush"})
    /\ \E n \in 1..Len(ex[e].buf) : Persist(e, n, ex[e].step)
    /\ UNCHANGED <<vars, lease, tool, closer>>

Flush(e) ==
    /\ At(e, {"flush"})
    /\ PersistAll(e, "settle")
    /\ UNCHANGED <<vars, lease, tool, closer>>

\* Mutant: the error of the final flush is dropped.
FlushErrorIgnored(e) ==
    /\ At(e, {"flush"}) \/ Allowed(e)
    /\ ex' = [ex EXCEPT ![e].step = "settle", ![e].buf = <<>>]
    /\ UNCHANGED <<vars, sessions, tool, closer>>

\* A conflict or store error in the final flush or the checkpoint, not a lost
\* fence: store_error, whatever the agent loop said.
FlushFails(e) ==
    /\ At(e, {"flush"}) \/ Allowed(e)
    /\ ex' = [ex EXCEPT ![e].step = "settle", ![e].outcome = "failed", ![e].buf = <<>>]
    /\ UNCHANGED <<vars, sessions, tool, closer>>

\* PauseRunClaim or finishQueuedRunClaim.
SettleClaim(e) ==
    /\ At(e, {"settle"})
    /\ Gen(e) >= 1
    /\ IF ex[e].outcome = "waiting" THEN PauseRunClaim(Tok(e))
                                    ELSE FinishRunClaim(Tok(e), ex[e].outcome)
    /\ Release(e)
    /\ Gone(e)
    /\ UNCHANGED <<log, tool, closer>>

\* The end of handleRun.  A pause that is refused fails the run.
SettleSync(e) ==
    /\ At(e, {"settle"})
    /\ Gen(e) = 0
    /\ IF ex[e].outcome = "waiting"
       THEN PauseRun(Tok(e)) \/ FinishRun(Tok(e), "failed")
       ELSE FinishRun(Tok(e), ex[e].outcome)
    /\ Release(e)
    /\ Gone(e)
    /\ UNCHANGED <<log, tool, closer>>

\* The execution gives up, its token with it.
Forget(e) ==
    /\ held' = {t \in held : Id(t) # e}
    /\ Gone(e)
    /\ UNCHANGED <<control, queue, approvals, submissions, selected, log, tool, closer>>

\* stopQueuedFencedWriter (claim or fence lost, shutdown, cancel seen), a settle
\* the store refused, or a synchronous request that fails before createRunControl.
Stop(e) ==
    /\ e \in DOMAIN ex
    /\ Gen(e) >= 1 \/ At(e, {"leased", "loaded", "repaired", "settle"})
    /\ Release(e)
    /\ Forget(e)

\* The process dies.  An open createRunControl transaction rolls back first.
Crash(e) ==
    /\ e \in DOMAIN ex
    /\ ~At(e, {"creating"})
    /\ Forget(e)
    /\ UNCHANGED lease

-----------------------------------------------------------------------------
(* handleCancelRun.                                                        *)

Closing(r, step) == closer' = [closer EXCEPT ![r].step = step]

\* GetRun; the status read here decides whether the Session is closed below.
CancelReads(r) ==
    /\ closer[r].step = "off"
    /\ r \in Cancellable
    /\ status[r] \in Unfinished
    /\ closer' = [closer EXCEPT ![r] = [step |-> "read", base |-> 0,
                                        waiting |-> status[r] = "waiting_approval"]]
    /\ UNCHANGED <<vars, sessions, ex, tool>>

\* RequestRunCancel.
CancelRequests(r) ==
    /\ closer[r].step = "read"
    /\ CancelRunning(r) \/ CancelIdle(r)
    /\ Closing(r, IF closer[r].waiting THEN "load" ELSE "off")
    /\ UNCHANGED <<sessions, ex, tool>>

\* closeWaitingSessionRun: Load, and nothing more unless the log is suspended.
CancelLoads(r) ==
    /\ closer[r].step = "load"
    /\ closer' = [closer EXCEPT ![r].step =
                       IF RunStatus(log[SessionOf[r]], r) = "waiting" THEN "save" ELSE "off",
                                ![r].base = Len(log[SessionOf[r]])]
    /\ UNCHANGED <<vars, sessions, ex, tool>>

\* Save of the closed Session, conditional on the version loaded.
CancelSaves(r) ==
    LET s == SessionOf[r] IN
    /\ closer[r].step = "save"
    /\ closer[r].base = Len(log[s])
    /\ log' = [log EXCEPT ![s] = @ \o Events(r, <<"resolved", "cancelled">>)]
    /\ Closing(r, "off")
    /\ UNCHANGED <<vars, lease, ex, tool>>

\* The run is terminal, a store call fails, the version moved, or the process
\* dies: the handler ends where it is.
CancelAborts(r) ==
    /\ closer[r].step # "off"
    /\ Closing(r, "off")
    /\ UNCHANGED <<vars, sessions, ex, tool>>

-----------------------------------------------------------------------------
(* The rest of the system, as far as the store sees it.  To an execution an *)
(* expired approval is a denied one (requestApproval), so expiry is left   *)
(* out.                                                                    *)

Enqueue(r) ==
    LET x == [run |-> r, kind |-> "async", key |-> NoKey] IN
    \/ BeginSubmit(x)
    \/ x \in admitted /\ EnqueueRun(x)
    \/ x \in admitted /\ RollbackSubmit(x)

Store ==
    /\ \/ \E r \in Runs \ SyncRuns : Enqueue(r)
       \/ \E w \in Workers, r \in Runs : ClaimCandidate(w, r)
       \/ \E w \in Workers : ClaimMissed(w)
       \/ \E t \in held : HeartbeatRun(t)
       \/ Recovery
       \/ \E c \in Calls : DecideApproval(c) \/ CancelRunApproval(c)
       \/ \E r \in Runs : LeaseExpires(r) \/ BecomesAvailable(r)
    /\ UNCHANGED <<sessions, ex, tool, closer>>

\* A Session lease that has run out cannot be renewed, so it is as good as gone.
SessionLeaseExpires(s) ==
    /\ lease[s] # NoHolder
    /\ lease' = [lease EXCEPT ![s] = NoHolder]
    /\ UNCHANGED <<vars, log, ex, tool, closer>>

Preparation(e) ==
    \/ AcquireLease(e) \/ LoadSession(e) \/ RepairSession(e) \/ RepairConflict(e)
    \/ AlreadyStarted(e)
    \/ PreparationRetried(e) \/ PreparationFailed(e) \/ RepairFailed(e)
    \/ SyncSubmit(e) \/ SyncCreate(e) \/ SyncRefused(e)

Turn(e) ==
    \/ StartTurn(e) \/ ResumeTurn(e) \/ TurnRefused(e)
    \/ ModelCallsTool(e) \/ \E k \in Log!Ends : Concludes(e, k)
    \/ SyncCancelled(e)
    \/ ToolDenied(e) \/ \E c \in Calls : ToolPauses(e, c)
    \/ Checkpoint(e) \/ BeginTool(e) \/ ToolActs(e) \/ CompleteTool(e)

Ending(e) ==
    \/ BackgroundFlush(e) \/ Flush(e) \/ FlushFails(e)
    \/ SettleClaim(e) \/ SettleSync(e) \/ Stop(e) \/ Crash(e)

Cancellation(r) ==
    \/ CancelReads(r) \/ CancelRequests(r) \/ CancelLoads(r)
    \/ CancelSaves(r) \/ CancelAborts(r)

WNext ==
    \/ Store
    \/ \E w \in Workers : Claimed(w)
    \/ \E r \in SyncRuns : SyncRequest(r)
    \/ \E e \in DOMAIN ex : Preparation(e) \/ Turn(e) \/ Ending(e)
    \/ \E r \in Runs : Cancellation(r)
    \/ \E s \in Sessions : SessionLeaseExpires(s)

WSpec == WInit /\ [][WNext]_wvars

-----------------------------------------------------------------------------
(* Safety.                                                                 *)

Steps == {"claimed", "leased", "loaded", "repaired", "creating", "created",
          "model", "tool", "journal", "effect", "record", "flush", "settle"}

\* Types, and the link between the parts: every execution past CreateRun or
\* ClaimRun has exactly one token, and never claims to know more of the log
\* than there is.
WTypeOK ==
    /\ TypeOK
    /\ log \in [Sessions -> Seq([run : Runs, kind : Log!Kinds, calls : Seq(Runs)])]
    /\ DOMAIN ex \subseteq Runs \X Nat
    /\ lease \in [Sessions -> (Runs \X Nat) \cup {NoHolder}]
    /\ journal \in [Runs -> {"none", "started", "completed"}]
    /\ effects \in [Runs -> Nat]
    /\ \A e \in DOMAIN ex :
        /\ ex[e].step \in Steps
        /\ ex[e].base <= Len(log[SessionOfEx(e)])
        /\ ex[e].outcome \in {"none", "waiting"} \cup Log!Ends
        /\ Cardinality({t \in held : Id(t) = e}) =
              IF Gen(e) = 0 /\ At(e, {"leased", "loaded", "repaired", "creating"})
              THEN 0 ELSE 1
    /\ {Id(t) : t \in held} \subseteq DOMAIN ex

\* The events of r in the log, in order.
Trace(events, r) == SelectSeq(events, LAMBDA v : v.run = r)

\* Whatever executions, repairs and cancel handlers raced, the durable log
\* tells one story of a run: it starts once and first, calls its tool once
\* and before any answer, is resumed only after it asked, settles what it asked
\* once, and nothing follows its end.
OneStoryPerRun ==
    \A s \in Sessions, r \in Runs :
        LET h == Trace(log[s], r)
            Before(j) == {h[i].kind : i \in 1..(j - 1)}
        IN \A j \in DOMAIN h :
            /\ h[j].kind = "start" <=> j = 1
            /\ Before(j) \cap Log!Ends = {}
            /\ h[j].kind \in {"call", "ask", "resolved"} => h[j].kind \notin Before(j)
            /\ h[j].kind \in {"ask", "result"} => "call" \in Before(j)
            /\ h[j].kind \in {"resume", "resolved"} => "ask" \in Before(j)

\* A tool that is not idempotent acts at most once however often its run is
\* retried, resumed or recovered, and only after its call is durable and its
\* approval granted.
EffectOnceAfterRecord ==
    \A r \in Runs :
        /\ effects[r] <= 1
        /\ effects[r] > 0 =>
              /\ "call" \in Log!KindsOf(log[SessionOf[r]], r)
              /\ \A c \in GateOf(r) : approval[c] = "approved"

\* The control record never runs ahead of the log: a run it calls completed has
\* its end in the log, and one that waits uncancelled is suspended there, so
\* that the decision finds a turn to resume.
ControlFollowsLog ==
    \A r \in Runs :
        LET found == RunStatus(log[SessionOf[r]], r) IN
        /\ status[r] = "completed" => found = "completed"
        /\ status[r] = "waiting_approval" /\ ~cancelRequested[r] => found = "waiting"

\* Once the control record of a queued run is final, its stale executions add
\* nothing to the log; it still changes only to be closed, by the repair of a
\* later execution or by the cancel handler.
FinishedRunAddsNothing ==
    [][\A r \in Runs \ SyncRuns :
        LET added == Log!KindsOf(log'[SessionOf[r]], r) \ Log!KindsOf(log[SessionOf[r]], r) IN
        status[r] \in Terminal /\ added # {} => added \cap {"failed", "cancelled"} # {}]_wvars

\* "Cancelling a suspended run atomically closes its approval fence and appends
\* a cancelled terminal state to the Session": no cancelled run stays suspended
\* in its log once the handler is done.
CancelClosesSuspension ==
    \A r \in Runs :
        status[r] = "cancelled" /\ closer[r].step = "off" =>
            RunStatus(log[SessionOf[r]], r) # "waiting"

=============================================================================
