# auto-agent: TLA+ models, checks and proofs

auto-agent is a Go server that runs model/tool agents as durable *runs* of a
*Session*. This directory models what makes a run durable: the run store and
its queue, approvals, the tool invocation journal, the Session event log with
its crash repair, and the executors that tie them together.

## The system and its parts

A client submits a run, synchronously (`POST .../runs`) or into the queue
(`.../runs/async`). The run store (`run_control`, `run_queue`) admits it, hands
it to one worker at a time under a lease with a generation, and settles it. The
executor loads the Session log, repairs what a killed predecessor left open,
takes the Session lease and lets the agent loop append events through a
write-behind, fenced by claim and log version. A tool that needs an approval
suspends the run; the decision puts it back in the queue. A protected tool call
goes through the journal, so that a repeated execution does not repeat the effect.

| Part | Source | Module |
| --- | --- | --- |
| Durable run store, approvals, submissions | `pkg/storage/run_control.go`, `approval.go`, `sql_schema.go`, `sql_control.go` | `RunQueue` |
| Tool invocation journal and guarded call | `pkg/storage/tool_journal.go`, `pkg/core/agent_tool_guard.go`, `capability.go` | `ToolJournal` |
| Event log: run status, pending approvals, repair | `pkg/core/session.go`, `repair.go` | `SessionEvents` (operators) |
| Agent loop's event order, kill and repair | `pkg/core/agent.go`, `agent_entrypoints.go` | `SessionLog` |
| Executors, leases, fences, write-behind, cancel handler | `pkg/server/server_run_worker.go`, `server_run.go`, `server_lease.go`, `pkg/storage/write_behind.go`, `sql_session_fence.go` | `WorkerRun` |

`MC*` modules hold constants for TLC, `*Proofs` modules the theorems. The other
parts of the repository are listed, with the reason, under *Not modelled* and in
`PROJECT.json`.

## Models and code

**RunQueue.** One variable per column that a statement tests or sets, one action
per transaction (`CreateRun`, `EnqueueRun`, `ClaimRun`, `RenewRunClaim`,
`RetryRunClaim`, `PauseRunClaim`, `PauseRun`, `FinishRunClaim`, `FinishRun`,
`RecoverExpiredRunClaims`, `FailStaleRuns`, `RequestRunCancel`,
`CancelRunApproval`, the request, decision and expiry of approvals,
`PruneRunSubmissions`). A submission is two steps, because its capacity count and
its insert can interleave with another's when `SerialWriters` is FALSE
(PostgreSQL at READ COMMITTED). Callers are tokens: what an execution remembers
of its claim. Tokens go stale and are still used, which is what generations are
for. Clock comparisons are Booleans (`live`, `ready`, `due`) that time flips.

**ToolJournal.** Executors make protected calls step by step (count, insert,
read, invoke, complete, mark); they may crash between any two, the database may
fail before or after committing, and several may hold the same call. The runtime
returns the provider's answer (`Invoke`), a denial it words itself without an
error, whether or not the provider acted (`InvokeDenied`: refused call, rejected
output, recovered panic), an error (`InvokeFails`), or the pending approval of a
nested call, which leaves the row started (`InvokePending`).

**SessionEvents / SessionLog.** An event is its run, kind and calls.
`RepairInterrupted` is the scan of `repair.go` as a fold over the log, and
`RunStatus` the run index. `SessionLog` appends events in the order the agent
loop does, persists prefixes, is killed anywhere, and begins every execution
with the repair.

**WorkerRun.** EXTENDS RunQueue and adds logs, leases, executions with a private
view, the journal reduced to one non-idempotent call per run, and the cancel
handler with its read of the status. Executors change the store only through the
actions of `RunQueue`, with tokens those returned. The per-process Session
mutex excludes nobody (executions may be in different processes); `limited` is
folded into `completed`; expiry of a request is left out, since an execution
treats it as a denial.

## Runs

| Run | Expect | What it asks |
| --- | --- | --- |
| `queue_claims` | pass | Two runs of one Session, two workers, one gated call, two attempts: one active run per Session, tables agree, attempt budget, one owner, waiting runs decidable, terminal statuses and decisions final |
| `queue_admission` | pass | Three runs, two keys, caps of two, retention: keys stay bound while their runs are unfinished, cap holds |
| `queue_liveness` | pass | Two runs of one Session, one worker, one gated call, one key, admissions that interleave: every queued run settles, waits or is cancelled, unless another run of its Session is orphaned or stranded for ever; a key repeated while its first submission is in flight starts one run |
| `tool_journal` | pass | Three executors, one idempotent and one other call, a journal of capacity one: one effect, one answer, nothing recorded that no execution of the call got, no provider answer without an effect |
| `session_repair` | pass | Two runs, two calls, three executions: repair closes what is open, leaves what is suspended, ends are last |
| `worker_approval` | pass | One gated run, submitted synchronously, resumed by a worker, cancellable, two attempts |
| `worker_session` | pass | A queued and a synchronous run on one Session: one story per run, control record and log agree, stale executions add nothing |
| `queue_cancel`, `queue_expiry`, `queue_cap`, `session_open_run`, `worker_cancel` | violation | The findings below |

**Bounds.** Two runs of a Session are the fewest that compete for the index, the
lease or the log; two workers give a stale holder and its successor; two attempts
distinguish retry from exhaustion; three executors let two stale calls meet a
third. `MaxExecutions` (3 and 4) bounds how many executions of a Session are
explored: three reach start, suspension and interrupted resumption, four let
another run overtake. `MaxSteps = 1` suffices because steps repeat the same
events. Capacities are set so that they are reached. Deadlock is not checked: a
system whose runs have all ended rests.

**Fairness** (`FairSpec`, `queue_liveness`). Worker loops poll for ever and take the
oldest candidate, so a run that stays a candidate is claimed (strong fairness per
run: other claims of the Session disable it in between). An execution settles or
its process dies (step, call and time limits). A lease nobody renews expires.
The recovery and expiry loops tick. Apart from claims, fairness is weak and one
clause per loop or clock, which favours no run, call or lease. Nothing is assumed about clients or
administrators, nor about `FailStaleRuns`, which only a starting server calls: a
synchronous run whose process dies stays `running` until then and keeps its
Session. `QueuedRunSettles` therefore names what may hold a queued run back for
ever, another run of its Session that is `Orphaned` (that case) or `Stranded`
(findings 1 and 2). Dropping either exception makes TLC find the behaviour. In
the run's instance, with one gated call, a run is stranded by finding 1 only.
With a gated call in each run, no key, serialised writers and executions that
fail (1,060,382 states, almost six minutes, so not kept as a run) finding 2 occurs
too and the property held as stated. The runs `queue_cancel` and `queue_expiry`
use `RestartingSpec`, which adds servers that restart for ever, so that their
counterexamples owe nothing to a run nobody swept.

## Proofs

TLAPS proves, for any runs, workers, calls, keys and caps:

* `RunQueueProofs`: the inductive invariant `IInv` is `TypeOK`, `Freshness`
  (generations and attempts of runs without a record or row, one open submission
  per run), `QueueMatchesControl`, `OneActiveRunPerSession`, `AttemptsBounded`,
  `TokensConsistent` and `WaitingRunIsDecidable`. The last needs
  `TokensConsistent`: a pause is only sound because a current holder's request is
  still pending. `Freshness` makes a first claim's generation unused. One lemma
  per conjunct, with one step per action, shows it is kept. From it follow `TypeCorrect`, `OneActive`,
  `TablesAgree`, `AttemptBudget`, `SingleOwner`, `Decidable`, and the action
  properties `TerminalFinal` and `DecisionFinal`. `CapHolds` has its own
  invariant (an open submission leaves room for its run) and assumes
  `SerialWriters`; without that the run `queue_cap` refutes it.
* `ToolJournalProofs`: `JInv` adds to the types that at most one executor holds
  the permit to act on a non-idempotent call (`OnePermit`), that a call without a
  row has no effect, that an executor short of the provider holds no result, and
  that an answer of the provider, held or kept, comes after its effect. From it
  follow `ActsOnce`, `Agreement` and `RecordedGenuine`. A denial is recorded like
  an answer and may come without an effect, so the last claims an effect for
  answers of the provider only.

The assumptions are `ConstantsAssumption` and `JournalAssumption`: finite sets of
runs and calls, non-members as null values, at least one attempt.

Only model-checked: liveness (fairness and ENABLED are outside the prover's
reach); `SessionEvents`, `SessionLog` and `WorkerRun`, whose repair is a fold over
the log; the submission properties.

## Findings

1. `queue_cancel`: a cancel accepted while a run is claimed is lost when the claim
   then retries or pauses. Nothing claims, resumes or recovers the run afterwards.
2. `queue_expiry`: one due request whose run cannot be resumed makes every expiry
   pass return before the requests behind it.
3. `queue_cap`: under READ COMMITTED two admissions can exceed the in-flight cap.
4. `session_open_run`: repair looks at the latest `run/start` only; a resumed run
   overtaken in the log by another is left open.
5. `worker_cancel`: the cancel handler decides from a status read earlier whether
   to close the Session; a run that pauses in between stays suspended in its log.

`PROJECT.json` quotes the documentation each one contradicts.

## Not modelled

Model providers, MCP, sandboxes, telemetry and object stores are I/O, present as
calls that act, fail or never return. Capability, profile and policy registries,
context assembly, identity, settings and evaluation change no durable run state.
Nested tool calls of a composite capability (`nestedToolInvoker`, which appends
the inner call and result to the Session and runs the inner call through the same
guarded `Execute`) appear in `ToolJournal` as further calls and as a pending
outcome of the outer one; their events and their order in the log are left out,
as is the resumption of the inner call. Retention of journal rows and decided approvals, call ids shared between runs,
and the late effect of a tool whose execution lost its claim are hazards listed
without a property.

## Plan

1. Components next: the write-behind on its own, the run-liveness scheduler, the
   remote runner queue, the route-evidence outbox, releases and canaries,
   artifact migration, external effect receipts, graph segments and checkpoints,
   the runtime host's durable effects, delegation, and native queued recovery
   (continuing a turn from a completed tool result).
2. Journal retention against approval lifetime; call ids shared across runs.
3. Proofs: `EffectOnceAfterRecord` for `WorkerRun`, `KeyKeepsUnfinishedRun` for `RunQueue`, then the
   invariants of the new components.
