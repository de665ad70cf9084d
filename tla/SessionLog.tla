----------------------------- MODULE SessionLog -----------------------------
(***************************************************************************)
(* The log of one Session as the agent loop (pkg/core/agent.go) writes it: *)
(* the event order of RunTurn, ResumeTurn, runModelSteps,                  *)
(* continueToolCalls, executeLoggedToolCall, complete and fail, the        *)
(* write-behind that makes a prefix of it durable, and the repair every    *)
(* execution begins with.                                                  *)
(*                                                                         *)
(* Executions of one Session follow one another (WorkerRun.tla has the     *)
(* claims, leases and fences that order them), in any order of the runs:   *)
(* a run whose approval is decided goes back to the queue, and another run *)
(* may be claimed before it.  A process may be killed at any moment and    *)
(* then loses what was not yet durable.                                    *)
(***************************************************************************)
EXTENDS SessionEvents, Integers

CONSTANTS
    Runs,
    Calls,    \* tool call ids; a run uses each at most once
    MaxSteps, \* agent option MaxSteps
    MaxExecutions  \* bound: executions explored

ASSUME SessionLogAssumption ==
    /\ NoRun \notin Runs
    /\ MaxExecutions \in Nat
    /\ MaxSteps \in Nat

VARIABLES
    log,    \* the Session of the running execution, or as stored when there is none
    saved,  \* how many of its events are durable
    turn,   \* the running execution: run, place in the agent loop, calls to do
    executions  \* how many were begun

vars == <<log, saved, turn, executions>>

Idle == [run |-> NoRun, at |-> "idle", calls |-> <<>>, fast |-> FALSE]

Init ==
    /\ log = <<>>
    /\ saved = 0
    /\ turn = Idle
    /\ executions = 0

\* One execution appends to its Session and moves on.
Emit(events, at, calls) ==
    /\ log' = log \o [i \in 1..Len(events) |-> Event(turn.run, events[i][1], events[i][2])]
    /\ turn' = [turn EXCEPT !.at = at, !.calls = calls]
    /\ UNCHANGED <<saved, executions>>

-----------------------------------------------------------------------------
(* Executions.                                                             *)

\* Load and RepairInterruptedSession; the repair is durable at once.
Acquire(r) ==
    /\ turn.at = "idle"
    /\ executions < MaxExecutions
    /\ log' = log \o RepairInterrupted(log)
    /\ saved' = Len(log')
    /\ turn' = [Idle EXCEPT !.run = r, !.at = "loaded"]
    /\ executions' = executions + 1

RunTurn ==
    /\ turn.at = "loaded"
    /\ RunStatus(log, turn.run) = "none"
    /\ Emit(<<<<"start", <<>>>>>>, "between", <<>>)

ResumeTurn ==
    /\ turn.at = "loaded"
    /\ RunStatus(log, turn.run) = "waiting"
    /\ LET fast == ~\E v \in Of(log, turn.run) : v.kind = "step" IN
        /\ log' = Append(log, Event(turn.run, "resume", <<>>))
        /\ turn' = [turn EXCEPT !.at = "exec", !.fast = fast,
                                !.calls = PendingApproval(log, turn.run)]
    /\ UNCHANGED <<saved, executions>>

\* The run is ended or open in the log: the claim is settled, no turn is run.
NothingToRun ==
    /\ turn.at = "loaded"
    /\ RunStatus(log, turn.run) \in Ends \cup {"open"}
    /\ turn' = Idle
    /\ UNCHANGED <<log, saved, executions>>

Unused == {c \in Calls : \A v \in Of(log, turn.run) : c \notin Range(v.calls)}

Places(events, r, kind) == {i \in DOMAIN events : events[i].run = r /\ events[i].kind = kind}

StepsTaken == Cardinality(Places(log, turn.run, "step"))

\* The fast router answers with a tool call of its own.
FastRoute(c) ==
    /\ turn.at = "between"
    /\ StepsTaken = 0
    /\ c \in Unused
    /\ log' = Append(log, Event(turn.run, "call", <<c>>))
    /\ turn' = [turn EXCEPT !.at = "exec", !.calls = <<c>>, !.fast = TRUE]
    /\ UNCHANGED <<saved, executions>>

\* The fast router answers by itself.
FastAnswers ==
    /\ turn.at = "between"
    /\ StepsTaken = 0
    /\ Emit(<<<<"message", <<>>>>, <<"completed", <<>>>>>>, "done", <<>>)

StepStart ==
    /\ turn.at = "between"
    /\ StepsTaken < MaxSteps
    /\ Emit(<<<<"step", <<>>>>>>, "model", <<>>)

\* Out of steps or of tokens; the token count is abstracted.
StepLimit ==
    /\ turn.at = "between"
    /\ Emit(<<<<"limited", <<>>>>>>, "done", <<>>)

\* An answer without tool calls; the tokens it used may have been the last.
ModelAnswers(status) ==
    /\ turn.at = "model"
    /\ Emit(<<<<"message", <<>>>>, <<"stepEnd", <<>>>>, <<status, <<>>>>>>, "done", <<>>)

\* The summarizer used the last tokens: completeStep.
SummaryLimit ==
    /\ turn.at = "model"
    /\ Emit(<<<<"stepEnd", <<>>>>, <<"limited", <<>>>>>>, "done", <<>>)

ModelCalls(calls) ==
    /\ turn.at = "model"
    /\ Range(calls) \subseteq Unused
    /\ Emit(<<<<"message", calls>>>>, "calls", calls)

\* step/error counts as the end of the step.
ModelFails ==
    /\ turn.at = "model"
    /\ Emit(<<<<"stepEnd", <<>>>>, <<"failed", <<>>>>>>, "done", <<>>)

NextCall ==
    /\ turn.at = "calls"
    /\ turn.calls # <<>>
    /\ Emit(<<<<"call", <<Head(turn.calls)>>>>>>, "exec", turn.calls)

\* MaxToolCalls, or the tokens of the message that asked for the calls.
BudgetReached ==
    /\ turn.at = "calls"
    /\ turn.calls # <<>>
    /\ Emit(<<<<"stepEnd", <<>>>>, <<"limited", <<>>>>>>, "done", <<>>)

StepEnds ==
    /\ turn.at = "calls"
    /\ turn.calls = <<>>
    /\ Emit(<<<<"stepEnd", <<>>>>>>, "between", <<>>)

\* executeLoggedToolCall: the result and, if the approver gave a resolution, its
\* record; a fast run then ends.
ToolAnswers ==
    /\ turn.at = "exec"
    /\ LET c == Head(turn.calls)
           asked == c \in Pending(log, turn.run)
       IN \E resolved \in IF asked THEN BOOLEAN ELSE {FALSE} :
            Emit(<<<<"result", <<c>>>>>>
                 \o (IF resolved THEN <<<<"resolved", <<c>>>>>> ELSE <<>>)
                 \o (IF turn.fast THEN <<<<"message", <<>>>>, <<"completed", <<>>>>>> ELSE <<>>),
                 IF turn.fast THEN "done" ELSE "calls", Tail(turn.calls))

\* pauseForApproval.  A run waits for one approval at a time: another one left
\* unresolved is approval_state_conflict.  A decision is final (RunQueue.tla), so
\* a call whose approval is resolved does not wait again.
ToolPauses ==
    LET c == Head(turn.calls) pending == Pending(log, turn.run) IN
    /\ turn.at = "exec"
    /\ c \notin Named(log, turn.run, "resolved")
    /\ Emit(CASE pending = {} -> <<<<"ask", turn.calls>>>>
              [] c \in pending -> <<>>
              [] OTHER -> <<<<"failed", <<>>>>>>, "done", <<>>)

\* fail from anywhere in the loop.
Fails(status) ==
    /\ turn.at \in {"between", "model", "calls", "exec"}
    /\ Emit(<<<<status, <<>>>>>>, "done", <<>>)

\* The write-behind reaches some point of the log.
Flush(n) ==
    /\ turn.at \notin {"idle", "loaded"}
    /\ n > saved
    /\ saved' = n
    /\ UNCHANGED <<log, turn, executions>>

Finish ==
    /\ turn.at = "done"
    /\ saved = Len(log)
    /\ turn' = Idle
    /\ UNCHANGED <<log, saved, executions>>

\* Mutant: a flush counts its last event twice.
KillOffByOne ==
    /\ turn.at # "idle"
    /\ log' = SubSeq(log, 1, saved - 1)
    /\ turn' = Idle
    /\ UNCHANGED <<saved, executions>>

\* Killed, or the final flush failed.
Kill ==
    /\ turn.at # "idle"
    /\ log' = SubSeq(log, 1, saved)
    /\ turn' = Idle
    /\ UNCHANGED <<saved, executions>>

Next ==
    \/ \E r \in Runs : Acquire(r)
    \/ RunTurn \/ ResumeTurn \/ NothingToRun
    \/ \E c \in Calls : FastRoute(c)
    \/ FastAnswers
    \/ StepStart \/ StepLimit
    \/ \E status \in {"completed", "limited"} : ModelAnswers(status)
    \/ SummaryLimit \/ ModelFails
    \/ \E calls \in SetToAllKPermutations(Calls) \ {<<>>} : ModelCalls(calls)
    \/ NextCall \/ BudgetReached \/ StepEnds
    \/ ToolAnswers \/ ToolPauses
    \/ \E status \in {"failed", "cancelled"} : Fails(status)
    \/ \E n \in 1..Len(log) : Flush(n)
    \/ Finish \/ Kill

Spec == Init /\ [][Next]_vars

-----------------------------------------------------------------------------
(* Properties.                                                             *)

\* The log is a log, and the durable part a prefix of it.
TypeOK ==
    /\ log \in Seq([run : Runs, kind : Kinds, calls : Seq(Calls)])
    /\ saved \in 0..Len(log)
    /\ turn \in [run : Runs \cup {NoRun}, calls : Seq(Calls), fast : BOOLEAN,
                 at : {"idle", "loaded", "between", "model", "calls", "exec", "done"}]
    /\ executions \in 0..MaxExecutions

Durable == SubSeq(log, 1, saved)

Announced(events, r) ==
    UNION {Range(v.calls) : v \in {u \in Of(events, r) : u.kind \in {"message", "call"}}}

\* No event of another run follows the run's first.
Contiguous(events, r) ==
    \A i, j \in DOMAIN events : i < j /\ events[i].run = r => events[j].run = r

\* Whatever durable prefix a killed execution leaves behind, an open run at its
\* end is closed by the suffix RepairInterrupted computes, with every tool call
\* it announced answered and every step closed, and repairing again adds nothing
\* ("The repaired transcript is provider-valid", core/repair.go; "A repeated
\* explicit repair is a no-op", README).
RepairSettlesRun ==
    LET synthetic == RepairInterrupted(Durable)
        repaired == Durable \o synthetic
    IN \A r \in Runs :
        RunStatus(Durable, r) = "open" /\ Contiguous(Durable, r) =>
            /\ RunStatus(repaired, r) = "failed"
            /\ Announced(repaired, r) \subseteq Named(repaired, r, "result")
            /\ \A i \in Places(repaired, r, "step") :
                  \E j \in Places(repaired, r, "stepEnd") : i < j
            /\ RepairInterrupted(repaired) = <<>>

\* Taking over a Session never ends a run that waits for its approval ("crash
\* repair never closes it", README): the decision still finds it suspended.
SuspensionSurvivesRepair ==
    [][turn'.at = "loaded" =>
        \A r \in Runs : RunStatus(log, r) = "waiting" => RunStatus(log', r) = "waiting"]_vars

\* However executions are killed, retried and resumed, a run ends at most once
\* and its end is the last of its events.
EndIsLast ==
    \A i, j \in DOMAIN log : i < j /\ log[i].run = log[j].run => log[i].kind \notin Ends

\* "RepairInterrupted scans a loaded event log for a run that never reached
\* run/end and returns the ... events needed to close it" (core/repair.go): no
\* run is left open by the repair an execution begins with.
NoRunLeftOpen ==
    turn.at = "loaded" => \A r \in Runs : RunStatus(log, r) # "open"

=============================================================================
