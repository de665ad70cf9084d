---------------------------- MODULE ToolJournal -----------------------------
(***************************************************************************)
(* The durable tool invocation journal (pkg/storage/tool_journal.go) and   *)
(* the protected call that drives it (guardedToolRuntime.Execute).         *)
(*                                                                         *)
(* An executor makes one protected call.  Several executors may hold the   *)
(* same call: an execution that lost its claim and its successor, or the   *)
(* executions before and after a crash or an approval.  Nothing but the    *)
(* journal keeps them apart.                                               *)
(***************************************************************************)
EXTENDS Naturals, FiniteSets

CONSTANTS
    Calls,           \* tool calls (session, run and call id)
    Idempotent,      \* the calls whose capability is declared idempotent
    Executors,       \* protected calls in progress, over all processes
    Results,         \* what the provider may answer
    Denials,         \* failures the runtime words itself, returned without an error
    NoResult, NoCall,
    MaxInvocations   \* SQLToolInvocationJournal.invocationCap

ASSUME JournalAssumption ==
    /\ Idempotent \subseteq Calls
    /\ NoResult \notin Results \cup Denials
    /\ Results \cap Denials = {}
    /\ NoCall \notin Calls

VARIABLES
    state,    \* tool_invocations.state; "none" when there is no row
    result,   \* tool_invocations.result_json
    effects,  \* how often the provider acted on a call
    call,     \* the call an executor makes
    pc,       \* where its Execute stands
    outcome,  \* the result it holds of the runtime
    answer    \* the result it returned to the agent loop

journal == <<state, result>>
vars == <<journal, effects, call, pc, outcome, answer>>

\* What the runtime returns without an error; a panic becomes a denial.
Answers == Results \cup Denials

Steps == {"idle", "count", "insert", "read", "invoke", "complete", "mark_error",
          "mark_unknown", "answered", "failed"}

\* The rows are those the statements write and an executor that has begun
\* knows its call.
TypeOK ==
    /\ state \in [Calls -> {"none", "started", "uncertain", "completed"}]
    /\ result \in [Calls -> Answers \cup {NoResult}]
    /\ effects \in [Calls -> Nat]
    /\ call \in [Executors -> Calls \cup {NoCall}]
    /\ pc \in [Executors -> Steps]
    /\ outcome \in [Executors -> Answers \cup {NoResult}]
    /\ answer \in [Executors -> Answers \cup {NoResult}]
    /\ \A e \in Executors : pc[e] # "idle" => call[e] \in Calls

Init ==
    /\ state = [c \in Calls |-> "none"]
    /\ result = [c \in Calls |-> NoResult]
    /\ effects = [c \in Calls |-> 0]
    /\ call = [e \in Executors |-> NoCall]
    /\ pc = [e \in Executors |-> "idle"]
    /\ outcome = [e \in Executors |-> NoResult]
    /\ answer = [e \in Executors |-> NoResult]

Goto(e, step) == pc' = [pc EXCEPT ![e] = step]

-----------------------------------------------------------------------------
(* Execute up to the journal's decision.                                   *)

\* Mutant: the executor does not keep the identity of its call.
ExecuteForgetsCall(e, c) ==
    /\ pc[e] = "idle"
    /\ Goto(e, "count")
    /\ UNCHANGED <<journal, effects, call, outcome, answer>>

\* Every gate before the journal let the call through.
Execute(e, c) ==
    /\ pc[e] = "idle"
    /\ call' = [call EXCEPT ![e] = c]
    /\ Goto(e, "count")
    /\ UNCHANGED <<journal, effects, outcome, answer>>

Full == Cardinality({c \in Calls : state[c] # "none"}) >= MaxInvocations

\* The count at the head of BeginToolInvocation; it shares no transaction with
\* the statement that follows.
CountInvocations(e) ==
    /\ pc[e] = "count"
    /\ Goto(e, IF Full THEN "read" ELSE "insert")
    /\ UNCHANGED <<journal, effects, call, outcome, answer>>

\* execute_new, or the primary key refuses the row.
InsertInvocation(e) ==
    /\ pc[e] = "insert"
    /\ IF state[call[e]] = "none"
       THEN state' = [state EXCEPT ![call[e]] = "started"] /\ Goto(e, "invoke")
       ELSE Goto(e, "read") /\ UNCHANGED state
    /\ UNCHANGED <<result, effects, call, outcome, answer>>

\* Mutant: every unfinished invocation is executed again.
RetryAnyInvocation(c) == TRUE

\* existingToolInvocationDecision: may an unfinished invocation be executed again.
ExecuteRetry(c) == c \in Idempotent

\* getToolInvocation and existingToolInvocationDecision: replay, execute_retry,
\* outcome_unknown, or an error when the journal is full and has no row.
ReadInvocation(e) ==
    LET c == call[e] IN
    /\ pc[e] = "read"
    /\ \/ /\ state[c] = "completed"
          /\ answer' = [answer EXCEPT ![e] = result[c]]
          /\ Goto(e, "answered")
       \/ /\ state[c] \in {"started", "uncertain"}
          /\ Goto(e, IF ExecuteRetry(c) THEN "invoke" ELSE "failed")
          /\ UNCHANGED answer
       \/ /\ state[c] = "none"
          /\ Goto(e, "failed")
          /\ UNCHANGED answer
    /\ UNCHANGED <<journal, effects, call, outcome>>

-----------------------------------------------------------------------------
(* The provider and what is recorded of it.                                *)

\* The provider acts and returns a result.
Invoke(e, v) ==
    /\ pc[e] = "invoke"
    /\ effects' = [effects EXCEPT ![call[e]] = @ + 1]
    /\ outcome' = [outcome EXCEPT ![e] = v]
    /\ Goto(e, "complete")
    /\ UNCHANGED <<journal, call, answer>>

\* The runtime answers in the provider's place and reports no error: it refused
\* the call, it rejected what the provider returned, or something in it
\* panicked.  Whether the provider acted by then is unknown.
InvokeDenied(e, d, acted) ==
    /\ pc[e] = "invoke"
    /\ effects' = [effects EXCEPT ![call[e]] = @ + (IF acted THEN 1 ELSE 0)]
    /\ outcome' = [outcome EXCEPT ![e] = d]
    /\ Goto(e, "complete")
    /\ UNCHANGED <<journal, call, answer>>

\* A nested call of the provider waits for an approval: Execute returns at once
\* and leaves the row as it is.
InvokePending(e, acted) ==
    /\ pc[e] = "invoke"
    /\ effects' = [effects EXCEPT ![call[e]] = @ + (IF acted THEN 1 ELSE 0)]
    /\ Goto(e, "failed")
    /\ UNCHANGED <<journal, call, outcome, answer>>

\* Mutant: the provider's error is not looked at.
InvokeErrorIgnored(e, acted) ==
    /\ pc[e] = "invoke"
    /\ Goto(e, "complete")
    /\ UNCHANGED <<journal, effects, call, outcome, answer>>

\* The provider returns an error; whether it acted is unknown.
InvokeFails(e, acted) ==
    /\ pc[e] = "invoke"
    /\ effects' = [effects EXCEPT ![call[e]] = @ + (IF acted THEN 1 ELSE 0)]
    /\ Goto(e, "mark_error")
    /\ UNCHANGED <<journal, call, outcome, answer>>

\* sqlCompleteToolInvocation: the first result recorded for a call stays.
Record(e) ==
    LET c == call[e] IN
    /\ state' = [state EXCEPT ![c] = "completed"]
    /\ result' = [result EXCEPT ![c] = IF state[c] \in {"started", "uncertain"}
                                       THEN outcome[e] ELSE @]

\* Mutant: the executor returns what its own provider call gave.
OwnOutcome(e) == outcome[e]

\* journalReplayResult of the record CompleteToolInvocation read back.
Canonical(e) == result'[call[e]]

\* CompleteToolInvocation commits and Execute returns the canonical result.
CompleteInvocation(e) ==
    /\ pc[e] = "complete"
    /\ Record(e)
    /\ answer' = [answer EXCEPT ![e] = Canonical(e)]
    /\ Goto(e, "answered")
    /\ UNCHANGED <<effects, call, outcome>>

\* CompleteToolInvocation reports an error, whether or not it committed.
CompleteFails(e) ==
    /\ pc[e] = "complete"
    /\ Record(e) \/ UNCHANGED journal
    /\ Goto(e, "mark_unknown")
    /\ UNCHANGED <<effects, call, outcome, answer>>

\* MarkToolInvocationUncertain, whose own error Execute ignores; the agent loop
\* gets the provider's error or tool_outcome_unknown.
MarkInvocationUncertain(e) ==
    /\ pc[e] \in {"mark_error", "mark_unknown"}
    /\ \/ state' = [state EXCEPT ![call[e]] = IF @ = "completed" THEN @ ELSE "uncertain"]
       \/ UNCHANGED state
    /\ Goto(e, "failed")
    /\ UNCHANGED <<result, effects, call, outcome, answer>>

\* The process dies or abandons the call.
Crash(e) ==
    /\ pc[e] \notin {"idle", "answered", "failed"}
    /\ Goto(e, "failed")
    /\ UNCHANGED <<journal, effects, call, outcome, answer>>

Next ==
    \/ \E e \in Executors, c \in Calls : Execute(e, c)
    \/ \E e \in Executors : CountInvocations(e)
    \/ \E e \in Executors : InsertInvocation(e)
    \/ \E e \in Executors : ReadInvocation(e)
    \/ \E e \in Executors, v \in Results : Invoke(e, v)
    \/ \E e \in Executors, d \in Denials, acted \in BOOLEAN : InvokeDenied(e, d, acted)
    \/ \E e \in Executors, acted \in BOOLEAN : InvokePending(e, acted)
    \/ \E e \in Executors, acted \in BOOLEAN : InvokeFails(e, acted)
    \/ \E e \in Executors : CompleteInvocation(e)
    \/ \E e \in Executors : CompleteFails(e)
    \/ \E e \in Executors : MarkInvocationUncertain(e)
    \/ \E e \in Executors : Crash(e)

Spec == Init /\ [][Next]_vars

-----------------------------------------------------------------------------
\* A tool that is not idempotent acts at most once for a call, however many
\* executions make it, in whatever order they crash, time out, fail to record
\* the result or find the journal full.
NonIdempotentActsOnce == \A c \in Calls \ Idempotent : effects[c] <= 1

\* All executions of a call that return a result return the same one, the one
\* the journal keeps, even when an idempotent tool was executed twice and
\* answered differently (Execute returns the canonical record).
AnswersAgree ==
    \A e \in Executors :
        pc[e] = "answered" => /\ state[call[e]] = "completed"
                              /\ answer[e] = result[call[e]]
                              /\ answer[e] \in Answers

\* No result is invented: what the journal keeps for a call is what the runtime
\* returned to some execution of that very call, and when it is an answer of the
\* provider rather than a denial, the provider acted on the call.
RecordedIsGenuine ==
    \A c \in Calls : state[c] = "completed" =>
        /\ result[c] \in Answers
        /\ \E e \in Executors : call[e] = c /\ outcome[e] = result[c]
        /\ result[c] \in Results => effects[c] >= 1

=============================================================================
