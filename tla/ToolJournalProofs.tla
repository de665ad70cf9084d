------------------------- MODULE ToolJournalProofs --------------------------
(***************************************************************************)
(* The journal's promises, for any number of calls, executors and results  *)
(* and any journal size.                                                   *)
(***************************************************************************)
EXTENDS ToolJournal, TLAPS

\* Past the journal's decision: the executor's row exists.
Begun == {"invoke", "complete", "mark_error", "mark_unknown", "answered"}

\* A non-idempotent call has one permit to act.  It is created with the row,
\* held by the executor that inserted it, and spent by the provider.
OnePermit ==
    \A c \in Calls \ Idempotent :
        /\ effects[c] <= 1
        /\ \A e \in Executors : call[e] = c /\ pc[e] = "invoke" => effects[c] = 0
        /\ \A e, f \in Executors :
              /\ call[e] = c /\ pc[e] = "invoke"
              /\ call[f] = c /\ pc[f] = "invoke"
              => e = f

\* A call without a row was never acted on, and nobody is past its Begin.
NoRowNoEffect ==
    \A c \in Calls : state[c] = "none" =>
        /\ effects[c] = 0
        /\ \A e \in Executors : call[e] = c => pc[e] \notin Begun

\* A result the journal keeps was held by an executor of the call, and an
\* answer of the provider, kept or held, comes after an effect.
ResultsAreReal ==
    /\ RecordedIsGenuine
    /\ \A e \in Executors :
          pc[e] = "complete" =>
              /\ outcome[e] \in Answers
              /\ outcome[e] \in Results => effects[call[e]] >= 1

\* An executor that has not reached the provider holds no result.
NothingHeldYet ==
    \A e \in Executors :
        pc[e] \in {"idle", "count", "insert", "read", "invoke"} => outcome[e] = NoResult

JInv == TypeOK /\ OnePermit /\ NoRowNoEffect /\ ResultsAreReal
        /\ NothingHeldYet /\ AnswersAgree

\* The invariant holds initially.
LEMMA InitJInv == Init => JInv
  BY JournalAssumption
  DEF Init, JInv, TypeOK, OnePermit, NoRowNoEffect, ResultsAreReal, RecordedIsGenuine,
      NothingHeldYet, AnswersAgree, Answers, Begun, Steps

\* Every step of Execute keeps it.
LEMMA StepJInv == JInv /\ [Next]_vars => JInv'
  <1> SUFFICES ASSUME JInv, [Next]_vars PROVE JInv'
    OBVIOUS
  <1> USE JournalAssumption DEF JInv, TypeOK, OnePermit, NoRowNoEffect,
          ResultsAreReal, RecordedIsGenuine, NothingHeldYet, AnswersAgree, Answers,
          Begun, Steps, journal, Goto
  <1>1. ASSUME NEW e \in Executors, NEW c \in Calls, Execute(e, c) PROVE JInv'
    BY <1>1 DEF Execute
  <1>2. ASSUME NEW e \in Executors, CountInvocations(e) PROVE JInv'
    BY <1>2 DEF CountInvocations
  <1>3. ASSUME NEW e \in Executors, InsertInvocation(e) PROVE JInv'
    BY <1>3 DEF InsertInvocation
  <1>4. ASSUME NEW e \in Executors, ReadInvocation(e) PROVE JInv'
    BY <1>4 DEF ReadInvocation, ExecuteRetry
  <1>5. ASSUME NEW e \in Executors, NEW v \in Results, Invoke(e, v) PROVE JInv'
    BY <1>5 DEF Invoke
  <1>6. ASSUME NEW e \in Executors, NEW acted \in BOOLEAN, InvokeFails(e, acted)
        PROVE  JInv'
    BY <1>6 DEF InvokeFails
  <1>7. ASSUME NEW e \in Executors, CompleteInvocation(e) PROVE JInv'
    BY <1>7 DEF CompleteInvocation, Record, Canonical
  <1>8. ASSUME NEW e \in Executors, CompleteFails(e) PROVE JInv'
    <2>1. CASE Record(e)
      BY <1>8, <2>1 DEF CompleteFails, Record
    <2>2. CASE UNCHANGED journal
      BY <1>8, <2>2 DEF CompleteFails
    <2> QED
      BY <1>8, <2>1, <2>2 DEF CompleteFails
  <1>9. ASSUME NEW e \in Executors, MarkInvocationUncertain(e) PROVE JInv'
    BY <1>9 DEF MarkInvocationUncertain
  <1>10. ASSUME NEW e \in Executors, Crash(e) PROVE JInv'
    BY <1>10 DEF Crash
  <1>11. ASSUME NEW e \in Executors, NEW d \in Denials, NEW acted \in BOOLEAN,
                InvokeDenied(e, d, acted)
         PROVE  JInv'
    BY <1>11 DEF InvokeDenied
  <1>12. ASSUME NEW e \in Executors, NEW acted \in BOOLEAN, InvokePending(e, acted)
         PROVE  JInv'
    BY <1>12 DEF InvokePending
  <1>13. CASE UNCHANGED vars
    BY <1>13 DEF vars
  <1> HIDE DEF JInv
  <1> QED
    BY <1>1, <1>2, <1>3, <1>4, <1>5, <1>6, <1>7, <1>8, <1>9, <1>10, <1>11,
       <1>12, <1>13 DEF Next

\* The invariant holds in every behaviour.
THEOREM JournalInvariance == Spec => []JInv
  BY InitJInv, StepJInv, PTL DEF Spec

\* A non-idempotent tool acts at most once for a call, for any number of
\* executions, crashes and journal errors.
THEOREM ActsOnce == Spec => []NonIdempotentActsOnce
  <1>1. JInv => NonIdempotentActsOnce
    BY DEF JInv, OnePermit, NonIdempotentActsOnce
  <1> QED
    BY <1>1, JournalInvariance, PTL

\* Every execution of a call that returns a result returns the journal's.
THEOREM Agreement == Spec => []AnswersAgree
  <1>1. JInv => AnswersAgree
    BY DEF JInv
  <1> QED
    BY <1>1, JournalInvariance, PTL

\* What the journal keeps was returned to an execution of that call, and an
\* answer of the provider was preceded by its effect.
THEOREM RecordedGenuine == Spec => []RecordedIsGenuine
  <1>1. JInv => RecordedIsGenuine
    BY DEF JInv, ResultsAreReal
  <1> QED
    BY <1>1, JournalInvariance, PTL

=============================================================================
