--------------------------- MODULE RunQueueProofs ---------------------------
EXTENDS RunQueue, FiniteSetTheorems, TLAPS

\* What the inductive argument needs beside the properties themselves: open
\* transactions are about records that do not exist yet, a run without a queue
\* row has never been claimed, and a waiting run keeps an attempt in reserve.
Freshness ==
    /\ \A x \in admitted : status[x.run] = "none"
    /\ \A x, y \in admitted : x.run = y.run => x = y
    /\ \A r \in Runs :
        /\ status[r] = "none" => generation[r] = 0 /\ attempt[r] = 0
        /\ status[r] = "running" /\ ~row[r] => generation[r] = 0
        /\ status[r] = "waiting_approval" => attempt[r] < MaxAttempts

IInv ==
    /\ TypeOK
    /\ Freshness
    /\ QueueMatchesControl
    /\ OneActiveRunPerSession
    /\ AttemptsBounded
    /\ TokensConsistent
    /\ WaitingRunIsDecidable

-----------------------------------------------------------------------------
\* How a step changes the runs in flight and the open submissions.
InFlightMoves ==
    \/ InFlight' \subseteq InFlight /\ admitted' \subseteq admitted
    \/ \E x \in Transaction : BeginSubmit(x)
    \/ \E x \in admitted : /\ InFlight' = InFlight \cup {x.run}
                           /\ admitted' = admitted \ {x}


\* Every transaction keeps the columns within their types.
LEMMA TypeStep == TypeOK /\ [Next]_vars => TypeOK'
  <1> SUFFICES ASSUME TypeOK, [Next]_vars PROVE TypeOK'
    OBVIOUS
  <1> USE DEF control, queue, approvals, submissions, TypeOK, Token,
      Transaction, Terminal, Unfinished, Decisions
  <1>1. ASSUME NEW x \in Transaction, BeginSubmit(x) PROVE TypeOK'
    BY <1>1 DEF BeginSubmit
  <1>2. ASSUME NEW x \in admitted, CreateRun(x) PROVE TypeOK'
    BY <1>2 DEF CreateRun
  <1>3. ASSUME NEW x \in admitted, EnqueueRun(x) PROVE TypeOK'
    BY <1>3 DEF EnqueueRun
  <1>4. ASSUME NEW x \in admitted, RollbackSubmit(x) PROVE TypeOK'
    BY <1>4 DEF RollbackSubmit
  <1>5. ASSUME NEW k \in Keys, PruneRunSubmissions(k) PROVE TypeOK'
    BY <1>5 DEF PruneRunSubmissions
  <1>6. ASSUME NEW w \in Workers, NEW r \in Runs,
               ClaimCandidate(w, r)
        PROVE  TypeOK'
    BY <1>6 DEF ClaimCandidate
  <1>7. ASSUME NEW w \in Workers, ClaimRun(w) PROVE TypeOK'
    BY <1>7 DEF ClaimRun, Claimable
  <1>8. ASSUME NEW w \in Workers, ClaimMissed(w) PROVE TypeOK'
    BY <1>8 DEF ClaimMissed, Claimable
  <1>9. ASSUME NEW t \in held, RenewRunClaim(t) PROVE TypeOK'
    BY <1>9 DEF RenewRunClaim, OwnsClaim
  <1>10. ASSUME NEW t \in held, RetryRunClaim(t) PROVE TypeOK'
    BY <1>10 DEF RetryRunClaim, OwnsClaim
  <1>11. ASSUME NEW t \in held, PauseRunClaim(t) PROVE TypeOK'
    BY <1>11 DEF PauseRunClaim, OwnsClaim
  <1>12. ASSUME NEW t \in held, PauseRun(t) PROVE TypeOK'
    BY <1>12 DEF PauseRun
  <1>13. ASSUME NEW t \in held, NEW s \in Outcomes,
                FinishRunClaim(t, s)
         PROVE  TypeOK'
    BY <1>13, ConstantsAssumption DEF FinishRunClaim, DeleteRow, OwnsClaim
  <1>14. ASSUME NEW t \in held, NEW s \in Outcomes,
                FinishRun(t, s)
         PROVE  TypeOK'
    BY <1>14, ConstantsAssumption DEF FinishRun, DeleteRow
  <1>15. ASSUME NEW t \in held, HeartbeatRun(t) PROVE TypeOK'
    BY <1>15 DEF HeartbeatRun
  <1>16. ASSUME NEW t \in held, NEW c \in Calls,
                RequestApproval(t, c)
         PROVE  TypeOK'
    <2>1. IsFiniteSet({d \in Calls : approval[d] # "none"})
      BY FS_Subset, ConstantsAssumption
    <2>2. 1 + Cardinality({d \in Calls : approval[d] # "none"}) \in Nat
      BY <2>1, FS_CardinalityType
    <2> QED
      BY <1>16, <2>2 DEF RequestApproval
  <1>17. ASSUME NEW t \in held, Drop(t) PROVE TypeOK'
    BY <1>17 DEF Drop
  <1>18. ASSUME NEW E \in SUBSET Runs,
                RecoverExpiredRunClaims(E)
         PROVE  TypeOK'
    BY <1>18 DEF RecoverExpiredRunClaims, ExpiredClaims, Recovered
  <1>19. ASSUME FailStaleRuns PROVE TypeOK'
    BY <1>19 DEF FailStaleRuns, StaleRuns
  <1>20. ASSUME NEW c \in Calls, NEW d \in Decisions,
                DecideAndResume(c, d)
         PROVE  TypeOK'
    BY <1>20, ConstantsAssumption DEF DecideAndResume, Resumable
  <1>21. ASSUME NEW r \in Runs, CancelRunning(r) PROVE TypeOK'
    BY <1>21 DEF CancelRunning
  <1>22. ASSUME NEW r \in Runs, CancelIdle(r) PROVE TypeOK'
    BY <1>22 DEF CancelIdle, DeleteRow
  <1>23. ASSUME NEW c \in Calls, CancelRunApproval(c) PROVE TypeOK'
    BY <1>23 DEF CancelRunApproval
  <1>24. ASSUME NEW r \in Runs, LeaseExpires(r) PROVE TypeOK'
    BY <1>24 DEF LeaseExpires
  <1>25. ASSUME NEW r \in Runs, BecomesAvailable(r) PROVE TypeOK'
    BY <1>25 DEF BecomesAvailable
  <1>26. ASSUME NEW c \in Calls, ApprovalFallsDue(c) PROVE TypeOK'
    BY <1>26 DEF ApprovalFallsDue
  <1>27. CASE UNCHANGED vars
    BY <1>27 DEF vars
  <1> HIDE DEF control, queue, approvals, submissions, TypeOK, Token,
      Transaction, Terminal, Unfinished, Decisions
  <1> QED
    BY <1>1, <1>2, <1>3, <1>4, <1>5, <1>6, <1>7, <1>8, <1>9, <1>10, <1>11,
       <1>12, <1>13, <1>14, <1>15, <1>16, <1>17, <1>18, <1>19, <1>20, <1>21,
       <1>22, <1>23, <1>24, <1>25, <1>26, <1>27
    DEF Next, Submission, Claim, Execution, Recovery, Operator, Time,
        DecideApproval, ExpireApproval, Decisions

\* Claims, pauses and recovery never touch a record that is not there, and a
\* pause always leaves an attempt in reserve.
LEMMA FreshnessStep == IInv /\ [Next]_vars => Freshness'
  <1> SUFFICES ASSUME IInv, [Next]_vars PROVE Freshness'
    OBVIOUS
  <1> USE DEF control, queue, approvals, submissions, IInv, TypeOK, Token,
      Transaction, Terminal, Unfinished, Freshness, QueueMatchesControl
  <1>1. ASSUME NEW x \in Transaction, BeginSubmit(x) PROVE Freshness'
    BY <1>1 DEF BeginSubmit
  <1>2. ASSUME NEW x \in admitted, CreateRun(x) PROVE Freshness'
    BY <1>2 DEF CreateRun
  <1>3. ASSUME NEW x \in admitted, EnqueueRun(x) PROVE Freshness'
    BY <1>3 DEF EnqueueRun
  <1>4. ASSUME NEW x \in admitted, RollbackSubmit(x) PROVE Freshness'
    BY <1>4 DEF RollbackSubmit
  <1>5. ASSUME NEW k \in Keys, PruneRunSubmissions(k) PROVE Freshness'
    BY <1>5 DEF PruneRunSubmissions
  <1>6. ASSUME NEW w \in Workers, NEW r \in Runs,
               ClaimCandidate(w, r)
        PROVE  Freshness'
    BY <1>6 DEF ClaimCandidate
  <1>7. ASSUME NEW w \in Workers, ClaimRun(w) PROVE Freshness'
    BY <1>7 DEF ClaimRun, Claimable
  <1>8. ASSUME NEW w \in Workers, ClaimMissed(w) PROVE Freshness'
    BY <1>8 DEF ClaimMissed, Claimable
  <1>9. ASSUME NEW t \in held, RenewRunClaim(t) PROVE Freshness'
    BY <1>9 DEF RenewRunClaim, OwnsClaim
  <1>10. ASSUME NEW t \in held, RetryRunClaim(t) PROVE Freshness'
    BY <1>10 DEF RetryRunClaim, OwnsClaim
  <1>11. ASSUME NEW t \in held, PauseRunClaim(t) PROVE Freshness'
    BY <1>11, ConstantsAssumption DEF PauseRunClaim, OwnsClaim,
        AttemptsBounded
  <1>12. ASSUME NEW t \in held, PauseRun(t) PROVE Freshness'
    BY <1>12, ConstantsAssumption DEF PauseRun
  <1>13. ASSUME NEW t \in held, NEW s \in Outcomes,
                FinishRunClaim(t, s)
         PROVE  Freshness'
    BY <1>13, ConstantsAssumption DEF FinishRunClaim, DeleteRow, OwnsClaim
  <1>14. ASSUME NEW t \in held, NEW s \in Outcomes,
                FinishRun(t, s)
         PROVE  Freshness'
    BY <1>14, ConstantsAssumption DEF FinishRun, DeleteRow
  <1>15. ASSUME NEW t \in held, HeartbeatRun(t) PROVE Freshness'
    BY <1>15 DEF HeartbeatRun
  <1>16. ASSUME NEW t \in held, NEW c \in Calls,
                RequestApproval(t, c)
         PROVE  Freshness'
    BY <1>16 DEF RequestApproval
  <1>17. ASSUME NEW t \in held, Drop(t) PROVE Freshness'
    BY <1>17 DEF Drop
  <1>18. ASSUME NEW E \in SUBSET Runs,
                RecoverExpiredRunClaims(E)
         PROVE  Freshness'
    BY <1>18, ConstantsAssumption DEF RecoverExpiredRunClaims,
        ExpiredClaims, Recovered
  <1>19. ASSUME FailStaleRuns PROVE Freshness'
    BY <1>19 DEF FailStaleRuns, StaleRuns
  <1>20. ASSUME NEW c \in Calls, NEW d \in Decisions,
                DecideAndResume(c, d)
         PROVE  Freshness'
    BY <1>20, ConstantsAssumption DEF DecideAndResume, Resumable, Decisions
  <1>21. ASSUME NEW r \in Runs, CancelRunning(r) PROVE Freshness'
    BY <1>21 DEF CancelRunning
  <1>22. ASSUME NEW r \in Runs, CancelIdle(r) PROVE Freshness'
    BY <1>22 DEF CancelIdle, DeleteRow
  <1>23. ASSUME NEW c \in Calls, CancelRunApproval(c) PROVE Freshness'
    BY <1>23 DEF CancelRunApproval
  <1>24. ASSUME NEW r \in Runs, LeaseExpires(r) PROVE Freshness'
    BY <1>24 DEF LeaseExpires
  <1>25. ASSUME NEW r \in Runs, BecomesAvailable(r) PROVE Freshness'
    BY <1>25 DEF BecomesAvailable
  <1>26. ASSUME NEW c \in Calls, ApprovalFallsDue(c) PROVE Freshness'
    BY <1>26 DEF ApprovalFallsDue
  <1>27. CASE UNCHANGED vars
    BY <1>27 DEF vars
  <1> HIDE DEF control, queue, approvals, submissions, IInv, TypeOK,
      Token, Transaction, Terminal, Unfinished, Freshness,
      QueueMatchesControl
  <1> QED
    BY <1>1, <1>2, <1>3, <1>4, <1>5, <1>6, <1>7, <1>8, <1>9, <1>10, <1>11,
       <1>12, <1>13, <1>14, <1>15, <1>16, <1>17, <1>18, <1>19, <1>20, <1>21,
       <1>22, <1>23, <1>24, <1>25, <1>26, <1>27
    DEF Next, Submission, Claim, Execution, Recovery, Operator, Time,
        DecideApproval, ExpireApproval, Decisions

\* Every transaction updates run_control and run_queue together.
LEMMA QueueStep == IInv /\ [Next]_vars => QueueMatchesControl'
  <1> SUFFICES ASSUME IInv, [Next]_vars PROVE QueueMatchesControl'
    OBVIOUS
  <1> USE DEF control, queue, approvals, submissions, IInv, TypeOK, Token,
      Transaction, Terminal, Unfinished, Freshness, QueueMatchesControl
  <1>1. ASSUME NEW x \in Transaction,
               BeginSubmit(x)
        PROVE  QueueMatchesControl'
    BY <1>1 DEF BeginSubmit
  <1>2. ASSUME NEW x \in admitted, CreateRun(x) PROVE QueueMatchesControl'
    BY <1>2 DEF CreateRun
  <1>3. ASSUME NEW x \in admitted, EnqueueRun(x) PROVE QueueMatchesControl'
    BY <1>3 DEF EnqueueRun
  <1>4. ASSUME NEW x \in admitted,
               RollbackSubmit(x)
        PROVE  QueueMatchesControl'
    BY <1>4 DEF RollbackSubmit
  <1>5. ASSUME NEW k \in Keys,
               PruneRunSubmissions(k)
        PROVE  QueueMatchesControl'
    BY <1>5 DEF PruneRunSubmissions
  <1>6. ASSUME NEW w \in Workers, NEW r \in Runs,
               ClaimCandidate(w, r)
        PROVE  QueueMatchesControl'
    BY <1>6 DEF ClaimCandidate
  <1>7. ASSUME NEW w \in Workers, ClaimRun(w) PROVE QueueMatchesControl'
    BY <1>7, ConstantsAssumption DEF ClaimRun, Claimable
  <1>8. ASSUME NEW w \in Workers, ClaimMissed(w) PROVE QueueMatchesControl'
    BY <1>8 DEF ClaimMissed, Claimable
  <1>9. ASSUME NEW t \in held, RenewRunClaim(t) PROVE QueueMatchesControl'
    BY <1>9 DEF RenewRunClaim, OwnsClaim
  <1>10. ASSUME NEW t \in held, RetryRunClaim(t) PROVE QueueMatchesControl'
    BY <1>10 DEF RetryRunClaim, OwnsClaim
  <1>11. ASSUME NEW t \in held, PauseRunClaim(t) PROVE QueueMatchesControl'
    BY <1>11 DEF PauseRunClaim, OwnsClaim
  <1>12. ASSUME NEW t \in held, PauseRun(t) PROVE QueueMatchesControl'
    BY <1>12 DEF PauseRun
  <1>13. ASSUME NEW t \in held, NEW s \in Outcomes,
                FinishRunClaim(t, s)
         PROVE  QueueMatchesControl'
    BY <1>13, ConstantsAssumption DEF FinishRunClaim, DeleteRow, OwnsClaim
  <1>14. ASSUME NEW t \in held, NEW s \in Outcomes,
                FinishRun(t, s)
         PROVE  QueueMatchesControl'
    BY <1>14, ConstantsAssumption DEF FinishRun, DeleteRow
  <1>15. ASSUME NEW t \in held, HeartbeatRun(t) PROVE QueueMatchesControl'
    BY <1>15 DEF HeartbeatRun
  <1>16. ASSUME NEW t \in held, NEW c \in Calls,
                RequestApproval(t, c)
         PROVE  QueueMatchesControl'
    BY <1>16 DEF RequestApproval
  <1>17. ASSUME NEW t \in held, Drop(t) PROVE QueueMatchesControl'
    BY <1>17 DEF Drop
  <1>18. ASSUME NEW E \in SUBSET Runs,
                RecoverExpiredRunClaims(E)
         PROVE  QueueMatchesControl'
    BY <1>18, ConstantsAssumption DEF RecoverExpiredRunClaims,
        ExpiredClaims, Recovered
  <1>19. ASSUME FailStaleRuns PROVE QueueMatchesControl'
    BY <1>19 DEF FailStaleRuns, StaleRuns
  <1>20. ASSUME NEW c \in Calls, NEW d \in Decisions,
                DecideAndResume(c, d)
         PROVE  QueueMatchesControl'
    BY <1>20, ConstantsAssumption DEF DecideAndResume, Resumable, Decisions
  <1>21. ASSUME NEW r \in Runs, CancelRunning(r) PROVE QueueMatchesControl'
    BY <1>21 DEF CancelRunning
  <1>22. ASSUME NEW r \in Runs, CancelIdle(r) PROVE QueueMatchesControl'
    BY <1>22 DEF CancelIdle, DeleteRow
  <1>23. ASSUME NEW c \in Calls,
                CancelRunApproval(c)
         PROVE  QueueMatchesControl'
    BY <1>23 DEF CancelRunApproval
  <1>24. ASSUME NEW r \in Runs, LeaseExpires(r) PROVE QueueMatchesControl'
    BY <1>24 DEF LeaseExpires
  <1>25. ASSUME NEW r \in Runs, BecomesAvailable(r) PROVE QueueMatchesControl'
    BY <1>25 DEF BecomesAvailable
  <1>26. ASSUME NEW c \in Calls,
                ApprovalFallsDue(c)
         PROVE  QueueMatchesControl'
    BY <1>26 DEF ApprovalFallsDue
  <1>27. CASE UNCHANGED vars
    BY <1>27 DEF vars
  <1> HIDE DEF control, queue, approvals, submissions, IInv, TypeOK,
      Token, Transaction, Terminal, Unfinished, Freshness,
      QueueMatchesControl
  <1> QED
    BY <1>1, <1>2, <1>3, <1>4, <1>5, <1>6, <1>7, <1>8, <1>9, <1>10, <1>11,
       <1>12, <1>13, <1>14, <1>15, <1>16, <1>17, <1>18, <1>19, <1>20, <1>21,
       <1>22, <1>23, <1>24, <1>25, <1>26, <1>27
    DEF Next, Submission, Claim, Execution, Recovery, Operator, Time,
        DecideApproval, ExpireApproval, Decisions

\* RetryRunClaim and recovery requeue only with an attempt left; the holder of a
\* live claim knows the attempt it spends (TokensConsistent).
LEMMA AttemptsStep == IInv /\ [Next]_vars => AttemptsBounded'
  <1> SUFFICES ASSUME IInv, [Next]_vars PROVE AttemptsBounded'
    OBVIOUS
  <1> USE DEF control, queue, approvals, submissions, IInv, TypeOK, Token,
      Transaction, Terminal, Unfinished, Freshness, AttemptsBounded
  <1>1. ASSUME NEW x \in Transaction, BeginSubmit(x) PROVE AttemptsBounded'
    BY <1>1 DEF BeginSubmit
  <1>2. ASSUME NEW x \in admitted, CreateRun(x) PROVE AttemptsBounded'
    BY <1>2 DEF CreateRun
  <1>3. ASSUME NEW x \in admitted, EnqueueRun(x) PROVE AttemptsBounded'
    BY <1>3, ConstantsAssumption DEF EnqueueRun
  <1>4. ASSUME NEW x \in admitted, RollbackSubmit(x) PROVE AttemptsBounded'
    BY <1>4 DEF RollbackSubmit
  <1>5. ASSUME NEW k \in Keys, PruneRunSubmissions(k) PROVE AttemptsBounded'
    BY <1>5 DEF PruneRunSubmissions
  <1>6. ASSUME NEW w \in Workers, NEW r \in Runs,
               ClaimCandidate(w, r)
        PROVE  AttemptsBounded'
    BY <1>6 DEF ClaimCandidate
  <1>7. ASSUME NEW w \in Workers, ClaimRun(w) PROVE AttemptsBounded'
    BY <1>7, ConstantsAssumption DEF ClaimRun, Claimable
  <1>8. ASSUME NEW w \in Workers, ClaimMissed(w) PROVE AttemptsBounded'
    BY <1>8 DEF ClaimMissed, Claimable
  <1>9. ASSUME NEW t \in held, RenewRunClaim(t) PROVE AttemptsBounded'
    BY <1>9 DEF RenewRunClaim, OwnsClaim
  <1>10. ASSUME NEW t \in held, RetryRunClaim(t) PROVE AttemptsBounded'
    BY <1>10, ConstantsAssumption DEF RetryRunClaim, OwnsClaim,
        TokensConsistent
  <1>11. ASSUME NEW t \in held, PauseRunClaim(t) PROVE AttemptsBounded'
    BY <1>11, ConstantsAssumption DEF PauseRunClaim, OwnsClaim
  <1>12. ASSUME NEW t \in held, PauseRun(t) PROVE AttemptsBounded'
    BY <1>12, ConstantsAssumption DEF PauseRun
  <1>13. ASSUME NEW t \in held, NEW s \in Outcomes,
                FinishRunClaim(t, s)
         PROVE  AttemptsBounded'
    BY <1>13, ConstantsAssumption DEF FinishRunClaim, DeleteRow, OwnsClaim
  <1>14. ASSUME NEW t \in held, NEW s \in Outcomes,
                FinishRun(t, s)
         PROVE  AttemptsBounded'
    BY <1>14, ConstantsAssumption DEF FinishRun, DeleteRow
  <1>15. ASSUME NEW t \in held, HeartbeatRun(t) PROVE AttemptsBounded'
    BY <1>15 DEF HeartbeatRun
  <1>16. ASSUME NEW t \in held, NEW c \in Calls,
                RequestApproval(t, c)
         PROVE  AttemptsBounded'
    BY <1>16 DEF RequestApproval
  <1>17. ASSUME NEW t \in held, Drop(t) PROVE AttemptsBounded'
    BY <1>17 DEF Drop
  <1>18. ASSUME NEW E \in SUBSET Runs,
                RecoverExpiredRunClaims(E)
         PROVE  AttemptsBounded'
    BY <1>18, ConstantsAssumption DEF RecoverExpiredRunClaims,
        ExpiredClaims, Recovered
  <1>19. ASSUME FailStaleRuns PROVE AttemptsBounded'
    BY <1>19 DEF FailStaleRuns, StaleRuns
  <1>20. ASSUME NEW c \in Calls, NEW d \in Decisions,
                DecideAndResume(c, d)
         PROVE  AttemptsBounded'
    BY <1>20, ConstantsAssumption DEF DecideAndResume, Resumable, Decisions
  <1>21. ASSUME NEW r \in Runs, CancelRunning(r) PROVE AttemptsBounded'
    BY <1>21 DEF CancelRunning
  <1>22. ASSUME NEW r \in Runs, CancelIdle(r) PROVE AttemptsBounded'
    BY <1>22 DEF CancelIdle, DeleteRow
  <1>23. ASSUME NEW c \in Calls, CancelRunApproval(c) PROVE AttemptsBounded'
    BY <1>23 DEF CancelRunApproval
  <1>24. ASSUME NEW r \in Runs, LeaseExpires(r) PROVE AttemptsBounded'
    BY <1>24 DEF LeaseExpires
  <1>25. ASSUME NEW r \in Runs, BecomesAvailable(r) PROVE AttemptsBounded'
    BY <1>25 DEF BecomesAvailable
  <1>26. ASSUME NEW c \in Calls, ApprovalFallsDue(c) PROVE AttemptsBounded'
    BY <1>26 DEF ApprovalFallsDue
  <1>27. CASE UNCHANGED vars
    BY <1>27 DEF vars
  <1> HIDE DEF control, queue, approvals, submissions, IInv, TypeOK,
      Token, Transaction, Terminal, Unfinished, Freshness, AttemptsBounded
  <1> QED
    BY <1>1, <1>2, <1>3, <1>4, <1>5, <1>6, <1>7, <1>8, <1>9, <1>10, <1>11,
       <1>12, <1>13, <1>14, <1>15, <1>16, <1>17, <1>18, <1>19, <1>20, <1>21,
       <1>22, <1>23, <1>24, <1>25, <1>26, <1>27
    DEF Next, Submission, Claim, Execution, Recovery, Operator, Time,
        DecideApproval, ExpireApproval, Decisions

\* Only CreateRun and ClaimRun make a run active and both meet the index; the
\* pauses move between two indexed statuses.
LEMMA OneActiveStep == IInv /\ [Next]_vars => OneActiveRunPerSession'
  <1> SUFFICES ASSUME IInv, [Next]_vars PROVE OneActiveRunPerSession'
    OBVIOUS
  <1> USE DEF control, queue, approvals, submissions, IInv, TypeOK, Token,
      Transaction, Terminal, Unfinished, OneActiveRunPerSession
  <1>1. ASSUME NEW x \in Transaction,
               BeginSubmit(x)
        PROVE  OneActiveRunPerSession'
    BY <1>1 DEF BeginSubmit
  <1>2. ASSUME NEW x \in admitted, CreateRun(x) PROVE OneActiveRunPerSession'
    BY <1>2 DEF CreateRun, IndexFree, IndexedStatuses
  <1>3. ASSUME NEW x \in admitted, EnqueueRun(x) PROVE OneActiveRunPerSession'
    BY <1>3 DEF EnqueueRun
  <1>4. ASSUME NEW x \in admitted,
               RollbackSubmit(x)
        PROVE  OneActiveRunPerSession'
    BY <1>4 DEF RollbackSubmit
  <1>5. ASSUME NEW k \in Keys,
               PruneRunSubmissions(k)
        PROVE  OneActiveRunPerSession'
    BY <1>5 DEF PruneRunSubmissions
  <1>6. ASSUME NEW w \in Workers, NEW r \in Runs,
               ClaimCandidate(w, r)
        PROVE  OneActiveRunPerSession'
    BY <1>6 DEF ClaimCandidate
  <1>7. ASSUME NEW w \in Workers, ClaimRun(w) PROVE OneActiveRunPerSession'
    BY <1>7 DEF ClaimRun, Claimable, IndexFree, IndexedStatuses
  <1>8. ASSUME NEW w \in Workers, ClaimMissed(w) PROVE OneActiveRunPerSession'
    BY <1>8 DEF ClaimMissed, Claimable
  <1>9. ASSUME NEW t \in held, RenewRunClaim(t) PROVE OneActiveRunPerSession'
    BY <1>9 DEF RenewRunClaim, OwnsClaim
  <1>10. ASSUME NEW t \in held, RetryRunClaim(t) PROVE OneActiveRunPerSession'
    BY <1>10 DEF RetryRunClaim, OwnsClaim
  <1>11. ASSUME NEW t \in held, PauseRunClaim(t) PROVE OneActiveRunPerSession'
    BY <1>11 DEF PauseRunClaim, OwnsClaim
  <1>12. ASSUME NEW t \in held, PauseRun(t) PROVE OneActiveRunPerSession'
    BY <1>12 DEF PauseRun
  <1>13. ASSUME NEW t \in held, NEW s \in Outcomes,
                FinishRunClaim(t, s)
         PROVE  OneActiveRunPerSession'
    BY <1>13, ConstantsAssumption DEF FinishRunClaim, DeleteRow, OwnsClaim
  <1>14. ASSUME NEW t \in held, NEW s \in Outcomes,
                FinishRun(t, s)
         PROVE  OneActiveRunPerSession'
    BY <1>14, ConstantsAssumption DEF FinishRun, DeleteRow
  <1>15. ASSUME NEW t \in held, HeartbeatRun(t) PROVE OneActiveRunPerSession'
    BY <1>15 DEF HeartbeatRun
  <1>16. ASSUME NEW t \in held, NEW c \in Calls,
                RequestApproval(t, c)
         PROVE  OneActiveRunPerSession'
    BY <1>16 DEF RequestApproval
  <1>17. ASSUME NEW t \in held, Drop(t) PROVE OneActiveRunPerSession'
    BY <1>17 DEF Drop
  <1>18. ASSUME NEW E \in SUBSET Runs,
                RecoverExpiredRunClaims(E)
         PROVE  OneActiveRunPerSession'
    BY <1>18 DEF RecoverExpiredRunClaims, ExpiredClaims, Recovered
  <1>19. ASSUME FailStaleRuns PROVE OneActiveRunPerSession'
    BY <1>19 DEF FailStaleRuns, StaleRuns
  <1>20. ASSUME NEW c \in Calls, NEW d \in Decisions,
                DecideAndResume(c, d)
         PROVE  OneActiveRunPerSession'
    BY <1>20, ConstantsAssumption DEF DecideAndResume, Resumable, Decisions
  <1>21. ASSUME NEW r \in Runs, CancelRunning(r) PROVE OneActiveRunPerSession'
    BY <1>21 DEF CancelRunning
  <1>22. ASSUME NEW r \in Runs, CancelIdle(r) PROVE OneActiveRunPerSession'
    BY <1>22 DEF CancelIdle, DeleteRow
  <1>23. ASSUME NEW c \in Calls,
                CancelRunApproval(c)
         PROVE  OneActiveRunPerSession'
    BY <1>23 DEF CancelRunApproval
  <1>24. ASSUME NEW r \in Runs, LeaseExpires(r) PROVE OneActiveRunPerSession'
    BY <1>24 DEF LeaseExpires
  <1>25. ASSUME NEW r \in Runs,
                BecomesAvailable(r)
         PROVE  OneActiveRunPerSession'
    BY <1>25 DEF BecomesAvailable
  <1>26. ASSUME NEW c \in Calls,
                ApprovalFallsDue(c)
         PROVE  OneActiveRunPerSession'
    BY <1>26 DEF ApprovalFallsDue
  <1>27. CASE UNCHANGED vars
    BY <1>27 DEF vars
  <1> HIDE DEF control, queue, approvals, submissions, IInv, TypeOK,
      Token, Transaction, Terminal, Unfinished, OneActiveRunPerSession
  <1> QED
    BY <1>1, <1>2, <1>3, <1>4, <1>5, <1>6, <1>7, <1>8, <1>9, <1>10, <1>11,
       <1>12, <1>13, <1>14, <1>15, <1>16, <1>17, <1>18, <1>19, <1>20, <1>21,
       <1>22, <1>23, <1>24, <1>25, <1>26, <1>27
    DEF Next, Submission, Claim, Execution, Recovery, Operator, Time,
        DecideApproval, ExpireApproval, Decisions

\* ClaimRun hands out a generation above all earlier ones; an uncancelled running
\* run's pending request is decided by nobody.
LEMMA TokensStep == IInv /\ [Next]_vars => TokensConsistent'
  <1> SUFFICES ASSUME IInv, [Next]_vars PROVE TokensConsistent'
    OBVIOUS
  <1> USE DEF control, queue, approvals, submissions, IInv, TypeOK, Token,
      Transaction, Terminal, Unfinished, TokensConsistent
  <1>1. ASSUME NEW x \in Transaction, BeginSubmit(x) PROVE TokensConsistent'
    BY <1>1 DEF BeginSubmit
  <1>2. ASSUME NEW x \in admitted, CreateRun(x) PROVE TokensConsistent'
    BY <1>2 DEF CreateRun, Freshness
  <1>3. ASSUME NEW x \in admitted, EnqueueRun(x) PROVE TokensConsistent'
    BY <1>3 DEF EnqueueRun, Freshness
  <1>4. ASSUME NEW x \in admitted, RollbackSubmit(x) PROVE TokensConsistent'
    BY <1>4 DEF RollbackSubmit
  <1>5. ASSUME NEW k \in Keys, PruneRunSubmissions(k) PROVE TokensConsistent'
    BY <1>5 DEF PruneRunSubmissions
  <1>6. ASSUME NEW w \in Workers, NEW r \in Runs,
               ClaimCandidate(w, r)
        PROVE  TokensConsistent'
    BY <1>6 DEF ClaimCandidate
  <1>7. ASSUME NEW w \in Workers, ClaimRun(w) PROVE TokensConsistent'
    BY <1>7 DEF ClaimRun, Claimable
  <1>8. ASSUME NEW w \in Workers, ClaimMissed(w) PROVE TokensConsistent'
    BY <1>8 DEF ClaimMissed, Claimable
  <1>9. ASSUME NEW t \in held, RenewRunClaim(t) PROVE TokensConsistent'
    BY <1>9 DEF RenewRunClaim, OwnsClaim
  <1>10. ASSUME NEW t \in held, RetryRunClaim(t) PROVE TokensConsistent'
    BY <1>10 DEF RetryRunClaim, OwnsClaim
  <1>11. ASSUME NEW t \in held, PauseRunClaim(t) PROVE TokensConsistent'
    BY <1>11, ConstantsAssumption DEF PauseRunClaim, OwnsClaim
  <1>12. ASSUME NEW t \in held, PauseRun(t) PROVE TokensConsistent'
    BY <1>12 DEF PauseRun, Freshness
  <1>13. ASSUME NEW t \in held, NEW s \in Outcomes,
                FinishRunClaim(t, s)
         PROVE  TokensConsistent'
    BY <1>13, ConstantsAssumption DEF FinishRunClaim, DeleteRow, OwnsClaim
  <1>14. ASSUME NEW t \in held, NEW s \in Outcomes,
                FinishRun(t, s)
         PROVE  TokensConsistent'
    BY <1>14, ConstantsAssumption DEF FinishRun, DeleteRow
  <1>15. ASSUME NEW t \in held, HeartbeatRun(t) PROVE TokensConsistent'
    BY <1>15 DEF HeartbeatRun
  <1>16. ASSUME NEW t \in held, NEW c \in Calls,
                RequestApproval(t, c)
         PROVE  TokensConsistent'
    BY <1>16 DEF RequestApproval
  <1>17. ASSUME NEW t \in held, Drop(t) PROVE TokensConsistent'
    BY <1>17 DEF Drop
  <1>18. ASSUME NEW E \in SUBSET Runs,
                RecoverExpiredRunClaims(E)
         PROVE  TokensConsistent'
    BY <1>18 DEF RecoverExpiredRunClaims, ExpiredClaims, Recovered
  <1>19. ASSUME FailStaleRuns PROVE TokensConsistent'
    BY <1>19 DEF FailStaleRuns, StaleRuns
  <1>20. ASSUME NEW c \in Calls, NEW d \in Decisions,
                DecideAndResume(c, d)
         PROVE  TokensConsistent'
    BY <1>20, ConstantsAssumption DEF DecideAndResume, Resumable, Decisions
  <1>21. ASSUME NEW r \in Runs, CancelRunning(r) PROVE TokensConsistent'
    BY <1>21 DEF CancelRunning
  <1>22. ASSUME NEW r \in Runs, CancelIdle(r) PROVE TokensConsistent'
    BY <1>22 DEF CancelIdle, DeleteRow
  <1>23. ASSUME NEW c \in Calls, CancelRunApproval(c) PROVE TokensConsistent'
    BY <1>23 DEF CancelRunApproval
  <1>24. ASSUME NEW r \in Runs, LeaseExpires(r) PROVE TokensConsistent'
    BY <1>24 DEF LeaseExpires
  <1>25. ASSUME NEW r \in Runs, BecomesAvailable(r) PROVE TokensConsistent'
    BY <1>25 DEF BecomesAvailable
  <1>26. ASSUME NEW c \in Calls, ApprovalFallsDue(c) PROVE TokensConsistent'
    BY <1>26 DEF ApprovalFallsDue
  <1>27. CASE UNCHANGED vars
    BY <1>27 DEF vars
  <1> HIDE DEF control, queue, approvals, submissions, IInv, TypeOK,
      Token, Transaction, Terminal, Unfinished, TokensConsistent
  <1> QED
    BY <1>1, <1>2, <1>3, <1>4, <1>5, <1>6, <1>7, <1>8, <1>9, <1>10, <1>11,
       <1>12, <1>13, <1>14, <1>15, <1>16, <1>17, <1>18, <1>19, <1>20, <1>21,
       <1>22, <1>23, <1>24, <1>25, <1>26, <1>27
    DEF Next, Submission, Claim, Execution, Recovery, Operator, Time,
        DecideApproval, ExpireApproval, Decisions

\* A pause is committed only by the holder of the current generation, whose
\* request is still pending unless the run was cancelled.
LEMMA DecidableStep == IInv /\ [Next]_vars => WaitingRunIsDecidable'
  <1> SUFFICES ASSUME IInv, [Next]_vars PROVE WaitingRunIsDecidable'
    OBVIOUS
  <1> USE DEF control, queue, approvals, submissions, IInv, TypeOK, Token,
      Transaction, Terminal, Unfinished, WaitingRunIsDecidable
  <1>1. ASSUME NEW x \in Transaction,
               BeginSubmit(x)
        PROVE  WaitingRunIsDecidable'
    BY <1>1 DEF BeginSubmit
  <1>2. ASSUME NEW x \in admitted, CreateRun(x) PROVE WaitingRunIsDecidable'
    BY <1>2 DEF CreateRun
  <1>3. ASSUME NEW x \in admitted, EnqueueRun(x) PROVE WaitingRunIsDecidable'
    BY <1>3 DEF EnqueueRun
  <1>4. ASSUME NEW x \in admitted,
               RollbackSubmit(x)
        PROVE  WaitingRunIsDecidable'
    BY <1>4 DEF RollbackSubmit
  <1>5. ASSUME NEW k \in Keys,
               PruneRunSubmissions(k)
        PROVE  WaitingRunIsDecidable'
    BY <1>5 DEF PruneRunSubmissions
  <1>6. ASSUME NEW w \in Workers, NEW r \in Runs,
               ClaimCandidate(w, r)
        PROVE  WaitingRunIsDecidable'
    BY <1>6 DEF ClaimCandidate
  <1>7. ASSUME NEW w \in Workers, ClaimRun(w) PROVE WaitingRunIsDecidable'
    BY <1>7 DEF ClaimRun, Claimable
  <1>8. ASSUME NEW w \in Workers, ClaimMissed(w) PROVE WaitingRunIsDecidable'
    BY <1>8 DEF ClaimMissed, Claimable
  <1>9. ASSUME NEW t \in held, RenewRunClaim(t) PROVE WaitingRunIsDecidable'
    BY <1>9 DEF RenewRunClaim, OwnsClaim
  <1>10. ASSUME NEW t \in held, RetryRunClaim(t) PROVE WaitingRunIsDecidable'
    BY <1>10 DEF RetryRunClaim, OwnsClaim
  <1>11. ASSUME NEW t \in held, PauseRunClaim(t) PROVE WaitingRunIsDecidable'
    BY <1>11 DEF PauseRunClaim, OwnsClaim, TokensConsistent
  <1>12. ASSUME NEW t \in held, PauseRun(t) PROVE WaitingRunIsDecidable'
    BY <1>12 DEF PauseRun, Freshness, TokensConsistent
  <1>13. ASSUME NEW t \in held, NEW s \in Outcomes,
                FinishRunClaim(t, s)
         PROVE  WaitingRunIsDecidable'
    BY <1>13, ConstantsAssumption DEF FinishRunClaim, DeleteRow, OwnsClaim
  <1>14. ASSUME NEW t \in held, NEW s \in Outcomes,
                FinishRun(t, s)
         PROVE  WaitingRunIsDecidable'
    BY <1>14, ConstantsAssumption DEF FinishRun, DeleteRow
  <1>15. ASSUME NEW t \in held, HeartbeatRun(t) PROVE WaitingRunIsDecidable'
    BY <1>15 DEF HeartbeatRun
  <1>16. ASSUME NEW t \in held, NEW c \in Calls,
                RequestApproval(t, c)
         PROVE  WaitingRunIsDecidable'
    BY <1>16 DEF RequestApproval
  <1>17. ASSUME NEW t \in held, Drop(t) PROVE WaitingRunIsDecidable'
    BY <1>17 DEF Drop
  <1>18. ASSUME NEW E \in SUBSET Runs,
                RecoverExpiredRunClaims(E)
         PROVE  WaitingRunIsDecidable'
    BY <1>18 DEF RecoverExpiredRunClaims, ExpiredClaims, Recovered
  <1>19. ASSUME FailStaleRuns PROVE WaitingRunIsDecidable'
    BY <1>19 DEF FailStaleRuns, StaleRuns
  <1>20. ASSUME NEW c \in Calls, NEW d \in Decisions,
                DecideAndResume(c, d)
         PROVE  WaitingRunIsDecidable'
    BY <1>20, ConstantsAssumption DEF DecideAndResume, Resumable, Decisions
  <1>21. ASSUME NEW r \in Runs, CancelRunning(r) PROVE WaitingRunIsDecidable'
    BY <1>21 DEF CancelRunning
  <1>22. ASSUME NEW r \in Runs, CancelIdle(r) PROVE WaitingRunIsDecidable'
    BY <1>22 DEF CancelIdle, DeleteRow
  <1>23. ASSUME NEW c \in Calls,
                CancelRunApproval(c)
         PROVE  WaitingRunIsDecidable'
    BY <1>23 DEF CancelRunApproval
  <1>24. ASSUME NEW r \in Runs, LeaseExpires(r) PROVE WaitingRunIsDecidable'
    BY <1>24 DEF LeaseExpires
  <1>25. ASSUME NEW r \in Runs,
                BecomesAvailable(r)
         PROVE  WaitingRunIsDecidable'
    BY <1>25 DEF BecomesAvailable
  <1>26. ASSUME NEW c \in Calls,
                ApprovalFallsDue(c)
         PROVE  WaitingRunIsDecidable'
    BY <1>26 DEF ApprovalFallsDue
  <1>27. CASE UNCHANGED vars
    BY <1>27 DEF vars
  <1> HIDE DEF control, queue, approvals, submissions, IInv, TypeOK,
      Token, Transaction, Terminal, Unfinished, WaitingRunIsDecidable
  <1> QED
    BY <1>1, <1>2, <1>3, <1>4, <1>5, <1>6, <1>7, <1>8, <1>9, <1>10, <1>11,
       <1>12, <1>13, <1>14, <1>15, <1>16, <1>17, <1>18, <1>19, <1>20, <1>21,
       <1>22, <1>23, <1>24, <1>25, <1>26, <1>27
    DEF Next, Submission, Claim, Execution, Recovery, Operator, Time,
        DecideApproval, ExpireApproval, Decisions

\* No transaction leaves a terminal status or gives a terminal run a queue row.
LEMMA TerminalStep == IInv /\ [Next]_vars => TerminalKept
  <1> SUFFICES ASSUME IInv, [Next]_vars PROVE TerminalKept
    OBVIOUS
  <1> USE DEF control, queue, approvals, submissions, IInv, TypeOK, Token,
      Terminal, Unfinished, TerminalKept, QueueMatchesControl
  <1>1. ASSUME NEW x \in Transaction, BeginSubmit(x) PROVE TerminalKept
    BY <1>1 DEF BeginSubmit
  <1>2. ASSUME NEW x \in admitted, CreateRun(x) PROVE TerminalKept
    BY <1>2 DEF CreateRun, Freshness
  <1>3. ASSUME NEW x \in admitted, EnqueueRun(x) PROVE TerminalKept
    BY <1>3 DEF EnqueueRun, Freshness
  <1>4. ASSUME NEW x \in admitted, RollbackSubmit(x) PROVE TerminalKept
    BY <1>4 DEF RollbackSubmit
  <1>5. ASSUME NEW k \in Keys, PruneRunSubmissions(k) PROVE TerminalKept
    BY <1>5 DEF PruneRunSubmissions
  <1>6. ASSUME NEW w \in Workers, NEW r \in Runs,
               ClaimCandidate(w, r)
        PROVE  TerminalKept
    BY <1>6 DEF ClaimCandidate
  <1>7. ASSUME NEW w \in Workers, ClaimRun(w) PROVE TerminalKept
    BY <1>7 DEF ClaimRun, Claimable
  <1>8. ASSUME NEW w \in Workers, ClaimMissed(w) PROVE TerminalKept
    BY <1>8 DEF ClaimMissed, Claimable
  <1>9. ASSUME NEW t \in held, RenewRunClaim(t) PROVE TerminalKept
    BY <1>9 DEF RenewRunClaim, OwnsClaim
  <1>10. ASSUME NEW t \in held, RetryRunClaim(t) PROVE TerminalKept
    BY <1>10 DEF RetryRunClaim, OwnsClaim
  <1>11. ASSUME NEW t \in held, PauseRunClaim(t) PROVE TerminalKept
    BY <1>11 DEF PauseRunClaim, OwnsClaim
  <1>12. ASSUME NEW t \in held, PauseRun(t) PROVE TerminalKept
    BY <1>12 DEF PauseRun
  <1>13. ASSUME NEW t \in held, NEW s \in Outcomes,
                FinishRunClaim(t, s)
         PROVE  TerminalKept
    BY <1>13, ConstantsAssumption DEF FinishRunClaim, DeleteRow, OwnsClaim
  <1>14. ASSUME NEW t \in held, NEW s \in Outcomes,
                FinishRun(t, s)
         PROVE  TerminalKept
    BY <1>14, ConstantsAssumption DEF FinishRun, DeleteRow
  <1>15. ASSUME NEW t \in held, HeartbeatRun(t) PROVE TerminalKept
    BY <1>15 DEF HeartbeatRun
  <1>16. ASSUME NEW t \in held, NEW c \in Calls,
                RequestApproval(t, c)
         PROVE  TerminalKept
    BY <1>16 DEF RequestApproval
  <1>17. ASSUME NEW t \in held, Drop(t) PROVE TerminalKept
    BY <1>17 DEF Drop
  <1>18. ASSUME NEW E \in SUBSET Runs,
                RecoverExpiredRunClaims(E)
         PROVE  TerminalKept
    BY <1>18 DEF RecoverExpiredRunClaims, ExpiredClaims, Recovered
  <1>19. ASSUME FailStaleRuns PROVE TerminalKept
    BY <1>19 DEF FailStaleRuns, StaleRuns
  <1>20. ASSUME NEW c \in Calls, NEW d \in Decisions,
                DecideAndResume(c, d)
         PROVE  TerminalKept
    BY <1>20, ConstantsAssumption DEF DecideAndResume, Resumable, Decisions
  <1>21. ASSUME NEW r \in Runs, CancelRunning(r) PROVE TerminalKept
    BY <1>21 DEF CancelRunning
  <1>22. ASSUME NEW r \in Runs, CancelIdle(r) PROVE TerminalKept
    BY <1>22 DEF CancelIdle, DeleteRow
  <1>23. ASSUME NEW c \in Calls, CancelRunApproval(c) PROVE TerminalKept
    BY <1>23 DEF CancelRunApproval
  <1>24. ASSUME NEW r \in Runs, LeaseExpires(r) PROVE TerminalKept
    BY <1>24 DEF LeaseExpires
  <1>25. ASSUME NEW r \in Runs, BecomesAvailable(r) PROVE TerminalKept
    BY <1>25 DEF BecomesAvailable
  <1>26. ASSUME NEW c \in Calls, ApprovalFallsDue(c) PROVE TerminalKept
    BY <1>26 DEF ApprovalFallsDue
  <1>27. CASE UNCHANGED vars
    BY <1>27 DEF vars
  <1> HIDE DEF control, queue, approvals, submissions, IInv, TypeOK,
      Token, Terminal, Unfinished, TerminalKept, QueueMatchesControl
  <1> QED
    BY <1>1, <1>2, <1>3, <1>4, <1>5, <1>6, <1>7, <1>8, <1>9, <1>10, <1>11,
       <1>12, <1>13, <1>14, <1>15, <1>16, <1>17, <1>18, <1>19, <1>20, <1>21,
       <1>22, <1>23, <1>24, <1>25, <1>26, <1>27
    DEF Next, Submission, Claim, Execution, Recovery, Operator, Time,
        DecideApproval, ExpireApproval, Decisions

\* Requests are decided once, for a waiting run or a cancelled one.
LEMMA DecisionStep == IInv /\ [Next]_vars => DecisionKept
  <1> SUFFICES ASSUME IInv, [Next]_vars PROVE DecisionKept
    OBVIOUS
  <1> USE DEF control, queue, approvals, submissions, IInv, TypeOK, Token,
      Terminal, Unfinished, DecisionKept, Decisions
  <1>1. ASSUME NEW x \in Transaction, BeginSubmit(x) PROVE DecisionKept
    BY <1>1 DEF BeginSubmit
  <1>2. ASSUME NEW x \in admitted, CreateRun(x) PROVE DecisionKept
    BY <1>2 DEF CreateRun
  <1>3. ASSUME NEW x \in admitted, EnqueueRun(x) PROVE DecisionKept
    BY <1>3 DEF EnqueueRun
  <1>4. ASSUME NEW x \in admitted, RollbackSubmit(x) PROVE DecisionKept
    BY <1>4 DEF RollbackSubmit
  <1>5. ASSUME NEW k \in Keys, PruneRunSubmissions(k) PROVE DecisionKept
    BY <1>5 DEF PruneRunSubmissions
  <1>6. ASSUME NEW w \in Workers, NEW r \in Runs,
               ClaimCandidate(w, r)
        PROVE  DecisionKept
    BY <1>6 DEF ClaimCandidate
  <1>7. ASSUME NEW w \in Workers, ClaimRun(w) PROVE DecisionKept
    BY <1>7 DEF ClaimRun, Claimable
  <1>8. ASSUME NEW w \in Workers, ClaimMissed(w) PROVE DecisionKept
    BY <1>8 DEF ClaimMissed, Claimable
  <1>9. ASSUME NEW t \in held, RenewRunClaim(t) PROVE DecisionKept
    BY <1>9 DEF RenewRunClaim, OwnsClaim
  <1>10. ASSUME NEW t \in held, RetryRunClaim(t) PROVE DecisionKept
    BY <1>10 DEF RetryRunClaim, OwnsClaim
  <1>11. ASSUME NEW t \in held, PauseRunClaim(t) PROVE DecisionKept
    BY <1>11 DEF PauseRunClaim, OwnsClaim
  <1>12. ASSUME NEW t \in held, PauseRun(t) PROVE DecisionKept
    BY <1>12 DEF PauseRun
  <1>13. ASSUME NEW t \in held, NEW s \in Outcomes,
                FinishRunClaim(t, s)
         PROVE  DecisionKept
    BY <1>13, ConstantsAssumption DEF FinishRunClaim, DeleteRow, OwnsClaim
  <1>14. ASSUME NEW t \in held, NEW s \in Outcomes,
                FinishRun(t, s)
         PROVE  DecisionKept
    BY <1>14, ConstantsAssumption DEF FinishRun, DeleteRow
  <1>15. ASSUME NEW t \in held, HeartbeatRun(t) PROVE DecisionKept
    BY <1>15 DEF HeartbeatRun
  <1>16. ASSUME NEW t \in held, NEW c \in Calls,
                RequestApproval(t, c)
         PROVE  DecisionKept
    BY <1>16 DEF RequestApproval
  <1>17. ASSUME NEW t \in held, Drop(t) PROVE DecisionKept
    BY <1>17 DEF Drop
  <1>18. ASSUME NEW E \in SUBSET Runs,
                RecoverExpiredRunClaims(E)
         PROVE  DecisionKept
    BY <1>18 DEF RecoverExpiredRunClaims, ExpiredClaims, Recovered
  <1>19. ASSUME FailStaleRuns PROVE DecisionKept
    BY <1>19 DEF FailStaleRuns, StaleRuns
  <1>20. ASSUME NEW c \in Calls, NEW d \in Decisions,
                DecideAndResume(c, d)
         PROVE  DecisionKept
    BY <1>20, ConstantsAssumption DEF DecideAndResume, Resumable
  <1>21. ASSUME NEW r \in Runs, CancelRunning(r) PROVE DecisionKept
    BY <1>21 DEF CancelRunning
  <1>22. ASSUME NEW r \in Runs, CancelIdle(r) PROVE DecisionKept
    BY <1>22 DEF CancelIdle, DeleteRow
  <1>23. ASSUME NEW c \in Calls, CancelRunApproval(c) PROVE DecisionKept
    BY <1>23 DEF CancelRunApproval
  <1>24. ASSUME NEW r \in Runs, LeaseExpires(r) PROVE DecisionKept
    BY <1>24 DEF LeaseExpires
  <1>25. ASSUME NEW r \in Runs, BecomesAvailable(r) PROVE DecisionKept
    BY <1>25 DEF BecomesAvailable
  <1>26. ASSUME NEW c \in Calls, ApprovalFallsDue(c) PROVE DecisionKept
    BY <1>26 DEF ApprovalFallsDue
  <1>27. CASE UNCHANGED vars
    BY <1>27 DEF vars
  <1> HIDE DEF control, queue, approvals, submissions, IInv, TypeOK,
      Token, Terminal, Unfinished, DecisionKept, Decisions
  <1> QED
    BY <1>1, <1>2, <1>3, <1>4, <1>5, <1>6, <1>7, <1>8, <1>9, <1>10, <1>11,
       <1>12, <1>13, <1>14, <1>15, <1>16, <1>17, <1>18, <1>19, <1>20, <1>21,
       <1>22, <1>23, <1>24, <1>25, <1>26, <1>27
    DEF Next, Submission, Claim, Execution, Recovery, Operator, Time,
        DecideApproval, ExpireApproval, Decisions

\* A run comes into flight only at the commit of an open submission.
LEMMA InFlightStep == IInv /\ [Next]_vars => InFlightMoves
  <1> SUFFICES ASSUME IInv, [Next]_vars PROVE InFlightMoves
    OBVIOUS
  <1> USE DEF control, queue, approvals, submissions, IInv, TypeOK, Token,
      Terminal, Unfinished, InFlight, InFlightMoves, Transaction
  <1>1. ASSUME NEW x \in Transaction, BeginSubmit(x) PROVE InFlightMoves
    BY <1>1 DEF BeginSubmit
  <1>2. ASSUME NEW x \in admitted, CreateRun(x) PROVE InFlightMoves
    BY <1>2 DEF CreateRun, Freshness
  <1>3. ASSUME NEW x \in admitted, EnqueueRun(x) PROVE InFlightMoves
    BY <1>3 DEF EnqueueRun, Freshness
  <1>4. ASSUME NEW x \in admitted, RollbackSubmit(x) PROVE InFlightMoves
    BY <1>4 DEF RollbackSubmit
  <1>5. ASSUME NEW k \in Keys, PruneRunSubmissions(k) PROVE InFlightMoves
    BY <1>5 DEF PruneRunSubmissions
  <1>6. ASSUME NEW w \in Workers, NEW r \in Runs,
               ClaimCandidate(w, r)
        PROVE  InFlightMoves
    BY <1>6 DEF ClaimCandidate
  <1>7. ASSUME NEW w \in Workers, ClaimRun(w) PROVE InFlightMoves
    BY <1>7 DEF ClaimRun, Claimable
  <1>8. ASSUME NEW w \in Workers, ClaimMissed(w) PROVE InFlightMoves
    BY <1>8 DEF ClaimMissed, Claimable
  <1>9. ASSUME NEW t \in held, RenewRunClaim(t) PROVE InFlightMoves
    BY <1>9 DEF RenewRunClaim, OwnsClaim
  <1>10. ASSUME NEW t \in held, RetryRunClaim(t) PROVE InFlightMoves
    BY <1>10 DEF RetryRunClaim, OwnsClaim
  <1>11. ASSUME NEW t \in held, PauseRunClaim(t) PROVE InFlightMoves
    BY <1>11 DEF PauseRunClaim, OwnsClaim
  <1>12. ASSUME NEW t \in held, PauseRun(t) PROVE InFlightMoves
    BY <1>12 DEF PauseRun
  <1>13. ASSUME NEW t \in held, NEW s \in Outcomes,
                FinishRunClaim(t, s)
         PROVE  InFlightMoves
    BY <1>13, ConstantsAssumption DEF FinishRunClaim, DeleteRow, OwnsClaim
  <1>14. ASSUME NEW t \in held, NEW s \in Outcomes,
                FinishRun(t, s)
         PROVE  InFlightMoves
    BY <1>14, ConstantsAssumption DEF FinishRun, DeleteRow
  <1>15. ASSUME NEW t \in held, HeartbeatRun(t) PROVE InFlightMoves
    BY <1>15 DEF HeartbeatRun
  <1>16. ASSUME NEW t \in held, NEW c \in Calls,
                RequestApproval(t, c)
         PROVE  InFlightMoves
    BY <1>16 DEF RequestApproval
  <1>17. ASSUME NEW t \in held, Drop(t) PROVE InFlightMoves
    BY <1>17 DEF Drop
  <1>18. ASSUME NEW E \in SUBSET Runs,
                RecoverExpiredRunClaims(E)
         PROVE  InFlightMoves
    BY <1>18 DEF RecoverExpiredRunClaims, ExpiredClaims, Recovered
  <1>19. ASSUME FailStaleRuns PROVE InFlightMoves
    BY <1>19 DEF FailStaleRuns, StaleRuns
  <1>20. ASSUME NEW c \in Calls, NEW d \in Decisions,
                DecideAndResume(c, d)
         PROVE  InFlightMoves
    BY <1>20, ConstantsAssumption DEF DecideAndResume, Resumable, Decisions
  <1>21. ASSUME NEW r \in Runs, CancelRunning(r) PROVE InFlightMoves
    BY <1>21 DEF CancelRunning
  <1>22. ASSUME NEW r \in Runs, CancelIdle(r) PROVE InFlightMoves
    BY <1>22 DEF CancelIdle, DeleteRow
  <1>23. ASSUME NEW c \in Calls, CancelRunApproval(c) PROVE InFlightMoves
    BY <1>23 DEF CancelRunApproval
  <1>24. ASSUME NEW r \in Runs, LeaseExpires(r) PROVE InFlightMoves
    BY <1>24 DEF LeaseExpires
  <1>25. ASSUME NEW r \in Runs, BecomesAvailable(r) PROVE InFlightMoves
    BY <1>25 DEF BecomesAvailable
  <1>26. ASSUME NEW c \in Calls, ApprovalFallsDue(c) PROVE InFlightMoves
    BY <1>26 DEF ApprovalFallsDue
  <1>27. CASE UNCHANGED vars
    BY <1>27 DEF vars
  <1> HIDE DEF control, queue, approvals, submissions, IInv, TypeOK,
      Token, Terminal, Unfinished, InFlight, InFlightMoves, Transaction
  <1> QED
    BY <1>1, <1>2, <1>3, <1>4, <1>5, <1>6, <1>7, <1>8, <1>9, <1>10, <1>11,
       <1>12, <1>13, <1>14, <1>15, <1>16, <1>17, <1>18, <1>19, <1>20, <1>21,
       <1>22, <1>23, <1>24, <1>25, <1>26, <1>27
    DEF Next, Submission, Claim, Execution, Recovery, Operator, Time,
        DecideApproval, ExpireApproval, Decisions

-----------------------------------------------------------------------------
\* The strengthened invariant holds initially.
LEMMA InitIInv == Init => IInv
  BY ConstantsAssumption
  DEF Init, IInv, TypeOK, Terminal, Unfinished, Decisions, Token, Transaction,
      Freshness, QueueMatchesControl, OneActiveRunPerSession, AttemptsBounded,
      TokensConsistent, WaitingRunIsDecidable

\* The strengthened invariant is inductive.
THEOREM Invariance == Spec => []IInv
  <1>1. Init => IInv
    BY InitIInv
  <1>2. IInv /\ [Next]_vars => IInv'
    <2> SUFFICES ASSUME IInv, [Next]_vars PROVE IInv'
      OBVIOUS
    <2>1. TypeOK'
      BY TypeStep DEF IInv
    <2> QED
      BY <2>1, FreshnessStep, QueueStep, OneActiveStep, AttemptsStep,
         TokensStep, DecidableStep DEF IInv
  <1> QED
    BY <1>1, <1>2, PTL DEF Spec

\* The columns keep their types (TypeOK) for any runs, workers and calls.
THEOREM TypeCorrect == Spec => []TypeOK
  BY Invariance, PTL DEF IInv

\* At most one run of a session is running or waiting for an approval.
THEOREM OneActive == Spec => []OneActiveRunPerSession
  BY Invariance, PTL DEF IInv

\* run_control and run_queue agree after every transaction.
THEOREM TablesAgree == Spec => []QueueMatchesControl
  BY Invariance, PTL DEF IInv

\* A run is never claimed more than max_attempts times between pauses.
THEOREM AttemptBudget == Spec => []AttemptsBounded
  BY Invariance, PTL DEF IInv

\* Generations fence: of the executions of a run at most one owns its claim.
THEOREM SingleOwner == Spec => []OneOwnerPerRun
  <1>1. IInv => OneOwnerPerRun
    BY DEF IInv, TokensConsistent, OneOwnerPerRun, OwnsClaim
  <1> QED
    BY <1>1, Invariance, PTL

\* A waiting run that nobody cancelled has a request left to decide.
THEOREM Decidable == Spec => []WaitingRunIsDecidable
  BY Invariance, PTL DEF IInv

\* Terminal statuses are final.
THEOREM TerminalFinal == Spec => TerminalIsFinal
  <1>1. IInv /\ [Next]_vars => [TerminalKept]_vars
    BY TerminalStep
  <1> QED
    BY <1>1, Invariance, PTL DEF Spec, TerminalIsFinal

\* Approval decisions are final and only made for waiting or cancelled runs.
THEOREM DecisionFinal == Spec => DecisionIsFinal
  <1>1. IInv /\ [Next]_vars => [DecisionKept]_vars
    BY DecisionStep
  <1> QED
    BY <1>1, Invariance, PTL DEF Spec, DecisionIsFinal

-----------------------------------------------------------------------------
(* The in-flight cap, where write transactions are serialised.             *)

CapInv ==
    /\ InFlightCapped
    /\ admitted # {} => Cardinality(InFlight) < MaxInFlight
    /\ \A x, y \in admitted : x = y

\* There are finitely many runs in flight.
LEMMA InFlightFinite ==
    /\ IsFiniteSet(InFlight)
    /\ IsFiniteSet(InFlight')
    /\ Cardinality(InFlight) \in Nat
    /\ Cardinality(InFlight') \in Nat
  <1>1. IsFiniteSet(InFlight) /\ IsFiniteSet(InFlight')
    BY ConstantsAssumption, FS_Subset DEF InFlight
  <1> QED
    BY <1>1, FS_CardinalityType

\* The count taken by an open submission still holds when it commits.
LEMMA CapStep ==
    ASSUME SerialWriters, IInv, CapInv, [Next]_vars PROVE CapInv'
  <1>1. InFlightMoves
    BY InFlightStep
  <1>2. MaxInFlight \in Nat
    BY ConstantsAssumption
  <1>3. CASE InFlight' \subseteq InFlight /\ admitted' \subseteq admitted
    <2>1. Cardinality(InFlight') <= Cardinality(InFlight)
      BY <1>3, InFlightFinite, FS_Subset
    <2> QED
      BY <1>2, <1>3, <2>1, InFlightFinite DEF CapInv, InFlightCapped
  <1>4. ASSUME NEW x \in Transaction, BeginSubmit(x) PROVE CapInv'
    <2>1. InFlight' = InFlight
      BY <1>4 DEF BeginSubmit, control, InFlight
    <2>2. admitted' = {x} /\ Cardinality(InFlight) < MaxInFlight
      BY <1>4 DEF BeginSubmit, HasCapacity
    <2> QED
      BY <1>2, <2>1, <2>2, InFlightFinite DEF CapInv, InFlightCapped
  <1>5. ASSUME NEW x \in admitted, InFlight' = InFlight \cup {x.run},
               admitted' = admitted \ {x}
        PROVE  CapInv'
    <2>1. admitted' = {} /\ Cardinality(InFlight) < MaxInFlight
      BY <1>5 DEF CapInv
    <2>2. Cardinality(InFlight') <= Cardinality(InFlight) + 1
      BY <1>5, InFlightFinite, FS_AddElement
    <2> QED
      BY <1>2, <2>1, <2>2, InFlightFinite DEF CapInv, InFlightCapped
  <1> QED
    BY <1>1, <1>3, <1>4, <1>5 DEF InFlightMoves

\* With serialised writers (SQLite) the cap MaxInFlightRuns is never exceeded.
THEOREM CapHolds == ASSUME SerialWriters PROVE Spec => []InFlightCapped
  <1>1. Init => CapInv
    <2> SUFFICES ASSUME Init PROVE CapInv
      OBVIOUS
    <2>1. InFlight = {}
      BY DEF Init, InFlight, Unfinished
    <2> QED
      BY <2>1, FS_EmptySet, ConstantsAssumption DEF Init, CapInv, InFlightCapped
  <1>2. IInv /\ CapInv /\ [Next]_vars => CapInv'
    BY CapStep
  <1>3. CapInv => InFlightCapped
    BY DEF CapInv
  <1> QED
    BY <1>1, <1>2, <1>3, Invariance, PTL DEF Spec

=============================================================================
