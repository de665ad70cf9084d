---------------------------- MODULE SessionEvents ---------------------------
(***************************************************************************)
(* Session event logs and what pkg/core reads off them: the run index      *)
(* behind Session.RunStatus and PendingApproval (session.go) and           *)
(* RepairInterrupted (repair.go).                                          *)
(*                                                                         *)
(* An event keeps its run, its kind and the tool calls it names: those of  *)
(* an assistant message, in order; the one of a tool/call, tool/result or  *)
(* approval/resolved; for approval/requested the gated call and then the   *)
(* calls that remain (ResumeCall, RemainingCalls).  An approval is         *)
(* identified by its run and call.  A kind in Ends stands for run/end with *)
(* that status and the run/error that precedes it.                         *)
(***************************************************************************)
EXTENDS SequencesExt

CONSTANT NoRun

Ends == {"completed", "limited", "failed", "cancelled"}

Kinds == {"start", "resume", "step", "stepEnd", "message",
          "call", "result", "ask", "resolved"} \cup Ends

Event(r, kind, calls) == [run |-> r, kind |-> kind, calls |-> calls]

Of(events, r) == {events[i] : i \in {j \in DOMAIN events : events[j].run = r}}

KindsOf(events, r) == {v.kind : v \in Of(events, r)}

\* The calls of a run with an event of this kind.
Named(events, r, kind) == {v.calls[1] : v \in {u \in Of(events, r) : u.kind = kind}}

\* runIndexEntry.pending.
Pending(events, r) == Named(events, r, "ask") \ Named(events, r, "resolved")

\* Mutant: an unresolved approval outweighs the end of its run.
RunStatusPendingFirst(events, r) ==
    LET K == KindsOf(events, r)
        first == SelectInSeq(events, LAMBDA v : v.run = r /\ v.kind \in Ends)
    IN CASE Pending(events, r) # {} -> "waiting"
         [] first # 0 /\ Pending(events, r) = {} -> events[first].kind
         [] OTHER -> IF "start" \in K THEN "open" ELSE "none"

\* Session.RunStatus; "none" when the run is not in the log, "open" when it is
\* started and neither ended nor suspended.  The first run/end counts.
RunStatus(events, r) ==
    LET K == KindsOf(events, r)
        first == SelectInSeq(events, LAMBDA v : v.run = r /\ v.kind \in Ends)
    IN CASE first # 0 -> events[first].kind
         [] first = 0 /\ Pending(events, r) # {} -> "waiting"
         [] OTHER -> IF "start" \in K THEN "open" ELSE "none"

\* Session.PendingApproval: the latest request that is not resolved.
PendingApproval(events, r) ==
    events[SelectLastInSubSeq(events, 1, Len(events), LAMBDA v :
               v.run = r /\ v.kind = "ask" /\ v.calls[1] \in Pending(events, r))].calls

-----------------------------------------------------------------------------
(* RepairInterrupted.                                                      *)

\* What the scan remembers of the most recent, still open run.
Scan(r) == [run |-> r, stepOpen |-> FALSE, expected |-> <<>>, inFlight |-> <<>>,
            approvals |-> {}]

Without(calls, c) == SelectSeq(calls, LAMBDA d : d # c)
With(calls, c) == Append(Without(calls, c), c)

\* Mutant: an approval request is an event like any other.
TrackIgnoresApproval(t, v) ==
    CASE v.kind = "start" -> Scan(v.run)
      [] v.kind \in Ends -> Scan(NoRun)
      [] t.run # NoRun /\ v.kind \in {"step", "stepEnd"} ->
            [t EXCEPT !.stepOpen = v.kind = "step"]
      [] t.run # NoRun /\ v.kind = "message" -> [t EXCEPT !.expected = @ \o v.calls]
      [] t.run # NoRun /\ v.kind = "call" ->
            [t EXCEPT !.expected = Without(@, v.calls[1]), !.inFlight = With(@, v.calls[1])]
      [] t.run # NoRun /\ v.kind = "result" ->
            [t EXCEPT !.expected = Without(@, v.calls[1]), !.inFlight = Without(@, v.calls[1])]
      [] OTHER -> t

\* Mutant: the calls an assistant message announces are not tracked.
TrackIgnoresMessage(t, v) ==
    CASE v.kind = "start" -> Scan(v.run)
      [] v.kind \in Ends -> Scan(NoRun)
      [] t.run # NoRun /\ v.kind \in {"step", "stepEnd"} ->
            [t EXCEPT !.stepOpen = v.kind = "step"]
      [] t.run # NoRun /\ v.kind = "call" -> [t EXCEPT !.inFlight = With(@, v.calls[1])]
      [] t.run # NoRun /\ v.kind = "result" -> [t EXCEPT !.inFlight = Without(@, v.calls[1])]
      [] t.run # NoRun /\ v.kind = "ask" -> [t EXCEPT !.approvals = @ \cup {<<v.run, v.calls[1]>>}]
      [] t.run # NoRun /\ v.kind = "resolved" -> [t EXCEPT !.approvals = @ \ {<<v.run, v.calls[1]>>}]
      [] OTHER -> t

\* One iteration of the scan.  A run/end of any run ends it; the calls are kept
\* in log order where the code sorts them by id.
Track(t, v) ==
    CASE v.kind = "start" -> Scan(v.run)
      [] v.kind \in Ends -> Scan(NoRun)
      [] t.run # NoRun /\ v.kind \in {"step", "stepEnd"} ->
            [t EXCEPT !.stepOpen = v.kind = "step"]
      [] t.run # NoRun /\ v.kind = "message" -> [t EXCEPT !.expected = @ \o v.calls]
      [] t.run # NoRun /\ v.kind = "call" ->
            [t EXCEPT !.expected = Without(@, v.calls[1]), !.inFlight = With(@, v.calls[1])]
      [] t.run # NoRun /\ v.kind = "result" ->
            [t EXCEPT !.expected = Without(@, v.calls[1]), !.inFlight = Without(@, v.calls[1])]
      [] t.run # NoRun /\ v.kind = "ask" -> [t EXCEPT !.approvals = @ \cup {<<v.run, v.calls[1]>>}]
      [] t.run # NoRun /\ v.kind = "resolved" -> [t EXCEPT !.approvals = @ \ {<<v.run, v.calls[1]>>}]
      [] OTHER -> t

\* The synthetic suffix: results for the calls that never completed, step/end
\* for an open step, run/error and run/end.
RepairInterrupted(events) ==
    LET t == FoldLeft(Track, Scan(NoRun), events)
        lost == t.expected \o t.inFlight
    IN IF t.run = NoRun \/ t.approvals # {} THEN <<>>
       ELSE [i \in 1..Len(lost) |-> Event(t.run, "result", <<lost[i]>>)]
            \o (IF t.stepOpen THEN <<Event(t.run, "stepEnd", <<>>)>> ELSE <<>>)
            \o <<Event(t.run, "failed", <<>>)>>

=============================================================================
