---------------------------- MODULE EvalHarness -----------------------------
(***************************************************************************)
(* scripts/run_eval.py: the offline harness submits every case of a        *)
(* dataset, a few at a time, polls the session, approves what awaits       *)
(* approval, polls again and reads the result.  The sessions behave as     *)
(* ApprovalLifecycle promises; another reviewer may be faster.             *)
(*                                                                         *)
(* The clock is abstracted: while a session is not found or running, a     *)
(* poll may be the last one.  Every request may fail or its answer be      *)
(* lost, with the request done or not.                                     *)
(***************************************************************************)
EXTENDS Naturals, FiniteSets

CONSTANTS Cases,
          Concurrency, \* the semaphore's initial value
          NONE         \* not known

ASSUME HarnessAssumption ==
  /\ IsFiniteSet(Cases)
  /\ Concurrency \in Nat \ {0}
  /\ NONE \notin BOOLEAN

VARIABLES
  phase, verdict, \* the session of each case, on the server
  submitted,      \* cases whose workflow was submitted
  slots,          \* what is left of the semaphore
  pc,             \* where each call of _run_case is
  polls,          \* how often it has polled to an end: 0, 1 or 2
  seen,           \* the status its latest poll returned
  out             \* the record it returns

server == <<phase, verdict, submitted>>
vars == <<phase, verdict, submitted, slots, pc, polls, seen, out>>

Lifecycle(c) == INSTANCE ApprovalLifecycle WITH phase <- phase[c], verdict <- verdict[c]

Phases ==
  {"not_found", "running", "awaiting_approval", "completed", "rejected", "failed"}
Verdicts == {"none", "auto", "approved", "rejected"}
Settled(p) == p \in {"completed", "rejected", "failed"}

PCs ==
  {"waiting", "submit", "poll", "polled", "approve", "approving", "result", "done"}
Outs ==
  [status : Phases \cup {"error", "timeout"}, auto : BOOLEAN \cup {NONE}, error : BOOLEAN]

TypeOK ==
  /\ phase \in [Cases -> Phases]
  /\ verdict \in [Cases -> Verdicts]
  /\ submitted \subseteq Cases
  /\ slots \in 0 .. Concurrency
  /\ pc \in [Cases -> PCs]
  /\ polls \in [Cases -> 0 .. 2]
  /\ seen \in [Cases -> Phases]
  /\ out \in [Cases -> Outs]

Init ==
  /\ phase = [c \in Cases |-> "not_found"]
  /\ verdict = [c \in Cases |-> "none"]
  /\ submitted = {}
  /\ slots = Concurrency
  /\ pc = [c \in Cases |-> "waiting"]
  /\ polls = [c \in Cases |-> 0]
  /\ seen = [c \in Cases |-> "not_found"]
  /\ out = [c \in Cases |-> [status |-> "error", auto |-> NONE, error |-> FALSE]]

\* A session starts once it was submitted, and may be decided by others.
ServerStep(c) ==
  /\ c \in submitted
  /\ \/ UNCHANGED verdict /\ \E p \in Phases : phase' = [phase EXCEPT ![c] = p]
     \/ UNCHANGED phase /\ \E v \in Verdicts : verdict' = [verdict EXCEPT ![c] = v]
  /\ Lifecycle(c)!Next
  /\ UNCHANGED <<submitted, slots, pc, polls, seen, out>>

-----------------------------------------------------------------------------
Goto(c, l) == pc' = [pc EXCEPT ![c] = l]

\* Mutant: the cases do not wait for each other.
EnterAnyway(c) ==
  /\ pc[c] = "waiting"
  /\ slots' = slots - 1
  /\ Goto(c, "submit")
  /\ UNCHANGED <<server, polls, seen, out>>

\* async with sem.
Enter(c) ==
  /\ pc[c] = "waiting" /\ slots > 0
  /\ slots' = slots - 1
  /\ Goto(c, "submit")
  /\ UNCHANGED <<server, polls, seen, out>>

Submit(c) ==
  /\ pc[c] = "submit"
  /\ submitted' = submitted \cup {c}
  /\ Goto(c, "poll")
  /\ UNCHANGED <<phase, verdict, slots, polls, seen, out>>

Poll(c) ==
  /\ pc[c] = "poll"
  /\ seen' = [seen EXCEPT ![c] = phase[c]]
  /\ Goto(c, "polled")
  /\ UNCHANGED <<server, slots, polls, out>>

\* Sleep and poll again.
PollOn(c) ==
  /\ pc[c] = "polled" /\ seen[c] \in {"not_found", "running"}
  /\ Goto(c, "poll")
  /\ UNCHANGED <<server, slots, polls, seen, out>>

\* What _poll returns at its end; a first poll may find a session to approve.
Return(c, status) ==
  /\ polls' = [polls EXCEPT ![c] = @ + 1]
  /\ IF status = "awaiting_approval" /\ polls[c] = 0
     THEN /\ Goto(c, "approve")
          /\ UNCHANGED <<slots, out>>
     ELSE /\ out' = [out EXCEPT ![c].status = status]
          /\ Goto(c, IF status = "completed" THEN "result" ELSE "done")
          /\ slots' = IF status = "completed" THEN slots ELSE slots + 1
  /\ UNCHANGED <<server, seen>>

Answered(c) ==
  /\ pc[c] = "polled" /\ seen[c] \notin {"not_found", "running"}
  /\ Return(c, seen[c])

\* Mutant: at the deadline _poll returns the status it has.
GiveUpAsSeen(c) ==
  /\ pc[c] = "polled" /\ seen[c] \in {"not_found", "running"}
  /\ Return(c, seen[c])

\* The deadline, or the 60 seconds a session may stay unknown.
GiveUp(c) ==
  /\ pc[c] = "polled"
  /\ \/ seen[c] = "running" /\ Return(c, "timeout")
     \/ seen[c] = "not_found" /\ Return(c, "not_found")

\* Mutant: the answer to an approval is not waited for.
ApproveWithoutWaiting(c) ==
  /\ pc[c] = "approve"
  /\ UNCHANGED phase
  /\ verdict' = [verdict EXCEPT ![c] = "approved"]
  /\ Lifecycle(c)!Decide
  /\ Goto(c, "poll")
  /\ UNCHANGED <<submitted, slots, polls, seen, out>>

\* _approve: the server takes the decision if the session still awaits it ...
Approve(c) ==
  /\ pc[c] = "approve"
  /\ UNCHANGED phase
  /\ verdict' = [verdict EXCEPT ![c] = "approved"]
  /\ Lifecycle(c)!Decide
  /\ Goto(c, "approving")
  /\ UNCHANGED <<submitted, slots, polls, seen, out>>

\* ... and answers when the resumed run has ended.
ApproveReturns(c) ==
  /\ pc[c] = "approving" /\ Settled(phase[c])
  /\ Goto(c, "poll")
  /\ UNCHANGED <<server, slots, polls, seen, out>>

\* The result of a completed session, scored.
Result(c) ==
  /\ pc[c] = "result" /\ phase[c] = "completed"
  /\ out' = [out EXCEPT ![c].auto = (verdict[c] = "auto")]
  /\ Goto(c, "done")
  /\ slots' = slots + 1
  /\ UNCHANGED <<server, polls, seen>>

Working(c) == pc[c] \notin {"waiting", "done"}

\* Mutant: the slot is given back by hand, not by async with.
RequestFailsHolding(c) ==
  /\ Working(c)
  /\ submitted' \in {submitted, submitted \cup {c}}
  /\ pc[c] # "submit" => UNCHANGED submitted
  /\ out' = [out EXCEPT ![c].error = TRUE]
  /\ Goto(c, "done")
  /\ UNCHANGED <<phase, verdict, slots, polls, seen>>

\* A refused, failed or timed out request ends the case with what it knows so
\* far.  A submission that failed may have started the workflow; what a failed
\* approval still decides is one more decision of another reviewer.
RequestFails(c) ==
  /\ Working(c)
  /\ submitted' \in {submitted, submitted \cup {c}}
  /\ pc[c] # "submit" => UNCHANGED submitted
  /\ out' = [out EXCEPT ![c].error = TRUE]
  /\ Goto(c, "done")
  /\ slots' = slots + 1
  /\ UNCHANGED <<phase, verdict, polls, seen>>

Step(c) ==
  \/ Enter(c) \/ Submit(c) \/ Poll(c) \/ PollOn(c) \/ Answered(c) \/ GiveUp(c)
  \/ Approve(c) \/ ApproveReturns(c) \/ Result(c) \/ RequestFails(c)

Next == \E c \in Cases : ServerStep(c) \/ Step(c)

Spec == Init /\ [][Next]_vars

(***************************************************************************)
(* Fairness: every request ends, with an answer or its timeout; a freed    *)
(* slot is taken; and time passes, so no session is polled for ever.       *)
(***************************************************************************)
FairSpec ==
  /\ Spec
  /\ \A c \in Cases : SF_vars(Enter(c)) /\ WF_vars(Step(c)) /\ SF_vars(GiveUp(c))

-----------------------------------------------------------------------------
(***************************************************************************)
(* Properties.                                                             *)
(***************************************************************************)
ReportIsTrue(c) ==
  pc[c] = "done" =>
    /\ out[c].status # "awaiting_approval"
    /\ Settled(out[c].status) => phase[c] = out[c].status
    /\ out[c].auto # NONE => out[c].auto = (verdict[c] = "auto")

\* A report is true of its session, though read earlier and over several
\* requests; it never says that a session awaits approval, because the
\* approval is answered only when the session has settled.
ReportsAreTrue == \A c \in Cases : ReportIsTrue(c)

UnsettledIsSaid(c) ==
  c \in submitted /\ pc[c] = "done" /\ ~Settled(phase[c]) =>
    out[c].status \in {"timeout", "not_found"} \/ out[c].error

\* A workflow that nobody waits for any more is reported as such.
NothingIsLeftUnsaid == \A c \in Cases : UnsettledIsSaid(c)

\* No more cases at a time than asked for, whatever fails.
Workers == {c \in Cases : Working(c)}
AtMostConcurrency == Cardinality(Workers) <= Concurrency

(***************************************************************************)
(* The inductive invariant: every slot is free or held by one case, and    *)
(* what a case has read is stable when it is used.                         *)
(***************************************************************************)
SlotsCounted == slots + Cardinality(Workers) = Concurrency

CaseSound(c) ==
  /\ pc[c] \in {"poll", "polled", "approve", "approving", "result"} => c \in submitted
  /\ pc[c] \in {"poll", "polled"} => polls[c] \in {0, 1}
  /\ pc[c] \in {"poll", "polled"} /\ polls[c] = 1 => Settled(phase[c])
  /\ pc[c] = "polled" /\ polls[c] = 1 => Settled(seen[c])
  /\ pc[c] = "polled" /\ Settled(seen[c]) => phase[c] = seen[c]
  /\ pc[c] \in {"waiting", "submit"} => polls[c] = 0
  /\ pc[c] \in {"approve", "approving"} => polls[c] = 1
  /\ pc[c] = "result" => out[c].status = "completed" /\ phase[c] = "completed"
  /\ pc[c] \notin {"done", "result"} => out[c].status = "error"
  /\ pc[c] # "done" => out[c].auto = NONE
  /\ out[c].auto # NONE => Settled(phase[c])
  /\ ReportIsTrue(c) /\ UnsettledIsSaid(c)

Inv == TypeOK /\ SlotsCounted /\ \A c \in Cases : CaseSound(c)

\* gather returns: every case ends, whatever the server does.
EveryCaseEnds == \A c \in Cases : <>(pc[c] = "done")
=============================================================================
