------------------------- MODULE EvalHarnessProofs --------------------------
(***************************************************************************)
(* Proofs about EvalHarness: the inductive invariant, and from it that the *)
(* reports are true, complete and made at most Concurrency at a time.      *)
(***************************************************************************)
EXTENDS EvalHarness, FiniteSetTheorems, TLAPS

\* The sessions: a settled one does not change, a verdict is never overturned.
LEMMA LifecycleStable ==
  ASSUME TypeOK, NEW c \in Cases, ServerStep(c)
  PROVE  /\ phase' \in [Cases -> Phases]
         /\ verdict' \in [Cases -> Verdicts]
         /\ \A d \in Cases \ {c} : phase'[d] = phase[d] /\ verdict'[d] = verdict[d]
         /\ Settled(phase[c]) => phase'[c] = phase[c] /\ verdict'[c] = verdict[c]
<1>1. /\ phase' \in [Cases -> Phases]
      /\ verdict' \in [Cases -> Verdicts]
      /\ \A d \in Cases \ {c} : phase'[d] = phase[d] /\ verdict'[d] = verdict[d]
  BY DEF TypeOK, ServerStep
<1>2. Lifecycle(c)!Next
  BY DEF ServerStep
<1>3. ~Settled(phase[c])
  BY <1>2 DEF Settled, Lifecycle!Next, Lifecycle!Start, Lifecycle!AutoApprove, Lifecycle!Pause,
     Lifecycle!Decide, Lifecycle!Resume, Lifecycle!Release, Lifecycle!Fail
<1> QED BY <1>1, <1>3

\* A case that a step does not touch stays sound.
LEMMA UntouchedCase ==
  ASSUME NEW d \in Cases, CaseSound(d),
         phase'[d] = phase[d], verdict'[d] = verdict[d], d \in submitted' <=> d \in submitted,
         pc'[d] = pc[d], polls'[d] = polls[d], seen'[d] = seen[d], out'[d] = out[d]
  PROVE  CaseSound(d)'
BY DEF CaseSound, ReportIsTrue, UnsettledIsSaid

-----------------------------------------------------------------------------
(***************************************************************************)
(* The semaphore.                                                          *)
(***************************************************************************)
LEMMA WorkersFinite == IsFiniteSet(Workers) /\ Cardinality(Workers) \in Nat
<1>1. Workers \subseteq Cases
  BY DEF Workers
<1> QED BY <1>1, HarnessAssumption, FS_Subset, FS_CardinalityType

\* A case that goes on holds what it held.
LEMMA SlotKept ==
  ASSUME SlotsCounted, UNCHANGED slots, \A d \in Cases : Working(d)' <=> Working(d)
  PROVE  SlotsCounted'
<1>1. Workers' = Workers
  BY DEF Workers
<1> QED BY <1>1 DEF SlotsCounted

LEMMA SlotTaken ==
  ASSUME SlotsCounted, slots \in Nat, NEW c \in Cases, ~Working(c), Working(c)',
         \A d \in Cases \ {c} : Working(d)' <=> Working(d),
         slots > 0, slots' = slots - 1
  PROVE  SlotsCounted'
<1>1. Workers' = Workers \cup {c} /\ c \notin Workers
  BY DEF Workers
<1>2. Cardinality(Workers') = Cardinality(Workers) + 1
  BY <1>1, WorkersFinite, FS_AddElement
<1> QED BY <1>2, WorkersFinite DEF SlotsCounted

LEMMA SlotGivenBack ==
  ASSUME SlotsCounted, slots \in Nat, NEW c \in Cases, Working(c), ~Working(c)',
         \A d \in Cases \ {c} : Working(d)' <=> Working(d),
         slots' = slots + 1
  PROVE  SlotsCounted' /\ slots' \in 0 .. Concurrency
<1>1. Workers' = Workers \ {c} /\ c \in Workers
  BY DEF Workers
<1>2. Cardinality(Workers') = Cardinality(Workers) - 1 /\ Cardinality(Workers) > 0
  <2>1. Cardinality(Workers') = Cardinality(Workers) - 1
    BY <1>1, WorkersFinite, FS_RemoveElement
  <2>2. Cardinality(Workers) # 0
    BY <1>1, WorkersFinite, FS_EmptySet
  <2> QED BY <2>1, <2>2, WorkersFinite
<1> QED BY <1>2, WorkersFinite, HarnessAssumption DEF SlotsCounted

-----------------------------------------------------------------------------
(***************************************************************************)
(* The steps of one case, for the case itself.                             *)
(***************************************************************************)
\* The step of c changes the harness's state at c only.
Local(c) ==
  /\ \A d \in Cases \ {c} : /\ phase'[d] = phase[d] /\ verdict'[d] = verdict[d]
                            /\ d \in submitted' <=> d \in submitted
                            /\ pc'[d] = pc[d] /\ polls'[d] = polls[d]
                            /\ seen'[d] = seen[d] /\ out'[d] = out[d]

LEMMA LocalSound ==
  ASSUME Inv, NEW c \in Cases, Local(c), CaseSound(c)', TypeOK', SlotsCounted'
  PROVE  Inv'
<1>1. \A d \in Cases \ {c} : CaseSound(d)'
  BY UntouchedCase DEF Inv, Local
<1> QED BY <1>1 DEF Inv

\* A step that neither takes nor gives back a slot.
LEMMA KeepsSlot ==
  ASSUME Inv, NEW c \in Cases, Local(c), CaseSound(c)', TypeOK', UNCHANGED slots,
         Working(c)' <=> Working(c)
  PROVE  Inv'
<1>1. \A d \in Cases : Working(d)' <=> Working(d)
  BY DEF Local, Working
<1>2. SlotsCounted'
  BY <1>1, SlotKept DEF Inv
<1> QED BY <1>2, LocalSound

LEMMA InitInv == Init => Inv
<1> SUFFICES ASSUME Init PROVE Inv
  OBVIOUS
<1>1. TypeOK
  BY HarnessAssumption DEF Init, TypeOK, Phases, Verdicts, PCs, Outs
<1>2. SlotsCounted
  <2>1. Workers = {}
    BY DEF Init, Workers, Working
  <2>2. Cardinality({}) = 0
    BY FS_EmptySet
  <2> QED BY <2>1, <2>2, HarnessAssumption DEF Init, SlotsCounted
<1>3. \A c \in Cases : CaseSound(c)
  BY DEF Init, CaseSound, ReportIsTrue, UnsettledIsSaid
<1> QED BY <1>1, <1>2, <1>3 DEF Inv

LEMMA ServerStepInv ==
  ASSUME Inv, NEW c \in Cases, ServerStep(c)
  PROVE  Inv'
<1>1. UNCHANGED <<submitted, slots, pc, polls, seen, out>>
  BY DEF ServerStep
<1>2. /\ phase' \in [Cases -> Phases] /\ verdict' \in [Cases -> Verdicts]
      /\ \A d \in Cases \ {c} : phase'[d] = phase[d] /\ verdict'[d] = verdict[d]
      /\ Settled(phase[c]) => phase'[c] = phase[c] /\ verdict'[c] = verdict[c]
  BY LifecycleStable DEF Inv
<1>3. TypeOK' /\ Local(c)
  BY <1>1, <1>2 DEF Inv, TypeOK, Local
<1>4. CaseSound(c)'
  <2>1. CASE Settled(phase[c])
    BY <1>1, <1>2, <2>1, UntouchedCase DEF Inv
  <2>2. CASE ~Settled(phase[c])
    <3>1. CaseSound(c)
      BY DEF Inv
    <3> QED BY <1>1, <2>2, <3>1 DEF CaseSound, ReportIsTrue, UnsettledIsSaid, Settled
  <2> QED BY <2>1, <2>2
<1> QED BY <1>1, <1>3, <1>4, KeepsSlot DEF Working
LEMMA SubmitInv ==
  ASSUME Inv, NEW c \in Cases, Submit(c)
  PROVE  Inv'
<1>1. CaseSound(c) /\ TypeOK
  BY DEF Inv
<1>2. TypeOK'
  BY <1>1 DEF Submit, TypeOK, Goto, PCs, server
<1>3. Local(c) /\ UNCHANGED slots /\ (Working(c)' <=> Working(c))
  BY <1>1 DEF Submit, TypeOK, Goto, Local, Working, server
<1>4. CaseSound(c)'
  BY <1>1 DEF Submit, TypeOK, Goto, server, CaseSound, ReportIsTrue, UnsettledIsSaid, Settled
<1> QED BY <1>2, <1>3, <1>4, KeepsSlot

LEMMA PollInv ==
  ASSUME Inv, NEW c \in Cases, Poll(c)
  PROVE  Inv'
<1>1. CaseSound(c) /\ TypeOK
  BY DEF Inv
<1>2. TypeOK'
  BY <1>1 DEF Poll, TypeOK, Goto, PCs, server
<1>3. Local(c) /\ UNCHANGED slots /\ (Working(c)' <=> Working(c))
  BY <1>1 DEF Poll, TypeOK, Goto, Local, Working, server
<1>4. CaseSound(c)'
  BY <1>1 DEF Poll, TypeOK, Goto, server, CaseSound, ReportIsTrue, UnsettledIsSaid, Settled
<1> QED BY <1>2, <1>3, <1>4, KeepsSlot

LEMMA PollOnInv ==
  ASSUME Inv, NEW c \in Cases, PollOn(c)
  PROVE  Inv'
<1>1. CaseSound(c) /\ TypeOK
  BY DEF Inv
<1>2. TypeOK'
  BY <1>1 DEF PollOn, TypeOK, Goto, PCs, server
<1>3. Local(c) /\ UNCHANGED slots /\ (Working(c)' <=> Working(c))
  BY <1>1 DEF PollOn, TypeOK, Goto, Local, Working, server
<1>4. CaseSound(c)'
  BY <1>1 DEF PollOn, TypeOK, Goto, server, CaseSound, ReportIsTrue, UnsettledIsSaid, Settled
<1> QED BY <1>2, <1>3, <1>4, KeepsSlot

LEMMA ApproveReturnsInv ==
  ASSUME Inv, NEW c \in Cases, ApproveReturns(c)
  PROVE  Inv'
<1>1. CaseSound(c) /\ TypeOK
  BY DEF Inv
<1>2. TypeOK'
  BY <1>1 DEF ApproveReturns, TypeOK, Goto, PCs, server
<1>3. Local(c) /\ UNCHANGED slots /\ (Working(c)' <=> Working(c))
  BY <1>1 DEF ApproveReturns, TypeOK, Goto, Local, Working, server
<1>4. CaseSound(c)'
  BY <1>1 DEF ApproveReturns, TypeOK, Goto, server, CaseSound, ReportIsTrue, UnsettledIsSaid, Settled
<1> QED BY <1>2, <1>3, <1>4, KeepsSlot

LEMMA ApproveInv ==
  ASSUME Inv, NEW c \in Cases, Approve(c)
  PROVE  Inv'
<1>1. CaseSound(c) /\ TypeOK
  BY DEF Inv
<1>2. TypeOK'
  BY <1>1 DEF Approve, TypeOK, Goto, PCs, Verdicts
<1>3. Local(c) /\ UNCHANGED slots /\ (Working(c)' <=> Working(c))
  BY <1>1 DEF Approve, TypeOK, Goto, Local, Working
<1>4. phase[c] = "awaiting_approval"
  BY DEF Approve, Lifecycle!Decide
<1>5. CaseSound(c)'
  BY <1>1, <1>4 DEF Approve, TypeOK, Goto, CaseSound, ReportIsTrue, UnsettledIsSaid, Settled
<1> QED BY <1>2, <1>3, <1>5, KeepsSlot

LEMMA EnterInv ==
  ASSUME Inv, NEW c \in Cases, Enter(c)
  PROVE  Inv'
<1>1. CaseSound(c) /\ TypeOK /\ SlotsCounted
  BY DEF Inv
<1>2. TypeOK'
  BY <1>1, HarnessAssumption DEF Enter, TypeOK, Goto, PCs, server
<1>3. Local(c) /\ ~Working(c) /\ Working(c)'
  BY <1>1 DEF Enter, TypeOK, Goto, Local, Working, server
<1>4. SlotsCounted'
  <2>1. \A d \in Cases \ {c} : Working(d)' <=> Working(d)
    BY <1>3 DEF Local, Working
  <2> QED BY <1>1, <1>3, <2>1, SlotTaken, HarnessAssumption DEF Enter, TypeOK
<1>5. CaseSound(c)'
  BY <1>1 DEF Enter, TypeOK, Goto, server, CaseSound, ReportIsTrue, UnsettledIsSaid
<1> QED BY <1>2, <1>3, <1>4, <1>5, LocalSound

\* A step that ends the case gives its slot back.
LEMMA EndsCase ==
  ASSUME Inv, NEW c \in Cases, Local(c), CaseSound(c)', Working(c), pc'[c] = "done",
         slots' = slots + 1, slots' \in 0 .. Concurrency => TypeOK'
  PROVE  Inv'
<1>1. ~Working(c)' /\ \A d \in Cases \ {c} : Working(d)' <=> Working(d)
  BY DEF Local, Working
<1>2. slots \in Nat
  BY HarnessAssumption DEF Inv, TypeOK
<1>3. SlotsCounted' /\ slots' \in 0 .. Concurrency
  BY <1>1, <1>2, SlotGivenBack DEF Inv
<1> QED BY <1>3, LocalSound

LEMMA ResultInv ==
  ASSUME Inv, NEW c \in Cases, Result(c)
  PROVE  Inv'
<1>1. CaseSound(c) /\ TypeOK
  BY DEF Inv
<1>2. /\ out' = [out EXCEPT ![c] = [out[c] EXCEPT !.auto = (verdict[c] = "auto")]]
      /\ [out[c] EXCEPT !.auto = (verdict[c] = "auto")] \in Outs
  BY <1>1 DEF Result, TypeOK, Outs
<1>3. slots' \in 0 .. Concurrency => TypeOK'
  BY <1>1, <1>2 DEF Result, TypeOK, Goto, PCs, server
<1>4. Local(c) /\ Working(c) /\ pc'[c] = "done" /\ slots' = slots + 1
  BY <1>1 DEF Result, TypeOK, Goto, Local, Working, server
<1>5. /\ out'[c].status = out[c].status /\ out'[c].auto = (verdict[c] = "auto")
      /\ out'[c].error = out[c].error
  BY <1>1, <1>2 DEF TypeOK, Outs
<1>6. CaseSound(c)'
  BY <1>1, <1>4, <1>5
     DEF Result, TypeOK, Goto, server, CaseSound, ReportIsTrue, UnsettledIsSaid, Settled
<1> QED BY <1>3, <1>4, <1>6, EndsCase

LEMMA RequestFailsInv ==
  ASSUME Inv, NEW c \in Cases, RequestFails(c)
  PROVE  Inv'
<1>1. CaseSound(c) /\ TypeOK
  BY DEF Inv
<1>2. /\ out' = [out EXCEPT ![c] = [out[c] EXCEPT !.error = TRUE]]
      /\ [out[c] EXCEPT !.error = TRUE] \in Outs
  BY <1>1 DEF RequestFails, TypeOK, Outs
<1>3. slots' \in 0 .. Concurrency => TypeOK'
  BY <1>1, <1>2 DEF RequestFails, TypeOK, Goto, PCs
<1>4. Local(c) /\ Working(c) /\ pc'[c] = "done" /\ slots' = slots + 1
  BY <1>1 DEF RequestFails, TypeOK, Goto, Local, Working
<1>5. /\ out'[c].status = out[c].status /\ out'[c].auto = out[c].auto
      /\ out'[c].error = TRUE
  BY <1>1, <1>2 DEF TypeOK, Outs
<1>6. CaseSound(c)'
  BY <1>1, <1>4, <1>5
     DEF RequestFails, TypeOK, Goto, Working, CaseSound, ReportIsTrue, UnsettledIsSaid, Settled
<1> QED BY <1>3, <1>4, <1>6, EndsCase

\* What _poll returns ends the case, or leads to the approval or the result.
LEMMA ReturnInv ==
  ASSUME Inv, NEW c \in Cases, pc[c] = "polled",
         NEW status \in Phases \cup {"timeout"}, Return(c, status),
         \/ status = seen[c] /\ seen[c] # "running"
         \/ status = "timeout" /\ seen[c] = "running"
  PROVE  Inv'
<1>1. CaseSound(c) /\ TypeOK /\ Working(c)
  BY DEF Inv, Working
<1>2. /\ polls[c] \in {0, 1} /\ polls' = [polls EXCEPT ![c] = polls[c] + 1]
      /\ UNCHANGED <<phase, verdict, submitted, seen>>
  BY <1>1 DEF Return, CaseSound, server, TypeOK
<1>3. CASE status = "awaiting_approval" /\ polls[c] = 0
  <2>1. pc' = [pc EXCEPT ![c] = "approve"] /\ UNCHANGED <<slots, out>>
    BY <1>3 DEF Return, Goto
  <2>2. TypeOK' /\ Local(c) /\ (Working(c)' <=> Working(c))
    BY <1>1, <1>2, <2>1 DEF TypeOK, PCs, Local, Working
  <2>3. CaseSound(c)'
    BY <1>1, <1>2, <1>3, <2>1 DEF TypeOK, CaseSound, ReportIsTrue, UnsettledIsSaid
  <2> QED BY <2>1, <2>2, <2>3, KeepsSlot
<1>4. CASE ~(status = "awaiting_approval" /\ polls[c] = 0)
  <2> DEFINE o == [out[c] EXCEPT !.status = status]
  <2>1. /\ out' = [out EXCEPT ![c] = o]
        /\ pc' = [pc EXCEPT ![c] = IF status = "completed" THEN "result" ELSE "done"]
        /\ slots' = IF status = "completed" THEN slots ELSE slots + 1
    BY <1>1, <1>4 DEF Return, Goto, TypeOK
  <2>2. /\ o \in Outs /\ o.status = status /\ o.auto = out[c].auto /\ o.error = out[c].error
    BY <1>1 DEF TypeOK, Outs
  <2> HIDE DEF o
  <2>3. slots' \in 0 .. Concurrency => TypeOK'
    BY <1>1, <1>2, <2>1, <2>2 DEF TypeOK, PCs
  <2>4. Local(c)
    BY <1>1, <1>2, <2>1 DEF TypeOK, Local
  <2>5. out'[c] = o /\ pc'[c] = IF status = "completed" THEN "result" ELSE "done"
    BY <1>1, <2>1 DEF TypeOK
  <2>6. CaseSound(c)'
    <3>1. status # "awaiting_approval"
      BY <1>1, <1>2, <1>4 DEF CaseSound, Settled
    <3>2. /\ Settled(status) => phase[c] = status
          /\ ~Settled(status) => status \in {"timeout", "not_found"}
      BY <1>1, <3>1 DEF CaseSound, Settled, Phases
    <3> QED BY <1>1, <1>2, <2>2, <2>5, <3>1, <3>2
            DEF CaseSound, ReportIsTrue, UnsettledIsSaid, Settled
  <2>7. CASE status = "completed"
    <3>1. UNCHANGED slots /\ (Working(c)' <=> Working(c))
      BY <1>1, <2>1, <2>5, <2>7 DEF Working
    <3> QED BY <1>1, <2>3, <2>4, <2>6, <3>1, KeepsSlot DEF TypeOK
  <2>8. CASE status # "completed"
    BY <1>1, <2>1, <2>3, <2>4, <2>5, <2>6, <2>8, EndsCase
  <2> QED BY <2>7, <2>8
<1> QED BY <1>3, <1>4

LEMMA AnsweredInv ==
  ASSUME Inv, NEW c \in Cases, Answered(c)
  PROVE  Inv'
BY ReturnInv DEF Answered, Inv, TypeOK

LEMMA GiveUpInv ==
  ASSUME Inv, NEW c \in Cases, GiveUp(c)
  PROVE  Inv'
BY ReturnInv DEF GiveUp, Phases

LEMMA StutterInv ==
  ASSUME Inv, UNCHANGED vars
  PROVE  Inv'
<1>1. TypeOK' /\ SlotsCounted'
  BY SlotKept DEF Inv, vars, TypeOK, Working
<1>2. \A d \in Cases : CaseSound(d)'
  BY UntouchedCase DEF Inv, vars
<1> QED BY <1>1, <1>2 DEF Inv

LEMMA NextInv == Inv /\ [Next]_vars => Inv'
<1> SUFFICES ASSUME Inv, [Next]_vars PROVE Inv'
  OBVIOUS
<1>1. ASSUME NEW c \in Cases, ServerStep(c) PROVE Inv'
  BY <1>1, ServerStepInv
<1>2. ASSUME NEW c \in Cases, Step(c) PROVE Inv'
  BY <1>2, EnterInv, SubmitInv, PollInv, PollOnInv, AnsweredInv, GiveUpInv, ApproveInv,
     ApproveReturnsInv, ResultInv, RequestFailsInv DEF Step
<1>3. CASE UNCHANGED vars
  BY <1>3, StutterInv
<1> QED BY <1>1, <1>2, <1>3 DEF Next

-----------------------------------------------------------------------------
\* The inductive invariant, for any dataset and any concurrency
\* (run_eval.py:_run_case under gather).
THEOREM HarnessInvariance == Spec => []Inv
BY InitInv, NextInv, PTL DEF Spec

\* What the report says of a case is true of its session.
THEOREM HarnessReportsAreTrue == Spec => []ReportsAreTrue
<1>1. Inv => ReportsAreTrue
  BY DEF Inv, CaseSound, ReportsAreTrue
<1> QED BY <1>1, HarnessInvariance, PTL

\* A session that the harness leaves running is reported as unfinished.
THEOREM HarnessLeavesNothingUnsaid == Spec => []NothingIsLeftUnsaid
<1>1. Inv => NothingIsLeftUnsaid
  BY DEF Inv, CaseSound, NothingIsLeftUnsaid
<1> QED BY <1>1, HarnessInvariance, PTL

\* The semaphore bounds the cases at work, also when requests fail.
THEOREM HarnessIsBounded == Spec => []AtMostConcurrency
<1>1. Inv => AtMostConcurrency
  BY WorkersFinite, HarnessAssumption DEF Inv, TypeOK, SlotsCounted, AtMostConcurrency
<1> QED BY <1>1, HarnessInvariance, PTL
=============================================================================
