------------------------ MODULE WorkflowPageProofs --------------------------
(***************************************************************************)
(* Proofs about WorkflowPage: the inductive invariant, and from it what    *)
(* the page shows.  The server enters only through the progress of its     *)
(* sessions; what happens to the loops is stated once per operation on     *)
(* them, and each action is then a few lines.                              *)
(***************************************************************************)
EXTENDS WorkflowPage, TLAPS

LEMMA ServerAdvances ==
  ASSUME TypeOK, NEW s \in Sessions, ServerStep(s)
  PROVE  /\ phase' \in [Sessions -> Phases]
         /\ verdict' \in [Sessions -> Verdicts]
         /\ \A t \in Sessions : Progress(t) <= Progress(t)'
<1>1. phase' \in [Sessions -> Phases] /\ verdict' \in [Sessions -> Verdicts]
  BY DEF TypeOK, ServerStep
<1>2. \A t \in Sessions \ {s} : phase'[t] = phase[t] /\ verdict'[t] = verdict[t]
  BY DEF TypeOK, ServerStep
<1>3. Progress(s) <= Progress(s)'
  <2>1. Lifecycle(s)!Next
    BY DEF ServerStep
  <2>2. CASE Lifecycle(s)!Start
    BY <2>2, <1>1 DEF TypeOK, Lifecycle!Start, Progress, Phases, Verdicts
  <2>3. CASE Lifecycle(s)!AutoApprove
    BY <2>3, <1>1 DEF TypeOK, Lifecycle!AutoApprove, Progress, Phases, Verdicts
  <2>4. CASE Lifecycle(s)!Pause
    BY <2>4, <1>1 DEF TypeOK, Lifecycle!Pause, Progress, Phases, Verdicts
  <2>5. CASE Lifecycle(s)!Decide
    BY <2>5, <1>1 DEF TypeOK, Lifecycle!Decide, Progress, Phases, Verdicts
  <2>6. CASE Lifecycle(s)!Resume
    BY <2>6, <1>1 DEF TypeOK, Lifecycle!Resume, Progress, Phases, Verdicts
  <2>7. CASE Lifecycle(s)!Release
    BY <2>7, <1>1 DEF TypeOK, Lifecycle!Release, Progress, Phases, Verdicts
  <2>8. CASE Lifecycle(s)!Fail
    BY <2>8, <1>1 DEF TypeOK, Lifecycle!Fail, Progress, Phases, Verdicts
  <2> QED BY <2>1, <2>2, <2>3, <2>4, <2>5, <2>6, <2>7, <2>8 DEF Lifecycle!Next
<1>4. \A t \in Sessions : Progress(t) \in Nat
  BY DEF Progress
<1> QED BY <1>1, <1>2, <1>3, <1>4 DEF Progress

-----------------------------------------------------------------------------
(***************************************************************************)
(* What the operations on the loops do.                                    *)
(***************************************************************************)
LoopInv == loops \in [Loops -> LoopStates] /\ OneLoop /\ LoopsSound

\* A new value of one loop keeps the type.
LEMMA LoopUpdate ==
  ASSUME NEW f \in [Loops -> LoopStates], NEW i \in Loops, NEW l \in LoopStates
  PROVE  [f EXCEPT ![i] = l] \in [Loops -> LoopStates]
OBVIOUS

LEMMA IdleTyped == Idle \in LoopStates
BY DEF Idle, LoopStates

\* A loop that ends: nothing else changes.
LEMMA EndLoopSound ==
  ASSUME LoopInv, NEW i \in Loops, EndLoop(i), UNCHANGED <<server, session>>
  PROVE  /\ LoopInv'
         /\ \A j \in Loops : j # i => loops'[j] = loops[j]
         /\ ~Live(i)'
<1>1. loops' \in [Loops -> LoopStates]
  BY IdleTyped, LoopUpdate DEF EndLoop, LoopInv
<1>2. /\ \A j \in Loops : j # i => loops'[j] = loops[j]
      /\ loops'[i] = Idle /\ loops'[i].pc = "free" /\ ~loops'[i].cancelled
  BY DEF EndLoop, LoopInv, Idle
<1>3. OneLoop'
  BY <1>2 DEF LoopInv, OneLoop, Live, EndLoop
<1>4. LoopsSound'
  BY <1>2 DEF LoopInv, LoopsSound, server, Progress
<1> QED BY <1>1, <1>2, <1>3, <1>4 DEF LoopInv, Live

\* The one loop sets its timer.
LEMMA ScheduleSound ==
  ASSUME LoopInv, NEW i \in Loops, Live(i), Schedule(i), UNCHANGED <<server, session>>
  PROVE  /\ LoopInv'
         /\ \A j \in Loops : j # i => loops'[j] = loops[j]
         /\ Live(i)' /\ loops'[i].pc = "scheduled"
<1> DEFINE l == [loops[i] EXCEPT !.pc = "scheduled", !.answer = NONE]
<1>1. l \in LoopStates
  BY DEF LoopInv, LoopStates
<1>2. loops' = [loops EXCEPT ![i] = l]
  BY DEF Schedule, LoopInv
<1>3. loops' \in [Loops -> LoopStates]
  BY <1>1, <1>2, LoopUpdate DEF LoopInv
<1>4. /\ \A j \in Loops : j # i => loops'[j] = loops[j]
      /\ loops'[i] = l
  BY <1>2 DEF LoopInv
<1>5. /\ loops'[i].pc = "scheduled" /\ loops'[i].cancelled = loops[i].cancelled
      /\ loops'[i].of = loops[i].of
  BY <1>4 DEF LoopInv, LoopStates
<1>6. OneLoop'
  BY <1>4, <1>5 DEF LoopInv, OneLoop, Live, Schedule
<1>7. LoopsSound'
  <2>1. \A t : Progress(t)' = Progress(t)
    BY DEF server, Progress
  <2>2. loops[i].pc # "free" /\ loops[i].of # NONE
    BY DEF LoopInv, LoopsSound, Live
  <2> HIDE DEF l
  <2> QED BY <1>4, <1>5, <2>1, <2>2 DEF LoopInv, LoopsSound
<1> HIDE DEF l
<1> QED BY <1>3, <1>4, <1>5, <1>6, <1>7 DEF LoopInv, Live

\* clearScheduled ends the one loop if its timer is pending.
LEMMA ClearedSound ==
  ASSUME LoopInv, timeoutRef \in Loops \cup {NONE}
  PROVE  /\ Cleared(loops) \in [Loops -> LoopStates]
         /\ \A i \in Loops : /\ Cleared(loops)[i] \in {loops[i], Idle}
                             /\ Cleared(loops)[i].pc # "scheduled"
<1>1. CASE Armed(loops)
  <2>1. timeoutRef \in Loops
    BY <1>1 DEF Armed
  <2>2. Cleared(loops) = [loops EXCEPT ![timeoutRef] = Idle]
    BY <1>1 DEF Cleared
  <2>3. Cleared(loops) \in [Loops -> LoopStates]
    BY <2>1, <2>2, IdleTyped, LoopUpdate DEF LoopInv
  <2>4. ASSUME NEW i \in Loops
        PROVE  Cleared(loops)[i] \in {loops[i], Idle} /\ Cleared(loops)[i].pc # "scheduled"
    <3>1. i # timeoutRef => loops[i].pc # "scheduled"
      BY DEF LoopInv, OneLoop
    <3>2. Idle.pc = "free"
      BY DEF Idle
    <3> QED BY <2>1, <2>2, <3>1, <3>2 DEF LoopInv
  <2> QED BY <2>3, <2>4
<1>2. CASE ~Armed(loops)
  <2>1. Cleared(loops) = loops
    BY <1>2 DEF Cleared
  <2>2. ASSUME NEW i \in Loops PROVE loops[i].pc # "scheduled"
    BY <1>2, PageAssumption DEF LoopInv, OneLoop, Armed, Live
  <2> QED BY <2>1, <2>2 DEF LoopInv
<1> QED BY <1>1, <1>2

LEMMA CleanedUpSound ==
  ASSUME LoopInv, timeoutRef \in Loops \cup {NONE}
  PROVE  /\ CleanedUp(loops) \in [Loops -> LoopStates]
         /\ \A i \in Loops :
              \/ CleanedUp(loops)[i] = Idle
              \/ /\ CleanedUp(loops)[i] = [loops[i] EXCEPT !.cancelled = TRUE]
                 /\ loops[i].pc \notin {"free", "scheduled"}
<1>1. ASSUME NEW i \in Loops
      PROVE  /\ CleanedUp(loops)[i] \in LoopStates
             /\ \/ CleanedUp(loops)[i] = Idle
                \/ /\ CleanedUp(loops)[i] = [loops[i] EXCEPT !.cancelled = TRUE]
                   /\ loops[i].pc \notin {"free", "scheduled"}
  <2>1. /\ Cleared(loops)[i] \in {loops[i], Idle} /\ Cleared(loops)[i].pc # "scheduled"
        /\ Idle.pc = "free"
    BY ClearedSound DEF Idle
  <2>2. CASE Cleared(loops)[i].pc = "free"
    BY <2>2, IdleTyped DEF CleanedUp
  <2>3. CASE Cleared(loops)[i].pc # "free"
    <3>1. Cleared(loops)[i] = loops[i]
      BY <2>1, <2>3
    <3>2. CleanedUp(loops)[i] = [loops[i] EXCEPT !.cancelled = TRUE]
      BY <2>3, <3>1 DEF CleanedUp
    <3>3. [loops[i] EXCEPT !.cancelled = TRUE] \in LoopStates
      BY DEF LoopInv, LoopStates
    <3> QED BY <2>1, <2>3, <3>1, <3>2, <3>3
  <2> QED BY <2>2, <2>3
<1>2. CleanedUp(loops) = [i \in Loops |-> CleanedUp(loops)[i]]
  BY DEF CleanedUp
<1> QED BY <1>1, <1>2

\* After the cleanup no loop is live and all that is left is on its way out.
LEMMA CleanedUpQuiet ==
  ASSUME LoopInv, timeoutRef \in Loops \cup {NONE}, NEW i \in Loops
  PROVE  LET l == CleanedUp(loops)[i]
         IN /\ l.pc # "free" => l.cancelled
            /\ l.pc = "free" => ~l.cancelled
            /\ l.pc # "scheduled"
            /\ l.pc # "free" => l.of # NONE
            /\ l.pc = "answered" =>
                 /\ l.answer # NONE
                 /\ l.answer.of = l.of
                 /\ l.answer.progress <= Progress(l.of)
<1>1. CASE CleanedUp(loops)[i] = Idle
  BY <1>1 DEF Idle
<1>2. CASE /\ CleanedUp(loops)[i] = [loops[i] EXCEPT !.cancelled = TRUE]
           /\ loops[i].pc \notin {"free", "scheduled"}
  <2> DEFINE l == CleanedUp(loops)[i]
  <2>1. /\ l.pc = loops[i].pc /\ l.of = loops[i].of /\ l.answer = loops[i].answer
        /\ l.cancelled = TRUE
    BY <1>2 DEF LoopInv, LoopStates
  <2> HIDE DEF l
  <2>2. /\ l.pc # "free" => l.cancelled
        /\ l.pc = "free" => ~l.cancelled
        /\ l.pc # "scheduled"
        /\ l.pc # "free" => l.of # NONE
        /\ l.pc = "answered" => /\ l.answer # NONE
                                /\ l.answer.of = l.of
                                /\ l.answer.progress <= Progress(l.of)
    BY <1>2, <2>1 DEF LoopInv, LoopsSound
  <2> QED BY <2>2 DEF l
<1> QED BY <1>1, <1>2, CleanedUpSound

\* The effect runs: its new loop is the one live loop.
LEMMA StartLoopSound ==
  ASSUME LoopInv, timeoutRef \in Loops \cup {NONE}, NEW s \in Sessions,
         StartLoop(s), UNCHANGED server, session' = s
  PROVE  /\ LoopInv' /\ timeoutRef' = NONE
         /\ \E i \in Loops : Live(i)'
         /\ \A i \in Loops : Live(i)' => loops'[i].pc = "asked"
<1> DEFINE l == [pc |-> "asked", of |-> s, cancelled |-> FALSE, answer |-> NONE]
<1>1. PICK i \in Loops : loops' = [CleanedUp(loops) EXCEPT ![i] = l]
  BY DEF StartLoop
<1>2. l \in LoopStates /\ s # NONE
  BY PageAssumption DEF LoopStates
<1>3. loops' \in [Loops -> LoopStates]
  BY <1>1, <1>2, CleanedUpSound, LoopUpdate
<1>4. loops'[i] = l /\ \A j \in Loops : j # i => loops'[j] = CleanedUp(loops)[j]
  BY <1>1, CleanedUpSound
<1>5. /\ loops'[i].pc = "asked" /\ loops'[i].of = s /\ loops'[i].cancelled = FALSE
  BY <1>4
<1>6. \A j \in Loops : /\ Live(j)' <=> j = i
                       /\ loops'[j].pc # "scheduled"
  BY <1>4, <1>5, CleanedUpQuiet DEF Live
<1>7. OneLoop'
  BY <1>5, <1>6 DEF OneLoop
<1>8. LoopsSound'
  <2>1. \A t : Progress(t)' = Progress(t)
    BY DEF server, Progress
  <2> QED BY <1>2, <1>4, <1>5, <2>1, CleanedUpQuiet DEF LoopsSound
<1> QED BY <1>3, <1>5, <1>6, <1>7, <1>8 DEF LoopInv, StartLoop

-----------------------------------------------------------------------------
(***************************************************************************)
(* The parts of the invariant that a step disturbs only through the        *)
(* session, the loops, the status and what is in flight.                   *)
(***************************************************************************)
\* Whatever the server does, the sessions only advance.
LEMMA AdvanceKeepsSound ==
  ASSUME Inv, \A t \in Sessions : Progress(t) <= Progress(t)',
         UNCHANGED <<session, status, loops, timeoutRef>>
  PROVE  OneLoop' /\ LoopsSound' /\ StatusSound'
<1>1. OneLoop'
  BY DEF Inv, OneLoop, Live
<1>2. \A t \in Sessions : Progress(t) \in Nat /\ Progress(t)' \in Nat
  BY DEF Progress
<1>3. LoopsSound'
  <2> SUFFICES ASSUME NEW i \in Loops
               PROVE  /\ loops[i].pc = "free" => ~loops[i].cancelled
                      /\ loops[i].pc # "free" => loops[i].of # NONE
                      /\ loops[i].pc = "answered" =>
                           /\ loops[i].answer # NONE
                           /\ loops[i].answer.of = loops[i].of
                           /\ loops[i].answer.progress <= Progress(loops[i].of)'
    BY DEF LoopsSound
  <2>1. CASE loops[i].pc # "answered"
    BY <2>1 DEF Inv, LoopsSound
  <2>2. CASE loops[i].pc = "answered"
    <3>1. loops[i].answer \in Answers /\ loops[i].of \in Sessions
      BY <2>2 DEF Inv, TypeOK, LoopStates, LoopsSound
    <3>2. loops[i].answer.progress \in Nat
      BY <3>1 DEF Answers
    <3>3. loops[i].answer.progress <= Progress(loops[i].of)
      BY <2>2 DEF Inv, LoopsSound
    <3>4. loops[i].answer.progress <= Progress(loops[i].of)'
      BY <1>2, <3>1, <3>2, <3>3
    <3> QED BY <2>2, <3>4 DEF Inv, LoopsSound
  <2> QED BY <2>1, <2>2
<1>4. StatusSound'
  <2> SUFFICES ASSUME status # NONE
               PROVE  status.progress <= Progress(session)'
    BY DEF Inv, StatusSound, Live
  <2>1. status \in Answers /\ status.of = session
    BY DEF Inv, TypeOK, StatusSound
  <2>2. session \in Sessions /\ status.progress \in Nat
    BY <2>1 DEF Answers
  <2> QED BY <1>2, <2>2 DEF Inv, StatusSound
<1> QED BY <1>1, <1>3, <1>4

\* The request of this page is one of the decisions the server takes.
LEMMA AcceptAdvances ==
  ASSUME TypeOK, NEW c \in Clicks, Accept(c)
  PROVE  /\ phase' \in [Sessions -> Phases]
         /\ verdict' \in [Sessions -> Verdicts]
         /\ \A t \in Sessions : Progress(t) <= Progress(t)'
<1>1. PICK s \in Sessions, v \in {"approved", "rejected"} :
        /\ verdict' = [verdict EXCEPT ![s] = v]
        /\ UNCHANGED phase
        /\ Lifecycle(s)!Decide
  BY DEF Accept
<1>2. phase[s] = "awaiting_approval"
  BY <1>1 DEF Lifecycle!Decide
<1>3. \A t \in Sessions : t # s => verdict'[t] = verdict[t]
  BY <1>1 DEF TypeOK
<1>4. \A t \in Sessions : Progress(t)' = Progress(t)
  BY <1>1, <1>2, <1>3 DEF Progress
<1>5. \A t \in Sessions : Progress(t) \in Nat
  BY DEF Progress
<1> QED BY <1>1, <1>4, <1>5 DEF TypeOK, Verdicts

\* The page shows nothing and no loop has an answer for it.
LEMMA NothingShown ==
  ASSUME status' = NONE
  PROVE  StatusSound'
BY DEF StatusSound

\* Neither the session nor the loops nor what is shown changes.
LEMMA FormKeepsSound ==
  ASSUME Inv, UNCHANGED <<server, session, poller, refreshing>>
  PROVE  OneLoop' /\ NeverFrozen' /\ LoopsSound' /\ StatusSound'
<1>1. \A t : Progress(t)' = Progress(t)
  BY DEF server, Progress
<1>2. OneLoop'
  BY DEF Inv, OneLoop, Live, poller
<1>3. NeverFrozen'
  BY DEF Inv, NeverFrozen, Live, poller
<1>4. LoopsSound'
  BY <1>1 DEF Inv, LoopsSound, poller
<1>5. StatusSound'
  BY <1>1 DEF Inv, StatusSound, Live, poller
<1> QED BY <1>2, <1>3, <1>4, <1>5

LEMMA AbandonedTyped ==
  ASSUME requests \in [Clicks -> RequestStates]
  PROVE  /\ Abandoned(requests) \in [Clicks -> RequestStates]
         /\ \A c \in Clicks : Abandoned(requests)[c].pc = requests[c].pc
<1>1. ASSUME NEW c \in Clicks
      PROVE  /\ [requests[c] EXCEPT !.shown = FALSE] \in RequestStates
             /\ [requests[c] EXCEPT !.shown = FALSE].pc = requests[c].pc
  BY DEF RequestStates
<1> QED BY <1>1 DEF Abandoned

LEMMA UnsentTyped == Unsent \in RequestStates
BY DEF Unsent, RequestStates

-----------------------------------------------------------------------------
(***************************************************************************)
(* The steps.                                                              *)
(***************************************************************************)
LEMMA InitInv == Init => Inv
<1> SUFFICES ASSUME Init PROVE Inv
  OBVIOUS
<1>1. loops \in [Loops -> LoopStates] /\ requests \in [Clicks -> RequestStates]
  BY IdleTyped, UnsentTyped DEF Init
<1>2. \A i \in Loops : loops[i].pc = "free" /\ loops[i].cancelled = FALSE
  BY DEF Init, Idle
<1>3. \A c \in Clicks : requests[c].pc = "free"
  BY DEF Init, Unsent
<1>4. TypeOK
  <2>1. phase \in [Sessions -> Phases] /\ verdict \in [Sessions -> Verdicts]
    BY DEF Init, Phases, Verdicts
  <2>2. notFound \in 0 .. NOT_FOUND_PATIENCE
    BY PageAssumption DEF Init
  <2> QED BY <1>1, <2>1, <2>2 DEF Init, TypeOK
<1>5. OneLoop /\ LoopsSound
  BY <1>2 DEF OneLoop, LoopsSound, Live
<1>6. NeverFrozen /\ StatusSound /\ Unmounted
  BY <1>3 DEF Init, NeverFrozen, StatusSound, Unmounted
<1> QED BY <1>4, <1>5, <1>6 DEF Inv

LEMMA ServerStepInv ==
  ASSUME Inv, NEW s \in Sessions, ServerStep(s)
  PROVE  Inv'
<1>1. UNCHANGED <<session, poller, refreshing, result, fetch, panel, requests>>
  BY DEF ServerStep
<1>2. /\ phase' \in [Sessions -> Phases] /\ verdict' \in [Sessions -> Verdicts]
      /\ \A t \in Sessions : Progress(t) <= Progress(t)'
  BY ServerAdvances DEF Inv
<1>3. TypeOK'
  BY <1>1, <1>2 DEF Inv, TypeOK, poller
<1>4. OneLoop' /\ LoopsSound' /\ StatusSound'
  BY <1>1, <1>2, AdvanceKeepsSound DEF poller
<1>5. NeverFrozen' /\ Unmounted'
  BY <1>1 DEF Inv, NeverFrozen, Unmounted, Live, poller
<1> QED BY <1>3, <1>4, <1>5 DEF Inv

LEMMA AcceptInv ==
  ASSUME Inv, NEW c \in Clicks, Accept(c)
  PROVE  Inv'
<1>1. UNCHANGED <<session, poller, refreshing, result, fetch, panel>>
  BY DEF Accept
<1>2. /\ phase' \in [Sessions -> Phases] /\ verdict' \in [Sessions -> Verdicts]
      /\ \A t \in Sessions : Progress(t) <= Progress(t)'
  BY AcceptAdvances DEF Inv
<1>3. requests' \in [Clicks -> RequestStates]
  <2>1. [requests[c] EXCEPT !.pc = "decided"] \in RequestStates
    BY DEF Inv, TypeOK, RequestStates
  <2>2. requests' = [requests EXCEPT ![c] = [requests[c] EXCEPT !.pc = "decided"]]
    BY DEF Accept, Inv, TypeOK
  <2> QED BY <2>1, <2>2 DEF Inv, TypeOK
<1>4. TypeOK'
  BY <1>1, <1>2, <1>3 DEF Inv, TypeOK, poller
<1>5. OneLoop' /\ LoopsSound' /\ StatusSound'
  BY <1>1, <1>2, AdvanceKeepsSound DEF poller
<1>6. NeverFrozen'
  BY <1>1 DEF Inv, NeverFrozen, Live, poller
<1>7. session # NONE
  BY DEF Accept, Inv, Unmounted
<1>8. Unmounted'
  BY <1>1, <1>7 DEF Unmounted
<1> QED BY <1>4, <1>5, <1>6, <1>8 DEF Inv

\* A loop that goes on asking or has its answer.
LEMMA LoopStepSound ==
  ASSUME LoopInv, NEW i \in Loops, NEW l \in LoopStates, loops' = [loops EXCEPT ![i] = l],
         l.pc \in {"asked", "answered"}, loops[i].pc # "free",
         l.of = loops[i].of, l.cancelled = loops[i].cancelled,
         l.pc = "answered" => /\ l.answer # NONE
                              /\ l.answer.of = l.of
                              /\ l.answer.progress <= Progress(l.of),
         UNCHANGED <<server, session, timeoutRef>>
  PROVE  /\ LoopInv'
         /\ \A j \in Loops : j # i => loops'[j] = loops[j]
         /\ loops'[i] = l
         /\ \A j \in Loops : Live(j)' <=> Live(j)
<1>1. loops' \in [Loops -> LoopStates]
  BY LoopUpdate DEF LoopInv
<1>2. loops'[i] = l /\ \A j \in Loops : j # i => loops'[j] = loops[j]
  BY DEF LoopInv
<1>3. \A j \in Loops : Live(j)' <=> Live(j)
  BY <1>2 DEF Live
<1>4. OneLoop'
  BY <1>2, <1>3 DEF LoopInv, OneLoop
<1>5. \A t : Progress(t)' = Progress(t)
  BY DEF server, Progress
<1>6. LoopsSound'
  BY <1>2, <1>5 DEF LoopInv, LoopsSound
<1> QED BY <1>1, <1>2, <1>3, <1>4, <1>6 DEF LoopInv

\* The rest of the page is as it was.
LEMMA OthersTyped ==
  ASSUME TypeOK, loops' \in [Loops -> LoopStates], timeoutRef' \in Loops \cup {NONE},
         UNCHANGED <<server, session, status, fetchError, notFound,
                     refreshing, result, fetch, panel, requests>>
  PROVE  TypeOK'
BY DEF TypeOK, server

LEMMA ReadStatusInv ==
  ASSUME Inv, NEW i \in Loops, ReadStatus(i)
  PROVE  Inv'
<1> DEFINE s == loops[i].of
           a == [of |-> s, phase |-> phase[s], progress |-> Progress(s)]
           l == [loops[i] EXCEPT !.pc = "answered", !.answer = a]
<1>1. /\ loops[i].pc = "asked"
      /\ loops' = [loops EXCEPT ![i] = l]
      /\ UNCHANGED <<server, session, status, fetchError, notFound, timeoutRef,
                     refreshing, result, fetch, panel, requests>>
  BY DEF ReadStatus, Inv, TypeOK
<1>2. LoopInv /\ s \in Sessions
  BY <1>1 DEF Inv, LoopInv, TypeOK, LoopsSound, LoopStates
<1>3. phase[s] \in Phases /\ Progress(s) \in 0 .. 4
  BY <1>2 DEF Inv, TypeOK, Progress
<1>4. a \in Answers
  BY <1>2, <1>3 DEF Answers
<1>5. /\ a.of = s /\ a.progress = Progress(s) /\ a # NONE
  BY <1>4, PageAssumption
<1>6. l \in LoopStates
  BY <1>4 DEF Inv, TypeOK, LoopStates
<1>7. /\ l.pc = "answered" /\ l.of = s /\ l.cancelled = loops[i].cancelled /\ l.answer = a
  BY DEF Inv, TypeOK, LoopStates
<1> HIDE DEF s, a, l
<1>8. /\ LoopInv'
      /\ \A j \in Loops : j # i => loops'[j] = loops[j]
      /\ loops'[i] = l
      /\ \A j \in Loops : Live(j)' <=> Live(j)
  <2>1. l.answer.progress <= Progress(l.of)
    BY <1>3, <1>5, <1>7
  <2> QED BY <1>1, <1>2, <1>5, <1>6, <1>7, <2>1, LoopStepSound DEF s
<1>9. TypeOK'
  BY <1>1, <1>8, OthersTyped DEF Inv, LoopInv, TypeOK
<1>10. NeverFrozen' /\ Unmounted'
  BY <1>1, <1>8 DEF Inv, NeverFrozen, Unmounted
<1>11. StatusSound'
  <2> SUFFICES ASSUME status # NONE
               PROVE  /\ status.of = session
                      /\ status.progress <= Progress(session)'
                      /\ \A j \in Loops : Live(j) /\ loops'[j].pc = "answered"
                           => status.progress <= loops'[j].answer.progress
    BY <1>1, <1>8 DEF StatusSound
  <2>1. Progress(session)' = Progress(session)
    BY <1>1 DEF server, Progress
  <2>2. Live(i) => status.progress <= l.answer.progress
    BY <1>5, <1>7 DEF Inv, OneLoop, StatusSound, s
  <2> QED BY <1>8, <2>1, <2>2 DEF Inv, StatusSound
<1> QED BY <1>8, <1>9, <1>10, <1>11 DEF Inv, LoopInv

LEMMA TimerFiresInv ==
  ASSUME Inv, NEW i \in Loops, TimerFires(i)
  PROVE  Inv'
<1> DEFINE l == [loops[i] EXCEPT !.pc = "asked"]
<1>1. /\ loops[i].pc = "scheduled"
      /\ loops' = [loops EXCEPT ![i] = l]
      /\ UNCHANGED <<server, session, status, fetchError, notFound, timeoutRef,
                     refreshing, result, fetch, panel, requests>>
  BY DEF TimerFires, Inv, TypeOK
<1>2. l \in LoopStates
  BY DEF Inv, TypeOK, LoopStates
<1>3. l.pc = "asked" /\ l.of = loops[i].of /\ l.cancelled = loops[i].cancelled
  BY DEF Inv, TypeOK, LoopStates
<1> HIDE DEF l
<1>4. /\ LoopInv'
      /\ \A j \in Loops : j # i => loops'[j] = loops[j]
      /\ loops'[i] = l
      /\ \A j \in Loops : Live(j)' <=> Live(j)
  BY <1>1, <1>2, <1>3, LoopStepSound DEF Inv, LoopInv, TypeOK
<1>5. TypeOK'
  BY <1>1, <1>4, OthersTyped DEF Inv, LoopInv, TypeOK
<1>6. NeverFrozen' /\ Unmounted'
  BY <1>1, <1>4 DEF Inv, NeverFrozen, Unmounted
<1>7. StatusSound'
  <2>1. \A t : Progress(t)' = Progress(t)
    BY <1>1 DEF server, Progress
  <2> QED BY <1>1, <1>3, <1>4, <2>1 DEF Inv, StatusSound
<1> QED BY <1>4, <1>5, <1>6, <1>7 DEF Inv, LoopInv

\* A loop ends without a word: it was cancelled, or the error is shown.
LEMMA EndLoopInv ==
  ASSUME Inv, NEW i \in Loops, EndLoop(i), ~Live(i) \/ fetchError',
         fetchError' \in BOOLEAN, fetchError => fetchError',
         UNCHANGED <<server, session, status, notFound,
                     refreshing, result, fetch, panel, requests>>
  PROVE  Inv'
<1>1. /\ LoopInv'
      /\ \A j \in Loops : j # i => loops'[j] = loops[j]
      /\ ~Live(i)'
  BY EndLoopSound DEF Inv, LoopInv, TypeOK
<1>2. \A j \in Loops : j # i => (Live(j)' <=> Live(j))
  BY <1>1 DEF Live
<1>3. TypeOK'
  BY <1>1 DEF Inv, LoopInv, TypeOK, server, EndLoop
<1>4. NeverFrozen' /\ Unmounted'
  BY <1>1, <1>2 DEF Inv, NeverFrozen, Unmounted
<1>5. StatusSound'
  <2>1. \A t : Progress(t)' = Progress(t)
    BY DEF server, Progress
  <2> QED BY <1>1, <1>2, <2>1 DEF Inv, StatusSound
<1> QED BY <1>1, <1>3, <1>4, <1>5 DEF Inv, LoopInv

LEMMA DropAnswerInv ==
  ASSUME Inv, NEW i \in Loops, DropAnswer(i)
  PROVE  Inv'
<1>1. /\ EndLoop(i) /\ ~Live(i)
      /\ UNCHANGED <<server, session, status, fetchError, notFound,
                     refreshing, result, fetch, panel, requests>>
  BY DEF DropAnswer, Live
<1> QED BY <1>1, EndLoopInv DEF Inv, TypeOK

LEMMA PollFailsInv ==
  ASSUME Inv, NEW i \in Loops, PollFails(i)
  PROVE  Inv'
<1>1. /\ EndLoop(i) /\ fetchError' = (fetchError \/ ~loops[i].cancelled)
      /\ UNCHANGED <<server, session, status, notFound,
                     refreshing, result, fetch, panel, requests>>
  BY DEF PollFails
<1>2. fetchError \in BOOLEAN /\ loops[i].cancelled \in BOOLEAN
  BY DEF Inv, TypeOK, LoopStates
<1>3. fetchError' \in BOOLEAN /\ (fetchError => fetchError') /\ (~Live(i) \/ fetchError')
  BY <1>1, <1>2 DEF Live
<1> QED BY <1>1, <1>3, EndLoopInv

LEMMA KeepWaitingInv ==
  ASSUME Inv, NEW i \in Loops, KeepWaiting(i)
  PROVE  Inv'
<1>1. /\ Live(i) /\ Schedule(i)
      /\ notFound + 1 < NOT_FOUND_PATIENCE /\ notFound' = notFound + 1
      /\ UNCHANGED <<server, session, status, fetchError, refreshing,
                     result, fetch, panel, requests>>
  BY DEF KeepWaiting, Live
<1>2. /\ LoopInv'
      /\ \A j \in Loops : j # i => loops'[j] = loops[j]
      /\ Live(i)' /\ loops'[i].pc = "scheduled"
  BY <1>1, ScheduleSound DEF Inv, LoopInv, TypeOK
<1>3. notFound' \in 0 .. NOT_FOUND_PATIENCE
  BY <1>1, PageAssumption DEF Inv, TypeOK
<1>4. TypeOK'
  BY <1>1, <1>2, <1>3 DEF Inv, LoopInv, TypeOK, server, Schedule
<1>5. NeverFrozen' /\ Unmounted'
  BY <1>1, <1>2 DEF Inv, NeverFrozen, Unmounted
<1>6. StatusSound'
  <2>1. \A t : Progress(t)' = Progress(t)
    BY <1>1 DEF server, Progress
  <2>2. \A j \in Loops : j # i => (Live(j)' <=> Live(j))
    BY <1>2 DEF Live
  <2> QED BY <1>1, <1>2, <2>1, <2>2 DEF Inv, StatusSound
<1> QED BY <1>2, <1>4, <1>5, <1>6 DEF Inv, LoopInv

LEMMA RenderTyped ==
  ASSUME TypeOK, NEW p, Render(p)
  PROVE  /\ result' = result
         /\ fetch' \in Sessions \cup {NONE}
         /\ panel' \in {"closed", "loading", "ready", "sending"}
         /\ requests' \in [Clicks -> RequestStates]
         /\ \A c \in Clicks : requests'[c].pc = requests[c].pc
<1> DEFINE changed == status = NONE \/ status.phase # p
<1>1. result' = result /\ fetch' \in Sessions \cup {NONE}
  BY DEF Render, TypeOK
<1>2. CASE changed
  BY <1>1, <1>2, AbandonedTyped DEF Render, TypeOK
<1>3. CASE ~changed
  BY <1>1, <1>3 DEF Render, TypeOK
<1> QED BY <1>2, <1>3

LEMMA ShowStatusInv ==
  ASSUME Inv, NEW i \in Loops, ShowStatus(i)
  PROVE  Inv'
<1> DEFINE a == loops[i].answer
<1>1. /\ loops[i].pc = "answered" /\ Live(i)
      /\ status' = a /\ fetchError' = FALSE
      /\ notFound' \in {0, NOT_FOUND_PATIENCE}
      /\ IF a.phase \in STOP_POLLING THEN EndLoop(i) ELSE Schedule(i)
      /\ Render(a.phase)
      /\ UNCHANGED <<server, session, refreshing>>
  BY DEF ShowStatus, Live
<1>2. a \in Answers /\ a # NONE /\ a.of = session /\ a.progress <= Progress(session)
  BY <1>1 DEF Inv, TypeOK, LoopStates, LoopsSound, OneLoop
<1>3. session # NONE
  BY <1>1, <1>2, PageAssumption DEF Answers
<1>4. /\ LoopInv'
      /\ \A j \in Loops : j # i => loops'[j] = loops[j]
      /\ \/ a.phase \in STOP_POLLING /\ ~Live(i)'
         \/ Live(i)' /\ loops'[i].pc = "scheduled"
      /\ timeoutRef' \in Loops \cup {NONE}
  <2>1. CASE a.phase \in STOP_POLLING
    <3>1. EndLoop(i)
      BY <1>1, <2>1
    <3> QED BY <1>1, <2>1, <3>1, EndLoopSound DEF Inv, LoopInv, TypeOK, EndLoop
  <2>2. CASE a.phase \notin STOP_POLLING
    <3>1. Schedule(i)
      BY <1>1, <2>2
    <3> QED BY <1>1, <2>2, <3>1, ScheduleSound DEF Inv, LoopInv, TypeOK, Schedule
  <2> QED BY <2>1, <2>2
<1>5. /\ result' = result
      /\ fetch' \in Sessions \cup {NONE}
      /\ panel' \in {"closed", "loading", "ready", "sending"}
      /\ requests' \in [Clicks -> RequestStates]
      /\ \A c \in Clicks : requests'[c].pc = requests[c].pc
  BY <1>1, RenderTyped DEF Inv
<1> HIDE DEF a
<1>6. notFound' \in 0 .. NOT_FOUND_PATIENCE
  BY <1>1, PageAssumption
<1>7. TypeOK'
  BY <1>1, <1>2, <1>4, <1>5, <1>6 DEF Inv, LoopInv, TypeOK, server
<1>8. NeverFrozen'
  BY <1>1, <1>2, <1>4 DEF NeverFrozen
<1>9. \A j \in Loops : Live(j)' => loops'[j].pc # "answered"
  <2>1. \A j \in Loops : j # i => ~Live(j)
    BY <1>1 DEF Inv, OneLoop
  <2> QED BY <1>4, <2>1 DEF Live
<1>10. StatusSound'
  <2>1. \A t : Progress(t)' = Progress(t)
    BY <1>1 DEF server, Progress
  <2> QED BY <1>1, <1>2, <1>9, <2>1 DEF StatusSound
<1>11. Unmounted'
  BY <1>1, <1>3 DEF Unmounted
<1> QED BY <1>4, <1>7, <1>8, <1>10, <1>11 DEF Inv, LoopInv

LEMMA OpenInv ==
  ASSUME Inv, NEW s \in Sessions, Open(s)
  PROVE  Inv'
<1>1. /\ session' = s /\ StartLoop(s) /\ session = NONE /\ s # NONE
      /\ UNCHANGED <<server, status, fetchError, notFound, refreshing,
                     result, fetch, panel, requests>>
  BY PageAssumption DEF Open
<1>2. LoopInv' /\ timeoutRef' = NONE /\ \E i \in Loops : Live(i)'
  BY <1>1, StartLoopSound DEF Inv, LoopInv, TypeOK
<1>3. TypeOK'
  BY <1>1, <1>2 DEF Inv, LoopInv, TypeOK, server
<1>4. StatusSound'
  BY <1>1, NothingShown DEF Inv, Unmounted
<1> QED BY <1>1, <1>2, <1>3, <1>4 DEF Inv, LoopInv, NeverFrozen, Unmounted

LEMMA NavigateInv ==
  ASSUME Inv, NEW s \in Sessions, Navigate(s)
  PROVE  Inv'
<1>1. /\ session' = s /\ StartLoop(s) /\ s # NONE
      /\ status' = NONE /\ fetchError' = FALSE /\ notFound' = 0
      /\ refreshing' = FALSE /\ fetch' = NONE /\ panel' = "closed"
      /\ requests' = Abandoned(requests)
      /\ UNCHANGED <<server, result>>
  BY PageAssumption DEF Navigate, ResetStatus
<1>2. LoopInv' /\ timeoutRef' = NONE /\ \E i \in Loops : Live(i)'
  BY <1>1, StartLoopSound DEF Inv, LoopInv, TypeOK
<1>3. requests' \in [Clicks -> RequestStates] /\ notFound' \in 0 .. NOT_FOUND_PATIENCE
  BY <1>1, AbandonedTyped, PageAssumption DEF Inv, TypeOK
<1>4. TypeOK'
  BY <1>1, <1>2, <1>3 DEF Inv, LoopInv, TypeOK, server
<1>5. StatusSound'
  BY <1>1, NothingShown
<1> QED BY <1>1, <1>2, <1>4, <1>5 DEF Inv, LoopInv, NeverFrozen, Unmounted

LEMMA RestartInv ==
  ASSUME Inv, Restart
  PROVE  Inv'
<1>1. /\ refreshing /\ refreshing' = FALSE /\ StartLoop(session)
      /\ UNCHANGED <<server, session, status, fetchError, notFound,
                     result, fetch, panel, requests>>
  BY DEF Restart
<1>2. session # NONE
  BY <1>1 DEF Inv, Unmounted
<1>3. /\ LoopInv' /\ timeoutRef' = NONE
      /\ \E i \in Loops : Live(i)'
      /\ \A i \in Loops : Live(i)' => loops'[i].pc = "asked"
  BY <1>1, <1>2, StartLoopSound DEF Inv, LoopInv, TypeOK
<1>4. TypeOK'
  BY <1>1, <1>3 DEF Inv, LoopInv, TypeOK, server
<1>5. StatusSound'
  <2>1. \A t : Progress(t)' = Progress(t)
    BY <1>1 DEF server, Progress
  <2> QED BY <1>1, <1>3, <2>1 DEF Inv, StatusSound
<1> QED BY <1>1, <1>2, <1>3, <1>4, <1>5 DEF Inv, LoopInv, NeverFrozen, Unmounted

LEMMA LeaveInv ==
  ASSUME Inv, Leave
  PROVE  Inv'
<1>1. /\ session' = NONE
      /\ status' = NONE /\ fetchError' = FALSE /\ notFound' = 0
      /\ loops' = [i \in Loops |-> Idle] /\ timeoutRef' = NONE /\ refreshing' = FALSE
      /\ result' = NONE /\ fetch' = NONE /\ panel' = "closed"
      /\ requests' = [c \in Clicks |-> Unsent]
      /\ UNCHANGED server
  BY DEF Leave, ResetStatus
<1>2. loops' \in [Loops -> LoopStates]
  BY <1>1, IdleTyped
<1>3. /\ \A i \in Loops : ~Live(i)' /\ loops'[i].pc # "scheduled"
  BY <1>1 DEF Live, Idle
<1>4. OneLoop'
  BY <1>3 DEF OneLoop
<1>5. LoopsSound'
  <2>1. \A t : Progress(t)' = Progress(t)
    BY <1>1 DEF server, Progress
  <2> QED BY <1>1, <2>1 DEF LoopsSound, Idle
<1>6. /\ requests' \in [Clicks -> RequestStates] /\ notFound' \in 0 .. NOT_FOUND_PATIENCE
      /\ \A c \in Clicks : requests'[c].pc = "free"
  BY <1>1, UnsentTyped, PageAssumption DEF Unsent
<1>7. TypeOK'
  BY <1>1, <1>2, <1>6 DEF Inv, TypeOK, server
<1> QED BY <1>1, <1>4, <1>5, <1>6, <1>7 DEF Inv, NeverFrozen, StatusSound, Unmounted

\* The result and the form.
LEMMA FormInv ==
  ASSUME Inv, result' \in Sessions \cup {NONE}, fetch' \in Sessions \cup {NONE},
         panel' \in {"closed", "loading", "ready", "sending"},
         requests' \in [Clicks -> RequestStates],
         session = NONE => panel' = "closed" /\ \A c \in Clicks : requests'[c].pc = "free",
         UNCHANGED <<server, session, poller, refreshing>>
  PROVE  Inv'
<1>1. TypeOK'
  BY DEF Inv, TypeOK, server, poller
<1>2. Unmounted'
  BY DEF Inv, Unmounted, poller
<1> QED BY <1>1, <1>2, FormKeepsSound DEF Inv

LEMMA ResultArrivesInv == ASSUME Inv, ResultArrives PROVE Inv'
BY FormInv DEF ResultArrives, Inv, TypeOK, Unmounted

LEMMA DraftArrivesInv == ASSUME Inv, DraftArrives PROVE Inv'
BY FormInv DEF DraftArrives, Inv, TypeOK, Unmounted

LEMMA ClickInv ==
  ASSUME Inv, NEW c \in Clicks, Click(c)
  PROVE  Inv'
<1>1. session # NONE
  BY DEF Click, Inv, Unmounted
<1>2. requests' \in [Clicks -> RequestStates]
  BY DEF Click, Inv, TypeOK, RequestStates
<1> QED BY <1>1, <1>2, FormInv DEF Click, Inv, TypeOK

LEMMA RequestFailsInv ==
  ASSUME Inv, NEW c \in Clicks, RequestFails(c)
  PROVE  Inv'
<1>1. session # NONE
  BY DEF RequestFails, Inv, Unmounted
<1>2. requests' \in [Clicks -> RequestStates]
  BY UnsentTyped DEF RequestFails, Inv, TypeOK
<1>3. panel' \in {"closed", "loading", "ready", "sending"}
  BY DEF RequestFails, Inv, TypeOK
<1> QED BY <1>1, <1>2, <1>3, FormInv DEF RequestFails, Inv, TypeOK

LEMMA RequestSucceedsInv ==
  ASSUME Inv, NEW c \in Clicks, RequestSucceeds(c)
  PROVE  Inv'
<1>1. /\ requests' = [requests EXCEPT ![c] = Unsent]
      /\ loops' = Cleared(loops) /\ timeoutRef' = NONE /\ refreshing' = TRUE
      /\ UNCHANGED <<server, session, status, fetchError, notFound, result, fetch, panel>>
  BY DEF RequestSucceeds, refetch
<1>2. session # NONE
  BY DEF RequestSucceeds, Inv, Unmounted
<1>3. LoopInv /\ timeoutRef \in Loops \cup {NONE}
  BY DEF Inv, LoopInv, TypeOK
<1>4. /\ loops' \in [Loops -> LoopStates]
      /\ \A i \in Loops : loops'[i] \in {loops[i], Idle} /\ loops'[i].pc # "scheduled"
  BY <1>1, <1>3, ClearedSound
<1>5. Idle.pc = "free" /\ Idle.cancelled = FALSE
  BY DEF Idle
<1>6. \A i \in Loops : Live(i)' => Live(i) /\ loops'[i] = loops[i]
  BY <1>4, <1>5 DEF Live
<1>7. OneLoop'
  BY <1>1, <1>4, <1>6 DEF Inv, OneLoop
<1>8. \A t : Progress(t)' = Progress(t)
  BY <1>1 DEF server, Progress
<1>9. LoopsSound'
  BY <1>3, <1>4, <1>5, <1>8 DEF LoopInv, LoopsSound
<1>10. StatusSound'
  BY <1>1, <1>6, <1>8 DEF Inv, StatusSound
<1>11. TypeOK'
  <2>1. requests' \in [Clicks -> RequestStates]
    BY <1>1, UnsentTyped DEF Inv, TypeOK
  <2> QED BY <1>1, <1>4, <2>1 DEF Inv, TypeOK, server
<1> QED BY <1>1, <1>2, <1>7, <1>9, <1>10, <1>11 DEF Inv, NeverFrozen, Unmounted

LEMMA StutterInv ==
  ASSUME Inv, UNCHANGED vars
  PROVE  Inv'
<1>1. UNCHANGED <<server, session, poller, refreshing, result, fetch, panel, requests>>
  BY DEF vars, server, poller
<1> QED BY <1>1, FormInv DEF Inv, TypeOK, Unmounted

LEMMA NextInv == Inv /\ [Next]_vars => Inv'
<1> SUFFICES ASSUME Inv, [Next]_vars PROVE Inv'
  OBVIOUS
<1>1. ASSUME NEW s \in Sessions, ServerStep(s) \/ Open(s) \/ Navigate(s) PROVE Inv'
  BY <1>1, ServerStepInv, OpenInv, NavigateInv
<1>2. CASE Leave \/ Restart
  BY <1>2, LeaveInv, RestartInv
<1>3. ASSUME NEW i \in Loops, poll(i) PROVE Inv'
  BY <1>3, ReadStatusInv, DropAnswerInv, KeepWaitingInv, ShowStatusInv, PollFailsInv,
     TimerFiresInv DEF poll
<1>4. CASE ResultArrives \/ DraftArrives
  BY <1>4, ResultArrivesInv, DraftArrivesInv
<1>5. ASSUME NEW c \in Clicks,
             Click(c) \/ Accept(c) \/ RequestFails(c) \/ RequestSucceeds(c)
      PROVE  Inv'
  BY <1>5, ClickInv, AcceptInv, RequestFailsInv, RequestSucceedsInv
<1>6. CASE UNCHANGED vars
  BY <1>6, StutterInv
<1> QED BY <1>1, <1>2, <1>3, <1>4, <1>5, <1>6 DEF Next

-----------------------------------------------------------------------------
(***************************************************************************)
(* The form and the poll that is due after a decision.                     *)
(***************************************************************************)
DecisionSound == FormSound /\ OutcomeDue

\* Without a shown form nothing is due.
LEMMA FormClosed ==
  ASSUME panel' # "sending", \A c \in Clicks : ~requests'[c].shown,
         panel' # "closed" => status' # NONE /\ status'.phase = "awaiting_approval"
  PROVE  DecisionSound'
BY DEF DecisionSound, FormSound, OutcomeDue, Answered

LEMMA AbandonedShowsNone ==
  ASSUME TypeOK
  PROVE  \A c \in Clicks : ~Abandoned(requests)[c].shown
BY DEF Abandoned, TypeOK, RequestStates

LEMMA FormUntouched ==
  ASSUME FormSound, UNCHANGED <<session, status, panel, requests>>
  PROVE  FormSound'
BY DEF FormSound

\* One loop moves: it must not bring an old answer, nor end in silence.
LEMMA LoopStepDue ==
  ASSUME OutcomeDue, NEW i \in Loops,
         UNCHANGED <<phase, session, panel, requests, refreshing>>,
         fetchError => fetchError',
         \A j \in Loops : j # i => loops'[j] = loops[j],
         Answered /\ ~refreshing =>
           (Live(i)' => BringsOutcome(i)') /\ (Live(i) => Live(i)' \/ fetchError')
  PROVE  OutcomeDue'
<1>1. Answered' <=> Answered
  BY DEF Answered
<1>2. \A j \in Loops : j # i => (Live(j)' <=> Live(j))
                               /\ (BringsOutcome(j)' <=> BringsOutcome(j))
  BY DEF Live, BringsOutcome, Settled
<1>3. SUFFICES ASSUME Answered, ~refreshing
               PROVE  /\ Settled(phase[session])'
                      /\ fetchError' \/ \E j \in Loops : Live(j)'
                      /\ \A j \in Loops : Live(j)' => BringsOutcome(j)'
  BY <1>1 DEF OutcomeDue, Settled
<1>4. /\ Settled(phase[session])
      /\ fetchError \/ \E j \in Loops : Live(j)
      /\ \A j \in Loops : Live(j) => BringsOutcome(j)
  BY <1>3 DEF OutcomeDue
<1> QED BY <1>2, <1>3, <1>4 DEF Settled

LEMMA InitDecision == Init => DecisionSound
BY DEF Init, DecisionSound, FormSound, OutcomeDue, Answered, Unsent

\* What the server has settled stays so.
LEMMA SettledStays ==
  ASSUME TypeOK, NEW s \in Sessions, ServerStep(s), NEW t \in Sessions, Settled(phase[t])
  PROVE  Settled(phase'[t])
<1>1. CASE t # s
  BY <1>1 DEF TypeOK, ServerStep, Settled
<1>2. CASE t = s
  <2>1. Lifecycle(s)!Next
    BY DEF ServerStep
  <2>2. phase'[s] = phase[s]
    BY <1>2, <2>1 DEF Settled, Lifecycle!Next, Lifecycle!Start, Lifecycle!AutoApprove,
       Lifecycle!Pause, Lifecycle!Decide, Lifecycle!Resume, Lifecycle!Release, Lifecycle!Fail
  <2> QED BY <1>2, <2>2
<1> QED BY <1>1, <1>2

LEMMA ServerStepDecision ==
  ASSUME Inv, DecisionSound, NEW s \in Sessions, ServerStep(s)
  PROVE  DecisionSound'
<1>1. UNCHANGED <<session, status, fetchError, loops, refreshing, panel, requests>>
  BY DEF ServerStep, poller
<1>2. FormSound'
  BY <1>1, FormUntouched DEF DecisionSound
<1>3. Answered => Settled(phase'[session])
  <2>1. Answered => session \in Sessions
    BY DEF Answered, Inv, Unmounted, TypeOK
  <2> QED BY <2>1, SettledStays DEF Inv, DecisionSound, OutcomeDue
<1>4. OutcomeDue'
  BY <1>1, <1>3 DEF DecisionSound, OutcomeDue, Answered, Live, BringsOutcome
<1> QED BY <1>2, <1>4 DEF DecisionSound

\* A page that is opened, moved or left shows no form.
LEMMA MovesDecision ==
  ASSUME Inv, DecisionSound,
         (\E s \in Sessions : Open(s) \/ Navigate(s)) \/ Leave
  PROVE  DecisionSound'
<1>1. ASSUME NEW s \in Sessions, Open(s) PROVE DecisionSound'
  <2>1. panel = "closed" /\ UNCHANGED <<panel, requests>>
    BY <1>1 DEF Open, Inv, Unmounted
  <2> QED BY <2>1, FormClosed DEF DecisionSound, FormSound
<1>2. ASSUME NEW s \in Sessions, Navigate(s) PROVE DecisionSound'
  BY <1>2, FormClosed, AbandonedShowsNone DEF Navigate, Inv
<1>3. CASE Leave
  BY <1>3, FormClosed DEF Leave, Unsent
<1> QED BY <1>1, <1>2, <1>3

\* The new run of the effect is the only live one, and it asks first.
LEMMA RestartDecision ==
  ASSUME Inv, DecisionSound, Restart
  PROVE  DecisionSound'
<1>1. UNCHANGED <<server, session, status, fetchError, panel, requests>>
  BY DEF Restart
<1>2. FormSound'
  BY <1>1, FormUntouched DEF DecisionSound
<1>3. PICK i \in Loops :
        /\ loops[i].pc = "free"
        /\ loops' = [CleanedUp(loops) EXCEPT
                       ![i] = [pc |-> "asked", of |-> session, cancelled |-> FALSE,
                               answer |-> NONE]]
  BY DEF Restart, StartLoop
<1>4. /\ CleanedUp(loops) \in [Loops -> LoopStates]
      /\ \A j \in Loops : CleanedUp(loops)[j].pc = "free" \/ CleanedUp(loops)[j].cancelled
  BY CleanedUpSound, CleanedUpQuiet DEF Inv, LoopInv, TypeOK
<1>5. /\ loops'[i].pc = "asked" /\ ~loops'[i].cancelled
      /\ \A j \in Loops : j # i => loops'[j] = CleanedUp(loops)[j]
  BY <1>3, <1>4
<1>6. Live(i)' /\ \A j \in Loops : Live(j)' => j = i /\ BringsOutcome(j)'
  BY <1>4, <1>5 DEF Live, BringsOutcome
<1>7. OutcomeDue'
  BY <1>1, <1>6 DEF DecisionSound, OutcomeDue, Answered, server, Settled
<1> QED BY <1>2, <1>7 DEF DecisionSound

\* The answer of the live loop tells of the session in the path.
LEMMA ReadStatusDecision ==
  ASSUME Inv, DecisionSound, NEW i \in Loops, ReadStatus(i)
  PROVE  DecisionSound'
<1>1. UNCHANGED <<server, phase, session, status, fetchError, refreshing, panel, requests>>
  BY DEF ReadStatus, server
<1>2. /\ loops \in [Loops -> LoopStates] /\ loops[i].pc = "asked"
      /\ \A j \in Loops : j # i => loops'[j] = loops[j]
      /\ loops'[i].cancelled = loops[i].cancelled /\ loops'[i].pc = "answered"
      /\ loops'[i].answer.phase = phase[loops[i].of]
  BY DEF ReadStatus, Inv, TypeOK, LoopStates
<1>3. Live(i)' <=> Live(i)
  BY <1>2 DEF Live
<1>4. Live(i) => loops[i].of = session
  BY DEF Inv, OneLoop
<1>5. Answered => Settled(phase[session])
  BY DEF DecisionSound, OutcomeDue
<1>6. Answered /\ Live(i)' => BringsOutcome(i)'
  BY <1>1, <1>2, <1>3, <1>4, <1>5 DEF BringsOutcome, Settled
<1> QED BY <1>1, <1>2, <1>3, <1>6, LoopStepDue, FormUntouched DEF DecisionSound

LEMMA TimerFiresDecision ==
  ASSUME Inv, DecisionSound, NEW i \in Loops, TimerFires(i)
  PROVE  DecisionSound'
<1>1. UNCHANGED <<phase, session, status, fetchError, refreshing, panel, requests>>
  BY DEF TimerFires, server
<1>2. /\ loops[i].pc = "scheduled" /\ loops'[i].pc = "asked"
      /\ loops'[i].cancelled = loops[i].cancelled
      /\ \A j \in Loops : j # i => loops'[j] = loops[j]
  BY DEF TimerFires, Inv, TypeOK, LoopStates
<1>3. (Live(i)' <=> Live(i)) /\ (Live(i)' => BringsOutcome(i)')
  BY <1>2 DEF Live, BringsOutcome
<1> QED BY <1>1, <1>2, <1>3, LoopStepDue, FormUntouched DEF DecisionSound

\* A loop ends: cancelled before, or with an error that is shown.
LEMMA EndedDecision ==
  ASSUME Inv, DecisionSound, NEW i \in Loops, DropAnswer(i) \/ PollFails(i)
  PROVE  DecisionSound'
<1>1. UNCHANGED <<phase, session, status, refreshing, panel, requests>>
  BY DEF DropAnswer, PollFails, server
<1>2. loops'[i].pc = "free" /\ \A j \in Loops : j # i => loops'[j] = loops[j]
  BY DEF DropAnswer, PollFails, EndLoop, Idle, Inv, TypeOK
<1>3. (fetchError => fetchError') /\ (Live(i) => fetchError')
  <2>1. CASE DropAnswer(i)
    BY <2>1, Zenon DEF DropAnswer, Live
  <2>2. CASE PollFails(i)
    BY <2>2, Zenon DEF PollFails, Live
  <2> QED BY <2>1, <2>2
<1>4. ~Live(i)'
  BY <1>2 DEF Live
<1> QED BY <1>1, <1>2, <1>3, <1>4, LoopStepDue, FormUntouched DEF DecisionSound

\* Nor does a settled session answer that it is not found.
LEMMA KeepWaitingDecision ==
  ASSUME Inv, DecisionSound, NEW i \in Loops, KeepWaiting(i)
  PROVE  DecisionSound'
<1>1. UNCHANGED <<phase, session, status, fetchError, refreshing, panel, requests>>
  BY DEF KeepWaiting, server
<1>2. Live(i) /\ ~BringsOutcome(i)
  BY DEF KeepWaiting, Live, BringsOutcome, Settled
<1>3. Answered => refreshing
  BY <1>2 DEF DecisionSound, OutcomeDue
<1>4. OutcomeDue'
  BY <1>1, <1>3 DEF DecisionSound, OutcomeDue, Answered, Settled
<1> QED BY <1>1, <1>4, FormUntouched DEF DecisionSound

\* A new phase brings a new form or none; the old one is what a poll that is
\* not due after the decision may say.
LEMMA ShowStatusDecision ==
  ASSUME Inv, DecisionSound, NEW i \in Loops, ShowStatus(i)
  PROVE  DecisionSound'
<1>1. /\ Live(i) /\ loops[i].pc = "answered" /\ status' = loops[i].answer
      /\ Render(loops[i].answer.phase)
      /\ UNCHANGED <<phase, session, refreshing>>
  BY DEF ShowStatus, Live, server
<1>2. status' # NONE
  BY <1>1 DEF Inv, LoopsSound
<1>3. CASE status = NONE \/ status.phase # loops[i].answer.phase
  <2>1. /\ panel' = IF loops[i].answer.phase = "awaiting_approval" THEN "loading" ELSE "closed"
        /\ requests' = Abandoned(requests)
    BY <1>1, <1>3 DEF Render
  <2> QED BY <1>1, <1>2, <2>1, FormClosed, AbandonedShowsNone DEF Inv
<1>4. CASE status # NONE /\ status.phase = loops[i].answer.phase
  <2>1. UNCHANGED <<panel, requests>>
    BY <1>1, <1>4 DEF Render
  <2>2. FormSound'
    BY <1>1, <1>2, <1>4, <2>1 DEF DecisionSound, FormSound
  <2>3. Answered => refreshing
    <3>1. Answered => ~BringsOutcome(i)
      BY <1>1, <1>4 DEF Answered, DecisionSound, FormSound, BringsOutcome, Settled
    <3> QED BY <1>1, <3>1 DEF DecisionSound, OutcomeDue
  <2>4. OutcomeDue'
    BY <1>1, <2>1, <2>3 DEF DecisionSound, OutcomeDue, Answered, Settled
  <2> QED BY <2>2, <2>4 DEF DecisionSound
<1> QED BY <1>3, <1>4

LEMMA QuietDecision ==
  ASSUME DecisionSound, UNCHANGED <<phase, session, poller, refreshing, panel>>,
         \A c \in Clicks : /\ requests'[c].shown = requests[c].shown
                           /\ requests'[c].of = requests[c].of
  PROVE  DecisionSound'
<1>1. UNCHANGED <<status, fetchError, loops>>
  BY DEF poller
<1>2. FormSound'
  BY <1>1 DEF DecisionSound, FormSound
<1>3. Answered' <=> Answered
  BY DEF Answered
<1>4. OutcomeDue'
  BY <1>1, <1>3 DEF DecisionSound, OutcomeDue, Live, BringsOutcome, Settled
<1> QED BY <1>2, <1>4 DEF DecisionSound

LEMMA DraftArrivesDecision ==
  ASSUME Inv, DecisionSound, DraftArrives
  PROVE  DecisionSound'
<1>1. /\ panel = "loading" /\ panel' = "ready" /\ UNCHANGED <<status, requests>>
  BY DEF DraftArrives, poller
<1> QED BY <1>1, FormClosed DEF DecisionSound, FormSound

LEMMA ClickDecision ==
  ASSUME Inv, DecisionSound, NEW c \in Clicks, Click(c)
  PROVE  DecisionSound'
<1>1. /\ panel = "ready" /\ panel' = "sending" /\ UNCHANGED <<session, status>>
      /\ requests' = [requests EXCEPT ![c] = [pc |-> "sent", of |-> session, shown |-> TRUE]]
      /\ requests \in [Clicks -> RequestStates]
  BY DEF Click, poller, Inv, TypeOK
<1>2. /\ requests'[c].shown = TRUE /\ requests'[c].of = session
      /\ \A d \in Clicks : d # c => requests'[d] = requests[d] /\ ~requests[d].shown
  BY <1>1 DEF DecisionSound, FormSound
<1>3. FormSound'
  BY <1>1, <1>2 DEF DecisionSound, FormSound
<1>4. ~Answered'
  BY <1>2 DEF Answered
<1> QED BY <1>3, <1>4 DEF DecisionSound, OutcomeDue

LEMMA AcceptDecision ==
  ASSUME Inv, DecisionSound, NEW c \in Clicks, Accept(c)
  PROVE  DecisionSound'
<1>1. UNCHANGED <<phase, session, poller, refreshing, panel>>
  BY DEF Accept
<1>2. \A d \in Clicks : /\ requests'[d].shown = requests[d].shown
                       /\ requests'[d].of = requests[d].of
  BY DEF Accept, Inv, TypeOK, RequestStates
<1> QED BY <1>1, <1>2, QuietDecision

\* One request ends: of the others' none is shown if it was.
LEMMA RequestFailsDecision ==
  ASSUME Inv, DecisionSound, NEW c \in Clicks, RequestFails(c)
  PROVE  DecisionSound'
<1>1. /\ UNCHANGED <<phase, session, status, poller, refreshing>>
      /\ panel' = IF requests[c].shown THEN "ready" ELSE panel
      /\ requests' = [requests EXCEPT ![c] = Unsent]
      /\ requests \in [Clicks -> RequestStates]
  BY DEF RequestFails, server, poller, Inv, TypeOK
<1>2. /\ requests'[c].shown = FALSE
      /\ \A d \in Clicks : d # c => requests'[d] = requests[d]
  BY <1>1 DEF Unsent
<1>3. CASE requests[c].shown
  <2>1. panel = "sending" /\ panel' = "ready"
    BY <1>1, <1>3 DEF DecisionSound, FormSound
  <2>2. \A d \in Clicks : ~requests'[d].shown
    BY <1>2, <1>3 DEF DecisionSound, FormSound
  <2> QED BY <1>1, <2>1, <2>2, FormClosed DEF DecisionSound, FormSound
<1>4. CASE ~requests[c].shown
  <2>1. UNCHANGED panel
    BY <1>1, <1>4
  <2>2. FormSound'
    BY <1>1, <1>2, <2>1 DEF DecisionSound, FormSound
  <2>3. Answered' => Answered
    BY <1>2, <1>4, <2>1 DEF Answered
  <2>4. OutcomeDue'
    BY <1>1, <2>3 DEF DecisionSound, OutcomeDue, poller, Live, BringsOutcome, Settled
  <2> QED BY <2>2, <2>4 DEF DecisionSound
<1> QED BY <1>3, <1>4

\* The answer to a decision comes when the session is settled; the effect runs
\* again, whatever its live loop was about to say.
LEMMA RequestSucceedsDecision ==
  ASSUME Inv, DecisionSound, NEW c \in Clicks, RequestSucceeds(c)
  PROVE  DecisionSound'
<1>1. /\ UNCHANGED <<phase, session, status, panel>>
      /\ refreshing' = TRUE /\ Settled(phase[requests[c].of])
      /\ requests' = [requests EXCEPT ![c] = Unsent]
      /\ requests \in [Clicks -> RequestStates]
  BY DEF RequestSucceeds, refetch, server, Inv, TypeOK
<1>2. /\ requests'[c].shown = FALSE
      /\ \A d \in Clicks : d # c => requests'[d] = requests[d]
  BY <1>1 DEF Unsent
<1>3. FormSound'
  BY <1>1, <1>2 DEF DecisionSound, FormSound
<1>4. Answered' => Settled(phase[session])
  <2>1. CASE requests[c].shown
    BY <1>1, <2>1 DEF DecisionSound, FormSound
  <2>2. CASE ~requests[c].shown
    <3>1. Answered' => Answered
      BY <1>1, <1>2, <2>2 DEF Answered
    <3> QED BY <3>1 DEF DecisionSound, OutcomeDue
  <2> QED BY <2>1, <2>2
<1> QED BY <1>1, <1>3, <1>4 DEF DecisionSound, OutcomeDue, Settled

LEMMA NextDecision == Inv /\ DecisionSound /\ [Next]_vars => DecisionSound'
<1> SUFFICES ASSUME Inv, DecisionSound, [Next]_vars PROVE DecisionSound'
  OBVIOUS
<1>1. ASSUME NEW s \in Sessions, ServerStep(s) \/ Open(s) \/ Navigate(s)
      PROVE  DecisionSound'
  BY <1>1, ServerStepDecision, MovesDecision
<1>2. CASE Leave \/ Restart
  BY <1>2, MovesDecision, RestartDecision
<1>3. ASSUME NEW i \in Loops, poll(i) PROVE DecisionSound'
  BY <1>3, ReadStatusDecision, TimerFiresDecision, EndedDecision, KeepWaitingDecision,
     ShowStatusDecision DEF poll
<1>4. CASE ResultArrives
  BY <1>4, QuietDecision DEF ResultArrives, server
<1>5. CASE DraftArrives
  BY <1>5, DraftArrivesDecision
<1>6. ASSUME NEW c \in Clicks,
             Click(c) \/ Accept(c) \/ RequestFails(c) \/ RequestSucceeds(c)
      PROVE  DecisionSound'
  BY <1>6, ClickDecision, AcceptDecision, RequestFailsDecision, RequestSucceedsDecision
<1>7. CASE UNCHANGED vars
  BY <1>7, QuietDecision DEF vars, poller
<1> QED BY <1>1, <1>2, <1>3, <1>4, <1>5, <1>6, <1>7 DEF Next

-----------------------------------------------------------------------------
\* The inductive invariant holds for any sessions, loops, requests and
\* patience: polls, refetches, changes of session and the server's steps
\* interleave freely (useWorkflowPoller.ts, WorkflowPage.tsx).
THEOREM PageInvariance == Spec => []PageInv
<1>1. Init => PageInv
  BY InitInv, InitDecision DEF PageInv, DecisionSound
<1>2. PageInv /\ [Next]_vars => PageInv'
  BY NextInv, NextDecision DEF PageInv, DecisionSound
<1> QED BY <1>1, <1>2, PTL DEF Spec

\* There is never a second polling loop nor a forgotten timer.
THEOREM PageHasOneLoop == Spec => []OneLoop
<1>1. PageInv => OneLoop
  BY DEF PageInv, Inv
<1> QED BY <1>1, PageInvariance, PTL

\* The page always polls, waits for a decision, shows an end or an error.
THEOREM PageNeverFreezes == Spec => []NeverFrozen
<1>1. PageInv => NeverFrozen
  BY DEF PageInv, Inv
<1> QED BY <1>1, PageInvariance, PTL

\* A decision sent from the page is followed by a poll that tells its outcome.
THEOREM PageShowsDecision == Spec => []DecisionIsShown
<1>1. PageInv => DecisionIsShown
  BY DEF PageInv, OutcomeDue, DecisionIsShown
<1> QED BY <1>1, PageInvariance, PTL

\* Only the answer of the live loop changes what is shown of a session, and
\* that answer is not behind what is shown.
LEMMA StepNeverGoesBack ==
  ASSUME Inv, [Next]_vars, status # NONE, status' # NONE, session' = session
  PROVE  \/ status' = status
         \/ status'.of = session /\ status'.progress >= status.progress
<1>1. ASSUME NEW i \in Loops, ShowStatus(i)
      PROVE  status'.of = session /\ status'.progress >= status.progress
  <2>1. Live(i) /\ loops[i].pc = "answered" /\ status' = loops[i].answer
    BY <1>1 DEF ShowStatus, Live
  <2>2. status'.of = session /\ status.progress <= status'.progress
    BY <2>1 DEF Inv, StatusSound, LoopsSound, OneLoop
  <2>3. status \in Answers /\ status' \in Answers
    BY <2>1 DEF Inv, TypeOK, LoopStates
  <2>4. status.progress \in Nat /\ status'.progress \in Nat
    BY <2>3 DEF Answers
  <2> QED BY <2>2, <2>4
<1>2. ASSUME NEW s \in Sessions, ServerStep(s) \/ Open(s) \/ Navigate(s)
      PROVE  status' = status
  BY <1>2 DEF ServerStep, poller, Open, Navigate, ResetStatus
<1>3. CASE Leave \/ Restart
  BY <1>3 DEF Leave, Restart, ResetStatus
<1>4. ASSUME NEW i \in Loops, poll(i), ~ShowStatus(i) PROVE status' = status
  BY <1>4 DEF poll, ReadStatus, DropAnswer, KeepWaiting, PollFails, TimerFires
<1>5. CASE ResultArrives \/ DraftArrives
  BY <1>5 DEF ResultArrives, DraftArrives, poller
<1>6. ASSUME NEW c \in Clicks,
             Click(c) \/ Accept(c) \/ RequestFails(c) \/ RequestSucceeds(c)
      PROVE  status' = status
  BY <1>6 DEF Click, Accept, RequestFails, RequestSucceeds, poller
<1>7. CASE UNCHANGED vars
  BY <1>7 DEF vars
<1> QED BY <1>1, <1>2, <1>3, <1>4, <1>5, <1>6, <1>7 DEF Next

\* What the page says of one session never goes back.
THEOREM PageNeverGoesBack == Spec => NeverGoesBack
<1>1. PageInv /\ [Next]_vars
        => [(status # NONE /\ status' # NONE /\ session' = session)
              => \/ status' = status
                 \/ /\ status'.of = session
                    /\ status'.progress >= status.progress]_vars
  BY StepNeverGoesBack DEF PageInv
<1> QED BY <1>1, PageInvariance, PTL DEF Spec, NeverGoesBack
=============================================================================
