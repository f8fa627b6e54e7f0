---------------------------- MODULE WorkflowPage ----------------------------
(***************************************************************************)
(* The page /workflow/:sessionId of the frontend: the poller of            *)
(* hooks/useWorkflowPoller.ts, the result that pages/WorkflowPage.tsx      *)
(* fetches and the decision that components/ApprovalPanel.tsx sends,       *)
(* against sessions that behave as ApprovalLifecycle promises.  The page   *)
(* stays mounted when the session in its path changes (App.tsx), so        *)
(* answers may arrive for a session it no longer shows.                    *)
(*                                                                         *)
(* Another reviewer may decide a session as well; of two decisions the     *)
(* later one is refused (WorkflowThread has the race between them).        *)
(* React is external: a handler, or a render with its effects, is one      *)
(* step.                                                                   *)
(***************************************************************************)
EXTENDS Naturals

CONSTANTS Sessions,
          Loops,              \* names for calls of poll that may overlap
          Clicks,             \* names for approval requests in flight
          NOT_FOUND_PATIENCE,
          NONE                \* no session, timer, status or answer

VARIABLES
  phase, verdict, \* the sessions, on the server
  session,        \* the one in the page's path
  status,         \* what the page shows of it
  fetchError,     \* the poller has given up with a connection error
  notFound,       \* notFoundCountRef, up to the patience
  loops,          \* each run of the polling effect
  timeoutRef,     \* the loop whose timer the hook remembers
  refreshing,     \* refetch was called, its render is due
  result,         \* the session whose result is loaded
  fetch,          \* the session whose result is being fetched
  panel,          \* the approval panel: closed, loading, ready or sending
  requests        \* approval requests in flight

server == <<phase, verdict>>
poller == <<status, fetchError, notFound, loops, timeoutRef>>
vars == <<phase, verdict, session, status, fetchError, notFound, loops, timeoutRef,
          refreshing, result, fetch, panel, requests>>

Lifecycle(s) == INSTANCE ApprovalLifecycle WITH phase <- phase[s], verdict <- verdict[s]

Phases ==
  {"not_found", "running", "awaiting_approval", "completed", "rejected", "failed"}
Verdicts == {"none", "auto", "approved", "rejected"}
Settled(p) == p \in {"completed", "rejected", "failed"}

\* How far a session has come: it runs twice, before and after an approval.
Progress(s) ==
  IF phase[s] = "not_found" THEN 0
  ELSE IF phase[s] = "running" THEN (IF verdict[s] = "approved" THEN 3 ELSE 1)
  ELSE IF phase[s] = "awaiting_approval" THEN 2
  ELSE 4

\* An answer of GET /workflow/{id}.
Answers == [of : Sessions, phase : Phases, progress : 0 .. 4]

ASSUME PageAssumption ==
  /\ NOT_FOUND_PATIENCE \in Nat \ {0}
  /\ NONE \notin Sessions \cup Loops \cup Answers

Idle == [pc |-> "free", of |-> NONE, cancelled |-> FALSE, answer |-> NONE]
LoopStates ==
  [pc : {"free", "asked", "answered", "scheduled"},
   of : Sessions \cup {NONE}, cancelled : BOOLEAN, answer : Answers \cup {NONE}]

\* shown: the panel that sent the request is still mounted.
Unsent == [pc |-> "free", of |-> NONE, shown |-> FALSE]
RequestStates ==
  [pc : {"free", "sent", "decided"}, of : Sessions \cup {NONE}, shown : BOOLEAN]

TypeOK ==
  /\ phase \in [Sessions -> Phases]
  /\ verdict \in [Sessions -> Verdicts]
  /\ session \in Sessions \cup {NONE}
  /\ status \in Answers \cup {NONE}
  /\ fetchError \in BOOLEAN
  /\ notFound \in 0 .. NOT_FOUND_PATIENCE
  /\ loops \in [Loops -> LoopStates]
  /\ timeoutRef \in Loops \cup {NONE}
  /\ refreshing \in BOOLEAN
  /\ result \in Sessions \cup {NONE}
  /\ fetch \in Sessions \cup {NONE}
  /\ panel \in {"closed", "loading", "ready", "sending"}
  /\ requests \in [Clicks -> RequestStates]

Init ==
  /\ phase = [s \in Sessions |-> "not_found"]
  /\ verdict = [s \in Sessions |-> "none"]
  /\ session = NONE
  /\ status = NONE /\ fetchError = FALSE /\ notFound = 0
  /\ loops = [i \in Loops |-> Idle] /\ timeoutRef = NONE /\ refreshing = FALSE
  /\ result = NONE /\ fetch = NONE
  /\ panel = "closed"
  /\ requests = [c \in Clicks |-> Unsent]

-----------------------------------------------------------------------------
(***************************************************************************)
(* The server: a session moves, by a decision of another reviewer too, and *)
(* GET /workflow/{id} reads its status.                                    *)
(***************************************************************************)
ServerStep(s) ==
  /\ \/ UNCHANGED verdict /\ \E p \in Phases : phase' = [phase EXCEPT ![s] = p]
     \/ UNCHANGED phase /\ \E v \in Verdicts : verdict' = [verdict EXCEPT ![s] = v]
  /\ Lifecycle(s)!Next
  /\ UNCHANGED <<session, poller, refreshing, result, fetch, panel, requests>>

ReadStatus(i) ==
  LET s == loops[i].of
      a == [of |-> s, phase |-> phase[s], progress |-> Progress(s)]
  IN /\ loops[i].pc = "asked"
     /\ loops' = [loops EXCEPT ![i].pc = "answered", ![i].answer = a]
     /\ UNCHANGED <<server, session, status, fetchError, notFound, timeoutRef,
                    refreshing, result, fetch, panel, requests>>

-----------------------------------------------------------------------------
(***************************************************************************)
(* The polling effect.  Its cleanup marks the loop as cancelled and clears *)
(* the timer the hook remembers; a request in flight goes on.              *)
(***************************************************************************)
Armed(L) == timeoutRef # NONE /\ L[timeoutRef].pc = "scheduled"

\* clearScheduled, on the loops L.
Cleared(L) == IF Armed(L) THEN [L EXCEPT ![timeoutRef] = Idle] ELSE L

\* Mutant: the effect returns a cleanup that only clears the timer.
CleanedUpTimer(L) == Cleared(L)

CleanedUp(L) ==
  [i \in Loops |->
     IF Cleared(L)[i].pc = "free" THEN Idle ELSE [Cleared(L)[i] EXCEPT !.cancelled = TRUE]]

\* The effect runs for session s: cleanup, then a new loop asks at once.
StartLoop(s) ==
  /\ \E i \in Loops :
       /\ loops[i].pc = "free"
       /\ loops' = [CleanedUp(loops) EXCEPT
                      ![i] = [pc |-> "asked", of |-> s, cancelled |-> FALSE, answer |-> NONE]]
  /\ timeoutRef' = NONE

\* The effect on [sessionId]: nothing of the previous session is shown.
ResetStatus == status' = NONE /\ fetchError' = FALSE /\ notFound' = 0

\* A panel that is unmounted forgets its requests; they go on.
Abandoned(R) == [c \in Clicks |-> [R[c] EXCEPT !.shown = FALSE]]

\* The page is mounted.
Open(s) ==
  /\ session = NONE
  /\ session' = s
  /\ StartLoop(s)
  /\ UNCHANGED <<server, status, fetchError, notFound, refreshing, result, fetch, panel, requests>>

\* The session in the path changes under the mounted page: the fetch of a
\* result is cancelled, a result that has arrived is kept.
Navigate(s) ==
  /\ session \notin {NONE, s}
  /\ session' = s
  /\ ResetStatus
  /\ StartLoop(s)
  /\ refreshing' = FALSE
  /\ fetch' = NONE
  /\ panel' = "closed"
  /\ requests' = Abandoned(requests)
  /\ UNCHANGED <<server, result>>

\* The page is unmounted: its answers find no state to change any more, the
\* page mounted next has its own.  What its requests still decide on the
\* server is one more decision of another reviewer.
Leave ==
  /\ session # NONE
  /\ session' = NONE
  /\ ResetStatus
  /\ loops' = [i \in Loops |-> Idle] /\ timeoutRef' = NONE /\ refreshing' = FALSE
  /\ result' = NONE /\ fetch' = NONE
  /\ panel' = "closed"
  /\ requests' = [c \in Clicks |-> Unsent]
  /\ UNCHANGED server

\* The render after refetch: pollKey has changed.
Restart ==
  /\ refreshing
  /\ refreshing' = FALSE
  /\ StartLoop(session)
  /\ UNCHANGED <<server, session, status, fetchError, notFound, result, fetch, panel, requests>>

TimerFires(i) ==
  /\ loops[i].pc = "scheduled"
  /\ loops' = [loops EXCEPT ![i].pc = "asked"]
  /\ UNCHANGED <<server, session, status, fetchError, notFound, timeoutRef,
                 refreshing, result, fetch, panel, requests>>

Schedule(i) ==
  /\ loops' = [loops EXCEPT ![i].pc = "scheduled", ![i].answer = NONE]
  /\ timeoutRef' = i

EndLoop(i) ==
  /\ loops' = [loops EXCEPT ![i] = Idle]
  /\ UNCHANGED timeoutRef

\* An answer, or an error, of a cancelled loop is dropped.
DropAnswer(i) ==
  /\ loops[i].pc = "answered" /\ loops[i].cancelled
  /\ EndLoop(i)
  /\ UNCHANGED <<server, session, status, fetchError, notFound,
                 refreshing, result, fetch, panel, requests>>

\* not_found is not shown until patience has run out.
KeepWaiting(i) ==
  /\ loops[i].pc = "answered" /\ ~loops[i].cancelled
  /\ loops[i].answer.phase = "not_found"
  /\ notFound + 1 < NOT_FOUND_PATIENCE
  /\ notFound' = notFound + 1
  /\ Schedule(i)
  /\ UNCHANGED <<server, session, status, fetchError, refreshing, result, fetch, panel, requests>>

STOP_POLLING == {"completed", "rejected", "failed", "awaiting_approval"}

\* What the render with this status starts: the fetch of the result unless one
\* is loaded, and a panel that loads the draft.
Render(p) ==
  LET changed == status = NONE \/ status.phase # p
  IN /\ IF changed
        THEN fetch' = IF p = "completed" /\ result = NONE THEN session ELSE NONE
        ELSE UNCHANGED fetch
     /\ IF changed
        THEN /\ panel' = IF p = "awaiting_approval" THEN "loading" ELSE "closed"
             /\ requests' = Abandoned(requests)
        ELSE UNCHANGED <<panel, requests>>
     /\ UNCHANGED result

\* Mutant: cancelled is not looked at after the await.
ShowLateStatus(i) ==
  LET a == loops[i].answer
  IN /\ loops[i].pc = "answered" /\ session # NONE
     /\ a.phase = "not_found" => notFound + 1 >= NOT_FOUND_PATIENCE
     /\ notFound' = IF a.phase = "not_found" THEN NOT_FOUND_PATIENCE ELSE 0
     /\ status' = a
     /\ fetchError' = FALSE
     /\ IF a.phase \in STOP_POLLING THEN EndLoop(i) ELSE Schedule(i)
     /\ Render(a.phase)
     /\ UNCHANGED <<server, session, refreshing>>

ShowStatus(i) ==
  LET a == loops[i].answer
  IN /\ loops[i].pc = "answered" /\ ~loops[i].cancelled
     /\ a.phase = "not_found" => notFound + 1 >= NOT_FOUND_PATIENCE
     /\ notFound' = IF a.phase = "not_found" THEN NOT_FOUND_PATIENCE ELSE 0
     /\ status' = a
     /\ fetchError' = FALSE
     /\ IF a.phase \in STOP_POLLING THEN EndLoop(i) ELSE Schedule(i)
     /\ Render(a.phase)
     /\ UNCHANGED <<server, session, refreshing>>

\* Mutant: the error of one poll is swallowed.
PollFailsSilently(i) ==
  /\ loops[i].pc \in {"asked", "answered"}
  /\ UNCHANGED fetchError
  /\ EndLoop(i)
  /\ UNCHANGED <<server, session, status, notFound, refreshing, result, fetch, panel, requests>>

\* The request fails, before or after the server has read: polling is over.
PollFails(i) ==
  /\ loops[i].pc \in {"asked", "answered"}
  /\ fetchError' = (fetchError \/ ~loops[i].cancelled)
  /\ EndLoop(i)
  /\ UNCHANGED <<server, session, status, notFound, refreshing, result, fetch, panel, requests>>

-----------------------------------------------------------------------------
(***************************************************************************)
(* The result.                                                             *)
(***************************************************************************)
ResultArrives ==
  /\ fetch # NONE
  /\ fetch' = NONE
  /\ \/ result' = fetch
     \/ UNCHANGED result \* an error is shown, nothing tries again
  /\ UNCHANGED <<server, session, poller, refreshing, panel, requests>>

(***************************************************************************)
(* The approval panel.  The buttons wait for the draft, or for its error.  *)
(***************************************************************************)
DraftArrives ==
  /\ panel = "loading"
  /\ panel' = "ready"
  /\ UNCHANGED <<server, session, poller, refreshing, result, fetch, requests>>

Click(c) ==
  /\ panel = "ready"
  /\ requests[c].pc = "free"
  /\ requests' = [requests EXCEPT ![c] = [pc |-> "sent", of |-> session, shown |-> TRUE]]
  /\ panel' = "sending"
  /\ UNCHANGED <<server, session, poller, refreshing, result, fetch>>

\* The server takes the decision.
Accept(c) ==
  /\ requests[c].pc = "sent"
  /\ \E s \in Sessions, v \in {"approved", "rejected"} :
       /\ requests[c].of = s
       /\ verdict' = [verdict EXCEPT ![s] = v]
       /\ UNCHANGED phase
       /\ Lifecycle(s)!Decide
  /\ requests' = [requests EXCEPT ![c].pc = "decided"]
  /\ UNCHANGED <<session, poller, refreshing, result, fetch, panel>>

\* 409, a dead run or a lost answer: the form is offered again.
RequestFails(c) ==
  /\ requests[c].pc \in {"sent", "decided"}
  /\ panel' = IF requests[c].shown THEN "ready" ELSE panel
  /\ requests' = [requests EXCEPT ![c] = Unsent]
  /\ UNCHANGED <<server, session, poller, refreshing, result, fetch>>

\* Mutant: refetch clears the timer and does not change pollKey.
RefetchWithoutKey ==
  /\ loops' = Cleared(loops)
  /\ timeoutRef' = NONE
  /\ UNCHANGED refreshing

refetch ==
  /\ loops' = Cleared(loops)
  /\ timeoutRef' = NONE
  /\ refreshing' = TRUE

\* The answer comes when the resumed run has ended: the page polls again,
\* whatever session it shows by now.  The form stays disabled.
RequestSucceeds(c) ==
  /\ requests[c].pc = "decided"
  /\ Settled(phase[requests[c].of])
  /\ requests' = [requests EXCEPT ![c] = Unsent]
  /\ refetch
  /\ UNCHANGED <<server, session, status, fetchError, notFound, result, fetch, panel>>

-----------------------------------------------------------------------------
poll(i) ==
  \/ ReadStatus(i) \/ DropAnswer(i) \/ KeepWaiting(i) \/ ShowStatus(i) \/ PollFails(i)
  \/ TimerFires(i)

Next ==
  \/ \E s \in Sessions : ServerStep(s) \/ Open(s) \/ Navigate(s)
  \/ Leave \/ Restart
  \/ \E i \in Loops : poll(i)
  \/ ResultArrives \/ DraftArrives
  \/ \E c \in Clicks : Click(c) \/ Accept(c) \/ RequestFails(c) \/ RequestSucceeds(c)

Spec == Init /\ [][Next]_vars

-----------------------------------------------------------------------------
(***************************************************************************)
(* Properties.                                                             *)
(***************************************************************************)
Live(i) == loops[i].pc # "free" /\ ~loops[i].cancelled

\* The page is never frozen without saying so: it polls, is about to, shows a
\* status that only a decision can change, or shows a connection error.
NeverFrozen ==
  session # NONE =>
    \/ \E i \in Loops : Live(i)
    \/ refreshing
    \/ status # NONE /\ status.phase \in STOP_POLLING
    \/ fetchError

\* However polls, refetches and changes of session interleave, there is one
\* loop, for the session in the path, and no timer that nobody remembers.
OneLoop ==
  /\ \A i \in Loops : Live(i) => loops[i].of = session
  /\ \A i, j \in Loops : Live(i) /\ Live(j) => i = j
  /\ \A i \in Loops : loops[i].pc = "scheduled" => Live(i) /\ timeoutRef = i

\* While the page shows one session, what it says of it never goes back, nor
\* does it say what was said of another.
NeverGoesBack ==
  [][(status # NONE /\ status' # NONE /\ session' = session)
       => \/ status' = status
          \/ /\ status'.of = session
             /\ status'.progress >= status.progress]_vars

(***************************************************************************)
(* The inductive invariant: answers tell of their loop's session, what was *)
(* said last is behind what is said next, and that behind the server.      *)
(***************************************************************************)
LoopsSound ==
  \A i \in Loops :
    /\ loops[i].pc = "free" => ~loops[i].cancelled
    /\ loops[i].pc # "free" => loops[i].of # NONE
    /\ loops[i].pc = "answered" =>
         /\ loops[i].answer # NONE
         /\ loops[i].answer.of = loops[i].of
         /\ loops[i].answer.progress <= Progress(loops[i].of)

StatusSound ==
  status # NONE =>
    /\ status.of = session
    /\ status.progress <= Progress(session)
    /\ \A i \in Loops :
         Live(i) /\ loops[i].pc = "answered" => status.progress <= loops[i].answer.progress

\* An unmounted page leaves nothing behind that could act on the next one.
Unmounted ==
  session = NONE =>
    /\ status = NONE /\ ~refreshing /\ panel = "closed"
    /\ \A c \in Clicks : requests[c].pc = "free"

Inv == TypeOK /\ OneLoop /\ NeverFrozen /\ LoopsSound /\ StatusSound /\ Unmounted

\* After a decision sent from the page was taken the disabled form stands only
\* until a poll that is due shows the outcome, or an error: no poll that was
\* under way before, for this session or for another, ends with the old status.
Answered == panel = "sending" /\ \A c \in Clicks : ~requests[c].shown
BringsOutcome(i) ==
  Live(i) /\ (loops[i].pc = "answered" => Settled(loops[i].answer.phase))
DecisionIsShown ==
  Answered =>
    /\ Settled(phase[session])
    /\ refreshing \/ fetchError \/ \E i \in Loops : BringsOutcome(i)

\* Why: the form stands for a draft that waits, sends one decision of its own
\* session at a time, and what polls after the answer began after it.
FormSound ==
  /\ panel # "closed" => status # NONE /\ status.phase = "awaiting_approval"
  /\ \A c \in Clicks : requests[c].shown => panel = "sending" /\ requests[c].of = session
  /\ \A c, d \in Clicks : requests[c].shown /\ requests[d].shown => c = d
OutcomeDue ==
  Answered =>
    /\ Settled(phase[session])
    /\ \/ refreshing
       \/ /\ fetchError \/ \E i \in Loops : Live(i)
          /\ \A i \in Loops : Live(i) => BringsOutcome(i)

PageInv == Inv /\ FormSound /\ OutcomeDue

\* CLAIM WorkflowPage.tsx:54 "Fetch the final result once the workflow
\* completes": the result beside a completed status is the session's own.
ResultIsOfSession ==
  (status # NONE /\ status.phase = "completed" /\ result # NONE) => result = session
=============================================================================
