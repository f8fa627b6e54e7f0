------------------------- MODULE ApprovalLifecycle --------------------------
(***************************************************************************)
(* What a session with one reviewer promises its client: the status        *)
(* GET /workflow/{id} reports and the one verdict behind it.  A verdict is *)
(* reached once, by the gate while the session runs or by the reviewer     *)
(* while it awaits approval, and the session ends accordingly; work that   *)
(* can go on does.                                                         *)
(***************************************************************************)
VARIABLES phase,    \* the status of the session
          verdict   \* who decided, and what

vars == <<phase, verdict>>

Phases ==
  {"not_found", "running", "awaiting_approval", "completed", "rejected", "failed"}
Verdicts == {"none", "auto", "approved", "rejected"}

Init == phase = "not_found" /\ verdict = "none"

Start ==
  /\ phase = "not_found"
  /\ phase' = "running"
  /\ UNCHANGED verdict

AutoApprove ==
  /\ phase = "running" /\ verdict = "none"
  /\ verdict' = "auto"
  /\ UNCHANGED phase

Pause ==
  /\ phase = "running" /\ verdict = "none"
  /\ phase' = "awaiting_approval"
  /\ UNCHANGED verdict

Decide ==
  /\ phase = "awaiting_approval" /\ verdict = "none"
  /\ verdict' \in {"approved", "rejected"}
  /\ UNCHANGED phase

Resume ==
  /\ phase = "awaiting_approval"
  /\ \/ verdict = "approved" /\ phase' = "running"
     \/ verdict = "rejected" /\ phase' = "rejected"
  /\ UNCHANGED verdict

Release ==
  /\ phase = "running" /\ verdict \in {"auto", "approved"}
  /\ phase' = "completed"
  /\ UNCHANGED verdict

\* An auto-approved session never fails.
Fail ==
  /\ phase = "running" /\ verdict \in {"none", "approved"}
  /\ phase' = "failed"
  /\ UNCHANGED verdict

Next == Start \/ AutoApprove \/ Pause \/ Decide \/ Resume \/ Release \/ Fail

Work == Pause \/ Resume \/ Release \/ Fail

Spec == Init /\ [][Next]_vars /\ WF_vars(Work)
=============================================================================
