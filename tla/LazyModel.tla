----------------------------- MODULE LazyModel ------------------------------
(***************************************************************************)
(* What the callers of a lazily loaded model are promised                  *)
(* (rag/reranker.py: "loaded once per process"): there is one model, it    *)
(* never changes once it is there, each caller is given that model or an   *)
(* error, and nobody is given an error once the model is there.            *)
(***************************************************************************)
CONSTANTS Callers, \* calls that need the model, the warm-up among them
          Models,  \* the objects a load may return
          NONE,    \* no model, no answer yet
          ERROR    \* the answer of a call whose load failed

VARIABLES model,   \* the model of the process
          answer   \* what each call was given

vars == <<model, answer>>

Init == model = NONE /\ answer = [c \in Callers |-> NONE]

Load(c) ==
  /\ answer[c] = NONE /\ model = NONE
  /\ model' \in Models
  /\ answer' = [answer EXCEPT ![c] = model']

Give(c) ==
  /\ answer[c] = NONE /\ model # NONE
  /\ answer' = [answer EXCEPT ![c] = model]
  /\ UNCHANGED model

Refuse(c) ==
  /\ answer[c] = NONE /\ model = NONE
  /\ answer' = [answer EXCEPT ![c] = ERROR]
  /\ UNCHANGED model

Next == \E c \in Callers : Load(c) \/ Give(c) \/ Refuse(c)

Spec == Init /\ [][Next]_vars
=============================================================================
