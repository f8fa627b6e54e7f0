--------------------------- MODULE RerankerModel ----------------------------
(***************************************************************************)
(* rag/reranker.py: the cross-encoder that every RerankerService of the    *)
(* process shares, loaded by whoever needs it first under a lock that is   *)
(* a class attribute too.  The callers are the reranker nodes of           *)
(* concurrent workflow runs and the warm-up task that lifespan creates.    *)
(*                                                                         *)
(* asyncio.Lock is external: it serves its waiters first come, first       *)
(* served.  A step is what a task does between two awaits.  Loading and    *)
(* predicting run in worker threads; which of them ends first is open.     *)
(***************************************************************************)
EXTENDS Naturals, Sequences

CONSTANTS Runs,        \* calls of rerank, one per run of the workflow
          WarmUp,      \* the call of warm_up
          CLASS,       \* the lock of the class
          MaxFailures, \* bound on loads and predictions that raise
          NONE, ERROR

Callers == Runs \cup {WarmUp}
Locks == Callers \cup {CLASS}

ASSUME RerankerAssumption ==
  /\ MaxFailures \in Nat
  /\ WarmUp \notin Runs
  /\ CLASS \notin Callers
  /\ NONE \notin Callers
  /\ ERROR \notin Callers \cup {NONE}

VARIABLES
  pc,      \* where each call is
  holder,  \* who holds each lock
  waiting, \* who waits for each lock, in order
  cached,  \* RerankerService._cached_model: a model is named by its loader
  got,     \* what _get_model gave each call: a model or an exception
  failures

vars == <<pc, holder, waiting, cached, got, failures>>

PCs ==
  {"idle", "waiting", "holding", "loading", "predicting", "done", "failed"}

TypeOK ==
  /\ pc \in [Callers -> PCs]
  /\ holder \in [Locks -> Callers \cup {NONE}]
  /\ waiting \in [Locks -> Seq(Callers)]
  /\ cached \in Callers \cup {NONE}
  /\ got \in [Callers -> Callers \cup {NONE, ERROR}]
  /\ failures \in 0 .. MaxFailures

Init ==
  /\ pc = [c \in Callers |-> "idle"]
  /\ holder = [l \in Locks |-> NONE]
  /\ waiting = [l \in Locks |-> <<>>]
  /\ cached = NONE
  /\ got = [c \in Callers |-> NONE]
  /\ failures = 0

\* Mutant: the lock belongs to the instance, of which each node makes one.
InstanceLock(c) == c

\* _get_lock: the class's lock, made by the first caller without an await.
LockOf(c) == CLASS

-----------------------------------------------------------------------------
(***************************************************************************)
(* rerank: a blank query raises and an empty list returns before the model *)
(* is needed.                                                              *)
(***************************************************************************)
ReturnEarly(c) ==
  /\ pc[c] = "idle" /\ c \in Runs
  /\ \E outcome \in {"done", "failed"} : pc' = [pc EXCEPT ![c] = outcome]
  /\ UNCHANGED <<holder, waiting, cached, got, failures>>

\* async with lock: taken at once, or behind those who wait already.
Acquire(c) ==
  LET l == LockOf(c)
  IN /\ pc[c] = "idle"
     /\ IF holder[l] = NONE /\ waiting[l] = <<>>
        THEN /\ pc' = [pc EXCEPT ![c] = "holding"]
             /\ holder' = [holder EXCEPT ![l] = c]
             /\ UNCHANGED waiting
        ELSE /\ pc' = [pc EXCEPT ![c] = "waiting"]
             /\ waiting' = [waiting EXCEPT ![l] = Append(@, c)]
             /\ UNCHANGED holder
     /\ UNCHANGED <<cached, got, failures>>

\* The first waiter of a released lock goes on.
Wake(c) ==
  LET l == LockOf(c)
  IN /\ pc[c] = "waiting"
     /\ holder[l] = NONE
     /\ waiting[l] # <<>> /\ Head(waiting[l]) = c
     /\ pc' = [pc EXCEPT ![c] = "holding"]
     /\ holder' = [holder EXCEPT ![l] = c]
     /\ waiting' = [waiting EXCEPT ![l] = Tail(@)]
     /\ UNCHANGED <<cached, got, failures>>

Release(c) == holder' = [holder EXCEPT ![LockOf(c)] = NONE]

\* What a call does with the model: a run predicts, the warm-up is done.
Continue(c) ==
  [pc EXCEPT ![c] = IF c = WarmUp THEN "done" ELSE "predicting"]

\* Under the lock: the model is there.
UseCached(c) ==
  /\ pc[c] = "holding"
  /\ cached # NONE
  /\ got' = [got EXCEPT ![c] = cached]
  /\ pc' = Continue(c)
  /\ Release(c)
  /\ UNCHANGED <<waiting, cached, failures>>

\* Mutant: the cache was looked at before the lock was taken.
BeginLoadUnchecked(c) ==
  /\ pc[c] = "holding"
  /\ pc' = [pc EXCEPT ![c] = "loading"]
  /\ UNCHANGED <<holder, waiting, cached, got, failures>>

BeginLoad(c) ==
  /\ pc[c] = "holding"
  /\ cached = NONE
  /\ pc' = [pc EXCEPT ![c] = "loading"]
  /\ UNCHANGED <<holder, waiting, cached, got, failures>>

LoadSucceeds(c) ==
  /\ pc[c] = "loading"
  /\ cached' = c
  /\ got' = [got EXCEPT ![c] = c]
  /\ pc' = Continue(c)
  /\ Release(c)
  /\ UNCHANGED <<waiting, failures>>

\* Mutant: acquire() and release() without async with.
LoadFailsHolding(c) ==
  /\ pc[c] = "loading"
  /\ failures < MaxFailures
  /\ failures' = failures + 1
  /\ got' = [got EXCEPT ![c] = ERROR]
  /\ pc' = [pc EXCEPT ![c] = "failed"]
  /\ UNCHANGED <<holder, waiting, cached>>

\* RerankingError: the lock is left and the next caller loads again.
LoadFails(c) ==
  /\ pc[c] = "loading"
  /\ failures < MaxFailures
  /\ failures' = failures + 1
  /\ got' = [got EXCEPT ![c] = ERROR]
  /\ pc' = [pc EXCEPT ![c] = "failed"]
  /\ Release(c)
  /\ UNCHANGED <<waiting, cached>>

\* predict runs outside the lock, for several runs at once.
Predict(c) ==
  /\ pc[c] = "predicting"
  /\ \/ /\ pc' = [pc EXCEPT ![c] = "done"]
        /\ UNCHANGED failures
     \/ /\ failures < MaxFailures
        /\ failures' = failures + 1
        /\ pc' = [pc EXCEPT ![c] = "failed"]
  /\ UNCHANGED <<holder, waiting, cached, got>>

Step(c) ==
  \/ ReturnEarly(c) \/ Acquire(c) \/ Wake(c) \/ UseCached(c) \/ BeginLoad(c)
  \/ LoadSucceeds(c) \/ LoadFails(c) \/ Predict(c)

Next == \E c \in Callers : Step(c)

Spec == Init /\ [][Next]_vars

(***************************************************************************)
(* Fairness: a task that can go on does, and a thread that loads or        *)
(* predicts ends.  No run has to reach the reranker, and nothing has to    *)
(* fail.                                                                   *)
(***************************************************************************)
Going(c) ==
  Wake(c) \/ UseCached(c) \/ BeginLoad(c) \/ LoadSucceeds(c) \/ LoadFails(c) \/ Predict(c)

FairSpec == Spec /\ \A c \in Callers : WF_vars(Going(c))

-----------------------------------------------------------------------------
Shared == INSTANCE LazyModel WITH Models <- Callers, model <- cached, answer <- got

\* The process has one model: whatever calls race with each other and with the
\* warm-up, nobody loads a second one, everyone predicts with the same, and a
\* failed load costs the call that tried it and nobody else.
SharesOneModel == Shared!Spec

\* Never two loads at once (about 1 GB each), nor one beside a loaded model.
LoadsAreExclusive ==
  \A c \in Callers : pc[c] = "loading" =>
    /\ cached = NONE
    /\ \A d \in Callers : pc[d] = "loading" => d = c

(***************************************************************************)
(* The inductive invariant: who holds the lock is who decides or loads,    *)
(* and what has been given out is the cached model.                        *)
(***************************************************************************)
InCriticalSection(c) == pc[c] \in {"holding", "loading"}

Inv ==
  /\ TypeOK
  /\ \A c \in Callers : InCriticalSection(c) <=> holder[CLASS] = c
  /\ \A c \in Callers : pc[c] = "loading" => cached = NONE
  /\ \A c \in Callers :
       pc[c] \in {"idle", "waiting", "holding", "loading"} => got[c] = NONE
  /\ \A c \in Callers : got[c] \in Callers => got[c] = cached
  /\ \A c \in Callers : pc[c] = "predicting" => got[c] \in Callers

\* No call waits for ever: the lock is handed on also when a load fails.
CallsReturn ==
  \A c \in Callers : pc[c] = "waiting" ~> pc[c] \in {"done", "failed"}
=============================================================================
