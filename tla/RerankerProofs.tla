--------------------------- MODULE RerankerProofs ---------------------------
(***************************************************************************)
(* Proofs about RerankerModel for any number of runs and failures.         *)
(***************************************************************************)
EXTENDS RerankerModel, TLAPS

\* Nobody is NONE or ERROR.
LEMMA Sentinels ==
  /\ NONE \notin Callers /\ ERROR \notin Callers /\ ERROR # NONE
  /\ CLASS \in Locks
  /\ Callers \subseteq Locks
BY RerankerAssumption DEF Callers, Locks

\* An update of a function stays in its type.
LEMMA UpdateTyped ==
  ASSUME NEW D, NEW S, NEW f \in [D -> S], NEW x \in D, NEW v \in S
  PROVE  [f EXCEPT ![x] = v] \in [D -> S]
OBVIOUS

LEMMA Initial == Init => Inv
BY Sentinels, RerankerAssumption DEF Init, Inv, TypeOK, PCs, InCriticalSection

\* A call that returns without the model.
LEMMA ReturnEarlyKeeps ==
  ASSUME Inv, NEW c \in Callers, ReturnEarly(c)
  PROVE  Inv'
BY Sentinels DEF ReturnEarly, Inv, TypeOK, PCs, InCriticalSection

\* The lock is taken only when nobody holds it.
LEMMA AcquireKeeps ==
  ASSUME Inv, NEW c \in Callers, Acquire(c)
  PROVE  Inv'
<1> USE Sentinels DEF LockOf
<1>1. TypeOK'
  <2>1. waiting' \in [Locks -> Seq(Callers)]
    <3>1. waiting[CLASS] \in Seq(Callers)
      BY DEF Inv, TypeOK
    <3>2. Append(waiting[CLASS], c) \in Seq(Callers)
      BY <3>1
    <3>3. waiting' = waiting
            \/ waiting' = [waiting EXCEPT ![CLASS] = Append(waiting[CLASS], c)]
      BY DEF Acquire
    <3>4. waiting \in [Locks -> Seq(Callers)]
      BY DEF Inv, TypeOK
    <3>5. [waiting EXCEPT ![CLASS] = Append(waiting[CLASS], c)] \in [Locks -> Seq(Callers)]
      BY <3>2, <3>4, Sentinels, UpdateTyped, Zenon
    <3>6. QED BY <3>3, <3>4, <3>5, Zenon
  <2>2. pc' \in [Callers -> PCs]
    <3>1. pc' = [pc EXCEPT ![c] = "holding"] \/ pc' = [pc EXCEPT ![c] = "waiting"]
      BY DEF Acquire
    <3>2. pc \in [Callers -> PCs]
      BY DEF Inv, TypeOK
    <3>3. "holding" \in PCs /\ "waiting" \in PCs
      BY DEF PCs
    <3>4. QED BY <3>1, <3>2, <3>3
  <2>3. holder' \in [Locks -> Callers \cup {NONE}]
    BY DEF Acquire, Inv, TypeOK
  <2>4. UNCHANGED <<cached, got, failures>>
    BY DEF Acquire
  <2>5. QED BY <2>1, <2>2, <2>3, <2>4 DEF Inv, TypeOK
<1>2. (\A d \in Callers : InCriticalSection(d) <=> holder[CLASS] = d)'
  BY DEF Acquire, Inv, TypeOK, InCriticalSection
<1>3. QED BY <1>1, <1>2 DEF Acquire, Inv, TypeOK, InCriticalSection

LEMMA WakeKeeps ==
  ASSUME Inv, NEW c \in Callers, Wake(c)
  PROVE  Inv'
<1> USE Sentinels DEF LockOf
<1>1. TypeOK'
  BY DEF Wake, Inv, TypeOK, PCs
<1>2. (\A d \in Callers : InCriticalSection(d) <=> holder[CLASS] = d)'
  BY DEF Wake, Inv, TypeOK, InCriticalSection
<1>3. QED BY <1>1, <1>2 DEF Wake, Inv, TypeOK, InCriticalSection

\* The holder of the lock decides, and gives out the cached model.
LEMMA UseCachedKeeps ==
  ASSUME Inv, NEW c \in Callers, UseCached(c)
  PROVE  Inv'
<1> USE Sentinels DEF LockOf
<1>1. TypeOK'
  BY DEF UseCached, Continue, Release, Inv, TypeOK, PCs
<1>2. (\A d \in Callers : InCriticalSection(d) <=> holder[CLASS] = d)'
  BY DEF UseCached, Continue, Release, Inv, TypeOK, InCriticalSection
<1>3. QED BY <1>1, <1>2 DEF UseCached, Continue, Release, Inv, TypeOK, InCriticalSection

LEMMA BeginLoadKeeps ==
  ASSUME Inv, NEW c \in Callers, BeginLoad(c)
  PROVE  Inv'
BY Sentinels DEF BeginLoad, Inv, TypeOK, PCs, InCriticalSection

\* Nothing was given out before, as nothing was cached.
LEMMA LoadSucceedsKeeps ==
  ASSUME Inv, NEW c \in Callers, LoadSucceeds(c)
  PROVE  Inv'
<1> USE Sentinels DEF LockOf
<1>1. TypeOK'
  BY DEF LoadSucceeds, Continue, Release, Inv, TypeOK, PCs
<1>2. (\A d \in Callers : InCriticalSection(d) <=> holder[CLASS] = d)'
  BY DEF LoadSucceeds, Continue, Release, Inv, TypeOK, InCriticalSection
<1>3. \A d \in Callers : pc[d] = "loading" => d = c
  BY DEF LoadSucceeds, Inv, InCriticalSection
<1>4. (\A d \in Callers : pc[d] = "loading" => cached = NONE)'
  BY <1>3 DEF LoadSucceeds, Continue, Inv, TypeOK
<1>5. \A d \in Callers : got[d] \notin Callers
  BY DEF LoadSucceeds, Inv
<1>6. QED
  BY <1>1, <1>2, <1>4, <1>5
     DEF LoadSucceeds, Continue, Release, Inv, TypeOK, InCriticalSection

LEMMA LoadFailsKeeps ==
  ASSUME Inv, NEW c \in Callers, LoadFails(c)
  PROVE  Inv'
<1> USE Sentinels DEF LockOf
<1>1. TypeOK'
  BY RerankerAssumption DEF LoadFails, Release, Inv, TypeOK, PCs
<1>2. (\A d \in Callers : InCriticalSection(d) <=> holder[CLASS] = d)'
  BY DEF LoadFails, Release, Inv, TypeOK, InCriticalSection
<1>3. QED BY <1>1, <1>2 DEF LoadFails, Release, Inv, TypeOK, InCriticalSection

LEMMA PredictKeeps ==
  ASSUME Inv, NEW c \in Callers, Predict(c)
  PROVE  Inv'
<1>1. failures' \in 0 .. MaxFailures
  BY RerankerAssumption DEF Predict, Inv, TypeOK
<1>2. pc' \in [Callers -> PCs]
  BY DEF Predict, Inv, TypeOK, PCs
<1>3. TypeOK'
  BY <1>1, <1>2 DEF Predict, Inv, TypeOK
<1>4. QED BY <1>3 DEF Predict, Inv, TypeOK, InCriticalSection

LEMMA StepKeeps == Inv /\ [Next]_vars => Inv'
<1> SUFFICES ASSUME Inv, [Next]_vars PROVE Inv'
  OBVIOUS
<1>1. CASE UNCHANGED vars
  BY <1>1 DEF vars, Inv, TypeOK, InCriticalSection
<1>2. ASSUME NEW c \in Callers, Step(c) PROVE Inv'
  BY <1>2, ReturnEarlyKeeps, AcquireKeeps, WakeKeeps, UseCachedKeeps,
     BeginLoadKeeps, LoadSucceedsKeeps, LoadFailsKeeps, PredictKeeps DEF Step
<1>3. QED BY <1>1, <1>2 DEF Next

\* The inductive invariant holds in every reachable state: the lock of the
\* class has one holder, who alone decides and loads.
THEOREM RerankerInvariance == Spec => []Inv
BY Initial, StepKeeps, PTL DEF Spec

\* There are never two loads at once, nor one beside a loaded model.
THEOREM LoadsExclusive == Spec => []LoadsAreExclusive
<1>1. Inv => LoadsAreExclusive
  BY Sentinels DEF Inv, LoadsAreExclusive, InCriticalSection
<1>2. QED BY <1>1, RerankerInvariance, PTL

-----------------------------------------------------------------------------
\* Every step of the callers is a step of LazyModel or leaves it alone.
LEMMA StepRefines == Inv /\ [Next]_vars => [Shared!Next]_(Shared!vars)
<1> SUFFICES ASSUME Inv, [Next]_vars PROVE [Shared!Next]_(Shared!vars)
  OBVIOUS
<1> USE Sentinels DEF Shared!vars
<1>1. CASE UNCHANGED vars
  BY <1>1 DEF vars
<1>2. ASSUME NEW c \in Callers, Step(c) PROVE [Shared!Next]_(Shared!vars)
  <2>1. CASE ReturnEarly(c) \/ Acquire(c) \/ Wake(c) \/ BeginLoad(c) \/ Predict(c)
    BY <2>1 DEF ReturnEarly, Acquire, Wake, BeginLoad, Predict
  <2>2. CASE UseCached(c)
    <3>1. Shared!Give(c)
      BY <2>2 DEF UseCached, Inv, Shared!Give
    <3>2. QED BY <3>1 DEF Shared!Next
  <2>3. CASE LoadSucceeds(c)
    <3>1. Shared!Load(c)
      BY <2>3 DEF LoadSucceeds, Inv, Shared!Load
    <3>2. QED BY <3>1 DEF Shared!Next
  <2>4. CASE LoadFails(c)
    <3>1. Shared!Refuse(c)
      BY <2>4 DEF LoadFails, Inv, Shared!Refuse
    <3>2. QED BY <3>1 DEF Shared!Next
  <2>5. QED BY <1>2, <2>1, <2>2, <2>3, <2>4 DEF Step
<1>3. QED BY <1>1, <1>2 DEF Next

\* The process has one model, which every caller that is given one is given,
\* and a failed load costs its caller only: RerankerModel implements LazyModel.
THEOREM RefinesLazyModel == Spec => SharesOneModel
<1>1. Init => Shared!Init
  BY DEF Init, Shared!Init
<1>2. QED
  BY <1>1, StepRefines, RerankerInvariance, PTL DEF Spec, SharesOneModel, Shared!Spec
=============================================================================
