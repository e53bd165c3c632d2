------------------------- MODULE ReevaluatorProofs -------------------------
(***************************************************************************)
(* Proofs about Reevaluator, for every set of changes, finite or not.      *)
(***************************************************************************)
EXTENDS Reevaluator, TLAPS

\* A fresh Reevaluator satisfies the inductive invariant.
LEMMA LoopInitInv == LoopInit => LoopInv
  BY DEF LoopInit, LoopInv, LoopTypeOK, LoopState, WakeIffReasons, ReadsCoverBatch

\* A run that returns preserves the invariant when what it did not cover of its
\* batch is recorded as lost, and what it covered was committed.
LEMMA ReturnPreservesInv ==
  ASSUME NEW done, NEW given, LoopInv, Return(done, given),
         done \subseteq committed, given \subseteq batch, batch \subseteq done \cup given
  PROVE  LoopInv'
  <1>1. LoopTypeOK'
    BY DEF LoopInv, LoopTypeOK, LoopState, Return
  <1>2. committed' = ((handlers' \cup reasons') \cup batch') \cup (settled' \cup lost')
    BY DEF LoopInv, Return
  <1>3. WakeIffReasons'
    BY DEF LoopInv, WakeIffReasons, Return
  <1> QED
    BY <1>1, <1>2, <1>3 DEF LoopInv, ReadsCoverBatch, Return

\* Every step of the routes, of the loop and of a restart preserves the invariant.
LEMMA LoopNextInv == LoopInv /\ [LoopNext]_loopVars => LoopInv'
  <1> SUFFICES ASSUME LoopInv, [LoopNext]_loopVars PROVE LoopInv'
    OBVIOUS
  <1> USE DEF LoopInv, LoopTypeOK, LoopState, WakeIffReasons, ReadsCoverBatch
  <1>1. CASE \E cs \in SUBSET Change : Commit(cs)
    <2> PICK cs \in SUBSET Change : Commit(cs)
      BY <1>1
    <2> QED
      BY DEF Commit
  <1>2. CASE \E cs \in SUBSET Change : Schedule(cs)
    <2> PICK cs \in SUBSET Change : Schedule(cs)
      BY <1>2
    <2> QED
      BY DEF Schedule
  <1>3. CASE Woken
    BY <1>3 DEF Woken
  <1>4. CASE Take
    BY <1>4 DEF Take
  <1>5. CASE ReadPolicies
    BY <1>5 DEF ReadPolicies, Change
  <1>6. CASE SkipRun
    BY <1>6, ReturnPreservesInv DEF SkipRun
  <1>7. CASE NoSessions
    BY <1>7, ReturnPreservesInv DEF NoSessions
  <1>8. CASE ReadWorld
    BY <1>8 DEF ReadWorld, Change
  <1>9. CASE FinishRun
    BY <1>9, ReturnPreservesInv DEF FinishRun
  <1>10. CASE RunFails
    BY <1>10, ReturnPreservesInv DEF RunFails
  <1>11. CASE Restart
    BY <1>11 DEF Restart
  <1>12. CASE UNCHANGED loopVars
    BY <1>12 DEF loopVars
  <1> QED
    BY <1>1, <1>2, <1>3, <1>4, <1>5, <1>6, <1>7, <1>8, <1>9, <1>10, <1>11, <1>12
    DEF LoopNext, RunStep

\* The loop's inductive invariant: a committed change is always with its route,
\* among the reasons, in the batch of the run in progress, applied, or dropped.
THEOREM LoopInvariant == LoopSpec => []LoopInv
  BY LoopInitInv, LoopNextInv, PTL DEF LoopSpec

\* The task, its event and its list are always of the expected shape.
THEOREM LoopTypeCorrect == LoopSpec => []LoopTypeOK
  <1>1. LoopInv => LoopTypeOK
    BY DEF LoopInv
  <1> QED
    BY <1>1, LoopInvariant, PTL

\* The event of run_forever() is set exactly when reasons wait.
THEOREM EventTellsOfReasons == LoopSpec => []WakeIffReasons
  <1>1. LoopInv => WakeIffReasons
    BY DEF LoopInv
  <1> QED
    BY <1>1, LoopInvariant, PTL

\* What a run disconnects is computed from reads that see its whole batch.
THEOREM RunReadsWhatItWasWokenFor == LoopSpec => []ReadsCoverBatch
  <1>1. LoopInv => ReadsCoverBatch
    BY DEF LoopInv
  <1> QED
    BY <1>1, LoopInvariant, PTL

\* An idle task has applied every committed change whose notice was not dropped.
THEOREM IdleLoopHasAppliedAll == LoopSpec => []NoChangeForgotten
  <1>1. LoopInv => NoChangeForgotten
    BY DEF LoopInv, WakeIffReasons, NoChangeForgotten
  <1> QED
    BY <1>1, LoopInvariant, PTL
============================================================================
