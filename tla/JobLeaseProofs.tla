--------------------------- MODULE JobLeaseProofs ---------------------------
(***************************************************************************)
(* Proofs about JobLease for every set of invocations and every value of   *)
(* the staleness bounds allowed by LeaseAssumption.                        *)
(***************************************************************************)
EXTENDS JobLease, TLAPS

---------------------------------------------------------------------------
(* Type correctness.                                                       *)

\* Ageing keeps a timestamp in range.
LEMMA OlderType ==
    ASSUME TypeOK, NEW r \in Runs, NEW age \in Ages \cup {NoBeat}
    PROVE  /\ Older(r, age) \in Ages \cup {NoBeat}
           /\ age # NoBeat => Older(r, age) \in Ages
  BY LeaseAssumption DEF Older, Ages, AgeCap, NoBeat

\* Every variable of the lease keeps its type, whatever the interleaving.
THEOREM TypeCorrect == Spec => []TypeOK
<1>1. Init => TypeOK
  BY LeaseAssumption DEF Init, TypeOK, Ages, AgeCap, Statuses, PCs
<1>2. TypeOK /\ [Next]_vars => TypeOK'
  <2> SUFFICES ASSUME TypeOK, [Next]_vars
               PROVE  TypeOK'
    OBVIOUS
  <2> USE DEF TypeOK, Statuses, Closed, Outcomes, PCs, Alive, Claiming, Closing
  <2>1. CASE Tick
    BY <2>1, OlderType DEF Tick, NoBeat, Ages
  <2>2. ASSUME NEW r \in Runs, Invoke(r)
        PROVE  TypeOK'
    BY <2>2, LeaseAssumption DEF Invoke, Ages, AgeCap
  <2>3. ASSUME NEW r \in Runs, Claim(r)
        PROVE  TypeOK'
    <3>1. CASE ClaimFresh(r)
      BY <3>1 DEF ClaimFresh
    <3>2. CASE ClaimConflict(r)
      BY <3>2 DEF ClaimConflict
    <3>3. CASE Skip(r)
      BY <3>3 DEF Skip
    <3>4. CASE JudgeStale(r)
      BY <3>4 DEF JudgeStale
    <3>5. CASE ListStale(r)
      BY <3>5 DEF ListStale, RunningRows
    <3>6. CASE Supersede(r)
      BY <3>6 DEF Supersede
    <3>7. CASE SupersedeFails(r)
      BY <3>7 DEF SupersedeFails
    <3>8. QED
      BY <2>3, <3>1, <3>2, <3>3, <3>4, <3>5, <3>6, <3>7 DEF Claim
  <2>4. ASSUME NEW r \in Runs, Beat(r) \/ BeatFail(r)
        PROVE  TypeOK'
    <3>1. CASE BeatRead(r)
      BY <3>1 DEF BeatRead
    <3>2. CASE BeatWrite(r)
      BY <3>2, LeaseAssumption DEF BeatWrite, AfterBeat, Ages, AgeCap
    <3>3. CASE EnterUnbeaten(r)
      BY <3>3 DEF EnterUnbeaten
    <3>4. CASE BeatFail(r)
      BY <3>4, LeaseAssumption DEF BeatFail, AfterBeat
    <3>5. QED
      BY <2>4, <3>1, <3>2, <3>3, <3>4 DEF Beat
  <2>5. ASSUME NEW r \in Runs, NEW how \in Closing, BodyEnds(r, how)
        PROVE  TypeOK'
    BY <2>5 DEF BodyEnds
  <2>6. ASSUME NEW r \in Runs, Terminal(r)
        PROVE  TypeOK'
    BY <2>6 DEF Terminal, OutcomesOf
  <2>7. ASSUME NEW r \in Runs, TerminalLost(r) \/ Crash(r) \/ Stall(r)
        PROVE  TypeOK'
    <3>1. CASE TerminalLost(r)
      BY <3>1, LeaseAssumption DEF TerminalLost
    <3>2. CASE Crash(r)
      BY <3>2, LeaseAssumption DEF Crash
    <3>3. CASE Stall(r)
      BY <3>3, LeaseAssumption DEF Stall
    <3>4. QED
      BY <2>7, <3>1, <3>2, <3>3
  <2>8. ASSUME NEW r \in Runs, Forget(r)
        PROVE  TypeOK'
    BY <2>8, LeaseAssumption DEF Forget, Ages, AgeCap
  <2>9. CASE UNCHANGED vars
    BY <2>9 DEF vars
  <2>10. QED
    BY <2>1, <2>2, <2>3, <2>4, <2>5, <2>6, <2>7, <2>8, <2>9
       DEF Next, RunStep, Fault
<1>3. QED
  BY <1>1, <1>2, PTL DEF Spec

---------------------------------------------------------------------------
(* The inductive invariant.                                                *)

\* Every state of the lease satisfies LeaseInv, hence in particular at most one
\* row of the key is running.
THEOREM LeaseInvariant == Spec => []LeaseInv
<1>1. Init => LeaseInv
  BY LeaseAssumption
     DEF Init, LeaseInv, OneRunningRow, RowFitsPc, HealthyIsFresh, Healthy, Alive,
         JudgementHolds, BodyHoldsLease, Closing, Claiming
<1>2. TypeOK /\ TypeOK' /\ LeaseInv /\ [Next]_vars => LeaseInv'
  <2> SUFFICES ASSUME TypeOK, TypeOK', LeaseInv, [Next]_vars
               PROVE  LeaseInv'
    OBVIOUS
  <2> USE LeaseAssumption
      DEF TypeOK, LeaseInv, Alive, Claiming, Closing, Healthy, RunningRows
  <2>1. CASE Tick
    <3>1. OneRunningRow'
      BY <2>1 DEF Tick, ProofAge, Older, Ages, AgeCap, NoBeat, OneRunningRow
    <3>2. RowFitsPc'
      BY <2>1 DEF Tick, ProofAge, Older, Ages, AgeCap, NoBeat, RowFitsPc
    <3>3. HealthyIsFresh'
      BY <2>1 DEF Tick, ProofAge, Older, Ages, AgeCap, NoBeat, HealthyIsFresh
    <3>4. JudgementHolds'
      BY <2>1 DEF Tick, ProofAge, Older, Ages, AgeCap, NoBeat, JudgementHolds
    <3>5. BodyHoldsLease'
      BY <2>1 DEF Tick, ProofAge, Older, Ages, AgeCap, NoBeat, BodyHoldsLease
    <3>6. QED
      BY <3>1, <3>2, <3>3, <3>4, <3>5
  <2>2. ASSUME NEW r \in Runs, Invoke(r)
        PROVE  LeaseInv'
    <3>1. OneRunningRow'
      BY <2>2 DEF Invoke, OneRunningRow
    <3>2. RowFitsPc'
      BY <2>2 DEF Invoke, RowFitsPc
    <3>3. HealthyIsFresh'
      BY <2>2 DEF Invoke, HealthyIsFresh
    <3>4. JudgementHolds'
      BY <2>2 DEF Invoke, JudgementHolds
    <3>5. BodyHoldsLease'
      BY <2>2 DEF Invoke, BodyHoldsLease
    <3>6. QED
      BY <3>1, <3>2, <3>3, <3>4, <3>5
  <2>3. ASSUME NEW r \in Runs, ClaimFresh(r)
        PROVE  LeaseInv'
    <3>1. OneRunningRow'
      BY <2>3 DEF ClaimFresh, CanWrite, OneRunningRow
    <3>2. RowFitsPc'
      BY <2>3 DEF ClaimFresh, CanWrite, RowFitsPc
    <3>3. HealthyIsFresh'
      BY <2>3 DEF ClaimFresh, HealthyIsFresh, RowFitsPc, Ages, AgeCap
    <3>4. JudgementHolds'
      BY <2>3 DEF ClaimFresh, CanWrite, JudgementHolds
    <3>5. BodyHoldsLease'
      BY <2>3 DEF ClaimFresh, CanWrite, BodyHoldsLease
    <3>6. QED
      BY <3>1, <3>2, <3>3, <3>4, <3>5
  <2>4. ASSUME NEW r \in Runs, ClaimConflict(r)
        PROVE  LeaseInv'
    <3>1. OneRunningRow'
      BY <2>4 DEF ClaimConflict, CanWrite, OneRunningRow
    <3>2. RowFitsPc'
      BY <2>4 DEF ClaimConflict, CanWrite, RowFitsPc
    <3>3. HealthyIsFresh'
      BY <2>4 DEF ClaimConflict, CanWrite, HealthyIsFresh
    <3>4. JudgementHolds'
      BY <2>4 DEF ClaimConflict, CanWrite, JudgementHolds
    <3>5. BodyHoldsLease'
      BY <2>4 DEF ClaimConflict, CanWrite, BodyHoldsLease
    <3>6. QED
      BY <3>1, <3>2, <3>3, <3>4, <3>5
  <2>5. ASSUME NEW r \in Runs, Skip(r)
        PROVE  LeaseInv'
    <3>1. OneRunningRow'
      BY <2>5 DEF Skip, OneRunningRow
    <3>2. RowFitsPc'
      BY <2>5 DEF Skip, RowFitsPc
    <3>3. HealthyIsFresh'
      BY <2>5 DEF Skip, HealthyIsFresh
    <3>4. JudgementHolds'
      BY <2>5 DEF Skip, JudgementHolds
    <3>5. BodyHoldsLease'
      BY <2>5 DEF Skip, BodyHoldsLease
    <3>6. QED
      BY <3>1, <3>2, <3>3, <3>4, <3>5
  <2>6. ASSUME NEW r \in Runs, JudgeStale(r)
        PROVE  LeaseInv'
    <3>1. OneRunningRow'
      BY <2>6 DEF JudgeStale, IsActive, Ages, AgeCap, NoBeat, OneRunningRow
    <3>2. RowFitsPc'
      BY <2>6 DEF JudgeStale, IsActive, Ages, AgeCap, NoBeat, RowFitsPc
    <3>3. HealthyIsFresh'
      BY <2>6 DEF JudgeStale, IsActive, Ages, AgeCap, NoBeat, HealthyIsFresh
    <3>4. JudgementHolds'
      <4>1. ASSUME NEW s \in Runs
            PROVE  ~Healthy(s)
        BY <2>6, <4>1 DEF JudgeStale, IsActive, HealthyIsFresh, Ages, AgeCap, NoBeat
      <4>2. QED
        BY <2>6, <4>1 DEF JudgeStale, JudgementHolds
    <3>5. BodyHoldsLease'
      BY <2>6 DEF JudgeStale, IsActive, Ages, AgeCap, NoBeat, BodyHoldsLease
    <3>6. QED
      BY <3>1, <3>2, <3>3, <3>4, <3>5
  <2>7. ASSUME NEW r \in Runs, ListStale(r)
        PROVE  LeaseInv'
    <3>1. OneRunningRow'
      BY <2>7 DEF ListStale, OneRunningRow
    <3>2. RowFitsPc'
      BY <2>7 DEF ListStale, RowFitsPc
    <3>3. HealthyIsFresh'
      BY <2>7 DEF ListStale, HealthyIsFresh
    <3>4. JudgementHolds'
      BY <2>7 DEF ListStale, JudgementHolds
    <3>5. BodyHoldsLease'
      BY <2>7 DEF ListStale, BodyHoldsLease
    <3>6. QED
      BY <3>1, <3>2, <3>3, <3>4, <3>5
  <2>8. ASSUME NEW r \in Runs, Supersede(r)
        PROVE  LeaseInv'
    <3>1. OneRunningRow'
      BY <2>8 DEF Supersede, OneRunningRow
    <3>2. RowFitsPc'
      BY <2>8 DEF Supersede, RowFitsPc, OneRunningRow
    <3>3. HealthyIsFresh'
      BY <2>8 DEF Supersede, HealthyIsFresh, RowFitsPc, Ages, AgeCap
    <3>4. JudgementHolds'
      BY <2>8 DEF Supersede, JudgementHolds
    <3>5. BodyHoldsLease'
      BY <2>8 DEF Supersede, BodyHoldsLease, JudgementHolds, RowFitsPc
    <3>6. QED
      BY <3>1, <3>2, <3>3, <3>4, <3>5
  <2>9. ASSUME NEW r \in Runs, SupersedeFails(r)
        PROVE  LeaseInv'
    <3>1. OneRunningRow'
      BY <2>9 DEF SupersedeFails, OneRunningRow
    <3>2. RowFitsPc'
      BY <2>9 DEF SupersedeFails, RowFitsPc
    <3>3. HealthyIsFresh'
      BY <2>9 DEF SupersedeFails, HealthyIsFresh
    <3>4. JudgementHolds'
      BY <2>9 DEF SupersedeFails, JudgementHolds
    <3>5. BodyHoldsLease'
      BY <2>9 DEF SupersedeFails, BodyHoldsLease
    <3>6. QED
      BY <3>1, <3>2, <3>3, <3>4, <3>5
  <2>10. ASSUME NEW r \in Runs, BeatRead(r)
        PROVE  LeaseInv'
    <3>1. OneRunningRow'
      BY <2>10 DEF BeatRead, OneRunningRow
    <3>2. RowFitsPc'
      BY <2>10 DEF BeatRead, RowFitsPc
    <3>3. HealthyIsFresh'
      BY <2>10 DEF BeatRead, HealthyIsFresh
    <3>4. JudgementHolds'
      BY <2>10 DEF BeatRead, JudgementHolds
    <3>5. BodyHoldsLease'
      BY <2>10 DEF BeatRead, BodyHoldsLease
    <3>6. QED
      BY <3>1, <3>2, <3>3, <3>4, <3>5
  <2>11. ASSUME NEW r \in Runs, BeatWrite(r)
        PROVE  LeaseInv'
    <3>1. OneRunningRow'
      BY <2>11 DEF BeatWrite, AfterBeat, CanWrite, NoBeat, OneRunningRow
    <3>2. RowFitsPc'
      BY <2>11 DEF BeatWrite, AfterBeat, CanWrite, NoBeat, RowFitsPc
    <3>3. HealthyIsFresh'
      BY <2>11 DEF BeatWrite, AfterBeat, CanWrite, NoBeat, HealthyIsFresh
    <3>4. JudgementHolds'
      BY <2>11 DEF BeatWrite, AfterBeat, CanWrite, NoBeat, JudgementHolds
    <3>5. BodyHoldsLease'
      BY <2>11 DEF BeatWrite, AfterBeat, CanWrite, NoBeat, BodyHoldsLease
    <3>6. QED
      BY <3>1, <3>2, <3>3, <3>4, <3>5
  <2>12. ASSUME NEW r \in Runs, EnterUnbeaten(r)
        PROVE  LeaseInv'
    <3>1. OneRunningRow'
      BY <2>12 DEF EnterUnbeaten, OneRunningRow
    <3>2. RowFitsPc'
      BY <2>12 DEF EnterUnbeaten, RowFitsPc
    <3>3. HealthyIsFresh'
      BY <2>12 DEF EnterUnbeaten, HealthyIsFresh
    <3>4. JudgementHolds'
      BY <2>12 DEF EnterUnbeaten, JudgementHolds
    <3>5. BodyHoldsLease'
      BY <2>12 DEF EnterUnbeaten, BodyHoldsLease
    <3>6. QED
      BY <3>1, <3>2, <3>3, <3>4, <3>5
  <2>13. ASSUME NEW r \in Runs, BeatFail(r)
        PROVE  LeaseInv'
    <3>1. OneRunningRow'
      BY <2>13 DEF BeatFail, AfterBeat, OneRunningRow
    <3>2. RowFitsPc'
      BY <2>13 DEF BeatFail, AfterBeat, RowFitsPc
    <3>3. HealthyIsFresh'
      BY <2>13 DEF BeatFail, AfterBeat, HealthyIsFresh
    <3>4. JudgementHolds'
      BY <2>13 DEF BeatFail, AfterBeat, JudgementHolds
    <3>5. BodyHoldsLease'
      BY <2>13 DEF BeatFail, AfterBeat, BodyHoldsLease
    <3>6. QED
      BY <3>1, <3>2, <3>3, <3>4, <3>5
  <2>14. ASSUME NEW r \in Runs, NEW how \in Closing, BodyEnds(r, how)
        PROVE  LeaseInv'
    <3>1. OneRunningRow'
      BY <2>14 DEF BodyEnds, OneRunningRow
    <3>2. RowFitsPc'
      BY <2>14 DEF BodyEnds, RowFitsPc
    <3>3. HealthyIsFresh'
      BY <2>14 DEF BodyEnds, HealthyIsFresh
    <3>4. JudgementHolds'
      BY <2>14 DEF BodyEnds, JudgementHolds
    <3>5. BodyHoldsLease'
      BY <2>14 DEF BodyEnds, BodyHoldsLease
    <3>6. QED
      BY <3>1, <3>2, <3>3, <3>4, <3>5
  <2>15. ASSUME NEW r \in Runs, Terminal(r)
        PROVE  LeaseInv'
    <3>1. OneRunningRow'
      BY <2>15 DEF Terminal, OutcomesOf, CanWrite, OneRunningRow
    <3>2. RowFitsPc'
      BY <2>15 DEF Terminal, OutcomesOf, CanWrite, RowFitsPc
    <3>3. HealthyIsFresh'
      BY <2>15 DEF Terminal, OutcomesOf, CanWrite, HealthyIsFresh
    <3>4. JudgementHolds'
      BY <2>15 DEF Terminal, OutcomesOf, CanWrite, JudgementHolds
    <3>5. BodyHoldsLease'
      BY <2>15 DEF Terminal, OutcomesOf, CanWrite, BodyHoldsLease
    <3>6. QED
      BY <3>1, <3>2, <3>3, <3>4, <3>5
  <2>16. ASSUME NEW r \in Runs, TerminalLost(r)
        PROVE  LeaseInv'
    <3>1. OneRunningRow'
      BY <2>16 DEF TerminalLost, OneRunningRow
    <3>2. RowFitsPc'
      BY <2>16 DEF TerminalLost, RowFitsPc
    <3>3. HealthyIsFresh'
      BY <2>16 DEF TerminalLost, HealthyIsFresh
    <3>4. JudgementHolds'
      BY <2>16 DEF TerminalLost, JudgementHolds
    <3>5. BodyHoldsLease'
      BY <2>16 DEF TerminalLost, BodyHoldsLease
    <3>6. QED
      BY <3>1, <3>2, <3>3, <3>4, <3>5
  <2>17. ASSUME NEW r \in Runs, Crash(r)
        PROVE  LeaseInv'
    <3>1. OneRunningRow'
      BY <2>17 DEF Crash, OneRunningRow
    <3>2. RowFitsPc'
      BY <2>17 DEF Crash, RowFitsPc
    <3>3. HealthyIsFresh'
      BY <2>17 DEF Crash, HealthyIsFresh
    <3>4. JudgementHolds'
      BY <2>17 DEF Crash, JudgementHolds
    <3>5. BodyHoldsLease'
      BY <2>17 DEF Crash, BodyHoldsLease
    <3>6. QED
      BY <3>1, <3>2, <3>3, <3>4, <3>5
  <2>18. ASSUME NEW r \in Runs, Stall(r)
        PROVE  LeaseInv'
    <3>1. OneRunningRow'
      BY <2>18 DEF Stall, OneRunningRow
    <3>2. RowFitsPc'
      BY <2>18 DEF Stall, RowFitsPc
    <3>3. HealthyIsFresh'
      BY <2>18 DEF Stall, HealthyIsFresh
    <3>4. JudgementHolds'
      BY <2>18 DEF Stall, JudgementHolds
    <3>5. BodyHoldsLease'
      BY <2>18 DEF Stall, BodyHoldsLease
    <3>6. QED
      BY <3>1, <3>2, <3>3, <3>4, <3>5
  <2>19. ASSUME NEW r \in Runs, Forget(r)
        PROVE  LeaseInv'
    <3>1. OneRunningRow'
      BY <2>19 DEF Forget, OneRunningRow
    <3>2. RowFitsPc'
      BY <2>19 DEF Forget, RowFitsPc
    <3>3. HealthyIsFresh'
      BY <2>19 DEF Forget, HealthyIsFresh
    <3>4. JudgementHolds'
      BY <2>19 DEF Forget, JudgementHolds
    <3>5. BodyHoldsLease'
      BY <2>19 DEF Forget, BodyHoldsLease
    <3>6. QED
      BY <3>1, <3>2, <3>3, <3>4, <3>5
  <2>20. CASE UNCHANGED vars
    BY <2>20 DEF vars, OneRunningRow, RowFitsPc, HealthyIsFresh, JudgementHolds,
       BodyHoldsLease
  <2>21. QED
    BY <2>1, <2>2, <2>3, <2>4, <2>5, <2>6, <2>7, <2>8, <2>9, <2>10, <2>11, <2>12, <2>13, <2>14, <2>15, <2>16, <2>17, <2>18, <2>19, <2>20
       DEF Next, RunStep, Claim, Beat, Fault
<1>3. QED
  BY <1>1, <1>2, TypeCorrect, PTL DEF Spec

---------------------------------------------------------------------------
(* What follows from it.                                                   *)

\* The partial unique index and the supersession together never leave two
\* running rows for one key, on either database.
THEOREM SingleRunningRow == Spec => []OneRunningRow
<1>1. LeaseInv => OneRunningRow
  BY DEF LeaseInv
<1>2. QED
  BY <1>1, LeaseInvariant, PTL

\* On SQLite two bodies of one key overlap only when one of them is stalled.
THEOREM BodiesExclude == SQLITE => (Spec => []ExclusiveBody)
<1>1. SQLITE /\ LeaseInv => ExclusiveBody
  BY DEF LeaseInv, BodyHoldsLease, OneRunningRow, ExclusiveBody, Alive
<1>2. SUFFICES ASSUME SQLITE
               PROVE  Spec => []ExclusiveBody
  OBVIOUS
<1>3. LeaseInv => ExclusiveBody
  BY <1>1, <1>2
<1>4. QED
  BY <1>3, LeaseInvariant, PTL

\* Every action but a supersession leaves a running row running or closes it
\* with an outcome of its own.
LEMMA OnlySupersedeInterrupts ==
    ASSUME TypeOK, [Next]_vars, NEW s \in Runs,
           status[s] # "interrupted", status'[s] = "interrupted"
    PROVE  \E r \in Runs : Supersede(r) /\ s \in doomed[r]
<1> USE DEF TypeOK
<1>1. CASE Tick \/ UNCHANGED vars
  BY <1>1 DEF Tick, vars
<1>2. ASSUME NEW r \in Runs, RunStep(r)
      PROVE  Supersede(r) /\ s \in doomed[r]
  <2>1. CASE ClaimFresh(r)
    BY <2>1 DEF ClaimFresh
  <2>2. CASE Skip(r)
    BY <2>2 DEF Skip
  <2>3. CASE Supersede(r)
    BY <2>3 DEF Supersede
  <2>4. CASE Terminal(r)
    BY <2>4 DEF Terminal, OutcomesOf
  <2>5. CASE Forget(r)
    BY <2>5 DEF Forget
  <2>6. CASE UNCHANGED status
    BY <2>6
  <2>7. QED
    BY <1>2, <2>1, <2>2, <2>3, <2>4, <2>5, <2>6
       DEF RunStep, Claim, Beat, Fault, Invoke, ClaimConflict, JudgeStale, ListStale,
           SupersedeFails, BeatRead, BeatWrite, EnterUnbeaten, BodyEnds, BeatFail,
           TerminalLost, Crash, Stall
<1>3. QED
  BY <1>1, <1>2 DEF Next

\* On SQLite a run that keeps its heart beating is never interrupted.
THEOREM LiveRunsKeepLease == SQLITE => (Spec => LiveRunKeepsLease)
<1> SUFFICES ASSUME SQLITE
             PROVE  Spec => LiveRunKeepsLease
  OBVIOUS
<1> DEFINE Kept == \A r \in Runs : status[r] = "running" /\ status'[r] = "interrupted"
                                    => pc[r] = "dead" \/ stalled[r]
<1>1. TypeOK /\ LeaseInv /\ [Next]_vars => Kept
  <2> SUFFICES ASSUME TypeOK, LeaseInv, [Next]_vars, NEW s \in Runs,
                      status[s] = "running", status'[s] = "interrupted"
               PROVE  pc[s] = "dead" \/ stalled[s]
    OBVIOUS
  <2>1. PICK r \in Runs : Supersede(r) /\ s \in doomed[r]
    BY OnlySupersedeInterrupts
  <2>2. ~Healthy(s)
    BY <2>1 DEF Supersede, LeaseInv, JudgementHolds
  <2>3. pc[s] \in Alive \cup {"dead"}
    BY DEF LeaseInv, RowFitsPc
  <2>4. QED
    BY <2>2, <2>3 DEF Healthy, TypeOK
<1>2. TypeOK /\ LeaseInv /\ [Next]_vars => [Kept]_vars
  BY <1>1
<1>3. QED
  BY <1>2, TypeCorrect, LeaseInvariant, PTL DEF Spec, LiveRunKeepsLease

\* On SQLite a recorded outcome is rewritten by its own stalled run or not at all:
\* what a claimer interrupts is running, and so is the row of a body that beats.
THEOREM OutcomesAreTheirs == SQLITE => (Spec => OutcomeIsTheOwners)
<1> SUFFICES ASSUME SQLITE
             PROVE  Spec => OutcomeIsTheOwners
  OBVIOUS
<1> DEFINE Owned == \A r \in Runs : status[r] \in Closed /\ status'[r] \notin {status[r], "none"}
                        => stalled[r] /\ status[r] = "interrupted" /\ pc[r] \in Closing
<1>1. TypeOK /\ LeaseInv /\ [Next]_vars => Owned
  <2> SUFFICES ASSUME TypeOK, LeaseInv, [Next]_vars, NEW s \in Runs,
                      status[s] \in Closed, status'[s] \notin {status[s], "none"}
               PROVE  stalled[s] /\ status[s] = "interrupted" /\ pc[s] \in Closing
    OBVIOUS
  <2> DEFINE Late == stalled[s] /\ status[s] = "interrupted" /\ pc[s] \in Closing
  <2> USE DEF TypeOK, Closed, Outcomes
  <2>1. ASSUME NEW r \in Runs, RunStep(r)
        PROVE  Late
    <3>1. CASE ClaimFresh(r)
      BY <3>1 DEF ClaimFresh, LeaseInv, RowFitsPc, Claiming
    <3>2. CASE Skip(r)
      BY <3>2 DEF Skip, LeaseInv, RowFitsPc, Claiming
    <3>3. CASE Supersede(r)
      BY <3>3 DEF Supersede, LeaseInv, RowFitsPc, JudgementHolds, RunningRows, Claiming
    <3>4. CASE Terminal(r)
      <4>1. s = r
        BY <3>4 DEF Terminal
      <4>2. status[s] = "interrupted" /\ pc[s] \in Closing
        BY <3>4, <4>1 DEF Terminal, LeaseInv, RowFitsPc, Alive, Closing
      <4>3. stalled[s]
        BY <4>2 DEF LeaseInv, BodyHoldsLease, Alive
      <4>4. QED
        BY <4>2, <4>3
    <3>5. CASE Forget(r)
      BY <3>5 DEF Forget
    <3>6. CASE UNCHANGED status
      BY <3>6
    <3>7. QED
      BY <2>1, <3>1, <3>2, <3>3, <3>4, <3>5, <3>6
         DEF RunStep, Claim, Beat, Fault, Invoke, ClaimConflict, JudgeStale, ListStale,
             SupersedeFails, BeatRead, BeatWrite, EnterUnbeaten, BodyEnds, BeatFail,
             TerminalLost, Crash, Stall
  <2>2. CASE Tick \/ UNCHANGED vars
    BY <2>2 DEF Tick, vars
  <2>3. QED
    BY <2>1, <2>2 DEF Next
<1>2. TypeOK /\ LeaseInv /\ [Next]_vars => [Owned]_vars
  BY <1>1
<1>3. QED
  BY <1>2, TypeCorrect, LeaseInvariant, PTL DEF Spec, OutcomeIsTheOwners

---------------------------------------------------------------------------
(* The lease implements the abstract slot.                                 *)

\* With a single running row, that row's invocation is the holder.
LEMMA HolderIsRunning ==
    ASSUME NEW st, NEW h \in Runs, st[h] = "running",
           \A r, s \in Runs : st[r] = "running" /\ st[s] = "running" => r = s
    PROVE  HolderIn(st) = h
  BY DEF HolderIn

\* Without one, nobody is.
LEMMA HolderIsNobody ==
    ASSUME NEW st, \A r \in Runs : st[r] # "running"
    PROVE  HolderIn(st) = Nobody
  BY DEF HolderIn

\* Who holds the slot depends only on which rows are running.
LEMMA HolderUnchanged ==
    ASSUME NEW st, NEW st2, \A r \in Runs : st2[r] = "running" <=> st[r] = "running"
    PROVE  HolderIn(st2) = HolderIn(st)
  BY DEF HolderIn

\* On SQLite every step of the lease is a step of ActiveSlot or changes neither
\* the holder nor who is lost.
THEOREM LeaseImplementsSlot == SQLITE => (Spec => ImplementsSlot)
<1> SUFFICES ASSUME SQLITE
             PROVE  Spec => ImplementsSlot
  OBVIOUS
<1>1. Init => Slot!Init
  BY HolderIsNobody DEF Init, Slot!Init, holderOf, lostRuns
<1>2. TypeOK /\ TypeOK' /\ LeaseInv /\ LeaseInv' /\ [Next]_vars
      => [Slot!Next]_<<holderOf, lostRuns>>
  <2> SUFFICES ASSUME TypeOK, TypeOK', LeaseInv, LeaseInv', [Next]_vars
               PROVE  [Slot!Next]_<<holderOf, lostRuns>>
    OBVIOUS
  <2> USE DEF holderOf, Slot!Next
  <2>1. CASE UNCHANGED <<status, stalled>> /\ \A r \in Runs : pc'[r] = "dead" <=> pc[r] = "dead"
    BY <2>1 DEF lostRuns
  <2>2. ASSUME NEW r \in Runs, ClaimFresh(r)
        PROVE  Slot!Acquire(r)
    <3>1. holderOf = Nobody
      BY <2>2, HolderIsNobody DEF ClaimFresh, RunningRows
    <3>2. holderOf' = r
      BY <2>2, HolderIsRunning DEF ClaimFresh, LeaseInv, OneRunningRow, TypeOK
    <3>3. lostRuns' = lostRuns
      BY <2>2 DEF ClaimFresh, lostRuns, TypeOK
    <3>4. QED
      BY <3>1, <3>2, <3>3 DEF Slot!Acquire
  <2>3. ASSUME NEW r \in Runs, Skip(r)
        PROVE  UNCHANGED <<holderOf, lostRuns>>
    <3>1. status[r] # "running"
      BY <2>3 DEF Skip, LeaseInv, RowFitsPc, Claiming
    <3>2. holderOf' = holderOf
      BY <2>3, <3>1, HolderUnchanged DEF Skip, TypeOK
    <3>3. lostRuns' = lostRuns
      BY <2>3 DEF Skip, lostRuns, TypeOK
    <3>4. QED
      BY <3>2, <3>3
  <2>4. ASSUME NEW r \in Runs, Supersede(r)
        PROVE  Slot!Acquire(r) \/ Slot!TakeOver(r)
    <3>1. holderOf' = r
      BY <2>4, HolderIsRunning DEF Supersede, LeaseInv, OneRunningRow, TypeOK
    <3>2. lostRuns' = lostRuns
      BY <2>4 DEF Supersede, lostRuns, TypeOK
    <3>3. CASE RunningRows = {}
      BY <3>1, <3>2, <3>3, HolderIsNobody DEF Slot!Acquire, RunningRows
    <3>4. CASE RunningRows # {}
      <4>1. PICK h \in Runs : status[h] = "running"
        BY <3>4 DEF RunningRows
      <4>2. holderOf = h
        BY <4>1, HolderIsRunning DEF LeaseInv, OneRunningRow
      <4>3. ~Healthy(h)
        BY <2>4 DEF Supersede, LeaseInv, JudgementHolds
      <4>4. h \in lostRuns
        BY <4>1, <4>3 DEF Healthy, LeaseInv, RowFitsPc, lostRuns
      <4>5. QED
        BY <3>1, <3>2, <4>2, <4>4 DEF Slot!TakeOver
    <3>5. QED
      BY <3>3, <3>4
  <2>5. ASSUME NEW r \in Runs, Terminal(r)
        PROVE  Slot!Release \/ UNCHANGED <<holderOf, lostRuns>>
    <3>1. lostRuns' = lostRuns
      BY <2>5 DEF Terminal, lostRuns, TypeOK, Closing
    <3>2. status'[r] # "running" /\ \A s \in Runs \ {r} : status'[s] = status[s]
      BY <2>5 DEF Terminal, OutcomesOf, TypeOK
    <3>3. CASE status[r] = "running"
      <4>1. holderOf' = Nobody
        BY <3>2, <3>3, HolderIsNobody DEF LeaseInv, OneRunningRow
      <4>2. QED
        BY <3>1, <4>1 DEF Slot!Release
    <3>4. CASE status[r] # "running"
      BY <3>1, <3>2, <3>4, HolderUnchanged
    <3>5. QED
      BY <3>3, <3>4
  <2>6. ASSUME NEW r \in Runs, TerminalLost(r) \/ Crash(r) \/ Stall(r)
        PROVE  Slot!Lose(r)
    BY <2>6 DEF TerminalLost, Crash, Stall, Slot!Lose, lostRuns, TypeOK
  <2>7. ASSUME NEW r \in Runs, Forget(r)
        PROVE  Slot!Recycle(r)
    <3>1. holderOf # r
      <4>1. CASE \E h \in Runs : status[h] = "running"
        <5>1. PICK h \in Runs : status[h] = "running"
          BY <4>1
        <5>2. holderOf = h
          BY <5>1, HolderIsRunning DEF LeaseInv, OneRunningRow
        <5>3. QED
          BY <2>7, <5>1, <5>2 DEF Forget
      <4>2. CASE \A h \in Runs : status[h] # "running"
        BY <4>2, HolderIsNobody, LeaseAssumption
      <4>3. QED
        BY <4>1, <4>2
    <3>2. holderOf' = holderOf
      BY <2>7, HolderUnchanged DEF Forget, TypeOK
    <3>3. lostRuns' = lostRuns \ {r}
      BY <2>7 DEF Forget, lostRuns, TypeOK
    <3>4. QED
      BY <3>1, <3>2, <3>3 DEF Slot!Recycle
  <2>8. ASSUME NEW r \in Runs,
               \/ Invoke(r) \/ ClaimConflict(r) \/ JudgeStale(r) \/ ListStale(r)
               \/ SupersedeFails(r)
        PROVE  UNCHANGED <<status, stalled>> /\ \A s \in Runs : pc'[s] = "dead" <=> pc[s] = "dead"
    BY <2>8 DEF Invoke, ClaimConflict, JudgeStale, ListStale, SupersedeFails, TypeOK
  <2>9. ASSUME NEW r \in Runs,
               Beat(r) \/ BeatFail(r) \/ \E how \in Closing : BodyEnds(r, how)
        PROVE  UNCHANGED <<status, stalled>> /\ \A s \in Runs : pc'[s] = "dead" <=> pc[s] = "dead"
    BY <2>9 DEF Beat, BeatRead, BeatWrite, EnterUnbeaten, BeatFail, AfterBeat, BodyEnds,
                Closing, TypeOK
  <2>10. CASE Tick \/ UNCHANGED vars
    BY <2>1, <2>10 DEF Tick, vars
  <2>11. QED
    BY <2>1, <2>2, <2>3, <2>4, <2>5, <2>6, <2>7, <2>8, <2>9, <2>10
       DEF Next, RunStep, Claim, Fault
<1>3. QED
  BY <1>1, <1>2, TypeCorrect, LeaseInvariant, PTL
     DEF Spec, ImplementsSlot, Slot!Spec, Slot!slotVars
=============================================================================
