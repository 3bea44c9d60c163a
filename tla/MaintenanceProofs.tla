------------------------- MODULE MaintenanceProofs -------------------------
(***************************************************************************)
(* Proofs about RefreshManager and the maintenance path, for every number  *)
(* of ranks and banks, every limit, queue size and control sequence.       *)
(*                                                                         *)
(* The counters of the manager stay in range and agree with the credit,    *)
(* and its ledger is conserved.  The controller is an environment of the   *)
(* kind the manager is specified for, so this holds in every state of the  *)
(* controller.  What it owes is on its way in the two queues: no step that *)
(* moves commands between them loses, repeats or reorders a refresh, no    *)
(* second exit waits, and an automatic entry waits only while there is no  *)
(* work.                                                                   *)
(***************************************************************************)
EXTENDS Maintenance, SequenceTheorems, FiniteSetTheorems, WellFoundedInduction,
        TLAPS

-----------------------------------------------------------------------------
(* Arithmetic.                                                             *)

\* A batch, and the banks that the cursor walks over, are not empty.
LEMMA SizesAreNatural == BatchSize \in Nat /\ Slots \in Nat /\ Slots > 0
  <1> DEFINE product(a, b) == a * b
  <1>1. \A a, b \in Nat \ {0} : product(a, b) \in Nat /\ product(a, b) > 0
    BY SMT
  <1>2. Slots = product(Sids, Positions)
    BY DEF Slots
  <1>3. AllBank => BatchSize = product(PseudoChannels, Sids)
    BY DEF BatchSize
  <1>4. ~AllBank => BatchSize = PseudoChannels
    BY DEF BatchSize
  <1> HIDE DEF product
  <1> QED BY <1>1, <1>2, <1>3, <1>4, RefreshAssumption

\* One obligation more or less is one batch more or less.
LEMMA BatchDistributes ==
  ASSUME NEW b \in Nat, NEW n \in Int
  PROVE  /\ b * n \in Int
         /\ b * (n + 1) = b * n + b
         /\ b * (n - 1) = b * n - b
  OBVIOUS

\* The rank cursor and the bank cursor stay below their limits.
LEMMA StaysBelow ==
  ASSUME NEW n \in Nat \ {0}, NEW i \in 0 .. n - 1
  PROVE  (i + 1) % n \in 0 .. n - 1
  OBVIOUS

-----------------------------------------------------------------------------
(* The inductive invariant and its parts.                                  *)

RefreshInv == RefreshTypeOK /\ CountersFollowCredit /\ LedgerConserved

\* What choose_rank() and pull-in compare.
LEMMA CountedType ==
  ASSUME RefreshTypeOK
  PROVE  /\ Counted \in [Rank -> Int]
         /\ PullsLeft \in [Rank -> 0 .. PullinLimit]
         /\ \A r \in Rank : Counted[r] >= credit[r]
         /\ \A r \in Rank : PullsLeft[r] > 0 => /\ Counted[r] < 0
                                               /\ PullsLeft[r] = pulledIn[r]
  BY RefreshAssumption DEF RefreshTypeOK, Counted, PullsLeft

LEMMA FirstIsMember ==
  ASSUME NEW S, NEW r \in First(S)
  PROVE  r \in S
  BY DEF First

\* The initial state of the manager.
LEMMA InitHolds == RefreshInit => RefreshInv
  <1> SUFFICES ASSUME RefreshInit PROVE RefreshInv
    OBVIOUS
  <1>1. 0 \in Rank /\ Interval \in 1 .. Interval
    BY RefreshAssumption DEF Rank
  <1>2. 0 \in 0 .. PostponeLimit /\ 0 \in 0 .. PullinLimit
    BY RefreshAssumption
  <1>3. 0 \in 0 .. Slots - 1
    BY SizesAreNatural
  <1>4. cursor \in [Rank -> 0 .. Slots - 1]
    BY <1>3 DEF RefreshInit
  <1>5. /\ postponed \in [Rank -> 0 .. PostponeLimit]
        /\ pulledIn \in [Rank -> 0 .. PullinLimit]
    BY <1>2 DEF RefreshInit
  <1>6. RefreshTypeOK
    <2>1. credit \in [Rank -> Int] /\ owed \in [Rank -> Int]
      BY DEF RefreshInit
    <2>2. outstanding \in [Rank -> Nat]
      BY DEF RefreshInit
    <2>3. /\ left \in 1 .. Interval /\ passed \in Nat
          /\ rankCursor \in Rank /\ asleep \in BOOLEAN
      BY <1>1 DEF RefreshInit
    <2> QED BY <1>4, <1>5, <2>1, <2>2, <2>3 DEF RefreshTypeOK
  <1>7. CountersFollowCredit
    BY DEF CountersFollowCredit, RefreshInit
  <1>8. \A r \in Rank : Counted[r] = 0 /\ outstanding[r] = 0 /\ owed[r] = 0
    BY DEF RefreshInit, Counted
  <1>9. BatchSize * 0 = 0
    BY SizesAreNatural
  <1>10. LedgerConserved
    BY <1>8, <1>9 DEF LedgerConserved
  <1> QED BY <1>6, <1>7, <1>10 DEF RefreshInv

-----------------------------------------------------------------------------
(* Each part is preserved by each action.                                  *)

LEMMA SeedType ==
  ASSUME RefreshTypeOK, NEW r \in Rank, Seed(r)
  PROVE  /\ cursor' \in [Rank -> 0 .. Slots - 1]
         /\ outstanding' \in [Rank -> Nat]
  <1>1. (cursor[r] + 1) % Slots \in 0 .. Slots - 1
    <2>1. cursor[r] \in 0 .. Slots - 1
      BY DEF RefreshTypeOK
    <2> QED BY <2>1, SizesAreNatural, StaysBelow
  <1>2. outstanding[r] + BatchSize \in Nat
    BY SizesAreNatural DEF RefreshTypeOK
  <1> QED BY <1>1, <1>2 DEF RefreshTypeOK, Seed

\* The inductive step of each part.
LEMMA TypeStep == RefreshInv /\ [RefreshNext]_refreshVars => RefreshTypeOK'
  <1> SUFFICES ASSUME RefreshInv, [RefreshNext]_refreshVars
               PROVE  RefreshTypeOK'
    OBVIOUS
  <1> USE DEF RefreshInv
  <1>1. CASE Advance /\ Clock
    BY <1>1, RefreshAssumption DEF RefreshTypeOK, Clock, Advance
  <1>2. CASE Deadline /\ Clock
    <2>1. owed' \in [Rank -> Int]
      BY <1>2, SizesAreNatural DEF RefreshTypeOK, Deadline
    <2> QED BY <1>2, <2>1, RefreshAssumption
            DEF RefreshTypeOK, Clock, Deadline
  <1>3. ASSUME NEW r \in Rank PROVE NextRank(r) \in Rank
    BY <1>3, StaysBelow, RefreshAssumption DEF NextRank, Rank
  <1>4. ASSUME NEW r \in Rank, NEW busy \in BOOLEAN, Postpone(r, busy)
        PROVE  RefreshTypeOK'
    <2>1. postponed[r] + 1 \in 0 .. PostponeLimit
      BY <1>4, RefreshAssumption DEF Postpone, CanPostpone, RefreshTypeOK
    <2>2. postponed' \in [Rank -> 0 .. PostponeLimit]
      BY <1>4, <2>1 DEF Postpone, RefreshTypeOK
    <2> QED BY <1>3, <1>4, <2>2, CountedType DEF Postpone, RefreshTypeOK
  <1>5. ASSUME NEW r \in Rank, NEW busy \in BOOLEAN, Repay(r, busy)
        PROVE  RefreshTypeOK'
    <2>1. Seed(r)
      BY <1>5 DEF Repay
    <2>2. postponed' \in [Rank -> 0 .. PostponeLimit]
      BY <1>5, RefreshAssumption DEF Repay, RefreshTypeOK
    <2>3. credit' \in [Rank -> Int]
      BY <1>5, CountedType DEF Repay
    <2> QED BY <1>3, <1>5, <2>1, <2>2, <2>3, SeedType, CountedType
            DEF Repay, RefreshTypeOK
  <1>6. ASSUME NEW r \in Rank, NEW busy \in BOOLEAN, NEW idle \in BOOLEAN,
               PullIn(r, busy, idle)
        PROVE  RefreshTypeOK'
    <2>1. Seed(r)
      BY <1>6 DEF PullIn
    <2>2. PullsLeft[r] + 1 \in 0 .. PullinLimit
      BY <1>6, CountedType, FirstIsMember, RefreshAssumption
      DEF PullIn, Early
    <2>3. pulledIn' \in [Rank -> 0 .. PullinLimit]
      BY <1>6, <2>2, CountedType DEF PullIn
    <2>4. credit' \in [Rank -> Int]
      BY <1>6, CountedType DEF PullIn
    <2> QED BY <1>3, <1>6, <2>1, <2>3, <2>4, SeedType
            DEF PullIn, RefreshTypeOK
  <1>7. ASSUME NEW busy \in BOOLEAN, NEW idle \in BOOLEAN, Rest(busy, idle)
        PROVE  RefreshTypeOK'
    BY <1>7, CountedType DEF Rest, RefreshTypeOK
  <1>8. ASSUME NEW active \in BOOLEAN, SetSelfRefresh(active)
        PROVE  RefreshTypeOK'
    BY <1>8 DEF SetSelfRefresh, RefreshTypeOK
  <1>9. ASSUME NEW r \in Rank, Serve(r)
        PROVE  RefreshTypeOK'
    BY <1>9 DEF Serve, RefreshTypeOK, managerVars
  <1>10. CASE UNCHANGED refreshVars
    BY <1>10 DEF refreshVars, managerVars, RefreshTypeOK
  <1> QED BY <1>1, <1>2, <1>4, <1>5, <1>6, <1>7, <1>8, <1>9, <1>10
          DEF RefreshNext, Clock

LEMMA CountersStep ==
  RefreshInv /\ [RefreshNext]_refreshVars => CountersFollowCredit'
  <1> SUFFICES ASSUME RefreshInv, [RefreshNext]_refreshVars
               PROVE  CountersFollowCredit'
    OBVIOUS
  <1> USE DEF RefreshInv
  <1>1. CASE Clock
    BY <1>1 DEF Clock, CountersFollowCredit
  \* Counting deadlines raises the credit, and a credit that is no longer
  \* negative resets the count of early refreshes.
  <1>2. \A r \in Rank : /\ Counted[r] >= -1
                        /\ postponed[r] > 0 => Counted[r] > 0
                        /\ PullsLeft[r] > 0 => Counted[r] < 0
    BY CountedType DEF CountersFollowCredit, RefreshTypeOK
  <1>3. ASSUME NEW r \in Rank, NEW busy \in BOOLEAN, Postpone(r, busy)
        PROVE  CountersFollowCredit'
    <2>1. Counted[r] > 0
      BY <1>3, FirstIsMember DEF Postpone, Obliged
    <2> QED BY <1>2, <1>3, <2>1, CountedType
            DEF Postpone, CountersFollowCredit, RefreshTypeOK
  <1>4. ASSUME NEW r \in Rank, NEW busy \in BOOLEAN, Repay(r, busy)
        PROVE  CountersFollowCredit'
    <2>1. Counted[r] > 0
      BY <1>4, FirstIsMember DEF Repay, Obliged
    <2> QED BY <1>2, <1>4, <2>1, CountedType
            DEF Repay, CountersFollowCredit, RefreshTypeOK
  <1>5. ASSUME NEW r \in Rank, NEW busy \in BOOLEAN, NEW idle \in BOOLEAN,
               PullIn(r, busy, idle)
        PROVE  CountersFollowCredit'
    <2>1. Counted[r] = 0
      BY <1>5, FirstIsMember DEF PullIn, Early
    <2> QED BY <1>2, <1>5, <2>1, CountedType
            DEF PullIn, CountersFollowCredit, RefreshTypeOK
  <1>6. ASSUME NEW busy \in BOOLEAN, NEW idle \in BOOLEAN, Rest(busy, idle)
        PROVE  CountersFollowCredit'
    BY <1>2, <1>6 DEF Rest, CountersFollowCredit
  <1>7. ASSUME NEW active \in BOOLEAN, SetSelfRefresh(active)
        PROVE  CountersFollowCredit'
    BY <1>7 DEF SetSelfRefresh, CountersFollowCredit
  <1>8. ASSUME NEW r \in Rank, Serve(r)
        PROVE  CountersFollowCredit'
    BY <1>8 DEF Serve, CountersFollowCredit, managerVars
  <1>9. CASE UNCHANGED refreshVars
    BY <1>9 DEF refreshVars, managerVars, CountersFollowCredit
  <1> QED BY <1>1, <1>3, <1>4, <1>5, <1>6, <1>7, <1>8, <1>9 DEF RefreshNext

LEMMA LedgerStep == RefreshInv /\ [RefreshNext]_refreshVars => LedgerConserved'
  <1> SUFFICES ASSUME RefreshInv, [RefreshNext]_refreshVars,
                      NEW s \in Rank
               PROVE  owed'[s] = BatchSize * Counted'[s] + outstanding'[s]
    BY DEF LedgerConserved
  <1> USE DEF RefreshInv
  <1> DEFINE debt(n) == BatchSize * n
  <1>1. owed[s] = debt(Counted[s]) + outstanding[s]
    BY DEF LedgerConserved
  <1>2. /\ Counted[s] \in Int /\ credit[s] \in Int
        /\ outstanding[s] \in Nat /\ owed[s] \in Int
    BY CountedType DEF RefreshTypeOK
  <1>3. /\ debt(Counted[s]) \in Int
        /\ debt(Counted[s] + 1) = debt(Counted[s]) + BatchSize
        /\ debt(Counted[s] - 1) = debt(Counted[s]) - BatchSize
    BY <1>2, SizesAreNatural, BatchDistributes
  <1>4. BatchSize \in Nat
    BY SizesAreNatural
  <1> SUFFICES owed'[s] = debt(Counted'[s]) + outstanding'[s]
    OBVIOUS
  <1> HIDE DEF debt
  \* tick() counts the deadlines, which Counted has counted already.
  <1>5. ASSUME passed' = 0, UNCHANGED asleep
        PROVE  Counted'[s] = credit'[s]
    <2>1. credit'[s] \in Int
      BY TypeStep DEF RefreshTypeOK
    <2> QED BY <1>5, <2>1 DEF Counted
  <1>6. CASE Advance /\ Clock
    <2>1. Counted' = Counted
      BY <1>6 DEF Advance, Clock, Counted
    <2> QED BY <1>1, <1>6, <2>1 DEF Advance, Clock
  <1>7. CASE Deadline /\ Clock
    <2>1. CASE asleep
      <3>1. Counted'[s] = Counted[s] /\ owed' = owed
        BY <1>7, <2>1 DEF Deadline, Clock, Counted
      <3> QED BY <1>1, <1>7, <3>1 DEF Clock
    <2>2. CASE ~asleep
      <3>1. Counted'[s] = Counted[s] + 1 /\ owed'[s] = owed[s] + BatchSize
        BY <1>7, <2>2 DEF Deadline, Clock, Counted, RefreshTypeOK
      <3> QED BY <1>1, <1>2, <1>3, <1>4, <1>7, <3>1 DEF Clock
    <2> QED BY <2>1, <2>2
  <1>8. ASSUME NEW r \in Rank, NEW busy \in BOOLEAN, Postpone(r, busy)
        PROVE  owed'[s] = debt(Counted'[s]) + outstanding'[s]
    <2>1. Counted'[s] = Counted[s]
      BY <1>5, <1>8 DEF Postpone
    <2> QED BY <1>1, <1>8, <2>1 DEF Postpone
  \* A batch leaves the ledger of its rank and joins the commands on the way.
  <1>9. ASSUME NEW r \in Rank, Seed(r), UNCHANGED <<asleep, owed>>,
               passed' = 0, credit' = [Counted EXCEPT ![r] = @ - 1]
        PROVE  owed'[s] = debt(Counted'[s]) + outstanding'[s]
    <2>1. Counted'[s] = IF s = r THEN Counted[s] - 1 ELSE Counted[s]
      BY <1>5, <1>9, CountedType
    <2>2. outstanding'[s] = IF s = r THEN outstanding[s] + BatchSize
                            ELSE outstanding[s]
      BY <1>9 DEF Seed, RefreshTypeOK
    <2> QED BY <1>1, <1>2, <1>3, <1>4, <1>9, <2>1, <2>2
  <1>10. ASSUME NEW r \in Rank, NEW busy \in BOOLEAN, Repay(r, busy)
         PROVE  owed'[s] = debt(Counted'[s]) + outstanding'[s]
    BY <1>9, <1>10 DEF Repay
  <1>11. ASSUME NEW r \in Rank, NEW busy \in BOOLEAN, NEW idle \in BOOLEAN,
                PullIn(r, busy, idle)
         PROVE  owed'[s] = debt(Counted'[s]) + outstanding'[s]
    BY <1>9, <1>11 DEF PullIn
  <1>12. ASSUME NEW busy \in BOOLEAN, NEW idle \in BOOLEAN, Rest(busy, idle)
         PROVE  owed'[s] = debt(Counted'[s]) + outstanding'[s]
    <2>1. Counted'[s] = Counted[s]
      BY <1>5, <1>12 DEF Rest
    <2> QED BY <1>1, <1>12, <2>1 DEF Rest
  \* Falling asleep leaves no deadline uncounted, because the manager has
  \* been called in the same cycle.
  <1>13. ASSUME passed = 0, NEW active \in BOOLEAN, SetSelfRefresh(active)
         PROVE  owed'[s] = debt(Counted'[s]) + outstanding'[s]
    <2>1. Counted'[s] = Counted[s]
      BY <1>2, <1>13 DEF SetSelfRefresh, Counted
    <2> QED BY <1>1, <1>13, <2>1 DEF SetSelfRefresh
  <1>14. ASSUME NEW r \in Rank, Serve(r)
         PROVE  owed'[s] = debt(Counted'[s]) + outstanding'[s]
    <2>1. Counted' = Counted
      BY <1>14 DEF Serve, managerVars, Counted
    <2>2. IF s = r
          THEN owed'[s] = owed[s] - 1 /\ outstanding'[s] = outstanding[s] - 1
          ELSE owed'[s] = owed[s] /\ outstanding'[s] = outstanding[s]
      BY <1>14 DEF Serve, RefreshTypeOK
    <2> QED BY <1>1, <1>2, <1>3, <2>1, <2>2
  <1>15. CASE UNCHANGED refreshVars
    <2>1. Counted' = Counted
      BY <1>15 DEF refreshVars, managerVars, Counted
    <2> QED BY <1>1, <1>15, <2>1 DEF refreshVars
  <1> QED BY <1>6, <1>7, <1>8, <1>10, <1>11, <1>12, <1>13, <1>14, <1>15
          DEF RefreshNext, Clock

-----------------------------------------------------------------------------
(* The theorems.                                                           *)

\* The three parts are inductive together.
THEOREM InvariantHolds == RefreshSpec => []RefreshInv
  <1>1. RefreshInv /\ [RefreshNext]_refreshVars => RefreshInv'
    BY TypeStep, CountersStep, LedgerStep DEF RefreshInv
  <1> QED BY InitHolds, <1>1, PTL DEF RefreshSpec

\* The counters of RefreshManager stay in range, and the two cursors point at
\* a rank and at a bank.
THEOREM RefreshTypeCorrect == RefreshSpec => []RefreshTypeOK
  <1>1. RefreshInv => RefreshTypeOK
    BY DEF RefreshInv
  <1> QED BY <1>1, InvariantHolds, PTL

\* postpone_count and pullin_count agree with the credit in every state of a
\* manager below any controller, for every limit of the configuration.
THEOREM CountersAgree == RefreshSpec => []CountersFollowCredit
  <1>1. RefreshInv => CountersFollowCredit
    BY DEF RefreshInv
  <1> QED BY <1>1, InvariantHolds, PTL

\* No deadline is lost or counted twice, however many are crossed between two
\* calls of tick().
THEOREM LedgerAlwaysConserved == RefreshSpec => []LedgerConserved
  <1>1. RefreshInv => LedgerConserved
    BY DEF RefreshInv
  <1> QED BY <1>1, InvariantHolds, PTL

-----------------------------------------------------------------------------
(* The controller implements the environment of the manager.               *)
\* tick() of the manager has counted every deadline before the controller
\* issues a command, SREFEN and SREFEX among them.
DeadlinesCounted == phase \in {"service", "issue", "entry"} => passed = 0

LEMMA CountedInit == MaintenanceInit => DeadlinesCounted
  BY DEF MaintenanceInit, DeadlinesCounted

\* Only Clock adds deadlines, and it is a step of tick().
LEMMA CountedStep == DeadlinesCounted /\ [Next]_vars => DeadlinesCounted'
  <1> SUFFICES ASSUME DeadlinesCounted, [Next]_vars PROVE DeadlinesCounted'
    OBVIOUS
  <1> USE DEF DeadlinesCounted
  <1>1. CASE Tick
    BY <1>1 DEF Tick
  <1>2. CASE ScheduleRefresh
    BY <1>2 DEF ScheduleRefresh, Repay, PullIn, Postpone, Rest
  <1>3. CASE Submit \/ SubmitControl
    BY <1>3 DEF Submit, SubmitControl
  <1>4. CASE Service \/ IssueNone \/ EndTick
    BY <1>4 DEF Service, IssueNone, EndTick, refreshVars, managerVars
  <1>5. CASE IssueHead
    BY <1>5 DEF IssueHead, IssueRefresh, IssueMRW, IssuePDE, IssuePDX,
                IssueSREFEN, IssueSREFEX, Issue, Serve, SetSelfRefresh,
                refreshVars, managerVars
  <1>6. CASE Activate \/ FinishActive \/ HitOpenRow
    BY <1>6 DEF Activate, FinishActive, HitOpenRow, CanWork, refreshVars,
                managerVars
  <1>7. CASE UNCHANGED vars
    BY <1>7 DEF vars, refreshVars, managerVars
  <1> QED BY <1>1, <1>2, <1>3, <1>4, <1>5, <1>6, <1>7 DEF Next

\* Every step of the controller is a step of the manager or leaves it alone.
LEMMA StepsOfManager ==
  DeadlinesCounted /\ [Next]_vars => [RefreshNext]_refreshVars
  <1> SUFFICES ASSUME DeadlinesCounted, [Next]_vars
               PROVE  [RefreshNext]_refreshVars
    OBVIOUS
  <1>1. CASE Tick
    BY <1>1 DEF Tick, RefreshNext
  <1>2. CASE ScheduleRefresh
    <2>1. Ordinary \in BOOLEAN /\ Quiet \in BOOLEAN
      BY DEF Ordinary, Quiet
    <2> QED BY <1>2, <2>1 DEF ScheduleRefresh, RefreshNext
  <1>3. CASE Submit \/ SubmitControl
    BY <1>3 DEF Submit, SubmitControl
  <1>4. CASE Service \/ IssueNone \/ EndTick
    BY <1>4 DEF Service, IssueNone, EndTick
  <1>5. CASE IssueRefresh
    BY <1>5 DEF IssueRefresh, RefreshNext
  <1>6. CASE IssueSREFEN \/ IssueSREFEX
    <2>1. passed = 0
      BY <1>6 DEF IssueSREFEN, IssueSREFEX, Issue, DeadlinesCounted
    <2> QED BY <1>6, <2>1 DEF IssueSREFEN, IssueSREFEX, RefreshNext
  <1>7. CASE IssueMRW \/ IssuePDE \/ IssuePDX
    BY <1>7 DEF IssueMRW, IssuePDE, IssuePDX
  <1>8. CASE Activate \/ FinishActive \/ HitOpenRow
    BY <1>8 DEF Activate, FinishActive, HitOpenRow
  <1>9. CASE UNCHANGED vars
    BY <1>9 DEF vars
  <1> QED BY <1>1, <1>2, <1>3, <1>4, <1>5, <1>6, <1>7, <1>8, <1>9
          DEF Next, IssueHead

\* The controller implements the environment that RefreshManager is specified
\* for: it calls tick() before it issues, one rank at a time, and reports each
\* refresh command it issues once.
THEOREM ImplementsManager == Spec => RefreshSpec
  <1>1. MaintenanceInit => RefreshInit
    BY DEF MaintenanceInit
  <1> QED BY <1>1, CountedInit, CountedStep, StepsOfManager, PTL
          DEF Spec, RefreshSpec

\* The ledger in the controller: through low-power states, blocked ticks and
\* postponement, what a rank owes for the deadlines it passed awake is what it
\* still has to hand out plus what it has handed out and is not issued.
THEOREM ControllerKeepsLedger == Spec => []LedgerConserved
  BY ImplementsManager, LedgerAlwaysConserved, PTL

\* The counters in the controller, for every limit and every control sequence.
THEOREM ControllerKeepsCounters == Spec => []CountersFollowCredit
  BY ImplementsManager, CountersAgree, PTL

-----------------------------------------------------------------------------
(* The order of the commands of a class in a sequence: two sequences have  *)
(* it in common when a bijection of their places keeps order and value.    *)
\* t has the elements of class C that s has, in the same order.
Places(s, C) == {i \in DOMAIN s : s[i] \in C}
Matches(f, s, t, C) ==
  /\ f \in [Places(t, C) -> Places(s, C)]
  /\ \A k \in Places(s, C) : \E i \in Places(t, C) : f[i] = k
  /\ \A i \in Places(t, C) : t[i] = s[f[i]]
  /\ \A i, j \in Places(t, C) : i < j => f[i] < f[j]
SameOrder(s, t, C) == \E f : Matches(f, s, t, C)

\* SameOrder is reflexive, transitive and respects concatenation.
LEMMA SameRefl ==
  ASSUME NEW S, NEW s \in Seq(S), NEW C
  PROVE  SameOrder(s, s, C)
  <1>. DEFINE f == [i \in Places(s, C) |-> i]
  <1>1. Matches(f, s, s, C)
    BY DEF Matches
  <1>. QED BY <1>1 DEF SameOrder

LEMMA SameTrans ==
  ASSUME NEW S, NEW s \in Seq(S), NEW t \in Seq(S), NEW u \in Seq(S), NEW C,
         SameOrder(s, t, C), SameOrder(t, u, C)
  PROVE  SameOrder(s, u, C)
  <1>1. PICK f : Matches(f, s, t, C)
    BY DEF SameOrder
  <1>2. PICK g : Matches(g, t, u, C)
    BY DEF SameOrder
  <1>. DEFINE h == [i \in Places(u, C) |-> f[g[i]]]
  <1>3. h \in [Places(u, C) -> Places(s, C)]
    BY <1>1, <1>2 DEF Matches
  <1>4. \A k \in Places(s, C) : \E i \in Places(u, C) : h[i] = k
    BY <1>1, <1>2 DEF Matches
  <1>5. \A i \in Places(u, C) : u[i] = s[h[i]]
    BY <1>1, <1>2 DEF Matches
  <1>6. \A i, j \in Places(u, C) : i < j => h[i] < h[j]
    BY <1>1, <1>2 DEF Matches
  <1>. QED BY <1>3, <1>4, <1>5, <1>6 DEF Matches, SameOrder

\* Concatenation keeps it: the two bijections side by side.
LEMMA SameConcat ==
  ASSUME NEW S, NEW s \in Seq(S), NEW t \in Seq(S), NEW u \in Seq(S),
         NEW v \in Seq(S), NEW C,
         SameOrder(s, t, C), SameOrder(u, v, C)
  PROVE  SameOrder(s \o u, t \o v, C)
  <1>1. PICK f : Matches(f, s, t, C)
    BY DEF SameOrder
  <1>2. PICK g : Matches(g, u, v, C)
    BY DEF SameOrder
  <1>. DEFINE a == s \o u
              b == t \o v
              m == Len(s)
              n == Len(t)
              h == [i \in Places(b, C) |-> IF i <= n THEN f[i] ELSE g[i - n] + m]
  <1>3. /\ m \in Nat /\ n \in Nat /\ Len(u) \in Nat /\ Len(v) \in Nat
        /\ DOMAIN s = 1 .. m /\ DOMAIN t = 1 .. n
        /\ DOMAIN u = 1 .. Len(u) /\ DOMAIN v = 1 .. Len(v)
    OBVIOUS
  <1>4. /\ DOMAIN a = 1 .. m + Len(u) /\ DOMAIN b = 1 .. n + Len(v)
        /\ \A i \in DOMAIN a : a[i] = IF i <= m THEN s[i] ELSE u[i - m]
        /\ \A i \in DOMAIN b : b[i] = IF i <= n THEN t[i] ELSE v[i - n]
    BY ConcatProperties
  <1>. HIDE DEF a, b, m, n
  <1>5. \A i \in Places(b, C) : \/ i <= n /\ i \in Places(t, C)
                                \/ ~(i <= n) /\ i - n \in Places(v, C)
    BY <1>3, <1>4 DEF Places
  <1>6. \A i \in Places(s, C) : i \in Places(a, C) /\ i <= m
    BY <1>3, <1>4 DEF Places
  <1>7. \A i \in Places(u, C) : i + m \in Places(a, C) /\ ~(i + m <= m)
    <2>. SUFFICES ASSUME NEW i \in Places(u, C)
                  PROVE  i + m \in Places(a, C) /\ ~(i + m <= m)
      OBVIOUS
    <2>1. i \in 1 .. Len(u) /\ u[i] \in C
      BY <1>3 DEF Places
    <2>2. i + m \in DOMAIN a /\ ~(i + m <= m) /\ (i + m) - m = i
      BY <1>3, <1>4, <2>1
    <2>. QED BY <1>4, <2>1, <2>2 DEF Places
  <1>8. \A k \in Places(a, C) : \/ k <= m /\ k \in Places(s, C)
                                \/ ~(k <= m) /\ k - m \in Places(u, C)
    BY <1>3, <1>4 DEF Places
  <1>9. \A i \in Places(t, C) : i \in Places(b, C) /\ i <= n
    BY <1>3, <1>4 DEF Places
  <1>10. \A i \in Places(v, C) : i + n \in Places(b, C) /\ ~(i + n <= n) /\ (i + n) - n = i
    <2>. SUFFICES ASSUME NEW i \in Places(v, C)
                  PROVE  i + n \in Places(b, C) /\ ~(i + n <= n) /\ (i + n) - n = i
      OBVIOUS
    <2>1. i \in 1 .. Len(v) /\ v[i] \in C
      BY <1>3 DEF Places
    <2>2. i + n \in DOMAIN b /\ ~(i + n <= n) /\ (i + n) - n = i
      BY <1>3, <1>4, <2>1
    <2>. QED BY <1>4, <2>1, <2>2 DEF Places
  <1>11. \A i \in Places(s, C) : i \in Int
    BY <1>3 DEF Places
  <1>12. \A i \in Places(u, C) : i \in Int
    BY <1>3 DEF Places
  <1>13. \A i \in Places(b, C) : i \in Int
    BY <1>4, <1>3 DEF Places
  <1>14. h \in [Places(b, C) -> Places(a, C)]
    BY <1>1, <1>2, <1>5, <1>6, <1>7 DEF Matches
  <1>15. ASSUME NEW k \in Places(a, C) PROVE \E i \in Places(b, C) : h[i] = k
    <2>1. CASE k <= m /\ k \in Places(s, C)
      BY <2>1, <1>1, <1>9 DEF Matches
    <2>2. CASE ~(k <= m) /\ k - m \in Places(u, C)
      <3>1. PICK i \in Places(v, C) : g[i] = k - m
        BY <1>2, <2>2 DEF Matches
      <3>2. k \in Int /\ (k - m) + m = k
        BY <1>3, <1>4 DEF Places
      <3>3. h[i + n] = k /\ i + n \in Places(b, C)
        BY <3>1, <3>2, <1>10
      <3>. QED BY <3>3
    <2>. QED BY <1>8, <2>1, <2>2
  <1>16. ASSUME NEW i \in Places(b, C) PROVE b[i] = a[h[i]]
    <2>1. CASE i <= n /\ i \in Places(t, C)
      <3>1. f[i] \in Places(s, C) /\ t[i] = s[f[i]] /\ h[i] = f[i]
        BY <1>1, <2>1 DEF Matches
      <3>. QED BY <3>1, <2>1, <1>4, <1>6, <1>9 DEF Places
    <2>2. CASE ~(i <= n) /\ i - n \in Places(v, C)
      <3>1. g[i - n] \in Places(u, C) /\ v[i - n] = u[g[i - n]] /\ h[i] = g[i - n] + m
        BY <1>2, <2>2 DEF Matches
      <3>2. h[i] \in Places(a, C) /\ ~(h[i] <= m) /\ h[i] - m = g[i - n]
        BY <3>1, <1>3, <1>7, <1>12
      <3>3. b[i] = v[i - n] /\ a[h[i]] = u[h[i] - m]
        BY <1>4, <2>2, <3>2 DEF Places
      <3>. QED BY <3>1, <3>2, <3>3
    <2>. QED BY <1>5, <2>1, <2>2
  <1>17. ASSUME NEW i \in Places(b, C), NEW j \in Places(b, C), i < j
         PROVE  h[i] < h[j]
    <2>1. CASE i <= n /\ i \in Places(t, C) /\ j <= n /\ j \in Places(t, C)
      BY <1>1, <1>17, <2>1 DEF Matches
    <2>2. CASE i <= n /\ i \in Places(t, C) /\ ~(j <= n) /\ j - n \in Places(v, C)
      <3>1. f[i] \in Places(s, C) /\ g[j - n] \in Places(u, C)
        BY <1>1, <1>2, <2>2 DEF Matches
      <3>2. f[i] \in 1 .. m /\ g[j - n] \in 1 .. Len(u)
        BY <3>1, <1>3 DEF Places
      <3>. QED BY <3>2, <2>2, <1>3
    <2>3. CASE ~(i <= n) /\ i - n \in Places(v, C) /\ ~(j <= n) /\ j - n \in Places(v, C)
      <3>1. i - n < j - n
        BY <1>3, <1>13, <1>17
      <3>2. g[i - n] < g[j - n] /\ g[i - n] \in Places(u, C) /\ g[j - n] \in Places(u, C)
        BY <1>2, <2>3, <3>1 DEF Matches
      <3>. QED BY <3>2, <2>3, <1>3, <1>12
    <2>4. ~(i <= n) => ~(j <= n)
      BY <1>3, <1>13, <1>17
    <2>. QED BY <1>5, <2>1, <2>2, <2>3, <2>4
  <1>. QED BY <1>14, <1>15, <1>16, <1>17 DEF Matches, SameOrder, a, b

\* Whatever is not of the class may come and go.
LEMMA SameNone ==
  ASSUME NEW C, NEW s, NEW t, Places(s, C) = {}, Places(t, C) = {}
  PROVE  SameOrder(s, t, C)
  <1>. DEFINE f == [i \in {} |-> i]
  <1>1. Matches(f, s, t, C)
    BY DEF Matches
  <1>. QED BY <1>1 DEF SameOrder

\* A sequence without commands of the class has no places of it.
LEMMA NoPlaces ==
  ASSUME NEW C, NEW x, x \notin C
  PROVE  Places(<<>>, C) = {} /\ Places(<<x>>, C) = {}
  BY DEF Places

\* How many of a class there are from a position on.
LEMMA FromFinite ==
  ASSUME NEW S, NEW s \in Seq(S), NEW C, NEW i
  PROVE  IsFiniteSet(From(s, i, C)) /\ Cardinality(From(s, i, C)) \in Nat
  <1>1. IsFiniteSet(1 .. Len(s)) /\ DOMAIN s = 1 .. Len(s)
    BY FS_Interval
  <1>2. From(s, i, C) \subseteq 1 .. Len(s)
    BY <1>1 DEF From
  <1>. QED BY <1>1, <1>2, FS_Subset, FS_CardinalityType

\* Sets in bijection, disjoint unions, and the places of a concatenation.
LEMMA SameCardinality ==
  ASSUME NEW A, NEW B, IsFiniteSet(A), NEW f \in [A -> B],
         \A b \in B : \E a \in A : f[a] = b,
         \A x, y \in A : f[x] = f[y] => x = y
  PROVE  Cardinality(A) = Cardinality(B)
  <1>1. f \in Bijection(A, B)
    BY DEF Bijection, Injection, Surjection, IsInjective
  <1>2. ExistsBijection(A, B)
    BY <1>1 DEF ExistsBijection
  <1>. QED BY <1>2, FS_Bijection

LEMMA CountDisjoint ==
  ASSUME NEW A, NEW B, IsFiniteSet(A), IsFiniteSet(B), A \cap B = {}
  PROVE  Cardinality(A \cup B) = Cardinality(A) + Cardinality(B)
  <1>1. Cardinality(A \cup B)
          = Cardinality(A) + Cardinality(B) - Cardinality(A \cap B)
    BY FS_Union
  <1>2. Cardinality(A \cap B) = 0
    BY FS_EmptySet
  <1>3. Cardinality(A) \in Nat /\ Cardinality(B) \in Nat
    BY FS_CardinalityType
  <1>. QED BY <1>1, <1>2, <1>3

LEMMA CountBehind ==
  ASSUME NEW S, NEW s \in Seq(S), NEW u \in Seq(S), NEW C,
         NEW i \in Nat \ {0}
  PROVE  Cardinality(From(s \o u, Len(s) + i, C)) = Cardinality(From(u, i, C))
  <1>. DEFINE m == Len(s)
              a == s \o u
              f == [j \in From(u, i, C) |-> j + m]
  <1>1. m \in Nat /\ Len(u) \in Nat /\ DOMAIN u = 1 .. Len(u)
    OBVIOUS
  <1>2. /\ DOMAIN a = 1 .. m + Len(u)
        /\ \A j \in DOMAIN a : a[j] = IF j <= m THEN s[j] ELSE u[j - m]
    BY ConcatProperties
  <1>. HIDE DEF a, m
  <1>3. ASSUME NEW j \in From(u, i, C) PROVE j + m \in From(a, m + i, C)
    <2>1. j \in 1 .. Len(u) /\ u[j] \in C /\ j >= i
      BY <1>1 DEF From
    <2>2. j + m \in DOMAIN a /\ ~(j + m <= m) /\ (j + m) - m = j /\ j + m >= m + i
      BY <1>1, <1>2, <2>1
    <2>. QED BY <1>2, <2>1, <2>2 DEF From
  <1>4. ASSUME NEW k \in From(a, m + i, C)
        PROVE  k - m \in From(u, i, C) /\ (k - m) + m = k
    <2>1. k \in 1 .. m + Len(u) /\ k >= m + i /\ a[k] \in C /\ ~(k <= m)
      BY <1>1, <1>2 DEF From
    <2>2. k - m \in DOMAIN u /\ k - m >= i /\ (k - m) + m = k
      BY <1>1, <2>1
    <2>. QED BY <1>2, <2>1, <2>2 DEF From
  <1>5. f \in [From(u, i, C) -> From(a, m + i, C)]
    BY <1>3
  <1>6. \A k \in From(a, m + i, C) : \E j \in From(u, i, C) : f[j] = k
    BY <1>4
  <1>7. \A x, y \in From(u, i, C) : f[x] = f[y] => x = y
    <2>1. \A x \in From(u, i, C) : x \in Int
      BY <1>1 DEF From
    <2>. QED BY <1>1, <2>1
  <1>8. IsFiniteSet(From(u, i, C))
    BY FromFinite
  <1>. HIDE DEF f
  <1>9. Cardinality(From(u, i, C)) = Cardinality(From(a, m + i, C))
    BY <1>5, <1>6, <1>7, <1>8, SameCardinality
  <1>. QED BY <1>9 DEF a, m

\* The places at or behind a position of a concatenation.
LEMMA CountConcat ==
  ASSUME NEW S, NEW s \in Seq(S), NEW u \in Seq(S), NEW C,
         NEW i \in 1 .. Len(s) + 1
  PROVE  Cardinality(From(s \o u, i, C))
           = Cardinality(From(s, i, C)) + Cardinality(From(u, 1, C))
  <1>. DEFINE m == Len(s)
              a == s \o u
  <1>1. m \in Nat /\ Len(u) \in Nat /\ DOMAIN s = 1 .. m
    OBVIOUS
  <1>2. /\ DOMAIN a = 1 .. m + Len(u) /\ a \in Seq(S)
        /\ \A j \in DOMAIN a : a[j] = IF j <= m THEN s[j] ELSE u[j - m]
    BY ConcatProperties
  <1>3. Cardinality(From(a, m + 1, C)) = Cardinality(From(u, 1, C))
    BY CountBehind
  <1>. HIDE DEF a, m
  <1>4. From(a, i, C) = From(s, i, C) \cup From(a, m + 1, C)
    BY <1>1, <1>2 DEF From, m
  <1>5. From(s, i, C) \cap From(a, m + 1, C) = {}
    BY <1>1 DEF From
  <1>6. IsFiniteSet(From(s, i, C)) /\ IsFiniteSet(From(a, m + 1, C))
    BY <1>2, FromFinite
  <1>7. Cardinality(From(a, i, C))
          = Cardinality(From(s, i, C)) + Cardinality(From(a, m + 1, C))
    BY <1>4, <1>5, <1>6, CountDisjoint
  <1>. QED BY <1>3, <1>7 DEF a

\* All of a run of commands are of the class, or none.
LEMMA CountAll ==
  ASSUME NEW S, NEW s \in Seq(S), NEW C, \A i \in DOMAIN s : s[i] \in C,
         NEW k \in 1 .. Len(s) + 1
  PROVE  Cardinality(From(s, k, C)) = Len(s) + 1 - k
  <1>1. From(s, k, C) = k .. Len(s)
    BY DEF From
  <1>2. k \in Int /\ Len(s) \in Int
    OBVIOUS
  <1>3. Cardinality(k .. Len(s)) = IF k > Len(s) THEN 0 ELSE Len(s) - k + 1
    BY <1>2, FS_Interval
  <1>. QED BY <1>1, <1>3

\* None of a run of commands is of the class.
LEMMA CountNone ==
  ASSUME NEW S, NEW s \in Seq(S), NEW C, \A i \in DOMAIN s : s[i] \notin C
  PROVE  Cardinality(From(s, 1, C)) = 0 /\ Places(s, C) = {}
  <1>1. From(s, 1, C) = {} /\ Places(s, C) = {}
    BY DEF From, Places
  <1>. QED BY <1>1, FS_EmptySet

\* The number of a class behind each of its elements is a matter of order.
LEMMA SameCounts ==
  ASSUME NEW S, NEW s \in Seq(S), NEW t \in Seq(S), NEW C, SameOrder(s, t, C)
  PROVE  /\ Cardinality(From(t, 1, C)) = Cardinality(From(s, 1, C))
         /\ \A i \in From(t, 1, C) : \E k \in From(s, 1, C) :
              /\ t[i] = s[k]
              /\ Cardinality(From(t, i + 1, C)) = Cardinality(From(s, k + 1, C))
  <1>1. PICK f : Matches(f, s, t, C)
    BY DEF SameOrder
  <1>2. /\ Places(s, C) = From(s, 1, C) /\ Places(t, C) = From(t, 1, C)
        /\ From(s, 1, C) \subseteq Int /\ From(t, 1, C) \subseteq Int
    BY DEF Places, From
  <1>3. \A i, j \in From(t, 1, C) : i = j \/ i < j \/ j < i
    BY <1>2
  <1>4. \A i, j \in From(t, 1, C) : f[i] = f[j] => i = j
    <2>1. \A i \in From(t, 1, C) : f[i] \in Int
      BY <1>1, <1>2 DEF Matches
    <2>. QED BY <1>1, <1>2, <1>3, <2>1 DEF Matches
  <1>5. Cardinality(From(t, 1, C)) = Cardinality(From(s, 1, C))
    BY <1>1, <1>2, <1>4, FromFinite, SameCardinality DEF Matches
  <1>6. ASSUME NEW i \in From(t, 1, C)
        PROVE  /\ f[i] \in From(s, 1, C) /\ t[i] = s[f[i]]
               /\ Cardinality(From(t, i + 1, C)) = Cardinality(From(s, f[i] + 1, C))
    <2>1. f[i] \in From(s, 1, C) /\ t[i] = s[f[i]] /\ i \in Int /\ f[i] \in Int
      BY <1>1, <1>2 DEF Matches
    <2>. DEFINE A == From(t, i + 1, C)
                B == From(s, f[i] + 1, C)
                g == [j \in A |-> f[j]]
    <2>2. \A j \in A : j \in From(t, 1, C) /\ i < j
      BY <2>1, <1>2 DEF From
    <2>3. \A j \in From(t, 1, C) : i < j => j \in A
      BY <2>1, <1>2 DEF From
    <2>4. \A k \in From(s, 1, C) : f[i] < k => k \in B
      BY <2>1, <1>2 DEF From
    <2>5. \A k \in B : k \in From(s, 1, C) /\ f[i] < k /\ k \in Int
      <3>1. f[i] >= 1 /\ DOMAIN s = 1 .. Len(s)
        BY <2>1 DEF From
      <3>. QED BY <2>1, <3>1 DEF From
    <2>6. IsFiniteSet(A)
      BY FromFinite
    <2>. HIDE DEF A, B
    <2>7. g \in [A -> B]
      BY <1>1, <1>2, <2>1, <2>2, <2>4 DEF Matches
    <2>8. ASSUME NEW k \in B PROVE \E j \in A : g[j] = k
      <3>1. PICK j \in From(t, 1, C) : f[j] = k
        BY <1>1, <1>2, <2>5 DEF Matches
      <3>2. ~(j < i)
        <4>. SUFFICES ASSUME j < i PROVE FALSE
          OBVIOUS
        <4>1. f[j] < f[i]
          BY <1>1, <1>2 DEF Matches
        <4>. QED BY <2>1, <2>5, <3>1, <4>1
      <3>3. j # i
        BY <2>1, <2>5, <3>1
      <3>. QED BY <1>3, <2>3, <3>1, <3>2, <3>3
    <2>9. \A x, y \in A : g[x] = g[y] => x = y
      BY <1>4, <2>2
    <2>. HIDE DEF g
    <2>10. Cardinality(A) = Cardinality(B)
      BY <2>6, <2>7, <2>8, <2>9, SameCardinality
    <2>. QED BY <2>1, <2>10 DEF A, B
  <1>. QED BY <1>5, <1>6

-----------------------------------------------------------------------------
(* Queues in pieces, and what moving a command does to the others.         *)
\* Sequences of commands in pieces.
LEMMA PieceType ==
  ASSUME NEW s \in Seq(Commands), NEW i \in 1 .. Len(s) + 1, NEW j \in 0 .. Len(s)
  PROVE  SubSeq(s, i, j) \in Seq(Commands)
  <1>1. /\ \A k \in i .. j : k \in 1 .. Len(s)
        /\ i \in Int /\ j \in Int
    OBVIOUS
  <1>2. \A k \in i .. j : s[k] \in Commands
    BY <1>1, ElementOfSeq
  <1>. QED BY <1>1, <1>2, SubSeqProperties

\* A queue is its front, one command and its rest.
LEMMA SplitAt ==
  ASSUME NEW s \in Seq(Commands), NEW i \in 1 .. Len(s)
  PROVE  /\ SubSeq(s, 1, i - 1) \in Seq(Commands)
         /\ SubSeq(s, i + 1, Len(s)) \in Seq(Commands)
         /\ s[i] \in Commands
         /\ s = SubSeq(s, 1, i - 1) \o (<<s[i]>> \o SubSeq(s, i + 1, Len(s)))
         /\ RemoveAt(s, i) \in Seq(Commands)
         /\ Len(RemoveAt(s, i)) = Len(s) - 1
  <1>1. /\ 1 \in 1 .. Len(s) + 1 /\ i - 1 \in 0 .. Len(s)
        /\ i + 1 \in 1 .. Len(s) + 1 /\ Len(s) \in 0 .. Len(s)
        /\ Len(s) \in i .. Len(s) /\ Len(s) \in i - 1 .. Len(s)
    OBVIOUS
  <1>2. /\ SubSeq(s, 1, i - 1) \in Seq(Commands)
        /\ SubSeq(s, i + 1, Len(s)) \in Seq(Commands)
    BY <1>1, PieceType
  <1>3. s[i] \in Commands
    BY ElementOfSeq
  <1>4. SubSeq(s, i, Len(s)) = <<s[i]>> \o SubSeq(s, i + 1, Len(s))
    BY <1>1, SubSeqRecursiveFirst
  <1>5. SubSeq(s, 1, i - 1) \o SubSeq(s, (i - 1) + 1, Len(s)) = SubSeq(s, 1, Len(s))
    <2>1. i - 1 \in 1 - 1 .. Len(s)
      OBVIOUS
    <2>. QED BY <1>1, <2>1, ConcatAdjacentSubSeq
  <1>6. (i - 1) + 1 = i /\ SubSeq(s, 1, Len(s)) = s
    BY SubSeqFull
  <1>7. Len(SubSeq(s, 1, i - 1)) = i - 1 /\ Len(SubSeq(s, i + 1, Len(s))) = Len(s) - i
    <2>1. /\ \A k \in 1 .. i - 1 : s[k] \in Commands
          /\ \A k \in i + 1 .. Len(s) : s[k] \in Commands
      BY ElementOfSeq
    <2>2. Len(SubSeq(s, 1, i - 1)) = IF 1 <= i - 1 THEN i - 1 - 1 + 1 ELSE 0
      BY <1>1, <2>1, SubSeqProperties
    <2>3. Len(SubSeq(s, i + 1, Len(s)))
            = IF i + 1 <= Len(s) THEN Len(s) - (i + 1) + 1 ELSE 0
      BY <1>1, <2>1, SubSeqProperties
    <2>. QED BY <2>2, <2>3
  <1>8. RemoveAt(s, i) \in Seq(Commands) /\ Len(RemoveAt(s, i)) = Len(s) - 1
    <2>. DEFINE p == SubSeq(s, 1, i - 1)
                q == SubSeq(s, i + 1, Len(s))
    <2>1. RemoveAt(s, i) = p \o q
      BY DEF RemoveAt
    <2>2. p \in Seq(Commands) /\ q \in Seq(Commands)
      BY <1>2
    <2>3. Len(p) = i - 1 /\ Len(q) = Len(s) - i
      BY <1>7
    <2>. HIDE DEF p, q
    <2>4. p \o q \in Seq(Commands) /\ Len(p \o q) = Len(p) + Len(q)
      BY <2>2, ConcatProperties
    <2>. QED BY <2>1, <2>3, <2>4
  <1>. QED BY <1>2, <1>3, <1>4, <1>5, <1>6, <1>8

LEMMA SplitFirst ==
  ASSUME NEW s \in Seq(Commands), s # <<>>
  PROVE  /\ Head(s) \in Commands /\ Tail(s) \in Seq(Commands)
         /\ s = <<Head(s)>> \o Tail(s)
         /\ Len(Tail(s)) = Len(s) - 1 /\ 1 \in 1 .. Len(s) /\ Head(s) = s[1]
  <1>1. /\ Head(s) \in Commands /\ Tail(s) \in Seq(Commands)
        /\ Len(Tail(s)) = Len(s) - 1
        /\ Tail(s) = SubSeq(s, 2, Len(s))
    BY HeadTailProperties, TailIsSubSeq
  <1>2. 1 \in 1 .. Len(s) /\ Len(s) \in 1 .. Len(s)
    BY EmptySeq
  <1>3. SubSeq(s, 1, Len(s)) = <<s[1]>> \o SubSeq(s, 1 + 1, Len(s))
    BY <1>2, SubSeqRecursiveFirst
  <1>4. Head(s) = s[1] /\ SubSeq(s, 1, Len(s)) = s
    BY SubSeqFull
  <1>. QED BY <1>1, <1>2, <1>3, <1>4

LEMMA SplitLast ==
  ASSUME NEW s \in Seq(Commands), s # <<>>
  PROVE  /\ Front(s) \in Seq(Commands) /\ Last(s) \in Commands
         /\ s = Front(s) \o <<Last(s)>> /\ Len(Front(s)) = Len(s) - 1
  <1>1. Len(s) \in 1 .. Len(s) /\ Len(s) + 1 > Len(s)
    BY EmptySeq
  <1>2. SubSeq(s, Len(s) + 1, Len(s)) = <<>>
    <2>1. Len(s) + 1 \in Int /\ Len(s) \in Int
      OBVIOUS
    <2>. QED BY <1>1, <2>1, SubSeqEmpty
  <1>3. /\ Front(s) \in Seq(Commands) /\ Last(s) \in Commands
        /\ s = Front(s) \o (<<Last(s)>> \o <<>>)
        /\ RemoveAt(s, Len(s)) = Front(s) \o <<>>
        /\ Len(RemoveAt(s, Len(s))) = Len(s) - 1
    BY <1>1, <1>2, SplitAt DEF Front, Last, RemoveAt
  <1>4. <<Last(s)>> \o <<>> = <<Last(s)>> /\ Front(s) \o <<>> = Front(s)
    BY <1>3, ConcatEmptySeq
  <1>. QED BY <1>3, <1>4

\* Taking a command out of a queue, or putting one in, does not touch the
\* order of the others.
LEMMA OtherSame ==
  ASSUME NEW p \in Seq(Commands), NEW q \in Seq(Commands),
         NEW x \in Commands, NEW C, x \notin C
  PROVE  /\ SameOrder(p \o (<<x>> \o q), p \o q, C)
         /\ SameOrder(p \o q, p \o (<<x>> \o q), C)
  <1>1. <<x>> \in Seq(Commands) /\ <<>> \in Seq(Commands) /\ <<>> \o q = q
    BY ConcatEmptySeq
  <1>2. SameOrder(<<x>>, <<>>, C) /\ SameOrder(<<>>, <<x>>, C)
    BY NoPlaces, SameNone
  <1>3. SameOrder(p, p, C) /\ SameOrder(q, q, C)
    BY SameRefl
  <1>4. SameOrder(<<x>> \o q, <<>> \o q, C) /\ SameOrder(<<>> \o q, <<x>> \o q, C)
    BY <1>1, <1>2, <1>3, SameConcat
  <1>5. SameOrder(<<x>> \o q, q, C) /\ SameOrder(q, <<x>> \o q, C)
    BY <1>1, <1>4
  <1>6. <<x>> \o q \in Seq(Commands)
    BY <1>1, ConcatProperties
  <1>. QED BY <1>3, <1>5, <1>6, SameConcat

LEMMA FrontSame ==
  ASSUME NEW s \in Seq(Commands), NEW x \in Commands, NEW C, x \notin C
  PROVE  /\ SameOrder(<<x>> \o s, s, C) /\ SameOrder(s, <<x>> \o s, C)
         /\ SameOrder(s \o <<x>>, s, C) /\ SameOrder(s, s \o <<x>>, C)
         /\ <<x>> \o s \in Seq(Commands) /\ s \o <<x>> \in Seq(Commands)
  <1>1. <<x>> \in Seq(Commands) /\ <<>> \in Seq(Commands)
    OBVIOUS
  <1>2. /\ <<>> \o s = s /\ s \o <<>> = s /\ <<x>> \o <<>> = <<x>>
        /\ <<x>> \o s \in Seq(Commands) /\ s \o <<x>> \in Seq(Commands)
        /\ <<>> \o (<<x>> \o s) = <<x>> \o s
    BY <1>1, ConcatEmptySeq, ConcatProperties
  <1>3. /\ SameOrder(<<>> \o (<<x>> \o s), <<>> \o s, C)
        /\ SameOrder(<<>> \o s, <<>> \o (<<x>> \o s), C)
        /\ SameOrder(s \o (<<x>> \o <<>>), s \o <<>>, C)
        /\ SameOrder(s \o <<>>, s \o (<<x>> \o <<>>), C)
    BY <1>1, OtherSame
  <1>. QED BY <1>2, <1>3

\* So does taking one out in the middle of the queue.
LEMMA RemoveAtSame ==
  ASSUME NEW s \in Seq(Commands), NEW i \in 1 .. Len(s), NEW C, s[i] \notin C
  PROVE  /\ SameOrder(s, RemoveAt(s, i), C)
         /\ SameOrder(s, <<s[i]>> \o RemoveAt(s, i), C)
         /\ <<s[i]>> \o RemoveAt(s, i) \in Seq(Commands)
         /\ Len(<<s[i]>> \o RemoveAt(s, i)) = Len(s)
  <1>. DEFINE p == SubSeq(s, 1, i - 1)
              q == SubSeq(s, i + 1, Len(s))
              x == s[i]
              r == RemoveAt(s, i)
  <1>1. /\ p \in Seq(Commands) /\ q \in Seq(Commands) /\ x \in Commands
        /\ s = p \o (<<x>> \o q) /\ x \notin C
    BY SplitAt
  <1>2. r = p \o q
    BY DEF RemoveAt
  <1>3. r \in Seq(Commands) /\ Len(r) = Len(s) - 1 /\ Len(s) \in Nat
    <2>1. Len(s) \in Nat
      OBVIOUS
    <2>2. RemoveAt(s, i) \in Seq(Commands) /\ Len(RemoveAt(s, i)) = Len(s) - 1
      BY SplitAt, Zenon
    <2>. QED BY <2>1, <2>2
  <1>. HIDE DEF p, q, x, r
  <1>4. SameOrder(s, r, C)
    BY <1>1, <1>2, OtherSame
  <1>5. SameOrder(r, <<x>> \o r, C) /\ <<x>> \o r \in Seq(Commands)
    BY <1>1, <1>3, FrontSame
  <1>6. SameOrder(s, <<x>> \o r, C)
    <2>. DEFINE t == <<x>> \o r
    <2>1. t \in Seq(Commands) /\ SameOrder(r, t, C)
      BY <1>5
    <2>. HIDE DEF t
    <2>2. SameOrder(s, t, C)
      BY <1>3, <1>4, <2>1, SameTrans
    <2>. QED BY <2>2 DEF t
  <1>7. Len(<<x>> \o r) = Len(s)
    <2>1. <<x>> \in Seq(Commands) /\ Len(<<x>>) = 1
      BY <1>1
    <2>2. Len(<<x>> \o r) = 1 + Len(r)
      BY <2>1, <1>3, ConcatProperties
    <2>. QED BY <2>2, <1>3
  <1>. QED BY <1>4, <1>5, <1>6, <1>7 DEF x, r

\* SelectInSeq returns a position of the queue.
LEMMA LeastPlace ==
  ASSUME NEW I, I \subseteq Nat, I # {}
  PROVE  Min(I) \in I
  <1>1. PICK m \in I : \A k \in I : ~(<<k, m>> \in OpToRel(<, Nat))
    BY WFMin, NatLessThanWellFounded
  <1>2. \A k \in I : k < m => <<k, m>> \in OpToRel(<, Nat)
    <2>1. m \in Nat /\ \A k \in I : k \in Nat
      OBVIOUS
    <2>. QED BY <2>1 DEF OpToRel
  <1>3. \A k \in I : ~(k < m)
    BY <1>1, <1>2
  <1>4. \A k \in I : m <= k
    BY <1>3
  <1>. QED BY <1>4 DEF Min

LEMMA ExitPlace ==
  ASSUME NEW s \in Seq(Commands)
  PROVE  \/ /\ SelectInSeq(s, IsExit) = 0
            /\ \A i \in 1 .. Len(s) : ~IsExit(s[i])
         \/ /\ SelectInSeq(s, IsExit) \in 1 .. Len(s)
            /\ IsExit(s[SelectInSeq(s, IsExit)])
  <1>. DEFINE I == {i \in 1 .. Len(s) : IsExit(s[i])}
  <1>1. SelectInSeq(s, IsExit) = IF I # {} THEN Min(I) ELSE 0
    BY DEF SelectInSeq
  <1>2. I \subseteq Nat
    OBVIOUS
  <1>3. CASE I = {}
    BY <1>1, <1>3
  <1>4. CASE I # {}
    <2>. HIDE DEF I
    <2>1. Min(I) \in I
      BY <1>2, <1>4, LeastPlace
    <2>. QED BY <1>1, <1>4, <2>1 DEF I
  <1>. QED BY <1>3, <1>4

\* RemoveFirst takes out the first place of the element or nothing.
LEMMA RemoveFirstPlace ==
  ASSUME NEW s \in Seq(Commands), NEW e
  PROVE  \/ /\ RemoveFirst(s, e) = s
            /\ \A i \in 1 .. Len(s) : s[i] # e
         \/ \E i \in 1 .. Len(s) : s[i] = e /\ RemoveFirst(s, e) = RemoveAt(s, i)
  <1>. DEFINE I == {i \in 1 .. Len(s) : s[i] = e}
              k == SelectInSeq(s, LAMBDA v : v = e)
  <1>1. k = IF I # {} THEN Min(I) ELSE 0
    BY DEF SelectInSeq
  <1>2. I \subseteq Nat
    OBVIOUS
  <1>3. RemoveFirst(s, e) = IF \E i \in 1 .. Len(s) : s[i] = e THEN RemoveAt(s, k) ELSE s
    BY DEF RemoveFirst
  <1>. HIDE DEF k
  <1>4. CASE I = {}
    BY <1>3, <1>4
  <1>5. CASE I # {}
    <2>1. Min(I) \in I
      <3>. HIDE DEF I
      <3>. QED BY <1>2, <1>5, LeastPlace
    <2>. QED BY <1>1, <1>3, <1>5, <2>1
  <1>. QED BY <1>4, <1>5

\* list::splice of the exit to the front: the others keep their order.
LEMMA ExitFirstSame ==
  ASSUME NEW s \in Seq(Commands), NEW C, \A q \in C : ~IsExit(q)
  PROVE  /\ ExitFirst(s) \in Seq(Commands) /\ Len(ExitFirst(s)) = Len(s)
         /\ SameOrder(s, ExitFirst(s), C)
  <1>. DEFINE i == SelectInSeq(s, IsExit)
  <1>1. \/ i = 0
        \/ i \in 1 .. Len(s) /\ IsExit(s[i])
    BY ExitPlace
  <1>2. ExitFirst(s) = IF i = 0 THEN s ELSE <<s[i]>> \o RemoveAt(s, i)
    BY DEF ExitFirst
  <1>. HIDE DEF i
  <1>3. CASE i = 0
    <2>1. SameOrder(s, s, C)
      BY SameRefl
    <2>. QED BY <1>2, <1>3, <2>1
  <1>4. CASE i # 0
    <2>1. i \in 1 .. Len(s) /\ s[i] \notin C
      BY <1>1, <1>4
    <2>. DEFINE t == <<s[i]>> \o RemoveAt(s, i)
    <2>2. SameOrder(s, t, C) /\ t \in Seq(Commands) /\ Len(t) = Len(s)
      BY <2>1, RemoveAtSame
    <2>3. ExitFirst(s) = t
      BY <1>2, <1>4
    <2>. HIDE DEF t
    <2>. QED BY <2>2, <2>3
  <1>. QED BY <1>3, <1>4

\* The places that take part in a Fill.
LEMMA SplitPending ==
  ASSUME NEW s \in Seq(Commands), NEW n \in 0 .. Len(s)
  PROVE  /\ SubSeq(s, 1, n) \in Seq(Commands) /\ Len(SubSeq(s, 1, n)) = n
         /\ SubSeq(s, n + 1, Len(s)) \in Seq(Commands)
         /\ s = SubSeq(s, 1, n) \o SubSeq(s, n + 1, Len(s))
  <1>1. /\ 1 \in 1 .. Len(s) + 1 /\ n \in 0 .. Len(s) /\ n + 1 \in 1 .. Len(s) + 1
        /\ Len(s) \in 0 .. Len(s) /\ Len(s) \in n .. Len(s) /\ n \in 1 - 1 .. Len(s)
        /\ n \in Int
    OBVIOUS
  <1>2. SubSeq(s, 1, n) \in Seq(Commands) /\ SubSeq(s, n + 1, Len(s)) \in Seq(Commands)
    BY <1>1, PieceType
  <1>3. SubSeq(s, 1, n) \o SubSeq(s, n + 1, Len(s)) = SubSeq(s, 1, Len(s))
    BY <1>1, ConcatAdjacentSubSeq
  <1>4. Len(SubSeq(s, 1, n)) = n
    <2>1. \A k \in 1 .. n : s[k] \in Commands
      BY ElementOfSeq
    <2>2. Len(SubSeq(s, 1, n)) = IF 1 <= n THEN n - 1 + 1 ELSE 0
      BY <1>1, <2>1, SubSeqProperties
    <2>. QED BY <2>2
  <1>. QED BY <1>2, <1>3, <1>4, SubSeqFull

\* A join of four pieces.
LEMMA FillSame ==
  ASSUME NEW pri \in Seq(Commands), NEW pend \in Seq(Commands),
         Len(pri) <= PrioritySize, Fill(pri, pend),
         NEW C, \A q \in C : ~IsExit(q)
  PROVE  /\ priority' \in Seq(Commands) /\ pendingMaintenance' \in Seq(Commands)
         /\ Len(priority') <= PrioritySize
         /\ SameOrder(pri \o pend, Line', C)
  <1>. DEFINE room == PrioritySize - Len(pri)
              n == IF Len(pend) < room THEN Len(pend) ELSE room
              a == SubSeq(pend, 1, n)
              b == SubSeq(pend, n + 1, Len(pend))
              m == ExitFirst(a)
              h == Head(m)
              t == Tail(m)
  <1>1. /\ Len(pri) \in Nat /\ Len(pend) \in Nat /\ PrioritySize \in Nat
        /\ n \in 0 .. Len(pend) /\ Len(pri) + n <= PrioritySize
    BY MaintenanceAssumption
  <1>2. /\ priority' = IF m # <<>> /\ IsExit(h) THEN <<h>> \o pri \o t ELSE pri \o m
        /\ pendingMaintenance' = b
    BY DEF Fill
  <1>. HIDE DEF n
  <1>3. /\ a \in Seq(Commands) /\ Len(a) = n /\ b \in Seq(Commands)
        /\ pend = a \o b
    BY <1>1, SplitPending
  <1>. HIDE DEF a, b
  <1>4. m \in Seq(Commands) /\ Len(m) = n /\ SameOrder(a, m, C)
    BY <1>3, ExitFirstSame
  <1>5. pri \o pend = (pri \o a) \o b /\ pri \o a \in Seq(Commands)
    BY <1>3, ConcatAssociative, ConcatProperties, SMTT(60)
  <1>6. SameOrder(pri, pri, C) /\ SameOrder(b, b, C)
    BY <1>3, SameRefl
  <1>. HIDE DEF m
  <1>7. /\ priority' \in Seq(Commands) /\ Len(priority') = Len(pri) + n
        /\ SameOrder(pri \o a, priority', C)
    <2>1. CASE m # <<>> /\ IsExit(h)
      <3>1. h \in Commands /\ t \in Seq(Commands) /\ m = <<h>> \o t
            /\ Len(t) = n - 1 /\ h \notin C
        BY <1>4, <2>1, SplitFirst
      <3>2. /\ SameOrder(<<h>> \o t, t, C) /\ SameOrder(pri, <<h>> \o pri, C)
            /\ <<h>> \o pri \in Seq(Commands)
        BY <3>1, FrontSame
      <3>3. SameOrder(a, t, C)
        BY <1>3, <1>4, <3>1, <3>2, SameTrans
      <3>. DEFINE g == <<h>> \o pri
      <3>4. Len(g) = 1 + Len(pri)
        <4>1. <<h>> \in Seq(Commands) /\ Len(<<h>>) = 1
          BY <3>1
        <4>. QED BY <4>1, ConcatProperties
      <3>5. priority' = g \o t
        BY <1>2, <2>1
      <3>6. g \in Seq(Commands) /\ SameOrder(pri, g, C)
        BY <3>2
      <3>. HIDE DEF g, h, t
      <3>7. SameOrder(pri \o a, g \o t, C)
        BY <1>3, <3>1, <3>3, <3>6, SameConcat
      <3>8. g \o t \in Seq(Commands) /\ Len(g \o t) = Len(g) + Len(t)
        BY <3>1, <3>6, ConcatProperties
      <3>9. n \in Int
        BY <1>1
      <3>. QED BY <1>1, <3>1, <3>4, <3>5, <3>7, <3>8, <3>9
    <2>2. CASE ~(m # <<>> /\ IsExit(h))
      <3>1. priority' = pri \o m
        BY <1>2, <2>2
      <3>2. SameOrder(pri \o a, pri \o m, C)
        BY <1>3, <1>4, <1>6, SameConcat
      <3>3. pri \o m \in Seq(Commands) /\ Len(pri \o m) = Len(pri) + Len(m)
        BY <1>4, ConcatProperties
      <3>. QED BY <1>4, <3>1, <3>2, <3>3
    <2>. QED BY <2>1, <2>2
  <1>8. SameOrder((pri \o a) \o b, priority' \o b, C)
    BY <1>3, <1>5, <1>6, <1>7, SameConcat
  <1>. QED BY <1>1, <1>2, <1>3, <1>5, <1>7, <1>8 DEF Line

\* The exit takes the place of the last command of Priority, which goes to
\* the front of pending_maintenance_.
LEMMA DisplaceSame ==
  ASSUME NEW pri \in Seq(Commands), NEW pend \in Seq(Commands),
         pri # <<>>, pend # <<>>, IsExit(Head(pend)),
         NEW C, \A q \in C : ~IsExit(q)
  PROVE  /\ <<Head(pend)>> \o Front(pri) \in Seq(Commands)
         /\ Len(<<Head(pend)>> \o Front(pri)) = Len(pri)
         /\ Displaced(pri, pend) \in Seq(Commands)
         /\ SameOrder(pri \o pend,
                      (<<Head(pend)>> \o Front(pri)) \o Displaced(pri, pend), C)
  <1>. DEFINE f == Front(pri)
              l == Last(pri)
              h == Head(pend)
              t == Tail(pend)
              g == <<h>> \o f
              d == <<l>> \o t
  <1>1. /\ f \in Seq(Commands) /\ l \in Commands
        /\ pri = f \o <<l>> /\ Len(f) = Len(pri) - 1
    BY SplitLast
  <1>2. h \in Commands /\ t \in Seq(Commands) /\ pend = <<h>> \o t
    BY SplitFirst
  <1>3. h \notin C /\ Displaced(pri, pend) = d
    BY DEF Displaced
  <1>. HIDE DEF f, l, h, t
  <1>4. SameOrder(f, g, C) /\ g \in Seq(Commands)
    BY <1>1, <1>2, <1>3, FrontSame
  <1>5. SameOrder(<<h>> \o t, t, C) /\ <<h>> \o t \in Seq(Commands)
    BY <1>2, <1>3, FrontSame
  <1>6. <<l>> \in Seq(Commands) /\ <<h>> \in Seq(Commands) /\ Len(<<h>>) = 1
    BY <1>1, <1>2
  <1>7. d \in Seq(Commands) /\ Len(g) = 1 + Len(f)
    BY <1>1, <1>2, <1>6, ConcatProperties
  <1>8. SameOrder(pri \o pend, pri \o t, C)
    <2>1. SameOrder(pri, pri, C)
      BY SameRefl
    <2>2. SameOrder(pend, t, C)
      BY <1>2, <1>5
    <2>. QED BY <1>2, <2>1, <2>2, SameConcat
  <1>9. pri \o t = f \o d
    BY <1>1, <1>2, <1>6, ConcatAssociative
  <1>10. SameOrder(f \o d, g \o d, C)
    <2>1. SameOrder(d, d, C)
      BY <1>7, SameRefl
    <2>. HIDE DEF g, d
    <2>. QED BY <1>1, <1>4, <1>7, <2>1, SameConcat
  <1>11. /\ pri \o pend \in Seq(Commands) /\ f \o d \in Seq(Commands)
         /\ g \o d \in Seq(Commands)
    <2>. HIDE DEF g, d
    <2>. QED BY <1>1, <1>4, <1>7, ConcatProperties
  <1>12. SameOrder(pri \o pend, g \o d, C)
    <2>. HIDE DEF g, d
    <2>1. SameOrder(pri \o pend, f \o d, C)
      BY <1>8, <1>9
    <2>. QED BY <1>10, <1>11, <2>1, SameTrans
  <1>13. Len(g) = Len(pri)
    BY <1>1, <1>7
  <1>. QED BY <1>3, <1>4, <1>7, <1>12, <1>13 DEF f, h

-----------------------------------------------------------------------------
(* Each step of the controller and the line of commands on their way.      *)
QueuesOK ==
  /\ priority \in Seq(Commands) /\ Len(priority) <= PrioritySize
  /\ pendingMaintenance \in Seq(Commands)

\* What the commands of each kind are.
LEMMA ControlKinds ==
  ASSUME NEW c \in Controls
  PROVE  Command(c) \in Commands /\ Command(c).cmd = c
  BY DEF Command, Commands

LEMMA EntryKind == AutomaticEntry \in Commands /\ AutomaticEntry.cmd = "SREFEN"
  BY DEF AutomaticEntry, Commands

LEMMA RefreshKinds ==
  ASSUME NEW r \in Rank, NEW s \in 0 .. Slots - 1
  PROVE  /\ Refreshes(r, s) \in Commands
         /\ Refreshes(r, s).cmd = "REF" /\ Refreshes(r, s).rank = r
         /\ Refreshes(r, s).slot = s
  BY DEF Refreshes, Commands

LEMMA KindsOf ==
  ASSUME NEW q \in Commands
  PROVE  /\ q.cmd \in Controls \cup {"REF"}
         /\ q.cmd = "REF" => q.rank \in Rank
         /\ q.cmd = "MRW" => q = Command("MRW")
         /\ q.cmd = "SREFEN" => q = Command("SREFEN") \/ q = AutomaticEntry
  BY DEF Command, AutomaticEntry, Refreshes, Commands, Controls

\* The line of commands on their way is a sequence of commands.
LEMMA LineType ==
  ASSUME QueuesOK
  PROVE  Line \in Seq(Commands)
  BY ConcatProperties DEF QueuesOK, Line

\* A class without exits has no exit in it.
LEMMA NoExits ==
  ASSUME NEW C, \A q \in C : ~IsExit(q)
  PROVE  Command("SREFEX") \notin C
  BY DEF Command, IsExit

-----------------------------------------------------------------------------
\* service_pending_maintenance() keeps the order of every class of commands
\* without an exit, whichever way it goes.
LEMMA ServiceSame ==
  ASSUME Service, QueuesOK, NEW C, \A q \in C : ~IsExit(q)
  PROVE  QueuesOK' /\ SameOrder(Line, Line', C)
  <1>. DEFINE pri == IF asleep THEN ExitFirst(priority) ELSE priority
              pend == IF asleep THEN ExitFirst(pendingMaintenance)
                      ELSE pendingMaintenance
  <1>1. /\ pri \in Seq(Commands) /\ Len(pri) = Len(priority)
        /\ SameOrder(priority, pri, C)
    BY ExitFirstSame, SameRefl DEF QueuesOK
  <1>2. pend \in Seq(Commands) /\ SameOrder(pendingMaintenance, pend, C)
    BY ExitFirstSame, SameRefl DEF QueuesOK
  <1>3. IF /\ asleep /\ Len(pri) = PrioritySize
           /\ pend # <<>> /\ IsExit(Head(pend))
        THEN Fill(<<Head(pend)>> \o Front(pri), Displaced(pri, pend))
        ELSE Fill(pri, pend)
    BY DEF Service
  <1>. HIDE DEF pri, pend
  <1>4. SameOrder(Line, pri \o pend, C)
    BY <1>1, <1>2, SameConcat DEF QueuesOK, Line
  <1>5. Len(pri) <= PrioritySize
    BY <1>1 DEF QueuesOK
  <1>6. pri \o pend \in Seq(Commands) /\ Line \in Seq(Commands)
    BY <1>1, <1>2, LineType, ConcatProperties
  <1>7. CASE Fill(pri, pend)
    <2>1. QueuesOK' /\ SameOrder(pri \o pend, Line', C)
      BY <1>1, <1>2, <1>5, <1>7, FillSame DEF QueuesOK
    <2>2. Line' \in Seq(Commands)
      BY <2>1, ConcatProperties DEF QueuesOK, Line
    <2>. QED BY <1>4, <1>6, <2>1, <2>2, SameTrans
  <1>8. CASE /\ Len(pri) = PrioritySize
             /\ pend # <<>> /\ IsExit(Head(pend))
             /\ Fill(<<Head(pend)>> \o Front(pri), Displaced(pri, pend))
    <2>. DEFINE g == <<Head(pend)>> \o Front(pri)
                d == Displaced(pri, pend)
    <2>1. pri # <<>>
      BY <1>8, EmptySeq, MaintenanceAssumption
    <2>2. /\ g \in Seq(Commands) /\ Len(g) = Len(pri) /\ d \in Seq(Commands)
          /\ SameOrder(pri \o pend, g \o d, C)
      BY <1>1, <1>2, <1>8, <2>1, DisplaceSame
    <2>3. Fill(g, d)
      BY <1>8
    <2>. HIDE DEF g, d
    <2>4. QueuesOK' /\ SameOrder(g \o d, Line', C)
      BY <1>5, <2>2, <2>3, FillSame DEF QueuesOK
    <2>5. Line' \in Seq(Commands) /\ g \o d \in Seq(Commands)
      BY <2>2, <2>4, ConcatProperties DEF QueuesOK, Line
    <2>6. SameOrder(Line, g \o d, C)
      BY <1>4, <1>6, <2>2, <2>5, SameTrans
    <2>. QED BY <1>6, <2>4, <2>5, <2>6, SameTrans
  <1>. QED BY <1>3, <1>7, <1>8

\* So does schedule_maintenance(), with the exit it adds left aside.
LEMMA ScheduledSame ==
  ASSUME NEW c \in {"SREFEX", "PDX"}, NEW s \in Seq(Commands),
         NEW C, \A q \in C : ~IsExit(q), c = "SREFEX" \/ Command("PDX") \notin C
  PROVE  /\ ScheduledExit(c, s) \in Seq(Commands)
         /\ SameOrder(s, ScheduledExit(c, s), C)
  <1>. DEFINE x == Command(c)
  <1>1. x \in Commands /\ x \notin C
    BY ControlKinds, NoExits DEF Controls
  <1>2. SameOrder(s, s, C)
    BY SameRefl
  <1>3. \/ ScheduledExit(c, s) = Append(s, x)
        \/ ScheduledExit(c, s) = s
        \/ ScheduledExit(c, s) = <<x>> \o s
    BY DEF ScheduledExit
  <1>. HIDE DEF x
  <1>4. Append(s, x) = s \o <<x>>
    BY <1>1, AppendIsConcat
  <1>. QED BY <1>1, <1>2, <1>3, <1>4, FrontSame

\* The types of what these steps leave.
LEMMA ScheduledType ==
  ASSUME NEW c \in {"SREFEX", "PDX"}, NEW s \in Seq(Commands)
  PROVE  ScheduledExit(c, s) \in Seq(Commands)
  <1>1. \A q \in {} : ~IsExit(q)
    OBVIOUS
  <1>2. Command("PDX") \notin {}
    OBVIOUS
  <1>. QED BY <1>1, <1>2, ScheduledSame

\* So does the wake-up check of tick().
LEMMA TickSame ==
  ASSUME Tick, QueuesOK, NEW C, \A q \in C : ~IsExit(q)
  PROVE  QueuesOK' /\ SameOrder(Line, Line', C)
  <1>1. /\ priority' = priority
        /\ \/ pendingMaintenance' = pendingMaintenance
           \/ pendingMaintenance' = ScheduledExit("SREFEX", pendingMaintenance)
    BY DEF Tick
  <1>2. /\ pendingMaintenance' \in Seq(Commands)
        /\ SameOrder(pendingMaintenance, pendingMaintenance', C)
    BY <1>1, ScheduledSame, SameRefl DEF QueuesOK
  <1>3. SameOrder(priority, priority, C)
    BY SameRefl DEF QueuesOK
  <1>. QED BY <1>1, <1>2, <1>3, SameConcat DEF QueuesOK, Line

LEMMA WithdrawnType ==
  ASSUME NEW s \in Seq(Commands)
  PROVE  Withdrawn(s) \in Seq(Commands) /\ Len(Withdrawn(s)) <= Len(s)
  <1>1. \/ Withdrawn(s) = s
        \/ \E i \in 1 .. Len(s) : Withdrawn(s) = RemoveAt(s, i)
    BY RemoveFirstPlace DEF Withdrawn
  <1>2. CASE \E i \in 1 .. Len(s) : Withdrawn(s) = RemoveAt(s, i)
    <2>1. PICK i \in 1 .. Len(s) : Withdrawn(s) = RemoveAt(s, i)
      BY <1>2
    <2>2. RemoveAt(s, i) \in Seq(Commands) /\ Len(RemoveAt(s, i)) = Len(s) - 1
      BY SplitAt, Zenon
    <2>3. Len(s) \in Nat
      OBVIOUS
    <2>. QED BY <2>1, <2>2, <2>3
  <1>. QED BY <1>1, <1>2

\* So does the withdrawal of the automatic SREFEN.
LEMMA WithdrawnSame ==
  ASSUME NEW s \in Seq(Commands), NEW C, AutomaticEntry \notin C
  PROVE  SameOrder(s, Withdrawn(s), C)
  <1>1. \/ Withdrawn(s) = s
        \/ \E i \in 1 .. Len(s) : s[i] \notin C /\ Withdrawn(s) = RemoveAt(s, i)
    BY RemoveFirstPlace DEF Withdrawn
  <1>. QED BY <1>1, RemoveAtSame, SameRefl

LEMMA SubmitType ==
  ASSUME Submit, QueuesOK
  PROVE  QueuesOK'
  <1>1. priority' = Withdrawn(priority)
    BY DEF Submit
  <1>2. \/ pendingMaintenance' = Withdrawn(pendingMaintenance)
        \/ /\ WakeCommand \in {"SREFEX", "PDX"}
           /\ pendingMaintenance'
                = ScheduledExit(WakeCommand, Withdrawn(pendingMaintenance))
    BY DEF Submit, WakeCommand
  <1>3. Withdrawn(priority) \in Seq(Commands) /\ Len(Withdrawn(priority)) <= PrioritySize
    <2>1. /\ Withdrawn(priority) \in Seq(Commands)
          /\ Len(Withdrawn(priority)) <= Len(priority)
          /\ Len(priority) <= PrioritySize
      BY WithdrawnType DEF QueuesOK
    <2>2. Len(Withdrawn(priority)) \in Nat /\ Len(priority) \in Nat /\ PrioritySize \in Nat
      BY <2>1, LenProperties, MaintenanceAssumption DEF QueuesOK
    <2>. QED BY <2>1, <2>2
  <1>4. Withdrawn(pendingMaintenance) \in Seq(Commands)
    BY WithdrawnType DEF QueuesOK
  <1>5. pendingMaintenance' \in Seq(Commands)
    BY <1>2, <1>4, ScheduledType
  <1>. QED BY <1>1, <1>3, <1>5 DEF QueuesOK

\* So does enqueue() of an ordinary request.
LEMMA SubmitSame ==
  ASSUME Submit, QueuesOK, NEW C, \A q \in C : ~IsExit(q),
         Command("PDX") \notin C, AutomaticEntry \notin C
  PROVE  SameOrder(Line, Line', C)
  <1>1. priority' = Withdrawn(priority)
    BY DEF Submit
  <1>. DEFINE w == Withdrawn(pendingMaintenance)
  <1>2. \/ pendingMaintenance' = w
        \/ /\ WakeCommand \in {"SREFEX", "PDX"}
           /\ pendingMaintenance' = ScheduledExit(WakeCommand, w)
    BY DEF Submit, WakeCommand
  <1>3. w \in Seq(Commands) /\ SameOrder(pendingMaintenance, w, C)
    BY WithdrawnType, WithdrawnSame DEF QueuesOK
  <1>4. SameOrder(priority, priority', C)
    BY <1>1, WithdrawnSame DEF QueuesOK
  <1>. HIDE DEF w
  <1>5. SameOrder(w, pendingMaintenance', C)
    BY <1>2, <1>3, ScheduledSame, SameRefl
  <1>6. QueuesOK'
    BY SubmitType
  <1>7. SameOrder(pendingMaintenance, pendingMaintenance', C)
    BY <1>3, <1>5, <1>6, SameTrans DEF QueuesOK
  <1>. QED BY <1>4, <1>6, <1>7, SameConcat DEF QueuesOK, Line

\* The automatic policy adds at most its own SREFEN, at the end.
LEMMA EndTickLine ==
  ASSUME EndTick, QueuesOK
  PROVE  /\ QueuesOK' /\ priority' = priority
         /\ \/ pendingMaintenance' = pendingMaintenance /\ automatic' = automatic
            \/ /\ Quiet /\ automatic'
               /\ pendingMaintenance' = pendingMaintenance \o <<AutomaticEntry>>
  <1>1. priority' = priority
    BY DEF EndTick
  <1>2. \/ pendingMaintenance' = pendingMaintenance /\ automatic' = automatic
        \/ /\ Quiet /\ automatic'
           /\ pendingMaintenance' = Append(pendingMaintenance, AutomaticEntry)
    <2>1. PICK done \in (IF setup.behavioral THEN {FALSE, Quiet} ELSE {Quiet}) :
            IF MayEnter(done) /\ setup.mode = "self_refresh" /\ ~BankBusy
            THEN /\ pendingMaintenance' = Append(pendingMaintenance,
                                                 AutomaticEntry)
                 /\ automatic' = TRUE
            ELSE UNCHANGED <<pendingMaintenance, automatic>>
      BY DEF EndTick
    <2>2. MayEnter(done) => Quiet
      BY <2>1 DEF MayEnter
    <2>. QED BY <2>1, <2>2
  <1>3. /\ Append(pendingMaintenance, AutomaticEntry)
             = pendingMaintenance \o <<AutomaticEntry>>
        /\ Append(pendingMaintenance, AutomaticEntry) \in Seq(Commands)
    BY EntryKind, AppendIsConcat, AppendProperties DEF QueuesOK
  <1>. QED BY <1>1, <1>2, <1>3 DEF QueuesOK

\* So every other class passes the end of a tick by.
LEMMA EndTickSame ==
  ASSUME EndTick, QueuesOK, NEW C, AutomaticEntry \notin C
  PROVE  SameOrder(Line, Line', C)
  <1>1. SameOrder(priority, priority, C)
    BY SameRefl DEF QueuesOK
  <1>2. SameOrder(pendingMaintenance, pendingMaintenance', C)
    BY EndTickLine, EntryKind, FrontSame, SameRefl DEF QueuesOK
  <1>. QED BY <1>1, <1>2, EndTickLine, SameConcat DEF QueuesOK, Line

\* A control command goes behind Priority, in front of what is pending.
LEMMA SubmitControlLine ==
  ASSUME SubmitControl, QueuesOK, setup \in Setups,
         sent \in 0 .. Len(setup.commands)
  PROVE  LET x == Command(setup.commands[sent + 1])
         IN  /\ setup.commands[sent + 1] \in Controls
             /\ sent + 1 \in 1 .. Len(setup.commands)
             /\ x \in Commands /\ QueuesOK'
             /\ Line' = priority \o (<<x>> \o pendingMaintenance)
  <1>. DEFINE c == setup.commands[sent + 1]
              x == Command(c)
  <1>1. setup.commands \in Seq(Controls)
    BY MaintenanceAssumption
  <1>2. sent + 1 \in 1 .. Len(setup.commands)
    BY <1>1 DEF SubmitControl
  <1>3. c \in Controls
    BY <1>1, <1>2, ElementOfSeq
  <1>4. x \in Commands
    BY <1>3, ControlKinds
  <1>5. priority' = Append(priority, x) /\ pendingMaintenance' = pendingMaintenance
        /\ Len(priority) < PrioritySize
    BY DEF SubmitControl
  <1>. HIDE DEF x, c
  <1>6. /\ Append(priority, x) = priority \o <<x>>
        /\ Append(priority, x) \in Seq(Commands)
        /\ Len(Append(priority, x)) = Len(priority) + 1
    BY <1>4, AppendIsConcat, AppendProperties DEF QueuesOK
  <1>7. QueuesOK'
    <2>1. Len(priority) \in Nat /\ PrioritySize \in Nat
      BY MaintenanceAssumption DEF QueuesOK
    <2>. QED BY <1>5, <1>6, <2>1 DEF QueuesOK
  <1>8. <<x>> \in Seq(Commands)
    BY <1>4
  <1>9. Line' = priority \o (<<x>> \o pendingMaintenance)
    BY <1>5, <1>6, <1>8, ConcatAssociative DEF QueuesOK, Line
  <1>. QED BY <1>2, <1>3, <1>4, <1>7, <1>9 DEF x, c

\* A command that issues is the first one on its way.
LEMMA IssueLine ==
  ASSUME NEW c, Issue(c), UNCHANGED pendingMaintenance, QueuesOK
  PROVE  /\ QueuesOK' /\ Head(priority) \in Commands
         /\ Head(priority).cmd = c
         /\ Line = <<Head(priority)>> \o Line'
  <1>. DEFINE h == Head(priority)
              t == Tail(priority)
  <1>1. /\ h \in Commands /\ t \in Seq(Commands) /\ priority = <<h>> \o t
        /\ Len(t) = Len(priority) - 1
    BY SplitFirst DEF Issue, QueuesOK
  <1>2. priority' = t /\ h.cmd = c
    BY DEF Issue
  <1>. HIDE DEF h, t
  <1>3. QueuesOK'
    <2>1. Len(priority) \in Nat /\ PrioritySize \in Nat
      BY MaintenanceAssumption DEF QueuesOK
    <2>. QED BY <1>1, <1>2, <2>1 DEF QueuesOK
  <1>4. <<h>> \in Seq(Commands)
    BY <1>1
  <1>5. Line = <<h>> \o Line'
    BY <1>1, <1>2, <1>4, ConcatAssociative DEF Line, QueuesOK
  <1>. QED BY <1>1, <1>2, <1>3, <1>5 DEF h

\* A batch is so many refreshes of one rank and of no other.
LEMMA BatchOf ==
  ASSUME NEW r \in Rank, RefreshTypeOK
  PROVE  /\ Batch(r) \in Seq(Commands) /\ Len(Batch(r)) = BatchSize
         /\ \A i \in 1 .. BatchSize :
              /\ Batch(r)[i].cmd = "REF" /\ Batch(r)[i].rank = r
              /\ ~AllBank => Batch(r)[i].slot = cursor[r]
  <1>. DEFINE s(i) == IF AllBank THEN (i - 1) % Sids ELSE cursor[r]
              b == [i \in 1 .. BatchSize |-> Refreshes(r, s(i))]
  <1>1. Batch(r) = b
    BY DEF Batch
  <1>2. ASSUME NEW i \in 1 .. BatchSize PROVE s(i) \in 0 .. Slots - 1
    <2>1. cursor[r] \in 0 .. Slots - 1
      BY DEF RefreshTypeOK
    <2>2. (i - 1) % Sids \in 0 .. Sids - 1
      BY SizesAreNatural, RefreshAssumption
    <2>3. Sids <= Slots
      <3>1. \A m, n \in Nat \ {0} : m <= m * n
        BY SMT
      <3>. QED BY <3>1, RefreshAssumption DEF Slots
    <2>4. (i - 1) % Sids \in 0 .. Slots - 1
      BY <2>2, <2>3, SizesAreNatural, RefreshAssumption
    <2>. QED BY <2>1, <2>4
  <1>3. \A i \in 1 .. BatchSize :
          /\ Refreshes(r, s(i)) \in Commands
          /\ Refreshes(r, s(i)).cmd = "REF" /\ Refreshes(r, s(i)).rank = r
          /\ Refreshes(r, s(i)).slot = s(i)
    BY <1>2, RefreshKinds
  <1>4. BatchSize \in Nat
    BY SizesAreNatural
  <1>5. b \in Seq(Commands) /\ Len(b) = BatchSize
    <2>1. b \in [1 .. BatchSize -> Commands]
      BY <1>3
    <2>. HIDE DEF b
    <2>. QED BY <1>4, <2>1
  <1>6. \A i \in 1 .. BatchSize :
           b[i].cmd = "REF" /\ b[i].rank = r /\ (~AllBank => b[i].slot = cursor[r])
    BY <1>3
  <1>. HIDE DEF b
  <1>. QED BY <1>1, <1>5, <1>6

\* schedule_refresh() adds a batch at the end of the line or nothing.
LEMMA ScheduleLine ==
  ASSUME ScheduleRefresh, QueuesOK, RefreshTypeOK
  PROVE  /\ QueuesOK' /\ priority' = priority
         /\ \/ /\ pendingMaintenance' = pendingMaintenance
               /\ cursor' = cursor /\ outstanding' = outstanding
            \/ \E r \in Rank : Seed(r) /\ Line' = Line \o Batch(r)
  <1>1. priority' = priority
    BY DEF ScheduleRefresh
  <1>2. CASE UNCHANGED pendingMaintenance
             /\ ((\E r \in Rank : Postpone(r, Ordinary)) \/ Rest(Ordinary, Quiet))
    BY <1>1, <1>2 DEF QueuesOK, Postpone, Rest
  <1>3. CASE \E r \in Rank :
               /\ Repay(r, Ordinary) \/ PullIn(r, Ordinary, Quiet)
               /\ pendingMaintenance' = pendingMaintenance \o Batch(r)
    <2>1. PICK r \in Rank :
               /\ Repay(r, Ordinary) \/ PullIn(r, Ordinary, Quiet)
               /\ pendingMaintenance' = pendingMaintenance \o Batch(r)
      BY <1>3
    <2>2. Seed(r)
      BY <2>1 DEF Repay, PullIn
    <2>3. Batch(r) \in Seq(Commands)
      BY BatchOf
    <2>4. pendingMaintenance' \in Seq(Commands)
      BY <2>1, <2>3, ConcatProperties DEF QueuesOK
    <2>5. Line' = Line \o Batch(r)
      BY <1>1, <2>1, <2>3, ConcatAssociative DEF QueuesOK, Line
    <2>. QED BY <1>1, <2>2, <2>4, <2>5 DEF QueuesOK
  <1>. QED BY <1>2, <1>3 DEF ScheduleRefresh

-----------------------------------------------------------------------------
(* Nothing is lost or repeated: CommandsKept.                              *)
HowMany(line, C) == Cardinality(From(line, 1, C))
Submitted == {i \in 1 .. sent : setup.commands[i] = "MRW"}

\* How many of a class a sequence holds.
LEMMA CountSplit ==
  ASSUME NEW s \in Seq(Commands), NEW t \in Seq(Commands), NEW C
  PROVE  HowMany(s \o t, C) = HowMany(s, C) + HowMany(t, C)
  <1>1. 1 \in 1 .. Len(s) + 1
    OBVIOUS
  <1>. QED BY <1>1, CountConcat DEF HowMany

LEMMA CountOne ==
  ASSUME NEW x \in Commands, NEW C, x \in C
  PROVE  HowMany(<<x>>, C) = 1 /\ <<x>> \in Seq(Commands)
  <1>. DEFINE y == <<x>>
  <1>1. /\ y \in Seq(Commands) /\ Len(y) = 1
        /\ 1 \in 1 .. Len(y) + 1 /\ \A i \in DOMAIN y : y[i] \in C
    OBVIOUS
  <1>. HIDE DEF y
  <1>2. Cardinality(From(y, 1, C)) = Len(y) + 1 - 1
    BY <1>1, CountAll
  <1>. QED BY <1>1, <1>2 DEF HowMany, y

LEMMA HowManyType ==
  ASSUME NEW s \in Seq(Commands), NEW C
  PROVE  HowMany(s, C) \in Nat
  BY FromFinite DEF HowMany

LEMMA CountInserted ==
  ASSUME NEW p \in Seq(Commands), NEW q \in Seq(Commands),
         NEW x \in Commands, NEW C, x \in C
  PROVE  HowMany(p \o (<<x>> \o q), C) = HowMany(p \o q, C) + 1
  <1>. DEFINE y == <<x>>
  <1>1. y \in Seq(Commands) /\ HowMany(y, C) = 1
    BY CountOne
  <1>. HIDE DEF y
  <1>2. y \o q \in Seq(Commands)
    BY <1>1, ConcatProperties
  <1>3. /\ HowMany(p \o (y \o q), C) = HowMany(p, C) + HowMany(y \o q, C)
        /\ HowMany(y \o q, C) = HowMany(y, C) + HowMany(q, C)
        /\ HowMany(p \o q, C) = HowMany(p, C) + HowMany(q, C)
    BY <1>1, <1>2, CountSplit, ZenonT(60)
  <1>4. HowMany(p, C) \in Nat /\ HowMany(q, C) \in Nat
    BY HowManyType
  <1>. QED BY <1>1, <1>3, <1>4 DEF y

\* The MRW commands submitted so far, and the one a step submits.
LEMMA SubmittedCount ==
  ASSUME sent \in Nat
  PROVE  /\ Cardinality(Submitted) \in 0 .. sent
         /\ SubmitControl =>
              Cardinality(Submitted') = Cardinality(Submitted)
                + (IF setup.commands[sent + 1] = "MRW" THEN 1 ELSE 0)
  <1>1. IsFiniteSet(1 .. sent) /\ Cardinality(1 .. sent) = sent
    BY FS_Interval
  <1>2. /\ IsFiniteSet(Submitted) /\ Cardinality(Submitted) <= sent
        /\ Cardinality(Submitted) \in Nat
    BY <1>1, FS_Subset, FS_CardinalityType DEF Submitted
  <1>3. ASSUME SubmitControl
        PROVE  Cardinality(Submitted') = Cardinality(Submitted)
                + (IF setup.commands[sent + 1] = "MRW" THEN 1 ELSE 0)
    <2>1. sent' = sent + 1 /\ setup' = setup
      BY <1>3 DEF SubmitControl
    <2>2. 1 .. sent + 1 = (1 .. sent) \cup {sent + 1}
      OBVIOUS
    <2>3. CASE setup.commands[sent + 1] = "MRW"
      <3>1. Submitted' = Submitted \cup {sent + 1} /\ sent + 1 \notin Submitted
        BY <2>1, <2>2, <2>3 DEF Submitted
      <3>2. Cardinality(Submitted \cup {sent + 1}) = Cardinality(Submitted) + 1
        BY <1>2, <3>1, FS_AddElement
      <3>. QED BY <2>3, <3>1, <3>2
    <2>4. CASE setup.commands[sent + 1] # "MRW"
      <3>1. Submitted' = Submitted
        BY <2>1, <2>2, <2>4 DEF Submitted
      <3>. QED BY <1>2, <2>4, <3>1
    <2>. QED BY <2>3, <2>4
  <1>. QED BY <1>2, <1>3

\* CommandsKept in the words of the lemmas.
LineKept ==
  /\ \A r \in Rank : HowMany(Line, RefreshesOf(r)) = outstanding[r]
  /\ HowMany(Line, RegisterWrites) = Cardinality(Submitted) - written

\* The two forms agree.
LEMMA KeptIsCounted == CommandsKept <=> LineKept
  BY DEF CommandsKept, LineKept, HowMany, Submitted

\* The two classes that CommandsKept counts hold no exit and no entry.
LEMMA ClassKinds ==
  /\ \A r \in Rank : /\ \A q \in RefreshesOf(r) : ~IsExit(q) /\ q.cmd = "REF"
                     /\ Command("PDX") \notin RefreshesOf(r)
                     /\ AutomaticEntry \notin RefreshesOf(r)
  /\ \A q \in RegisterWrites : ~IsExit(q) /\ q.cmd = "MRW"
  /\ Command("PDX") \notin RegisterWrites
  /\ AutomaticEntry \notin RegisterWrites
  <1>1. \A r \in Rank : \A q \in RefreshesOf(r) : q.cmd = "REF"
    BY DEF RefreshesOf, IsRefreshOf
  <1>2. \A q \in RegisterWrites : q.cmd = "MRW"
    BY DEF RegisterWrites, Command
  <1>3. Command("PDX").cmd = "PDX" /\ AutomaticEntry.cmd = "SREFEN"
    BY DEF Command, AutomaticEntry
  <1>. QED BY <1>1, <1>2, <1>3 DEF IsExit

\* What issues or is submitted is counted where it leaves or joins.
LEMMA SameKeeps ==
  ASSUME QueuesOK, QueuesOK', NEW C, SameOrder(Line, Line', C)
  PROVE  HowMany(Line', C) = HowMany(Line, C)
  <1>. DEFINE s == Line
              t == Line'
  <1>1. s \in Seq(Commands)
    BY LineType
  <1>2. t \in Seq(Commands)
    BY ConcatProperties DEF QueuesOK, Line
  <1>3. SameOrder(s, t, C)
    OBVIOUS
  <1>. HIDE DEF s, t
  <1>4. Cardinality(From(t, 1, C)) = Cardinality(From(s, 1, C))
    BY <1>1, <1>2, <1>3, SameCounts
  <1>. QED BY <1>4 DEF s, t, HowMany

\* The orders of a class pass by.
Passes(C) == SameOrder(Line, Line', C)

\* The steps that neither submit nor issue a refresh or an MRW.
Shuffles == \/ Submit \/ Tick \/ Service \/ EndTick
         \/ IssuePDE \/ IssuePDX \/ IssueSREFEN \/ IssueSREFEX

\* Issuing a command passes by every class it is not of.
LEMMA IssuePasses ==
  ASSUME QueuesOK, NEW c, Issue(c), UNCHANGED pendingMaintenance,
         NEW C, Head(priority) \notin C \/ \A q \in C : q.cmd # c
  PROVE  QueuesOK' /\ Passes(C)
  <1>1. /\ QueuesOK' /\ Head(priority) \in Commands /\ Head(priority) \notin C
        /\ Line = <<Head(priority)>> \o Line'
    BY IssueLine
  <1>2. Line' \in Seq(Commands)
    BY <1>1, ConcatProperties DEF QueuesOK, Line
  <1>. DEFINE l == Line'
  <1>3. l \in Seq(Commands) /\ Line = <<Head(priority)>> \o l
    BY <1>1, <1>2
  <1>. HIDE DEF l
  <1>4. SameOrder(Line, l, C)
    BY <1>1, <1>3, FrontSame
  <1>. QED BY <1>1, <1>4 DEF Passes, l

\* So a class of REF or MRW commands passes all of these steps by.
LEMMA ShufflesPass ==
  ASSUME Shuffles, QueuesOK, NEW C,
         \A q \in C : q.cmd \in {"REF", "MRW"}
  PROVE  QueuesOK' /\ Passes(C)
  <1>1. /\ \A q \in C : ~IsExit(q)
        /\ Command("PDX") \notin C /\ AutomaticEntry \notin C
    BY DEF IsExit, Command, AutomaticEntry
  <1>2. CASE Submit
    BY <1>1, <1>2, SubmitType, SubmitSame DEF Passes
  <1>3. CASE Tick
    BY <1>1, <1>3, TickSame DEF Passes
  <1>4. CASE Service
    BY <1>1, <1>4, ServiceSame DEF Passes
  <1>5. CASE EndTick
    BY <1>1, <1>5, EndTickLine, EndTickSame DEF Passes
  <1>6. CASE IssuePDE
    <2>1. Issue("PDE") /\ UNCHANGED pendingMaintenance /\ \A q \in C : q.cmd # "PDE"
      BY <1>6 DEF IssuePDE
    <2>. QED BY <2>1, IssuePasses
  <1>7. CASE IssuePDX
    <2>1. Issue("PDX") /\ UNCHANGED pendingMaintenance /\ \A q \in C : q.cmd # "PDX"
      BY <1>7 DEF IssuePDX
    <2>. QED BY <2>1, IssuePasses
  <1>8. CASE IssueSREFEN
    <2>1. Issue("SREFEN") /\ UNCHANGED pendingMaintenance /\ \A q \in C : q.cmd # "SREFEN"
      BY <1>8 DEF IssueSREFEN
    <2>. QED BY <2>1, IssuePasses
  <1>9. CASE IssueSREFEX
    <2>1. Issue("SREFEX") /\ UNCHANGED pendingMaintenance /\ \A q \in C : q.cmd # "SREFEX"
      BY <1>9 DEF IssueSREFEX
    <2>. QED BY <2>1, IssuePasses
  <1>. QED BY <1>2, <1>3, <1>4, <1>5, <1>6, <1>7, <1>8, <1>9 DEF Shuffles

\* They leave the ledger and the control sequence alone.
LEMMA ShufflesUnchanged ==
  Shuffles => UNCHANGED <<outstanding, cursor, setup, sent, written>>
  BY DEF Shuffles, Submit, Tick, Service, EndTick, IssuePDE, IssuePDX, IssueSREFEN,
         IssueSREFEX, refreshVars, managerVars, frontVars, Clock, SetSelfRefresh

LeavesLine == \/ Activate \/ FinishActive \/ HitOpenRow \/ IssueNone
        \/ UNCHANGED vars

\* They change neither the line nor what is counted of it.
LEMMA LeavesLineAlone ==
  LeavesLine => UNCHANGED <<queues, outstanding, cursor, setup, sent, written>>
  BY DEF LeavesLine, Activate, FinishActive, HitOpenRow, IssueNone, vars, queues,
         refreshVars, managerVars, frontVars

\* Every step is of one of these kinds.
LEMMA StepCases ==
  [Next]_vars <=> \/ LeavesLine \/ Shuffles \/ SubmitControl \/ ScheduleRefresh
                  \/ IssueRefresh \/ IssueMRW
  BY DEF Next, IssueHead, LeavesLine, Shuffles

\* The head of Priority is the oldest refresh of its rank.
LEMMA RefreshLeaves ==
  ASSUME IssueRefresh, TypeOK
  PROVE  \E r \in Rank :
           /\ Head(priority) \in RefreshesOf(r) /\ Serve(r) /\ QueuesOK'
           /\ Line' \in Seq(Commands)
           /\ Line = <<Head(priority)>> \o Line'
           /\ \A s \in Rank \ {r} : Passes(RefreshesOf(s))
           /\ Passes(RegisterWrites)
           /\ UNCHANGED <<cursor, setup, sent, written>>
  <1>1. QueuesOK
    BY DEF TypeOK, QueuesOK
  <1>2. Issue("REF") /\ UNCHANGED pendingMaintenance
    BY DEF IssueRefresh
  <1>3. PICK r \in Rank : IsRefreshOf(Head(priority), r) /\ Serve(r)
    BY DEF IssueRefresh
  <1>4. /\ QueuesOK' /\ Head(priority) \in Commands
        /\ Line = <<Head(priority)>> \o Line'
    BY <1>1, <1>2, IssueLine
  <1>5. Line' \in Seq(Commands)
    BY <1>4, ConcatProperties DEF QueuesOK, Line
  <1>6. Head(priority) \in RefreshesOf(r)
    BY <1>3, <1>4 DEF RefreshesOf
  <1>7. \A s \in Rank \ {r} : Head(priority) \notin RefreshesOf(s)
    BY <1>3 DEF RefreshesOf, IsRefreshOf
  <1>8. \A q \in RegisterWrites : q.cmd # "REF"
    BY ClassKinds
  <1>9. \A s \in Rank \ {r} : Passes(RefreshesOf(s))
    BY <1>1, <1>2, <1>7, IssuePasses
  <1>10. Passes(RegisterWrites)
    BY <1>1, <1>2, <1>8, IssuePasses
  <1>11. UNCHANGED <<cursor, setup, sent, written>>
    BY <1>3 DEF IssueRefresh, Serve, managerVars, frontVars
  <1>. QED BY <1>3, <1>4, <1>5, <1>6, <1>9, <1>10, <1>11

\* The MRW that issues leaves the line and is counted as written.
LEMMA WriteLeaves ==
  ASSUME IssueMRW, TypeOK
  PROVE  /\ QueuesOK' /\ Line' \in Seq(Commands)
         /\ Head(priority) \in RegisterWrites /\ Head(priority) \in Commands
         /\ Line = <<Head(priority)>> \o Line'
         /\ \A s \in Rank : Passes(RefreshesOf(s))
         /\ UNCHANGED <<outstanding, cursor, setup, sent>>
         /\ written' = written + 1
  <1>1. QueuesOK
    BY DEF TypeOK, QueuesOK
  <1>2. Issue("MRW") /\ UNCHANGED pendingMaintenance
    BY DEF IssueMRW
  <1>3. /\ QueuesOK' /\ Head(priority) \in Commands
        /\ Head(priority).cmd = "MRW"
        /\ Line = <<Head(priority)>> \o Line'
    BY <1>1, <1>2, IssueLine
  <1>4. Line' \in Seq(Commands)
    BY <1>3, ConcatProperties DEF QueuesOK, Line
  <1>5. Head(priority) \in RegisterWrites
    BY <1>3, KindsOf DEF RegisterWrites
  <1>6. \A s \in Rank : Passes(RefreshesOf(s))
    <2>. TAKE s \in Rank
    <2>1. \A q \in RefreshesOf(s) : q.cmd # "MRW"
      BY ClassKinds
    <2>. QED BY <1>1, <1>2, <2>1, IssuePasses
  <1>7. UNCHANGED <<outstanding, cursor, setup, sent>> /\ written' = written + 1
    BY DEF IssueMRW, refreshVars, managerVars
  <1>. QED BY <1>3, <1>4, <1>5, <1>6, <1>7

\* A control command is no refresh.
LEMMA ControlJoins ==
  ASSUME SubmitControl, TypeOK
  PROVE  LET c == setup.commands[sent + 1]
         IN  /\ c \in Controls /\ QueuesOK'
             /\ sent + 1 \in 1 .. Len(setup.commands)
             /\ \A C : Command(c) \notin C => Passes(C)
             /\ \A r \in Rank : Passes(RefreshesOf(r))
             /\ HowMany(Line', RegisterWrites)
                  = HowMany(Line, RegisterWrites)
                    + (IF c = "MRW" THEN 1 ELSE 0)
             /\ UNCHANGED <<outstanding, cursor, setup, written>>
             /\ sent' = sent + 1
  <1>. DEFINE c == setup.commands[sent + 1]
              x == Command(c)
  <1>1. QueuesOK
    BY DEF TypeOK, QueuesOK
  <1>2. setup \in Setups /\ sent \in 0 .. Len(setup.commands)
    BY DEF TypeOK
  <1>3. /\ c \in Controls /\ sent + 1 \in 1 .. Len(setup.commands)
        /\ x \in Commands /\ QueuesOK'
        /\ Line' = priority \o (<<x>> \o pendingMaintenance)
    BY <1>1, <1>2, SubmitControlLine
  <1>4. x.cmd = c
    BY <1>3, ControlKinds
  <1>5. UNCHANGED <<outstanding, cursor, setup, written>> /\ sent' = sent + 1
    BY DEF SubmitControl, refreshVars, managerVars
  <1>. HIDE DEF x, c
  <1>6. \A C : x \notin C => Passes(C)
    <2>. TAKE C
    <2>. HAVE x \notin C
    <2>. QED BY <1>1, <1>3, OtherSame DEF QueuesOK, Line, Passes
  <1>7. \A r \in Rank : x \notin RefreshesOf(r)
    BY <1>3, <1>4, ClassKinds DEF Controls
  <1>8. Line \in Seq(Commands) /\ HowMany(Line, RegisterWrites) \in Nat
    BY <1>1, LineType, HowManyType
  <1>9. CASE c = "MRW"
    <2>1. x \in RegisterWrites
      BY <1>9 DEF RegisterWrites, x
    <2>2. HowMany(Line', RegisterWrites) = HowMany(Line, RegisterWrites) + 1
      BY <1>1, <1>3, <2>1, CountInserted DEF QueuesOK, Line
    <2>. QED BY <1>3, <1>5, <1>6, <1>7, <1>9, <2>2 DEF c, x
  <1>10. CASE c # "MRW"
    <2>1. x \notin RegisterWrites
      BY <1>4, <1>10, ClassKinds
    <2>2. HowMany(Line', RegisterWrites) = HowMany(Line, RegisterWrites)
      BY <1>1, <1>3, <1>6, <2>1, SameKeeps DEF Passes
    <2>. QED BY <1>3, <1>5, <1>6, <1>7, <1>8, <1>10, <2>2 DEF c, x
  <1>. QED BY <1>9, <1>10

\* What the lemmas need of TypeOK.
LEMMA TypeQueues == TypeOK => QueuesOK /\ RefreshTypeOK
  BY DEF TypeOK, QueuesOK

\* A batch joins the line and the ledger together.
LEMMA BatchJoins ==
  ASSUME ScheduleRefresh, TypeOK
  PROVE  /\ QueuesOK' /\ UNCHANGED <<setup, sent, written>>
         /\ \A C : (\A q \in C : q.cmd # "REF") => Passes(C)
         /\ \/ /\ \A s \in Rank : Passes(RefreshesOf(s))
               /\ UNCHANGED <<outstanding, cursor>>
            \/ \E r \in Rank :
                 /\ Seed(r) /\ Line' = Line \o Batch(r)
                 /\ \A s \in Rank \ {r} : Passes(RefreshesOf(s))
  <1>1. QueuesOK /\ RefreshTypeOK /\ Line \in Seq(Commands)
    BY TypeQueues, LineType
  <1>2. UNCHANGED <<setup, sent, written>>
    BY DEF ScheduleRefresh, frontVars
  <1>3. QueuesOK' /\ priority' = priority
    BY <1>1, ScheduleLine
  <1>4. CASE /\ pendingMaintenance' = pendingMaintenance
             /\ cursor' = cursor /\ outstanding' = outstanding
    <2>1. Line' = Line
      BY <1>3, <1>4 DEF Line
    <2>2. \A C : Passes(C)
      BY <1>1, <2>1, SameRefl DEF Passes
    <2>. QED BY <1>2, <1>3, <1>4, <2>2
  <1>5. CASE \E r \in Rank : Seed(r) /\ Line' = Line \o Batch(r)
    <2>1. PICK r \in Rank : Seed(r) /\ Line' = Line \o Batch(r)
      BY <1>5
    <2>. DEFINE b == Batch(r)
    <2>2. /\ b \in Seq(Commands) /\ DOMAIN b = 1 .. BatchSize
          /\ \A i \in 1 .. BatchSize : b[i].cmd = "REF" /\ b[i].rank = r
      BY <1>1, BatchOf
    <2>. HIDE DEF b
    <2>3. ASSUME NEW C, \A i \in DOMAIN b : b[i] \notin C PROVE Passes(C)
      <3>1. Places(b, C) = {} /\ Places(<<>>, C) = {}
        BY <2>2, <2>3, CountNone DEF Places
      <3>2. SameOrder(<<>>, b, C) /\ SameOrder(Line, Line, C)
        BY <1>1, <3>1, SameNone, SameRefl
      <3>3. <<>> \in Seq(Commands) /\ Line \o <<>> = Line
        BY <1>1, ConcatEmptySeq
      <3>4. SameOrder(Line \o <<>>, Line \o b, C)
        BY <1>1, <2>2, <3>2, <3>3, SameConcat
      <3>. QED BY <2>1, <3>3, <3>4 DEF Passes, b
    <2>4. ASSUME NEW C, \A q \in C : q.cmd # "REF"
          PROVE  \A i \in DOMAIN b : b[i] \notin C
      BY <2>2, <2>4
    <2>5. \A s \in Rank \ {r} : \A i \in DOMAIN b : b[i] \notin RefreshesOf(s)
      BY <2>2 DEF RefreshesOf, IsRefreshOf
    <2>. QED BY <1>2, <1>3, <2>1, <2>3, <2>4, <2>5
  <1>. QED BY <1>1, <1>4, <1>5, ScheduleLine

\* The inductive step of CommandsKept.
LEMMA KeptStep ==
  ASSUME TypeOK, LineKept, [Next]_vars
  PROVE  LineKept'
  <1>1. QueuesOK /\ RefreshTypeOK /\ Line \in Seq(Commands)
    BY TypeQueues, LineType
  <1>2. ASSUME QueuesOK', NEW C, Passes(C)
        PROVE  HowMany(Line', C) = HowMany(Line, C)
    BY <1>1, <1>2, SameKeeps DEF Passes
  <1>3. CASE LeavesLine
    <2>1. Line' = Line
      BY <1>3, LeavesLineAlone DEF Line, queues
    <2>. QED BY <1>3, <2>1, LeavesLineAlone DEF LineKept, Submitted
  <1>4. CASE Shuffles
    <2>1. /\ \A r \in Rank : QueuesOK' /\ Passes(RefreshesOf(r))
          /\ QueuesOK' /\ Passes(RegisterWrites)
      BY <1>1, <1>4, ShufflesPass, ClassKinds
    <2>2. /\ \A r \in Rank :
               HowMany(Line', RefreshesOf(r)) = HowMany(Line, RefreshesOf(r))
          /\ HowMany(Line', RegisterWrites) = HowMany(Line, RegisterWrites)
      BY <1>2, <2>1
    <2>. QED BY <1>4, <2>2, ShufflesUnchanged DEF LineKept, Submitted
  <1>5. CASE SubmitControl
    <2>1. \A r \in Rank :
            HowMany(Line', RefreshesOf(r)) = HowMany(Line, RefreshesOf(r))
      BY <1>2, <1>5, ControlJoins
    <2>2. sent \in Nat /\ written \in Int /\ Cardinality(Submitted) \in Int
      BY SubmittedCount DEF TypeOK
    <2>3. Cardinality(Submitted') = Cardinality(Submitted)
            + (IF setup.commands[sent + 1] = "MRW" THEN 1 ELSE 0)
      BY <1>5, <2>2, SubmittedCount
    <2>4. HowMany(Line', RegisterWrites) = HowMany(Line, RegisterWrites)
            + (IF setup.commands[sent + 1] = "MRW" THEN 1 ELSE 0)
      BY <1>5, ControlJoins
    <2>5. UNCHANGED <<outstanding, written>>
      BY <1>5, ControlJoins
    <2>6. HowMany(Line, RegisterWrites) = Cardinality(Submitted) - written
      BY DEF LineKept
    <2>7. HowMany(Line', RegisterWrites) = Cardinality(Submitted') - written'
      BY <2>2, <2>3, <2>4, <2>5, <2>6
    <2>. QED BY <2>1, <2>5, <2>7 DEF LineKept
  <1>6. CASE ScheduleRefresh
    <2>1. QueuesOK' /\ UNCHANGED <<setup, sent, written>> /\ Passes(RegisterWrites)
      <3>1. \A q \in RegisterWrites : q.cmd # "REF"
        BY ClassKinds
      <3>. QED BY <1>6, <3>1, BatchJoins
    <2>2. HowMany(Line', RegisterWrites) = HowMany(Line, RegisterWrites)
      BY <1>2, <2>1
    <2>3. Submitted' = Submitted
      BY <2>1 DEF Submitted
    <2>4. \A s \in Rank : HowMany(Line', RefreshesOf(s)) = outstanding'[s]
      <3>1. CASE /\ \A s \in Rank : Passes(RefreshesOf(s))
                 /\ UNCHANGED <<outstanding, cursor>>
        BY <1>2, <2>1, <3>1 DEF LineKept
      <3>2. ASSUME NEW r \in Rank, Seed(r), Line' = Line \o Batch(r),
                   \A s \in Rank \ {r} : Passes(RefreshesOf(s))
            PROVE  \A s \in Rank : HowMany(Line', RefreshesOf(s)) = outstanding'[s]
        <4>1. outstanding' = [outstanding EXCEPT ![r] = @ + BatchSize]
          BY <3>2 DEF Seed
        <4>2. outstanding \in [Rank -> Nat]
          BY <1>1 DEF RefreshTypeOK
        <4>3. \A s \in Rank \ {r} : HowMany(Line', RefreshesOf(s)) = outstanding'[s]
          BY <1>2, <2>1, <3>2, <4>1, <4>2 DEF LineKept
        <4>. DEFINE b == Batch(r)
        <4>4. /\ b \in Seq(Commands) /\ Len(b) = BatchSize
              /\ \A i \in 1 .. BatchSize : b[i].cmd = "REF" /\ b[i].rank = r
          BY <1>1, BatchOf
        <4>. HIDE DEF b
        <4>5. \A i \in DOMAIN b : b[i] \in RefreshesOf(r)
          <5>1. \A i \in DOMAIN b : i \in 1 .. Len(b) /\ b[i] \in Commands
            BY <4>4
          <5>. QED BY <4>4, <5>1 DEF RefreshesOf, IsRefreshOf
        <4>6. BatchSize \in Nat /\ 1 \in 1 .. Len(b) + 1
          BY <4>4, SizesAreNatural
        <4>7. HowMany(b, RefreshesOf(r)) = BatchSize
          <5>1. Cardinality(From(b, 1, RefreshesOf(r))) = Len(b) + 1 - 1
            BY <4>4, <4>5, <4>6, CountAll
          <5>. QED BY <4>4, <4>6, <5>1 DEF HowMany
        <4>8. HowMany(Line', RefreshesOf(r))
                = HowMany(Line, RefreshesOf(r)) + HowMany(b, RefreshesOf(r))
          BY <1>1, <3>2, <4>4, CountSplit DEF b
        <4>9. HowMany(Line', RefreshesOf(r)) = outstanding'[r]
          BY <4>1, <4>2, <4>7, <4>8 DEF LineKept
        <4>. QED BY <4>3, <4>9
      <3>. QED BY <1>6, <3>1, <3>2, BatchJoins
    <2>. QED BY <2>1, <2>2, <2>3, <2>4 DEF LineKept
  <1>7. ASSUME NEW x \in Commands, NEW l \in Seq(Commands), NEW C, x \in C
        PROVE  HowMany(<<x>> \o l, C) = HowMany(l, C) + 1
    <2>1. HowMany(<<x>>, C) = 1 /\ <<x>> \in Seq(Commands)
      BY <1>7, CountOne
    <2>2. HowMany(<<x>> \o l, C) = 1 + HowMany(l, C)
      BY <2>1, CountSplit
    <2>. QED BY <2>2, HowManyType
  <1>8. CASE IssueRefresh
    <2>1. PICK r \in Rank :
           /\ Head(priority) \in RefreshesOf(r) /\ Serve(r) /\ QueuesOK'
           /\ Line' \in Seq(Commands)
           /\ Line = <<Head(priority)>> \o Line'
           /\ \A s \in Rank \ {r} : Passes(RefreshesOf(s))
           /\ Passes(RegisterWrites)
           /\ UNCHANGED <<cursor, setup, sent, written>>
      BY <1>8, RefreshLeaves
    <2>2. HowMany(Line', RegisterWrites) = Cardinality(Submitted') - written'
      <3>1. Submitted' = Submitted
        BY <2>1 DEF Submitted
      <3>2. HowMany(Line', RegisterWrites) = HowMany(Line, RegisterWrites)
        BY <1>2, <2>1
      <3>. QED BY <2>1, <3>1, <3>2 DEF LineKept
    <2>3. outstanding' = [outstanding EXCEPT ![r] = @ - 1] /\ outstanding \in [Rank -> Nat]
      BY <1>1, <2>1 DEF Serve, RefreshTypeOK
    <2>4. \A s \in Rank \ {r} : HowMany(Line', RefreshesOf(s)) = outstanding'[s]
      BY <1>2, <2>1, <2>3 DEF LineKept
    <2>5. HowMany(Line, RefreshesOf(r)) = HowMany(Line', RefreshesOf(r)) + 1
      <3>1. Head(priority) \in Commands
        BY <2>1 DEF RefreshesOf
      <3>. DEFINE l == Line'
      <3>2. l \in Seq(Commands) /\ Line = <<Head(priority)>> \o l
        BY <2>1
      <3>. HIDE DEF l
      <3>3. HowMany(Line, RefreshesOf(r)) = HowMany(l, RefreshesOf(r)) + 1
        BY <1>7, <2>1, <3>1, <3>2
      <3>. QED BY <3>3 DEF l
    <2>6. HowMany(Line', RefreshesOf(r)) = outstanding'[r]
      <3>1. HowMany(Line', RefreshesOf(r)) \in Nat
        BY <2>1, HowManyType
      <3>. QED BY <2>3, <2>5, <3>1 DEF LineKept
    <2>. QED BY <2>2, <2>4, <2>6 DEF LineKept
  <1>9. CASE IssueMRW
    <2>1. /\ QueuesOK' /\ Line' \in Seq(Commands)
          /\ Head(priority) \in RegisterWrites /\ Head(priority) \in Commands
          /\ Line = <<Head(priority)>> \o Line'
          /\ \A s \in Rank : Passes(RefreshesOf(s))
          /\ UNCHANGED <<outstanding, cursor, setup, sent>>
          /\ written' = written + 1
      BY <1>9, WriteLeaves
    <2>2. \A s \in Rank : HowMany(Line', RefreshesOf(s)) = outstanding'[s]
      BY <1>2, <2>1 DEF LineKept
    <2>3. Submitted' = Submitted
      BY <2>1 DEF Submitted
    <2>4. HowMany(Line, RegisterWrites) = HowMany(Line', RegisterWrites) + 1
      <3>. DEFINE l == Line'
      <3>1. l \in Seq(Commands) /\ Line = <<Head(priority)>> \o l
        BY <2>1
      <3>. HIDE DEF l
      <3>2. HowMany(Line, RegisterWrites) = HowMany(l, RegisterWrites) + 1
        BY <1>7, <2>1, <3>1
      <3>. QED BY <3>2 DEF l
    <2>5. /\ HowMany(Line', RegisterWrites) \in Nat
          /\ written \in Int /\ Cardinality(Submitted) \in Int
      BY <2>1, HowManyType, SubmittedCount DEF TypeOK
    <2>6. HowMany(Line', RegisterWrites) = Cardinality(Submitted') - written'
      BY <2>1, <2>3, <2>4, <2>5 DEF LineKept
    <2>. QED BY <2>2, <2>6 DEF LineKept
  <1>. QED BY <1>3, <1>4, <1>5, <1>6, <1>8, <1>9, StepCases

-----------------------------------------------------------------------------
(* Type correctness.                                                       *)
\* Every step leaves two queues of commands, Priority within its size.
LEMMA QueuesStep ==
  ASSUME TypeOK, [Next]_vars
  PROVE  QueuesOK'
  <1>1. QueuesOK /\ RefreshTypeOK
    BY TypeQueues
  <1>2. CASE LeavesLine
    BY <1>1, <1>2, LeavesLineAlone DEF QueuesOK, queues
  <1>3. CASE Shuffles
    <2>1. \A q \in RegisterWrites : q.cmd \in {"REF", "MRW"}
      BY ClassKinds
    <2>. QED BY <1>1, <1>3, <2>1, ShufflesPass
  <1>. QED BY <1>2, <1>3, StepCases, ControlJoins, BatchJoins, RefreshLeaves,
              WriteLeaves

\* What the rest of the controller keeps besides the queues.
ControlTypeOK ==
  /\ phase \in {"idle", "refresh", "service", "issue", "entry"}
  /\ setup \in Setups
  /\ work \subseteq {"queued", "active", "pending"} /\ openRow \in BOOLEAN
  /\ lowPower \in BOOLEAN /\ powerDown \in BOOLEAN
  /\ exitPending \in {"none", "PDX", "SREFEX"}
  /\ automatic \in BOOLEAN /\ phyLow \in BOOLEAN
  /\ blocked \in Nat /\ idleFor \in 0 .. EntryDelay + 1

CountsTypeOK == sent \in 0 .. Len(setup.commands) /\ written \in 0 .. sent

\* TypeOK is the sum of its parts.
LEMMA TypeParts ==
  TypeOK <=> RefreshTypeOK /\ QueuesOK /\ ControlTypeOK /\ CountsTypeOK
  BY DEF TypeOK, QueuesOK, ControlTypeOK, CountsTypeOK

LEMMA LongerType ==
  ASSUME idleFor \in 0 .. EntryDelay + 1
  PROVE  Longer \in 0 .. EntryDelay + 1
  BY MaintenanceAssumption DEF Longer

\* Every step keeps the parts that are not queues.
LEMMA ControlStep ==
  ASSUME ControlTypeOK, RefreshTypeOK, [Next]_vars
  PROVE  ControlTypeOK'
  <1>. USE DEF ControlTypeOK
  <1>1. CASE Submit
    <2>1. blocked' \in Nat
      BY <1>1, MaintenanceAssumption DEF Submit
    <2>2. exitPending' \in {"none", "PDX", "SREFEX"}
      BY <1>1 DEF Submit, WakeCommand
    <2>3. /\ phase' = phase /\ setup' = setup /\ openRow' = openRow
          /\ powerDown' = powerDown /\ phyLow' = phyLow
          /\ work' \subseteq {"queued", "active", "pending"}
          /\ lowPower' \in BOOLEAN /\ automatic' \in BOOLEAN
      BY <1>1 DEF Submit, frontVars
    <2>4. idleFor' \in 0 .. EntryDelay + 1
      BY <1>1, MaintenanceAssumption DEF Submit
    <2>. QED BY <2>1, <2>2, <2>3, <2>4
  <1>2. CASE SubmitControl
    BY <1>2 DEF SubmitControl, workVars, powerVars
  <1>3. CASE Tick
    <2>1. blocked' \in Nat
      BY <1>3 DEF Tick
    <2>2. idleFor' \in 0 .. EntryDelay + 1
      BY <1>3, LongerType DEF Tick
    <2>3. exitPending' \in {"none", "PDX", "SREFEX"}
      BY <1>3 DEF Tick
    <2>4. /\ phase' \in {"idle", "refresh"} /\ setup' = setup
          /\ work' \subseteq {"queued", "active", "pending"}
          /\ UNCHANGED <<openRow, lowPower, powerDown, automatic, phyLow>>
      BY <1>3 DEF Tick, frontVars
    <2>. QED BY <2>1, <2>2, <2>3, <2>4
  <1>4. CASE ScheduleRefresh
    BY <1>4 DEF ScheduleRefresh, frontVars, workVars, powerVars
  <1>5. CASE Service
    BY <1>5 DEF Service, frontVars, workVars, powerVars
  <1>6. CASE IssueRefresh
    BY <1>6 DEF IssueRefresh, Issue, frontVars, powerVars
  <1>7. CASE IssueMRW
    BY <1>7 DEF IssueMRW, Issue, workVars, powerVars
  <1>8. CASE IssuePDE
    <2>1. setup.behavioral \in BOOLEAN
      BY MaintenanceAssumption
    <2>. QED BY <1>8, <2>1 DEF IssuePDE, Issue, frontVars, workVars
  <1>9. CASE IssuePDX
    BY <1>9 DEF IssuePDX, Issue, ExitDone, frontVars, workVars, RefreshTypeOK
  <1>10. CASE IssueSREFEN
    <2>1. setup.behavioral \in BOOLEAN
      BY MaintenanceAssumption
    <2>. QED BY <1>10, <2>1 DEF IssueSREFEN, Issue, frontVars, workVars
  <1>11. CASE IssueSREFEX
    BY <1>11, MaintenanceAssumption DEF IssueSREFEX, Issue, ExitDone, frontVars, workVars
  <1>12. CASE LeavesLine
    BY <1>12 DEF LeavesLine, Activate, FinishActive, HitOpenRow, IssueNone, CanWork,
                 frontVars, powerVars, workVars, vars
  <1>13. CASE EndTick
    <2>1. idleFor' \in 0 .. EntryDelay + 1
      BY <1>13, LongerType, MaintenanceAssumption DEF EndTick
    <2>2. automatic' \in BOOLEAN /\ lowPower' \in BOOLEAN
      BY <1>13 DEF EndTick
    <2>3. /\ phase' = "idle"
          /\ UNCHANGED <<setup, work, openRow, powerDown, exitPending, blocked,
                        phyLow>>
      BY <1>13 DEF EndTick, frontVars, workVars
    <2>. QED BY <2>1, <2>2, <2>3
  <1>. QED BY <1>1, <1>2, <1>3, <1>4, <1>5, <1>6, <1>7, <1>8, <1>9, <1>10,
              <1>11, <1>12, <1>13, StepCases DEF Shuffles

\* No more MRW commands issue than were submitted: each one that issues is
\* one of the line.
LEMMA CountsStep ==
  ASSUME TypeOK, LineKept, [Next]_vars
  PROVE  CountsTypeOK'
  <1>1. CountsTypeOK /\ QueuesOK /\ Line \in Seq(Commands)
    BY TypeParts, LineType
  <1>2. Len(setup.commands) \in Nat
    <2>1. setup.commands \in Seq(Controls)
      BY MaintenanceAssumption DEF TypeOK
    <2>. QED BY <2>1
  <1>. USE DEF CountsTypeOK
  <1>3. CASE UNCHANGED <<setup, sent, written>>
    BY <1>1, <1>3
  <1>4. CASE SubmitControl
    BY <1>1, <1>2, <1>4, ControlJoins
  \* An MRW that issues is one of those that were submitted.
  <1>5. CASE IssueMRW
    <2>1. /\ Line' \in Seq(Commands)
          /\ Head(priority) \in RegisterWrites /\ Head(priority) \in Commands
          /\ Line = <<Head(priority)>> \o Line'
          /\ UNCHANGED <<setup, sent>> /\ written' = written + 1
      BY <1>5, WriteLeaves
    <2>. DEFINE l == Line'
                h == Head(priority)
    <2>2. HowMany(Line, RegisterWrites) \in Nat \ {0}
      <3>1. l \in Seq(Commands) /\ Line = <<h>> \o l /\ h \in Commands
            /\ h \in RegisterWrites
        BY <2>1
      <3>. HIDE DEF l, h
      <3>2. HowMany(<<h>>, RegisterWrites) = 1 /\ <<h>> \in Seq(Commands)
        BY <3>1, CountOne
      <3>3. HowMany(Line, RegisterWrites) = 1 + HowMany(l, RegisterWrites)
        BY <3>1, <3>2, CountSplit
      <3>4. HowMany(l, RegisterWrites) \in Nat
        BY <3>1, HowManyType
      <3>. QED BY <3>3, <3>4
    <2>3. Cardinality(Submitted) \in 0 .. sent
      BY <1>1, <1>2, SubmittedCount
    <2>4. Cardinality(Submitted) - written \in Nat \ {0}
      BY <2>2 DEF LineKept
    <2>5. written + 1 \in 0 .. sent
      <3>. DEFINE k == Cardinality(Submitted)
      <3>1. /\ k \in 0 .. sent /\ k - written \in Nat \ {0}
            /\ written \in Nat /\ sent \in Nat
        BY <1>1, <1>2, <2>3, <2>4
      <3>. HIDE DEF k
      <3>. QED BY <3>1
    <2>. QED BY <1>1, <2>1, <2>5
  <1>6. CASE IssueRefresh
    BY <1>3, <1>6, RefreshLeaves
  <1>7. CASE LeavesLine \/ Shuffles
    BY <1>3, <1>7, LeavesLineAlone, ShufflesUnchanged
  <1>8. CASE ScheduleRefresh
    BY <1>3, <1>8, BatchJoins
  <1>. QED BY <1>4, <1>5, <1>6, <1>7, <1>8, StepCases

\* The inductive step of TypeOK.
LEMMA ControllerTypeStep ==
  ASSUME TypeOK, LineKept, RefreshTypeOK', [Next]_vars
  PROVE  TypeOK'
  <1>1. RefreshTypeOK /\ ControlTypeOK
    BY TypeParts
  <1>2. QueuesOK' /\ ControlTypeOK' /\ CountsTypeOK'
    BY <1>1, QueuesStep, ControlStep, CountsStep
  <1>. QED BY <1>2 DEF TypeOK, QueuesOK, ControlTypeOK, CountsTypeOK

\* The initial state.
LEMMA KeptInit == MaintenanceInit => TypeOK /\ LineKept
  <1>. SUFFICES ASSUME MaintenanceInit PROVE TypeOK /\ LineKept
    OBVIOUS
  <1>1. RefreshTypeOK
    BY InitHolds DEF MaintenanceInit, RefreshInv
  <1>2. QueuesOK
    <2>1. priority = <<>> /\ pendingMaintenance = <<>>
      BY DEF MaintenanceInit
    <2>2. <<>> \in Seq(Commands) /\ Len(<<>>) = 0 /\ 0 <= PrioritySize
      BY MaintenanceAssumption
    <2>. QED BY <2>1, <2>2 DEF QueuesOK
  <1>3. ControlTypeOK
    <2>1. 0 \in Nat /\ 0 \in 0 .. EntryDelay + 1
      BY MaintenanceAssumption
    <2>. QED BY <2>1 DEF MaintenanceInit, ControlTypeOK
  <1>4. CountsTypeOK
    <2>1. setup.commands \in Seq(Controls)
      BY MaintenanceAssumption DEF MaintenanceInit
    <2>2. Len(setup.commands) \in Nat
      BY <2>1
    <2>. QED BY <2>2 DEF MaintenanceInit, CountsTypeOK
  <1>5. \A C : HowMany(Line, C) = 0
    <2>1. Line = <<>>
      BY DEF MaintenanceInit, Line
    <2>2. \A C : From(<<>>, 1, C) = {}
      BY DEF From
    <2>. QED BY <2>1, <2>2, FS_EmptySet DEF HowMany
  <1>6. Cardinality(Submitted) = 0
    <2>1. sent = 0
      BY DEF MaintenanceInit
    <2>2. Cardinality(Submitted) \in 0 .. sent
      BY <2>1, SubmittedCount
    <2>. QED BY <2>1, <2>2
  <1>7. LineKept
    BY <1>5, <1>6 DEF LineKept, MaintenanceInit, RefreshInit
  <1>. QED BY <1>1, <1>2, <1>3, <1>4, <1>7, TypeParts

-----------------------------------------------------------------------------
(* The bank rotation: RefreshesRotate.                                     *)
\* Modular arithmetic of the bank cursor.
LEMMA ModShift ==
  ASSUME NEW n \in Nat \ {0}, NEW x \in Int
  PROVE  (x - n) % n = x % n
  <1>. DEFINE q == x \div n
              r == x % n
  <1>1. q \in Int /\ r \in 0 .. n - 1 /\ x = q * n + r
    BY SMT
  <1>. HIDE DEF q, r
  <1>2. x - n = (q - 1) * n + r
    BY <1>1, SMT
  <1>3. ((q - 1) * n + r) % n = r
    BY <1>1, SMT
  <1>. QED BY <1>2, <1>3 DEF r

LEMMA ModNext ==
  ASSUME NEW n \in Nat \ {0}, NEW c \in 0 .. n - 1, NEW d \in Int
  PROVE  (((c + 1) % n) - (d + 1)) % n = (c - d) % n
  <1>1. CASE c + 1 < n
    <2>1. (c + 1) % n = c + 1
      BY <1>1, SMT
    <2>2. (c + 1) - (d + 1) = c - d
      OBVIOUS
    <2>. QED BY <2>1, <2>2
  <1>2. CASE c + 1 = n
    <2>1. (c + 1) % n = 0
      BY <1>2, SMT
    <2>2. 0 - (d + 1) = (c - d) - n
      BY <1>2
    <2>3. ((c - d) - n) % n = (c - d) % n
      <3>1. c - d \in Int
        OBVIOUS
      <3>. QED BY <3>1, ModShift
    <2>. QED BY <2>1, <2>2, <2>3
  <1>. QED BY <1>1, <1>2

\* A whole batch behind a command is one position more.
LEMMA DivNext ==
  ASSUME NEW b \in Nat \ {0}, NEW a \in Nat
  PROVE  /\ (a + b) \div b = a \div b + 1
         /\ a < b => a \div b = 0
         /\ a \div b \in Nat
  <1>. DEFINE q == a \div b
              r == a % b
  <1>1. q \in Nat /\ r \in 0 .. b - 1 /\ a = q * b + r
    BY SMT
  <1>. HIDE DEF q, r
  <1>2. a + b = (q + 1) * b + r
    BY <1>1, SMT
  <1>3. ((q + 1) * b + r) \div b = q + 1
    BY <1>1, SMT
  <1>4. a < b => a \div b = 0
    BY SMT
  <1>. QED BY <1>1, <1>2, <1>3, <1>4 DEF q

-----------------------------------------------------------------------------
Turn(c, later) == (c - (later \div BatchSize + 1)) % Slots
Rotates(line, r, c) ==
  \A i \in From(line, 1, RefreshesOf(r)) :
    line[i].slot = Turn(c, Cardinality(From(line, i + 1, RefreshesOf(r))))
LineRotates == AllBank \/ \A r \in Rank : Rotates(Line, r, cursor[r])

\* RefreshesRotate in the words of the lemmas.
LEMMA RotateIsTurn == RefreshesRotate <=> LineRotates
  BY DEF RefreshesRotate, LineRotates, Rotates, Turn

\* The rotation is a matter of the order of the refreshes of a rank.
LEMMA SameRotates ==
  ASSUME NEW s \in Seq(Commands), NEW t \in Seq(Commands), NEW r, NEW c,
         SameOrder(s, t, RefreshesOf(r)), Rotates(s, r, c)
  PROVE  Rotates(t, r, c)
  <1>1. \A i \in From(t, 1, RefreshesOf(r)) : \E k \in From(s, 1, RefreshesOf(r)) :
          /\ t[i] = s[k]
          /\ Cardinality(From(t, i + 1, RefreshesOf(r)))
               = Cardinality(From(s, k + 1, RefreshesOf(r)))
    BY SameCounts
  <1>. QED BY <1>1 DEF Rotates

\* The rotation without its oldest refresh.
LEMMA TailRotates ==
  ASSUME NEW x \in Commands, NEW l \in Seq(Commands), NEW r, NEW c,
         Rotates(<<x>> \o l, r, c)
  PROVE  Rotates(l, r, c)
  <1>. DEFINE C == RefreshesOf(r)
              y == <<x>>
              a == y \o l
  <1>1. y \in Seq(Commands) /\ Len(y) = 1
    OBVIOUS
  <1>2. Rotates(a, r, c)
    OBVIOUS
  <1>. HIDE DEF y, C
  <1>3. /\ DOMAIN a = 1 .. 1 + Len(l)
        /\ \A j \in DOMAIN a : a[j] = IF j <= 1 THEN y[j] ELSE l[j - 1]
        /\ Len(l) \in Nat /\ DOMAIN l = 1 .. Len(l)
    BY <1>1, ConcatProperties
  <1>4. ASSUME NEW i \in From(l, 1, C)
        PROVE  l[i].slot = Turn(c, Cardinality(From(l, i + 1, C)))
    <2>1. i \in 1 .. Len(l) /\ l[i] \in C
      BY <1>3, <1>4 DEF From
    <2>2. i + 1 \in DOMAIN a /\ ~(i + 1 <= 1) /\ (i + 1) - 1 = i /\ i + 1 >= 1
      BY <1>3, <2>1
    <2>3. a[i + 1] = l[i]
      BY <1>3, <2>2
    <2>4. i + 1 \in From(a, 1, C)
      BY <2>1, <2>2, <2>3 DEF From
    <2>5. l[i].slot = Turn(c, Cardinality(From(a, (i + 1) + 1, C)))
      <3>1. a[i + 1].slot = Turn(c, Cardinality(From(a, (i + 1) + 1, C)))
        BY <1>2, <2>4 DEF Rotates, C
      <3>. QED BY <2>3, <3>1
    <2>6. i + 1 \in Nat \ {0} /\ (i + 1) + 1 = 1 + (i + 1)
      BY <2>1
    <2>7. Cardinality(From(a, (i + 1) + 1, C)) = Cardinality(From(l, i + 1, C))
      <3>. DEFINE k == i + 1
      <3>1. k \in Nat \ {0}
        BY <2>6
      <3>. HIDE DEF k, a
      <3>2. Cardinality(From(y \o l, Len(y) + k, C)) = Cardinality(From(l, k, C))
        <4>1. y \in Seq(Commands)
          BY <1>1
        <4>. QED BY <3>1, <4>1, CountBehind
      <3>3. Len(y) + k = (i + 1) + 1
        BY <1>1, <2>6 DEF k
      <3>. QED BY <3>2, <3>3 DEF k, a
    <2>. HIDE DEF a
    <2>. QED BY <2>5, <2>7
  <1>. QED BY <1>4 DEF Rotates, C

\* The rotation with a batch for the bank of the cursor, which moves on.
LEMMA BatchRotates ==
  ASSUME NEW l \in Seq(Commands), NEW b \in Seq(Commands), NEW r,
         BatchSize \in Nat \ {0}, Len(b) = BatchSize, NEW c \in 0 .. Slots - 1,
         \A i \in 1 .. Len(b) : b[i] \in RefreshesOf(r) /\ b[i].slot = c,
         Rotates(l, r, c)
  PROVE  Rotates(l \o b, r, (c + 1) % Slots)
  <1>. DEFINE C == RefreshesOf(r)
              a == l \o b
              m == Len(l)
              d == (c + 1) % Slots
  <1>1. Slots \in Nat \ {0}
    BY SizesAreNatural
  <1>. HIDE DEF C
  <1>2. /\ DOMAIN a = 1 .. m + Len(b)
        /\ \A j \in DOMAIN a : a[j] = IF j <= m THEN l[j] ELSE b[j - m]
        /\ m \in Nat /\ DOMAIN l = 1 .. m /\ DOMAIN b = 1 .. Len(b)
        /\ Len(b) \in Nat
    <2>1. m \in Nat /\ DOMAIN l = 1 .. m /\ DOMAIN b = 1 .. Len(b) /\ Len(b) \in Nat
      OBVIOUS
    <2>2. a \in Seq(Commands) /\ Len(a) = m + Len(b)
      BY ConcatProperties
    <2>3. DOMAIN a = 1 .. m + Len(b)
      BY <2>2
    <2>4. \A j \in 1 .. m + Len(b) : a[j] = IF j <= m THEN l[j] ELSE b[j - m]
      BY ConcatProperties
    <2>. QED BY <2>1, <2>3, <2>4
  <1>. HIDE DEF m
  <1>3. \A k \in Int : Turn(d, k) = (c - (k \div BatchSize)) % Slots
    <2>. TAKE k \in Int
    <2>. DEFINE e == k \div BatchSize
    <2>1. e \in Int
      BY SMT
    <2>. HIDE DEF e
    <2>2. (((c + 1) % Slots) - (e + 1)) % Slots = (c - e) % Slots
      BY <1>1, <2>1, ModNext
    <2>. QED BY <2>2 DEF e, Turn
  <1>. HIDE DEF d
  <1>4. Cardinality(From(b, 1, C)) = BatchSize
    <2>1. 1 \in 1 .. Len(b) + 1 /\ \A i \in DOMAIN b : b[i] \in C
      BY <1>2 DEF C
    <2>2. Cardinality(From(b, 1, C)) = Len(b) + 1 - 1
      BY <2>1, CountAll
    <2>. QED BY <1>2, <2>2
  <1>5. ASSUME NEW i \in From(a, 1, C)
        PROVE  a[i].slot = Turn(d, Cardinality(From(a, i + 1, C)))
    <2>1. i \in 1 .. m + Len(b) /\ a[i] \in C
      BY <1>2, <1>5 DEF From
    \* A refresh that was on its way is one more batch away from the cursor.
    <2>2. CASE i <= m
      <3>1. a[i] = l[i] /\ i \in 1 .. m /\ i + 1 \in 1 .. m + 1
        BY <1>2, <2>1, <2>2
      <3>2. i \in From(l, 1, C)
        BY <1>2, <2>1, <3>1 DEF From
      <3>. DEFINE k == Cardinality(From(l, i + 1, C))
      <3>3. k \in Nat
        BY FromFinite
      <3>4. Cardinality(From(a, i + 1, C)) = k + BatchSize
        <4>1. Cardinality(From(l \o b, i + 1, C))
                = Cardinality(From(l, i + 1, C)) + Cardinality(From(b, 1, C))
          BY <3>1, CountConcat DEF m
        <4>. QED BY <1>4, <4>1
      <3>5. a[i].slot = Turn(c, k)
        BY <3>1, <3>2 DEF Rotates, C
      <3>. HIDE DEF k
      <3>6. k + BatchSize \in Int /\ (k + BatchSize) \div BatchSize = k \div BatchSize + 1
        BY <3>3, DivNext
      <3>. QED BY <1>3, <3>4, <3>5, <3>6 DEF Turn
    <2>3. CASE ~(i <= m)
      <3>. DEFINE j == i - m
      <3>1. j \in 1 .. Len(b) /\ i + 1 = m + (j + 1) /\ j + 1 \in Nat \ {0}
            /\ j + 1 \in 1 .. Len(b) + 1
        BY <1>2, <2>1, <2>3
      <3>2. a[i] = b[j] /\ b[j].slot = c
        BY <1>2, <2>1, <2>3, <3>1
      <3>. HIDE DEF j
      <3>3. Cardinality(From(a, m + (j + 1), C)) = Cardinality(From(b, j + 1, C))
        BY <3>1, CountBehind DEF m
      <3>4. Cardinality(From(b, j + 1, C)) = Len(b) + 1 - (j + 1)
        <4>1. \A k \in DOMAIN b : b[k] \in C
          BY <1>2 DEF C
        <4>. QED BY <3>1, <4>1, CountAll
      <3>. DEFINE k == Len(b) + 1 - (j + 1)
      <3>5. k \in Nat /\ k < BatchSize
        BY <3>1
      <3>. HIDE DEF k
      <3>6. k \div BatchSize = 0 /\ k \in Int
        <4>. DEFINE B == BatchSize
        <4>1. B \in Nat \ {0} /\ k < B
          BY <3>5
        <4>. HIDE DEF B
        <4>2. k \div B = 0
          BY <3>5, <4>1, DivNext
        <4>. QED BY <3>5, <4>2 DEF B
      <3>7. c - 0 = c /\ c % Slots = c
        BY <1>1
      <3>8. Turn(d, k) = (c - 0) % Slots
        BY <1>3, <3>6
      <3>9. Turn(d, k) = c
        BY <3>7, <3>8
      <3>. QED BY <3>1, <3>2, <3>3, <3>4, <3>9 DEF k
    <2>. QED BY <2>2, <2>3
  <1>. QED BY <1>5 DEF Rotates, C, a, d

LEMMA BatchPositive == BatchSize \in Nat \ {0}
  <1>1. \A a, b \in Nat \ {0} : a * b \in Nat \ {0}
    BY SMT
  <1>2. CASE AllBank
    <2>1. BatchSize = PseudoChannels * Sids
      BY <1>2 DEF BatchSize
    <2>. QED BY <1>1, <2>1, RefreshAssumption
  <1>3. CASE ~AllBank
    BY <1>3, RefreshAssumption DEF BatchSize
  <1>. QED BY <1>2, <1>3

\* A step that passes the refreshes by keeps the rotation.
LEMMA PassesRotate ==
  ASSUME QueuesOK, QueuesOK', UNCHANGED cursor, NEW r \in Rank,
         Passes(RefreshesOf(r)), Rotates(Line, r, cursor[r])
  PROVE  Rotates(Line', r, cursor'[r])
  <1>. DEFINE s == Line
              t == Line'
  <1>1. s \in Seq(Commands)
    BY LineType
  <1>2. t \in Seq(Commands)
    BY ConcatProperties DEF QueuesOK, Line
  <1>3. SameOrder(s, t, RefreshesOf(r)) /\ Rotates(s, r, cursor[r])
    BY DEF Passes
  <1>. HIDE DEF s, t
  <1>4. Rotates(t, r, cursor[r])
    BY <1>1, <1>2, <1>3, SameRotates
  <1>. QED BY <1>4 DEF t

\* The inductive step of RefreshesRotate.
LEMMA RotateStep ==
  ASSUME TypeOK, LineRotates, [Next]_vars
  PROVE  LineRotates'
  <1>1. QueuesOK /\ RefreshTypeOK /\ Line \in Seq(Commands) /\ QueuesOK'
    BY TypeQueues, LineType, QueuesStep
  <1>. SUFFICES ASSUME ~AllBank, NEW r \in Rank
                PROVE  Rotates(Line', r, cursor'[r])
    BY DEF LineRotates, Rotates, Turn
  <1>2. Rotates(Line, r, cursor[r])
    BY DEF LineRotates
  <1>3. CASE LeavesLine
    <2>1. Line' = Line /\ cursor' = cursor
      BY <1>3, LeavesLineAlone DEF Line, queues
    <2>. QED BY <1>2, <2>1
  <1>4. CASE UNCHANGED cursor /\ Passes(RefreshesOf(r))
    BY <1>1, <1>2, <1>4, PassesRotate
  <1>5. CASE Shuffles
    <2>1. Passes(RefreshesOf(r))
      BY <1>1, <1>5, ShufflesPass, ClassKinds
    <2>. QED BY <1>4, <1>5, <2>1, ShufflesUnchanged
  <1>6. CASE SubmitControl
    BY <1>4, <1>6, ControlJoins
  <1>7. CASE IssueMRW
    BY <1>4, <1>7, WriteLeaves
  <1>8. CASE IssueRefresh
    <2>1. /\ Head(priority) \in Commands /\ Line' \in Seq(Commands)
          /\ Line = <<Head(priority)>> \o Line' /\ cursor' = cursor
      BY <1>8, RefreshLeaves DEF RefreshesOf
    <2>. DEFINE l == Line'
                h == Head(priority)
    <2>2. /\ h \in Commands /\ l \in Seq(Commands)
          /\ Rotates(<<h>> \o l, r, cursor[r])
      BY <1>2, <2>1
    <2>. HIDE DEF l, h
    <2>3. Rotates(l, r, cursor[r])
      BY <2>2, TailRotates
    <2>. QED BY <2>1, <2>3 DEF l
  <1>9. CASE ScheduleRefresh
    <2>1. CASE /\ \A s \in Rank : Passes(RefreshesOf(s))
               /\ UNCHANGED <<outstanding, cursor>>
      BY <1>4, <2>1
    <2>2. ASSUME NEW s \in Rank, Seed(s), Line' = Line \o Batch(s),
                 \A z \in Rank \ {s} : Passes(RefreshesOf(z))
          PROVE  Rotates(Line', r, cursor'[r])
      <3>1. /\ cursor' = [cursor EXCEPT ![s] = (@ + 1) % Slots]
            /\ cursor \in [Rank -> 0 .. Slots - 1]
        BY <1>1, <2>2 DEF Seed, RefreshTypeOK
      <3>2. CASE s # r
        <4>1. cursor'[r] = cursor[r]
          BY <3>1, <3>2
        <4>2. Passes(RefreshesOf(r))
          BY <2>2, <3>2
        <4>. DEFINE a == Line
                    t == Line'
        <4>3. a \in Seq(Commands) /\ t \in Seq(Commands)
          BY <1>1, ConcatProperties DEF QueuesOK, Line
        <4>4. SameOrder(a, t, RefreshesOf(r)) /\ Rotates(a, r, cursor[r])
          BY <1>2, <4>2 DEF Passes
        <4>. HIDE DEF a, t
        <4>5. Rotates(t, r, cursor[r])
          BY <4>3, <4>4, SameRotates
        <4>. QED BY <4>1, <4>5 DEF t
      <3>3. CASE s = r
        <4>. DEFINE b == Batch(r)
                    c == cursor[r]
        <4>1. /\ b \in Seq(Commands) /\ Len(b) = BatchSize
              /\ \A i \in 1 .. BatchSize :
                   b[i].cmd = "REF" /\ b[i].rank = r /\ b[i].slot = c
          BY <1>1, BatchOf
        <4>2. c \in 0 .. Slots - 1 /\ cursor'[r] = (c + 1) % Slots
          BY <3>1, <3>3
        <4>3. Line' = Line \o b
          BY <2>2, <3>3
        <4>. HIDE DEF b, c
        <4>4. \A i \in 1 .. Len(b) : b[i] \in RefreshesOf(r) /\ b[i].slot = c
          <5>1. \A i \in 1 .. Len(b) : b[i] \in Commands
            BY <4>1, ElementOfSeq
          <5>. QED BY <4>1, <5>1 DEF RefreshesOf, IsRefreshOf
        <4>5. Rotates(Line, r, c)
          BY <1>2 DEF c
        <4>6. Rotates(Line \o b, r, (c + 1) % Slots)
          BY <1>1, <4>1, <4>2, <4>4, <4>5, BatchPositive, BatchRotates
        <4>. QED BY <4>2, <4>3, <4>6
      <3>. QED BY <3>2, <3>3
    <2>. QED BY <1>9, <2>1, <2>2, BatchJoins
  <1>. QED BY <1>3, <1>5, <1>6, <1>7, <1>8, <1>9, StepCases

-----------------------------------------------------------------------------
(* At most one of a class, and the automatic entry.                        *)
\* At most one command of a class.
Single(s, C) == \A i, j \in Places(s, C) : i = j

\* To hold one of a class is a matter of order too.
LEMMA SameSingle ==
  ASSUME NEW S, NEW s \in Seq(S), NEW t \in Seq(S), NEW C, SameOrder(s, t, C)
  PROVE  /\ Single(s, C) => Single(t, C)
         /\ Places(s, C) = {} => Places(t, C) = {}
         /\ Places(t, C) = {} => Places(s, C) = {}
  <1>1. PICK f : Matches(f, s, t, C)
    BY DEF SameOrder
  <1>2. \A i \in Places(t, C) : i \in Int
    BY DEF Places
  <1>3. \A i \in Places(s, C) : i \in Int
    BY DEF Places
  <1>4. ASSUME Single(s, C) PROVE Single(t, C)
    <2>1. SUFFICES ASSUME NEW i \in Places(t, C), NEW j \in Places(t, C) PROVE i = j
      BY DEF Single
    <2>2. /\ f[i] \in Places(s, C) /\ f[j] \in Places(s, C)
          /\ i < j => f[i] < f[j]
          /\ j < i => f[j] < f[i]
      BY <1>1, <2>1 DEF Matches
    <2>3. f[i] = f[j]
      BY <1>4, <2>2 DEF Single
    <2>. QED BY <1>2, <1>3, <2>1, <2>2, <2>3
  <1>. QED BY <1>1, <1>4 DEF Matches

\* The places of a class in a concatenation, and one command of the class in
\* a sequence of two parts.
LEMMA PlacesConcat ==
  ASSUME NEW s \in Seq(Commands), NEW t \in Seq(Commands), NEW C
  PROVE  /\ \A i \in Places(s, C) : i \in Places(s \o t, C)
         /\ \A i \in Places(t, C) : i + Len(s) \in Places(s \o t, C)
         /\ \A i \in Places(s \o t, C) : i \in Places(s, C) \/ i - Len(s) \in Places(t, C)
         /\ \A i \in Places(s, C) : i \in 1 .. Len(s)
         /\ \A i \in Places(t, C) : i \in 1 .. Len(t)
  <1>. DEFINE a == s \o t
              m == Len(s)
  <1>1. m \in Nat /\ Len(t) \in Nat /\ DOMAIN s = 1 .. m /\ DOMAIN t = 1 .. Len(t)
    OBVIOUS
  <1>2. /\ DOMAIN a = 1 .. m + Len(t)
        /\ \A j \in DOMAIN a : a[j] = IF j <= m THEN s[j] ELSE t[j - m]
    BY ConcatProperties
  <1>. HIDE DEF a, m
  <1>3. \A i \in Places(s, C) : i \in Places(a, C) /\ i \in 1 .. m
    BY <1>1, <1>2 DEF Places
  <1>4. ASSUME NEW i \in Places(t, C)
        PROVE  i + m \in Places(a, C) /\ i \in 1 .. Len(t)
    <2>1. i \in 1 .. Len(t) /\ t[i] \in C
      BY <1>1 DEF Places
    <2>2. i + m \in DOMAIN a /\ ~(i + m <= m) /\ (i + m) - m = i
      BY <1>1, <1>2, <2>1
    <2>. QED BY <1>2, <2>1, <2>2 DEF Places
  <1>5. \A i \in Places(a, C) : i \in Places(s, C) \/ i - m \in Places(t, C)
    BY <1>1, <1>2 DEF Places
  <1>. QED BY <1>1, <1>3, <1>4, <1>5 DEF a, m

LEMMA NoneConcat ==
  ASSUME NEW s \in Seq(Commands), NEW t \in Seq(Commands), NEW C
  PROVE  Places(s \o t, C) = {} <=> Places(s, C) = {} /\ Places(t, C) = {}
  BY PlacesConcat

LEMMA SingleParts ==
  ASSUME NEW s \in Seq(Commands), NEW t \in Seq(Commands), NEW C,
         Single(s \o t, C)
  PROVE  /\ Single(s, C) /\ Single(t, C)
         /\ Places(s, C) # {} => Places(t, C) = {}
  <1>1. Len(s) \in Nat /\ Len(t) \in Nat
    OBVIOUS
  <1>2. Single(s, C)
    BY PlacesConcat DEF Single
  <1>3. Single(t, C)
    <2>1. SUFFICES ASSUME NEW i \in Places(t, C), NEW j \in Places(t, C) PROVE i = j
      BY DEF Single
    <2>2. i + Len(s) = j + Len(s) /\ i \in Int /\ j \in Int
      BY <2>1, PlacesConcat DEF Single
    <2>. QED BY <1>1, <2>2
  <1>4. ASSUME NEW i \in Places(s, C), NEW j \in Places(t, C) PROVE FALSE
    <2>1. i = j + Len(s) /\ i \in 1 .. Len(s) /\ j \in 1 .. Len(t)
      BY <1>4, PlacesConcat DEF Single
    <2>. QED BY <1>1, <2>1
  <1>. QED BY <1>2, <1>3, <1>4

LEMMA SingleFirst ==
  ASSUME NEW x \in Commands, NEW s \in Seq(Commands), NEW C, Places(s, C) = {}
  PROVE  Single(<<x>> \o s, C)
  <1>. DEFINE y == <<x>>
  <1>1. y \in Seq(Commands) /\ \A i \in Places(y, C) : i = 1
    BY DEF Places
  <1>. HIDE DEF y
  <1>2. \A i \in Places(y \o s, C) : i \in Places(y, C)
    BY <1>1, PlacesConcat
  <1>. QED BY <1>1, <1>2 DEF Single, y

LEMMA SingleOne ==
  ASSUME NEW x \in Commands, NEW C, x \in C
  PROVE  Places(<<x>>, C) = {1} /\ <<x>> \in Seq(Commands)
  BY DEF Places

\* The one command of a class, taken out.
LEMMA SingleRemoved ==
  ASSUME NEW s \in Seq(Commands), NEW C, Single(s, C),
         NEW i \in 1 .. Len(s), s[i] \in C
  PROVE  Places(RemoveAt(s, i), C) = {} /\ RemoveAt(s, i) \in Seq(Commands)
  <1>. DEFINE p == SubSeq(s, 1, i - 1)
              q == SubSeq(s, i + 1, Len(s))
              x == s[i]
              y == <<x>>
  <1>1. /\ p \in Seq(Commands) /\ q \in Seq(Commands) /\ x \in Commands
        /\ s = p \o (<<x>> \o q)
    BY SplitAt
  <1>2. RemoveAt(s, i) = p \o q
    BY DEF RemoveAt
  <1>3. Places(y, C) = {1} /\ y \in Seq(Commands)
    BY <1>1, SingleOne
  <1>. HIDE DEF p, q, x
  <1>4. s = p \o (y \o q)
    BY <1>1
  <1>. HIDE DEF y
  <1>5. y \o q \in Seq(Commands) /\ p \o q \in Seq(Commands)
    BY <1>1, <1>3, ConcatProperties
  <1>6. Single(p \o (y \o q), C)
    BY <1>4
  <1>7. Single(y \o q, C) /\ (Places(p, C) # {} => Places(y \o q, C) = {})
    BY <1>1, <1>5, <1>6, SingleParts
  <1>8. Places(y, C) # {}
    BY <1>3
  <1>9. Places(q, C) = {} /\ Places(y \o q, C) # {}
    BY <1>1, <1>3, <1>7, <1>8, SingleParts, NoneConcat
  <1>10. Places(p \o q, C) = {}
    BY <1>1, <1>7, <1>9, NoneConcat
  <1>. QED BY <1>2, <1>5, <1>10

Entry == {AutomaticEntry}
Exits == {q \in Commands : IsExit(q)}
\* A self-refresh entry of the frontend.
ForeignEntry == {q \in Commands : q.cmd = "SREFEN" /\ q # AutomaticEntry}

\* The entry that waits, wherever it is queued, is the one that `automatic`
\* stands for, and no request arrived after it.
EntryStands ==
  /\ Places(Line, ForeignEntry) = {}
  /\ Single(Line, Entry)
  /\ Places(Line, Entry) # {} => automatic /\ work = {}

\* The classes of SREFEN commands: they hold no exit, refresh or MRW.
LEMMA EntryClasses ==
  /\ \A q \in Entry : q.cmd = "SREFEN" /\ ~IsExit(q)
  /\ \A q \in ForeignEntry : q.cmd = "SREFEN" /\ ~IsExit(q)
  /\ AutomaticEntry \in Entry /\ AutomaticEntry \notin ForeignEntry
  /\ Command("PDX") \notin ForeignEntry /\ Command("PDX") \notin Entry
  /\ Command("MRW") \notin ForeignEntry /\ Command("MRW") \notin Entry
  <1>1. /\ \A q \in Entry : q.cmd = "SREFEN"
        /\ AutomaticEntry \in Entry
    BY EntryKind DEF Entry
  <1>2. (\A q \in ForeignEntry : q.cmd = "SREFEN") /\ AutomaticEntry \notin ForeignEntry
    BY DEF ForeignEntry
  <1>3. Command("PDX").cmd = "PDX" /\ Command("MRW").cmd = "MRW"
    BY DEF Command
  <1>. QED BY <1>1, <1>2, <1>3 DEF IsExit

\* What passes both classes by keeps the first two parts.
LEMMA PassesStand ==
  ASSUME QueuesOK, QueuesOK', EntryStands, Passes(Entry), Passes(ForeignEntry),
         automatic => automatic', work' \subseteq work
  PROVE  EntryStands'
  <1>. DEFINE s == Line
              t == Line'
  <1>1. s \in Seq(Commands)
    BY LineType
  <1>2. t \in Seq(Commands)
    BY ConcatProperties DEF QueuesOK, Line
  <1>3. SameOrder(s, t, Entry) /\ SameOrder(s, t, ForeignEntry)
    BY DEF Passes
  <1>4. Places(s, ForeignEntry) = {} /\ Single(s, Entry)
    BY DEF EntryStands
  <1>. HIDE DEF s, t
  <1>5. /\ Places(t, ForeignEntry) = {} /\ Single(t, Entry)
        /\ Places(t, Entry) # {} => Places(s, Entry) # {}
    BY <1>1, <1>2, <1>3, <1>4, SameSingle
  <1>6. Places(t, Entry) # {} => automatic' /\ work' = {}
    BY <1>5 DEF EntryStands, s
  <1>. QED BY <1>5, <1>6 DEF EntryStands, t, Entry, ForeignEntry, Places, Single

\* An entry that no longer waits asks for nothing.
LEMMA NoneStands ==
  ASSUME NEW t \in Seq(Commands), t = Line', Places(t, ForeignEntry) = {},
         Places(t, Entry) = {}
  PROVE  EntryStands'
  BY DEF EntryStands, Entry, ForeignEntry, Places, Single

\* The request that arrives withdraws the entry.
LEMMA WithdrawnNone ==
  ASSUME NEW s \in Seq(Commands), Single(s, Entry),
         Places(s, Entry) # {} => automatic
  PROVE  Places(Withdrawn(s), Entry) = {} /\ Withdrawn(s) \in Seq(Commands)
  <1>1. Withdrawn(s) \in Seq(Commands)
    BY WithdrawnType
  <1>2. CASE Places(s, Entry) = {}
    <2>1. \A i \in 1 .. Len(s) : s[i] # AutomaticEntry
      BY <1>2 DEF Places, Entry
    <2>2. Withdrawn(s) = s
      BY <2>1, RemoveFirstPlace DEF Withdrawn
    <2>. QED BY <1>2, <2>2
  <1>3. CASE Places(s, Entry) # {}
    <2>1. PICK i \in 1 .. Len(s) : s[i] = AutomaticEntry
      BY <1>3 DEF Places, Entry
    <2>2. Withdrawn(s) = RemoveFirst(s, AutomaticEntry)
      BY <1>3 DEF Withdrawn
    <2>3. PICK k \in 1 .. Len(s) : s[k] = AutomaticEntry /\ Withdrawn(s) = RemoveAt(s, k)
      BY <2>1, <2>2, RemoveFirstPlace
    <2>4. s[k] \in Entry
      BY <2>3 DEF Entry
    <2>. QED BY <1>1, <2>3, <2>4, SingleRemoved
  <1>. QED BY <1>1, <1>2, <1>3

\* enqueue() leaves no automatic entry in the line.
LEMMA SubmitStands ==
  ASSUME Submit, QueuesOK, EntryStands
  PROVE  EntryStands'
  <1>. DEFINE p == Withdrawn(priority)
              w == Withdrawn(pendingMaintenance)
              t == Line'
  <1>1. /\ Single(priority, Entry) /\ Single(pendingMaintenance, Entry)
        /\ Places(priority, Entry) # {} => automatic
        /\ Places(pendingMaintenance, Entry) # {} => automatic
    BY SingleParts, NoneConcat DEF EntryStands, QueuesOK, Line
  <1>2. /\ Places(p, Entry) = {} /\ p \in Seq(Commands)
        /\ Places(w, Entry) = {} /\ w \in Seq(Commands)
    BY <1>1, WithdrawnNone DEF QueuesOK
  <1>3. /\ priority' = p
        /\ \/ pendingMaintenance' = w
           \/ /\ WakeCommand \in {"SREFEX", "PDX"}
              /\ pendingMaintenance' = ScheduledExit(WakeCommand, w)
    BY DEF Submit, WakeCommand
  <1>4. QueuesOK' /\ t \in Seq(Commands)
    BY SubmitType, ConcatProperties DEF QueuesOK, Line
  <1>. HIDE DEF p, w
  <1>5. SameOrder(w, pendingMaintenance', Entry)
    BY <1>2, <1>3, ScheduledSame, SameRefl, EntryClasses
  <1>6. Places(pendingMaintenance', Entry) = {}
    BY <1>2, <1>4, <1>5, SameSingle DEF QueuesOK
  <1>7. Places(t, Entry) = {}
    BY <1>2, <1>3, <1>4, <1>6, NoneConcat DEF QueuesOK, Line
  <1>8. SameOrder(Line, t, ForeignEntry)
    BY EntryClasses, SubmitSame
  <1>9. Places(t, ForeignEntry) = {}
    <2>1. Line \in Seq(Commands) /\ Places(Line, ForeignEntry) = {}
      BY LineType DEF EntryStands
    <2>. HIDE DEF t
    <2>. QED BY <1>4, <1>8, <2>1, SameSingle
  <1>. HIDE DEF t
  <1>10. t \in Seq(Commands) /\ t = Line'
    BY <1>4 DEF t
  <1>. QED BY <1>7, <1>9, <1>10, NoneStands

\* The policy adds an entry only when it has none and there is no work.
LEMMA EndTickStands ==
  ASSUME EndTick, QueuesOK, EntryStands
  PROVE  EntryStands'
  <1>. DEFINE t == Line'
  <1>1. QueuesOK' /\ t \in Seq(Commands) /\ Line \in Seq(Commands)
    BY EndTickLine, LineType, ConcatProperties DEF QueuesOK, Line
  <1>2. work' = work
    BY DEF EndTick, workVars
  <1>3. CASE pendingMaintenance' = pendingMaintenance /\ automatic' = automatic
    <2>1. t = Line
      BY <1>3, EndTickLine DEF Line
    <2>. QED BY <1>2, <1>3, <2>1 DEF EntryStands, Entry, ForeignEntry, Places, Single
  \* Only an idle controller adds its entry, to empty queues.
  <1>4. CASE /\ Quiet /\ automatic'
             /\ pendingMaintenance' = pendingMaintenance \o <<AutomaticEntry>>
    <2>1. /\ priority = <<>> /\ pendingMaintenance = <<>> /\ work = {}
      BY <1>4 DEF Quiet
    <2>2. priority' = <<>>
      BY <2>1, EndTickLine
    <2>. DEFINE y == <<AutomaticEntry>>
    <2>3. y \in Seq(Commands) /\ Places(y, Entry) = {1} /\ Places(y, ForeignEntry) = {}
      BY EntryKind, EntryClasses, SingleOne, NoPlaces
    <2>4. pendingMaintenance' = <<>> \o y
      BY <1>4, <2>1
    <2>. HIDE DEF y
    <2>5. t = y
      BY <2>2, <2>3, <2>4, ConcatEmptySeq DEF Line
    <2>6. Places(t, ForeignEntry) = {} /\ Single(t, Entry)
      BY <2>3, <2>5 DEF Single
    <2>. QED BY <1>2, <1>4, <2>1, <2>6 DEF EntryStands, Entry, ForeignEntry, Places, Single
  <1>. QED BY <1>3, <1>4, EndTickLine

\* Without an SREFEN of the frontend the one that issues is the entry itself.
LEMMA EntryIssues ==
  ASSUME IssueSREFEN, QueuesOK, EntryStands
  PROVE  work = {} /\ EntryStands'
  <1>. DEFINE h == Head(priority)
              y == <<h>>
              t == Line'
  <1>1. Issue("SREFEN") /\ UNCHANGED pendingMaintenance
    BY DEF IssueSREFEN
  <1>2. QueuesOK' /\ h \in Commands /\ h.cmd = "SREFEN" /\ Line = y \o t
    BY <1>1, IssueLine
  <1>3. t \in Seq(Commands)
    BY <1>2, ConcatProperties DEF QueuesOK, Line
  <1>4. y \in Seq(Commands)
    BY <1>2
  <1>5. Places(y, ForeignEntry) = {} /\ Places(t, ForeignEntry) = {}
    <2>. HIDE DEF y, t
    <2>. QED BY <1>2, <1>3, <1>4, NoneConcat DEF EntryStands
  <1>6. h \in Entry
    <2>1. h \notin ForeignEntry
      BY <1>2, <1>5, SingleOne
    <2>. QED BY <1>2, <2>1 DEF ForeignEntry, Entry
  <1>7. Places(y, Entry) # {}
    BY <1>2, <1>6, SingleOne
  <1>. HIDE DEF h, y, t
  <1>8. Places(Line, Entry) # {} /\ Places(t, Entry) = {}
    <2>1. Single(y \o t, Entry)
      BY <1>2 DEF EntryStands
    <2>2. Places(t, Entry) = {}
      BY <1>3, <1>4, <1>7, <2>1, SingleParts
    <2>. QED BY <1>2, <1>3, <1>4, <1>7, <2>2, NoneConcat
  <1>9. t = Line'
    BY DEF t
  <1>. QED BY <1>3, <1>5, <1>8, <1>9, NoneStands DEF EntryStands

\* The inductive step of EntryStands.
LEMMA StandsStep ==
  ASSUME TypeOK, Automatic, EntryStands, [Next]_vars
  PROVE  EntryStands'
  <1>1. QueuesOK /\ QueuesOK' /\ RefreshTypeOK
    BY TypeQueues, QueuesStep
  <1>2. ASSUME Passes(Entry), Passes(ForeignEntry), UNCHANGED automatic,
               work' \subseteq work
        PROVE  EntryStands'
    BY <1>1, <1>2, PassesStand
  <1>3. CASE Submit \/ EndTick \/ IssueSREFEN
    BY <1>1, <1>3, SubmitStands, EndTickStands, EntryIssues
  <1>4. CASE Tick
    <2>1. Passes(Entry) /\ Passes(ForeignEntry)
      BY <1>1, <1>4, TickSame, EntryClasses DEF Passes
    <2>2. UNCHANGED automatic /\ work' \subseteq work
      BY <1>4 DEF Tick
    <2>. QED BY <1>2, <2>1, <2>2
  <1>5. CASE Service
    <2>1. Passes(Entry) /\ Passes(ForeignEntry)
      BY <1>1, <1>5, ServiceSame, EntryClasses DEF Passes
    <2>2. UNCHANGED <<automatic, work>>
      BY <1>5 DEF Service, workVars, powerVars
    <2>. QED BY <1>2, <2>1, <2>2
  <1>6. CASE ScheduleRefresh
    <2>1. Passes(Entry) /\ Passes(ForeignEntry)
      <3>1. /\ \A q \in Entry : q.cmd # "REF"
            /\ \A q \in ForeignEntry : q.cmd # "REF"
        BY EntryClasses
      <3>. QED BY <1>6, <3>1, BatchJoins
    <2>2. UNCHANGED <<automatic, work>>
      BY <1>6 DEF ScheduleRefresh, workVars, powerVars
    <2>. QED BY <1>2, <2>1, <2>2
  <1>7. CASE SubmitControl
    <2>1. setup.commands[sent + 1] = "MRW"
      <3>1. sent + 1 \in 1 .. Len(setup.commands)
        BY <1>7, ControlJoins
      <3>2. setup.commands \in Seq(Controls)
        BY MaintenanceAssumption DEF TypeOK
      <3>. QED BY <3>1, <3>2 DEF Automatic
    <2>2. Passes(Entry) /\ Passes(ForeignEntry)
      BY <1>7, <2>1, ControlJoins, EntryClasses
    <2>3. UNCHANGED <<automatic, work>>
      BY <1>7 DEF SubmitControl, workVars, powerVars
    <2>. QED BY <1>2, <2>2, <2>3
  <1>8. ASSUME NEW c, Issue(c), c # "SREFEN", UNCHANGED <<pendingMaintenance, automatic, work>>
        PROVE  EntryStands'
    <2>1. /\ \A q \in Entry : q.cmd # c
          /\ \A q \in ForeignEntry : q.cmd # c
      BY <1>8, EntryClasses
    <2>2. Passes(Entry) /\ Passes(ForeignEntry)
      BY <1>1, <1>8, <2>1, IssuePasses
    <2>. QED BY <1>2, <1>8, <2>2
  <1>9. CASE IssueRefresh \/ IssueMRW \/ IssuePDE \/ IssuePDX \/ IssueSREFEX
    <2>1. \E c \in {"REF", "MRW", "PDE", "PDX", "SREFEX"} : Issue(c)
      BY <1>9 DEF IssueRefresh, IssueMRW, IssuePDE, IssuePDX, IssueSREFEX
    <2>2. UNCHANGED <<pendingMaintenance, automatic, work>>
      BY <1>9 DEF IssueRefresh, IssueMRW, IssuePDE, IssuePDX, IssueSREFEX,
                  workVars, powerVars
    <2>. QED BY <1>8, <2>1, <2>2
  \* A request that is served keeps the controller from being idle.
  <1>10. CASE LeavesLine
    <2>1. Line' = Line /\ UNCHANGED automatic
      BY <1>10, LeavesLineAlone DEF Line, queues, LeavesLine, Activate, FinishActive,
            HitOpenRow, IssueNone, vars, powerVars
    <2>2. work = {} => work' = {}
      BY <1>10 DEF LeavesLine, Activate, FinishActive, HitOpenRow, IssueNone, vars,
                   workVars
    <2>. QED BY <2>1, <2>2 DEF EntryStands, Entry, ForeignEntry, Places, Single
  <1>. QED BY <1>3, <1>4, <1>5, <1>6, <1>7, <1>9, <1>10, StepCases DEF Shuffles

\* The step that falls asleep is the issue of an SREFEN.
LEMMA FallsAsleep ==
  ASSUME [Next]_vars, ~asleep, asleep'
  PROVE  IssueSREFEN
  <1>1. CASE Submit \/ SubmitControl \/ Service \/ EndTick \/ LeavesLine
    BY <1>1 DEF Submit, SubmitControl, Service, EndTick, LeavesLine, Activate,
                FinishActive, HitOpenRow, IssueNone, vars, refreshVars, managerVars
  <1>2. CASE Tick
    BY <1>2 DEF Tick, Clock, refreshVars, managerVars
  <1>3. CASE ScheduleRefresh
    BY <1>3 DEF ScheduleRefresh, Repay, PullIn, Postpone, Rest
  <1>4. CASE IssueRefresh \/ IssueMRW \/ IssuePDE \/ IssuePDX \/ IssueSREFEX
    BY <1>4 DEF IssueRefresh, IssueMRW, IssuePDE, IssuePDX, IssueSREFEX, Serve,
                SetSelfRefresh, refreshVars, managerVars
  <1>. QED BY <1>1, <1>2, <1>3, <1>4, StepCases DEF Shuffles
-----------------------------------------------------------------------------
OneExit == Single(pendingMaintenance, Exits)

\* The class of exits.
LEMMA ExitClass ==
  /\ \A q \in Exits : q.cmd = "SREFEX" /\ q \in Commands
  /\ Command("SREFEX") \in Exits /\ Command("PDX") \notin Exits
  /\ AutomaticEntry \notin Exits
  <1>1. \A q \in Exits : q.cmd = "SREFEX" /\ q \in Commands
    BY DEF Exits, IsExit
  <1>2. Command("SREFEX") \in Exits
    BY ControlKinds DEF Exits, IsExit, Controls
  <1>3. Command("PDX").cmd = "PDX"
    BY DEF Command
  <1>. QED BY <1>1, <1>2, <1>3, EntryKind

\* A wake-up that is scheduled twice waits once.
LEMMA ScheduledSingle ==
  ASSUME NEW c \in {"SREFEX", "PDX"}, NEW s \in Seq(Commands), Single(s, Exits),
         (\A q \in Waiting : ~IsExit(q)) => Places(s, Exits) = {}
  PROVE  Single(ScheduledExit(c, s), Exits)
  <1>. DEFINE x == Command(c)
  <1>1. x \in Commands
    BY ControlKinds DEF Controls
  <1>2. CASE c = "PDX"
    <2>1. ScheduledExit(c, s) = Append(s, x) /\ x \notin Exits
      BY <1>2, ExitClass DEF ScheduledExit
    <2>. HIDE DEF x
    <2>2. Append(s, x) = s \o <<x>> /\ SameOrder(s, s \o <<x>>, Exits)
          /\ s \o <<x>> \in Seq(Commands)
      BY <1>1, <2>1, AppendIsConcat, FrontSame
    <2>. DEFINE t == s \o <<x>>
    <2>3. t \in Seq(Commands) /\ SameOrder(s, t, Exits) /\ ScheduledExit(c, s) = t
      BY <2>1, <2>2
    <2>. HIDE DEF t
    <2>4. Single(t, Exits)
      BY <2>3, SameSingle
    <2>. QED BY <2>3, <2>4
  <1>3. CASE c = "SREFEX" /\ \E q \in Waiting : IsExit(q)
    BY <1>3 DEF ScheduledExit
  <1>4. CASE c = "SREFEX" /\ \A q \in Waiting : ~IsExit(q)
    <2>1. ScheduledExit(c, s) = <<x>> \o s
      BY <1>4 DEF ScheduledExit
    <2>. QED BY <1>1, <1>4, <2>1, SingleFirst
  <1>. QED BY <1>2, <1>3, <1>4

\* When schedule_maintenance() finds no exit in the queues there is none.
LEMMA NoneWaits ==
  ASSUME QueuesOK, \A q \in Waiting : ~IsExit(q)
  PROVE  Places(pendingMaintenance, Exits) = {}
  BY DEF Waiting, Range, Places, Exits

\* Moving the exit of a queue to its front leaves none behind it.
LEMMA ExitFirstSingle ==
  ASSUME NEW s \in Seq(Commands), Single(s, Exits)
  PROVE  Single(ExitFirst(s), Exits)
  <1>. DEFINE i == SelectInSeq(s, IsExit)
  <1>1. \/ i = 0
        \/ i \in 1 .. Len(s) /\ IsExit(s[i])
    BY ExitPlace, Zenon
  <1>2. ExitFirst(s) = IF i = 0 THEN s ELSE <<s[i]>> \o RemoveAt(s, i)
    BY DEF ExitFirst
  <1>. HIDE DEF i
  <1>3. CASE i # 0
    <2>1. i \in 1 .. Len(s) /\ s[i] \in Exits /\ s[i] \in Commands
      BY <1>1, <1>3, ElementOfSeq DEF Exits
    <2>2. Places(RemoveAt(s, i), Exits) = {} /\ RemoveAt(s, i) \in Seq(Commands)
      BY <2>1, SingleRemoved
    <2>3. Single(<<s[i]>> \o RemoveAt(s, i), Exits)
      BY <2>1, <2>2, SingleFirst
    <2>. QED BY <1>2, <1>3, <2>3
  <1>. QED BY <1>2, <1>3

\* What stays in pending_maintenance_ after a Fill is a part of it.
LEMMA FillSingle ==
  ASSUME NEW pri \in Seq(Commands), NEW pend \in Seq(Commands),
         Len(pri) <= PrioritySize, Fill(pri, pend), Single(pend, Exits)
  PROVE  Single(pendingMaintenance', Exits)
  <1>. DEFINE room == PrioritySize - Len(pri)
              n == IF Len(pend) < room THEN Len(pend) ELSE room
              a == SubSeq(pend, 1, n)
              b == SubSeq(pend, n + 1, Len(pend))
  <1>1. n \in 0 .. Len(pend)
    <2>1. Len(pri) \in Nat /\ Len(pend) \in Nat /\ PrioritySize \in Nat
      BY MaintenanceAssumption
    <2>. QED BY <2>1
  <1>2. pendingMaintenance' = b
    BY DEF Fill
  <1>. HIDE DEF n
  <1>3. a \in Seq(Commands) /\ b \in Seq(Commands) /\ pend = a \o b
    BY <1>1, SplitPending
  <1>. HIDE DEF a, b
  <1>4. Single(a \o b, Exits)
    BY <1>3
  <1>. QED BY <1>2, <1>3, <1>4, SingleParts

\* Commands that are no exits may join.
LEMMA SingleJoin ==
  ASSUME NEW s \in Seq(Commands), NEW b \in Seq(Commands), NEW C,
         Single(s, C), Places(b, C) = {}
  PROVE  Single(s \o b, C)
  <1>1. \A i \in Places(s \o b, C) : i \in Places(s, C)
    BY PlacesConcat
  <1>. QED BY <1>1 DEF Single

\* The types of the two moves of an exit.
LEMMA ExitFirstType ==
  ASSUME NEW s \in Seq(Commands)
  PROVE  ExitFirst(s) \in Seq(Commands) /\ Len(ExitFirst(s)) = Len(s)
  <1>. DEFINE C == {q \in {} : TRUE}
  <1>1. \A q \in C : ~IsExit(q)
    OBVIOUS
  <1>. HIDE DEF C
  <1>2. /\ ExitFirst(s) \in Seq(Commands) /\ Len(ExitFirst(s)) = Len(s)
        /\ SameOrder(s, ExitFirst(s), C)
    BY <1>1, ExitFirstSame
  <1>. QED BY <1>2

LEMMA DisplaceType ==
  ASSUME NEW pri \in Seq(Commands), NEW pend \in Seq(Commands),
         pri # <<>>, pend # <<>>, IsExit(Head(pend))
  PROVE  /\ <<Head(pend)>> \o Front(pri) \in Seq(Commands)
         /\ Len(<<Head(pend)>> \o Front(pri)) = Len(pri)
         /\ Displaced(pri, pend) \in Seq(Commands)
  <1>. DEFINE C == {q \in {} : TRUE}
  <1>1. \A q \in C : ~IsExit(q)
    OBVIOUS
  <1>. HIDE DEF C
  <1>2. /\ <<Head(pend)>> \o Front(pri) \in Seq(Commands)
        /\ Len(<<Head(pend)>> \o Front(pri)) = Len(pri)
        /\ Displaced(pri, pend) \in Seq(Commands)
        /\ SameOrder(pri \o pend,
              (<<Head(pend)>> \o Front(pri)) \o Displaced(pri, pend), C)
    BY <1>1, DisplaceSame
  <1>. QED BY <1>2

\* service_pending_maintenance() leaves at most one exit pending.
LEMMA ServiceSingle ==
  ASSUME Service, QueuesOK, OneExit
  PROVE  OneExit'
  <1>. DEFINE pri == IF asleep THEN ExitFirst(priority) ELSE priority
              pend == IF asleep THEN ExitFirst(pendingMaintenance)
                      ELSE pendingMaintenance
  <1>2. pri \in Seq(Commands) /\ Len(pri) = Len(priority)
    BY ExitFirstType DEF QueuesOK
  <1>3. pend \in Seq(Commands) /\ Single(pend, Exits)
    BY ExitFirstType, ExitFirstSingle DEF QueuesOK, OneExit
  <1>4. IF /\ asleep /\ Len(pri) = PrioritySize
           /\ pend # <<>> /\ IsExit(Head(pend))
        THEN Fill(<<Head(pend)>> \o Front(pri), Displaced(pri, pend))
        ELSE Fill(pri, pend)
    BY DEF Service
  <1>. HIDE DEF pri, pend
  <1>5. Len(pri) <= PrioritySize
    BY <1>2 DEF QueuesOK
  <1>6. CASE Fill(pri, pend)
    BY <1>2, <1>3, <1>5, <1>6, FillSingle, Zenon DEF OneExit
  <1>7. CASE /\ Len(pri) = PrioritySize
             /\ pend # <<>> /\ IsExit(Head(pend))
             /\ Fill(<<Head(pend)>> \o Front(pri), Displaced(pri, pend))
    <2>. DEFINE h == Head(pend)
                y == <<h>>
                t == Tail(pend)
                g == y \o Front(pri)
                d == Displaced(pri, pend)
    <2>1. pri # <<>>
      BY <1>7, EmptySeq, MaintenanceAssumption
    <2>2. g \in Seq(Commands) /\ Len(g) = Len(pri) /\ d \in Seq(Commands)
      BY <1>2, <1>3, <1>7, <2>1, DisplaceType
    <2>3. h \in Commands /\ t \in Seq(Commands) /\ pend = y \o t /\ h \in Exits
      BY <1>3, <1>7, SplitFirst DEF Exits
    <2>4. d = <<Last(pri)>> \o t /\ Last(pri) \in Commands
      BY <1>2, <2>1, SplitLast DEF Displaced
    <2>5. y \in Seq(Commands) /\ Places(y, Exits) # {}
      BY <2>3, SingleOne
    <2>6. Fill(g, d)
      BY <1>7
    <2>. HIDE DEF g, d, y, t, h
    <2>7. Places(t, Exits) = {}
      <3>1. Single(y \o t, Exits)
        BY <1>3, <2>3
      <3>. QED BY <2>3, <2>5, <3>1, SingleParts
    <2>8. Single(d, Exits)
      BY <2>3, <2>4, <2>7, SingleFirst
    <2>9. Len(g) <= PrioritySize
      BY <1>5, <2>2
    <2>. QED BY <2>2, <2>6, <2>8, <2>9, FillSingle, Zenon DEF OneExit
  <1>. QED BY <1>4, <1>6, <1>7

\* The inductive step of OneExit.
LEMMA OneExitStep ==
  ASSUME TypeOK, OneExit, [Next]_vars
  PROVE  OneExit'
  <1>1. QueuesOK /\ QueuesOK' /\ RefreshTypeOK
    BY TypeQueues, QueuesStep
  <1>2. CASE UNCHANGED pendingMaintenance
    BY <1>2 DEF OneExit, Single, Places, Exits
  <1>3. CASE Submit
    <2>. DEFINE w == Withdrawn(pendingMaintenance)
    <2>1. w \in Seq(Commands) /\ SameOrder(pendingMaintenance, w, Exits)
      BY <1>1, ExitClass, WithdrawnType, WithdrawnSame DEF QueuesOK
    <2>2. \/ pendingMaintenance' = w
          \/ /\ WakeCommand \in {"SREFEX", "PDX"}
             /\ pendingMaintenance' = ScheduledExit(WakeCommand, w)
      BY <1>3 DEF Submit, WakeCommand
    <2>. HIDE DEF w
    <2>3. /\ Single(w, Exits)
          /\ (\A q \in Waiting : ~IsExit(q)) => Places(w, Exits) = {}
      BY <1>1, <2>1, NoneWaits, SameSingle DEF QueuesOK, OneExit
    <2>4. Single(pendingMaintenance', Exits)
      BY <2>1, <2>2, <2>3, ScheduledSingle
    <2>. QED BY <2>4 DEF OneExit, Single, Places, Exits
  <1>4. CASE Tick
    <2>1. \/ pendingMaintenance' = pendingMaintenance
          \/ pendingMaintenance' = ScheduledExit("SREFEX", pendingMaintenance)
      BY <1>4 DEF Tick
    <2>2. Single(ScheduledExit("SREFEX", pendingMaintenance), Exits)
      BY <1>1, NoneWaits, ScheduledSingle DEF QueuesOK, OneExit
    <2>. QED BY <1>2, <2>1, <2>2 DEF OneExit, Single, Places, Exits
  <1>5. CASE Service
    BY <1>1, <1>5, ServiceSingle
  <1>6. CASE EndTick
    <2>1. <<AutomaticEntry>> \in Seq(Commands) /\ Places(<<AutomaticEntry>>, Exits) = {}
      BY EntryKind, ExitClass, NoPlaces
    <2>2. Single(pendingMaintenance \o <<AutomaticEntry>>, Exits)
      BY <1>1, <2>1, SingleJoin DEF QueuesOK, OneExit
    <2>. QED BY <1>1, <1>2, <1>6, <2>2, EndTickLine DEF OneExit, Single, Places, Exits
  <1>7. CASE ScheduleRefresh
    <2>1. ASSUME NEW r \in Rank,
                 pendingMaintenance' = pendingMaintenance \o Batch(r)
          PROVE  OneExit'
      <3>1. Batch(r) \in Seq(Commands) /\ Places(Batch(r), Exits) = {}
        <4>. DEFINE b == Batch(r)
        <4>1. b \in Seq(Commands) /\ \A i \in DOMAIN b : b[i].cmd = "REF"
          BY <1>1, BatchOf
        <4>. HIDE DEF b
        <4>2. Places(b, Exits) = {}
          BY <4>1, ExitClass DEF Places
        <4>. QED BY <4>1, <4>2 DEF b
      <3>2. Single(pendingMaintenance \o Batch(r), Exits)
        BY <1>1, <3>1, SingleJoin DEF QueuesOK, OneExit
      <3>. QED BY <2>1, <3>2 DEF OneExit, Single, Places, Exits
    <2>. QED BY <1>2, <1>7, <2>1 DEF ScheduleRefresh
  <1>8. CASE SubmitControl \/ IssueHead \/ LeavesLine
    <2>1. UNCHANGED pendingMaintenance
      BY <1>8, LeavesLineAlone DEF SubmitControl, IssueHead, IssueRefresh, IssueMRW,
         IssuePDE, IssuePDX, IssueSREFEN, IssueSREFEX, queues
    <2>. QED BY <1>2, <2>1
  <1>. QED BY <1>3, <1>4, <1>5, <1>6, <1>7, <1>8, StepCases DEF Shuffles, IssueHead
-----------------------------------------------------------------------------
MaintenanceInv == TypeOK /\ LineKept /\ LineRotates /\ OneExit /\ (Automatic => EntryStands)

\* The initial state satisfies the inductive invariant.
LEMMA MaintenanceInitHolds == MaintenanceInit => MaintenanceInv
  <1>. SUFFICES ASSUME MaintenanceInit PROVE MaintenanceInv
    OBVIOUS
  <1>1. Line = <<>> /\ pendingMaintenance = <<>>
    BY DEF MaintenanceInit, Line
  <1>2. LineRotates
    <2>1. \A C : From(<<>>, 1, C) = {}
      BY DEF From
    <2>. QED BY <1>1, <2>1 DEF LineRotates, Rotates
  <1>3. \A C : Places(<<>>, C) = {}
    BY DEF Places
  <1>4. OneExit /\ EntryStands
    BY <1>1, <1>3 DEF OneExit, EntryStands, Single
  <1>. QED BY <1>2, <1>4, KeptInit DEF MaintenanceInv

\* Every step keeps it.  What the manager keeps comes from ImplementsManager.
LEMMA MaintenanceInvStep == MaintenanceInv /\ RefreshTypeOK' /\ [Next]_vars => MaintenanceInv'
  <1>. SUFFICES ASSUME MaintenanceInv, RefreshTypeOK', [Next]_vars PROVE MaintenanceInv'
    OBVIOUS
  <1>1. TypeOK' /\ LineKept' /\ LineRotates' /\ OneExit'
    BY ControllerTypeStep, KeptStep, RotateStep, OneExitStep DEF MaintenanceInv
  <1>2. ASSUME Automatic' PROVE EntryStands'
    <2>1. setup' = setup
      BY StepCases, LeavesLineAlone, ShufflesUnchanged, ControlJoins, BatchJoins,
         RefreshLeaves, WriteLeaves DEF MaintenanceInv
    <2>2. Automatic
      BY <1>2, <2>1 DEF Automatic
    <2>. QED BY <2>2, StandsStep DEF MaintenanceInv
  <1>. QED BY <1>1, <1>2 DEF MaintenanceInv

-----------------------------------------------------------------------------
\* The state of the manager in every state of the controller.
LEMMA RefreshTypeHolds == Spec => []RefreshTypeOK
  BY ImplementsManager, RefreshTypeCorrect, PTL

\* The invariant that the results below are parts or consequences of: it is
\* inductive for the queues, because only the order of the two together says
\* which refresh the next REF is and whose entry the next SREFEN.
THEOREM LineInvariantHolds == Spec => []MaintenanceInv
  <1>1. MaintenanceInv /\ RefreshTypeOK' /\ [Next]_vars => MaintenanceInv'
    BY MaintenanceInvStep
  <1> QED BY <1>1, MaintenanceInitHolds, RefreshTypeHolds, PTL DEF Spec

\* Type correctness of the maintenance path: Priority stays within its size
\* however exits and displaced commands move, and no more MRW commands issue
\* than the frontend submitted.
THEOREM MaintenanceTypeCorrect == Spec => []TypeOK
  <1>1. MaintenanceInv => TypeOK
    BY DEF MaintenanceInv
  <1> QED BY <1>1, LineInvariantHolds, PTL

\* Moving an exit to the front of a full queue, displacing a command, and
\* withdrawing an entry lose and repeat no refresh and no MRW.
THEOREM CommandsAreKept == Spec => []CommandsKept
  <1>1. MaintenanceInv => CommandsKept
    BY KeptIsCounted DEF MaintenanceInv
  <1> QED BY <1>1, LineInvariantHolds, PTL

\* Refreshes issue in the order of the bank rotation of RefreshManager, whatever
\* else the two queues hold and however often the exit overtakes them.
THEOREM RefreshesKeepRotation == Spec => []RefreshesRotate
  <1>1. MaintenanceInv => RefreshesRotate
    BY RotateIsTurn DEF MaintenanceInv
  <1> QED BY <1>1, LineInvariantHolds, PTL

\* With low-power states left to the controller, only an idle one issues SREFEN:
\* a request that arrives first withdraws the entry, in either queue.
THEOREM SleepsIdle == Spec => SleepsOnlyWhenIdle
  <1>1. MaintenanceInv /\ [Next]_vars => [Automatic /\ ~asleep /\ asleep' => work = {}]_vars
    <2>. SUFFICES ASSUME MaintenanceInv, [Next]_vars, Automatic, ~asleep, asleep'
                  PROVE  work = {}
      OBVIOUS
    <2>1. IssueSREFEN
      BY FallsAsleep
    <2>2. QueuesOK /\ EntryStands
      BY TypeQueues DEF MaintenanceInv
    <2>. QED BY <2>1, <2>2, EntryIssues
  <1> QED BY <1>1, LineInvariantHolds, PTL DEF Spec, SleepsOnlyWhenIdle

\* pending_maintenance_ never holds two exits, which is why splicing one of
\* them to the front of what moves to Priority splices all (Fill).
THEOREM OneExitWaits == Spec => []OneExit
  <1>1. MaintenanceInv => OneExit
    BY DEF MaintenanceInv
  <1> QED BY <1>1, LineInvariantHolds, PTL
=============================================================================
