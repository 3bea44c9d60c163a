------------------------------ MODULE Refresh ------------------------------
(***************************************************************************)
(* RefreshManager (refresh.cpp): which rank owes how many refreshes, and   *)
(* which bank of it is next.  A deadline that passes is an obligation of   *)
(* every rank.  tick() lets at most one rank act: it postpones its         *)
(* obligation while ordinary work waits, or hands the controller a batch   *)
(* of REF commands, or does one early when the controller is idle.         *)
(*                                                                         *)
(* All ranks are reset together and advance by the same interval, so one   *)
(* next_refresh_cycle stands for all: the deadline lies `left` cycles      *)
(* ahead, and `passed` deadlines were crossed since the last tick(), which *)
(* the controller does not call while it leaves a low-power state.         *)
(***************************************************************************)
EXTENDS Integers

CONSTANTS
  Ranks, Sids, Positions,  \* ranks, SIDs, bank positions of one SID
  PseudoChannels,
  AllBank,                 \* refresh_policy: REFab instead of REFpb/REFdb
  Interval,                \* ticks between deadlines
  PullinWindow,            \* half of it: how early a refresh may come
  PostponeLimit, PullinLimit,
  CreditLimit              \* refresh_credit_limit, 0 for none

ASSUME RefreshAssumption ==
  /\ Ranks \in Nat \ {0} /\ Sids \in Nat \ {0} /\ Positions \in Nat \ {0}
  /\ PseudoChannels \in Nat \ {0} /\ Interval \in Nat \ {0}
  /\ PullinWindow \in Nat \ {0}
  /\ AllBank \in BOOLEAN
  /\ PostponeLimit \in Nat /\ PullinLimit \in Nat /\ CreditLimit \in Nat

VARIABLES
  left, passed,
  credit,      \* obligations not handed out; negative when ahead of time
  postponed,   \* postpone_count
  pulledIn,    \* pullin_count
  cursor,      \* rank -> next bank position, counted over all SIDs
  rankCursor,
  asleep,      \* self_refresh_active_
  owed,        \* history: commands that the deadlines passed awake call for
  outstanding  \* history: commands handed out and not issued

managerVars == <<left, passed, credit, postponed, pulledIn, cursor,
                 rankCursor, asleep>>
refreshVars == <<managerVars, owed, outstanding>>

-----------------------------------------------------------------------------
Rank == 0 .. Ranks - 1
Slots == Sids * Positions

\* Commands of a batch: a REFab for every PC and SID, or a REF per PC.
BatchSize == IF AllBank THEN PseudoChannels * Sids ELSE PseudoChannels

RefreshInit ==
  /\ left = Interval /\ passed = 0
  /\ credit = [r \in Rank |-> 0]
  /\ postponed = [r \in Rank |-> 0]
  /\ pulledIn = [r \in Rank |-> 0]
  /\ cursor = [r \in Rank |-> 0]
  /\ rankCursor = 0
  /\ asleep = FALSE
  /\ owed = [r \in Rank |-> 0]
  /\ outstanding = [r \in Rank |-> 0]

\* A cycle of the clock.  A deadline in self-refresh asks for no command.
Advance ==
  /\ left > 1
  /\ left' = left - 1
  /\ UNCHANGED <<passed, owed>>

Deadline ==
  /\ left = 1
  /\ left' = Interval
  /\ passed' = passed + 1
  /\ owed' = IF asleep THEN owed
             ELSE [r \in Rank |-> owed[r] + BatchSize]

Clock ==
  /\ Advance \/ Deadline
  /\ UNCHANGED <<credit, postponed, pulledIn, cursor, rankCursor, asleep,
                 outstanding>>

-----------------------------------------------------------------------------
(* tick(): first every rank counts the deadlines it has crossed.           *)

Counted ==
  [r \in Rank |-> IF asleep THEN credit[r] ELSE credit[r] + passed]
FaultPullsLeft == pulledIn
PullsLeft == [r \in Rank |-> IF Counted[r] >= 0 THEN 0 ELSE pulledIn[r]]

\* The first rank of a set, in the order that starts at rank_cursor_.
Distance(r) == (r - rankCursor) % Ranks
First(S) == {r \in S : \A s \in S : Distance(r) <= Distance(s)}

CanPostpone(r, busy) ==
  /\ passed > 0 /\ busy
  /\ postponed[r] < PostponeLimit
  /\ CreditLimit = 0 \/ Counted[r] <= CreditLimit

\* A postponed obligation waits between deadlines for the work to end.
Waits(r, busy) ==
  busy /\ passed = 0 /\ postponed[r] > 0 /\ postponed[r] < PostponeLimit

Obliged(busy) == {r \in Rank : Counted[r] > 0 /\ ~Waits(r, busy)}

Early(idle) ==
  {r \in Rank : /\ idle
                /\ Counted[r] = 0
                /\ left <= PullinWindow
                /\ PullsLeft[r] < PullinLimit}

NextRank(r) == (r + 1) % Ranks

\* seed_refresh_batch() moves on to the next bank, which REFab has none of.
Seed(r) ==
  /\ cursor' = IF AllBank THEN cursor
               ELSE [cursor EXCEPT ![r] = (@ + 1) % Slots]
  /\ outstanding' = [outstanding EXCEPT ![r] = @ + BatchSize]

Postpone(r, busy) ==
  /\ ~asleep
  /\ r \in First(Obliged(busy)) /\ CanPostpone(r, busy)
  /\ credit' = Counted
  /\ postponed' = [postponed EXCEPT ![r] = @ + 1]
  /\ pulledIn' = PullsLeft
  /\ rankCursor' = NextRank(r)
  /\ passed' = 0
  /\ UNCHANGED <<left, cursor, asleep, owed, outstanding>>

FaultRepay(r, busy) ==
  /\ ~asleep
  /\ r \in First(Obliged(busy)) /\ ~CanPostpone(r, busy)
  /\ Seed(r)
  /\ credit' = [Counted EXCEPT ![r] = 0]
  /\ postponed' = [postponed EXCEPT ![r] = 0]
  /\ pulledIn' = PullsLeft
  /\ rankCursor' = NextRank(r)
  /\ passed' = 0
  /\ UNCHANGED <<left, asleep, owed>>
Repay(r, busy) ==
  /\ ~asleep
  /\ r \in First(Obliged(busy)) /\ ~CanPostpone(r, busy)
  /\ Seed(r)
  /\ credit' = [Counted EXCEPT ![r] = @ - 1]
  /\ postponed' = [postponed EXCEPT ![r] = IF Counted[r] <= 1 THEN 0 ELSE @]
  /\ pulledIn' = PullsLeft
  /\ rankCursor' = NextRank(r)
  /\ passed' = 0
  /\ UNCHANGED <<left, asleep, owed>>

PullIn(r, busy, idle) ==
  /\ ~asleep
  /\ Obliged(busy) = {}
  /\ r \in First(Early(idle))
  /\ Seed(r)
  /\ credit' = [Counted EXCEPT ![r] = @ - 1]
  /\ pulledIn' = [PullsLeft EXCEPT ![r] = @ + 1]
  /\ rankCursor' = NextRank(r)
  /\ passed' = 0
  /\ UNCHANGED <<left, postponed, asleep, owed>>

\* No rank acts: in self-refresh, or nothing is due and nothing is early.
Rest(busy, idle) ==
  /\ asleep \/ (Obliged(busy) = {} /\ Early(idle) = {})
  /\ credit' = Counted
  /\ pulledIn' = PullsLeft
  /\ passed' = 0
  /\ UNCHANGED <<left, postponed, cursor, rankCursor, asleep, owed,
                 outstanding>>

-----------------------------------------------------------------------------
(* What the controller does with the manager.                              *)

SetSelfRefresh(active) ==
  /\ asleep' = active
  /\ UNCHANGED <<left, passed, credit, postponed, pulledIn, cursor,
                 rankCursor, owed, outstanding>>

\* A command handed out by a batch is issued.
Serve(r) ==
  /\ outstanding[r] > 0
  /\ outstanding' = [outstanding EXCEPT ![r] = @ - 1]
  /\ owed' = [owed EXCEPT ![r] = @ - 1]
  /\ UNCHANGED managerVars

\* The manager below any controller that issues SREFEN and SREFEX after the
\* tick() of the same cycle.
RefreshNext ==
  \/ Clock
  \/ \E busy, idle \in BOOLEAN :
       \/ \E r \in Rank : \/ Postpone(r, busy) \/ Repay(r, busy)
                          \/ PullIn(r, busy, idle)
       \/ Rest(busy, idle)
  \/ passed = 0 /\ \E active \in BOOLEAN : SetSelfRefresh(active)
  \/ \E r \in Rank : Serve(r)

RefreshSpec == RefreshInit /\ [][RefreshNext]_refreshVars

-----------------------------------------------------------------------------
RefreshTypeOK ==
  /\ left \in 1 .. Interval /\ passed \in Nat
  /\ credit \in [Rank -> Int]
  /\ postponed \in [Rank -> 0 .. PostponeLimit]
  /\ pulledIn \in [Rank -> 0 .. PullinLimit]
  /\ cursor \in [Rank -> 0 .. Slots - 1]
  /\ rankCursor \in Rank
  /\ asleep \in BOOLEAN
  /\ owed \in [Rank -> Int]
  /\ outstanding \in [Rank -> Nat]

\* The ledger (refresh.hpp, RankRefreshState::credit): what a rank owes for
\* the deadlines it passed awake is what it still has to hand out plus what
\* it has handed out and is not issued.  Postponing, pulling in, several
\* deadlines in one tick and self-refresh lose nothing and add nothing.
LedgerConserved ==
  \A r \in Rank : owed[r] = BatchSize * Counted[r] + outstanding[r]

\* The counters agree with the credit: a rank is at most one refresh ahead,
\* counts a postponed refresh only while it owes one, and an early one only
\* while it is ahead.  A stale counter would refuse to postpone or pull in.
CountersFollowCredit ==
  \A r \in Rank :
    /\ credit[r] >= -1
    /\ postponed[r] > 0 => credit[r] > 0
    /\ pulledIn[r] > 0 => credit[r] < 0
=============================================================================
