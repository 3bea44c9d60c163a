---------------------------- MODULE BankProtocol ----------------------------
(***************************************************************************)
(* From queued requests to DRAM commands: the command selection of         *)
(* Controller, check_command_state(), CommandExecutor, TimingEngine,       *)
(* RfmManager, RowPolicyEngine and select_scheduled_request().             *)
(*                                                                         *)
(* One controller tick is Advance and then one step per command bus:       *)
(* Column and Row on HBM, Unified on LPDDR.  Times are the ticks that are  *)
(* left until a gate opens (module DramSpec), so the clock itself is not   *)
(* part of the state.  Every request goes to a line of its own: order      *)
(* between overlapping requests, write merging and the PHY FIFOs are the   *)
(* subject of ControllerData, power states of Maintenance.                 *)
(***************************************************************************)
EXTENDS DramSpec, Sequences, SequencesExt

CONSTANTS
  MaxRequests      \* bound on the reads and writes of a behaviour

VARIABLES
  dev,        \* spec_
  phase,      \* where tick() is: "idle" and "busy" between two ticks
  bank,       \* banks_: open row (0: closed), activating, ticks to the
              \* deadline of ACT2 (-1: past, or none)
  gate,       \* every gate that is closed, and for how long
  acts,       \* recent_acts of each activation scope
  sweep,      \* refdb_states_ of each rank: count and visited banks
  queue,      \* request_queues_
  pending,    \* pending_maintenance_
  writeMode,  \* write_mode_
  rfm,        \* act_count_since_rfm_ and rfm_pending_bank_ of each bank
  rfmAll,     \* ranks with rfm_pending_all_bank_
  policy,     \* column_accesses_ and precharge_pending_ of each bank
  retrain,    \* wck_retrain_required_
  rising,     \* is_rising_edge()
  edge,       \* rising_edge_
  issued,     \* the command of this step, as append_issued() records it
  failed,     \* tick() threw
  given,      \* reads and writes, and maintenance requests, submitted so far
  uses        \* history: data commands since the row of a bank was opened

deviceVars == <<bank, gate, acts, sweep, retrain>>
policyVars == <<rfm, rfmAll, policy>>
vars == <<dev, phase, deviceVars, queue, pending, writeMode, policyVars,
          rising, edge, issued, failed, given, uses>>

Dram == Devices[dev]
T == Dram.t
D(n) == Delay(dev, n)
Banks == BanksOf(dev)
Kinds == {"Active", "Priority", "Read", "Write"}

NoCommand == [cmd |-> "NOP", bank |-> 0, row |-> 0, id |-> 0, bus |-> "None"]
NoEdge == [cmd |-> "NOP", bank |-> 0, left |-> -1]

Request(id, type, next, b, row) ==
  [id |-> id, type |-> type, next |-> next, bank |-> b, row |-> row,
   first |-> FALSE]

Init ==
  /\ dev \in DOMAIN Devices
  /\ phase = "idle"
  /\ bank = [b \in Banks |-> [row |-> 0, activating |-> FALSE, deadline |-> -1]]
  /\ gate = NoGates
  /\ acts = [s \in {At(dev, Dram.actScope, b) : b \in Banks} |-> {}]
  /\ sweep = [s \in {At(dev, "Rank", b) : b \in Banks} |-> [count |-> 0, visited |-> {}]]
  /\ queue = [k \in Kinds |-> <<>>]
  /\ pending = <<>>
  /\ writeMode = FALSE
  /\ rfm = [b \in Banks |-> [count |-> 0, due |-> FALSE]]
  /\ rfmAll = {}
  /\ policy = [b \in Banks |-> [accesses |-> 0, closing |-> FALSE]]
  /\ retrain = FALSE
  /\ rising = FALSE
  /\ edge = NoEdge
  /\ issued = NoCommand
  /\ failed = FALSE
  /\ given = [data |-> 0, maintenance |-> 0]
  /\ uses = [b \in Banks |-> 0]

-----------------------------------------------------------------------------
(* Gates by name: bank-local, of the row and column bus, of the bank group, *)
(* of the WCK domain.                                                      *)

BankGate(name, b) == <<name, At(dev, "Bank", b)>>
GroupGate(name, b) == <<name, At(dev, "BankGroup", b)>>
RowGate(name, b) == <<name, At(dev, Dram.rowScope, b)>>
ColumnGate(name, b) == <<name, At(dev, Dram.colScope, b)>>
WckGate(name, b) == <<name, At(dev, Dram.wckScope, b)>>
SweepGate(b) == <<"refdb_ready", At(dev, "Rank", b)>>

Open(k) == Left(gate, k) = 0
AllOpen(keys) == \A k \in keys : Open(k)

-----------------------------------------------------------------------------
(* What a request needs next, and whether it may have it *)

Busy(b) == bank[b].activating \/ bank[b].row # 0
RankBusy(b) == \E x \in RankBanks(dev, b) : Busy(x)
ChannelBusy(b) == \E x \in Banks : At(dev, "Channel", x) = At(dev, "Channel", b) /\ Busy(x)

IsMaintenance(r) == r.type = "Maintenance"
RowHit(r) == bank[r.bank].row = r.row

WckReady(b) ==
  \/ ~Dram.lpddr
  \/ Dram.alwaysOn
  \/ Open(WckGate("wck_ready", b)) /\ ~Open(WckGate("wck_until", b))

PairIdle(b) ==
  \A x \in {b, Partner(dev, b)} : ~Busy(x) /\ Open(BankGate("next_act", x))

\* next_command() for a row hit of LPDDR without a WCK window: CAS, unless one
\* is under way or the window would end before the data command.
CasCommand(r) ==
  LET data == IF r.type = "Read" THEN "RD" ELSE "WR"
      gateLeft == Larger(
        Left(gate, BankGate(IF r.type = "Read" THEN "next_rd" ELSE "next_wr", r.bank)),
        ConstraintLeft(dev, gate, data, r.bank))
      ready == D(Larger(1, Larger(T.nCAS, T.nWCK2CK)))
      end == D(Larger(T.nWCKPST, T.nWCK2CK + 1))
  IN IF \/ /\ ~Open(WckGate("wck_ready", r.bank))
           /\ ~Open(WckGate("wck_until", r.bank))
        \/ Larger(gateLeft, ready) >= end
     THEN "NOP"
     ELSE IF r.type = "Read" THEN "CASRD" ELSE "CASWR"

DataCommand(r) ==
  IF r.type = "Read"
  THEN IF Dram.policy = "ClosedPage" THEN "RDA" ELSE "RD"
  ELSE IF Dram.policy = "ClosedPage" THEN "WRA" ELSE "WR"

\* next_command(); "NOP" when there is none now.
NextCommand(r) ==
  LET b == r.bank IN
  IF IsMaintenance(r)
  THEN IF r.next \in AllBankMaintenance /\ RankBusy(b) THEN "PREAB"
       ELSE IF r.next \in PerBankMaintenance /\ Busy(b) THEN "PREPB"
       ELSE IF r.next = "REFDB" /\ ~PairIdle(b) /\ RankBusy(b) THEN "PREAB"
       ELSE r.next
  ELSE IF RowHit(r)
  THEN IF Dram.lpddr /\ ~WckReady(b) THEN CasCommand(r) ELSE DataCommand(r)
  ELSE IF bank[b].row # 0 THEN "PREPB"
  ELSE IF bank[b].activating THEN IF r.first THEN "ACT2" ELSE "NOP"
  ELSE IF Dram.split THEN IF r.first THEN "ACT2" ELSE "ACT1"
  ELSE "ACT"

\* check_command_state() of the snapshot that state_ok() takes.
StateLegal(r, cmd) ==
  LET b == r.bank
      opened == bank[b].row # 0 /\ ~bank[b].activating
      ofController == IsMaintenance(r)
  IN CASE cmd = "ACT" -> ~Dram.split /\ ~Busy(b)
       [] cmd = "ACT1" -> Dram.split /\ ~Busy(b)
       [] cmd = "ACT2" -> Dram.split /\ bank[b].activating /\ r.first
       [] cmd = "PREPB" -> opened
       [] cmd = "PREAB" -> RankBusy(b)
       [] cmd \in {"CASRD", "CASWR"} ->
            Dram.lpddr /\ opened /\ RowHit(r) /\ ~retrain
       [] cmd \in DataCommands ->
            opened /\ RowHit(r) /\ (Dram.lpddr => WckReady(b) /\ ~retrain)
       [] cmd \in PerBankMaintenance -> ofController /\ ~Busy(b)
       [] cmd \in AllBankMaintenance -> ofController /\ ~RankBusy(b)
       [] cmd \in {"MRW", "MRR"} -> ofController /\ ~ChannelBusy(b)
       [] cmd = "WCKSYNC" -> Dram.lpddr /\ ~retrain
       [] cmd \in {"WCKTRAIN", "DVFS"} ->
            Dram.lpddr /\ ofController /\ ~ChannelBusy(b)
       [] cmd = "ECCSCRUB" -> ofController /\ Dram.ecc /\ ~ChannelBusy(b)
       [] cmd = "RASERR" -> ofController /\ (Dram.ecc \/ Dram.linkRetry)
       [] OTHER -> FALSE

\* constraint_ready()
ConstraintReady(cmd, b) ==
  /\ Dram.dualBankRefresh /\ cmd = "REFDB" =>
       /\ Open(SweepGate(b))
       /\ {b, Partner(dev, b)} \cap sweep[At(dev, "Rank", b)].visited = {}
  /\ ConstraintLeft(dev, gate, cmd, b) = 0

FawReady(b) == ~FawFull(acts[At(dev, Dram.actScope, b)])

FaultRankActivating(b) == bank[b].activating
RankActivating(b) == \E x \in RankBanks(dev, b) : bank[x].activating

\* timing_ok(): the gates a command looks at.
ActivateGatesOpen(b) ==
  /\ AllOpen({BankGate("next_act", b), RowGate("next_row", b),
              RowGate("next_act", b), GroupGate("next_act", b)})
  /\ FawReady(b)

DataGatesOpen(r, first) ==
  /\ AllOpen({BankGate(first, r.bank), BankGate("next_any_col", r.bank),
              ColumnGate("next_col", r.bank), GroupGate("next_col", r.bank)})
  /\ WckReady(r.bank)

GatesOpen(r, cmd) ==
  LET b == r.bank IN
  CASE cmd = "ACT" -> ActivateGatesOpen(b)
    [] cmd = "ACT1" -> ~RankActivating(b) /\ ActivateGatesOpen(b)
    [] cmd = "ACT2" -> AllOpen({BankGate("next_act2", b), RowGate("next_row", b)})
    [] cmd = "PREPB" -> AllOpen({BankGate("next_pre", b), RowGate("next_row", b)})
    [] cmd \in {"CASRD", "CASWR", "WCKSYNC"} ->
         AllOpen({ColumnGate("next_col", b), WckGate("next_cas", b)})
    [] cmd \in Reads -> DataGatesOpen(r, "next_rd")
    [] cmd \in Writes -> DataGatesOpen(r, "next_wr")
    [] cmd \in {"REFPB", "RFMPB"} ->
         /\ AllOpen({BankGate("next_act", b), RowGate("next_row", b)})
         /\ cmd = "REFPB" => FawReady(b)
    [] cmd = "REFDB" -> PairIdle(b) /\ Open(RowGate("next_row", b)) /\ FawReady(b)
    [] OTHER -> Open(RowGate("next_row", b))

TimingOk(r, cmd) ==
  StateLegal(r, cmd) /\ ConstraintReady(cmd, r.bank) /\ GatesOpen(r, cmd)

ActiveCount(b) == Cardinality({i \in DOMAIN queue["Active"] : queue["Active"][i].bank = b})

FaultWouldCloseActive(r, cmd) ==
  cmd \in {"PREPB"} \cup PerBankMaintenance /\ ActiveCount(r.bank) > 0

\* would_close_active()
WouldCloseActive(r, cmd) ==
  \/ /\ cmd \in {"PREPB"} \cup PerBankMaintenance
     /\ ActiveCount(r.bank) > 0
  \/ /\ cmd \in {"PREAB"} \cup AllBankMaintenance
     /\ \E b \in RankBanks(dev, r.bank) : ActiveCount(b) > 0

\* can_issue_falling_edge_pre()
MayPair(r, cmd) ==
  \/ edge.left # 0
  \/ At(dev, "PseudoChannel", edge.bank) # At(dev, "PseudoChannel", r.bank)
  \/ edge.cmd \notin AllBank /\ cmd = "PREPB" /\ r.bank # edge.bank

\* bus_matches()
BusMatches(r, cmd, bus) ==
  \/ bus = "Unified"
  \/ /\ Dram.edgePairing => rising
     /\ cmd \in IF bus = "Row" THEN RowCommands ELSE ColumnCommands
  \/ /\ Dram.edgePairing /\ ~rising
     /\ bus = "Row"
     /\ cmd \in {"PREPB", "PREAB"}
     /\ Dram.strictPairing => MayPair(r, cmd)

-----------------------------------------------------------------------------
(* Selection *)

\* A Candidate: where the request waits, and what it needs next.
Candidates(kind) ==
  {[kind |-> kind, at |-> i, r |-> queue[kind][i], cmd |-> NextCommand(queue[kind][i])] :
     i \in DOMAIN queue[kind]}

\* candidate_eligible()
Eligible(c, bus) ==
  /\ c.cmd # "NOP"
  /\ BusMatches(c.r, c.cmd, bus)
  /\ c.kind # "Active" => ~WouldCloseActive(c.r, c.cmd)

Ready(c) == TimingOk(c.r, c.cmd)

\* pick_urgent_act2(): an ACT2 on its last tick, and one that is past it.
WaitsForAct2(c) == c.kind = "Active" /\ Dram.split /\ c.cmd = "ACT2"
FaultUrgent(c) == FALSE
Urgent(c) == WaitsForAct2(c) /\ bank[c.r.bank].deadline = 0
MissesDeadline ==
  \E c \in Candidates("Active") : WaitsForAct2(c) /\ bank[c.r.bank].deadline < 0

FaultSatisfied(r) == FALSE

\* A PREPB for a bank that is closed by now is taken back.
Satisfied(r) == r.next = "PREPB" /\ ~Busy(r.bank)
SatisfiedCount ==
  LET q == queue["Priority"]
      unmet == {i \in DOMAIN q : ~Satisfied(q[i])}
  IN IF unmet = {} THEN Len(q) ELSE Min(unmet) - 1

TakeBack(q) == [q EXCEPT !["Priority"] = SubSeq(@, SatisfiedCount + 1, Len(@))]

\* RowPolicyEngine::on_issue()
PolicyAfter(p, cmd, b) ==
  IF Dram.policy # "ClosedCap" THEN p
  ELSE IF cmd = "PREAB"
  THEN [x \in Banks |-> [accesses |-> 0, closing |-> FALSE]]
  ELSE IF cmd \in Closing
  THEN [p EXCEPT ![b] = [accesses |-> 0, closing |-> FALSE]]
  ELSE IF cmd \in Accessing THEN [p EXCEPT ![b].accesses = @ + 1]
  ELSE p

PolicyTakenBack ==
  LET closed == {queue["Priority"][i].bank : i \in 1..SatisfiedCount} IN
  IF Dram.policy # "ClosedCap" THEN policy
  ELSE [b \in Banks |-> IF b \in closed
                        THEN [accesses |-> 0, closing |-> FALSE] ELSE policy[b]]

\* set_write_mode()
ModeNow ==
  LET reads == Len(queue["Read"])
      writes == Len(queue["Write"])
  IN IF ~writeMode THEN writes > Dram.highMark \/ reads = 0
     ELSE ~(writes < Dram.lowMark /\ reads > 0)

\* A candidate that its class offers to the bus: the active buffer (only its
\* urgent ACT2 on the row bus), the head of Priority, or, when Priority is empty,
\* the data queue of the mode.  select_scheduled_request() under FCFS gives a queue
\* no one younger than its oldest eligible request.
Offered(c, bus) ==
  /\ CASE c.kind = "Active" -> bus = "Row" => Urgent(c)
       [] c.kind = "Priority" -> c.at = SatisfiedCount + 1
       [] OTHER -> /\ SatisfiedCount = Len(queue["Priority"])
                   /\ c.kind = (IF ModeNow THEN "Write" ELSE "Read")
  /\ Eligible(c, bus) /\ Ready(c)
  /\ Dram.scheduler = "FCFS" /\ ~Urgent(c) =>
       \A x \in Candidates(c.kind) : Eligible(x, bus) => c.r.id <= x.r.id

Class(c) ==
  IF Urgent(c) THEN 1 ELSE IF c.kind = "Active" THEN 2
  ELSE IF c.kind = "Priority" THEN 3 ELSE 4

\* choose(): the first class that offers one, and the oldest of the class.
Offers(bus) == {c \in UNION {Candidates(k) : k \in Kinds} : Offered(c, bus)}
Before(c, x) == Class(c) < Class(x) \/ (Class(c) = Class(x) /\ c.r.id <= x.r.id)

FaultUpgraded(r, cmd, bus, p) == cmd

\* try_upgrade_row_policy_command()
Upgraded(r, cmd, bus, p) ==
  LET closing == IF cmd = "RD" THEN "RDA" ELSE "WRA" IN
  IF /\ Dram.policy = "ClosedCap" /\ cmd \in {"RD", "WR"}
     /\ p[r.bank].accesses >= Dram.cap
     /\ BusMatches(r, closing, bus) /\ TimingOk(r, closing)
  THEN closing ELSE cmd

-----------------------------------------------------------------------------
(* CommandExecutor::issue() *)

\* Gates that a command sets, whatever they were.
SetGates(cmd, b) ==
  LET row(n) == Shut(RowGate("next_row", b), n)
      activate == Shut(BankGate("next_rd", b), D(T.nRCDRD))
               ++ Shut(BankGate("next_wr", b), D(T.nRCDWR))
               ++ Shut(BankGate("next_pre", b), D(T.nRAS))
               ++ Shut(BankGate("next_act", b), D(T.nRC))
               ++ Shut(RowGate("next_act", b), D(T.nRRDS))
               ++ Shut(GroupGate("next_act", b), D(T.nRRDL)) ++ row(1)
      column == Shut(BankGate("next_any_col", b), D(T.nCCDL))
             ++ Shut(ColumnGate("next_col", b), D(T.nCCDS))
             ++ Shut(GroupGate("next_col", b), D(T.nCCDL))
      wait(n) == row(D(Larger(1, n)))
  IN CASE cmd = "ACT" -> activate
       [] cmd = "ACT1" -> Shut(BankGate("next_act2", b), D(Larger(1, T.nAADMin))) ++ activate
       [] cmd = "ACT2" -> Shut(BankGate("next_act2", b), 0) ++ row(1)
       [] cmd = "PREPB" -> Shut(BankGate("next_act", b), D(T.nRP)) ++ row(1)
       [] cmd \in {"CASRD", "CASWR"} ->
            Shut(ColumnGate("next_col", b), 1) ++ Shut(WckGate("next_cas", b), 1)
            ++ Shut(WckGate("wck_ready", b), D(Larger(1, T.nWCK2CK)))
            ++ Shut(WckGate("wck_until", b), D(Larger(T.nWCKPST, T.nWCK2CK + 1)))
       [] cmd \in Reads -> Shut(BankGate("next_rd", b), D(T.nCCDL)) ++ column
       [] cmd \in Writes -> Shut(BankGate("next_wr", b), D(T.nCCDL)) ++ column
       [] cmd = "REFPB" -> Shut(BankGate("next_act", b), D(T.nRFCpb)) ++ row(1)
       [] cmd = "REFDB" ->
            Shut(BankGate("next_act", b), D(T.nRFCpb)) ++ row(1)
       [] cmd = "RFMPB" ->
            Shut(BankGate("next_act", b),
                 D(IF T.nRFMpb > 0 THEN T.nRFMpb ELSE T.nRFCpb)) ++ row(1)
       [] cmd = "MRW" -> wait(T.nMRW)
       [] cmd = "MRR" -> wait(T.nMRR)
       [] cmd = "WCKSYNC" ->
            Shut(ColumnGate("next_col", b), 1)
            ++ Shut(WckGate("next_cas", b), D(Larger(1, T.nWCKSYNC)))
            ++ Shut(WckGate("wck_ready", b), D(Larger(1, T.nWCKSYNC)))
       [] cmd = "WCKTRAIN" ->
            LET n == D(Larger(1, T.nWCKTRAIN)) IN
            row(n) ++ Shut(WckGate("next_cas", b), n) ++ Shut(WckGate("wck_ready", b), n)
            ++ Shut(WckGate("wck_until", b), n + D(Larger(1, T.nWCKPST)))
       [] cmd = "DVFS" ->
            LET n == D(Larger(1, T.nDVFS)) IN
            row(n) ++ Shut(ColumnGate("next_col", b), n) ++ Shut(WckGate("next_cas", b), n)
       [] cmd = "ECCSCRUB" -> wait(T.nECCSCRUB)
       [] cmd = "RASERR" -> wait(T.nRASERR)
       [] OTHER -> row(1)

\* Gates that a command moves to a later tick only.
MovedGates(cmd, b) ==
  LET recovery == IF cmd \in Reads THEN T.nRTP ELSE WriteRecovery(T)
      burst == IF cmd \in Reads THEN T.nCL ELSE T.nCWL
      all(n) == [k \in {BankGate("next_act", x) : x \in RankBanks(dev, b)} |-> n]
  IN CASE cmd \in DataCommands ->
            Shut(BankGate("next_pre", b), D(recovery))
            ++ (IF cmd \in Closing
                THEN Shut(BankGate("next_act", b), D(recovery) + D(T.nRP)) ELSE NoGates)
            ++ (IF Dram.lpddr
                THEN Shut(WckGate("wck_until", b), D(burst + T.nBL + T.nWCKPST))
                ELSE NoGates)
       [] cmd = "REFDB" -> Shut(BankGate("next_act", Partner(dev, b)), D(T.nRFCpb))
       [] cmd = "PREAB" -> all(D(IF T.nRPab > 0 THEN T.nRPab ELSE T.nRP))
       [] cmd = "REFAB" -> all(D(T.nRFC))
       [] cmd = "RFMAB" -> all(D(IF T.nRFMab > 0 THEN T.nRFMab ELSE T.nRFC))
       [] cmd = "WCKSYNC" ->
            Shut(WckGate("wck_until", b), D(Larger(T.nWCKPST, T.nWCKSYNC + 1)))
       [] cmd = "RASERR" -> Shut(ColumnGate("next_col", b), D(Larger(1, T.nLINKRETRY)))
       [] OTHER -> NoGates

\* The sweep of REFDB over the pairs of a rank.
SweepAfter(cmd, b) ==
  LET rank == At(dev, "Rank", b)
      count == (sweep[rank].count + 1) % PairCount(dev)
  IN IF ~Dram.dualBankRefresh \/ cmd \notin {"REFDB", "REFAB"} THEN sweep
     ELSE [sweep EXCEPT ![rank] =
            IF cmd = "REFDB" /\ count # 0
            THEN [count |-> count, visited |-> @.visited \cup {b, Partner(dev, b)}]
            ELSE [count |-> 0, visited |-> {}]]

SweepGates(cmd, b) ==
  LET short == IF T.nREFDB2REFDBS > 0 THEN T.nREFDB2REFDBS ELSE T.nRRDL
      long == IF T.nREFDB2REFDBL > 0 THEN T.nREFDB2REFDBL ELSE short
      sweepEnds == SweepAfter(cmd, b)[At(dev, "Rank", b)].count = 0
  IN IF ~Dram.dualBankRefresh THEN NoGates
     ELSE CASE cmd = "REFDB" -> Shut(SweepGate(b), D(IF sweepEnds THEN long ELSE short))
            [] cmd = "REFAB" -> Shut(SweepGate(b), D(T.nRFC))
            [] OTHER -> NoGates

\* The gates that a command leaves, of which the latest counts.
GatesAfter(cmd, b) ==
  {SweepGates(cmd, b) ++ SetGates(cmd, b) ++ gate, MovedGates(cmd, b),
   HeldBack(dev, cmd, b)}

BankAfter(cmd, b, row) ==
  CASE cmd = "ACT" -> [bank EXCEPT ![b].row = row]
    [] cmd = "ACT1" ->
         [bank EXCEPT ![b] = [@ EXCEPT !.activating = TRUE,
                              !.deadline = D(Larger(T.nAADMin, T.nAADMax))]]
    [] cmd = "ACT2" ->
         [bank EXCEPT ![b] = [row |-> row, activating |-> FALSE, deadline |-> -1]]
    [] cmd = "PREPB" -> [bank EXCEPT ![b] = [@ EXCEPT !.row = 0, !.activating = FALSE]]
    [] cmd \in {"RDA", "WRA"} -> [bank EXCEPT ![b].row = 0]
    [] cmd = "PREAB" ->
         [x \in Banks |-> IF x \in RankBanks(dev, b)
                          THEN [bank[x] EXCEPT !.row = 0, !.activating = FALSE]
                          ELSE bank[x]]
    [] OTHER -> bank

\* RfmManager: on_activate(), on_rfmpb() and on_rfmab().
RfmOn == Dram.rfmThreshold > 0
Credited(n) == IF n > Dram.rfmDecrement THEN n - Dram.rfmDecrement ELSE 0
RfmDue(b) == RfmOn /\ rfm[b].count + 1 >= Dram.rfmThreshold
RaisesRfm(cmd, b) ==
  /\ cmd \in Opening /\ RfmDue(b)
  /\ IF Dram.rfmAllBank THEN At(dev, "Rank", b) \notin rfmAll ELSE ~rfm[b].due

RfmAfter(cmd, b) ==
  CASE cmd \in Opening /\ RfmOn ->
         [rfm EXCEPT ![b] = [count |-> @.count + 1,
                             due |-> @.due \/ (RaisesRfm(cmd, b) /\ ~Dram.rfmAllBank)]]
    [] cmd = "RFMPB" ->
         [rfm EXCEPT ![b] = [count |-> Credited(@.count), due |-> FALSE]]
    [] cmd = "RFMAB" ->
         [x \in Banks |-> IF x \in RankBanks(dev, b)
                          THEN [count |-> Credited(rfm[x].count), due |-> FALSE]
                          ELSE rfm[x]]
    [] OTHER -> rfm

FaultRfmAllAfter(cmd, b) ==
  IF RaisesRfm(cmd, b) /\ Dram.rfmAllBank THEN rfmAll \cup {At(dev, "Rank", b)}
  ELSE rfmAll

RfmAllAfter(cmd, b) ==
  CASE RaisesRfm(cmd, b) /\ Dram.rfmAllBank -> rfmAll \cup {At(dev, "Rank", b)}
    [] cmd = "RFMAB" -> rfmAll \ {At(dev, "Rank", b)}
    [] OTHER -> rfmAll

PendingAfter(cmd, b) ==
  IF RaisesRfm(cmd, b)
  THEN Append(pending, Request(0, "Maintenance",
                               IF Dram.rfmAllBank THEN "RFMAB" ELSE "RFMPB", b, 0))
  ELSE pending

-----------------------------------------------------------------------------
(* Controller::issue() *)

\* retire_or_advance()
QueueAfter(q, kind, i, cmd) ==
  LET r == [q[kind][i] EXCEPT !.first = @ \/ cmd = "ACT1"]
      without == [q EXCEPT ![kind] = RemoveAt(@, i)]
  IN IF (IsMaintenance(r) /\ cmd = r.next) \/ (~IsMaintenance(r) /\ cmd \in DataCommands)
     THEN without
     ELSE IF /\ cmd \in Opening /\ ~IsMaintenance(r) /\ kind # "Active"
             /\ Len(q["Active"]) < Dram.banks
     THEN [without EXCEPT !["Active"] = Append(@, r)]
     ELSE [q EXCEPT ![kind][i] = r]

EdgeAfter(cmd, b, bus) ==
  IF Dram.edgePairing /\ bus = "Row" /\ rising
  THEN [cmd |-> cmd, bank |-> b, left |-> IF cmd = "ACT" THEN 3 ELSE 1]
  ELSE edge

UsesAfter(cmd, b) ==
  IF Dram.policy # "ClosedCap" THEN uses
  ELSE IF cmd \in Opening THEN [uses EXCEPT ![b] = 0]
  ELSE IF cmd \in DataCommands THEN [uses EXCEPT ![b] = @ + 1]
  ELSE uses

IssueCommand(cmd, b, c, at, q, p, bus) ==
  LET rank == At(dev, Dram.actScope, b)
  IN /\ issued' = [cmd |-> cmd, bank |-> b, row |-> c.r.row, id |-> c.r.id, bus |-> bus]
     /\ bank' = BankAfter(cmd, b, c.r.row)
     /\ \E gates \in {GatesAfter(cmd, b)} : gate' = Latest(gates)
     /\ acts' = IF cmd \in Activating THEN [acts EXCEPT ![rank] = @ \cup {0}] ELSE acts
     /\ sweep' = SweepAfter(cmd, b)
     /\ rfm' = RfmAfter(cmd, b)
     /\ rfmAll' = RfmAllAfter(cmd, b)
     /\ pending' = PendingAfter(cmd, b)
     /\ retrain' = CASE cmd = "DVFS" /\ Dram.retrains -> TRUE
                     [] cmd = "WCKTRAIN" -> FALSE
                     [] OTHER -> retrain
     /\ policy' = PolicyAfter(p, cmd, b)
     /\ edge' = EdgeAfter(cmd, b, bus)
     /\ queue' = QueueAfter(q, c.kind, at, cmd)
     /\ uses' = UsesAfter(cmd, b)

Issue(c, at, q, p, bus) ==
  \E cmd \in {Upgraded(c.r, c.cmd, bus, p)}, b \in {c.r.bank} :
    IssueCommand(cmd, b, c, at, q, p, bus)

-----------------------------------------------------------------------------
(* One tick *)

FaultPrioritySpace == Dram.prioritySize
PrioritySpace == Dram.prioritySize - Len(queue["Priority"])

\* enqueue(): to the read or write queue, or to Priority while it has space.
Submit(r) ==
  /\ phase = "idle" /\ ~failed
  /\ IF IsMaintenance(r)
     THEN /\ PrioritySpace > 0
          /\ given' = [given EXCEPT !.maintenance = @ + 1]
          /\ queue' = [queue EXCEPT !["Priority"] = Append(@, r)]
     ELSE /\ given.data < MaxRequests
          /\ given' = [given EXCEPT !.data = @ + 1]
          /\ queue' = [queue EXCEPT ![r.type] = Append(@, r)]
  /\ phase' = "busy"
  /\ issued' = NoCommand
  /\ UNCHANGED <<dev, deviceVars, pending, writeMode, policyVars, rising, edge,
                 failed, uses>>

SubmitAny ==
  \/ \E w \in {x \in Dram.work : given.data + 1 \in x.turns} :
       Submit(Request(given.data + 1, w.type, "NOP", w.bank, w.row))
  \/ \E m \in {x \in Dram.maintenance : x.turn = given.maintenance + 1} :
       Submit(Request(0, "Maintenance", m.next, m.bank, 0))

\* The buses of a tick, in order.
FirstBus == IF Dram.dualBus THEN "Column" ELSE "Unified"
NextPhase(bus) == IF bus = "Column" THEN "Row" ELSE "idle"

\* clk_++, prune_recent_acts() and service_pending_maintenance().
Advance ==
  LET moved == Min({PrioritySpace, Len(pending)})
  IN /\ phase \in {"idle", "busy"} /\ ~failed
     /\ phase' = IF Dram.policy = "ClosedCap" THEN "policy" ELSE FirstBus
     /\ gate' = OneTickLess(gate)
     /\ bank' = [b \in Banks |-> [bank[b] EXCEPT !.deadline = Larger(-1, @ - 1)]]
     /\ acts' = [s \in DOMAIN acts |-> Aged(dev, acts[s])]
     /\ rising' = (Dram.edgePairing /\ ~rising)
     /\ edge' = IF edge.left > 0 THEN [edge EXCEPT !.left = @ - 1] ELSE NoEdge
     /\ queue' = [queue EXCEPT !["Priority"] = @ \o SubSeq(pending, 1, moved)]
     /\ pending' = SubSeq(pending, moved + 1, Len(pending))
     /\ issued' = NoCommand
     /\ UNCHANGED <<dev, sweep, retrain, writeMode, policyVars, failed, given, uses>>

\* apply_row_policy_pre_schedule()
DuePrecharges ==
  {r \in {Request(0, "Maintenance", "PREPB", b, 0) : b \in Banks} :
     /\ ActiveCount(r.bank) = 0
     /\ ~policy[r.bank].closing /\ policy[r.bank].accesses >= Dram.cap
     /\ TimingOk(r, "PREPB")}

SchedulePrecharges ==
  /\ phase = "policy"
  /\ phase' = FirstBus
  /\ \E due \in {SetToSortSeq(DuePrecharges, LAMBDA x, y : x.bank < y.bank)} :
       LET chosen == SubSeq(due, 1, Min({PrioritySpace, Len(due)}))
       IN /\ queue' = [queue EXCEPT !["Priority"] = @ \o chosen]
          /\ policy' = [b \in Banks |-> [policy[b] EXCEPT
               !.closing = @ \/ \E i \in DOMAIN chosen : chosen[i].bank = b]]
  /\ UNCHANGED <<dev, deviceVars, pending, writeMode, rfm, rfmAll, rising, edge,
                 issued, failed, given, uses>>

\* pick_urgent_act2() throws, and the simulation ends.
Throws == phase # "Column" /\ MissesDeadline

OnBus ==
  /\ phase \in {"Column", "Row", "Unified"} /\ ~failed
  /\ failed' = Throws
  /\ phase' = NextPhase(phase)
  /\ UNCHANGED <<dev, rising, given>>

\* choose() and issue().  What choose() takes back from Priority stays taken back.
IssueChosen ==
  /\ OnBus /\ ~failed'
  /\ \E offers \in {Offers(phase)} : \E c \in offers :
       /\ \A x \in offers : Before(c, x)
       /\ \E at \in {IF c.kind = "Priority" THEN 1 ELSE c.at},
            q \in {IF c.kind = "Active" THEN queue ELSE TakeBack(queue)},
            p \in {IF c.kind = "Active" THEN policy ELSE PolicyTakenBack} :
            Issue(c, at, q, p, phase)
       /\ writeMode' = IF c.kind \in {"Read", "Write"} THEN ModeNow ELSE writeMode

\* No candidate: the bus stays idle, and the queues are tidied all the same.
BusIdle ==
  /\ OnBus
  /\ failed' \/ Offers(phase) = {}
  /\ queue' = IF failed' THEN queue ELSE TakeBack(queue)
  /\ policy' = IF failed' THEN policy ELSE PolicyTakenBack
  /\ writeMode' = IF ~failed' /\ queue'["Priority"] = <<>> THEN ModeNow ELSE writeMode
  /\ issued' = NoCommand
  /\ UNCHANGED <<deviceVars, pending, rfm, rfmAll, edge, uses>>

Phases == {"idle", "busy", "policy", "Column", "Row", "Unified"}

Tick == Advance \/ SchedulePrecharges \/ IssueChosen \/ BusIdle

Next == SubmitAny \/ Tick

\* The steps of Tick that leave the clock running.  Until tick() throws one of
\* them is possible, which this form shows without evaluating the whole of Tick.
Running == ~failed /\ UNCHANGED given /\ \E p \in Phases \ {phase} : phase' = p
Fairness == WF_phase(Running)

Spec == Init /\ [][Next]_vars /\ Fairness
=============================================================================
