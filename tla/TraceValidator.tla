---------------------------- MODULE TraceValidator ----------------------------
(***************************************************************************)
(* The offline judge of a command trace (validate_command_trace()): it     *)
(* replays the commands against bank states, gates and windows of its own  *)
(* and shares nothing with the online engine but the DramSpec.             *)
(*                                                                         *)
(* The validator subtracts absolute cycles; here each reading is the time  *)
(* that is left, so Elapse stands for one cycle going by between two       *)
(* commands and Replay for one turn of the loop over the trace.            *)
(***************************************************************************)
EXTENDS DramSpec

VARIABLES
  dev,       \* the spec of the stack
  vbank,     \* ValidatorBankState: row, activating, its row, its request,
             \* ticks to next_act2 and to act2_deadline (-1: past)
  vgate,     \* constraint_scopes
  vacts,     \* activation_scopes
  vwck,      \* wck_scopes: ticks to ready and to the end of the window
  vsweep,    \* refresh_bank_count, refreshed_banks, ticks to refresh_next
  vretrain,  \* wck_retrain_required
  vpair,     \* ValidatorHbmPairingState
  odd,       \* parity of the cycle
  errors     \* report.errors, by rule

vvars == <<vbank, vgate, vacts, vwck, vsweep, vretrain, vpair, odd, errors>>

VDram == Devices[dev]
VT == VDram.t
VDelay(n) == Delay(dev, n)
VBanks == BanksOf(dev)

Closed == [row |-> 0, activating |-> FALSE, target |-> 0, request |-> 0,
           ready |-> 0, deadline |-> 0]
NoPair == [cmd |-> "NOP", bank |-> 0, left |-> -1]

VInit ==
  /\ vbank = [b \in VBanks |-> Closed]
  /\ vgate = NoGates
  /\ vacts = [s \in {At(dev, VDram.actScope, b) : b \in VBanks} |-> {}]
  /\ vwck = [s \in {At(dev, VDram.wckScope, b) : b \in VBanks} |-> [ready |-> 0, until |-> 0]]
  /\ vsweep = [s \in {At(dev, "Rank", b) : b \in VBanks} |->
                 [count |-> 0, visited |-> {}, left |-> 0]]
  /\ vretrain = FALSE
  /\ vpair = NoPair
  /\ odd = FALSE
  /\ errors = {}

\* One cycle between two commands.
Sooner(n) == IF n > 0 THEN n - 1 ELSE 0
Elapse ==
  /\ vbank' = [b \in VBanks |-> [vbank[b] EXCEPT
                 !.ready = Sooner(@),
                 !.deadline = IF vbank[b].activating THEN Larger(-1, @ - 1) ELSE 0]]
  /\ vgate' = OneTickLess(vgate)
  /\ vacts' = [s \in DOMAIN vacts |-> Aged(dev, vacts[s])]
  /\ vwck' = [s \in DOMAIN vwck |-> [ready |-> Sooner(vwck[s].ready),
                                     until |-> Sooner(vwck[s].until)]]
  /\ vsweep' = [s \in DOMAIN vsweep |-> [vsweep[s] EXCEPT !.left = Sooner(@)]]
  /\ vpair' = IF vpair.left > 0 THEN [vpair EXCEPT !.left = @ - 1] ELSE NoPair
  /\ odd' = ~odd
  /\ UNCHANGED <<vretrain, errors>>

-----------------------------------------------------------------------------
(* validate_and_replay_bank_state() *)

VBusy(b) == vbank[b].activating \/ vbank[b].row # 0
RankIdle(b) == \A x \in RankBanks(dev, b) : ~VBusy(x)
ChannelIdle(b) == \A x \in VBanks : At(dev, "Channel", x) = At(dev, "Channel", b) => ~VBusy(x)
OpenAt(c) == ~vbank[c.bank].activating /\ vbank[c.bank].row = c.row

\* Names of the states that a command requires and does not find.
Unless(met, rule) == IF met THEN {} ELSE {rule}

Unmet(c) ==
  LET v == vbank[c.bank]
      closed == Unless(~VBusy(c.bank), "closed")
      opened == Unless(OpenAt(c), "opened")
      trained == Unless(~vretrain, "trained")
      lpddr == Unless(VDram.lpddr, "lpddr")
      channelIdle == Unless(ChannelIdle(c.bank), "channelIdle")
      split == Unless(VDram.split, "split")
  IN CASE c.cmd = "ACT" -> Unless(~VDram.split, "nonSplit") \cup closed
       [] c.cmd = "ACT1" ->
            split \cup closed
            \cup Unless(\A x \in RankBanks(dev, c.bank) : ~vbank[x].activating, "previousDone")
       [] c.cmd = "ACT2" ->
            split \cup Unless(v.activating, "activating")
            \cup Unless(v.request = c.id, "sameRequest")
            \cup Unless(v.target = c.row, "sameRow")
            \cup Unless(v.ready = 0, "notBeforeMin")
            \cup Unless(v.deadline >= 0, "notAfterMax")
       [] c.cmd = "PREPB" -> Unless(~v.activating /\ v.row # 0, "opened")
       [] c.cmd = "PREAB" -> Unless(~RankIdle(c.bank), "someBusy")
       [] c.cmd \in {"CASRD", "CASWR"} -> lpddr \cup opened \cup trained
       [] c.cmd \in DataCommands -> opened \cup trained
       [] c.cmd \in {"REFPB", "RFMPB"} -> closed
       [] c.cmd = "REFDB" ->
            Unless(VDram.dualBankRefresh, "dual") \cup closed
            \cup Unless(~VBusy(Partner(dev, c.bank)), "partnerClosed")
       [] c.cmd \in AllBankMaintenance -> Unless(RankIdle(c.bank), "rankIdle")
       [] c.cmd \in {"MRW", "MRR"} -> channelIdle
       [] c.cmd = "WCKSYNC" -> lpddr \cup trained
       [] c.cmd \in {"WCKTRAIN", "DVFS"} -> lpddr \cup channelIdle
       [] c.cmd = "ECCSCRUB" -> Unless(VDram.ecc, "ecc") \cup channelIdle
       [] c.cmd = "RASERR" -> Unless(VDram.ecc \/ VDram.linkRetry, "ras")
       [] OTHER -> {"command"}

StateErrors(c) == {<<c.cmd, rule>> : rule \in Unmet(c)}

ReplayBank(c) ==
  CASE c.cmd = "ACT" -> [vbank EXCEPT ![c.bank] = [Closed EXCEPT !.row = c.row]]
    [] c.cmd = "ACT1" ->
         [vbank EXCEPT ![c.bank] =
           [row |-> 0, activating |-> TRUE, target |-> c.row, request |-> c.id,
            ready |-> VDelay(Larger(1, VT.nAADMin)),
            deadline |-> VDelay(Larger(VT.nAADMin, VT.nAADMax))]]
    [] c.cmd = "ACT2" -> [vbank EXCEPT ![c.bank] = [Closed EXCEPT !.row = c.row]]
    [] c.cmd = "PREPB" -> [vbank EXCEPT ![c.bank] = Closed]
    [] c.cmd \in {"RDA", "WRA"} -> [vbank EXCEPT ![c.bank].row = 0]
    [] c.cmd = "PREAB" ->
         [x \in VBanks |-> IF x \in RankBanks(dev, c.bank) THEN Closed ELSE vbank[x]]
    [] OTHER -> vbank

ReplayRetrain(c) ==
  CASE c.cmd = "DVFS" /\ VDram.retrains -> TRUE
    [] c.cmd = "WCKTRAIN" -> FALSE
    [] OTHER -> vretrain

-----------------------------------------------------------------------------
(* The checks of validate_single_stack_trace() around it *)

SweepErrors(c) ==
  LET s == vsweep[At(dev, "Rank", c.bank)] IN
  IF ~VDram.dualBankRefresh \/ c.cmd # "REFDB" THEN {}
  ELSE (IF s.left > 0 THEN {"refdb interval"} ELSE {}) \cup
       (IF {c.bank, Partner(dev, c.bank)} \cap s.visited # {}
        THEN {"refdb repeats a bank"} ELSE {})

ReplaySweep(c) ==
  LET rank == At(dev, "Rank", c.bank)
      s == vsweep[rank]
      whole == 2 * (s.count + 1) = Cardinality(RankBanks(dev, c.bank))
      short == IF VT.nREFDB2REFDBS > 0 THEN VT.nREFDB2REFDBS ELSE VT.nRRDL
      gap == IF whole /\ VT.nREFDB2REFDBL > 0 THEN VT.nREFDB2REFDBL ELSE short
  IN IF ~VDram.dualBankRefresh \/ c.cmd \notin {"REFDB", "REFAB"} THEN vsweep
     ELSE [vsweep EXCEPT ![rank] =
            CASE c.cmd = "REFAB" -> [count |-> 0, visited |-> {}, left |-> VDelay(VT.nRFC)]
              [] c.cmd = "REFDB" /\ whole -> [count |-> 0, visited |-> {}, left |-> VDelay(gap)]
              [] OTHER -> [count |-> s.count + 1, left |-> VDelay(gap),
                           visited |-> s.visited \cup {c.bank, Partner(dev, c.bank)}]]

\* Command classes of the two buses of HBM, and the edges of its clock.
BusErrors(c) ==
  IF /\ VDram.dualBus
     /\ \/ c.bus = "Row" /\ c.cmd \notin RowCommands
        \/ c.bus = "Column" /\ c.cmd \notin ColumnCommands
        \/ c.bus = "Unified"
  THEN {<<"bus", c.bus>>} ELSE {}

PairBroken(c) ==
  /\ VDram.strictPairing
  /\ vpair.left = 0
  /\ At(dev, "PseudoChannel", vpair.bank) = At(dev, "PseudoChannel", c.bank)
  /\ ~(vpair.cmd \notin AllBank /\ c.cmd = "PREPB" /\ c.bank # vpair.bank)

EdgeErrors(c) ==
  IF ~VDram.edgePairing \/ odd THEN {}
  ELSE IF c.cmd \notin {"PREPB", "PREAB"} THEN {"falling edge"}
  ELSE IF PairBroken(c) THEN {"edge pairing matrix"} ELSE {}

ReplayPair(c) ==
  IF VDram.edgePairing /\ odd /\ c.bus = "Row" /\ c.cmd \in RowCommands
  THEN [cmd |-> c.cmd, bank |-> c.bank, left |-> IF c.cmd = "ACT" THEN 3 ELSE 1]
  ELSE vpair

TimingErrors(c) ==
  IF ConstraintLeft(dev, vgate, c.cmd, c.bank) > 0 THEN {<<c.cmd, "table">>} ELSE {}

FawErrors(c) ==
  IF c.cmd \in Activating /\ FawFull(vacts[At(dev, VDram.actScope, c.bank)])
  THEN {"tFAW"} ELSE {}

ReplayActs(c) ==
  IF c.cmd \in Activating
  THEN [vacts EXCEPT ![At(dev, VDram.actScope, c.bank)] = @ \cup {0}] ELSE vacts

ChecksWck == VDram.lpddr /\ ~VDram.alwaysOn

WckErrors(c) ==
  LET w == vwck[At(dev, VDram.wckScope, c.bank)] IN
  IF ChecksWck /\ c.cmd \in DataCommands /\ (w.ready > 0 \/ w.until = 0)
  THEN {"WCK window"} ELSE {}

ReplayWck(c) ==
  LET scope == At(dev, VDram.wckScope, c.bank)
      sync == IF c.cmd = "WCKSYNC" THEN VT.nWCKSYNC ELSE VT.nWCK2CK
      train == VDelay(Larger(1, VT.nWCKTRAIN))
      burst(n) == VDelay(n + VT.nBL + VT.nWCKPST)
  IN IF ~ChecksWck THEN vwck
     ELSE CASE c.cmd \in {"CASRD", "CASWR", "WCKSYNC"} ->
                 [vwck EXCEPT ![scope] = [ready |-> VDelay(Larger(1, sync)),
                                          until |-> VDelay(Larger(VT.nWCKPST, sync + 1))]]
            [] c.cmd = "WCKTRAIN" ->
                 [vwck EXCEPT ![scope] = [ready |-> train,
                                          until |-> train + VDelay(Larger(1, VT.nWCKPST))]]
            [] c.cmd \in DataCommands ->
                 [vwck EXCEPT ![scope].until =
                    Larger(@, burst(IF c.cmd \in Reads THEN VT.nCL ELSE VT.nCWL))]
            [] OTHER -> vwck

-----------------------------------------------------------------------------
\* One command of the trace: every check, then every effect.
Replay(c) ==
  /\ errors' = errors \cup SweepErrors(c) \cup BusErrors(c) \cup EdgeErrors(c)
                 \cup StateErrors(c) \cup TimingErrors(c) \cup FawErrors(c)
                 \cup WckErrors(c)
  /\ vsweep' = ReplaySweep(c)
  /\ vpair' = ReplayPair(c)
  /\ vbank' = ReplayBank(c)
  /\ vretrain' = ReplayRetrain(c)
  /\ vacts' = ReplayActs(c)
  /\ vwck' = ReplayWck(c)
  /\ \E gates \in {{vgate, HeldBack(dev, c.cmd, c.bank)}} : vgate' = Latest(gates)
  /\ UNCHANGED odd

\* The report of a trace that stops here.
Accepted == errors = {} /\ \A b \in VBanks : ~vbank[b].activating
=============================================================================
