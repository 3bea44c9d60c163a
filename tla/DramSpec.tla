------------------------------ MODULE DramSpec ------------------------------
(***************************************************************************)
(* What a device is (DramSpec): its geometry, its timings and the table of *)
(* constraints between commands that the online controller and the offline *)
(* validator both read.                                                    *)
(*                                                                         *)
(* A device is a record of the constant Devices: its banks 1..banks, and   *)
(* place[scope][b], the number of the scope instance a bank lies in; its   *)
(* timings t in nCK and mult, the controller ticks of one nCK; its flags.  *)
(* Commands of the power states (PDE, PDX, SREFEN, SREFEX) are the concern *)
(* of module Maintenance and have no entry here.                           *)
(***************************************************************************)
EXTENDS Integers, FiniteSets, FiniteSetsExt, TLC

CONSTANT Devices   \* name -> the DramSpec of that name

Scopes == {"Channel", "PseudoChannel", "Sid", "Rank", "BankGroup", "Bank"}

\* The scope that encloses each one.
Parent == [Channel |-> "Channel", PseudoChannel |-> "Channel",
           Sid |-> "PseudoChannel", Rank |-> "Sid", BankGroup |-> "Rank",
           Bank |-> "BankGroup"]

BanksOf(d) == 1..Devices[d].banks

\* scope_index(): the instance of a scope that a bank belongs to.
At(d, scope, b) == <<scope, Devices[d].place[scope][b]>>

\* sibling_range() without the current one.
Siblings(d, scope, b) ==
  {At(d, scope, x) : x \in {y \in BanksOf(d) :
     At(d, Parent[scope], y) = At(d, Parent[scope], b)}} \ {At(d, scope, b)}

RankBanks(d, b) == {x \in BanksOf(d) : At(d, "Rank", x) = At(d, "Rank", b)}

\* lpddr_refdb_partner()
Partner(d, b) == Devices[d].partner[b]

\* The pairs of a rank, of which apply_constraints() counts the refreshed ones.
PairCount(d) ==
  Cardinality({{x, Partner(d, x)} : x \in BanksOf(d)}) \div
  Cardinality({At(d, "Rank", x) : x \in BanksOf(d)})

\* timing_delay(): nCK to controller ticks.
Delay(d, n) == (IF n <= 0 THEN 0 ELSE n) * Devices[d].mult

TimingNames ==
  {"nBL", "nCL", "nCWL", "nRCDRD", "nRCDWR", "nRP", "nRPab", "nRAS", "nRC", "nRTP",
   "nWR", "nRTW", "nWTRS", "nWTRL", "nCCDS", "nCCDL", "nCCDR", "nRRDS", "nRRDL",
   "nFAW", "nPPD", "nRFC", "nRFCpb", "nRREFD", "nRFMab", "nRFMpb", "nAADMin",
   "nAADMax", "nWCK2CK", "nWCKPST", "nCAS", "nREFDB2ACT", "nREFDB2REFDBS",
   "nREFDB2REFDBL", "nMRW", "nMRR", "nWCKSYNC", "nWCKTRAIN", "nDVFS", "nECCSCRUB",
   "nRASERR", "nLINKRETRY"}

\* What apply_standard_traits() makes of a DramSpec and validate_spec() demands, and
\* the pairs of lpddr_refdb_partner(): each is refreshed once in a sweep of its rank.
ASSUME DeviceAssumption ==
  \A d \in DOMAIN Devices :
    /\ Devices[d].mult \in Nat \ {0} /\ Devices[d].banks \in Nat
    /\ Devices[d].t \in [TimingNames -> Int]
    /\ {Devices[d].lpddr, Devices[d].alwaysOn, Devices[d].dualBankRefresh,
        Devices[d].edgePairing, Devices[d].strictPairing, Devices[d].ecc,
        Devices[d].linkRetry, Devices[d].retrains, Devices[d].rfmAllBank}
         \subseteq BOOLEAN
    /\ Devices[d].split = Devices[d].lpddr /\ Devices[d].dualBus = ~Devices[d].lpddr
    /\ Devices[d].split =>
         0 < Devices[d].t.nAADMin /\ Devices[d].t.nAADMin <= Devices[d].t.nAADMax
    /\ Devices[d].rfmThreshold \in Int /\ Devices[d].rfmDecrement \in Int
    /\ Devices[d].rfmThreshold > 0 => Devices[d].rfmDecrement > 0
    /\ Devices[d].prioritySize \in Nat \ {0}
    /\ {Devices[d].actScope, Devices[d].rowScope, Devices[d].colScope,
        Devices[d].wckScope} \subseteq Scopes
    /\ \A scope \in Scopes, b, x \in BanksOf(d) :
         At(d, scope, b) = At(d, scope, x)
           => At(d, Parent[scope], b) = At(d, Parent[scope], x)
    /\ \A b \in BanksOf(d) : At(d, "Bank", b) = <<"Bank", b>>
    /\ Devices[d].dualBankRefresh => \A b \in BanksOf(d) :
         /\ Partner(d, b) \in RankBanks(d, b)
         /\ Cardinality(RankBanks(d, b)) = 2 * PairCount(d) /\ PairCount(d) \in Nat \ {0}

-----------------------------------------------------------------------------
(* Classes of commands (kMeta) *)

Reads == {"RD", "RDA"}
Writes == {"WR", "WRA"}
DataCommands == Reads \cup Writes
ColumnCommands == DataCommands \cup {"CASRD", "CASWR", "WCKSYNC"}
Opening == {"ACT", "ACT1"}
Closing == {"PREPB", "PREAB", "RDA", "WRA"}
Accessing == DataCommands
PerBankMaintenance == {"REFPB", "REFDB", "RFMPB"}
AllBankMaintenance == {"REFAB", "RFMAB"}
Controls == {"MRW", "MRR", "WCKTRAIN", "DVFS", "ECCSCRUB", "RASERR"}
AllBank == AllBankMaintenance \cup Controls \cup {"PREAB"}
RowCommands == Opening \cup {"ACT2", "PREPB"} \cup PerBankMaintenance \cup AllBank
Commands == ColumnCommands \cup RowCommands

\* Commands that count in the four-activate window.
Activating == Opening \cup {"REFPB", "REFDB"}

Larger(a, b) == IF a >= b THEN a ELSE b

-----------------------------------------------------------------------------
(* The table of constraints *)

\* tc() and tc_sibling(): after a command of pre, no command of post for
\* latency nCK in the same instance, or in the sibling instances, of scope.
Rule(scope, pre, post, latency) ==
  [scope |-> scope, pre |-> pre, post |-> post, latency |-> latency,
   sibling |-> FALSE]
SiblingRule(scope, pre, post, latency) ==
  [Rule(scope, pre, post, latency) EXCEPT !.sibling = TRUE]

WriteRecovery(t) == t.nCWL + t.nBL + t.nWR

HbmRules(t) ==
  {Rule("PseudoChannel", Reads, Reads, t.nBL),
   Rule("PseudoChannel", Writes, Writes, t.nBL),
   Rule("PseudoChannel", Reads, Writes, t.nRTW),
   Rule("PseudoChannel", Writes, Reads, t.nCWL + t.nBL + t.nWTRS),
   Rule("PseudoChannel", {"ACT"}, {"ACT"}, t.nRRDS),
   Rule("Sid", Reads, Reads, t.nCCDS),
   SiblingRule("Sid", Reads, Reads, IF t.nCCDR > 0 THEN t.nCCDR ELSE t.nCCDS),
   Rule("Sid", Writes, Writes, t.nCCDS),
   Rule("BankGroup", Reads, Reads, t.nCCDL),
   Rule("BankGroup", Writes, Writes, t.nCCDL),
   Rule("BankGroup", Writes, Reads, t.nCWL + t.nBL + t.nWTRL),
   Rule("BankGroup", {"ACT"}, {"ACT"}, t.nRRDL),
   Rule("PseudoChannel", {"PREPB", "PREAB"}, {"PREPB", "PREAB"}, t.nPPD),
   Rule("Bank", {"ACT"}, {"ACT"}, t.nRC),
   Rule("Bank", {"ACT"}, Reads, t.nRCDRD),
   Rule("Bank", {"ACT"}, Writes, t.nRCDWR),
   Rule("Bank", {"ACT"}, {"PREPB"}, t.nRAS),
   Rule("Bank", {"PREPB"}, {"ACT"}, t.nRP),
   Rule("Bank", {"RD"}, {"PREPB"}, t.nRTP),
   Rule("Bank", {"WR"}, {"PREPB"}, WriteRecovery(t)),
   Rule("Bank", {"REFPB"}, {"ACT"}, t.nRFCpb),
   Rule("PseudoChannel", {"REFPB"}, {"ACT"},
        IF t.nRREFD > 0 THEN t.nRREFD ELSE t.nRFCpb),
   Rule("PseudoChannel", {"REFAB"}, {"ACT", "PREPB", "REFPB"}, t.nRFC),
   Rule("Bank", {"RFMPB"}, {"ACT"}, t.nRFMpb),
   Rule("PseudoChannel", {"RFMAB"}, {"ACT", "PREPB", "RFMPB"}, t.nRFMab),
   Rule("Channel", {"MRW"}, {"ACT", "RD", "WR", "MRW", "MRR"}, t.nMRW),
   Rule("Channel", {"MRR"}, {"ACT", "RD", "WR", "MRW", "MRR"}, t.nMRR),
   Rule("Channel", {"ECCSCRUB", "RASERR"},
        {"ACT", "REFPB", "RFMPB", "MRW", "MRR"}, Larger(t.nECCSCRUB, t.nRASERR)),
   Rule("Channel", {"RASERR"}, {"RD", "WR"}, t.nLINKRETRY)}

LpddrRules(t) ==
  LET refdbToAct == IF t.nREFDB2ACT > 0 THEN t.nREFDB2ACT
                    ELSE IF t.nRREFD > 0 THEN t.nRREFD ELSE t.nRRDS
      afterRfmab == IF t.nRFMab > 0 THEN t.nRFMab ELSE t.nRFC
      cas == {"CASRD", "CASWR"}
  IN {Rule("Channel", Reads, Reads, t.nBL),
      Rule("Channel", Writes, Writes, t.nBL),
      Rule("Bank", {"CASRD"}, Reads, t.nCAS),
      Rule("Bank", {"CASWR"}, Writes, t.nCAS),
      Rule("Rank", Reads, Reads, t.nCCDS),
      Rule("Rank", Writes, Writes, t.nCCDS),
      Rule("Rank", Reads, Writes, t.nCL + t.nBL + 2 - t.nCWL),
      Rule("Rank", Writes, Reads, t.nCWL + t.nBL + t.nWTRS),
      Rule("Rank", {"ACT1"}, {"ACT1"}, t.nRRDS),
      Rule("BankGroup", Reads, Reads, t.nCCDL),
      Rule("BankGroup", Writes, Writes, t.nCCDL),
      Rule("BankGroup", Writes, Reads, t.nCWL + t.nBL + t.nWTRL),
      Rule("BankGroup", {"ACT1"}, {"ACT1"}, t.nRRDL),
      Rule("Channel", {"PREPB", "PREAB"}, {"PREPB", "PREAB"}, t.nPPD),
      Rule("Bank", {"ACT1"}, {"ACT1"}, t.nRC),
      Rule("Bank", {"ACT1"}, Reads, t.nRCDRD),
      Rule("Bank", {"ACT1"}, Writes, t.nRCDWR),
      Rule("Bank", {"ACT1"}, {"PREPB"}, t.nRAS),
      Rule("Bank", {"PREPB"}, {"ACT1", "REFDB"}, t.nRP),
      Rule("Rank", {"PREAB"}, {"REFDB"}, t.nRPab),
      Rule("Bank", {"RD"}, {"PREPB"}, t.nRTP),
      Rule("Bank", {"WR"}, {"PREPB"}, WriteRecovery(t)),
      Rule("Bank", {"REFPB"}, {"ACT1"}, t.nRFCpb),
      Rule("Bank", {"REFDB"}, {"ACT1", "REFDB"}, t.nRFCpb),
      Rule("Bank", {"RFMPB"}, {"ACT1"},
           IF t.nRFMpb > 0 THEN t.nRFMpb ELSE t.nRFCpb),
      Rule("PseudoChannel", {"REFDB", "RFMPB"}, {"ACT1"}, refdbToAct),
      Rule("Rank", {"REFDB"}, {"REFAB"}, t.nRFCpb),
      Rule("Rank", {"REFAB"}, {"REFDB", "REFAB", "ACT1", "PREAB"}, t.nRFC),
      Rule("PseudoChannel", {"RFMPB"}, {"RFMPB"}, t.nRRDL),
      Rule("Rank", {"RFMAB"}, {"ACT1", "PREAB", "RFMPB"}, afterRfmab),
      Rule("Channel", {"MRW"}, cas \cup {"ACT1", "MRW", "MRR"}, t.nMRW),
      Rule("Channel", {"MRR"}, cas \cup {"ACT1", "MRW", "MRR"}, t.nMRR),
      Rule("PseudoChannel", {"WCKSYNC"}, {"RD", "WR"}, t.nWCKSYNC),
      Rule("Channel", {"WCKTRAIN"}, cas \cup {"ACT1"}, t.nWCKTRAIN),
      Rule("Channel", {"DVFS"}, cas \cup {"ACT1", "MRW"}, t.nDVFS),
      Rule("Channel", {"ECCSCRUB", "RASERR"},
           cas \cup {"ACT1", "REFDB", "RFMPB"}, Larger(t.nECCSCRUB, t.nRASERR))}

Rules == [d \in DOMAIN Devices |->
            IF Devices[d].lpddr THEN LpddrRules(Devices[d].t)
            ELSE HbmRules(Devices[d].t)]

-----------------------------------------------------------------------------
(* Time that is left: a gate is the ticks until a command may be issued.   *)
(* The functions below hold the gates that are still closed.               *)

NoGates == [k \in {} |-> 0]
\* One gate that is closed for n ticks, and gates of which the left ones take
\* precedence (the prover does not see into :> and @@).
Shut(k, n) == [x \in {k} |-> n]
f ++ g == [x \in DOMAIN f \cup DOMAIN g |-> IF x \in DOMAIN f THEN f[x] ELSE g[x]]
Left(gates, k) == IF k \in DOMAIN gates THEN gates[k] ELSE 0
OneTickLess(gates) ==
  [k \in {x \in DOMAIN gates : gates[x] > 1} |-> gates[k] - 1]
Latest(fs) ==
  [k \in UNION {{x \in DOMAIN f : f[x] > 0} : f \in fs} |->
     Max({Left(f, k) : f \in fs})]

\* Scope instances in which a rule holds back commands after a command at b.
Reached(d, rule, cmd, b) ==
  IF rule.sibling THEN Siblings(d, rule.scope, b)
  ELSE {At(d, rule.scope, b)} \cup
       (IF cmd = "REFDB" /\ Devices[d].dualBankRefresh /\ rule.scope = "Bank"
        THEN {At(d, "Bank", Partner(d, b))} ELSE {})

\* apply_constraints(): what a command at bank b holds back, and how long.
HeldBack(d, cmd, b) ==
  LET rules == {r \in Rules[d] : cmd \in r.pre}
      keys == UNION {r.post \X Reached(d, r, cmd, b) : r \in rules}
      on(k) == {r \in rules : k[1] \in r.post /\ k[2] \in Reached(d, r, cmd, b)}
  IN [k \in keys |-> Max({Delay(d, r.latency) : r \in on(k)})]

\* constraint_ready_at(): ticks until the table lets a command at b through.
ConstraintLeft(d, gates, cmd, b) ==
  Max({Left(gates, <<cmd, At(d, s, b)>>) : s \in Scopes} \cup
      (IF cmd = "REFDB" /\ Devices[d].dualBankRefresh
       THEN {Left(gates, <<cmd, At(d, "Bank", Partner(d, b))>>)} ELSE {}))

\* record_activate() and prune_recent_acts(): the ages of the activates of a
\* scope that are younger than nFAW.
FawWindow(d) == Delay(d, Larger(1, Devices[d].t.nFAW))
Aged(d, ages) == {a + 1 : a \in {x \in ages : x + 1 < FawWindow(d)}}
FawFull(ages) == Cardinality(ages) >= 4
=============================================================================
