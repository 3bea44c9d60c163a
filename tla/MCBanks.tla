-------------------------------- MODULE MCBanks --------------------------------
(***************************************************************************)
(* Small devices for BankTrace.                                            *)
(***************************************************************************)
EXTENDS BankTrace

Timings ==
  [nBL |-> 1, nCL |-> 2, nCWL |-> 1, nRCDRD |-> 2, nRCDWR |-> 1, nRP |-> 2,
   nRPab |-> 3, nRAS |-> 3, nRC |-> 4, nRTP |-> 1, nWR |-> 1, nRTW |-> 3,
   nWTRS |-> 1, nWTRL |-> 2, nCCDS |-> 1, nCCDL |-> 2, nCCDR |-> 2,
   nRRDS |-> 1, nRRDL |-> 2, nFAW |-> 6, nPPD |-> 1, nRFC |-> 4, nRFCpb |-> 3,
   nRREFD |-> 2, nRFMab |-> 4, nRFMpb |-> 3, nAADMin |-> 3, nAADMax |-> 3,
   nWCK2CK |-> 1, nWCKPST |-> 3, nCAS |-> 1, nREFDB2ACT |-> 2,
   nREFDB2REFDBS |-> 3, nREFDB2REFDBL |-> 4, nMRW |-> 2, nMRR |-> 1,
   nWCKSYNC |-> 2, nWCKTRAIN |-> 2, nDVFS |-> 2, nECCSCRUB |-> 2,
   nRASERR |-> 1, nLINKRETRY |-> 2]

\* Four banks: two bank groups, each in a stack id of its own.
HbmPlace ==
  [Channel |-> <<1, 1, 1>>, PseudoChannel |-> <<1, 1, 1>>, Sid |-> <<1, 1, 2>>,
   Rank |-> <<1, 1, 2>>, BankGroup |-> <<1, 1, 2>>, Bank |-> <<1, 2, 3>>]
LpddrPlace ==
  [Channel |-> <<1, 1, 1, 1>>, PseudoChannel |-> <<1, 1, 1, 1>>,
   Sid |-> <<1, 1, 1, 1>>, Rank |-> <<1, 1, 1, 1>>, BankGroup |-> <<1, 1, 2, 2>>,
   Bank |-> <<1, 2, 3, 4>>]

\* A request that may be any one, or only the n-th one, that is submitted.
Do(type, b, row) == [type |-> type, bank |-> b, row |-> row, turns |-> 1..MaxRequests]
DoAt(n, type, b, row) == [Do(type, b, row) EXCEPT !.turns = {n}]
Must(turn, next, b) == [turn |-> turn, next |-> next, bank |-> b]

Hbm ==
  [banks |-> 3, place |-> HbmPlace, partner |-> <<1, 2, 3>>, mult |-> 2,
   t |-> Timings, lpddr |-> FALSE, split |-> FALSE, dualBus |-> TRUE,
   edgePairing |-> TRUE, strictPairing |-> TRUE, alwaysOn |-> TRUE,
   dualBankRefresh |-> FALSE, ecc |-> TRUE, linkRetry |-> TRUE,
   retrains |-> FALSE, policy |-> "OpenPage", cap |-> 1,
   scheduler |-> "FRFCFS", highMark |-> 1, lowMark |-> 1, prioritySize |-> 2,
   rfmThreshold |-> 0, rfmDecrement |-> 1, rfmAllBank |-> FALSE,
   actScope |-> "PseudoChannel", rowScope |-> "PseudoChannel",
   colScope |-> "PseudoChannel", wckScope |-> "PseudoChannel",
   work |-> {Do("Read", 1, 1), Do("Read", 3, 1), Do("Write", 1, 2)},
   maintenance |-> {Must(1, "REFPB", 1), Must(1, "REFAB", 3), Must(2, "REFPB", 2)}]

Lpddr ==
  [Hbm EXCEPT !.banks = 4, !.place = LpddrPlace, !.partner = <<3, 4, 1, 2>>,
   !.mult = 1, !.t.nRCDRD = 7, !.lpddr = TRUE, !.split = TRUE, !.dualBus = FALSE,
   !.edgePairing = FALSE, !.strictPairing = FALSE, !.alwaysOn = FALSE,
   !.dualBankRefresh = TRUE, !.retrains = TRUE,
   !.work = {Do("Read", 1, 1), Do("Write", 1, 2), Do("Read", 2, 1)},
   !.maintenance = {Must(1, "REFDB", 1), Must(2, "REFDB", 2), Must(2, "REFAB", 1)}]

\* Closing policies, the other scheduler, and refresh management.
HbmCap == [Hbm EXCEPT !.policy = "ClosedCap",
            !.work = {Do("Read", 1, 1), Do("Read", 2, 1), Do("Write", 2, 2)},
            !.maintenance = {Must(1, "REFAB", 1)}]
HbmRfm == [Hbm EXCEPT !.scheduler = "FCFS", !.rfmThreshold = 2,
            !.rfmAllBank = TRUE, !.prioritySize = 1,
            !.work = {Do("Read", 1, 1), Do("Write", 1, 2), Do("Read", 3, 1)},
            !.maintenance = {Must(1, "REFPB", 2)}]
LpddrRfm == [Lpddr EXCEPT !.scheduler = "FCFS", !.rfmThreshold = 1,
              !.work = {Do("Read", 1, 1), Do("Write", 1, 2)},
              !.maintenance = {Must(1, "REFDB", 1)}]
LpddrControl == [Lpddr EXCEPT !.policy = "ClosedPage",
                  !.work = {Do("Read", 1, 1)},
                  !.maintenance = {Must(1, "DVFS", 1), Must(2, "WCKTRAIN", 1), Must(2, "MRW", 1)}]

\* Single-edge HBM with a long activation window.
HbmFaw == [Hbm EXCEPT !.edgePairing = FALSE, !.strictPairing = FALSE, !.mult = 1,
            !.t.nFAW = 10,
            !.work = {DoAt(1, "Read", 3, 1), DoAt(2, "Read", 1, 1), DoAt(3, "Read", 3, 2)},
            !.maintenance = {Must(1, "REFPB", 2), Must(2, "REFPB", 2)}]

MCDevices ==
  [hbm |-> Hbm, hbmFaw |-> HbmFaw, lpddr |-> Lpddr, hbmCap |-> HbmCap, hbmRfm |-> HbmRfm, lpddrRfm |-> LpddrRfm,
   lpddrControl |-> LpddrControl]

\* Five of them are of the kind the theorems are about.
ASSUME SomeCovered ==
  MCDevices = Devices => \A d \in {"hbm", "hbmFaw", "hbmRfm", "lpddr", "lpddrRfm"} : Covered(d)

\* A read and a write of one row, whose data commands close it.
SameRow == {Do("Read", 1, 1), Do("Write", 1, 1)}
ClosedLpddr ==
  [lpddr |-> [Lpddr EXCEPT !.policy = "ClosedPage", !.work = SameRow, !.maintenance = {}]]
ClosedHbm ==
  [hbm |-> [Hbm EXCEPT !.policy = "ClosedPage", !.work = SameRow, !.maintenance = {}]]
=============================================================================
