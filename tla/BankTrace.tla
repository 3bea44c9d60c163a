------------------------------- MODULE BankTrace -------------------------------
(***************************************************************************)
(* The online engine (BankProtocol) and the offline judge of its trace     *)
(* (TraceValidator) in lock step: whatever a step issues is replayed at    *)
(* once, and a tick of the controller is a cycle of the trace.             *)
(***************************************************************************)
EXTENDS BankProtocol

VARIABLES vbank, vgate, vacts, vwck, vsweep, vretrain, vpair, odd, errors

V == INSTANCE TraceValidator

judgeVars == <<vbank, vgate, vacts, vwck, vsweep, vretrain, vpair, odd, errors>>
traceVars == <<vars, judgeVars>>

Unjudged == UNCHANGED judgeVars

TraceInit == Init /\ V!VInit
TraceNext ==
  \/ Advance /\ V!Elapse
  \/ IssueChosen /\ V!Replay(issued')
  \/ (SubmitAny \/ SchedulePrecharges \/ BusIdle) /\ Unjudged
TraceSpec == TraceInit /\ [][TraceNext]_traceVars /\ Fairness

-----------------------------------------------------------------------------
(* Properties *)

\* What the theorems about every device ask of it and of its driver: only data
\* commands that leave the row open on devices with a split activate (Act2Missed),
\* edge pairing on a row bus of its own, refreshes as the device has them, no RFM
\* besides those of RfmManager, and no command between an ACT1 and its ACT2 that
\* holds back the row bus.
Covered(d) ==
  /\ \/ Devices[d].policy = "OpenPage"
     \/ Devices[d].policy = "ClosedPage" /\ ~Devices[d].split
  /\ Devices[d].edgePairing => Devices[d].dualBus
  /\ \A w \in Devices[d].work :
       w.type \in {"Read", "Write"} /\ w.bank \in BanksOf(d) /\ w.row \in Nat \ {0}
  /\ \A m \in Devices[d].maintenance :
       /\ m.bank \in BanksOf(d)
       /\ m.next \in {"REFPB", "REFDB", "REFAB"} \cup Controls
       /\ m.next = "REFDB" => Devices[d].dualBankRefresh
       /\ m.next = "RASERR" => ~Devices[d].split

AtRest == phase = "idle" /\ pending = <<>> /\ \A k \in Kinds : queue[k] = <<>>

\* One record per bank, gate and queue entry, of the shapes the code keeps.
TypeOK ==
  /\ phase \in Phases
  /\ \A b \in Banks : /\ bank[b].row \in Nat /\ bank[b].activating \in BOOLEAN
                      /\ bank[b].deadline \in Int
                      /\ rfm[b].count \in Nat /\ policy[b].accesses \in Nat
  /\ \A k \in DOMAIN gate : gate[k] \in Nat \ {0}
  /\ \A s \in DOMAIN acts : \A a \in acts[s] : a < FawWindow(dev)
  /\ \A k \in Kinds : \A i \in DOMAIN queue[k] :
       /\ queue[k][i].bank \in Banks
       /\ IsMaintenance(queue[k][i]) = (k = "Priority")
  /\ Len(queue["Active"]) <= Dram.banks
  /\ Len(queue["Priority"]) <= Dram.prioritySize
  /\ issued.cmd \in Commands \cup {"NOP"}

\* The offline validator finds nothing to object to in what the controller and
\* its executor issue: their state checks, bank state machine, gates, activation
\* window, WCK window and edge pairing agree with an independent replay, and a
\* trace that ends when every queue is drained leaves no ACT1 half done.
ValidatorAccepts == errors = {} /\ (AtRest => V!Accepted)

\* While a request is in the active buffer its bank stays open on its row, or is
\* being activated for it: nothing closes it before the data command
\* (would_close_active()).
ActiveRowsHeld ==
  \A i \in DOMAIN queue["Active"] :
    LET r == queue["Active"][i]
    IN IF Dram.split /\ bank[r.bank].row = 0
       THEN bank[r.bank].activating /\ r.first
       ELSE bank[r.bank].row = r.row

\* The ACT2 of every ACT1 is issued before nAADMax has passed.
Act2InTime == ~failed

\* A rolling activation count that reaches the threshold has its RFM command
\* queued, once, until that command is issued, and meanwhile no bank is activated
\* beyond the threshold.
RfmWaiting ==
  LET all == queue["Priority"] \o pending
      of(cmd, banks) == {i \in DOMAIN all : all[i].next = cmd /\ all[i].bank \in banks}
      asked(set, due) == Cardinality(set) = (IF due THEN 1 ELSE 0)
  IN \A b \in Banks :
       /\ asked(of("RFMPB", {b}), rfm[b].due)
       /\ asked(of("RFMAB", RankBanks(dev, b)), At(dev, "Rank", b) \in rfmAll)
       /\ RfmOn => rfm[b].count <= Dram.rfmThreshold

\* closed_cap: no opening of a row serves more data commands than the cap and
\* the one that closes it.
CapHeld == Dram.policy = "ClosedCap" => \A b \in Banks : uses[b] <= Dram.cap + 1

\* Every request and maintenance command is served in the end, unless a DVFS still
\* waits for the WCK training that the driver owes it.
AllServed == []<>(AtRest \/ retrain)
=============================================================================
