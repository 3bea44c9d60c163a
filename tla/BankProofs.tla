------------------------------ MODULE BankProofs ------------------------------
(***************************************************************************)
(* Theorems about BankTrace, for every device that Covered describes.      *)
(***************************************************************************)
EXTENDS BankTrace, SequenceTheorems, FiniteSetTheorems, WellFoundedInduction, TLAPS

-----------------------------------------------------------------------------
(* Arithmetic and sequences *)

\* Min of two numbers is one of them and below both.
LEMMA MinOfTwo ==
  ASSUME NEW m \in Int, NEW n \in Int
  PROVE  Min({m, n}) \in {m, n} /\ Min({m, n}) <= m /\ Min({m, n}) <= n
<1>1. \E x \in {m, n} : \A y \in {m, n} : x <= y
  BY SMT
<1> QED BY <1>1 DEF Min

\* Min of an interval is its first element.
LEMMA MinOfInterval ==
  ASSUME NEW n \in Nat \ {0}
  PROVE  Min(1 .. n) = 1
<1>1. 1 \in 1 .. n /\ \A y \in 1 .. n : 1 <= y
  OBVIOUS
<1> QED BY <1>1 DEF Min

\* RemoveAt() closes the gap.
LEMMA Removing ==
  ASSUME NEW S, NEW s \in Seq(S), NEW k \in DOMAIN s
  PROVE  /\ RemoveAt(s, k) \in Seq(S)
         /\ Len(RemoveAt(s, k)) = Len(s) - 1
         /\ \A j \in 1 .. Len(s) - 1 :
              RemoveAt(s, k)[j] = IF j < k THEN s[j] ELSE s[j + 1]
  <1>. DEFINE p == SubSeq(s, 1, k - 1)
              q == SubSeq(s, k + 1, Len(s))
  <1>1. k \in 1 .. Len(s) /\ Len(s) \in Nat
    OBVIOUS
  <1>2. /\ p \in Seq(S) /\ Len(p) = k - 1
        /\ \A j \in 1 .. k - 1 : p[j] = s[j]
    BY <1>1
  <1>3. /\ q \in Seq(S) /\ Len(q) = Len(s) - k
        /\ \A j \in 1 .. Len(s) - k : q[j] = s[k + j]
    BY <1>1
  <1>. HIDE DEF p, q
  <1>4. /\ p \o q \in Seq(S) /\ Len(p \o q) = Len(s) - 1
        /\ \A j \in 1 .. Len(s) - 1 :
             (p \o q)[j] = IF j < k THEN p[j] ELSE q[j - (k - 1)]
    BY <1>1, <1>2, <1>3
  <1>5. ASSUME NEW j \in 1 .. Len(s) - 1
        PROVE  (p \o q)[j] = IF j < k THEN s[j] ELSE s[j + 1]
    <2>1. CASE j < k
      BY <1>1, <1>2, <1>4, <2>1
    <2>2. CASE ~(j < k)
      <3>1. j - (k - 1) \in 1 .. Len(s) - k /\ k + (j - (k - 1)) = j + 1
        BY <1>1, <2>2
      <3>2. q[j - (k - 1)] = s[k + (j - (k - 1))]
        BY <1>3, <3>1
      <3>. QED BY <1>4, <2>2, <3>1, <3>2
    <2>. QED BY <2>1, <2>2
  <1>. QED BY <1>4, <1>5 DEF RemoveAt, p, q

\* Every element of what is left was there before, in the same order.
LEMMA RemovedFrom ==
  ASSUME NEW S, NEW s \in Seq(S), NEW k \in DOMAIN s,
         NEW j \in DOMAIN RemoveAt(s, k)
  PROVE  LET old == IF j < k THEN j ELSE j + 1
         IN old \in DOMAIN s /\ old # k /\ RemoveAt(s, k)[j] = s[old]
<1>1. j \in 1 .. Len(s) - 1 /\ k \in 1 .. Len(s) /\ Len(s) \in Nat
  BY Removing
<1>2. RemoveAt(s, k)[j] = IF j < k THEN s[j] ELSE s[j + 1]
  BY <1>1, Removing
<1> QED BY <1>1, <1>2

-----------------------------------------------------------------------------
(* The shapes of the state *)

RfmCommands == {"RFMPB", "RFMAB"}
Upkeep == {"REFPB", "REFDB", "REFAB"} \cup Controls

Requests ==
  [id : Nat, type : {"Read", "Write", "Maintenance"}, next : Commands \cup {"NOP"},
   bank : Banks, row : Nat, first : BOOLEAN]

\* What a queue holds.
Fits(r, k) ==
  IF k = "Priority"
  THEN /\ r.type = "Maintenance" /\ ~r.first /\ r.next \in Upkeep \cup RfmCommands
       /\ r.next = "REFDB" => Dram.dualBankRefresh
       /\ r.next = "RASERR" => ~Dram.split
  ELSE /\ r.type # "Maintenance" /\ r.row # 0
       /\ k # "Active" => r.type = k

QueueType ==
  /\ queue \in [Kinds -> Seq(Requests)]
  /\ pending \in Seq(Requests)
  /\ \A k \in Kinds : \A i \in DOMAIN queue[k] : Fits(queue[k][i], k)
  /\ \A i \in DOMAIN pending : Fits(pending[i], "Priority")
  /\ Len(queue["Active"]) <= Dram.banks
  /\ Len(queue["Priority"]) <= Dram.prioritySize

\* Only a split activate leaves a bank half open.
BankType ==
  /\ bank \in [Banks -> [row : Nat, activating : BOOLEAN, deadline : Int]]
  /\ \A b \in Banks : bank[b].activating => bank[b].row = 0 /\ Dram.split

PhaseType ==
  phase \in {"idle", "busy"} \cup
            (IF Dram.dualBus THEN {"Column", "Row"} ELSE {"Unified"})

Shape ==
  /\ dev \in DOMAIN Devices /\ given \in [data : Nat, maintenance : Nat]
  /\ QueueType /\ BankType /\ PhaseType

-----------------------------------------------------------------------------
(* What a step can be *)

\* A candidate that choose() takes.
Choice(c) ==
  /\ c.kind \in Kinds /\ c.at \in DOMAIN queue[c.kind]
  /\ c.r = queue[c.kind][c.at] /\ c.cmd = NextCommand(c.r)
  /\ Offered(c, phase)
  /\ \A x \in Offers(phase) : Before(c, x)

Issues(c) ==
  /\ OnBus /\ ~failed' /\ Choice(c)
  /\ IssueCommand(c.cmd, c.r.bank, c, c.at, queue, policy, phase)

\* A request of the device's work or maintenance.
Given(r) ==
  /\ r \in Requests /\ ~r.first /\ r.next \notin RfmCommands
  /\ IF r.type = "Maintenance" THEN Fits(r, "Priority") ELSE Fits(r, r.type)

\* The parameters of a device that the proofs rely on.
LEMMA DeviceFacts ==
  ASSUME dev \in DOMAIN Devices
  PROVE  /\ Dram.mult \in Nat \ {0} /\ Dram.banks \in Nat
         /\ Dram.prioritySize \in Nat \ {0}
         /\ Dram.split \in BOOLEAN /\ Dram.split = Dram.lpddr
         /\ Dram.dualBus = ~Dram.lpddr
         /\ Banks = 1 .. Dram.banks
BY DeviceAssumption DEF Dram, Banks, BanksOf

\* No request asks for a PREPB of its own, so none is taken back.
LEMMA NoneSatisfied ==
  ASSUME Shape
  PROVE  SatisfiedCount = 0 /\ TakeBack(queue) = queue
<1> DEFINE q == queue["Priority"]
           unmet == {i \in DOMAIN q : ~Satisfied(q[i])}
<1>1. q \in Seq(Requests) /\ DOMAIN q = 1 .. Len(q) /\ Len(q) \in Nat
  BY DEF Shape, QueueType, Kinds
<1>2. \A i \in DOMAIN q : q[i].next # "PREPB"
  <2>1. \A i \in DOMAIN q : q[i].next \in Upkeep \cup RfmCommands
    BY DEF Shape, QueueType, Kinds, Fits
  <2> QED BY <2>1 DEF Upkeep, RfmCommands, Controls
<1>3. unmet = 1 .. Len(q)
  BY <1>1, <1>2 DEF Satisfied
<1>4. SatisfiedCount = IF unmet = {} THEN Len(q) ELSE Min(unmet) - 1
  BY DEF SatisfiedCount
<1>5. SatisfiedCount = 0
  <2>1. CASE Len(q) = 0
    BY <2>1, <1>3, <1>4
  <2>2. CASE Len(q) # 0
    <3>1. 1 \in unmet
      BY <2>2, <1>1, <1>3
    <3> HIDE DEF q, unmet
    <3> QED BY <3>1, <2>2, <1>1, <1>3, <1>4, MinOfInterval
  <2> QED BY <2>1, <2>2
<1>6. SubSeq(q, 1, Len(q)) = q
  BY <1>1
<1>7. queue = [queue EXCEPT !["Priority"] = q]
  BY DEF Shape, QueueType
<1> QED BY <1>5, <1>6, <1>7 DEF TakeBack

\* A request is served with a command of its kind.
LEMMA CommandOf ==
  ASSUME Shape, NEW k \in Kinds, NEW i \in DOMAIN queue[k]
  PROVE  LET r == queue[k][i]
             cmd == NextCommand(r)
         IN IF k = "Priority" THEN cmd \in {"PREAB", "PREPB", r.next}
            ELSE cmd \in DataCommands \cup
                   {"NOP", "CASRD", "CASWR", "PREPB", "ACT", "ACT1", "ACT2"}
<1> DEFINE r == queue[k][i]
<1>1. IsMaintenance(r) = (k = "Priority")
  BY DEF Shape, QueueType, Fits, IsMaintenance
<1>2. CASE k = "Priority"
  BY <1>1, <1>2 DEF NextCommand
<1>3. CASE k # "Priority"
  <2>1. CasCommand(r) \in {"NOP", "CASRD", "CASWR"}
    BY DEF CasCommand
  <2>2. DataCommand(r) \in DataCommands
    BY DEF DataCommand, DataCommands, Reads, Writes
  <2> QED BY <1>1, <1>3, <2>1, <2>2 DEF NextCommand
<1> QED BY <1>2, <1>3

\* Without the closed_cap policy choose() issues a request where it waits.
LEMMA IssueShape ==
  ASSUME Shape, Covered(dev), IssueChosen
  PROVE  /\ \E c : Issues(c)
         /\ phase \in {"Column", "Row", "Unified"}
<1>1. PICK offers \in {Offers(phase)} : \E c \in offers :
       /\ \A x \in offers : Before(c, x)
       /\ \E at \in {IF c.kind = "Priority" THEN 1 ELSE c.at},
            q \in {IF c.kind = "Active" THEN queue ELSE TakeBack(queue)},
            p \in {IF c.kind = "Active" THEN policy ELSE PolicyTakenBack} :
            Issue(c, at, q, p, phase)
  BY DEF IssueChosen
<1>2. PICK c \in Offers(phase) :
       /\ \A x \in Offers(phase) : Before(c, x)
       /\ Issue(c, IF c.kind = "Priority" THEN 1 ELSE c.at,
                IF c.kind = "Active" THEN queue ELSE TakeBack(queue),
                IF c.kind = "Active" THEN policy ELSE PolicyTakenBack, phase)
  BY <1>1
<1>3. Dram.policy # "ClosedCap"
  BY DEF Covered, Dram
<1>4. PICK k \in Kinds : c \in Candidates(k)
  BY DEF Offers
<1>5. /\ c.kind = k /\ c.at \in DOMAIN queue[k] /\ c.r = queue[k][c.at]
      /\ c.cmd = NextCommand(c.r)
  BY <1>4 DEF Candidates
<1>6. Offered(c, phase)
  BY DEF Offers
<1>7. c.kind = "Priority" => c.at = 1
  BY <1>6, NoneSatisfied DEF Offered
<1>8. PolicyTakenBack = policy
  BY <1>3 DEF PolicyTakenBack
<1>9. Issue(c, c.at, queue, policy, phase)
  BY <1>2, <1>7, <1>8, NoneSatisfied
<1>10. IssueCommand(c.cmd, c.r.bank, c, c.at, queue, policy, phase)
  BY <1>9, <1>3 DEF Issue, Upgraded
<1> QED BY <1>2, <1>5, <1>6, <1>10 DEF Issues, Choice, IssueChosen, OnBus

\* The device stays, and with it what is derived from it alone.
LEMMA DeviceStays ==
  ASSUME dev' = dev
  PROVE  /\ Dram' = Dram /\ T' = T /\ Banks' = Banks /\ Requests' = Requests
         /\ Covered(dev)' = Covered(dev)
         /\ \A r, k : Fits(r, k)' = Fits(r, k)
BY DEF Dram, T, Banks, Requests, Fits

\* What the driver may submit.
LEMMA SubmittedIsGiven ==
  ASSUME Shape, Covered(dev), SubmitAny
  PROVE  \E r : Given(r) /\ Submit(r)
<1>1. CASE \E w \in {x \in Dram.work : given.data + 1 \in x.turns} :
             Submit(Request(given.data + 1, w.type, "NOP", w.bank, w.row))
  <2>1. PICK w \in Dram.work :
          Submit(Request(given.data + 1, w.type, "NOP", w.bank, w.row))
    BY <1>1
  <2>2. w.type \in {"Read", "Write"} /\ w.bank \in Banks /\ w.row \in Nat \ {0}
    BY DEF Covered, Dram, Banks
  <2>3. Given(Request(given.data + 1, w.type, "NOP", w.bank, w.row))
    BY <2>2 DEF Given, Request, Requests, Fits, Shape, RfmCommands
  <2> QED BY <2>1, <2>3
<1>2. CASE \E m \in {x \in Dram.maintenance : x.turn = given.maintenance + 1} :
             Submit(Request(0, "Maintenance", m.next, m.bank, 0))
  <2>1. PICK m \in Dram.maintenance :
          Submit(Request(0, "Maintenance", m.next, m.bank, 0))
    BY <1>2
  <2>2. /\ m.next \in Upkeep /\ m.bank \in Banks
        /\ m.next = "REFDB" => Dram.dualBankRefresh
        /\ m.next = "RASERR" => ~Dram.split
    BY DEF Covered, Dram, Banks, Upkeep
  <2>3. m.next \in Commands
    BY <2>2 DEF Upkeep, Commands, RowCommands, PerBankMaintenance, AllBank,
                AllBankMaintenance
  <2>4. Given(Request(0, "Maintenance", m.next, m.bank, 0))
    BY <2>2, <2>3 DEF Given, Request, Requests, Fits, RfmCommands, Upkeep, Controls
  <2> QED BY <2>1, <2>4
<1> QED BY <1>1, <1>2 DEF SubmitAny

\* The steps of the model, for the devices of the theorems.
LEMMA Steps ==
  ASSUME Shape, Covered(dev), [TraceNext]_traceVars
  PROVE  /\ dev' = dev
         /\ \/ UNCHANGED traceVars
            \/ \E r : Given(r) /\ Submit(r) /\ Unjudged
            \/ Advance /\ V!Elapse
            \/ \E c : Issues(c) /\ V!Replay(issued')
            \/ BusIdle /\ queue' = queue /\ Unjudged
<1>1. CASE UNCHANGED traceVars
  BY <1>1 DEF traceVars, vars
<1>2. CASE SubmitAny /\ Unjudged
  BY <1>2, SubmittedIsGiven DEF Submit
<1>3. CASE Advance /\ V!Elapse
  BY <1>3 DEF Advance
<1>4. CASE IssueChosen /\ V!Replay(issued')
  BY <1>4, IssueShape DEF Issues, OnBus
<1>5. CASE BusIdle /\ Unjudged
  BY <1>5, NoneSatisfied DEF BusIdle, OnBus
<1>6. ~SchedulePrecharges
  BY DEF Shape, PhaseType, SchedulePrecharges
<1> QED BY <1>1, <1>2, <1>3, <1>4, <1>5, <1>6 DEF TraceNext

\* What an issued command does to the request it serves.
Served(c) == [c.r EXCEPT !.first = @ \/ c.cmd = "ACT1"]
Retires(c) ==
  (IsMaintenance(c.r) /\ c.cmd = c.r.next) \/ (~IsMaintenance(c.r) /\ c.cmd \in DataCommands)
Takes(c) ==
  /\ c.kind \in {"Read", "Write"} /\ c.cmd \in Opening
  /\ Len(queue["Active"]) < Dram.banks

LEMMA QueueMoves ==
  ASSUME Shape, NEW c, Issues(c)
  PROVE  /\ c.kind \in Kinds /\ c.at \in DOMAIN queue[c.kind]
         /\ c.r = queue[c.kind][c.at] /\ c.r \in Requests /\ Fits(c.r, c.kind)
         /\ IsMaintenance(c.r) = (c.kind = "Priority")
         /\ Served(c) \in Requests
         /\ IF Retires(c)
            THEN queue' = [queue EXCEPT ![c.kind] = RemoveAt(@, c.at)]
            ELSE IF Takes(c)
            THEN queue' = [[queue EXCEPT ![c.kind] = RemoveAt(@, c.at)]
                             EXCEPT !["Active"] = Append(@, Served(c))]
            ELSE queue' = [queue EXCEPT ![c.kind] = [@ EXCEPT ![c.at] = Served(c)]]
<1>1. /\ c.kind \in Kinds /\ c.at \in DOMAIN queue[c.kind]
      /\ c.r = queue[c.kind][c.at] /\ c.r \in Requests /\ Fits(c.r, c.kind)
  BY DEF Issues, Choice, Shape, QueueType
<1>2. IsMaintenance(c.r) = (c.kind = "Priority")
  BY <1>1 DEF Fits, IsMaintenance
<1>3. Served(c) \in Requests
  BY <1>1 DEF Served, Requests
<1>4. queue' = QueueAfter(queue, c.kind, c.at, c.cmd)
  BY DEF Issues, IssueCommand
<1>5. /\ Served(c).type = c.r.type /\ Served(c).next = c.r.next
  BY <1>1 DEF Served, Requests
<1>6. IsMaintenance(Served(c)) = IsMaintenance(c.r)
  BY <1>5 DEF IsMaintenance
<1>7. c.cmd \in Opening /\ ~IsMaintenance(c.r) /\ c.kind # "Active"
        => c.kind \in {"Read", "Write"}
  BY <1>1, <1>2 DEF Kinds
<1>8. c.kind \in {"Read", "Write"} => ~IsMaintenance(c.r) /\ c.kind # "Active"
  BY <1>2
<1> DEFINE s == Served(c)
           A == \/ IsMaintenance(s) /\ c.cmd = s.next
                \/ ~IsMaintenance(s) /\ c.cmd \in DataCommands
           B == /\ c.cmd \in Opening /\ ~IsMaintenance(s) /\ c.kind # "Active"
                /\ Len(queue["Active"]) < Dram.banks
           gone == [queue EXCEPT ![c.kind] = RemoveAt(@, c.at)]
           moved == [gone EXCEPT !["Active"] = Append(@, s)]
           kept == [queue EXCEPT ![c.kind][c.at] = s]
<1>9. queue' = IF A THEN gone ELSE IF B THEN moved ELSE kept
  <2>1. s = [queue[c.kind][c.at] EXCEPT !.first = @ \/ c.cmd = "ACT1"]
    BY <1>1 DEF Served
  <2> QED BY <1>4, <2>1, Zenon DEF QueueAfter
<1>10. A <=> Retires(c)
  <2> HIDE DEF s
  <2>1. s.next = c.r.next /\ IsMaintenance(s) = IsMaintenance(c.r)
    BY <1>5, <1>6 DEF s
  <2> QED BY <2>1 DEF Retires
<1>11. ~A => (B <=> Takes(c))
  <2> HIDE DEF s
  <2>1. IsMaintenance(s) = IsMaintenance(c.r)
    BY <1>6 DEF s
  <2> QED BY <2>1, <1>7, <1>8 DEF Takes
<1>12. moved = [[queue EXCEPT ![c.kind] = RemoveAt(@, c.at)] EXCEPT !["Active"] = Append(@, s)]
  OBVIOUS
<1>13. kept = [queue EXCEPT ![c.kind] = [@ EXCEPT ![c.at] = s]]
  OBVIOUS
<1>14. queue' = IF Retires(c) THEN gone ELSE IF Takes(c)
               THEN [[queue EXCEPT ![c.kind] = RemoveAt(@, c.at)]
                       EXCEPT !["Active"] = Append(@, s)]
               ELSE [queue EXCEPT ![c.kind] = [@ EXCEPT ![c.at] = s]]
  <2> HIDE DEF A, B, gone, moved, kept, s
  <2> QED BY <1>9, <1>10, <1>11, <1>12, <1>13
<1> QED BY <1>1, <1>2, <1>3, <1>14

\* The maintenance path gains no data command, and its requests are not marked.
LEMMA ServedFits ==
  ASSUME Shape, NEW c, Issues(c)
  PROVE  /\ Fits(Served(c), c.kind)
         /\ c.kind \in {"Read", "Write"} => Fits(Served(c), "Active")
<1>1. /\ c.kind \in Kinds /\ c.r \in Requests /\ Fits(c.r, c.kind)
      /\ c.at \in DOMAIN queue[c.kind] /\ c.r = queue[c.kind][c.at]
  BY QueueMoves
<1>2. c.kind = "Priority" => c.cmd # "ACT1"
  <2>1. c.kind = "Priority" => c.cmd \in {"PREAB", "PREPB", c.r.next}
    BY <1>1, CommandOf DEF Issues, Choice
  <2> QED BY <2>1, <1>1 DEF Fits, Upkeep, RfmCommands, Controls
<1> QED BY <1>1, <1>2 DEF Served, Fits, Requests

\* The three forms of the next queues keep their shape.
LEMMA QueueTypeIssue ==
  ASSUME Shape, NEW c, Issues(c)
  PROVE  /\ queue' \in [Kinds -> Seq(Requests)]
         /\ \A k \in Kinds : \A i \in DOMAIN queue'[k] : Fits(queue'[k][i], k)
         /\ Len(queue'["Active"]) <= Dram.banks
         /\ Len(queue'["Priority"]) <= Dram.prioritySize
<1>1. /\ c.kind \in Kinds /\ c.at \in DOMAIN queue[c.kind]
      /\ Served(c) \in Requests /\ queue \in [Kinds -> Seq(Requests)]
  BY QueueMoves DEF Shape, QueueType
<1>2. \A k \in Kinds : /\ queue[k] \in Seq(Requests) /\ Len(queue[k]) \in Nat
                       /\ DOMAIN queue[k] = 1 .. Len(queue[k])
                       /\ \A i \in DOMAIN queue[k] : Fits(queue[k][i], k)
  BY DEF Shape, QueueType
<1>3. Len(queue["Active"]) <= Dram.banks /\ Len(queue["Priority"]) <= Dram.prioritySize
  BY DEF Shape, QueueType
<1>4. Dram.banks \in Nat /\ Dram.prioritySize \in Nat
  BY DeviceFacts DEF Shape
<1> DEFINE left == RemoveAt(queue[c.kind], c.at)
<1>5. /\ left \in Seq(Requests) /\ Len(left) = Len(queue[c.kind]) - 1
      /\ \A i \in DOMAIN left : Fits(left[i], c.kind)
  <2>1. queue[c.kind] \in Seq(Requests)
    BY <1>1, <1>2
  <2>2. left \in Seq(Requests) /\ Len(left) = Len(queue[c.kind]) - 1
    BY <2>1, <1>1, Removing
  <2>3. \A i \in DOMAIN left : \E j \in DOMAIN queue[c.kind] : left[i] = queue[c.kind][j]
    BY <2>1, <1>1, RemovedFrom
  <2> QED BY <2>2, <2>3, <1>1, <1>2
<1>6. /\ Append(queue["Active"], Served(c)) \in Seq(Requests)
      /\ Len(Append(queue["Active"], Served(c))) = Len(queue["Active"]) + 1
      /\ DOMAIN Append(queue["Active"], Served(c)) = 1 .. Len(queue["Active"]) + 1
      /\ \A i \in 1 .. Len(queue["Active"]) + 1 : Append(queue["Active"], Served(c))[i] =
           IF i = Len(queue["Active"]) + 1 THEN Served(c) ELSE queue["Active"][i]
  <2>1. queue["Active"] \in Seq(Requests)
    BY <1>2 DEF Kinds
  <2> QED BY <2>1, <1>1, AppendProperties
<1>7. CASE queue' = [queue EXCEPT ![c.kind] = left]
  <2> HIDE DEF left
  <2>1. \A k \in Kinds : queue'[k] = IF k = c.kind THEN left ELSE queue[k]
    BY <1>7, <1>1
  <2>2. queue' \in [Kinds -> Seq(Requests)]
    BY <1>7, <1>1, <1>5
  <2>3. \A k \in Kinds : \A i \in DOMAIN queue'[k] : Fits(queue'[k][i], k)
    BY <2>1, <1>2, <1>5
  <2>4. \A k \in Kinds : Len(queue'[k]) <= Len(queue[k])
    BY <2>1, <1>2, <1>5
  <2>5. Len(queue'["Active"]) <= Len(queue["Active"])
        /\ Len(queue'["Priority"]) <= Len(queue["Priority"])
    BY <2>4 DEF Kinds
  <2>6. \A k \in Kinds : Len(queue'[k]) \in Nat
    BY <2>2
  <2> QED BY <2>2, <2>3, <2>5, <2>6, <1>2, <1>3, <1>4 DEF Kinds
<1>8. CASE /\ Takes(c)
           /\ queue' = [[queue EXCEPT ![c.kind] = left]
                          EXCEPT !["Active"] = Append(@, Served(c))]
  <2> DEFINE more == Append(queue["Active"], Served(c))
  <2>1. c.kind # "Active" /\ c.kind # "Priority" /\ Len(queue["Active"]) < Dram.banks
    BY <1>8 DEF Takes
  <2>2. more \in Seq(Requests) /\ Len(more) = Len(queue["Active"]) + 1
    BY <1>6
  <2>3. \A i \in DOMAIN more : Fits(more[i], "Active")
    BY <1>6, <1>2, <1>8, ServedFits DEF Takes, Kinds
  <2>4. queue' = [[queue EXCEPT ![c.kind] = left] EXCEPT !["Active"] = more]
    BY <2>1, <1>8
  <2> HIDE DEF left, more
  <2>5. \A k \in Kinds : queue'[k] = IF k = c.kind THEN left
                                     ELSE IF k = "Active" THEN more ELSE queue[k]
    BY <2>4, <2>1, <1>1
  <2>6. queue' \in [Kinds -> Seq(Requests)]
    BY <2>4, <2>2, <1>1, <1>5
  <2>7. \A k \in Kinds : \A i \in DOMAIN queue'[k] : Fits(queue'[k][i], k)
    BY <2>5, <2>3, <1>2, <1>5
  <2>8. queue'["Active"] = more /\ queue'["Priority"] = queue["Priority"]
    BY <2>5, <2>1 DEF Kinds
  <2>9. Len(queue["Active"]) \in Nat
    BY <1>2 DEF Kinds
  <2> QED BY <2>6, <2>7, <2>8, <2>9, <2>2, <2>1, <1>3, <1>4
<1>9. CASE queue' = [queue EXCEPT ![c.kind] = [@ EXCEPT ![c.at] = Served(c)]]
  <2> DEFINE other == [queue[c.kind] EXCEPT ![c.at] = Served(c)]
  <2>1. queue[c.kind] \in Seq(Requests)
    BY <1>1, <1>2
  <2>2. /\ other \in Seq(Requests) /\ Len(other) = Len(queue[c.kind])
        /\ DOMAIN other = DOMAIN queue[c.kind]
        /\ \A i \in DOMAIN other : other[i] = IF i = c.at THEN Served(c) ELSE queue[c.kind][i]
    BY <2>1, <1>1, ExceptSeq
  <2>3. \A i \in DOMAIN other : Fits(other[i], c.kind)
    BY <2>2, <1>1, <1>2, ServedFits
  <2>4. queue' = [queue EXCEPT ![c.kind] = other]
    BY <1>9
  <2> HIDE DEF other
  <2>5. \A k \in Kinds : queue'[k] = IF k = c.kind THEN other ELSE queue[k]
    BY <2>4, <1>1
  <2>6. queue' \in [Kinds -> Seq(Requests)]
    BY <2>4, <2>2, <1>1
  <2>7. \A k \in Kinds : \A i \in DOMAIN queue'[k] : Fits(queue'[k][i], k)
    BY <2>5, <2>3, <1>2
  <2>8. \A k \in Kinds : Len(queue'[k]) = Len(queue[k])
    BY <2>5, <2>2
  <2> QED BY <2>6, <2>7, <2>8, <1>3 DEF Kinds
<1> QED BY <1>7, <1>8, <1>9, QueueMoves

\* Delays are numbers of ticks.
LEMMA DelayNat ==
  ASSUME dev \in DOMAIN Devices, NEW n \in Int
  PROVE  D(n) \in Nat /\ (n > 0 => D(n) >= n /\ D(n) > 0)
<1>1. Dram.mult \in Nat \ {0} /\ D(n) = (IF n <= 0 THEN 0 ELSE n) * Dram.mult
  BY DeviceFacts DEF D, Delay, Dram
<1> DEFINE m == Dram.mult
<1>2. m \in Nat /\ m >= 1
  BY <1>1
<1> HIDE DEF m
<1>3. CASE n <= 0
  <2>1. D(n) = 0 * m
    BY <1>1, <1>3 DEF m
  <2> QED BY <2>1, <1>2, <1>3
<1>4. CASE n > 0
  <2>1. D(n) = n * m
    BY <1>1, <1>4 DEF m
  <2>2. n * m >= n /\ n * m \in Nat
    BY <1>2, <1>4
  <2> QED BY <2>1, <2>2, <1>4
<1> QED BY <1>3, <1>4

LEMMA TimingInt ==
  ASSUME dev \in DOMAIN Devices
  PROVE  T \in [TimingNames -> Int]
BY DeviceAssumption DEF T, Dram

\* What an issued command was checked for.
LEMMA IssueLegal ==
  ASSUME NEW c, Issues(c)
  PROVE  /\ c.cmd # "NOP" /\ TimingOk(c.r, c.cmd) /\ StateLegal(c.r, c.cmd)
         /\ BusMatches(c.r, c.cmd, phase)
         /\ c.kind # "Active" => ~WouldCloseActive(c.r, c.cmd)
BY DEF Issues, Choice, Offered, Eligible, Ready, TimingOk

\* The states that check_command_state() demands, command by command.
LEMMA LegalState ==
  ASSUME NEW r, NEW cmd, StateLegal(r, cmd)
  PROVE  /\ cmd = "ACT" => ~Dram.split /\ ~Busy(r.bank)
         /\ cmd = "ACT1" => Dram.split /\ ~Busy(r.bank)
         /\ cmd = "ACT2" => Dram.split /\ bank[r.bank].activating /\ r.first
         /\ cmd = "PREPB" => bank[r.bank].row # 0 /\ ~bank[r.bank].activating
         /\ cmd = "PREAB" => RankBusy(r.bank)
         /\ cmd \in {"CASRD", "CASWR"} =>
              /\ Dram.lpddr /\ RowHit(r) /\ ~retrain
              /\ bank[r.bank].row # 0 /\ ~bank[r.bank].activating
         /\ cmd \in DataCommands =>
              /\ RowHit(r) /\ bank[r.bank].row # 0 /\ ~bank[r.bank].activating
              /\ Dram.lpddr => WckReady(r.bank) /\ ~retrain
         /\ cmd \in PerBankMaintenance => IsMaintenance(r) /\ ~Busy(r.bank)
         /\ cmd \in AllBankMaintenance => IsMaintenance(r) /\ ~RankBusy(r.bank)
         /\ cmd \in {"MRW", "MRR"} => IsMaintenance(r) /\ ~ChannelBusy(r.bank)
         /\ cmd = "WCKSYNC" => Dram.lpddr /\ ~retrain
         /\ cmd \in {"WCKTRAIN", "DVFS"} =>
              Dram.lpddr /\ IsMaintenance(r) /\ ~ChannelBusy(r.bank)
         /\ cmd = "ECCSCRUB" => IsMaintenance(r) /\ Dram.ecc /\ ~ChannelBusy(r.bank)
         /\ cmd = "RASERR" => IsMaintenance(r) /\ (Dram.ecc \/ Dram.linkRetry)
BY DEF StateLegal, DataCommands, Reads, Writes, PerBankMaintenance, AllBankMaintenance

\* The command belongs to the request's kind.
LEMMA IssueCommandOf ==
  ASSUME Shape, NEW c, Issues(c)
  PROVE  /\ c.cmd \in Commands /\ c.r.bank \in Banks
         /\ IF c.kind = "Priority" THEN c.cmd \in {"PREAB", "PREPB", c.r.next}
            ELSE c.cmd \in DataCommands \cup
                   {"CASRD", "CASWR", "PREPB", "ACT", "ACT1", "ACT2"}
<1>1. /\ c.kind \in Kinds /\ c.at \in DOMAIN queue[c.kind]
      /\ c.r = queue[c.kind][c.at] /\ c.r \in Requests /\ Fits(c.r, c.kind)
  BY QueueMoves
<1>2. c.cmd = NextCommand(c.r) /\ c.cmd # "NOP"
  BY IssueLegal DEF Issues, Choice
<1>3. IF c.kind = "Priority" THEN c.cmd \in {"PREAB", "PREPB", c.r.next}
      ELSE c.cmd \in DataCommands \cup
             {"CASRD", "CASWR", "PREPB", "ACT", "ACT1", "ACT2"}
  BY <1>1, <1>2, CommandOf
<1>4. c.cmd \in Commands
  BY <1>1, <1>2, <1>3 DEF Requests, Commands, RowCommands, ColumnCommands, Opening, AllBank
<1> QED BY <1>1, <1>3, <1>4 DEF Requests

\* The states of the banks after a command.
LEMMA BankTypeIssue ==
  ASSUME Shape, NEW c, Issues(c)
  PROVE  /\ bank' \in [Banks -> [row : Nat, activating : BOOLEAN, deadline : Int]]
         /\ \A b \in Banks : bank'[b].activating => bank'[b].row = 0 /\ Dram.split
<1> DEFINE State == [row : Nat, activating : BOOLEAN, deadline : Int]
           b == c.r.bank
           cmd == c.cmd
           row == c.r.row
<1>1. b \in Banks /\ row \in Nat
  BY QueueMoves DEF Requests
<1>2. bank' = BankAfter(cmd, b, row)
  BY DEF Issues, IssueCommand
<1>3. /\ bank \in [Banks -> State]
      /\ \A x \in Banks : bank[x].activating => bank[x].row = 0 /\ Dram.split
  BY DEF Shape, BankType
<1>4. StateLegal(c.r, cmd)
  BY IssueLegal
<1>5. D(Larger(T.nAADMin, T.nAADMax)) \in Int
  <2>1. T.nAADMin \in Int /\ T.nAADMax \in Int
    BY TimingInt DEF Shape, TimingNames
  <2>2. Larger(T.nAADMin, T.nAADMax) \in Int
    BY <2>1 DEF Larger
  <2> QED BY <2>2, DelayNat DEF Shape
<1> HIDE DEF b, cmd, row
<1>6. CASE cmd = "ACT"
  <2>1. ~bank[b].activating
    BY <1>4, <1>6, LegalState DEF Busy, b
  <2>2. bank' = [bank EXCEPT ![b].row = row]
    BY <1>2, <1>6 DEF BankAfter
  <2> QED BY <2>1, <2>2, <1>1, <1>3
<1>7. CASE cmd = "ACT1"
  <2>1. bank[b].row = 0 /\ Dram.split
    <3>1. Dram.split /\ ~Busy(b)
      BY <1>4, <1>7, LegalState DEF b
    <3> QED BY <3>1, <1>1, <1>3 DEF Busy
  <2> DEFINE d == D(Larger(T.nAADMin, T.nAADMax))
  <2>2. bank' = [bank EXCEPT ![b] = [@ EXCEPT !.activating = TRUE, !.deadline = d]]
    BY <1>2, <1>7 DEF BankAfter
  <2> HIDE DEF d
  <2>3. d \in Int
    BY <1>5 DEF d
  <2> DEFINE e == [bank[b] EXCEPT !.activating = TRUE, !.deadline = d]
  <2>4. e \in State /\ e.row = 0
    BY <1>1, <1>3, <2>1, <2>3
  <2>5. bank' = [bank EXCEPT ![b] = e]
    BY <2>2
  <2> HIDE DEF e, State
  <2> QED BY <2>1, <2>4, <2>5, <1>1, <1>3 DEF State
<1>8. CASE cmd = "ACT2"
  <2>2. bank' = [bank EXCEPT ![b] = [row |-> row, activating |-> FALSE, deadline |-> -1]]
    BY <1>2, <1>8 DEF BankAfter
  <2> QED BY <2>2, <1>1, <1>3
<1>9. CASE cmd = "PREPB"
  <2>2. bank' = [bank EXCEPT ![b] = [@ EXCEPT !.row = 0, !.activating = FALSE]]
    BY <1>2, <1>9 DEF BankAfter
  <2> QED BY <2>2, <1>1, <1>3
<1>10. CASE cmd \in {"RDA", "WRA"}
  <2>2. bank' = [bank EXCEPT ![b].row = 0]
    BY <1>2, <1>10 DEF BankAfter
  <2> QED BY <2>2, <1>1, <1>3
<1>11. CASE cmd = "PREAB"
  <2>2. bank' = [x \in Banks |-> IF x \in RankBanks(dev, b)
                          THEN [bank[x] EXCEPT !.row = 0, !.activating = FALSE]
                          ELSE bank[x]]
    BY <1>2, <1>11 DEF BankAfter
  <2> QED BY <2>2, <1>3
<1>12. CASE cmd \notin {"ACT", "ACT1", "ACT2", "PREPB", "RDA", "WRA", "PREAB"}
  <2>2. bank' = bank
    BY <1>2, <1>12 DEF BankAfter
  <2> QED BY <2>2, <1>3
<1> QED BY <1>6, <1>7, <1>8, <1>9, <1>10, <1>11, <1>12

\* Every step keeps the shapes.
LEMMA ShapeStep ==
  ASSUME Shape, Covered(dev), [TraceNext]_traceVars
  PROVE  Shape' /\ Covered(dev)'
<1>0. dev' = dev
  BY Steps
<1> USE <1>0, DeviceStays
<1>1. CASE UNCHANGED traceVars
  BY <1>1 DEF traceVars, vars, deviceVars, Shape, QueueType, BankType, PhaseType
<1>2. ASSUME NEW r, Given(r), Submit(r)
      PROVE  Shape'
  <2>1. /\ queue \in [Kinds -> Seq(Requests)] /\ r \in Requests
        /\ \A k \in Kinds : \A i \in DOMAIN queue[k] : Fits(queue[k][i], k)
    BY <1>2 DEF Shape, QueueType, Given
  <2> DEFINE k0 == IF IsMaintenance(r) THEN "Priority" ELSE r.type
  <2>2. k0 \in Kinds \ {"Active"} /\ Fits(r, k0)
    BY <1>2 DEF Given, IsMaintenance, Kinds, Requests
  <2>3. queue' = [queue EXCEPT ![k0] = Append(@, r)]
    BY <1>2 DEF Submit
  <2>4. IsMaintenance(r) => PrioritySpace > 0
    BY <1>2 DEF Submit
  <2>5. UNCHANGED <<bank, pending>> /\ phase' = "busy"
    BY <1>2 DEF Submit, deviceVars
  <2>51. given' \in [data : Nat, maintenance : Nat]
    BY <1>2 DEF Submit, Shape
  <2> HIDE DEF k0
  <2> DEFINE new == Append(queue[k0], r)
  <2>6. /\ new \in Seq(Requests) /\ Len(new) = Len(queue[k0]) + 1
        /\ \A i \in DOMAIN new : Fits(new[i], k0)
    <3>1. queue[k0] \in Seq(Requests)
      BY <2>1, <2>2
    <3>2. /\ new \in Seq(Requests) /\ Len(new) = Len(queue[k0]) + 1
          /\ \A i \in DOMAIN new : new[i] = IF i = Len(queue[k0]) + 1 THEN r ELSE queue[k0][i]
      BY <3>1, <2>1, AppendProperties
    <3> QED BY <3>1, <3>2, <2>1, <2>2
  <2>7. queue' = [queue EXCEPT ![k0] = new]
    BY <2>3
  <2> HIDE DEF new
  <2>8. \A k \in Kinds : queue'[k] = IF k = k0 THEN new ELSE queue[k]
    BY <2>7, <2>1, <2>2
  <2>9. queue' \in [Kinds -> Seq(Requests)]
    BY <2>7, <2>1, <2>2, <2>6
  <2>10. \A k \in Kinds : \A i \in DOMAIN queue'[k] : Fits(queue'[k][i], k)
    BY <2>8, <2>1, <2>6
  <2>11. queue'["Active"] = queue["Active"]
    BY <2>8, <2>2 DEF Kinds
  <2>12. Len(queue'["Priority"]) <= Dram.prioritySize
    <3>1. CASE k0 = "Priority"
      <4>1. Len(queue["Priority"]) < Dram.prioritySize
        <5>1. IsMaintenance(r)
          BY <3>1, <1>2 DEF k0, IsMaintenance, Given, Requests
        <5>2. Len(queue["Priority"]) \in Nat /\ Dram.prioritySize \in Nat
          BY <2>1, DeviceFacts DEF Shape, Kinds
        <5> QED BY <5>1, <5>2, <2>4 DEF PrioritySpace
      <4>2. queue'["Priority"] = new
        BY <3>1, <2>8 DEF Kinds
      <4>3. Len(queue["Priority"]) \in Nat /\ Dram.prioritySize \in Nat
        BY <2>1, DeviceFacts DEF Shape, Kinds
      <4> QED BY <4>1, <4>2, <4>3, <2>6, <3>1
    <3>2. CASE k0 # "Priority"
      BY <3>2, <2>8 DEF Kinds, Shape, QueueType
    <3> QED BY <3>1, <3>2
  <2> QED BY <2>5, <2>51, <2>9, <2>10, <2>11, <2>12 DEF Shape, QueueType, BankType, PhaseType
<1>3. CASE Advance
  <2> DEFINE q == queue["Priority"]
             moved == Min({PrioritySpace, Len(pending)})
             come == SubSeq(pending, 1, moved)
             left == SubSeq(pending, moved + 1, Len(pending))
  <2>1. /\ queue \in [Kinds -> Seq(Requests)] /\ pending \in Seq(Requests)
        /\ \A k \in Kinds : \A i \in DOMAIN queue[k] : Fits(queue[k][i], k)
        /\ \A i \in DOMAIN pending : Fits(pending[i], "Priority")
        /\ q \in Seq(Requests) /\ Len(q) \in Nat
    BY DEF Shape, QueueType, Kinds
  <2>2. PrioritySpace \in Nat /\ Len(q) + PrioritySpace = Dram.prioritySize
    <3>1. Len(q) <= Dram.prioritySize /\ Dram.prioritySize \in Nat
      BY DeviceFacts DEF Shape, QueueType
    <3> QED BY <3>1, <2>1 DEF PrioritySpace
  <2>3. moved \in Nat /\ moved <= Len(pending) /\ moved <= PrioritySpace
    <3>1. Len(pending) \in Nat
      BY <2>1
    <3> DEFINE m == PrioritySpace
               n == Len(pending)
    <3>2. m \in Nat /\ n \in Nat
      BY <3>1, <2>2
    <3>3. moved = Min({m, n})
      OBVIOUS
    <3> HIDE DEF m, n, moved
    <3>4. moved \in {m, n} /\ moved <= m /\ moved <= n
      BY <3>2, <3>3, MinOfTwo
    <3> QED BY <3>2, <3>4 DEF m, n
  <2>4. /\ queue' = [queue EXCEPT !["Priority"] = q \o come]
        /\ pending' = left
    BY <1>3 DEF Advance
  <2> HIDE DEF moved
  <2>5. /\ come \in Seq(Requests) /\ Len(come) = moved
        /\ \A i \in DOMAIN come : i \in DOMAIN pending /\ come[i] = pending[i]
    BY <2>1, <2>3, SubSeqProperties
  <2>6. /\ left \in Seq(Requests)
        /\ \A i \in DOMAIN left : \E j \in DOMAIN pending : left[i] = pending[j]
    <3>1. left \in Seq(Requests) /\ Len(left) = Len(pending) - moved
          /\ \A i \in 1 .. Len(pending) - moved : left[i] = pending[moved + i]
      BY <2>1, <2>3, SubSeqProperties
    <3>2. \A i \in DOMAIN left : moved + i \in DOMAIN pending
      BY <3>1, <2>1, <2>3
    <3> HIDE DEF left
    <3> QED BY <3>1, <3>2, <2>1, <2>3
  <2> HIDE DEF come, left
  <2>7. /\ q \o come \in Seq(Requests) /\ Len(q \o come) = Len(q) + moved
        /\ \A i \in DOMAIN (q \o come) : Fits((q \o come)[i], "Priority")
    <3> HIDE DEF q
    <3>1. /\ q \o come \in Seq(Requests) /\ Len(q \o come) = Len(q) + Len(come)
          /\ \A i \in 1 .. Len(q) + Len(come) : (q \o come)[i] =
               IF i <= Len(q) THEN q[i] ELSE come[i - Len(q)]
      <4>1. come \in Seq(Requests) /\ q \in Seq(Requests)
        BY <2>1, <2>5
      <4> QED BY <4>1, ConcatProperties
    <3>2. \A i \in DOMAIN q : Fits(q[i], "Priority")
      BY <2>1 DEF Kinds, q
    <3>3. \A i \in DOMAIN come : Fits(come[i], "Priority")
      BY <2>1, <2>5
    <3>4. ASSUME NEW i \in 1 .. Len(q) + Len(come)
          PROVE  Fits((q \o come)[i], "Priority")
      <4>1. CASE i <= Len(q)
        <5>1. i \in DOMAIN q
          BY <4>1, <2>1
        <5> QED BY <5>1, <4>1, <3>1, <3>2
      <4>2. CASE i > Len(q)
        <5>1. i - Len(q) \in DOMAIN come /\ ~(i <= Len(q))
          BY <4>2, <2>1, <2>5
        <5> QED BY <5>1, <3>1, <3>3
      <4> QED BY <4>1, <4>2, <2>1
    <3>5. DOMAIN (q \o come) = 1 .. Len(q) + Len(come)
      BY <3>1
    <3> QED BY <3>1, <3>4, <3>5, <2>5
  <2> DEFINE all == q \o come
  <2>8. queue' = [queue EXCEPT !["Priority"] = all]
    BY <2>4
  <2>9. all \in Seq(Requests) /\ Len(all) <= Dram.prioritySize
        /\ \A i \in DOMAIN all : Fits(all[i], "Priority")
    BY <2>7, <2>2, <2>3, <2>1
  <2> HIDE DEF q, all
  <2>10. \A k \in Kinds : queue'[k] = IF k = "Priority" THEN all ELSE queue[k]
    BY <2>8, <2>1
  <2>11. queue' \in [Kinds -> Seq(Requests)]
    BY <2>8, <2>9, <2>1 DEF Kinds
  <2>12. \A k \in Kinds : \A i \in DOMAIN queue'[k] : Fits(queue'[k][i], k)
    BY <2>10, <2>9, <2>1, SMTT(60)
  <2>13. \A i \in DOMAIN pending' : Fits(pending'[i], "Priority")
    BY <2>4, <2>6, <2>1
  <2>14. Len(queue'["Active"]) <= Dram.banks /\ Len(queue'["Priority"]) <= Dram.prioritySize
    BY <2>10, <2>9 DEF Kinds, Shape, QueueType
  <2>15. QueueType'
    BY <2>4, <2>6, <2>11, <2>12, <2>13, <2>14 DEF QueueType
  <2>16. BankType'
    <3>1. bank' = [b \in Banks |-> [bank[b] EXCEPT !.deadline = Larger(-1, @ - 1)]]
      BY <1>3 DEF Advance
    <3>2. bank \in [Banks -> [row : Nat, activating : BOOLEAN, deadline : Int]]
      BY DEF Shape, BankType
    <3>3. \A b \in Banks : Larger(-1, bank[b].deadline - 1) \in Int
      BY <3>2 DEF Larger
    <3>4. \A b \in Banks :
             /\ bank'[b] \in [row : Nat, activating : BOOLEAN, deadline : Int]
             /\ bank'[b].row = bank[b].row /\ bank'[b].activating = bank[b].activating
      BY <3>1, <3>2, <3>3
    <3>5. bank' \in [Banks -> [row : Nat, activating : BOOLEAN, deadline : Int]]
      BY <3>1, <3>4
    <3> QED BY <3>4, <3>5 DEF Shape, BankType
  <2>17. PhaseType' /\ given' = given
    <3>1. phase' = FirstBus /\ given' = given
      BY <1>3 DEF Advance, Covered, Dram
    <3> QED BY <3>1 DEF FirstBus, PhaseType
  <2> QED BY <2>15, <2>16, <2>17 DEF Shape
<1>4. ASSUME NEW c, Issues(c)
      PROVE  Shape'
  <2>1. /\ queue' \in [Kinds -> Seq(Requests)]
        /\ \A k \in Kinds : \A i \in DOMAIN queue'[k] : Fits(queue'[k][i], k)
        /\ Len(queue'["Active"]) <= Dram.banks
        /\ Len(queue'["Priority"]) <= Dram.prioritySize
    BY <1>4, QueueTypeIssue
  <2>2. pending' \in Seq(Requests) /\ \A i \in DOMAIN pending' : Fits(pending'[i], "Priority")
    <3>1. pending' = PendingAfter(c.cmd, c.r.bank)
      BY <1>4 DEF Issues, IssueCommand
    <3>2. pending \in Seq(Requests) /\ \A i \in DOMAIN pending : Fits(pending[i], "Priority")
      BY DEF Shape, QueueType
    <3> DEFINE r == Request(0, "Maintenance",
                            IF Dram.rfmAllBank THEN "RFMAB" ELSE "RFMPB", c.r.bank, 0)
    <3>3. r \in Requests /\ Fits(r, "Priority")
      <4>1. c.r.bank \in Banks
        BY <1>4, IssueCommandOf
      <4> QED BY <4>1 DEF Request, Requests, Fits, RfmCommands, Commands, RowCommands,
                          PerBankMaintenance, AllBank, AllBankMaintenance
    <3>4. pending' \in {pending, Append(pending, r)}
      BY <3>1 DEF PendingAfter
    <3> HIDE DEF r
    <3>5. /\ Append(pending, r) \in Seq(Requests)
          /\ \A i \in DOMAIN Append(pending, r) : Fits(Append(pending, r)[i], "Priority")
      BY <3>2, <3>3, AppendProperties
    <3> QED BY <3>2, <3>4, <3>5
  <2>3. QueueType'
    BY <2>1, <2>2 DEF QueueType
  <2>4. BankType'
    BY <1>4, BankTypeIssue DEF BankType
  <2>5. PhaseType' /\ given' = given
    <3>1. phase' = NextPhase(phase) /\ given' = given
      BY <1>4 DEF Issues, OnBus
    <3> QED BY <3>1 DEF Shape, PhaseType, NextPhase
  <2> QED BY <2>3, <2>4, <2>5 DEF Shape
<1>5. CASE BusIdle /\ queue' = queue
  <2>1. UNCHANGED <<bank, pending, given>> /\ phase' = NextPhase(phase)
    BY <1>5 DEF BusIdle, OnBus, deviceVars
  <2>2. PhaseType'
    BY <2>1 DEF Shape, PhaseType, NextPhase
  <2> QED BY <2>1, <2>2, <1>5 DEF Shape, QueueType, BankType
<1> QED BY <1>1, <1>2, <1>3, <1>4, <1>5, Steps

-----------------------------------------------------------------------------
(* Who owns the rows *)

Active == queue["Active"]

\* Only the active buffer holds requests whose ACT1 is done.
Fresh == \A k \in {"Read", "Write"} : \A i \in DOMAIN queue[k] : ~queue[k][i].first

\* No two requests of the active buffer have the same bank.
OneOwner == \A i, j \in DOMAIN Active : Active[i].bank = Active[j].bank => i = j

\* A bank that is being activated has the request that started it.
Owned ==
  \A b \in Banks : bank[b].activating =>
    \E i \in DOMAIN Active : Active[i].bank = b /\ Active[i].first

OpenPage == Dram.policy = "OpenPage"
Ownership == Fresh /\ Owned /\ (OpenPage => OneOwner /\ ActiveRowsHeld)

\* An open page, or no split activate.
LEMMA OpenOrWhole ==
  ASSUME Covered(dev)
  PROVE  OpenPage \/ ~Dram.split
BY DEF Covered, OpenPage, Dram

LEMMA Interval ==
  ASSUME NEW n \in Nat
  PROVE  IsFiniteSet(1 .. n) /\ Cardinality(1 .. n) = n
BY FS_Interval

\* A function into a smaller set takes a value twice.
LEMMA Twice ==
  ASSUME NEW n \in Nat, NEW S, IsFiniteSet(S), Cardinality(S) < n, NEW f \in [1 .. n -> S]
  PROVE  \E x, y \in 1 .. n : x # y /\ f[x] = f[y]
BY Interval, FS_PigeonHole

LEMMA ActiveIsSeq ==
  ASSUME Shape
  PROVE  /\ Active \in Seq(Requests) /\ DOMAIN Active = 1 .. Len(Active)
         /\ Len(Active) \in Nat
         /\ \A i \in DOMAIN Active : /\ Active[i] \in Requests /\ Active[i].bank \in Banks
                                     /\ Active[i].row # 0 /\ Active[i].row \in Nat
                                     /\ ~IsMaintenance(Active[i])
<1>1. Active \in Seq(Requests) /\ \A i \in DOMAIN Active : Fits(Active[i], "Active")
  BY DEF Shape, QueueType, Kinds, Active
<1>2. /\ DOMAIN Active = 1 .. Len(Active) /\ Len(Active) \in Nat
      /\ \A i \in DOMAIN Active : Active[i] \in Requests
  BY <1>1
<1> QED BY <1>1, <1>2 DEF Fits, IsMaintenance, Requests

\* While every request of the buffer has a bank of its own and one more bank is
\* free, the buffer has a place.
LEMMA RoomLeft ==
  ASSUME Shape, OneOwner, NEW b \in Banks, \A i \in DOMAIN Active : Active[i].bank # b
  PROVE  Len(Active) < Dram.banks
<1> DEFINE n == Len(Active)
           m == Dram.banks
           f == [i \in 1 .. n |-> Active[i].bank]
<1>1. n \in Nat /\ m \in Nat /\ Banks = 1 .. m /\ DOMAIN Active = 1 .. n
  BY ActiveIsSeq, DeviceFacts DEF Shape
<1>2. f \in [1 .. n -> Banks \ {b}]
  BY ActiveIsSeq
<1>3. IsFiniteSet(1 .. n) /\ Cardinality(1 .. n) = n
  BY <1>1, Interval
<1>4. IsFiniteSet(Banks) /\ Cardinality(Banks) = m
  BY <1>1, Interval
<1>5. IsFiniteSet(Banks \ {b}) /\ Cardinality(Banks \ {b}) = m - 1
  BY <1>4, FS_RemoveElement
<1>6. ~(n > m - 1)
  <2> SUFFICES ASSUME n > m - 1 PROVE FALSE
    OBVIOUS
  <2>1. \E x, y \in 1 .. n : x # y /\ f[x] = f[y]
    <3> HIDE DEF f, n, m
    <3>1. Cardinality(Banks \ {b}) < n
      BY <1>1, <1>5
    <3> QED BY <1>1, <1>2, <1>5, <3>1, Twice
  <2> QED BY <2>1, <1>1 DEF OneOwner
<1> QED BY <1>1, <1>6

\* would_close_active() sees every request of the buffer.
LEMMA CountsActive ==
  ASSUME Shape, NEW b, ~(ActiveCount(b) > 0)
  PROVE  \A i \in DOMAIN Active : Active[i].bank # b
<1> DEFINE S == {i \in DOMAIN Active : Active[i].bank = b}
<1>1. IsFiniteSet(1 .. Len(Active)) /\ DOMAIN Active = 1 .. Len(Active)
  BY ActiveIsSeq, Interval
<1>2. IsFiniteSet(S)
  BY <1>1, FS_Subset
<1>3. Cardinality(S) \in Nat
  BY <1>2, FS_CardinalityType
<1>4. ActiveCount(b) = Cardinality(S)
  BY DEF ActiveCount, Active
<1>5. S = {}
  <2> HIDE DEF S
  <2> QED BY <1>2, <1>3, <1>4, FS_EmptySet
<1> QED BY <1>5

\* The bank of a command, and the others.
LEMMA BankMoves ==
  ASSUME Shape, NEW c, Issues(c), NEW x \in Banks
  PROVE  /\ x # c.r.bank /\ c.cmd # "PREAB" => bank'[x] = bank[x]
         /\ c.cmd = "PREAB" =>
              IF x \in RankBanks(dev, c.r.bank)
              THEN bank'[x].row = 0 /\ bank'[x].activating = FALSE
              ELSE bank'[x] = bank[x]
         /\ x = c.r.bank =>
              /\ c.cmd = "ACT" => /\ bank'[x].row = c.r.row
                                  /\ bank'[x].activating = bank[x].activating
              /\ c.cmd = "ACT1" => /\ bank'[x].row = bank[x].row /\ bank'[x].activating = TRUE
                                   /\ bank'[x].deadline = D(Larger(T.nAADMin, T.nAADMax))
              /\ c.cmd = "ACT2" => bank'[x].row = c.r.row /\ bank'[x].activating = FALSE
              /\ c.cmd = "PREPB" => bank'[x].row = 0 /\ bank'[x].activating = FALSE
              /\ c.cmd \in {"RDA", "WRA"} => /\ bank'[x].row = 0
                                             /\ bank'[x].activating = bank[x].activating
         /\ c.cmd \notin {"ACT", "ACT1", "ACT2", "PREPB", "RDA", "WRA", "PREAB"}
              => bank' = bank
<1> DEFINE b == c.r.bank
           cmd == c.cmd
           row == c.r.row
<1>1. b \in Banks
  BY QueueMoves DEF Requests
<1>2. bank' = BankAfter(cmd, b, row)
  BY DEF Issues, IssueCommand
<1>3. bank \in [Banks -> [row : Nat, activating : BOOLEAN, deadline : Int]]
  BY DEF Shape, BankType
<1> HIDE DEF b, cmd, row
<1>4. CASE cmd = "ACT"
  <2>1. bank' = [bank EXCEPT ![b].row = row]
    BY <1>2, <1>4 DEF BankAfter
  <2> QED BY <2>1, <1>1, <1>3, <1>4 DEF b, cmd, row
<1>5. CASE cmd = "ACT1"
  <2> DEFINE d == D(Larger(T.nAADMin, T.nAADMax))
  <2>1. bank' = [bank EXCEPT ![b] = [@ EXCEPT !.activating = TRUE, !.deadline = d]]
    BY <1>2, <1>5 DEF BankAfter
  <2> HIDE DEF d
  <2> DEFINE e == [bank[b] EXCEPT !.activating = TRUE, !.deadline = d]
  <2>2. e.row = bank[b].row /\ e.activating = TRUE /\ e.deadline = d
    BY <1>1, <1>3
  <2>3. bank' = [bank EXCEPT ![b] = e]
    BY <2>1
  <2> HIDE DEF e
  <2> QED BY <2>2, <2>3, <1>1, <1>3, <1>5 DEF b, cmd, row, d
<1>6. CASE cmd = "ACT2"
  <2>1. bank' = [bank EXCEPT ![b] = [row |-> row, activating |-> FALSE, deadline |-> -1]]
    BY <1>2, <1>6 DEF BankAfter
  <2> QED BY <2>1, <1>1, <1>3, <1>6 DEF b, cmd, row
<1>7. CASE cmd = "PREPB"
  <2>1. bank' = [bank EXCEPT ![b] = [@ EXCEPT !.row = 0, !.activating = FALSE]]
    BY <1>2, <1>7 DEF BankAfter
  <2> QED BY <2>1, <1>1, <1>3, <1>7 DEF b, cmd, row
<1>8. CASE cmd \in {"RDA", "WRA"}
  <2>1. bank' = [bank EXCEPT ![b].row = 0]
    BY <1>2, <1>8 DEF BankAfter
  <2> QED BY <2>1, <1>1, <1>3, <1>8 DEF b, cmd, row
<1>9. CASE cmd = "PREAB"
  <2>1. bank' = [y \in Banks |-> IF y \in RankBanks(dev, b)
                          THEN [bank[y] EXCEPT !.row = 0, !.activating = FALSE]
                          ELSE bank[y]]
    BY <1>2, <1>9 DEF BankAfter
  <2> QED BY <2>1, <1>3, <1>9 DEF b, cmd, row
<1>10. CASE cmd \notin {"ACT", "ACT1", "ACT2", "PREPB", "RDA", "WRA", "PREAB"}
  <2>1. bank' = bank
    BY <1>2, <1>10 DEF BankAfter
  <2> QED BY <2>1, <1>10 DEF b, cmd, row
<1> QED BY <1>4, <1>5, <1>6, <1>7, <1>8, <1>9, <1>10

\* A command for a row that is open for it.
OnOpenRow == DataCommands \cup {"CASRD", "CASWR"}

\* Whose request a command serves, under the open-page policy.
LEMMA OwnerOf ==
  ASSUME Shape, Covered(dev), Ownership, OpenPage, NEW c, Issues(c)
  PROVE  /\ c.cmd \notin {"RDA", "WRA"}
         /\ c.cmd \in Opening =>
              Takes(c) /\ \A i \in DOMAIN Active : Active[i].bank # c.r.bank
         /\ c.cmd = "ACT2" => c.kind = "Active"
         /\ c.cmd \in {"PREPB"} \cup PerBankMaintenance =>
              /\ c.kind # "Active"
              /\ \A i \in DOMAIN Active : Active[i].bank # c.r.bank
         /\ c.cmd \in {"PREAB"} \cup AllBankMaintenance =>
              \A i \in DOMAIN Active : Active[i].bank \notin RankBanks(dev, c.r.bank)
         /\ c.kind = "Active" => c.cmd \in OnOpenRow \cup {"ACT2"}
<1> DEFINE b == c.r.bank
<1>1. /\ c.kind \in Kinds /\ c.at \in DOMAIN queue[c.kind]
      /\ c.r = queue[c.kind][c.at] /\ c.r \in Requests /\ Fits(c.r, c.kind)
      /\ IsMaintenance(c.r) = (c.kind = "Priority") /\ b \in Banks
  BY QueueMoves, IssueCommandOf
<1>2. /\ c.cmd = NextCommand(c.r) /\ c.cmd # "NOP" /\ StateLegal(c.r, c.cmd)
      /\ c.kind # "Active" => ~WouldCloseActive(c.r, c.cmd)
  BY IssueLegal DEF Issues, Choice
<1>3. IF c.kind = "Priority" THEN c.cmd \in {"PREAB", "PREPB", c.r.next}
      ELSE c.cmd \in DataCommands \cup {"CASRD", "CASWR", "PREPB", "ACT", "ACT1", "ACT2"}
  BY IssueCommandOf
<1>4. c.kind = "Priority" => c.r.next \in Upkeep \cup RfmCommands
  BY <1>1 DEF Fits
<1>5. \A i \in DOMAIN Active :
        IF Dram.split /\ bank[Active[i].bank].row = 0
        THEN bank[Active[i].bank].activating /\ Active[i].first
        ELSE bank[Active[i].bank].row = Active[i].row
  BY DEF Ownership, ActiveRowsHeld, Active
<1>6. c.cmd \notin {"RDA", "WRA"}
  <2>1. c.kind = "Priority" => c.cmd \notin DataCommands
    BY <1>3, <1>4 DEF Upkeep, RfmCommands, Controls, DataCommands, Reads, Writes
  <2>2. c.cmd \in DataCommands => c.cmd = DataCommand(c.r)
    <3>1. CasCommand(c.r) \in {"NOP", "CASRD", "CASWR"}
      BY DEF CasCommand
    <3>2. ~IsMaintenance(c.r) /\ c.cmd \in DataCommands => c.cmd = DataCommand(c.r)
      BY <3>1, <1>2 DEF NextCommand, DataCommands, Reads, Writes
    <3> QED BY <3>2, <2>1, <1>1
  <2>3. DataCommand(c.r) \in {"RD", "WR"}
    BY DEF DataCommand, OpenPage
  <2> QED BY <2>2, <2>3 DEF DataCommands, Reads, Writes
<1>7. c.cmd \in Opening =>
        Takes(c) /\ \A i \in DOMAIN Active : Active[i].bank # b
  <2> SUFFICES ASSUME c.cmd \in Opening
               PROVE  Takes(c) /\ \A i \in DOMAIN Active : Active[i].bank # b
    OBVIOUS
  <2>1. bank[b].row = 0 /\ ~bank[b].activating
    <3>1. ~Busy(b)
      BY <1>2, LegalState DEF Opening
    <3> QED BY <3>1 DEF Busy
  <2>2. \A i \in DOMAIN Active : Active[i].bank # b
    BY <2>1, <1>5, ActiveIsSeq
  <2>3. c.kind \notin {"Active", "Priority"}
    <3>1. c.kind # "Active"
      BY <2>2, <1>1 DEF Active
    <3>2. c.kind # "Priority"
      BY <1>3, <1>4 DEF Opening, Upkeep, RfmCommands, Controls
    <3> QED BY <3>1, <3>2
  <2>4. Len(queue["Active"]) < Dram.banks
    BY <2>2, <1>1, RoomLeft DEF Ownership, Active
  <2> QED BY <2>2, <2>3, <2>4, <1>1 DEF Takes, Kinds
<1>8. c.cmd = "ACT2" => c.kind = "Active"
  <2>1. c.cmd = "ACT2" => c.r.first
    BY <1>2, LegalState
  <2>2. c.kind \in {"Read", "Write"} => ~c.r.first
    BY <1>1 DEF Ownership, Fresh
  <2>3. c.kind = "Priority" => c.cmd # "ACT2"
    BY <1>3, <1>4 DEF Upkeep, RfmCommands, Controls
  <2> QED BY <2>1, <2>2, <2>3, <1>1 DEF Kinds
<1>9. c.kind = "Active" => c.cmd \in OnOpenRow \cup {"ACT2"}
  <2> SUFFICES ASSUME c.kind = "Active"
               PROVE  c.cmd \in OnOpenRow \cup {"ACT2"}
    OBVIOUS
  <2>1. c.cmd \notin {"ACT", "ACT1"}
    BY <1>7 DEF Opening, Takes
  <2>2. IF Dram.split /\ bank[b].row = 0 THEN bank[b].activating /\ c.r.first
        ELSE bank[b].row = c.r.row
    BY <1>1, <1>5 DEF Active
  <2>3. c.cmd # "PREPB"
    <3>1. c.cmd = "PREPB" => bank[b].row # 0
      BY <1>2, LegalState
    <3>2. c.cmd = "PREPB" => RowHit(c.r)
      BY <3>1, <2>2 DEF RowHit
    <3>3. ~IsMaintenance(c.r)
      BY <1>1
    <3>4. RowHit(c.r) => c.cmd \in {"NOP", "CASRD", "CASWR"} \cup DataCommands
      <4>1. CasCommand(c.r) \in {"NOP", "CASRD", "CASWR"}
        BY DEF CasCommand
      <4>2. DataCommand(c.r) \in DataCommands
        BY DEF DataCommand, DataCommands, Reads, Writes
      <4> QED BY <1>2, <3>3, <4>1, <4>2 DEF NextCommand
    <3> QED BY <3>2, <3>4 DEF DataCommands, Reads, Writes
  <2> QED BY <1>3, <2>1, <2>3 DEF OnOpenRow
<1>10. c.cmd \in {"PREPB"} \cup PerBankMaintenance =>
         /\ c.kind # "Active"
         /\ \A i \in DOMAIN Active : Active[i].bank # b
  <2>1. c.cmd \in {"PREPB"} \cup PerBankMaintenance => c.kind # "Active"
    BY <1>9 DEF OnOpenRow, DataCommands, Reads, Writes, PerBankMaintenance
  <2>2. c.cmd \in {"PREPB"} \cup PerBankMaintenance => ~(ActiveCount(b) > 0)
    BY <2>1, <1>2 DEF WouldCloseActive
  <2> QED BY <2>1, <2>2, CountsActive
<1>11. c.cmd \in {"PREAB"} \cup AllBankMaintenance =>
         \A i \in DOMAIN Active : Active[i].bank \notin RankBanks(dev, b)
  <2>1. c.cmd \in {"PREAB"} \cup AllBankMaintenance => c.kind # "Active"
    BY <1>9 DEF OnOpenRow, DataCommands, Reads, Writes, AllBankMaintenance
  <2>2. c.cmd \in {"PREAB"} \cup AllBankMaintenance =>
          \A x \in RankBanks(dev, b) : ~(ActiveCount(x) > 0)
    BY <2>1, <1>2 DEF WouldCloseActive
  <2> QED BY <2>2, CountsActive
<1> QED BY <1>6, <1>7, <1>8, <1>9, <1>10, <1>11

LEMMA ServedSame ==
  ASSUME NEW c, c.r \in Requests
  PROVE  /\ Served(c).bank = c.r.bank /\ Served(c).row = c.r.row /\ Served(c).id = c.r.id
         /\ c.cmd = "ACT1" => Served(c).first
         /\ c.cmd # "ACT1" => Served(c) = c.r
<1>1. c.r.first \in BOOLEAN
  BY DEF Requests
<1>2. ASSUME c.cmd # "ACT1"
      PROVE  Served(c) = c.r
  <2>1. (c.r.first \/ c.cmd = "ACT1") = c.r.first
    BY <1>1, <1>2
  <2>2. Served(c) = [c.r EXCEPT !.first = c.r.first]
    BY <2>1 DEF Served
  <2> QED BY <2>2 DEF Requests
<1>3. /\ Served(c).bank = c.r.bank /\ Served(c).row = c.r.row /\ Served(c).id = c.r.id
      /\ Served(c).first = (c.r.first \/ c.cmd = "ACT1")
  BY DEF Served, Requests
<1> QED BY <1>1, <1>2, <1>3

\* The active buffer after a command.
LEMMA ActiveMoves ==
  ASSUME Shape, NEW c, Issues(c)
  PROVE  /\ c.kind = "Active" /\ c.cmd \in DataCommands =>
              /\ c.at \in DOMAIN Active /\ c.r = Active[c.at]
              /\ Active' = RemoveAt(Active, c.at)
         /\ Takes(c) => Active' = Append(Active, Served(c))
         /\ ~Takes(c) /\ c.kind # "Active" => Active' = Active
         /\ c.kind = "Active" /\ c.cmd \notin DataCommands \cup {"ACT1"} => Active' = Active
<1>1. /\ c.kind \in Kinds /\ c.at \in DOMAIN queue[c.kind]
      /\ c.r = queue[c.kind][c.at] /\ c.r \in Requests
      /\ IsMaintenance(c.r) = (c.kind = "Priority")
  BY QueueMoves
<1>2. IF Retires(c)
      THEN queue' = [queue EXCEPT ![c.kind] = RemoveAt(@, c.at)]
      ELSE IF Takes(c)
      THEN queue' = [[queue EXCEPT ![c.kind] = RemoveAt(@, c.at)]
                       EXCEPT !["Active"] = Append(@, Served(c))]
      ELSE queue' = [queue EXCEPT ![c.kind] = [@ EXCEPT ![c.at] = Served(c)]]
  BY QueueMoves
<1>3. DOMAIN queue = Kinds /\ "Active" \in Kinds
  BY DEF Shape, QueueType, Kinds
<1>4. c.cmd \in Opening => c.cmd \notin DataCommands
  BY DEF Opening, DataCommands, Reads, Writes
<1>5. CASE c.kind = "Active" /\ c.cmd \in DataCommands
  <2>1. Retires(c) /\ ~Takes(c)
    BY <1>1, <1>5 DEF Retires, Takes
  <2>2. queue' = [queue EXCEPT !["Active"] = RemoveAt(@, c.at)]
    BY <1>2, <1>5, <2>1
  <2>3. queue'["Active"] = RemoveAt(queue["Active"], c.at)
    BY <2>2, <1>3
  <2> QED BY <1>1, <1>5, <2>1, <2>3 DEF Active
<1>6. CASE Takes(c)
  <2>1. ~Retires(c) /\ c.kind # "Active"
    BY <1>1, <1>4, <1>6 DEF Retires, Takes
  <2>2. queue' = [[queue EXCEPT ![c.kind] = RemoveAt(@, c.at)]
                    EXCEPT !["Active"] = Append(@, Served(c))]
    BY <1>2, <1>6, <2>1
  <2> DEFINE rest == RemoveAt(queue[c.kind], c.at)
             s == Served(c)
  <2>3. queue' = [[queue EXCEPT ![c.kind] = rest] EXCEPT !["Active"] = Append(@, s)]
    BY <2>2
  <2> HIDE DEF rest, s
  <2>4. queue'["Active"] = Append(queue["Active"], s)
    BY <2>1, <2>3, <1>3
  <2> QED BY <1>6, <2>1, <2>4 DEF Active, s
<1>7. CASE ~Takes(c) /\ c.kind # "Active"
  <2> DEFINE rest == RemoveAt(queue[c.kind], c.at)
             same == [queue[c.kind] EXCEPT ![c.at] = Served(c)]
  <2>1. queue' = [queue EXCEPT ![c.kind] = rest] \/ queue' = [queue EXCEPT ![c.kind] = same]
    BY <1>2, <1>7
  <2> HIDE DEF rest, same
  <2>2. queue'["Active"] = queue["Active"]
    BY <2>1, <1>3, <1>7
  <2> QED BY <1>7, <2>2 DEF Active
<1>8. CASE c.kind = "Active" /\ c.cmd \notin DataCommands \cup {"ACT1"}
  <2>1. ~Retires(c) /\ ~Takes(c) /\ Served(c) = c.r
    BY <1>1, <1>8, ServedSame DEF Retires, Takes
  <2>2. queue' = [queue EXCEPT !["Active"] = [@ EXCEPT ![c.at] = c.r]]
    BY <1>2, <1>8, <2>1
  <2>3. [queue["Active"] EXCEPT ![c.at] = c.r] = queue["Active"]
    <3>1. queue["Active"] \in Seq(Requests) /\ c.at \in DOMAIN queue["Active"]
          /\ c.r = queue["Active"][c.at]
      BY <1>1, <1>8, ActiveIsSeq DEF Active
    <3> QED BY <3>1
  <2>4. queue'["Active"] = queue["Active"]
    BY <2>2, <2>3, <1>3
  <2> QED BY <1>8, <2>1, <2>4 DEF Active
<1> QED BY <1>5, <1>6, <1>7, <1>8, <1>4, <1>1 DEF Takes

\* The data queues after a command.
LEMMA FreshIssue ==
  ASSUME Shape, Covered(dev), Ownership, NEW c, Issues(c)
  PROVE  Fresh'
<1>1. /\ c.kind \in Kinds /\ c.at \in DOMAIN queue[c.kind]
      /\ c.r = queue[c.kind][c.at] /\ c.r \in Requests
      /\ queue \in [Kinds -> Seq(Requests)]
  BY QueueMoves DEF Shape, QueueType
<1>2. \A k \in {"Read", "Write"} : \A i \in DOMAIN queue[k] : ~queue[k][i].first
  BY DEF Ownership, Fresh
<1>3. c.cmd = "ACT1" /\ c.kind \in {"Read", "Write"} => Takes(c)
  <2>1. c.cmd = "ACT1" => Dram.split
    BY IssueLegal, LegalState
  <2>2. CASE OpenPage
    BY <2>2, OwnerOf DEF Opening
  <2> QED BY <2>1, <2>2, OpenOrWhole
<1>4. ~Retires(c) /\ ~Takes(c) /\ c.kind \in {"Read", "Write"} => Served(c) = c.r
  BY <1>1, <1>3, ServedSame
<1> DEFINE rest == RemoveAt(queue[c.kind], c.at)
<1>5. \A i \in DOMAIN rest : \E j \in DOMAIN queue[c.kind] : rest[i] = queue[c.kind][j]
  BY <1>1, RemovedFrom
<1> HIDE DEF rest
<1>6. ASSUME NEW k \in {"Read", "Write"}
      PROVE  queue'[k] = IF k = c.kind /\ (Retires(c) \/ Takes(c)) THEN rest ELSE queue[k]
  <2>0. k \in Kinds /\ k # "Active"
    BY DEF Kinds
  <2>1. CASE Retires(c)
    <3>1. queue' = [queue EXCEPT ![c.kind] = rest]
      BY <2>1, QueueMoves DEF rest
    <3> QED BY <3>1, <2>0, <2>1, <1>1
  <2>2. CASE ~Retires(c) /\ Takes(c)
    <3> DEFINE s == Served(c)
    <3>1. queue' = [[queue EXCEPT ![c.kind] = rest] EXCEPT !["Active"] = Append(@, s)]
      BY <2>2, QueueMoves DEF rest
    <3> HIDE DEF s
    <3> QED BY <3>1, <2>0, <2>2, <1>1
  <2>3. CASE ~Retires(c) /\ ~Takes(c)
    <3> DEFINE e == [queue[c.kind] EXCEPT ![c.at] = Served(c)]
    <3>1. queue' = [queue EXCEPT ![c.kind] = e]
      BY <2>3, QueueMoves
    <3>2. k = c.kind => e = queue[k]
      <4> SUFFICES ASSUME k = c.kind PROVE e = queue[k]
        OBVIOUS
      <4>1. e = [queue[k] EXCEPT ![c.at] = queue[k][c.at]]
        BY <1>1, <1>4, <2>3
      <4>2. queue[k] \in Seq(Requests)
        BY <1>1, <2>0
      <4> HIDE DEF e
      <4> QED BY <4>1, <4>2
    <3> HIDE DEF e
    <3> QED BY <3>1, <3>2, <2>0, <2>3, <1>1
  <2> QED BY <2>1, <2>2, <2>3
<1> QED BY <1>2, <1>5, <1>6 DEF Fresh

LEMMA OwnershipIssue ==
  ASSUME Shape, Covered(dev), Ownership, dev' = dev, NEW c, Issues(c)
  PROVE  Ownership'
<1> DEFINE b == c.r.bank
<1>1. Fresh' /\ Dram' = Dram /\ Banks' = Banks /\ OpenPage' = OpenPage
  BY FreshIssue, DeviceStays DEF OpenPage
<1>2. CASE ~OpenPage
  <2>1. \A x \in Banks : ~bank'[x].activating
    BY <1>2, BankTypeIssue, OpenOrWhole
  <2> QED BY <1>1, <1>2, <2>1 DEF Ownership, Owned
<1>3. CASE OpenPage
  <2>1. /\ c.cmd \notin {"RDA", "WRA"}
        /\ c.cmd \in Opening =>
             Takes(c) /\ \A i \in DOMAIN Active : Active[i].bank # b
        /\ c.cmd = "ACT2" => c.kind = "Active"
        /\ c.cmd \in {"PREPB"} \cup PerBankMaintenance =>
             /\ c.kind # "Active"
             /\ \A i \in DOMAIN Active : Active[i].bank # b
        /\ c.cmd \in {"PREAB"} \cup AllBankMaintenance =>
             \A i \in DOMAIN Active : Active[i].bank \notin RankBanks(dev, b)
        /\ c.kind = "Active" => c.cmd \in OnOpenRow \cup {"ACT2"}
    BY <1>3, OwnerOf
  <2>2. /\ OneOwner /\ Owned
        /\ \A i \in DOMAIN Active :
            IF Dram.split /\ bank[Active[i].bank].row = 0
            THEN bank[Active[i].bank].activating /\ Active[i].first
            ELSE bank[Active[i].bank].row = Active[i].row
    BY <1>3 DEF Ownership, ActiveRowsHeld, Active
  <2>3. /\ b \in Banks /\ c.r \in Requests /\ c.kind \in Kinds
        /\ c.at \in DOMAIN queue[c.kind] /\ c.r = queue[c.kind][c.at]
    BY QueueMoves, IssueCommandOf
  <2>4. \A x \in Banks : bank[x].activating => bank[x].row = 0
    BY DEF Shape, BankType
  <2>5. SUFFICES OneOwner' /\ Owned' /\
          \A i \in DOMAIN Active' :
            IF Dram.split /\ bank'[Active'[i].bank].row = 0
            THEN bank'[Active'[i].bank].activating /\ Active'[i].first
            ELSE bank'[Active'[i].bank].row = Active'[i].row
    BY <1>1 DEF Ownership, ActiveRowsHeld, Active
  <2>6. CASE c.cmd \in Opening
    <3>1. Takes(c) /\ \A i \in DOMAIN Active : Active[i].bank # b
      BY <2>1, <2>6
    <3>2. Active' = Append(Active, Served(c))
      BY <3>1, ActiveMoves
    <3>3. /\ DOMAIN Active' = 1 .. Len(Active) + 1
          /\ \A i \in DOMAIN Active : Active'[i] = Active[i] /\ i \in DOMAIN Active'
          /\ Active'[Len(Active) + 1] = Served(c)
      BY <3>2, <2>3, ActiveIsSeq, QueueMoves, AppendProperties
    <3>4. \A i \in DOMAIN Active' : i \in DOMAIN Active \/ i = Len(Active) + 1
      BY <3>3, ActiveIsSeq
    <3>5. Served(c).bank = b /\ Served(c).row = c.r.row /\ (c.cmd = "ACT1" => Served(c).first)
      BY <2>3, ServedSame
    <3>6. \A x \in Banks : x # b => bank'[x] = bank[x]
      BY <2>6, BankMoves DEF Opening
    <3>7. IF Dram.split THEN bank'[b].activating /\ bank'[b].row = 0 /\ Served(c).first
          ELSE bank'[b].row = c.r.row /\ ~bank'[b].activating
      <4>1. CASE c.cmd = "ACT"
        <5>1. ~Dram.split /\ ~Busy(b)
          BY <4>1, IssueLegal, LegalState
        <5> QED BY <5>1, <4>1, <2>3, BankMoves DEF Busy
      <4>2. CASE c.cmd = "ACT1"
        <5>1. Dram.split /\ ~Busy(b)
          BY <4>2, IssueLegal, LegalState
        <5> QED BY <5>1, <4>2, <2>3, <3>5, BankMoves DEF Busy
      <4> QED BY <4>1, <4>2, <2>6 DEF Opening
    <3>8. OneOwner'
      BY <3>1, <3>3, <3>4, <3>5, <2>2 DEF OneOwner
    <3>9. Owned'
      <4> SUFFICES ASSUME NEW x \in Banks, bank'[x].activating
                   PROVE  \E i \in DOMAIN Active' : Active'[i].bank = x /\ Active'[i].first
        BY <1>1 DEF Owned
      <4>1. CASE x = b
        <5>1. Len(Active) + 1 \in DOMAIN Active' /\ Served(c).first
          BY <4>1, <3>3, <3>7, ActiveIsSeq
        <5> QED BY <5>1, <4>1, <3>3, <3>5
      <4>2. CASE x # b
        BY <4>2, <3>6, <3>3, <2>2 DEF Owned
      <4> QED BY <4>1, <4>2
    <3>10. ASSUME NEW i \in DOMAIN Active'
           PROVE  IF Dram.split /\ bank'[Active'[i].bank].row = 0
                  THEN bank'[Active'[i].bank].activating /\ Active'[i].first
                  ELSE bank'[Active'[i].bank].row = Active'[i].row
      <4>1. CASE i \in DOMAIN Active
        BY <4>1, <3>1, <3>3, <3>6, <2>2, ActiveIsSeq
      <4>2. CASE i = Len(Active) + 1
        <5>1. Active'[i].bank = b /\ Active'[i] = Served(c)
          BY <4>2, <3>3, <3>5
        <5> QED BY <5>1, <3>5, <3>7
      <4> QED BY <4>1, <4>2, <3>4
    <3> QED BY <3>8, <3>9, <3>10
  <2>7. CASE c.cmd = "ACT2"
    <3>1. Active' = Active /\ c.kind = "Active"
      BY <2>1, <2>7, ActiveMoves DEF DataCommands, Reads, Writes, Takes
    <3>2. \A x \in Banks : x # b => bank'[x] = bank[x]
      BY <2>7, BankMoves
    <3>3. bank'[b].row = c.r.row /\ bank'[b].activating = FALSE
      BY <2>3, <2>7, BankMoves
    <3>4. c.at \in DOMAIN Active /\ Active[c.at] = c.r
      BY <3>1, <2>3 DEF Active
    <3>5. \A i \in DOMAIN Active : Active[i].bank = b => i = c.at
      BY <3>4, <2>2 DEF OneOwner
    <3>6. Owned'
      BY <1>1, <3>1, <3>2, <3>3, <2>2 DEF Owned
    <3>7. OneOwner'
      BY <3>1, <2>2 DEF OneOwner
    <3>8. ASSUME NEW i \in DOMAIN Active
          PROVE  IF Dram.split /\ bank'[Active[i].bank].row = 0
                 THEN bank'[Active[i].bank].activating /\ Active[i].first
                 ELSE bank'[Active[i].bank].row = Active[i].row
      <4>1. CASE i = c.at
        <5>1. Active[i].row # 0
          BY ActiveIsSeq
        <5> QED BY <5>1, <4>1, <3>3, <3>4
      <4>2. CASE i # c.at
        BY <4>2, <3>2, <3>5, <2>2, ActiveIsSeq
      <4> QED BY <4>1, <4>2
    <3> QED BY <3>1, <3>6, <3>7, <3>8
  <2>8. CASE c.cmd \in {"PREPB", "PREAB"}
    <3>1. Active' = Active
      <4>1. c.kind # "Active" /\ ~Takes(c)
        BY <2>1, <2>8 DEF OnOpenRow, DataCommands, Reads, Writes, Takes, Opening
      <4> QED BY <4>1, ActiveMoves
    <3>2. \A x \in Banks :
            \/ bank'[x] = bank[x]
            \/ bank'[x].activating = FALSE /\ \A i \in DOMAIN Active : Active[i].bank # x
      <4> SUFFICES ASSUME NEW x \in Banks
                   PROVE  \/ bank'[x] = bank[x]
                          \/ /\ bank'[x].activating = FALSE
                             /\ \A i \in DOMAIN Active : Active[i].bank # x
        OBVIOUS
      <4>1. CASE c.cmd = "PREPB"
        <5>1. x # b => bank'[x] = bank[x]
          BY <4>1, BankMoves
        <5>2. x = b => bank'[x].activating = FALSE
          BY <4>1, BankMoves
        <5>3. \A i \in DOMAIN Active : Active[i].bank # b
          BY <4>1, <2>1
        <5> HIDE DEF b
        <5> QED BY <5>1, <5>2, <5>3
      <4>2. CASE c.cmd = "PREAB"
        <5>1. IF x \in RankBanks(dev, b) THEN bank'[x].activating = FALSE
              ELSE bank'[x] = bank[x]
          BY <4>2, BankMoves
        <5>2. \A i \in DOMAIN Active : Active[i].bank \notin RankBanks(dev, b)
          BY <4>2, <2>1
        <5> HIDE DEF b
        <5> QED BY <5>1, <5>2
      <4> QED BY <4>1, <4>2, <2>8
    <3>3. Owned'
      BY <1>1, <3>1, <3>2, <2>2 DEF Owned
    <3>4. OneOwner'
      BY <3>1, <2>2 DEF OneOwner
    <3>5. \A i \in DOMAIN Active : bank'[Active[i].bank] = bank[Active[i].bank]
      BY <3>2, ActiveIsSeq
    <3> QED BY <3>1, <3>3, <3>4, <3>5, <2>2
  <2>9. CASE c.kind = "Active" /\ c.cmd \in DataCommands
    <3>1. /\ c.at \in DOMAIN Active /\ c.r = Active[c.at]
          /\ Active' = RemoveAt(Active, c.at)
      BY <2>9, ActiveMoves
    <3>2. bank' = bank
      BY <2>1, <2>3, <2>9, BankMoves DEF DataCommands, Reads, Writes
    <3> DEFINE old(i) == IF i < c.at THEN i ELSE i + 1
    <3>3. \A i \in DOMAIN Active' : old(i) \in DOMAIN Active /\ Active'[i] = Active[old(i)]
      BY <3>1, RemovedFrom, ActiveIsSeq
    <3>4. \A i, j \in DOMAIN Active' : old(i) = old(j) => i = j
      <4>1. Active' \in Seq(Requests) /\ c.at \in Nat
        BY <3>1, Removing, ActiveIsSeq
      <4> QED BY <4>1
    <3>5. \A j \in DOMAIN Active : j # c.at => \E i \in DOMAIN Active' : Active'[i] = Active[j]
      <4> SUFFICES ASSUME NEW j \in DOMAIN Active, j # c.at
                   PROVE  \E i \in DOMAIN Active' : Active'[i] = Active[j]
        OBVIOUS
      <4>1. /\ Active \in Seq(Requests) /\ Len(Active) \in Nat
            /\ j \in 1 .. Len(Active) /\ c.at \in 1 .. Len(Active)
        BY <3>1, ActiveIsSeq
      <4>2. Active' \in Seq(Requests) /\ Len(Active') = Len(Active) - 1
        BY <3>1, Removing, ActiveIsSeq
      <4>3. DOMAIN Active' = 1 .. Len(Active) - 1
        BY <4>1, <4>2
      <4>4. CASE j < c.at
        <5>1. j \in DOMAIN Active' /\ old(j) = j
          BY <4>1, <4>3, <4>4
        <5> QED BY <5>1, <3>3
      <4>5. CASE j > c.at
        <5>1. j - 1 \in DOMAIN Active' /\ old(j - 1) = j
          BY <4>1, <4>3, <4>5
        <5> QED BY <5>1, <3>3
      <4> QED BY <4>1, <4>4, <4>5
    <3> HIDE DEF old
    <3>6. ~bank[b].activating
      BY <2>9, IssueLegal, LegalState
    <3>7. OneOwner'
      BY <3>3, <3>4, <2>2 DEF OneOwner
    <3>8. Owned'
      <4> SUFFICES ASSUME NEW x \in Banks, bank[x].activating
                   PROVE  \E i \in DOMAIN Active' : Active'[i].bank = x /\ Active'[i].first
        BY <1>1, <3>2 DEF Owned
      <4>1. PICK j \in DOMAIN Active : Active[j].bank = x /\ Active[j].first
        BY <2>2 DEF Owned
      <4>2. j # c.at
        BY <4>1, <3>1, <3>6
      <4> QED BY <4>1, <4>2, <3>5
    <3> QED BY <3>2, <3>3, <3>7, <3>8, <2>2
  <2>10. CASE /\ c.cmd \notin Opening \cup {"ACT2", "PREPB", "PREAB"}
              /\ ~(c.kind = "Active" /\ c.cmd \in DataCommands)
    <3>1. bank' = bank
      BY <2>1, <2>3, <2>10, BankMoves DEF Opening
    <3>2. Active' = Active
      BY <2>10, ActiveMoves DEF Takes, Opening
    <3>3. OneOwner' /\ Owned'
      BY <1>1, <3>1, <3>2, <2>2 DEF OneOwner, Owned
    <3> QED BY <3>1, <3>2, <3>3, <2>2
  <2> QED BY <2>6, <2>7, <2>8, <2>9, <2>10
<1> QED BY <1>2, <1>3

\* The invariant of the active buffer.
LEMMA OwnershipStep ==
  ASSUME Shape, Covered(dev), Ownership, [TraceNext]_traceVars
  PROVE  Ownership'
<1>0. /\ dev' = dev /\ Dram' = Dram /\ Banks' = Banks /\ OpenPage' = OpenPage
      /\ DOMAIN queue = Kinds
  BY Steps, DeviceStays DEF OpenPage, Shape, QueueType
<1>1. ASSUME UNCHANGED <<bank, queue>>
      PROVE  Ownership'
  BY <1>0, <1>1 DEF Ownership, Fresh, OneOwner, ActiveRowsHeld, Owned, Active
<1>2. ASSUME /\ queue'["Active"] = queue["Active"]
             /\ \A b \in Banks : /\ bank'[b].row = bank[b].row
                                 /\ bank'[b].activating = bank[b].activating
             /\ Fresh'
      PROVE  Ownership'
  <2>1. Active' = Active
    BY <1>2 DEF Active
  <2>2. Owned' /\ OneOwner' = OneOwner
    BY <1>0, <1>2, <2>1 DEF Ownership, Owned, OneOwner
  <2>3. ActiveRowsHeld => ActiveRowsHeld'
    BY <1>0, <1>2, <2>1, ActiveIsSeq DEF ActiveRowsHeld, Active
  <2> QED BY <1>0, <1>2, <2>2, <2>3 DEF Ownership
<1>3. CASE UNCHANGED traceVars
  BY <1>1, <1>3 DEF traceVars, vars, deviceVars
<1>4. ASSUME NEW r, Given(r), Submit(r)
      PROVE  Ownership'
  <2>1. bank' = bank
    BY <1>4 DEF Submit, deviceVars
  <2> DEFINE k0 == IF IsMaintenance(r) THEN "Priority" ELSE r.type
  <2>2. queue' = [queue EXCEPT ![k0] = Append(@, r)] /\ k0 # "Active" /\ ~r.first
    BY <1>4 DEF Submit, Given, Requests, IsMaintenance
  <2> HIDE DEF k0
  <2>3. queue'["Active"] = queue["Active"]
    BY <2>2, <1>0 DEF Kinds
  <2>4. Fresh'
    <3> SUFFICES ASSUME NEW k \in {"Read", "Write"}, NEW i \in DOMAIN queue'[k]
                 PROVE  ~queue'[k][i].first
      BY DEF Fresh
    <3>1. queue[k] \in Seq(Requests) /\ r \in Requests /\ k \in DOMAIN queue
      BY <1>4, <1>0 DEF Shape, QueueType, Kinds, Given
    <3>2. \A j \in DOMAIN queue[k] : ~queue[k][j].first
      BY DEF Ownership, Fresh
    <3>3. CASE k = k0
      <4>1. queue'[k] = Append(queue[k], r)
        BY <3>1, <3>3, <2>2
      <4>2. queue'[k][i] = r \/ (i \in DOMAIN queue[k] /\ queue'[k][i] = queue[k][i])
        BY <4>1, <3>1, AppendProperties
      <4> QED BY <4>2, <3>2, <2>2
    <3>4. CASE k # k0
      BY <3>1, <3>2, <3>4, <2>2
    <3> QED BY <3>3, <3>4
  <2> QED BY <1>2, <2>1, <2>3, <2>4
<1>5. CASE Advance
  <2>1. queue' = [queue EXCEPT !["Priority"] = @ \o SubSeq(pending, 1,
                                Min({PrioritySpace, Len(pending)}))]
    BY <1>5 DEF Advance
  <2>2. \A k \in {"Active", "Read", "Write"} : queue'[k] = queue[k]
    BY <2>1, <1>0 DEF Kinds
  <2>3. bank' = [b \in Banks |-> [bank[b] EXCEPT !.deadline = Larger(-1, @ - 1)]]
    BY <1>5 DEF Advance
  <2>4. bank \in [Banks -> [row : Nat, activating : BOOLEAN, deadline : Int]]
    BY DEF Shape, BankType
  <2>5. \A b \in Banks : /\ bank'[b].row = bank[b].row
                         /\ bank'[b].activating = bank[b].activating
    BY <2>3, <2>4
  <2>6. Fresh'
    BY <2>2 DEF Ownership, Fresh
  <2> QED BY <1>2, <2>2, <2>5, <2>6
<1>6. ASSUME NEW c, Issues(c)
      PROVE  Ownership'
  BY <1>0, <1>6, OwnershipIssue
<1>7. CASE BusIdle /\ queue' = queue
  BY <1>1, <1>7 DEF BusIdle, deviceVars
<1> QED BY <1>3, <1>4, <1>5, <1>6, <1>7, Steps

-----------------------------------------------------------------------------
(* Gates *)

\* The left one of two sets of gates takes precedence.
LEMMA OverAt ==
  ASSUME NEW f, NEW g, NEW k
  PROVE  /\ k \in DOMAIN (f ++ g) <=> k \in DOMAIN f \/ k \in DOMAIN g
         /\ k \in DOMAIN f => (f ++ g)[k] = f[k]
         /\ k \notin DOMAIN f /\ k \in DOMAIN g => (f ++ g)[k] = g[k]
         /\ Left(f ++ g, k) = IF k \in DOMAIN f THEN f[k] ELSE Left(g, k)
BY DEF ++, Left

LEMMA ShutAt ==
  ASSUME NEW x, NEW n, NEW k
  PROVE  /\ k \in DOMAIN Shut(x, n) <=> k = x
         /\ k = x => Shut(x, n)[k] = n
BY DEF Shut

LEMMA NoGatesAt ==
  ASSUME NEW k
  PROVE  k \notin DOMAIN NoGates
BY DEF NoGates

LEMMA MaxOfThree ==
  ASSUME NEW x \in Nat, NEW y \in Nat, NEW z \in Nat
  PROVE  LET m == Max({x, y, z})
         IN m \in {x, y, z} /\ m >= x /\ m >= y /\ m >= z /\ m \in Nat
<1>1. \E m \in {x, y, z} : \A n \in {x, y, z} : m >= n
  <2>1. CASE x >= y /\ x >= z
    BY <2>1
  <2>2. CASE y >= x /\ y >= z
    BY <2>2
  <2>3. CASE z >= x /\ z >= y
    BY <2>3
  <2> QED BY <2>1, <2>2, <2>3
<1> QED BY <1>1 DEF Max

LEMMA MaxOfTwo ==
  ASSUME NEW x \in Nat, NEW y \in Nat
  PROVE  Max({x, y}) = Larger(x, y)
<1>1. \E m \in {x, y} : \A n \in {x, y} : m >= n
  BY SMT
<1> QED BY <1>1 DEF Max, Larger

\* Of three sets of gates the latest counts, gate by gate.
LEMMA LatestAt ==
  ASSUME NEW f, NEW g, NEW h, NEW k,
         Left(f, k) \in Nat, Left(g, k) \in Nat, Left(h, k) \in Nat
  PROVE  LET n == Left(Latest({f, g, h}), k)
         IN /\ n \in Nat /\ n \in {Left(f, k), Left(g, k), Left(h, k)}
            /\ n >= Left(f, k) /\ n >= Left(g, k) /\ n >= Left(h, k)
            /\ k \in DOMAIN Latest({f, g, h}) => n > 0
<1> DEFINE L == Latest({f, g, h})
           x == Left(f, k)
           y == Left(g, k)
           z == Left(h, k)
           m == Max({x, y, z})
<1>1. m \in {x, y, z} /\ m >= x /\ m >= y /\ m >= z
  BY MaxOfThree
<1>2. {Left(e, k) : e \in {f, g, h}} = {x, y, z}
  OBVIOUS
<1>3. k \in DOMAIN L <=> x > 0 \/ y > 0 \/ z > 0
  BY DEF Latest, Left
<1>4. k \in DOMAIN L => L[k] = m
  BY <1>2 DEF Latest
<1>5. Left(L, k) = IF k \in DOMAIN L THEN L[k] ELSE 0
  BY DEF Left
<1> HIDE DEF L, m
<1>6. x \in Nat /\ y \in Nat /\ z \in Nat
  OBVIOUS
<1> HIDE DEF x, y, z
<1>7. Left(L, k) = m
  BY <1>1, <1>3, <1>4, <1>5, <1>6
<1>8. k \in DOMAIN L => m > 0
  BY <1>1, <1>3, <1>6
<1> QED BY <1>1, <1>6, <1>7, <1>8 DEF L, x, y, z

LEMMA LatestOfTwoAt ==
  ASSUME NEW f, NEW g, NEW k, Left(f, k) \in Nat, Left(g, k) \in Nat
  PROVE  /\ Left(Latest({f, g}), k) = Larger(Left(f, k), Left(g, k))
         /\ k \in DOMAIN Latest({f, g}) => Left(Latest({f, g}), k) > 0
<1> DEFINE L == Latest({f, g})
           x == Left(f, k)
           y == Left(g, k)
<1>1. Max({x, y}) = Larger(x, y)
  BY MaxOfTwo
<1>2. {Left(e, k) : e \in {f, g}} = {x, y}
  OBVIOUS
<1>3. k \in DOMAIN L <=> x > 0 \/ y > 0
  BY DEF Latest, Left
<1>4. k \in DOMAIN L => L[k] = Larger(x, y)
  BY <1>1, <1>2 DEF Latest
<1>5. Left(L, k) = IF k \in DOMAIN L THEN L[k] ELSE 0
  BY DEF Left
<1>6. x \in Nat /\ y \in Nat
  OBVIOUS
<1> HIDE DEF L, x, y
<1>7. Left(L, k) = Larger(x, y)
  BY <1>3, <1>4, <1>5, <1>6 DEF Larger
<1>8. k \in DOMAIN L => Larger(x, y) > 0
  BY <1>3, <1>6 DEF Larger
<1> QED BY <1>7, <1>8 DEF L, x, y

\* A tick goes by.
LEMMA TickAt ==
  ASSUME NEW f, NEW k, Left(f, k) \in Nat
  PROVE  /\ Left(OneTickLess(f), k) = IF Left(f, k) > 0 THEN Left(f, k) - 1 ELSE 0
         /\ k \in DOMAIN OneTickLess(f) => k \in DOMAIN f
BY DEF OneTickLess, Left

\* The names of the engine's gates, none of which is a command.
GateNames ==
  {"next_row", "next_rd", "next_wr", "next_pre", "next_act", "next_act2",
   "next_any_col", "next_col", "next_cas", "wck_ready", "wck_until", "refdb_ready"}

LEMMA GatesAreNotCommands ==
  \A name \in GateNames : name \notin Commands
BY DEF GateNames, Commands, ColumnCommands, RowCommands, DataCommands, Reads, Writes,
       Opening, PerBankMaintenance, AllBank, AllBankMaintenance, Controls

\* The gates that a command moves, and the one of a refresh sweep.
LEMMA MovedNames ==
  ASSUME NEW cmd, NEW b, NEW k \in DOMAIN MovedGates(cmd, b)
  PROVE  k[1] \in {"next_pre", "next_act", "wck_until", "next_col"}
<1>1. MovedGates(cmd, b) = NoGates => FALSE
  BY NoGatesAt
<1> USE DEF BankGate, WckGate, ColumnGate
<1>2. CASE cmd \in DataCommands
  BY <1>2, OverAt, ShutAt, NoGatesAt DEF MovedGates
<1>3. CASE cmd = "REFDB"
  BY <1>3, ShutAt DEF MovedGates, DataCommands, Reads, Writes
<1>4. CASE cmd \in {"PREAB", "REFAB", "RFMAB"}
  BY <1>4 DEF MovedGates, DataCommands, Reads, Writes
<1>5. CASE cmd \in {"WCKSYNC", "RASERR"}
  BY <1>5, ShutAt DEF MovedGates, DataCommands, Reads, Writes
<1> QED BY <1>1, <1>2, <1>3, <1>4, <1>5 DEF MovedGates

LEMMA SweepNames ==
  ASSUME NEW cmd, NEW b, NEW k \in DOMAIN SweepGates(cmd, b)
  PROVE  k = SweepGate(b) /\ Dram.dualBankRefresh /\ cmd \in {"REFDB", "REFAB"}
<1>1. SweepGates(cmd, b) # NoGates
  BY NoGatesAt
<1>2. Dram.dualBankRefresh /\ cmd \in {"REFDB", "REFAB"}
  BY <1>1 DEF SweepGates
<1> QED BY <1>2, ShutAt DEF SweepGates

\* No rule holds back an ACT2, and every rule holds back commands.
LEMMA RulePosts ==
  ASSUME NEW d \in DOMAIN Devices, NEW r \in Rules[d]
  PROVE  r.post \subseteq Commands \ {"ACT2"}
<1> USE DEF Rule, SiblingRule, Commands, ColumnCommands, RowCommands, DataCommands,
            Reads, Writes, Opening, PerBankMaintenance, AllBank, AllBankMaintenance,
            Controls
<1>1. ASSUME NEW t, NEW x \in HbmRules(t)
      PROVE  x.post \subseteq Commands \ {"ACT2"}
  BY SMTT(60) DEF HbmRules
<1>2. ASSUME NEW t, NEW x \in LpddrRules(t)
      PROVE  x.post \subseteq Commands \ {"ACT2"}
  BY SMTT(60) DEF LpddrRules
<1> QED BY <1>1, <1>2 DEF Rules

LEMMA HeldNames ==
  ASSUME NEW d \in DOMAIN Devices, NEW cmd, NEW b, NEW k \in DOMAIN HeldBack(d, cmd, b)
  PROVE  k[1] \in Commands \ {"ACT2"}
<1>1. \E r \in Rules[d] : k \in r.post \X Reached(d, r, cmd, b)
  BY DEF HeldBack
<1> QED BY <1>1, RulePosts

\* The commands after which the row bus waits.
Waits == {"MRW", "MRR", "WCKTRAIN", "DVFS", "ECCSCRUB", "RASERR"}

\* Who sets the gates of the row bus and of the second activate.
LEMMA SetAt ==
  ASSUME dev \in DOMAIN Devices, NEW cmd \in Commands, NEW b, NEW k \in DOMAIN SetGates(cmd, b)
  PROVE  /\ k[1] \in GateNames \ {"refdb_ready"} /\ SetGates(cmd, b)[k] \in Nat
         /\ k[1] = "next_row" =>
              /\ k = RowGate("next_row", b)
              /\ cmd \notin Waits => SetGates(cmd, b)[k] = 1
         /\ k[1] = "next_act2" =>
              /\ k = BankGate("next_act2", b) /\ cmd \in {"ACT1", "ACT2"}
              /\ cmd = "ACT1" => SetGates(cmd, b)[k] = D(Larger(1, T.nAADMin))
              /\ cmd = "ACT2" => SetGates(cmd, b)[k] = 0
<1> DEFINE P(S) ==
      k \in DOMAIN S =>
        /\ k[1] \in GateNames \ {"refdb_ready"} /\ S[k] \in Nat
        /\ k[1] = "next_row" =>
             k = RowGate("next_row", b) /\ (cmd \notin Waits => S[k] = 1)
        /\ k[1] = "next_act2" =>
             /\ k = BankGate("next_act2", b) /\ cmd \in {"ACT1", "ACT2"}
             /\ cmd = "ACT1" => S[k] = D(Larger(1, T.nAADMin))
             /\ cmd = "ACT2" => S[k] = 0
<1> DEFINE row1 == Shut(RowGate("next_row", b), 1)
<1>01. {T.nRCDRD, T.nRCDWR, T.nRAS, T.nRC, T.nRRDS, T.nRRDL, T.nCCDL, T.nCCDS, T.nRP,
        T.nRFCpb, T.nRFMpb, T.nAADMin, T.nWCK2CK, T.nWCKPST, T.nMRW, T.nMRR, T.nWCKSYNC,
        T.nWCKTRAIN, T.nDVFS, T.nECCSCRUB, T.nRASERR} \subseteq Int
  BY TimingInt DEF TimingNames
<1>02. /\ \A n \in Int : D(n) \in Nat
       /\ \A n, m \in Int : Larger(n, m) \in Int
  BY DelayNat DEF Larger
<1>03. T.nWCK2CK + 1 \in Int /\ (IF T.nRFMpb > 0 THEN T.nRFMpb ELSE T.nRFCpb) \in Int
  BY <1>01
<1>04. {Larger(1, T.nAADMin), Larger(1, T.nWCK2CK), Larger(T.nWCKPST, T.nWCK2CK + 1),
        Larger(1, T.nMRW), Larger(1, T.nMRR), Larger(1, T.nWCKSYNC),
        Larger(1, T.nWCKTRAIN), Larger(1, T.nWCKPST), Larger(1, T.nDVFS),
        Larger(1, T.nECCSCRUB), Larger(1, T.nRASERR)} \subseteq Int
  <2>1. {T.nAADMin, T.nWCK2CK, T.nWCK2CK + 1, T.nWCKPST, T.nMRW, T.nMRR, T.nWCKSYNC,
         T.nWCKTRAIN, T.nDVFS, T.nECCSCRUB, T.nRASERR} \subseteq Int /\ 1 \in Int
    BY <1>01, <1>03
  <2> QED BY <2>1, <1>02, ZenonT(60)
<1>0. {D(T.nRCDRD), D(T.nRCDWR), D(T.nRAS), D(T.nRC), D(T.nRRDS), D(T.nRRDL),
       D(T.nCCDL), D(T.nCCDS), D(T.nRP), D(T.nRFCpb), D(Larger(1, T.nAADMin)),
       D(Larger(1, T.nWCK2CK)), D(Larger(T.nWCKPST, T.nWCK2CK + 1)),
       D(IF T.nRFMpb > 0 THEN T.nRFMpb ELSE T.nRFCpb), D(Larger(1, T.nMRW)),
       D(Larger(1, T.nMRR)), D(Larger(1, T.nWCKSYNC)),
       D(Larger(1, T.nWCKTRAIN)), D(Larger(1, T.nWCKPST)),
       D(Larger(1, T.nDVFS)), D(Larger(1, T.nECCSCRUB)),
       D(Larger(1, T.nRASERR))} \subseteq Nat
  BY <1>01, <1>02, <1>03, <1>04, ZenonT(60)
<1>1. P(row1)
  BY ShutAt DEF RowGate, GateNames
<1>2. \A f, g : P(f) /\ P(g) => P(f ++ g)
  BY OverAt
<1>3. \A n \in Nat : /\ P(Shut(BankGate("next_rd", b), n)) /\ P(Shut(BankGate("next_wr", b), n))
             /\ P(Shut(BankGate("next_pre", b), n)) /\ P(Shut(BankGate("next_act", b), n))
             /\ P(Shut(RowGate("next_act", b), n)) /\ P(Shut(GroupGate("next_act", b), n))
             /\ P(Shut(BankGate("next_any_col", b), n))
             /\ P(Shut(ColumnGate("next_col", b), n))
             /\ P(Shut(GroupGate("next_col", b), n))
             /\ P(Shut(WckGate("next_cas", b), n)) /\ P(Shut(WckGate("wck_ready", b), n))
             /\ P(Shut(WckGate("wck_until", b), n))
  BY ShutAt DEF BankGate, RowGate, GroupGate, ColumnGate, WckGate, GateNames
<1>4. \A n \in Nat : cmd \in Waits => P(Shut(RowGate("next_row", b), n))
  BY ShutAt DEF RowGate, GateNames
<1>5. cmd = "ACT1" => P(Shut(BankGate("next_act2", b), D(Larger(1, T.nAADMin))))
  BY <1>0, ShutAt DEF BankGate, GateNames
<1>6. cmd = "ACT2" => P(Shut(BankGate("next_act2", b), 0))
  BY <1>0, ShutAt DEF BankGate, GateNames
<1> HIDE DEF P
<1> DEFINE activate == Shut(BankGate("next_rd", b), D(T.nRCDRD))
               ++ Shut(BankGate("next_wr", b), D(T.nRCDWR))
               ++ Shut(BankGate("next_pre", b), D(T.nRAS))
               ++ Shut(BankGate("next_act", b), D(T.nRC))
               ++ Shut(RowGate("next_act", b), D(T.nRRDS))
               ++ Shut(GroupGate("next_act", b), D(T.nRRDL)) ++ row1
           column == Shut(BankGate("next_any_col", b), D(T.nCCDL))
               ++ Shut(ColumnGate("next_col", b), D(T.nCCDS))
               ++ Shut(GroupGate("next_col", b), D(T.nCCDL))
<1> HIDE DEF row1
<1>7. P(activate) /\ P(column)
  BY <1>0, <1>1, <1>2, <1>3
<1> HIDE DEF activate, column
<1>8. P(SetGates(cmd, b))
  <2> USE <1>0, <1>1, <1>2, <1>3
  <2> USE DEF Commands, ColumnCommands, RowCommands, DataCommands, Reads, Writes, Opening,
              PerBankMaintenance, AllBank, AllBankMaintenance, Controls
  <2>1. CASE cmd = "ACT"
    <3>1. SetGates(cmd, b) = activate
      BY <2>1 DEF SetGates, activate, row1
    <3> QED BY <3>1, <1>7
  <2>2. CASE cmd = "ACT1"
    <3>1. SetGates(cmd, b) = Shut(BankGate("next_act2", b), D(Larger(1, T.nAADMin))) ++ activate
      BY <2>2 DEF SetGates, activate, row1
    <3> QED BY <3>1, <2>2, <1>7, <1>5
  <2>3. CASE cmd = "ACT2"
    <3>1. SetGates(cmd, b) = Shut(BankGate("next_act2", b), 0) ++ row1
      BY <2>3 DEF SetGates, row1
    <3> QED BY <3>1, <2>3, <1>6
  <2>4. CASE cmd \in {"PREPB", "REFPB", "REFDB", "RFMPB"}
    <3>1. \E n \in Nat : SetGates(cmd, b) = Shut(BankGate("next_act", b), n) ++ row1
      BY <2>4 DEF SetGates, row1
    <3> QED BY <3>1
  <2>5. CASE cmd \in {"CASRD", "CASWR"}
    <3>1. \E m, n \in Nat : SetGates(cmd, b) =
            Shut(ColumnGate("next_col", b), 1) ++ Shut(WckGate("next_cas", b), 1)
            ++ Shut(WckGate("wck_ready", b), m) ++ Shut(WckGate("wck_until", b), n)
      BY <2>5 DEF SetGates
    <3> QED BY <3>1
  <2>6. CASE cmd \in DataCommands
    <3>1. \E n \in Nat : SetGates(cmd, b) \in {Shut(BankGate("next_rd", b), n) ++ column,
                                       Shut(BankGate("next_wr", b), n) ++ column}
      BY <2>6 DEF SetGates, column
    <3> QED BY <3>1, <1>7
  <2>7. CASE cmd \in {"MRW", "MRR", "ECCSCRUB", "RASERR"}
    <3>1. \E n \in Nat : SetGates(cmd, b) = Shut(RowGate("next_row", b), n)
      BY <2>7 DEF SetGates
    <3> QED BY <3>1, <2>7, <1>4 DEF Waits
  <2>8. CASE cmd = "WCKSYNC"
    <3>1. \E m, n \in Nat : SetGates(cmd, b) =
            Shut(ColumnGate("next_col", b), 1)
            ++ Shut(WckGate("next_cas", b), m) ++ Shut(WckGate("wck_ready", b), n)
      BY <2>8 DEF SetGates
    <3> QED BY <3>1
  <2>9. CASE cmd = "WCKTRAIN"
    <3>1. \E m, n \in Nat : SetGates(cmd, b) =
            Shut(RowGate("next_row", b), n) ++ Shut(WckGate("next_cas", b), n)
            ++ Shut(WckGate("wck_ready", b), n) ++ Shut(WckGate("wck_until", b), m)
      BY <2>9 DEF SetGates
    <3> QED BY <3>1, <2>9, <1>4 DEF Waits
  <2>10. CASE cmd = "DVFS"
    <3>1. \E n \in Nat : SetGates(cmd, b) =
            Shut(RowGate("next_row", b), n) ++ Shut(ColumnGate("next_col", b), n)
            ++ Shut(WckGate("next_cas", b), n)
      BY <2>10 DEF SetGates
    <3> QED BY <3>1, <2>10, <1>4 DEF Waits
  <2>11. CASE cmd \in {"PREAB", "REFAB", "RFMAB"}
    <3>1. SetGates(cmd, b) = row1
      BY <2>11 DEF SetGates, row1
    <3> QED BY <3>1
  <2> QED BY <2>1, <2>2, <2>3, <2>4, <2>5, <2>6, <2>7, <2>8, <2>9, <2>10, <2>11
<1> QED BY <1>8 DEF P


-----------------------------------------------------------------------------
(* The deadline of ACT2 *)

Act2Gate(b) == BankGate("next_act2", b)
BusGate(b) == RowGate("next_row", b)

\* What the gates of the row bus and of the second activate hold, and that no rule
\* holds back an ACT2.
GateType ==
  /\ \A b \in Banks : Left(gate, Act2Gate(b)) \in Nat /\ Left(gate, BusGate(b)) \in Nat
  /\ \A k \in DOMAIN gate : k[1] # "ACT2"

\* Between an ACT1 and its ACT2: the deadline is ahead, the gates open in time, and
\* no other bank has the same deadline.
InTime(b) ==
  LET latest == D(T.nAADMax)
      left == bank[b].deadline
  IN /\ IF phase = "Unified" THEN left \in 0 .. latest - 1 ELSE left \in 1 .. latest
     /\ Left(gate, Act2Gate(b)) <= left
     /\ Left(gate, BusGate(b)) <= (IF phase = "Unified" THEN 0 ELSE 1)
     /\ \A x \in Banks : bank[x].activating /\ bank[x].deadline = left => x = b

Deadlines ==
  /\ GateType /\ failed = FALSE
  /\ \A b \in Banks : bank[b].activating => InTime(b)

LEMMA BankKeys ==
  ASSUME dev \in DOMAIN Devices, NEW b \in Banks, NEW x \in Banks, Act2Gate(b) = Act2Gate(x)
  PROVE  b = x
<1>1. At(dev, "Bank", b) = <<"Bank", b>> /\ At(dev, "Bank", x) = <<"Bank", x>>
  BY DeviceAssumption DEF Banks
<1> QED BY <1>1 DEF Act2Gate, BankGate

\* Every scope lies within a channel.
LEMMA WithinChannel ==
  ASSUME dev \in DOMAIN Devices, NEW b \in Banks, NEW x \in Banks, BusGate(b) = BusGate(x)
  PROVE  At(dev, "Channel", b) = At(dev, "Channel", x)
<1> DEFINE same(s) == At(dev, s, b) = At(dev, s, x)
<1>1. \A s \in Scopes : same(s) => same(Parent[s])
  BY DeviceAssumption DEF Banks
<1>2. Dram.rowScope \in Scopes /\ same(Dram.rowScope)
  <2>1. same(Dram.rowScope)
    BY DEF BusGate, RowGate
  <2> QED BY <2>1, DeviceAssumption DEF Dram
<1> HIDE DEF same
<1>3. /\ same("PseudoChannel") => same("Channel")
      /\ same("Sid") => same("PseudoChannel")
      /\ same("Rank") => same("Sid")
      /\ same("BankGroup") => same("Rank")
      /\ same("Bank") => same("BankGroup")
  BY <1>1 DEF Scopes, Parent
<1>4. same("Channel")
  BY <1>2, <1>3 DEF Scopes
<1> QED BY <1>4 DEF same

LEMMA AADMax ==
  ASSUME dev \in DOMAIN Devices, Dram.split
  PROVE  /\ D(T.nAADMax) \in Nat \ {0}
         /\ D(Larger(T.nAADMin, T.nAADMax)) = D(T.nAADMax)
         /\ D(Larger(1, T.nAADMin)) \in Nat
         /\ D(Larger(1, T.nAADMin)) <= D(T.nAADMax)
<1>1. 0 < T.nAADMin /\ T.nAADMin <= T.nAADMax /\ T.nAADMin \in Int /\ T.nAADMax \in Int
  BY DeviceAssumption, TimingInt DEF TimingNames, Dram, T
<1>2. Larger(T.nAADMin, T.nAADMax) = T.nAADMax /\ Larger(1, T.nAADMin) = T.nAADMin
  BY <1>1 DEF Larger
<1> DEFINE m == Dram.mult
           lo == T.nAADMin
           hi == T.nAADMax
<1>3. m \in Nat \ {0} /\ lo \in Nat \ {0} /\ hi \in Nat \ {0} /\ lo <= hi
  BY <1>1, DeviceFacts
<1>4. D(lo) = lo * m /\ D(hi) = hi * m
  <2>1. D(lo) = (IF lo <= 0 THEN 0 ELSE lo) * m /\ D(hi) = (IF hi <= 0 THEN 0 ELSE hi) * m
    BY DEF D, Delay, Dram
  <2> HIDE DEF lo, hi, m
  <2>2. (IF lo <= 0 THEN 0 ELSE lo) = lo /\ (IF hi <= 0 THEN 0 ELSE hi) = hi
    BY <1>3
  <2> QED BY <2>1, <2>2
<1> HIDE DEF lo, hi, m
<1>5. lo * m <= hi * m /\ lo * m \in Nat /\ hi * m \in Nat \ {0}
  BY <1>3
<1> QED BY <1>2, <1>4, <1>5 DEF lo, hi

\* The gates after a command: of the row bus, of the second activate, of the rules.
LEMMA GatesMove ==
  ASSUME Shape, GateType, NEW c, Issues(c)
  PROVE  /\ \A k \in DOMAIN gate' : k[1] # "ACT2"
         /\ \A x \in Banks :
              /\ Left(gate', Act2Gate(x)) =
                   IF x = c.r.bank /\ c.cmd = "ACT1" THEN D(Larger(1, T.nAADMin))
                   ELSE IF x = c.r.bank /\ c.cmd = "ACT2" THEN 0
                   ELSE Left(gate, Act2Gate(x))
              /\ Left(gate', BusGate(x)) \in Nat
              /\ c.cmd \notin Waits \/ BusGate(x) # BusGate(c.r.bank) =>
                   Left(gate', BusGate(x)) \in {1, Left(gate, BusGate(x))}
<1> DEFINE b == c.r.bank
           cmd == c.cmd
           set == SetGates(cmd, b)
           f == SweepGates(cmd, b) ++ set ++ gate
           g == MovedGates(cmd, b)
           h == HeldBack(dev, cmd, b)
<1>1. gate' = Latest({f, g, h})
  BY DEF Issues, IssueCommand, GatesAfter
<1>2. dev \in DOMAIN Devices /\ cmd \in Commands /\ b \in Banks
  BY IssueCommandOf DEF Shape
<1>3. \A k \in DOMAIN gate' : k \in DOMAIN f \/ k \in DOMAIN g \/ k \in DOMAIN h
  BY <1>1 DEF Latest
<1>4. \A k : k \in DOMAIN f => k = SweepGate(b) \/ k \in DOMAIN set \/ k \in DOMAIN gate
  BY OverAt, SweepNames
<1>5. ASSUME NEW k \in DOMAIN gate'
      PROVE  k[1] # "ACT2"
  <2>1. k \in DOMAIN h => k[1] # "ACT2"
    BY <1>2, HeldNames
  <2>2. k \in DOMAIN g => k[1] # "ACT2"
    BY MovedNames
  <2>3. k \in DOMAIN f => k[1] # "ACT2"
    <3>1. k = SweepGate(b) => k[1] # "ACT2"
      BY DEF SweepGate
    <3>2. k \in DOMAIN set => k[1] # "ACT2"
      BY <1>2, SetAt DEF GateNames
    <3>3. k \in DOMAIN gate => k[1] # "ACT2"
      BY DEF GateType
    <3> QED BY <1>4, <3>1, <3>2, <3>3
  <2> QED BY <1>3, <2>1, <2>2, <2>3
<1>6. ASSUME NEW k, k[1] \in {"next_row", "next_act2"}, Left(gate, k) \in Nat,
             k \in DOMAIN set => set[k] \in Nat
      PROVE  Left(gate', k) = IF k \in DOMAIN set THEN set[k] ELSE Left(gate, k)
  <2>1. k \notin DOMAIN g
    BY <1>6, MovedNames
  <2>2. k \notin DOMAIN h
    <3>1. k[1] \notin Commands
      BY <1>6, GatesAreNotCommands DEF GateNames
    <3> QED BY <3>1, <1>2, HeldNames
  <2>3. k \notin DOMAIN SweepGates(cmd, b)
    BY <1>6, SweepNames DEF SweepGate
  <2>4. Left(f, k) = IF k \in DOMAIN set THEN set[k] ELSE Left(gate, k)
    BY <2>3, OverAt
  <2>5. Left(f, k) \in Nat /\ Left(g, k) = 0 /\ Left(h, k) = 0
    BY <2>1, <2>2, <2>4, <1>6 DEF Left
  <2> HIDE DEF f, g, h
  <2>6. Left(gate', k) \in {Left(f, k), 0} /\ Left(gate', k) >= Left(f, k)
        /\ Left(gate', k) \in Nat
    BY <2>5, <1>1, LatestAt
  <2> QED BY <2>4, <2>5, <2>6
<1>7. ASSUME NEW x \in Banks
      PROVE  Left(gate', Act2Gate(x)) =
               IF x = b /\ cmd = "ACT1" THEN D(Larger(1, T.nAADMin))
               ELSE IF x = b /\ cmd = "ACT2" THEN 0
               ELSE Left(gate, Act2Gate(x))
  <2> DEFINE k == Act2Gate(x)
  <2>1. k[1] = "next_act2" /\ Left(gate, k) \in Nat
    BY DEF Act2Gate, BankGate, GateType
  <2>2. k \in DOMAIN set =>
          /\ set[k] \in Nat /\ k = Act2Gate(b) /\ cmd \in {"ACT1", "ACT2"}
          /\ cmd = "ACT1" => set[k] = D(Larger(1, T.nAADMin))
          /\ cmd = "ACT2" => set[k] = 0
    BY <2>1, <1>2, SetAt DEF Act2Gate
  <2>3. ASSUME x = b, cmd \in {"ACT1", "ACT2"}
        PROVE  k \in DOMAIN set
    <3>1. \E n, s : set = Shut(Act2Gate(b), n) ++ s
      <4> DEFINE row1 == Shut(RowGate("next_row", b), 1)
                 activate == Shut(BankGate("next_rd", b), D(T.nRCDRD))
                   ++ Shut(BankGate("next_wr", b), D(T.nRCDWR))
                   ++ Shut(BankGate("next_pre", b), D(T.nRAS))
                   ++ Shut(BankGate("next_act", b), D(T.nRC))
                   ++ Shut(RowGate("next_act", b), D(T.nRRDS))
                   ++ Shut(GroupGate("next_act", b), D(T.nRRDL)) ++ row1
      <4>1. cmd = "ACT1" => set = Shut(Act2Gate(b), D(Larger(1, T.nAADMin))) ++ activate
        BY DEF SetGates, Act2Gate, Reads, Writes
      <4>2. cmd = "ACT2" => set = Shut(Act2Gate(b), 0) ++ row1
        BY DEF SetGates, Act2Gate, Reads, Writes
      <4> HIDE DEF activate, row1, set
      <4> QED BY <2>3, <4>1, <4>2
    <3> HIDE DEF set
    <3>2. PICK n, s : set = Shut(Act2Gate(b), n) ++ s
      BY <3>1
    <3> QED BY <3>2, <2>3, OverAt, ShutAt
  <2>4. k = Act2Gate(b) => x = b
    BY <1>2, BankKeys
  <2>5. Left(gate', k) = IF k \in DOMAIN set THEN set[k] ELSE Left(gate, k)
    BY <2>1, <2>2, <1>6
  <2> HIDE DEF k, set
  <2>6. k \in DOMAIN set => x = b /\ cmd \in {"ACT1", "ACT2"}
    BY <2>2, <2>4
  <2>7. CASE k \in DOMAIN set
    BY <2>2, <2>5, <2>6, <2>7 DEF k
  <2>8. CASE k \notin DOMAIN set
    BY <2>3, <2>5, <2>8 DEF k
  <2> QED BY <2>7, <2>8
<1>8. ASSUME NEW x \in Banks
      PROVE  /\ Left(gate', BusGate(x)) \in Nat
             /\ cmd \notin Waits \/ BusGate(x) # BusGate(b) =>
                  Left(gate', BusGate(x)) \in {1, Left(gate, BusGate(x))}
  <2> DEFINE k == BusGate(x)
  <2>1. k[1] = "next_row" /\ Left(gate, k) \in Nat
    BY DEF BusGate, RowGate, GateType
  <2>2. k \in DOMAIN set =>
          set[k] \in Nat /\ k = BusGate(b) /\ (cmd \notin Waits => set[k] = 1)
    BY <2>1, <1>2, SetAt DEF BusGate
  <2>3. Left(gate', k) = IF k \in DOMAIN set THEN set[k] ELSE Left(gate, k)
    BY <2>1, <2>2, <1>6
  <2> HIDE DEF k, set
  <2> QED BY <2>1, <2>2, <2>3 DEF k
<1> QED BY <1>5, <1>7, <1>8

\* No rule makes an ACT2 wait.
LEMMA Act2Unconstrained ==
  ASSUME GateType, NEW b
  PROVE  ConstraintReady("ACT2", b)
<1> DEFINE left == {Left(gate, <<"ACT2", At(dev, s, b)>>) : s \in Scopes}
<1>1. \A s \in Scopes : Left(gate, <<"ACT2", At(dev, s, b)>>) = 0
  <2> SUFFICES ASSUME NEW s \in Scopes
               PROVE  <<"ACT2", At(dev, s, b)>> \notin DOMAIN gate
    BY DEF Left
  <2>1. <<"ACT2", At(dev, s, b)>>[1] = "ACT2"
    OBVIOUS
  <2> QED BY <2>1 DEF GateType
<1>2. left = {0}
  <2>1. "Bank" \in Scopes
    BY DEF Scopes
  <2> QED BY <1>1, <2>1
<1>3. ConstraintLeft(dev, gate, "ACT2", b) = Max(left)
  BY DEF ConstraintLeft
<1>4. Max({0}) = 0
  BY DEF Max
<1> QED BY <1>2, <1>3, <1>4 DEF ConstraintReady

\* On its last tick an ACT2 is among the offers.
LEMMA UrgentOffered ==
  ASSUME Shape, Ownership, Deadlines, phase = "Unified",
         NEW b \in Banks, bank[b].activating, bank[b].deadline = 0
  PROVE  \E c \in Offers(phase) : Urgent(c) /\ c.r.bank = b
<1>1. Dram.split /\ bank[b].row = 0
  BY DEF Shape, BankType
<1>2. PICK i \in DOMAIN Active : Active[i].bank = b /\ Active[i].first
  BY DEF Ownership, Owned
<1> DEFINE r == Active[i]
           c == [kind |-> "Active", at |-> i, r |-> r, cmd |-> "ACT2"]
<1>3. r \in Requests /\ r.bank = b /\ r.first /\ r.row # 0 /\ ~IsMaintenance(r)
  BY <1>2, ActiveIsSeq
<1> HIDE DEF r
<1>4. NextCommand(r) = "ACT2"
  BY <1>1, <1>3 DEF NextCommand, RowHit
<1>5. StateLegal(r, "ACT2")
  BY <1>1, <1>3 DEF StateLegal, DataCommands, Reads, Writes, PerBankMaintenance,
                    AllBankMaintenance
<1>6. Left(gate, Act2Gate(b)) = 0 /\ Left(gate, BusGate(b)) = 0
  <2>1. Left(gate, Act2Gate(b)) <= 0 /\ Left(gate, BusGate(b)) <= 0
    BY DEF Deadlines, InTime
  <2>2. Left(gate, Act2Gate(b)) \in Nat /\ Left(gate, BusGate(b)) \in Nat
    BY DEF Deadlines, GateType
  <2> QED BY <2>1, <2>2
<1>7. GatesOpen(r, "ACT2")
  <2>1. AllOpen({BankGate("next_act2", b), RowGate("next_row", b)})
    BY <1>6 DEF AllOpen, Open, Act2Gate, BusGate
  <2> QED BY <1>3, <2>1 DEF GatesOpen, Reads, Writes
<1>8. TimingOk(r, "ACT2")
  BY <1>3, <1>5, <1>7, Act2Unconstrained DEF TimingOk, Deadlines
<1>9. c \in Candidates("Active")
  <2>1. c = [kind |-> "Active", at |-> i, r |-> queue["Active"][i],
             cmd |-> NextCommand(queue["Active"][i])]
    BY <1>4 DEF r, Active
  <2> QED BY <1>2, <2>1 DEF Candidates, Active
<1>10. Urgent(c)
  BY <1>1, <1>3 DEF Urgent, WaitsForAct2
<1>11. Eligible(c, phase) /\ Ready(c)
  BY <1>8 DEF Eligible, Ready, BusMatches
<1>12. Offered(c, phase)
  BY <1>10, <1>11 DEF Offered
<1>13. c \in Offers(phase)
  BY <1>9, <1>12 DEF Offers, Kinds
<1> QED BY <1>3, <1>10, <1>13

\* An ACT2 on its last tick is what the bus carries.
LEMMA UrgentFirst ==
  ASSUME Shape, Ownership, Deadlines, phase = "Unified", NEW c, Issues(c),
         NEW b \in Banks, bank[b].activating, bank[b].deadline = 0
  PROVE  c.cmd = "ACT2" /\ c.r.bank = b
<1>1. PICK x \in Offers(phase) : Urgent(x)
  BY UrgentOffered
<1>2. Before(c, x)
  BY DEF Issues, Choice
<1>3. Urgent(c)
  BY <1>1, <1>2 DEF Before, Class
<1>4. c.cmd = "ACT2" /\ bank[c.r.bank].deadline = 0
  BY <1>3 DEF Urgent, WaitsForAct2
<1>5. c.r.bank \in Banks /\ bank[c.r.bank].activating
  BY <1>4, IssueCommandOf, IssueLegal, LegalState
<1>6. b = c.r.bank
  BY <1>4, <1>5 DEF Deadlines, InTime
<1> QED BY <1>4, <1>6

\* While a bank is half open the phases are those of one bus.
LEMMA OneBus ==
  ASSUME Shape, Dram.split
  PROVE  phase \in {"idle", "busy", "Unified"} /\ FirstBus = "Unified"
BY DeviceFacts DEF Shape, PhaseType, FirstBus

\* The banks that are half open after a command.
LEMMA StillActivating ==
  ASSUME Shape, Covered(dev), Ownership, NEW c, Issues(c), NEW x \in Banks,
         bank'[x].activating, Dram.split
  PROVE  \/ x = c.r.bank /\ c.cmd = "ACT1" /\ ~bank[x].activating
         \/ /\ bank'[x] = bank[x]
            /\ ~(x = c.r.bank /\ c.cmd \in {"ACT1", "ACT2"})
<1>1. OpenPage
  BY OpenOrWhole
<1>2. c.cmd \notin {"RDA", "WRA", "ACT"}
  <2>1. c.cmd \notin {"RDA", "WRA"}
    BY <1>1, OwnerOf
  <2>2. c.cmd # "ACT"
    BY IssueLegal, LegalState
  <2> QED BY <2>1, <2>2
<1>3. CASE c.cmd = "ACT1"
  <2>1. ~bank[c.r.bank].activating
    BY <1>3, IssueLegal, LegalState DEF Busy
  <2>2. x # c.r.bank => bank'[x] = bank[x]
    BY <1>3, BankMoves
  <2> QED BY <1>3, <2>1, <2>2
<1>4. CASE c.cmd = "ACT2"
  <2>1. x # c.r.bank => bank'[x] = bank[x]
    BY <1>4, BankMoves
  <2>2. x = c.r.bank => bank'[x].activating = FALSE
    BY <1>4, BankMoves
  <2> QED BY <1>4, <2>1, <2>2
<1>5. CASE c.cmd = "PREPB"
  <2>1. x # c.r.bank => bank'[x] = bank[x]
    BY <1>5, BankMoves
  <2>2. x = c.r.bank => bank'[x].activating = FALSE
    BY <1>5, BankMoves
  <2> QED BY <1>5, <2>1, <2>2
<1>6. CASE c.cmd = "PREAB"
  <2>1. IF x \in RankBanks(dev, c.r.bank) THEN bank'[x].activating = FALSE
        ELSE bank'[x] = bank[x]
    BY <1>6, BankMoves
  <2> QED BY <1>6, <2>1
<1>7. CASE c.cmd \notin {"ACT1", "ACT2", "PREPB", "PREAB"}
  <2>1. bank' = bank
    BY <1>2, <1>7, BankMoves
  <2> QED BY <1>7, <2>1
<1> QED BY <1>3, <1>4, <1>5, <1>6, <1>7

\* A command that holds the row bus goes to a channel without a half open bank.
LEMMA WaitsAlone ==
  ASSUME Shape, NEW c, Issues(c), Dram.split, c.cmd \in Waits,
         NEW x \in Banks, bank[x].activating
  PROVE  BusGate(x) # BusGate(c.r.bank)
<1>1. c.r.bank \in Banks /\ StateLegal(c.r, c.cmd)
  BY IssueCommandOf, IssueLegal
<1>2. c.cmd # "RASERR"
  <2>1. c.kind = "Priority" => c.r.next # "RASERR"
    BY QueueMoves DEF Fits
  <2>2. IF c.kind = "Priority" THEN c.cmd \in {"PREAB", "PREPB", c.r.next}
        ELSE c.cmd \in DataCommands \cup {"CASRD", "CASWR", "PREPB", "ACT", "ACT1", "ACT2"}
    BY IssueCommandOf
  <2> QED BY <2>1, <2>2 DEF DataCommands, Reads, Writes
<1>3. ~ChannelBusy(c.r.bank)
  BY <1>1, <1>2, LegalState DEF Waits
<1>4. Busy(x)
  BY DEF Busy
<1>5. At(dev, "Channel", x) # At(dev, "Channel", c.r.bank)
  BY <1>3, <1>4 DEF ChannelBusy
<1> QED BY <1>1, <1>5, WithinChannel DEF Shape

\* A command leaves every ACT2 in time.
LEMMA DeadlinesIssue ==
  ASSUME Shape, Covered(dev), Ownership, Deadlines, dev' = dev, NEW c, Issues(c)
  PROVE  Deadlines'
<1> DEFINE b == c.r.bank
<1>0. /\ dev \in DOMAIN Devices /\ b \in Banks
      /\ Dram' = Dram /\ T' = T /\ Banks' = Banks /\ D(T.nAADMax)' = D(T.nAADMax)
      /\ \A x : Act2Gate(x)' = Act2Gate(x) /\ BusGate(x)' = BusGate(x)
  BY IssueCommandOf, DeviceStays DEF Shape, D, Act2Gate, BusGate, BankGate, RowGate
<1>1. /\ GateType /\ failed' = FALSE
      /\ phase \in {"Column", "Row", "Unified"} /\ phase' = NextPhase(phase)
  BY DEF Issues, OnBus, Throws, Deadlines
<1>2. GateType'
  <2>1. D(Larger(1, T.nAADMin)) \in Nat
    <3>1. T.nAADMin \in Int
      BY <1>0, TimingInt DEF TimingNames
    <3>2. Larger(1, T.nAADMin) \in Int
      BY <3>1 DEF Larger
    <3> QED BY <3>2, <1>0, DelayNat
  <2>2. /\ \A k \in DOMAIN gate' : k[1] # "ACT2"
        /\ \A x \in Banks :
             /\ Left(gate', Act2Gate(x)) \in {D(Larger(1, T.nAADMin)), 0, Left(gate, Act2Gate(x))}
             /\ Left(gate', BusGate(x)) \in Nat
    BY <1>1, GatesMove
  <2>3. \A x \in Banks : Left(gate, Act2Gate(x)) \in Nat
    BY <1>1 DEF GateType
  <2>4. \A x \in Banks : Left(gate', Act2Gate(x)) \in Nat /\ Left(gate', BusGate(x)) \in Nat
    BY <2>1, <2>2, <2>3
  <2> QED BY <2>2, <2>4, <1>0 DEF GateType
<1>3. ASSUME NEW x \in Banks, bank'[x].activating
      PROVE  /\ bank'[x].deadline \in 1 .. D(T.nAADMax)
             /\ Left(gate', Act2Gate(x)) <= bank'[x].deadline
             /\ Left(gate', BusGate(x)) <= 1
             /\ bank'[x] = bank[x] => bank'[x].deadline < D(T.nAADMax)
             /\ bank'[x] # bank[x] => x = b /\ bank'[x].deadline = D(T.nAADMax)
  <2>1. Dram.split /\ phase = "Unified"
    <3>1. Dram.split
      BY <1>3, BankTypeIssue
    <3> QED BY <3>1, <1>1, OneBus
  <2>2. /\ D(T.nAADMax) \in Nat \ {0}
        /\ D(Larger(T.nAADMin, T.nAADMax)) = D(T.nAADMax)
        /\ D(Larger(1, T.nAADMin)) \in Nat
        /\ D(Larger(1, T.nAADMin)) <= D(T.nAADMax)
    BY <2>1, <1>0, AADMax
  <2>3. CASE x = b /\ c.cmd = "ACT1" /\ ~bank[x].activating
    <3>1. bank'[x].deadline = D(T.nAADMax)
      BY <2>2, <2>3, BankMoves
    <3>2. Left(gate', Act2Gate(x)) = D(Larger(1, T.nAADMin))
      BY <2>3, <1>1, GatesMove
    <3>3. Left(gate', BusGate(x)) <= 1
      <4>1. ~Busy(b)
        BY <2>3, IssueLegal, LegalState
      <4>2. Left(gate', BusGate(x)) = 1 \/ Left(gate', BusGate(x)) = Left(gate, BusGate(x))
        BY <2>3, <1>1, GatesMove DEF Waits
      <4>3. Left(gate, BusGate(x)) = 0
        <5>1. GatesOpen(c.r, "ACT1")
          BY <2>3, IssueLegal DEF TimingOk
        <5>2. AllOpen({BankGate("next_act", b), RowGate("next_row", b),
                       RowGate("next_act", b), GroupGate("next_act", b)})
          BY <5>1 DEF GatesOpen, ActivateGatesOpen, Reads, Writes
        <5> QED BY <5>2, <2>3 DEF AllOpen, Open, BusGate
      <4> QED BY <4>2, <4>3
    <3>4. bank'[x] # bank[x]
      BY <1>3, <2>3
    <3> QED BY <3>1, <3>2, <3>3, <3>4, <2>2, <2>3
  <2>4. CASE bank'[x] = bank[x] /\ ~(x = b /\ c.cmd \in {"ACT1", "ACT2"})
    <3>1. InTime(x) /\ bank[x].activating
      BY <1>3, <2>4 DEF Deadlines
    <3>2. bank[x].deadline # 0
      BY <3>1, <2>1, <2>4, UrgentFirst
    <3>3. bank[x].deadline \in 0 .. D(T.nAADMax) - 1
          /\ Left(gate, Act2Gate(x)) <= bank[x].deadline
          /\ Left(gate, BusGate(x)) <= 0
      BY <3>1, <2>1 DEF InTime
    <3>4. Left(gate', Act2Gate(x)) = Left(gate, Act2Gate(x))
      BY <2>4, <1>1, GatesMove
    <3>5. Left(gate', BusGate(x)) \in {1, Left(gate, BusGate(x))}
      <4>1. c.cmd \notin Waits \/ BusGate(x) # BusGate(b)
        BY <2>1, <3>1, WaitsAlone
      <4> QED BY <4>1, <1>1, GatesMove
    <3>6. Left(gate, BusGate(x)) \in Nat
      BY <1>1 DEF GateType
    <3> QED BY <3>2, <3>3, <3>4, <3>5, <3>6, <2>2, <2>4
  <2> QED BY <2>1, <2>3, <2>4, <1>3, StillActivating
<1>4. ASSUME NEW x \in Banks, bank'[x].activating
      PROVE  InTime(x)'
  <2>1. phase' # "Unified"
    BY <1>1 DEF NextPhase
  <2>2. ASSUME NEW y \in Banks, bank'[y].activating, bank'[y].deadline = bank'[x].deadline
        PROVE  y = x
    <3>1. bank'[x].deadline \in Int /\ D(T.nAADMax) \in Int
      <4>1. Dram.split
        BY <1>4, BankTypeIssue
      <4>2. D(T.nAADMax) \in Int
        BY <4>1, <1>0, AADMax
      <4> QED BY <4>2, <1>3, <1>4
    <3>2. CASE bank'[x] = bank[x] /\ bank'[y] = bank[y]
      BY <3>2, <2>2, <1>4 DEF Deadlines, InTime
    <3>3. CASE bank'[x] # bank[x] /\ bank'[y] # bank[y]
      BY <3>3, <1>3, <1>4, <2>2
    <3>4. CASE bank'[x] = bank[x] /\ bank'[y] # bank[y]
      BY <3>1, <3>4, <1>3, <1>4, <2>2
    <3>5. CASE bank'[x] # bank[x] /\ bank'[y] = bank[y]
      BY <3>1, <3>5, <1>3, <1>4, <2>2
    <3> QED BY <3>2, <3>3, <3>4, <3>5
  <2>3. /\ bank'[x].deadline \in 1 .. D(T.nAADMax)
        /\ Left(gate', Act2Gate(x)) <= bank'[x].deadline
        /\ Left(gate', BusGate(x)) <= 1
    BY <1>3, <1>4
  <2> QED BY <2>1, <2>2, <2>3, <1>0 DEF InTime
<1> QED BY <1>0, <1>1, <1>2, <1>4 DEF Deadlines

\* A tick takes one from every deadline and from every gate.
LEMMA DeadlinesTick ==
  ASSUME Shape, Deadlines, dev' = dev, Covered(dev), Advance
  PROVE  Deadlines'
<1>0. /\ dev \in DOMAIN Devices
      /\ Dram' = Dram /\ T' = T /\ Banks' = Banks /\ D(T.nAADMax)' = D(T.nAADMax)
      /\ \A x : Act2Gate(x)' = Act2Gate(x) /\ BusGate(x)' = BusGate(x)
  BY DeviceStays DEF Shape, D, Act2Gate, BusGate, BankGate, RowGate
<1>1. /\ phase \in {"idle", "busy"} /\ phase' = FirstBus /\ failed' = FALSE
      /\ gate' = OneTickLess(gate)
      /\ bank' = [b \in Banks |-> [bank[b] EXCEPT !.deadline = Larger(-1, @ - 1)]]
  BY DEF Advance, Covered, Dram, Deadlines
<1>2. bank \in [Banks -> [row : Nat, activating : BOOLEAN, deadline : Int]]
  BY DEF Shape, BankType
<1>3. ASSUME NEW x \in Banks
      PROVE  bank'[x].activating = bank[x].activating
             /\ bank'[x].deadline = Larger(-1, bank[x].deadline - 1)
  BY <1>1, <1>2
<1>4. ASSUME NEW k, Left(gate, k) \in Nat
      PROVE  Left(gate', k) = IF Left(gate, k) > 0 THEN Left(gate, k) - 1 ELSE 0
  BY <1>1, <1>4, TickAt
<1>5. GateType'
  <2>1. \A k \in DOMAIN gate' : k \in DOMAIN gate
    BY <1>1 DEF OneTickLess
  <2>2. ASSUME NEW x \in Banks
        PROVE  Left(gate', Act2Gate(x)) \in Nat /\ Left(gate', BusGate(x)) \in Nat
    <3>1. Left(gate, Act2Gate(x)) \in Nat /\ Left(gate, BusGate(x)) \in Nat
      BY DEF Deadlines, GateType
    <3> QED BY <3>1, <1>4
  <2> QED BY <2>1, <2>2, <1>0 DEF GateType, Deadlines
<1>6. ASSUME NEW x \in Banks, bank[x].activating
      PROVE  /\ bank[x].deadline \in 1 .. D(T.nAADMax) /\ D(T.nAADMax) \in Nat
             /\ bank'[x].deadline = bank[x].deadline - 1 /\ phase' = "Unified"
  <2>1. Dram.split
    BY <1>6 DEF Shape, BankType
  <2>2. D(T.nAADMax) \in Nat \ {0}
    BY <2>1, <1>0, AADMax
  <2>3. bank[x].deadline \in 1 .. D(T.nAADMax)
    BY <1>1, <1>6 DEF Deadlines, InTime
  <2>4. bank'[x].deadline = bank[x].deadline - 1
    BY <2>2, <2>3, <1>3 DEF Larger
  <2> QED BY <2>1, <2>2, <2>3, <2>4, <1>1, OneBus
<1>7. ASSUME NEW x \in Banks, bank'[x].activating
      PROVE  InTime(x)'
  <2>1. bank[x].activating /\ InTime(x) /\ phase # "Unified"
    BY <1>1, <1>3, <1>7 DEF Deadlines
  <2>2. /\ bank[x].deadline \in 1 .. D(T.nAADMax) /\ D(T.nAADMax) \in Nat
        /\ bank'[x].deadline = bank[x].deadline - 1 /\ phase' = "Unified"
    BY <2>1, <1>6
  <2>3. bank'[x].deadline \in 0 .. D(T.nAADMax) - 1
    BY <2>2
  <2>4. Left(gate', Act2Gate(x)) <= bank'[x].deadline
    <3>1. Left(gate, Act2Gate(x)) \in Nat /\ Left(gate, Act2Gate(x)) <= bank[x].deadline
      BY <2>1 DEF Deadlines, GateType, InTime
    <3> QED BY <3>1, <2>2, <1>4
  <2>5. Left(gate', BusGate(x)) <= 0
    <3>1. Left(gate, BusGate(x)) \in Nat /\ Left(gate, BusGate(x)) <= 1
      BY <2>1 DEF Deadlines, GateType, InTime
    <3> QED BY <3>1, <1>4
  <2>6. ASSUME NEW y \in Banks, bank'[y].activating, bank'[y].deadline = bank'[x].deadline
        PROVE  y = x
    <3>1. bank[y].activating
      BY <1>3, <2>6
    <3>2. bank[y].deadline = bank[x].deadline
      BY <3>1, <2>2, <2>6, <1>6
    <3> QED BY <2>1, <3>1, <3>2 DEF InTime
  <2> QED BY <2>2, <2>3, <2>4, <2>5, <2>6, <1>0 DEF InTime
<1> QED BY <1>0, <1>1, <1>5, <1>7 DEF Deadlines

\* An idle bus has no ACT2 on its last tick, and no deadline passes.
LEMMA DeadlinesIdle ==
  ASSUME Shape, Covered(dev), Ownership, Deadlines, dev' = dev, BusIdle
  PROVE  Deadlines'
<1>0. /\ dev \in DOMAIN Devices
      /\ Dram' = Dram /\ T' = T /\ Banks' = Banks /\ D(T.nAADMax)' = D(T.nAADMax)
      /\ \A x : Act2Gate(x)' = Act2Gate(x) /\ BusGate(x)' = BusGate(x)
  BY DeviceStays DEF Shape, D, Act2Gate, BusGate, BankGate, RowGate
<1>1. /\ phase \in {"Column", "Row", "Unified"} /\ phase' = NextPhase(phase)
      /\ failed' = Throws /\ UNCHANGED <<bank, gate>>
      /\ failed' \/ Offers(phase) = {}
  BY DEF BusIdle, OnBus, deviceVars
<1>2. ~MissesDeadline
  <2> SUFFICES ASSUME NEW c \in Candidates("Active"), WaitsForAct2(c),
                      bank[c.r.bank].deadline < 0
               PROVE  FALSE
    BY DEF MissesDeadline
  <2>1. PICK i \in DOMAIN Active :
          c.r = Active[i] /\ c.cmd = NextCommand(c.r)
    BY DEF Candidates, Active
  <2>2. Dram.split /\ NextCommand(c.r) = "ACT2"
    BY <2>1 DEF WaitsForAct2
  <2>3. c.r.bank \in Banks /\ ~IsMaintenance(c.r)
    BY <2>1, ActiveIsSeq
  <2>4. bank[c.r.bank].row = 0
    <3>1. RowHit(c.r) => NextCommand(c.r) # "ACT2"
      BY <2>3 DEF NextCommand, CasCommand, DataCommand
    <3> QED BY <3>1, <2>2, <2>3 DEF NextCommand
  <2>5. bank[c.r.bank].activating
    <3>1. OpenPage
      BY <2>2, OpenOrWhole
    <3> QED BY <3>1, <2>1, <2>2, <2>4 DEF Ownership, ActiveRowsHeld, Active
  <2>6. bank[c.r.bank].deadline >= 0
    <3>1. InTime(c.r.bank)
      BY <2>3, <2>5 DEF Deadlines
    <3>2. D(T.nAADMax) \in Nat \ {0}
      BY <2>2, <1>0, AADMax
    <3> QED BY <3>1, <3>2 DEF InTime
  <2>7. bank[c.r.bank].deadline \in Int
    BY <2>3 DEF Shape, BankType
  <2> QED BY <2>6, <2>7
<1>3. failed' = FALSE /\ Offers(phase) = {}
  BY <1>1, <1>2 DEF Throws
<1>4. ASSUME NEW x \in Banks, bank[x].activating
      PROVE  InTime(x)'
  <2>1. Dram.split /\ InTime(x)
    BY <1>4 DEF Shape, BankType, Deadlines
  <2>2. phase = "Unified" /\ phase' = "idle"
    BY <2>1, <1>1, OneBus DEF NextPhase
  <2>3. bank[x].deadline # 0
    BY <2>2, <1>3, <1>4, UrgentOffered
  <2>4. D(T.nAADMax) \in Nat
    BY <2>1, <1>0, AADMax
  <2>5. bank[x].deadline \in 1 .. D(T.nAADMax) /\ Left(gate, Act2Gate(x)) <= bank[x].deadline
        /\ Left(gate, BusGate(x)) <= 1
    <3>1. bank[x].deadline \in 0 .. D(T.nAADMax) - 1
          /\ Left(gate, Act2Gate(x)) <= bank[x].deadline /\ Left(gate, BusGate(x)) <= 0
      BY <2>1, <2>2 DEF InTime
    <3>2. Left(gate, BusGate(x)) \in Nat
      BY DEF Deadlines, GateType
    <3> QED BY <3>1, <3>2, <2>3, <2>4
  <2>6. \A y \in Banks : bank[y].activating /\ bank[y].deadline = bank[x].deadline => y = x
    BY <2>1 DEF InTime
  <2> QED BY <2>2, <2>5, <2>6, <1>0, <1>1 DEF InTime
<1>5. GateType'
  BY <1>0, <1>1 DEF Deadlines, GateType
<1> QED BY <1>0, <1>1, <1>3, <1>4, <1>5 DEF Deadlines

LEMMA DeadlinesStep ==
  ASSUME Shape, Covered(dev), Ownership, Deadlines, [TraceNext]_traceVars
  PROVE  Deadlines'
<1>0. dev' = dev /\ Dram' = Dram /\ T' = T /\ Banks' = Banks /\ D(T.nAADMax)' = D(T.nAADMax)
      /\ \A x : Act2Gate(x)' = Act2Gate(x) /\ BusGate(x)' = BusGate(x)
  BY Steps, DeviceStays DEF D, Act2Gate, BusGate, BankGate, RowGate
<1>1. ASSUME UNCHANGED <<bank, gate, failed>>, phase' = phase \/ {phase, phase'} \subseteq {"idle", "busy"}
      PROVE  Deadlines'
  <2>1. (phase' = "Unified") = (phase = "Unified")
    BY <1>1
  <2>2. \A x : InTime(x)' = InTime(x)
    BY <1>0, <1>1, <2>1 DEF InTime
  <2> QED BY <1>0, <1>1, <2>2 DEF Deadlines, GateType
<1>2. CASE UNCHANGED traceVars
  BY <1>1, <1>2 DEF traceVars, vars, deviceVars
<1>3. ASSUME NEW r, Submit(r)
      PROVE  Deadlines'
  BY <1>1, <1>3 DEF Submit, deviceVars
<1> QED BY <1>0, <1>2, <1>3, DeadlinesIssue, DeadlinesTick, DeadlinesIdle, Steps

-----------------------------------------------------------------------------
(* The requests of RfmManager *)

\* What waits on the maintenance path, and what a RFM command is for.
Line == queue["Priority"] \o pending
IsRfm(r) == r.next \in RfmCommands
Target(r) == At(dev, IF r.next = "RFMPB" THEN "Bank" ELSE "Rank", r.bank)
Asks(r, target) == IsRfm(r) /\ Target(r) = target

\* What RfmManager has asked for.
Due == {At(dev, "Bank", b) : b \in {x \in Banks : rfm[x].due}} \cup rfmAll

RfmType ==
  /\ rfm \in [Banks -> [count : Nat, due : BOOLEAN]]
  /\ rfmAll \subseteq {At(dev, "Rank", b) : b \in Banks}
  /\ \A b \in Banks : rfm[b].due => RfmOn /\ ~Dram.rfmAllBank
  /\ rfmAll # {} => RfmOn /\ Dram.rfmAllBank

\* Each thing asked for waits once, and nothing else does.
Queued ==
  /\ \A i, j \in DOMAIN Line :
       IsRfm(Line[i]) /\ IsRfm(Line[j]) /\ Target(Line[i]) = Target(Line[j]) => i = j
  /\ \A target : target \in Due <=> \E i \in DOMAIN Line : Asks(Line[i], target)

\* A count at the threshold has its command under way.
Counted ==
  RfmOn => \A b \in Banks :
    /\ rfm[b].count <= Dram.rfmThreshold
    /\ rfm[b].count >= Dram.rfmThreshold =>
         IF Dram.rfmAllBank THEN At(dev, "Rank", b) \in rfmAll ELSE rfm[b].due

\* The maintenance path is full before a request stays pending over a tick.
Overflow ==
  phase \in {"Column", "Row", "Unified"} /\ queue["Priority"] = <<>> => pending = <<>>

RfmInv == RfmType /\ Queued /\ Counted /\ Overflow

LEMMA LineIsSeq ==
  ASSUME Shape
  PROVE  /\ queue["Priority"] \in Seq(Requests) /\ pending \in Seq(Requests)
         /\ Len(queue["Priority"]) \in Nat /\ Len(pending) \in Nat
         /\ Line \in Seq(Requests)
         /\ Len(Line) = Len(queue["Priority"]) + Len(pending)
         /\ DOMAIN Line = 1 .. Len(queue["Priority"]) + Len(pending)
         /\ \A i \in DOMAIN Line :
              /\ Line[i] \in Requests /\ Line[i].bank \in Banks
              /\ Line[i] = IF i <= Len(queue["Priority"]) THEN queue["Priority"][i]
                           ELSE pending[i - Len(queue["Priority"])]
<1> DEFINE p == queue["Priority"]
           m == pending
<1>1. p \in Seq(Requests) /\ m \in Seq(Requests)
  BY DEF Shape, QueueType, Kinds
<1> HIDE DEF p, m
<1>2. /\ Len(p) \in Nat /\ Len(m) \in Nat /\ p \o m \in Seq(Requests)
      /\ Len(p \o m) = Len(p) + Len(m)
      /\ \A i \in 1 .. Len(p) + Len(m) :
           (p \o m)[i] = IF i <= Len(p) THEN p[i] ELSE m[i - Len(p)]
  BY <1>1, ConcatProperties
<1>3. DOMAIN (p \o m) = 1 .. Len(p) + Len(m)
  BY <1>2
<1>4. \A i \in DOMAIN (p \o m) : (p \o m)[i] \in Requests
  BY <1>2
<1>5. \A r \in Requests : r.bank \in Banks
  BY DEF Requests
<1> QED BY <1>1, <1>2, <1>3, <1>4, <1>5 DEF Line, p, m

\* A set without two elements.
LEMMA AtMostOne ==
  ASSUME NEW S, \A x, y \in S : x = y
  PROVE  Cardinality(S) = IF S = {} THEN 0 ELSE 1
<1>1. CASE S = {}
  BY <1>1, FS_EmptySet
<1>2. CASE S # {}
  <2>1. PICK x \in S : TRUE
    BY <1>2
  <2>2. S = {x}
    BY <2>1
  <2> QED BY <1>2, <2>2, FS_Singleton
<1> QED BY <1>1, <1>2

\* What the invariant says of RfmWaiting.
LEMMA QueuedIsWaiting ==
  ASSUME Shape, RfmInv
  PROVE  RfmWaiting
<1> DEFINE of(cmd, banks) == {i \in DOMAIN Line : Line[i].next = cmd /\ Line[i].bank \in banks}
<1>0. dev \in DOMAIN Devices
  BY DEF Shape
<1>1. ASSUME NEW b \in Banks
      PROVE  Cardinality(of("RFMPB", {b})) = IF rfm[b].due THEN 1 ELSE 0
  <2> DEFINE S == of("RFMPB", {b})
             key == At(dev, "Bank", b)
  <2>1. \A i \in DOMAIN Line : Asks(Line[i], key) <=> Line[i].next = "RFMPB" /\ Line[i].bank = b
    <3> SUFFICES ASSUME NEW i \in DOMAIN Line
                 PROVE  Asks(Line[i], key) <=> Line[i].next = "RFMPB" /\ Line[i].bank = b
      OBVIOUS
    <3>1. Line[i].bank \in Banks
      BY LineIsSeq
    <3>2. At(dev, "Bank", Line[i].bank) = key => Line[i].bank = b
      <4>1. At(dev, "Bank", b) = <<"Bank", b>>
            /\ At(dev, "Bank", Line[i].bank) = <<"Bank", Line[i].bank>>
        BY <1>0, <3>1, DeviceAssumption DEF Banks
      <4> QED BY <4>1
    <3>3. At(dev, "Rank", Line[i].bank) # key
      BY DEF At
    <3> QED BY <3>2, <3>3 DEF Asks, IsRfm, Target, RfmCommands
  <2>2. \A i, j \in S : i = j
    BY <2>1 DEF RfmInv, Queued, Asks
  <2>3. key \in Due <=> rfm[b].due
    <3>1. key \notin rfmAll
      BY DEF RfmInv, RfmType, At
    <3>2. \A x \in Banks : At(dev, "Bank", x) = key => x = b
      <4>1. \A x \in Banks : At(dev, "Bank", x) = <<"Bank", x>>
        BY <1>0, DeviceAssumption DEF Banks
      <4> QED BY <4>1
    <3> QED BY <3>1, <3>2 DEF Due
  <2>4. key \in Due <=> S # {}
    BY <2>1 DEF RfmInv, Queued
  <2> HIDE DEF S, key
  <2>5. Cardinality(S) = IF S = {} THEN 0 ELSE 1
    BY <2>2, AtMostOne
  <2> QED BY <2>3, <2>4, <2>5 DEF S
<1>2. ASSUME NEW b \in Banks
      PROVE  Cardinality(of("RFMAB", RankBanks(dev, b))) =
               IF At(dev, "Rank", b) \in rfmAll THEN 1 ELSE 0
  <2> DEFINE S == of("RFMAB", RankBanks(dev, b))
             key == At(dev, "Rank", b)
  <2>1. \A i \in DOMAIN Line : Asks(Line[i], key) <=>
          Line[i].next = "RFMAB" /\ Line[i].bank \in RankBanks(dev, b)
    <3> SUFFICES ASSUME NEW i \in DOMAIN Line
                 PROVE  Asks(Line[i], key) <=>
                          Line[i].next = "RFMAB" /\ Line[i].bank \in RankBanks(dev, b)
      OBVIOUS
    <3>1. Line[i].bank \in Banks
      BY LineIsSeq
    <3>2. At(dev, "Rank", Line[i].bank) = key <=> Line[i].bank \in RankBanks(dev, b)
      BY <3>1 DEF RankBanks, Banks
    <3>3. At(dev, "Bank", Line[i].bank) # key
      BY DEF At
    <3> QED BY <3>2, <3>3 DEF Asks, IsRfm, Target, RfmCommands
  <2>2. \A i, j \in S : i = j
    BY <2>1 DEF RfmInv, Queued, Asks
  <2>3. key \in Due <=> key \in rfmAll
    <3>1. \A x : At(dev, "Bank", x) # key
      BY DEF At
    <3> QED BY <3>1 DEF Due
  <2>4. key \in Due <=> S # {}
    BY <2>1 DEF RfmInv, Queued
  <2> HIDE DEF S, key
  <2>5. Cardinality(S) = IF S = {} THEN 0 ELSE 1
    BY <2>2, AtMostOne
  <2> QED BY <2>3, <2>4, <2>5 DEF S, key
<1>3. \A b \in Banks : RfmOn => rfm[b].count <= Dram.rfmThreshold
  BY DEF RfmInv, Counted
<1> QED BY <1>1, <1>2, <1>3 DEF RfmWaiting, Line

\* Two sequences in a row.
LEMMA Joined ==
  ASSUME NEW S, NEW p \in Seq(S), NEW m \in Seq(S)
  PROVE  /\ Len(p) \in Nat /\ Len(m) \in Nat /\ p \o m \in Seq(S)
         /\ DOMAIN p = 1 .. Len(p) /\ DOMAIN m = 1 .. Len(m)
         /\ DOMAIN (p \o m) = 1 .. Len(p) + Len(m)
         /\ \A i \in 1 .. Len(p) + Len(m) :
              (p \o m)[i] = IF i <= Len(p) THEN p[i] ELSE m[i - Len(p)]
<1>1. Len(p) \in Nat /\ Len(m) \in Nat
  OBVIOUS
<1>2. /\ p \o m \in Seq(S) /\ Len(p \o m) = Len(p) + Len(m)
      /\ \A i \in 1 .. Len(p) + Len(m) :
           (p \o m)[i] = IF i <= Len(p) THEN p[i] ELSE m[i - Len(p)]
  BY ConcatProperties
<1> QED BY <1>1, <1>2

\* The first of two sequences loses its head.
LEMMA JoinedTail ==
  ASSUME NEW S, NEW p \in Seq(S), NEW m \in Seq(S), 1 \in DOMAIN p
  PROVE  LET all == p \o m
             rest == RemoveAt(p, 1) \o m
         IN /\ 1 \in DOMAIN all /\ all[1] = p[1]
            /\ \A i \in DOMAIN rest : i + 1 \in DOMAIN all /\ rest[i] = all[i + 1] /\ i \in Nat
            /\ \A i \in DOMAIN all : i \in Nat /\ (i # 1 => i - 1 \in DOMAIN rest)
<1> DEFINE r == RemoveAt(p, 1)
<1>1. /\ r \in Seq(S) /\ Len(r) = Len(p) - 1
      /\ \A j \in 1 .. Len(p) - 1 : r[j] = p[j + 1]
  <2>1. \A j \in 1 .. Len(p) - 1 : ~(j < 1)
    OBVIOUS
  <2> QED BY <2>1, Removing
<1> HIDE DEF r
<1>2. /\ Len(p) \in Nat /\ Len(m) \in Nat /\ Len(p) >= 1
      /\ DOMAIN (p \o m) = 1 .. Len(p) + Len(m)
      /\ \A i \in 1 .. Len(p) + Len(m) :
           (p \o m)[i] = IF i <= Len(p) THEN p[i] ELSE m[i - Len(p)]
  <2>1. DOMAIN p = 1 .. Len(p) /\ Len(p) \in Nat
    OBVIOUS
  <2> QED BY <2>1, Joined
<1>3. /\ DOMAIN (r \o m) = 1 .. Len(r) + Len(m)
      /\ \A i \in 1 .. Len(r) + Len(m) :
           (r \o m)[i] = IF i <= Len(r) THEN r[i] ELSE m[i - Len(r)]
  <2>1. r \in Seq(S)
    BY <1>1
  <2> QED BY <2>1, Joined
<1>4. ASSUME NEW i \in DOMAIN (r \o m)
      PROVE  i + 1 \in DOMAIN (p \o m) /\ (r \o m)[i] = (p \o m)[i + 1] /\ i \in Nat
  <2>1. i \in 1 .. Len(p) - 1 + Len(m) /\ i + 1 \in 1 .. Len(p) + Len(m)
    BY <1>1, <1>2, <1>3
  <2>2. CASE i <= Len(r)
    <3>1. i \in 1 .. Len(p) - 1 /\ i + 1 <= Len(p)
      BY <2>1, <2>2, <1>1, <1>2
    <3>2. (r \o m)[i] = r[i] /\ (p \o m)[i + 1] = p[i + 1]
      BY <3>1, <2>1, <2>2, <1>2, <1>3
    <3> QED BY <3>1, <3>2, <2>1, <1>1, <1>2
  <2>3. CASE ~(i <= Len(r))
    <3>1. ~(i + 1 <= Len(p)) /\ i + 1 - Len(p) = i - Len(r)
      BY <2>1, <2>3, <1>1, <1>2
    <3>2. (r \o m)[i] = m[i - Len(r)] /\ (p \o m)[i + 1] = m[i + 1 - Len(p)]
      BY <3>1, <2>1, <2>3, <1>2, <1>3, SMTT(60)
    <3> QED BY <3>1, <3>2, <2>1, <1>2, SMTT(60)
  <2> QED BY <2>2, <2>3
<1>5. \A i \in DOMAIN (p \o m) : i \in Nat /\ (i # 1 => i - 1 \in DOMAIN (r \o m))
  BY <1>1, <1>2, <1>3
<1>6. 1 \in DOMAIN (p \o m) /\ (p \o m)[1] = p[1]
  BY <1>2
<1> QED BY <1>4, <1>5, <1>6 DEF r

\* The first of two sequences gains an element.
LEMMA JoinedMore ==
  ASSUME NEW S, NEW p \in Seq(S), NEW m \in Seq(S), NEW e \in S
  PROVE  LET all == p \o m
             more == Append(p, e) \o m
             old(i) == IF i <= Len(p) THEN i ELSE i - 1
             new(i) == IF i <= Len(p) THEN i ELSE i + 1
         IN /\ \A i \in DOMAIN more :
                 /\ i \in Nat
                 /\ i # Len(p) + 1 => old(i) \in DOMAIN all /\ more[i] = all[old(i)]
            /\ more[Len(p) + 1] = e
            /\ \A i \in DOMAIN all : new(i) \in DOMAIN more /\ more[new(i)] = all[i]
<1> DEFINE a == Append(p, e)
           old(i) == IF i <= Len(p) THEN i ELSE i - 1
           new(i) == IF i <= Len(p) THEN i ELSE i + 1
<1>1. /\ a \in Seq(S) /\ Len(a) = Len(p) + 1 /\ a[Len(p) + 1] = e
      /\ \A i \in 1 .. Len(p) : a[i] = p[i]
  BY AppendProperties
<1> HIDE DEF a
<1>2. /\ Len(p) \in Nat /\ Len(m) \in Nat
      /\ DOMAIN (p \o m) = 1 .. Len(p) + Len(m)
      /\ \A i \in 1 .. Len(p) + Len(m) :
           (p \o m)[i] = IF i <= Len(p) THEN p[i] ELSE m[i - Len(p)]
  BY Joined
<1>3. /\ DOMAIN (a \o m) = 1 .. Len(a) + Len(m)
      /\ \A i \in 1 .. Len(a) + Len(m) :
           (a \o m)[i] = IF i <= Len(a) THEN a[i] ELSE m[i - Len(a)]
  <2>1. a \in Seq(S)
    BY <1>1
  <2> QED BY <2>1, Joined
<1>4. ASSUME NEW i \in 1 .. Len(p) + Len(m) + 1, i # Len(p) + 1
      PROVE  old(i) \in 1 .. Len(p) + Len(m) /\ (a \o m)[i] = (p \o m)[old(i)]
  <2>1. CASE i <= Len(p)
    <3>1. i \in 1 .. Len(p) /\ i \in 1 .. Len(a) + Len(m) /\ i <= Len(a) /\ old(i) = i
      BY <2>1, <1>1, <1>2
    <3>2. (a \o m)[i] = a[i] /\ (p \o m)[i] = p[i]
      BY <3>1, <2>1, <1>1, <1>2, <1>3
    <3> QED BY <3>1, <3>2, <1>1, <1>2
  <2>2. CASE ~(i <= Len(p))
    <3>1. /\ ~(i <= Len(a)) /\ old(i) = i - 1 /\ ~(i - 1 <= Len(p))
          /\ i \in 1 .. Len(a) + Len(m) /\ i - 1 \in 1 .. Len(p) + Len(m)
          /\ i - Len(a) = i - 1 - Len(p)
      BY <2>2, <1>1, <1>2, <1>4
    <3>2. (a \o m)[i] = m[i - Len(a)] /\ (p \o m)[i - 1] = m[i - 1 - Len(p)]
      BY <3>1, <1>2, <1>3
    <3> QED BY <3>1, <3>2
  <2> QED BY <2>1, <2>2
<1>5. DOMAIN (a \o m) = 1 .. Len(p) + Len(m) + 1
  BY <1>1, <1>2, <1>3
<1>6. (a \o m)[Len(p) + 1] = e
  BY <1>1, <1>2, <1>3
<1>7. ASSUME NEW i \in 1 .. Len(p) + Len(m)
      PROVE  new(i) \in 1 .. Len(p) + Len(m) + 1 /\ (a \o m)[new(i)] = (p \o m)[i]
  <2>1. new(i) \in 1 .. Len(p) + Len(m) + 1 /\ new(i) # Len(p) + 1 /\ old(new(i)) = i
    BY <1>2
  <2> HIDE DEF old, new
  <2> QED BY <2>1, <1>4
<1> QED BY <1>2, <1>4, <1>5, <1>6, <1>7, SMTT(60) DEF a

\* What a command does to the maintenance path.
LEMMA PriorityMoves ==
  ASSUME Shape, NEW c, Issues(c)
  PROVE  /\ c.kind = "Priority" =>
              /\ c.at = 1 /\ 1 \in DOMAIN queue["Priority"] /\ c.r = queue["Priority"][1]
         /\ c.kind \in {"Read", "Write"} => queue["Priority"] = <<>>
         /\ queue'["Priority"] = IF c.kind = "Priority" /\ c.cmd = c.r.next
                                 THEN RemoveAt(queue["Priority"], 1) ELSE queue["Priority"]
<1>1. /\ c.kind \in Kinds /\ c.at \in DOMAIN queue[c.kind]
      /\ c.r = queue[c.kind][c.at] /\ c.r \in Requests
      /\ IsMaintenance(c.r) = (c.kind = "Priority")
  BY QueueMoves
<1>2. DOMAIN queue = Kinds /\ queue["Priority"] \in Seq(Requests) /\ "Priority" \in Kinds
  BY DEF Shape, QueueType, Kinds
<1>3. Offered(c, phase) /\ SatisfiedCount = 0
  BY NoneSatisfied DEF Issues, Choice
<1>4. c.kind = "Priority" => c.at = 1
  BY <1>3 DEF Offered
<1>5. c.kind \in {"Read", "Write"} => queue["Priority"] = <<>>
  <2>1. c.kind \in {"Read", "Write"} => Len(queue["Priority"]) = 0
    BY <1>3 DEF Offered
  <2> QED BY <2>1, <1>2
<1> DEFINE rest == RemoveAt(queue[c.kind], c.at)
           same == [queue[c.kind] EXCEPT ![c.at] = Served(c)]
           more == [queue EXCEPT ![c.kind] = rest]
<1>6. CASE c.kind = "Priority" /\ c.cmd = c.r.next
  <2>1. Retires(c)
    BY <1>1, <1>6 DEF Retires
  <2>2. queue' = [queue EXCEPT ![c.kind] = rest]
    BY <2>1, QueueMoves
  <2> HIDE DEF rest
  <2>3. queue'["Priority"] = rest
    BY <2>2, <1>2, <1>6
  <2> QED BY <2>3, <1>1, <1>4, <1>5, <1>6 DEF rest
<1>7. CASE c.kind = "Priority" /\ c.cmd # c.r.next
  <2>1. ~Retires(c) /\ ~Takes(c)
    BY <1>1, <1>7 DEF Retires, Takes
  <2>2. c.cmd # "ACT1"
    <3>1. c.cmd \in {"PREAB", "PREPB", c.r.next}
      BY <1>7, IssueCommandOf
    <3> QED BY <3>1, <1>7
  <2>3. same = queue["Priority"]
    <3>1. Served(c) = c.r
      BY <2>2, <1>1, ServedSame
    <3> QED BY <3>1, <1>1, <1>2, <1>7
  <2>4. queue' = [queue EXCEPT ![c.kind] = same]
    BY <2>1, QueueMoves
  <2> HIDE DEF same
  <2>5. queue'["Priority"] = queue["Priority"]
    BY <2>3, <2>4, <1>2, <1>7
  <2> QED BY <2>5, <1>1, <1>4, <1>5, <1>7
<1>8. CASE c.kind # "Priority"
  <2>1. \/ queue' = [queue EXCEPT ![c.kind] = rest]
        \/ queue' = [more EXCEPT !["Active"] = Append(@, Served(c))]
        \/ queue' = [queue EXCEPT ![c.kind] = same]
    BY QueueMoves
  <2> HIDE DEF rest, same
  <2>2. more["Priority"] = queue["Priority"] /\ DOMAIN more = Kinds
    BY <1>2, <1>8
  <2> HIDE DEF more
  <2>3. queue'["Priority"] = queue["Priority"]
    BY <2>1, <2>2, <1>2, <1>8
  <2> QED BY <2>3, <1>1, <1>5, <1>8
<1> QED BY <1>6, <1>7, <1>8

\* The three ways in which the line of waiting commands changes.
LEMMA LineStays ==
  ASSUME Queued, dev' = dev, Line' = Line, Due' = Due
  PROVE  Queued'
BY DEF Queued, Asks, Target, IsRfm

LEMMA HeadServed ==
  ASSUME Shape, Queued, dev' = dev, pending' = pending,
         1 \in DOMAIN queue["Priority"],
         queue'["Priority"] = RemoveAt(queue["Priority"], 1),
         \A target : target \in Due' <=>
           target \in Due /\ ~Asks(queue["Priority"][1], target)
  PROVE  Queued'
<1>1. queue["Priority"] \in Seq(Requests) /\ pending \in Seq(Requests)
  BY LineIsSeq
<1>2. /\ 1 \in DOMAIN Line /\ Line[1] = queue["Priority"][1]
      /\ \A i \in DOMAIN Line' : i + 1 \in DOMAIN Line /\ Line'[i] = Line[i + 1] /\ i \in Nat
      /\ \A i \in DOMAIN Line : i \in Nat /\ (i # 1 => i - 1 \in DOMAIN Line')
  <2> DEFINE p == queue["Priority"]
             m == pending
  <2>1. Line = p \o m /\ Line' = RemoveAt(p, 1) \o m
    BY DEF Line
  <2>2. p \in Seq(Requests) /\ m \in Seq(Requests) /\ 1 \in DOMAIN p
    BY <1>1
  <2> HIDE DEF p, m
  <2>3. /\ 1 \in DOMAIN (p \o m) /\ (p \o m)[1] = p[1]
        /\ \A i \in DOMAIN (RemoveAt(p, 1) \o m) :
             /\ i + 1 \in DOMAIN (p \o m) /\ i \in Nat
             /\ (RemoveAt(p, 1) \o m)[i] = (p \o m)[i + 1]
        /\ \A i \in DOMAIN (p \o m) :
             i \in Nat /\ (i # 1 => i - 1 \in DOMAIN (RemoveAt(p, 1) \o m))
    BY <2>2, JoinedTail
  <2> QED BY <2>1, <2>3 DEF p
<1>3. /\ \A i, j \in DOMAIN Line :
           IsRfm(Line[i]) /\ IsRfm(Line[j]) /\ Target(Line[i]) = Target(Line[j]) => i = j
      /\ \A target : target \in Due <=> \E i \in DOMAIN Line : Asks(Line[i], target)
  BY DEF Queued
<1>4. \A r, target : /\ Target(r)' = Target(r) /\ IsRfm(r)' = IsRfm(r)
                     /\ Asks(r, target)' = Asks(r, target)
  BY DEF Target, IsRfm, Asks
<1>5. \A i, j \in DOMAIN Line' :
        IsRfm(Line'[i]) /\ IsRfm(Line'[j]) /\ Target(Line'[i]) = Target(Line'[j]) => i = j
  <2> SUFFICES ASSUME NEW i \in DOMAIN Line', NEW j \in DOMAIN Line',
                      IsRfm(Line'[i]), IsRfm(Line'[j]), Target(Line'[i]) = Target(Line'[j])
               PROVE  i = j
    OBVIOUS
  <2>1. i + 1 = j + 1
    BY <1>2, <1>3
  <2> QED BY <2>1, <1>2
<1>6. ASSUME NEW target
      PROVE  target \in Due' <=> \E i \in DOMAIN Line' : Asks(Line'[i], target)
  <2>1. ASSUME NEW i \in DOMAIN Line', Asks(Line'[i], target)
        PROVE  target \in Due'
    <3>1. i + 1 \in DOMAIN Line /\ Asks(Line[i + 1], target) /\ i \in Nat /\ i + 1 # 1
      <4>1. i \in Nat /\ i # 0
        <5>1. Line' \in Seq(Requests)
          <6>1. RemoveAt(queue["Priority"], 1) \in Seq(Requests)
            BY <1>1, Removing
          <6> QED BY <6>1, <1>1, Joined DEF Line
        <5> QED BY <5>1, <2>1
      <4> QED BY <4>1, <2>1, <1>2
    <3>2. ~Asks(Line[1], target)
      BY <3>1, <1>2, <1>3 DEF Asks
    <3> QED BY <3>1, <3>2, <1>2, <1>3
  <2>2. ASSUME target \in Due'
        PROVE  \E i \in DOMAIN Line' : Asks(Line'[i], target)
    <3>1. target \in Due /\ ~Asks(Line[1], target)
      BY <2>2, <1>2
    <3>2. PICK i \in DOMAIN Line : Asks(Line[i], target)
      BY <3>1, <1>3
    <3>3. i # 1 /\ i - 1 \in DOMAIN Line' /\ i - 1 + 1 = i
      BY <3>1, <3>2, <1>2
    <3> QED BY <3>2, <3>3, <1>2
  <2> QED BY <2>1, <2>2
<1> QED BY <1>4, <1>5, <1>6 DEF Queued

LEMMA RequestJoins ==
  ASSUME Shape, Queued, dev' = dev, pending' = pending, Due' = Due,
         NEW r \in Requests, ~IsRfm(r),
         queue'["Priority"] = Append(queue["Priority"], r)
  PROVE  Queued'
<1> DEFINE n == Len(queue["Priority"])
           old(i) == IF i <= n THEN i ELSE i - 1
           new(i) == IF i <= n THEN i ELSE i + 1
<1>1. queue["Priority"] \in Seq(Requests) /\ pending \in Seq(Requests) /\ n \in Nat
  BY LineIsSeq
<1>2. /\ \A i \in DOMAIN Line' :
           i \in Nat /\ (i # n + 1 => old(i) \in DOMAIN Line /\ Line'[i] = Line[old(i)])
      /\ Line'[n + 1] = r
      /\ \A i \in DOMAIN Line : new(i) \in DOMAIN Line' /\ Line'[new(i)] = Line[i]
  <2> DEFINE p == queue["Priority"]
             m == pending
  <2>1. Line = p \o m /\ Line' = Append(p, r) \o m
    BY DEF Line
  <2>2. p \in Seq(Requests) /\ m \in Seq(Requests)
    BY <1>1
  <2> HIDE DEF p, m
  <2>3. /\ \A i \in DOMAIN (Append(p, r) \o m) :
             /\ i \in Nat
             /\ i # Len(p) + 1 =>
                  LET j == IF i <= Len(p) THEN i ELSE i - 1
                  IN j \in DOMAIN (p \o m) /\ (Append(p, r) \o m)[i] = (p \o m)[j]
        /\ (Append(p, r) \o m)[Len(p) + 1] = r
        /\ \A i \in DOMAIN (p \o m) :
             LET j == IF i <= Len(p) THEN i ELSE i + 1
             IN j \in DOMAIN (Append(p, r) \o m) /\ (Append(p, r) \o m)[j] = (p \o m)[i]
    BY <2>2, JoinedMore, SMTT(60)
  <2> QED BY <2>1, <2>3 DEF p
<1>3. \A i, j \in Nat : i # n + 1 /\ j # n + 1 /\ old(i) = old(j) => i = j
  BY <1>1
<1> HIDE DEF n, old, new
<1>4. /\ \A i, j \in DOMAIN Line :
           IsRfm(Line[i]) /\ IsRfm(Line[j]) /\ Target(Line[i]) = Target(Line[j]) => i = j
      /\ \A target : target \in Due <=> \E i \in DOMAIN Line : Asks(Line[i], target)
  BY DEF Queued
<1>5. \A e, target : /\ Target(e)' = Target(e) /\ IsRfm(e)' = IsRfm(e)
                     /\ Asks(e, target)' = Asks(e, target)
  BY DEF Target, IsRfm, Asks
<1>6. \A i \in DOMAIN Line' : IsRfm(Line'[i]) => i # n + 1
  BY <1>2
<1>7. \A i, j \in DOMAIN Line' :
        IsRfm(Line'[i]) /\ IsRfm(Line'[j]) /\ Target(Line'[i]) = Target(Line'[j]) => i = j
  BY <1>2, <1>3, <1>4, <1>6
<1>8. ASSUME NEW target
      PROVE  target \in Due' <=> \E i \in DOMAIN Line' : Asks(Line'[i], target)
  BY <1>2, <1>4, <1>6 DEF Asks
<1> QED BY <1>5, <1>7, <1>8 DEF Queued

LEMMA RfmFacts ==
  ASSUME dev \in DOMAIN Devices
  PROVE  /\ Dram.rfmThreshold \in Int /\ Dram.rfmDecrement \in Int
         /\ RfmOn => Dram.rfmDecrement > 0 /\ Dram.rfmThreshold > 0
         /\ Dram.rfmAllBank \in BOOLEAN
         /\ \A b, x \in Banks : At(dev, "Bank", b) = At(dev, "Bank", x) => b = x
<1>1. \A b \in Banks : At(dev, "Bank", b) = <<"Bank", b>>
  BY DeviceAssumption DEF Banks
<1>2. \A b, x \in Banks : At(dev, "Bank", b) = At(dev, "Bank", x) => b = x
  BY <1>1
<1> QED BY <1>2, DeviceAssumption DEF Dram, RfmOn

\* The command takes its bus, and the tick goes on.
LEMMA BusOf ==
  ASSUME Shape, NEW c, Issues(c)
  PROVE  /\ phase' = NextPhase(phase) /\ phase \in {"Column", "Row", "Unified"}
         /\ phase = "Column" => c.cmd \in ColumnCommands
         /\ phase \in {"Row", "Unified"} => phase' = "idle"
<1>1. phase \in {"Column", "Row", "Unified"} /\ phase' = NextPhase(phase)
  BY DEF Issues, OnBus
<1>2. phase = "Column" => c.cmd \in ColumnCommands
  BY IssueLegal DEF BusMatches
<1> QED BY <1>1, <1>2 DEF NextPhase

\* RfmManager after a command that is neither an activate nor a RFM.
LEMMA RfmStays ==
  ASSUME NEW c, Issues(c), c.cmd \notin Opening \cup RfmCommands
  PROVE  UNCHANGED <<rfm, rfmAll, pending>>
<1>1. /\ rfm' = RfmAfter(c.cmd, c.r.bank) /\ rfmAll' = RfmAllAfter(c.cmd, c.r.bank)
      /\ pending' = PendingAfter(c.cmd, c.r.bank)
  BY DEF Issues, IssueCommand
<1> QED BY <1>1 DEF RfmAfter, RfmAllAfter, PendingAfter, RaisesRfm, RfmCommands

\* An activate: nothing else waits, and its bank or rank may come to wait.
LEMMA RfmActivate ==
  ASSUME Shape, Covered(dev), Ownership, OpenPage, RfmInv, dev' = dev,
         NEW c, Issues(c), c.cmd \in Opening
  PROVE  RfmInv'
<1> DEFINE b == c.r.bank
           cmd == c.cmd
           rank == At(dev, "Rank", b)
           key == At(dev, "Bank", b)
           r == Request(0, "Maintenance", IF Dram.rfmAllBank THEN "RFMAB" ELSE "RFMPB", b, 0)
<1>0. /\ dev \in DOMAIN Devices /\ b \in Banks
      /\ Dram' = Dram /\ Banks' = Banks /\ RfmOn' = RfmOn /\ Requests' = Requests
      /\ \A e, target : Asks(e, target)' = Asks(e, target)
      /\ \A e : IsRfm(e)' = IsRfm(e) /\ Target(e)' = Target(e)
      /\ \A s, x : At(dev, s, x)' = At(dev, s, x)
  BY IssueCommandOf, DeviceStays DEF Shape, RfmOn, Asks, IsRfm, Target
<1>1. /\ rfm \in [Banks -> [count : Nat, due : BOOLEAN]]
      /\ rfmAll \subseteq {At(dev, "Rank", x) : x \in Banks}
      /\ \A x \in Banks : rfm[x].due => RfmOn /\ ~Dram.rfmAllBank
      /\ rfmAll # {} => RfmOn /\ Dram.rfmAllBank
  BY DEF RfmInv, RfmType
<1>2. queue["Priority"] = <<>> /\ queue'["Priority"] = <<>> /\ pending = <<>>
  <2>1. Takes(c)
    BY OwnerOf
  <2>2. queue["Priority"] = <<>> /\ queue'["Priority"] = <<>>
    BY <2>1, PriorityMoves DEF Takes
  <2> QED BY <2>2, BusOf DEF RfmInv, Overflow
<1>3. Due = {}
  <2>1. Line = <<>>
    BY <1>2 DEF Line
  <2> QED BY <2>1 DEF RfmInv, Queued
<1>4. rfmAll = {} /\ \A x \in Banks : ~rfm[x].due
  BY <1>3 DEF Due
<1>5. RfmOn => \A x \in Banks : rfm[x].count < Dram.rfmThreshold
  <2> SUFFICES ASSUME RfmOn, NEW x \in Banks
               PROVE  rfm[x].count < Dram.rfmThreshold
    OBVIOUS
  <2>1. ~(rfm[x].count >= Dram.rfmThreshold)
    BY <1>4 DEF RfmInv, Counted
  <2>2. rfm[x].count \in Nat /\ Dram.rfmThreshold \in Int
    BY <1>0, <1>1, RfmFacts
  <2> QED BY <2>1, <2>2
<1>6. /\ rfm' = RfmAfter(cmd, b) /\ rfmAll' = RfmAllAfter(cmd, b)
      /\ pending' = PendingAfter(cmd, b)
  BY DEF Issues, IssueCommand
<1>7. cmd \notin {"RFMPB", "RFMAB"}
  BY DEF Opening
<1>8. RaisesRfm(cmd, b) <=> RfmDue(b)
  BY <1>4, <1>0 DEF RaisesRfm
<1>9. RfmDue(b) => RfmOn
  BY DEF RfmDue
<1>10. phase' = "idle"
  <2>1. phase # "Column"
    BY BusOf DEF Opening, ColumnCommands, DataCommands, Reads, Writes
  <2> QED BY <2>1, BusOf
<1>11. r \in Requests /\ IsRfm(r) /\ Target(r) = IF Dram.rfmAllBank THEN rank ELSE key
  <2>1. r \in Requests
    BY <1>0 DEF Request, Requests, Commands, RowCommands, PerBankMaintenance, AllBank,
                AllBankMaintenance
  <2> QED BY <2>1 DEF Request, IsRfm, Target, RfmCommands
<1>12. CASE ~RfmOn
  <2>1. rfm' = rfm /\ rfmAll' = rfmAll /\ pending' = pending
    <3>1. ~RaisesRfm(cmd, b)
      BY <1>8, <1>9, <1>12
    <3> QED BY <3>1, <1>6, <1>7, <1>12 DEF RfmAfter, RfmAllAfter, PendingAfter
  <2>2. Line' = Line /\ Due' = Due
    BY <2>1, <1>0, <1>2 DEF Line, Due
  <2>3. Queued'
    BY <2>2, LineStays DEF RfmInv
  <2>4. RfmType'
    BY <2>1, <1>0, <1>1 DEF RfmType
  <2>5. Counted' /\ Overflow'
    BY <1>0, <1>10, <1>12 DEF Counted, Overflow
  <2> QED BY <2>3, <2>4, <2>5 DEF RfmInv
<1>13. CASE RfmOn
  <2> DEFINE up == [count |-> rfm[b].count + 1,
                    due |-> rfm[b].due \/ (RaisesRfm(cmd, b) /\ ~Dram.rfmAllBank)]
  <2>1. rfm' = [rfm EXCEPT ![b] = up]
    BY <1>6, <1>7, <1>13 DEF RfmAfter
  <2>2. up.count = rfm[b].count + 1 /\ up.count \in Nat
        /\ up.due = (RfmDue(b) /\ ~Dram.rfmAllBank) /\ up \in [count : Nat, due : BOOLEAN]
    <3>1. rfm[b].count \in Nat /\ rfm[b].due = FALSE
      BY <1>0, <1>1, <1>4
    <3>2. RfmDue(b) \in BOOLEAN /\ RaisesRfm(cmd, b) \in BOOLEAN
      BY DEF RfmDue, RaisesRfm, RfmOn
    <3>3. Dram.rfmAllBank \in BOOLEAN
      BY <1>0, RfmFacts
    <3> QED BY <3>1, <3>2, <3>3, <1>8
  <2> HIDE DEF up
  <2>3. \A x \in Banks : rfm'[x] = IF x = b THEN up ELSE rfm[x]
    BY <2>1, <1>0, <1>1
  <2>4. rfmAll' = IF RfmDue(b) /\ Dram.rfmAllBank THEN {rank} ELSE {}
    BY <1>4, <1>6, <1>7, <1>8 DEF RfmAllAfter
  <2>5. pending' = IF RfmDue(b) THEN <<r>> ELSE <<>>
    <3>1. pending' = IF RfmDue(b) THEN Append(pending, r) ELSE pending
      BY <1>6, <1>8 DEF PendingAfter
    <3>2. Append(<<>>, r) = <<r>>
      OBVIOUS
    <3> HIDE DEF r
    <3> QED BY <3>1, <3>2, <1>2
  <2>6. RfmType'
    <3>1. rfm' \in [Banks -> [count : Nat, due : BOOLEAN]]
      BY <2>1, <2>2, <1>0, <1>1
    <3>2. \A x \in Banks : rfm'[x].due => RfmOn /\ ~Dram.rfmAllBank
      BY <2>2, <2>3, <1>4, <1>13
    <3>3. rfmAll' \subseteq {At(dev, "Rank", x) : x \in Banks}
          /\ (rfmAll' # {} => RfmOn /\ Dram.rfmAllBank)
      BY <2>4, <1>0, <1>13
    <3> QED BY <3>1, <3>2, <3>3, <1>0 DEF RfmType
  <2>7. Due' = IF RfmDue(b) THEN {Target(r)} ELSE {}
    <3>1. Due' = {At(dev, "Bank", y) : y \in {x \in Banks : rfm'[x].due}} \cup rfmAll'
      BY <1>0 DEF Due
    <3>2. {x \in Banks : rfm'[x].due} = IF RfmDue(b) /\ ~Dram.rfmAllBank THEN {b} ELSE {}
      BY <2>2, <2>3, <1>0, <1>4
    <3>3. CASE RfmDue(b) /\ Dram.rfmAllBank
      BY <3>1, <3>2, <3>3, <2>4, <1>11
    <3>4. CASE RfmDue(b) /\ ~Dram.rfmAllBank
      BY <3>1, <3>2, <3>4, <2>4, <1>11
    <3>5. CASE ~RfmDue(b)
      BY <3>1, <3>2, <3>5, <2>4
    <3> QED BY <3>3, <3>4, <3>5
  <2>8. Line' = IF RfmDue(b) THEN <<r>> ELSE <<>>
    <3>1. Line' = queue'["Priority"] \o pending'
      BY DEF Line
    <3>2. <<>> \o <<r>> = <<r>> /\ <<>> \o <<>> = <<>>
      BY <1>11, ConcatEmptySeq
    <3> HIDE DEF r
    <3> QED BY <3>1, <3>2, <2>5, <1>2
  <2>9. Queued'
    <3>1. CASE RfmDue(b)
      <4>1. DOMAIN Line' = {1} /\ Line'[1] = r /\ Due' = {Target(r)}
        BY <3>1, <2>7, <2>8
      <4>2. \A target : Asks(Line'[1], target) <=> target = Target(r)
        BY <4>1, <1>11 DEF Asks
      <4> QED BY <4>1, <4>2, <1>0 DEF Queued
    <3>2. CASE ~RfmDue(b)
      <4>1. DOMAIN Line' = {} /\ Due' = {}
        BY <3>2, <2>7, <2>8
      <4> QED BY <4>1 DEF Queued
    <3> QED BY <3>1, <3>2
  <2>10. Counted'
    <3> SUFFICES ASSUME NEW x \in Banks
                 PROVE  /\ rfm'[x].count <= Dram.rfmThreshold
                        /\ rfm'[x].count >= Dram.rfmThreshold =>
                             IF Dram.rfmAllBank THEN At(dev, "Rank", x) \in rfmAll'
                             ELSE rfm'[x].due
      BY <1>0 DEF Counted
    <3>1. rfm[x].count \in Nat /\ rfm[x].count < Dram.rfmThreshold /\ Dram.rfmThreshold \in Int
      BY <1>0, <1>1, <1>5, <1>13, RfmFacts
    <3>2. CASE x # b
      BY <3>1, <3>2, <2>3
    <3>3. CASE x = b
      <4>1. rfm'[x] = up
        BY <3>3, <2>3
      <4>2. RfmDue(b) <=> up.count >= Dram.rfmThreshold
        BY <2>2, <1>13 DEF RfmDue
      <4> QED BY <3>1, <3>3, <4>1, <4>2, <2>2, <2>4
    <3> QED BY <3>2, <3>3
  <2>11. Overflow'
    BY <1>10 DEF Overflow
  <2> QED BY <2>6, <2>9, <2>10, <2>11 DEF RfmInv
<1> QED BY <1>12, <1>13

\* A RFM command takes back what was asked for, and its counts.
LEMMA RfmServed ==
  ASSUME Shape, RfmInv, dev' = dev, NEW c, Issues(c), c.cmd \in RfmCommands
  PROVE  RfmInv'
<1> DEFINE b == c.r.bank
           cmd == c.cmd
           rank == At(dev, "Rank", b)
           key == At(dev, "Bank", b)
<1>0. /\ dev \in DOMAIN Devices /\ b \in Banks
      /\ Dram' = Dram /\ Banks' = Banks /\ RfmOn' = RfmOn
      /\ \A s, x : At(dev, s, x)' = At(dev, s, x)
  BY IssueCommandOf, DeviceStays DEF Shape, RfmOn
<1>1. /\ rfm \in [Banks -> [count : Nat, due : BOOLEAN]]
      /\ rfmAll \subseteq {At(dev, "Rank", x) : x \in Banks}
      /\ \A x \in Banks : rfm[x].due => RfmOn /\ ~Dram.rfmAllBank
      /\ rfmAll # {} => RfmOn /\ Dram.rfmAllBank
  BY DEF RfmInv, RfmType
<1>2. c.kind = "Priority" /\ cmd = c.r.next
  <2>1. IF c.kind = "Priority" THEN c.cmd \in {"PREAB", "PREPB", c.r.next}
        ELSE c.cmd \in DataCommands \cup {"CASRD", "CASWR", "PREPB", "ACT", "ACT1", "ACT2"}
    BY IssueCommandOf
  <2> QED BY <2>1 DEF RfmCommands, DataCommands, Reads, Writes
<1>3. /\ 1 \in DOMAIN queue["Priority"] /\ c.r = queue["Priority"][1]
      /\ queue'["Priority"] = RemoveAt(queue["Priority"], 1)
  BY <1>2, PriorityMoves
<1>4. /\ rfm' = RfmAfter(cmd, b) /\ rfmAll' = RfmAllAfter(cmd, b)
      /\ pending' = PendingAfter(cmd, b)
  BY DEF Issues, IssueCommand
<1>5. ~RaisesRfm(cmd, b) /\ cmd \notin Opening
  BY DEF RaisesRfm, Opening, RfmCommands
<1>6. pending' = pending
  BY <1>4, <1>5 DEF PendingAfter
<1>7. \A target : Asks(c.r, target) <=> target = IF cmd = "RFMPB" THEN key ELSE rank
  BY <1>2 DEF Asks, IsRfm, Target
<1>8. (IF cmd = "RFMPB" THEN key ELSE rank) \in Due
  <2>1. 1 \in DOMAIN Line /\ Line[1] = c.r
    <3>1. /\ Len(queue["Priority"]) \in Nat /\ Len(pending) \in Nat
          /\ DOMAIN queue["Priority"] = 1 .. Len(queue["Priority"])
          /\ DOMAIN Line = 1 .. Len(queue["Priority"]) + Len(pending)
          /\ \A i \in DOMAIN Line :
               Line[i] = IF i <= Len(queue["Priority"]) THEN queue["Priority"][i]
                         ELSE pending[i - Len(queue["Priority"])]
      BY LineIsSeq
    <3>2. 1 \in DOMAIN Line /\ 1 <= Len(queue["Priority"])
      BY <3>1, <1>3
    <3> QED BY <3>1, <3>2, <1>3
  <2> QED BY <2>1, <1>7 DEF RfmInv, Queued
<1>9. \A x : At(dev, "Bank", x) \notin rfmAll /\ At(dev, "Bank", x) # rank
  BY <1>1 DEF At
<1>10. RfmOn /\ (cmd = "RFMPB" <=> ~Dram.rfmAllBank)
  <2>1. CASE cmd = "RFMPB"
    <3>1. PICK x \in Banks : rfm[x].due
      BY <2>1, <1>8, <1>9 DEF Due
    <3> QED BY <3>1, <2>1, <1>1
  <2>2. CASE cmd = "RFMAB"
    <3>1. rank \in rfmAll
      BY <2>2, <1>8, <1>9 DEF Due
    <3> QED BY <3>1, <2>2, <1>1
  <2> QED BY <2>1, <2>2 DEF RfmCommands
<1>11. ASSUME NEW x \in Banks
       PROVE  Credited(rfm[x].count) \in Nat /\ Credited(rfm[x].count) < Dram.rfmThreshold
  <2> DEFINE n == rfm[x].count
             d == Dram.rfmDecrement
             t == Dram.rfmThreshold
  <2>1. n \in Nat /\ n <= t /\ d \in Int /\ t \in Int /\ d > 0 /\ t > 0
    BY <1>0, <1>1, <1>10, RfmFacts DEF RfmInv, Counted
  <2>2. Credited(n) = IF n > d THEN n - d ELSE 0
    BY DEF Credited
  <2> HIDE DEF n, d, t
  <2>3. Credited(n) \in Nat /\ Credited(n) < t
    BY <2>1, <2>2
  <2> QED BY <2>3 DEF n, t
<1>12. /\ rfm' \in [Banks -> [count : Nat, due : BOOLEAN]]
       /\ \A x \in Banks : \/ rfm'[x] = rfm[x] /\ (cmd = "RFMPB" => x # b)
                              /\ (cmd = "RFMAB" => At(dev, "Rank", x) # rank)
                           \/ /\ rfm'[x].count = Credited(rfm[x].count) /\ rfm'[x].due = FALSE
                              /\ cmd = "RFMPB" => x = b
  <2>1. CASE cmd = "RFMPB"
    <3> DEFINE e == [count |-> Credited(rfm[b].count), due |-> FALSE]
    <3>1. rfm' = [rfm EXCEPT ![b] = e]
      BY <2>1, <1>4, <1>5 DEF RfmAfter
    <3>2. e \in [count : Nat, due : BOOLEAN] /\ e.count = Credited(rfm[b].count) /\ e.due = FALSE
      BY <1>0, <1>11
    <3> HIDE DEF e
    <3> QED BY <3>1, <3>2, <2>1, <1>0, <1>1
  <2>2. CASE cmd = "RFMAB"
    <3> DEFINE e(x) == [count |-> Credited(rfm[x].count), due |-> FALSE]
    <3>1. rfm' = [x \in Banks |-> IF x \in RankBanks(dev, b) THEN e(x) ELSE rfm[x]]
      BY <2>2, <1>4, <1>5 DEF RfmAfter
    <3>2. \A x \in Banks : e(x) \in [count : Nat, due : BOOLEAN]
                           /\ e(x).count = Credited(rfm[x].count) /\ e(x).due = FALSE
      BY <1>11
    <3> HIDE DEF e
    <3>3. \A x \in Banks : At(dev, "Rank", x) = rank => x \in RankBanks(dev, b)
      BY DEF RankBanks, Banks
    <3> QED BY <3>1, <3>2, <3>3, <2>2, <1>0, <1>1
  <2> QED BY <2>1, <2>2 DEF RfmCommands
<1>13. rfmAll' = IF cmd = "RFMAB" THEN rfmAll \ {rank} ELSE rfmAll
  BY <1>4, <1>5 DEF RfmAllAfter
<1>14. RfmType'
  <2>1. \A x \in Banks : rfm'[x].due => RfmOn /\ ~Dram.rfmAllBank
    BY <1>1, <1>12
  <2>2. rfmAll' \subseteq {At(dev, "Rank", x) : x \in Banks}
        /\ (rfmAll' # {} => RfmOn /\ Dram.rfmAllBank)
    BY <1>1, <1>13
  <2> QED BY <2>1, <2>2, <1>0, <1>12 DEF RfmType
<1>15. \A target : target \in Due' <=> target \in Due /\ ~Asks(c.r, target)
  <2>1. Due' = {At(dev, "Bank", y) : y \in {x \in Banks : rfm'[x].due}} \cup rfmAll'
    BY <1>0 DEF Due
  <2>2. CASE cmd = "RFMPB"
    <3>1. \A x \in Banks : rfm'[x].due <=> rfm[x].due /\ x # b
      BY <2>2, <1>12
    <3>2. \A x \in Banks : At(dev, "Bank", x) = key <=> x = b
      BY <1>0, RfmFacts
    <3>3. rfmAll' = rfmAll /\ key \notin rfmAll
      BY <2>2, <1>9, <1>13
    <3> HIDE DEF key, rank, b
    <3> QED BY <2>1, <2>2, <3>1, <3>2, <3>3, <1>7 DEF Due
  <2>3. CASE cmd = "RFMAB"
    <3>1. \A x \in Banks : ~rfm'[x].due /\ ~rfm[x].due
      BY <2>3, <1>1, <1>10, <1>12
    <3>2. Due' = rfmAll' /\ Due = rfmAll
      BY <2>1, <3>1 DEF Due
    <3> QED BY <2>3, <3>2, <1>7, <1>13
  <2> QED BY <2>2, <2>3 DEF RfmCommands
<1>16. Queued'
  BY <1>3, <1>6, <1>15, HeadServed DEF RfmInv
<1>17. Counted'
  <2> SUFFICES ASSUME NEW x \in Banks
               PROVE  /\ rfm'[x].count <= Dram.rfmThreshold
                      /\ rfm'[x].count >= Dram.rfmThreshold =>
                           IF Dram.rfmAllBank THEN At(dev, "Rank", x) \in rfmAll'
                           ELSE rfm'[x].due
    BY <1>0 DEF Counted
  <2>1. Dram.rfmThreshold \in Int
    BY <1>0, RfmFacts
  <2>2. CASE rfm'[x].count = Credited(rfm[x].count)
    BY <2>1, <2>2, <1>11
  <2>3. CASE /\ rfm'[x] = rfm[x] /\ (cmd = "RFMPB" => x # b)
             /\ (cmd = "RFMAB" => At(dev, "Rank", x) # rank)
    BY <2>3, <1>10, <1>13 DEF RfmInv, Counted
  <2> QED BY <2>2, <2>3, <1>12
<1>18. Overflow'
  <2>1. phase # "Column"
    BY BusOf DEF RfmCommands, ColumnCommands, DataCommands, Reads, Writes
  <2>2. phase' = "idle"
    BY <2>1, BusOf
  <2> QED BY <2>2 DEF Overflow
<1> QED BY <1>14, <1>16, <1>17, <1>18 DEF RfmInv

\* The other commands.
LEMMA RfmOther ==
  ASSUME Shape, RfmInv, dev' = dev, NEW c, Issues(c), c.cmd \notin Opening \cup RfmCommands
  PROVE  RfmInv'
<1>0. /\ Dram' = Dram /\ Banks' = Banks /\ RfmOn' = RfmOn
      /\ \A s, x : At(dev, s, x)' = At(dev, s, x)
  BY DeviceStays DEF RfmOn
<1>1. UNCHANGED <<rfm, rfmAll, pending>>
  BY RfmStays
<1>2. Due' = Due
  BY <1>0, <1>1 DEF Due
<1>3. CASE c.kind = "Priority" /\ c.cmd = c.r.next
  <2>1. /\ 1 \in DOMAIN queue["Priority"] /\ c.r = queue["Priority"][1]
        /\ queue'["Priority"] = RemoveAt(queue["Priority"], 1)
    BY <1>3, PriorityMoves
  <2>2. \A target : ~Asks(c.r, target)
    BY <1>3 DEF Asks, IsRfm
  <2>3. Queued'
    BY <2>1, <2>2, <1>1, <1>2, HeadServed DEF RfmInv
  <2>4. phase # "Column"
    <3>1. c.r.next \in Upkeep \cup RfmCommands
      BY <1>3, QueueMoves DEF Fits
    <3>2. c.cmd \notin ColumnCommands
      BY <3>1, <1>3 DEF Upkeep, RfmCommands, Controls, ColumnCommands, DataCommands, Reads, Writes
    <3> QED BY <3>2, BusOf
  <2>5. phase' = "idle"
    BY <2>4, BusOf
  <2> QED BY <2>3, <2>5, <1>0, <1>1 DEF RfmInv, RfmType, Counted, Overflow
<1>4. CASE ~(c.kind = "Priority" /\ c.cmd = c.r.next)
  <2>1. queue'["Priority"] = queue["Priority"]
    BY <1>4, PriorityMoves
  <2>2. Queued'
    BY <2>1, <1>1, <1>2, LineStays DEF RfmInv, Line
  <2>3. Overflow'
    BY <2>1, <1>1, BusOf DEF RfmInv, Overflow
  <2> QED BY <2>2, <2>3, <1>0, <1>1 DEF RfmInv, RfmType, Counted
<1> QED BY <1>3, <1>4

LEMMA Regrouped ==
  ASSUME NEW S, NEW p \in Seq(S), NEW s \in Seq(S), NEW t \in Seq(S)
  PROVE  (p \o s) \o t = p \o (s \o t)
BY ConcatAssociative

\* service_pending_maintenance() keeps the order.
LEMMA RfmTick ==
  ASSUME Shape, Covered(dev), RfmInv, dev' = dev, Advance
  PROVE  RfmInv'
<1> DEFINE p == queue["Priority"]
           m == pending
           moved == Min({PrioritySpace, Len(m)})
<1>0. /\ Dram' = Dram /\ Banks' = Banks /\ RfmOn' = RfmOn
      /\ \A s, x : At(dev, s, x)' = At(dev, s, x)
  BY DeviceStays DEF RfmOn
<1>1. UNCHANGED <<rfm, rfmAll>>
  BY DEF Advance, policyVars
<1>2. Due' = Due
  BY <1>0, <1>1 DEF Due
<1>3. /\ queue'["Priority"] = p \o SubSeq(m, 1, moved)
      /\ pending' = SubSeq(m, moved + 1, Len(m))
  BY DEF Advance, Shape, QueueType, Kinds
<1>4. p \in Seq(Requests) /\ m \in Seq(Requests) /\ Len(p) \in Nat /\ Len(m) \in Nat
  BY LineIsSeq
<1>5. PrioritySpace \in Nat /\ Len(p) + PrioritySpace = Dram.prioritySize
      /\ Dram.prioritySize \in Nat \ {0}
  <2>1. Len(p) <= Dram.prioritySize /\ Dram.prioritySize \in Nat \ {0}
    BY DeviceFacts DEF Shape, QueueType
  <2> QED BY <2>1, <1>4 DEF PrioritySpace
<1>6. moved \in Nat /\ moved <= Len(m) /\ (moved = Len(m) \/ moved = PrioritySpace)
  <2> DEFINE x == PrioritySpace
             y == Len(m)
  <2>1. x \in Nat /\ y \in Nat /\ moved = Min({x, y})
    BY <1>4, <1>5
  <2> HIDE DEF x, y, moved
  <2>2. moved \in {x, y} /\ moved <= x /\ moved <= y
    BY <2>1, MinOfTwo
  <2> QED BY <2>1, <2>2 DEF x, y
<1> HIDE DEF moved
<1>7. /\ SubSeq(m, 1, moved) \in Seq(Requests) /\ Len(SubSeq(m, 1, moved)) = moved
      /\ SubSeq(m, moved + 1, Len(m)) \in Seq(Requests)
      /\ Len(SubSeq(m, moved + 1, Len(m))) = Len(m) - moved
  BY <1>4, <1>6, SubSeqProperties
<1>8. SubSeq(m, 1, moved) \o SubSeq(m, moved + 1, Len(m)) = m
  <2> DEFINE n == Len(m)
  <2>1. n \in Nat /\ moved \in 0 .. n
    BY <1>4, <1>6
  <2>2. SubSeq(m, 1, moved) \o SubSeq(m, moved + 1, n) = SubSeq(m, 1, n)
    <3>1. 1 \in 1 .. Len(m) + 1 /\ moved \in 0 .. Len(m) /\ n \in moved .. Len(m)
      BY <1>4, <1>6
    <3> HIDE DEF m, n
    <3> QED BY <3>1, <1>4, ConcatAdjacentSubSeq
  <2>3. SubSeq(m, 1, n) = m
    BY <1>4
  <2> QED BY <2>2, <2>3
<1>9. Line' = Line
  <2> DEFINE s == SubSeq(m, 1, moved)
             t == SubSeq(m, moved + 1, Len(m))
  <2>1. Line' = (p \o s) \o t /\ Line = p \o m
    BY <1>3 DEF Line
  <2>2. s \o t = m
    BY <1>8
  <2>3. p \in Seq(Requests) /\ s \in Seq(Requests) /\ t \in Seq(Requests)
    BY <1>4, <1>7
  <2> HIDE DEF s, t, p, m
  <2>4. (p \o s) \o t = p \o (s \o t)
    BY <2>3, Regrouped
  <2> QED BY <2>1, <2>2, <2>4
<1>10. Queued'
  BY <1>2, <1>9, LineStays DEF RfmInv
<1>11. Overflow'
  <2> SUFFICES ASSUME queue'["Priority"] = <<>>
               PROVE  pending' = <<>>
    BY DEF Overflow
  <2> DEFINE s == SubSeq(m, 1, moved)
  <2>1. Len(p) = 0 /\ moved = 0
    <3>1. s \in Seq(Requests) /\ Len(s) = moved /\ p \o s = <<>>
      BY <1>3, <1>7
    <3> HIDE DEF s, p
    <3>2. Len(p \o s) = Len(p) + Len(s)
      BY <1>4, <3>1, ConcatProperties
    <3> QED BY <3>1, <3>2, <1>4, <1>6
  <2>2. Len(m) = 0
    BY <2>1, <1>4, <1>5, <1>6
  <2>3. Len(pending') = 0 /\ pending' \in Seq(Requests)
    BY <2>1, <2>2, <1>3, <1>7
  <2> QED BY <2>3
<1> QED BY <1>0, <1>1, <1>10, <1>11 DEF RfmInv, RfmType, Counted

\* Another request joins a queue.
LEMMA RfmSubmit ==
  ASSUME Shape, RfmInv, dev' = dev, NEW r, Given(r), Submit(r)
  PROVE  RfmInv'
<1>0. /\ Dram' = Dram /\ Banks' = Banks /\ RfmOn' = RfmOn
      /\ \A s, x : At(dev, s, x)' = At(dev, s, x)
  BY DeviceStays DEF RfmOn
<1>1. UNCHANGED <<rfm, rfmAll, pending>> /\ phase' = "busy"
  BY DEF Submit, policyVars
<1>2. Due' = Due
  BY <1>0, <1>1 DEF Due
<1>3. r \in Requests /\ ~IsRfm(r)
  BY DEF Given, IsRfm
<1>4. DOMAIN queue = Kinds /\ "Priority" \in Kinds
  BY DEF Shape, QueueType, Kinds
<1>5. Queued'
  <2>1. CASE IsMaintenance(r)
    <3>1. queue'["Priority"] = Append(queue["Priority"], r)
      BY <2>1, <1>4 DEF Submit
    <3> QED BY <3>1, <1>1, <1>2, <1>3, RequestJoins DEF RfmInv
  <2>2. CASE ~IsMaintenance(r)
    <3>1. r.type # "Priority"
      BY <2>2, <1>3 DEF Requests
    <3>2. queue'["Priority"] = queue["Priority"]
      BY <3>1, <2>2, <1>4 DEF Submit
    <3>3. Line' = Line
      BY <3>2, <1>1 DEF Line
    <3> QED BY <3>3, <1>2, LineStays DEF RfmInv
  <2> QED BY <2>1, <2>2
<1>6. Overflow'
  BY <1>1 DEF Overflow
<1> QED BY <1>0, <1>1, <1>5, <1>6 DEF RfmInv, RfmType, Counted

\* The invariant of RfmManager.
LEMMA RfmStep ==
  ASSUME Shape, Covered(dev), Ownership, OpenPage, RfmInv, [TraceNext]_traceVars
  PROVE  RfmInv'
<1>0. /\ dev' = dev /\ Dram' = Dram /\ Banks' = Banks /\ RfmOn' = RfmOn
      /\ \A s, x : At(dev, s, x)' = At(dev, s, x)
  BY Steps, DeviceStays DEF RfmOn
<1>1. ASSUME UNCHANGED <<rfm, rfmAll, pending, queue>>, Overflow'
      PROVE  RfmInv'
  <2>1. Due' = Due /\ Line' = Line
    BY <1>0, <1>1 DEF Due, Line
  <2>2. Queued'
    BY <1>0, <2>1, LineStays DEF RfmInv
  <2> QED BY <2>2, <1>0, <1>1 DEF RfmInv, RfmType, Counted
<1>2. CASE UNCHANGED traceVars
  <2>1. UNCHANGED <<rfm, rfmAll, pending, queue, phase>>
    BY <1>2 DEF traceVars, vars, policyVars
  <2> QED BY <2>1, <1>1 DEF RfmInv, Overflow
<1>3. ASSUME NEW r, Given(r), Submit(r)
      PROVE  RfmInv'
  BY <1>0, <1>3, RfmSubmit
<1>4. CASE Advance
  BY <1>0, <1>4, RfmTick
<1>5. ASSUME NEW c, Issues(c)
      PROVE  RfmInv'
  <2>1. CASE c.cmd \in Opening
    BY <2>1, <1>0, <1>5, RfmActivate
  <2>2. CASE c.cmd \in RfmCommands
    BY <2>2, <1>0, <1>5, RfmServed
  <2>3. CASE c.cmd \notin Opening \cup RfmCommands
    BY <2>3, <1>0, <1>5, RfmOther
  <2> QED BY <2>1, <2>2, <2>3
<1>6. CASE BusIdle /\ queue' = queue
  <2>1. UNCHANGED <<rfm, rfmAll, pending, queue>>
    BY <1>6 DEF BusIdle
  <2>2. Overflow'
    <3>1. phase' \in {"Column", "Row", "Unified"} => phase \in {"Column", "Row", "Unified"}
      BY <1>6 DEF BusIdle, OnBus
    <3> QED BY <3>1, <2>1 DEF RfmInv, Overflow
  <2> QED BY <2>1, <2>2, <1>1
<1> QED BY <1>2, <1>3, <1>4, <1>5, <1>6, Steps

\* The sizes of all timings together.
Size(n) == IF n >= 0 THEN n ELSE -n
LEMMA SizeNat ==
  ASSUME NEW n \in Int
  PROVE  Size(n) \in Nat /\ n <= Size(n) /\ -n <= Size(n)
BY DEF Size

LEMMA SixNat ==
  ASSUME NEW a \in Nat, NEW b \in Nat, NEW c \in Nat, NEW d \in Nat, NEW e \in Nat, NEW f \in Nat
  PROVE  LET s == a + b + c + d + e + f
         IN s \in Nat /\ a <= s /\ b <= s /\ c <= s /\ d <= s /\ e <= s /\ f <= s
OBVIOUS
LEMMA FiveNat ==
  ASSUME NEW a \in Nat, NEW b \in Nat, NEW c \in Nat, NEW d \in Nat, NEW e \in Nat
  PROVE  LET s == a + b + c + d + e
         IN s \in Nat /\ a <= s /\ b <= s /\ c <= s /\ d <= s /\ e <= s
OBVIOUS

\* The timings that the rules use.
RuleTimings ==
  {"nBL", "nCL", "nCWL", "nRCDRD", "nRCDWR", "nRP", "nRPab", "nRAS", "nRC", "nRTP",
   "nWR", "nRTW", "nWTRS", "nWTRL", "nCCDS", "nCCDL", "nCCDR", "nRRDS", "nRRDL",
   "nPPD", "nRFC", "nRFCpb", "nRREFD", "nRFMab", "nRFMpb", "nCAS", "nREFDB2ACT",
   "nMRW", "nMRR", "nWCKSYNC", "nWCKTRAIN", "nDVFS", "nECCSCRUB", "nRASERR",
   "nLINKRETRY"}

LEMMA Bounded ==
  ASSUME NEW t \in [TimingNames -> Int]
  PROVE  \E m \in Nat : \A n \in RuleTimings : t[n] <= m /\ -t[n] <= m
<1>0. \A n \in TimingNames : t[n] \in Int
  OBVIOUS
<1>1. \A n \in TimingNames : Size(t[n]) \in Nat /\ t[n] <= Size(t[n]) /\ -t[n] <= Size(t[n])
  BY SizeNat
<1> DEFINE s1 == Size(t.nBL) + Size(t.nCL) + Size(t.nCWL) + Size(t.nRCDRD) +
             Size(t.nRCDWR) + Size(t.nRP)
           s2 == Size(t.nRPab) + Size(t.nRAS) + Size(t.nRC) + Size(t.nRTP) +
             Size(t.nWR) + Size(t.nRTW)
           s3 == Size(t.nWTRS) + Size(t.nWTRL) + Size(t.nCCDS) + Size(t.nCCDL) +
             Size(t.nCCDR) + Size(t.nRRDS)
           s4 == Size(t.nRRDL) + Size(t.nPPD) + Size(t.nRFC) + Size(t.nRFCpb) +
             Size(t.nRREFD) + Size(t.nRFMab)
           s5 == Size(t.nRFMpb) + Size(t.nCAS) + Size(t.nREFDB2ACT) + Size(t.nMRW) +
             Size(t.nMRR) + Size(t.nWCKSYNC)
           s6 == Size(t.nWCKTRAIN) + Size(t.nDVFS) + Size(t.nECCSCRUB) +
             Size(t.nRASERR) + Size(t.nLINKRETRY)
<1>2. s1 \in Nat /\ \A n \in {"nBL", "nCL", "nCWL", "nRCDRD", "nRCDWR", "nRP"} : Size(t[n]) <= s1
  BY <1>1, SixNat DEF TimingNames
<1>3. s2 \in Nat /\ \A n \in {"nRPab", "nRAS", "nRC", "nRTP", "nWR", "nRTW"} : Size(t[n]) <= s2
  BY <1>1, SixNat DEF TimingNames
<1>4. s3 \in Nat /\ \A n \in {"nWTRS", "nWTRL", "nCCDS", "nCCDL", "nCCDR", "nRRDS"} : Size(t[n]) <= s3
  BY <1>1, SixNat DEF TimingNames
<1>5. s4 \in Nat /\ \A n \in {"nRRDL", "nPPD", "nRFC", "nRFCpb", "nRREFD", "nRFMab"} : Size(t[n]) <= s4
  BY <1>1, SixNat DEF TimingNames
<1>6. s5 \in Nat /\ \A n \in {"nRFMpb", "nCAS", "nREFDB2ACT", "nMRW", "nMRR", "nWCKSYNC"} : Size(t[n]) <= s5
  BY <1>1, SixNat DEF TimingNames
<1>7. s6 \in Nat /\ \A n \in {"nWCKTRAIN", "nDVFS", "nECCSCRUB", "nRASERR", "nLINKRETRY"} : Size(t[n]) <= s6
  BY <1>1, FiveNat DEF TimingNames
<1> HIDE DEF s1, s2, s3, s4, s5, s6
<1>8. LET m == s1 + s2 + s3 + s4 + s5 + s6
      IN m \in Nat /\ s1 <= m /\ s2 <= m /\ s3 <= m /\ s4 <= m /\ s5 <= m /\ s6 <= m
  BY <1>2, <1>3, <1>4, <1>5, <1>6, <1>7, SixNat
<1> DEFINE m == s1 + s2 + s3 + s4 + s5 + s6
<1>9. m \in Nat /\ s1 <= m /\ s2 <= m /\ s3 <= m /\ s4 <= m /\ s5 <= m /\ s6 <= m
  BY <1>8
<1> HIDE DEF m
<1>10. \A x, y \in Nat, z \in Int : z <= x /\ x <= y /\ y <= m => z <= m
  BY <1>9
<1>11. \A n \in RuleTimings : \E y \in Nat : Size(t[n]) <= y /\ y <= m
  BY <1>2, <1>3, <1>4, <1>5, <1>6, <1>7, <1>9 DEF RuleTimings
<1>12. \A n \in RuleTimings : n \in TimingNames
  BY DEF RuleTimings, TimingNames
<1>13. \A n \in RuleTimings : t[n] <= m /\ -t[n] <= m
  <2> SUFFICES ASSUME NEW n \in RuleTimings PROVE t[n] <= m /\ -t[n] <= m
    OBVIOUS
  <2>1. PICK y \in Nat : Size(t[n]) <= y /\ y <= m
    BY <1>11
  <2>2. t[n] \in Int /\ Size(t[n]) \in Nat /\ t[n] <= Size(t[n]) /\ -t[n] <= Size(t[n])
    BY <1>0, <1>1, <1>12
  <2> QED BY <2>1, <2>2, <1>9
<1> QED BY <1>9, <1>13

LEMMA RuleLatency ==
  ASSUME NEW d \in DOMAIN Devices
  PROVE  \E top \in Nat : \A r \in Rules[d] : r.latency \in Int /\ r.latency <= top
<1> DEFINE t == Devices[d].t
<1>1. t \in [TimingNames -> Int]
  BY DeviceAssumption
<1> HIDE DEF t
<1>2. PICK m \in Nat : \A n \in RuleTimings : t[n] <= m /\ -t[n] <= m
  BY <1>1, Bounded
<1> DEFINE top == m + m + m + m + 2
           Ok(n) == n \in Int /\ n <= top
<1>3. \A n \in RuleTimings : t[n] \in Int /\ t[n] <= m /\ -t[n] <= m
  BY <1>1, <1>2 DEF RuleTimings, TimingNames
<1>4. /\ \A x \in Int : x <= m => Ok(x)
      /\ \A x, y, z \in Int : x <= m /\ y <= m /\ z <= m => Ok(x + y + z)
      /\ \A x, y, z \in Int : x <= m /\ y <= m /\ -z <= m => Ok(x + y + 2 - z)
  OBVIOUS
<1>5. \A n \in RuleTimings : Ok(t[n])
  BY <1>3, <1>4
<1>6. \A n, x, y \in RuleTimings : Ok(t[n] + t[x] + t[y]) /\ Ok(t[n] + t[x] + 2 - t[y])
  BY <1>3, <1>4
<1> HIDE DEF Ok
<1> USE DEF RuleTimings
<1>7. /\ Ok(t.nBL) /\ Ok(t.nRTW) /\ Ok(t.nRRDS) /\ Ok(t.nCCDS) /\ Ok(t.nCCDR)
      /\ Ok(t.nCCDL) /\ Ok(t.nRRDL) /\ Ok(t.nPPD) /\ Ok(t.nRC) /\ Ok(t.nRCDRD)
      /\ Ok(t.nRCDWR) /\ Ok(t.nRAS) /\ Ok(t.nRP) /\ Ok(t.nRTP) /\ Ok(t.nRFCpb)
      /\ Ok(t.nRREFD) /\ Ok(t.nRFC) /\ Ok(t.nRFMpb) /\ Ok(t.nRFMab) /\ Ok(t.nMRW)
      /\ Ok(t.nMRR) /\ Ok(t.nECCSCRUB) /\ Ok(t.nRASERR) /\ Ok(t.nLINKRETRY) /\ Ok(t.nCAS)
      /\ Ok(t.nRPab) /\ Ok(t.nREFDB2ACT) /\ Ok(t.nWCKSYNC) /\ Ok(t.nWCKTRAIN)
      /\ Ok(t.nDVFS)
  BY <1>5
<1>8. /\ Ok(t.nCWL + t.nBL + t.nWTRS) /\ Ok(t.nCWL + t.nBL + t.nWTRL)
      /\ Ok(t.nCWL + t.nBL + t.nWR) /\ Ok(t.nCL + t.nBL + 2 - t.nCWL)
  <2>1. {"nCWL", "nBL", "nCL", "nWR", "nWTRS", "nWTRL"} \subseteq RuleTimings
    OBVIOUS
  <2> HIDE DEF RuleTimings
  <2> QED BY <2>1, <1>6, Zenon
<1>9. Ok(Larger(t.nECCSCRUB, t.nRASERR))
  BY <1>7 DEF Larger
<1> DEFINE h == HbmRules(t)
           l == LpddrRules(t)
<1>10. \A x \in h : Ok(x.latency)
  BY <1>7, <1>8, <1>9, SMTT(60) DEF HbmRules, Rule, SiblingRule, WriteRecovery
<1>11. \A x \in l : Ok(x.latency)
  BY <1>7, <1>8, <1>9, SMTT(60) DEF LpddrRules, Rule, SiblingRule, WriteRecovery
<1>12. Rules[d] \in {h, l}
  BY DEF Rules, t
<1>13. top \in Nat /\ \A n : Ok(n) => n \in Int /\ n <= top
  BY DEF Ok
<1> QED BY <1>10, <1>11, <1>12, <1>13


\* A bounded set of numbers has a greatest one.
LEMMA MaxExists ==
  ASSUME NEW S, S \subseteq Nat, S # {}, NEW top \in Nat, \A x \in S : x <= top
  PROVE  Max(S) \in S /\ \A x \in S : Max(S) >= x
<1> DEFINE Gaps == {top - x : x \in S}
<1>1. Gaps \subseteq Nat /\ Gaps # {}
  <2>1. \A x \in S : top - x \in Nat
    OBVIOUS
  <2>2. PICK x \in S : TRUE
    OBVIOUS
  <2>3. top - x \in Gaps
    BY <2>2
  <2> QED BY <2>1, <2>3
<1>2. PICK g \in Gaps : \A h \in Gaps : ~(<<h, g>> \in OpToRel(<, Nat))
  <2> HIDE DEF Gaps
  <2> QED BY <1>1, WFMin, NatLessThanWellFounded
<1>3. PICK m \in S : g = top - m
  BY <1>2
<1>4. \A x \in S : m >= x
  <2> SUFFICES ASSUME NEW x \in S, ~(m >= x)
               PROVE  FALSE
    OBVIOUS
  <2>1. top - x \in Gaps /\ top - x \in Nat /\ g \in Nat /\ top - x < g
    BY <1>1, <1>3
  <2> QED BY <2>1, <1>2 DEF OpToRel
<1> QED BY <1>4 DEF Max

\* What a command holds back is a number of ticks.
LEMMA HeldNat ==
  ASSUME dev \in DOMAIN Devices, NEW cmd, NEW b, NEW k
  PROVE  Left(HeldBack(dev, cmd, b), k) \in Nat
<1> DEFINE on == {r \in {x \in Rules[dev] : cmd \in x.pre} :
                    k[1] \in r.post /\ k[2] \in Reached(dev, r, cmd, b)}
           held == {Delay(dev, r.latency) : r \in on}
<1>1. k \in DOMAIN HeldBack(dev, cmd, b) => HeldBack(dev, cmd, b)[k] = Max(held)
  BY DEF HeldBack
<1>2. k \in DOMAIN HeldBack(dev, cmd, b) => on # {}
  <2> SUFFICES ASSUME k \in DOMAIN HeldBack(dev, cmd, b)
               PROVE  on # {}
    OBVIOUS
  <2>1. PICK r \in Rules[dev] : cmd \in r.pre /\ k \in r.post \X Reached(dev, r, cmd, b)
    BY DEF HeldBack
  <2>2. k[1] \in r.post /\ k[2] \in Reached(dev, r, cmd, b)
    BY <2>1
  <2> QED BY <2>1, <2>2
<1>3. PICK top \in Nat : \A r \in Rules[dev] : r.latency \in Int /\ r.latency <= top
  BY RuleLatency
<1> DEFINE m == Dram.mult
<1>4. m \in Nat \ {0} /\ \A n : Delay(dev, n) = (IF n <= 0 THEN 0 ELSE n) * m
  BY DeviceFacts DEF Delay, Dram
<1> HIDE DEF m
<1>5. \A n \in Int : n <= top => Delay(dev, n) \in Nat /\ Delay(dev, n) <= top * m
  <2> SUFFICES ASSUME NEW n \in Int, n <= top
               PROVE  Delay(dev, n) \in Nat /\ Delay(dev, n) <= top * m
    OBVIOUS
  <2>1. PICK x \in Nat : x <= top /\ Delay(dev, n) = x * m
    <3>1. (IF n <= 0 THEN 0 ELSE n) \in Nat /\ (IF n <= 0 THEN 0 ELSE n) <= top
      OBVIOUS
    <3> QED BY <3>1, <1>4
  <2>2. x * m \in Nat /\ x * m <= top * m
    BY <2>1, <1>4
  <2> QED BY <2>1, <2>2
<1>6. held \subseteq Nat /\ \A x \in held : x <= top * m
  BY <1>3, <1>5
<1>7. top * m \in Nat
  BY <1>4
<1> HIDE DEF on, held
<1>8. held # {} => Max(held) \in Nat
  BY <1>6, <1>7, MaxExists
<1>9. on # {} => held # {}
  BY DEF held
<1> QED BY <1>1, <1>2, <1>8, <1>9 DEF Left


\* The gates that a command moves, and what it makes of the WCK window.
LEMMA MovedAt ==
  ASSUME dev \in DOMAIN Devices, NEW cmd, NEW b, NEW k \in DOMAIN MovedGates(cmd, b)
  PROVE  /\ MovedGates(cmd, b)[k] \in Nat
         /\ k[1] = "wck_until" =>
              /\ k = WckGate("wck_until", b) /\ cmd \in DataCommands \cup {"WCKSYNC"}
              /\ cmd \in DataCommands =>
                   /\ Dram.lpddr
                   /\ MovedGates(cmd, b)[k] =
                        D((IF cmd \in Reads THEN T.nCL ELSE T.nCWL) + T.nBL + T.nWCKPST)
<1> DEFINE burst == IF cmd \in Reads THEN T.nCL ELSE T.nCWL
           window == D(burst + T.nBL + T.nWCKPST)
           P(S) ==
             k \in DOMAIN S =>
               /\ S[k] \in Nat
               /\ k[1] = "wck_until" =>
                    /\ k = WckGate("wck_until", b) /\ cmd \in DataCommands \cup {"WCKSYNC"}
                    /\ cmd \in DataCommands => Dram.lpddr /\ S[k] = window
<1>1. \A n \in TimingNames : T[n] \in Int
  BY TimingInt
<1>2. {T.nRTP, T.nCWL, T.nBL, T.nWR, T.nCL, T.nRP, T.nWCKPST, T.nRFCpb, T.nRPab, T.nRFC,
       T.nRFMab, T.nWCKSYNC, T.nLINKRETRY} \subseteq Int
  BY <1>1 DEF TimingNames
<1>3. \A n \in Int : D(n) \in Nat
  BY DelayNat
<1>4. \A f, g : P(f) /\ P(g) => P(f ++ g)
  BY OverAt
<1>5. P(NoGates)
  BY NoGatesAt
<1>6. \A n \in Nat : \A x :
        /\ P(Shut(BankGate("next_pre", x), n))
        /\ P(Shut(BankGate("next_act", x), n))
        /\ P(Shut(ColumnGate("next_col", x), n))
  BY ShutAt DEF BankGate, ColumnGate
<1>7. cmd \in DataCommands /\ Dram.lpddr => P(Shut(WckGate("wck_until", b), window))
  <2>1. window \in Nat
    <3>1. burst + T.nBL + T.nWCKPST \in Int
      BY <1>2
    <3> QED BY <3>1, <1>3
  <2> HIDE DEF window
  <2> QED BY <2>1, ShutAt DEF WckGate
<1>8. \A n \in Nat : cmd = "WCKSYNC" => P(Shut(WckGate("wck_until", b), n))
  BY ShutAt DEF WckGate, DataCommands, Reads, Writes
<1>9. \A n \in Nat : P([x \in {BankGate("next_act", y) : y \in RankBanks(dev, b)} |-> n])
  BY DEF BankGate
<1> HIDE DEF P
<1> DEFINE S == MovedGates(cmd, b)
<1>10. P(S)
  <2> USE DEF DataCommands, Reads, Writes
  <2>1. CASE cmd \in DataCommands
    <3> DEFINE recovery == IF cmd \in Reads THEN T.nRTP ELSE WriteRecovery(T)
               f == Shut(BankGate("next_pre", b), D(recovery))
               g == IF cmd \in Closing
                    THEN Shut(BankGate("next_act", b), D(recovery) + D(T.nRP)) ELSE NoGates
               h == IF Dram.lpddr THEN Shut(WckGate("wck_until", b), window) ELSE NoGates
    <3>1. S = f ++ g ++ h
      BY <2>1 DEF MovedGates
    <3>2. recovery \in Int
      BY <1>2 DEF WriteRecovery
    <3>3. D(recovery) \in Nat /\ D(recovery) + D(T.nRP) \in Nat
      BY <3>2, <1>2, <1>3
    <3>4. P(f) /\ P(g) /\ P(h)
      BY <3>3, <2>1, <1>5, <1>6, <1>7
    <3> HIDE DEF f, g, h, S
    <3> QED BY <3>1, <3>4, <1>4
  <2>2. CASE cmd = "REFDB"
    <3>1. S = Shut(BankGate("next_act", Partner(dev, b)), D(T.nRFCpb))
      BY <2>2 DEF MovedGates
    <3> QED BY <3>1, <1>2, <1>3, <1>6
  <2>3. CASE cmd \in {"PREAB", "REFAB", "RFMAB"}
    <3>1. \E n \in Nat : S = [x \in {BankGate("next_act", y) : y \in RankBanks(dev, b)} |-> n]
      <4>1. /\ D(IF T.nRPab > 0 THEN T.nRPab ELSE T.nRP) \in Nat /\ D(T.nRFC) \in Nat
            /\ D(IF T.nRFMab > 0 THEN T.nRFMab ELSE T.nRFC) \in Nat
        BY <1>2, <1>3
      <4> QED BY <4>1, <2>3 DEF MovedGates
    <3> QED BY <3>1, <1>9
  <2>4. CASE cmd = "WCKSYNC"
    <3>1. S = Shut(WckGate("wck_until", b), D(Larger(T.nWCKPST, T.nWCKSYNC + 1)))
      BY <2>4 DEF MovedGates
    <3>2. Larger(T.nWCKPST, T.nWCKSYNC + 1) \in Int
      BY <1>2 DEF Larger
    <3> QED BY <3>1, <3>2, <2>4, <1>3, <1>8
  <2>5. CASE cmd = "RASERR"
    <3>1. S = Shut(ColumnGate("next_col", b), D(Larger(1, T.nLINKRETRY)))
      BY <2>5 DEF MovedGates
    <3>2. Larger(1, T.nLINKRETRY) \in Int
      BY <1>2 DEF Larger
    <3> QED BY <3>1, <3>2, <1>3, <1>6
  <2>6. CASE cmd \notin DataCommands \cup
               {"REFDB", "PREAB", "REFAB", "RFMAB", "WCKSYNC", "RASERR"}
    <3>1. S = NoGates
      BY <2>6 DEF MovedGates
    <3> QED BY <3>1, <1>5
  <2> QED BY <2>1, <2>2, <2>3, <2>4, <2>5, <2>6
<1> QED BY <1>10 DEF P

\* The gate of a refresh sweep.
LEMMA SweepAt ==
  ASSUME dev \in DOMAIN Devices, NEW cmd, NEW b, NEW k \in DOMAIN SweepGates(cmd, b)
  PROVE  SweepGates(cmd, b)[k] \in Nat
<1> DEFINE short == IF T.nREFDB2REFDBS > 0 THEN T.nREFDB2REFDBS ELSE T.nRRDL
           long == IF T.nREFDB2REFDBL > 0 THEN T.nREFDB2REFDBL ELSE short
<1>1. \A n \in TimingNames : T[n] \in Int
  BY TimingInt
<1>2. T.nRFC \in Int /\ short \in Int /\ long \in Int
  BY <1>1 DEF TimingNames
<1>3. D(T.nRFC) \in Nat /\ D(short) \in Nat /\ D(long) \in Nat
  BY <1>2, DelayNat
<1>4. \E n \in {D(T.nRFC), D(short), D(long)} : SweepGates(cmd, b) = Shut(SweepGate(b), n)
  <2>1. Dram.dualBankRefresh /\ cmd \in {"REFDB", "REFAB"}
    BY SweepNames
  <2> QED BY <2>1 DEF SweepGates
<1> HIDE DEF short, long
<1> QED BY <1>3, <1>4, ShutAt

-----------------------------------------------------------------------------
(* Every gate after a command *)

GateNat == \A k : Left(gate, k) \in Nat

\* What a command sets is raised to what it moves and what the rules hold back.
LEMMA GateAfter ==
  ASSUME Shape, GateNat, NEW c, Issues(c), NEW k
  PROVE  LET b == c.r.bank
             cmd == c.cmd
             base == IF k \in DOMAIN SweepGates(cmd, b) THEN SweepGates(cmd, b)[k]
                     ELSE IF k \in DOMAIN SetGates(cmd, b) THEN SetGates(cmd, b)[k]
                     ELSE Left(gate, k)
         IN /\ base \in Nat /\ Left(gate', k) \in Nat
            /\ Left(gate', k) = Larger(Larger(base, Left(MovedGates(cmd, b), k)),
                                       Left(HeldBack(dev, cmd, b), k))
<1> DEFINE b == c.r.bank
           cmd == c.cmd
           sweeps == SweepGates(cmd, b)
           set == SetGates(cmd, b)
           f == sweeps ++ set ++ gate
           g == MovedGates(cmd, b)
           h == HeldBack(dev, cmd, b)
           base == IF k \in DOMAIN sweeps THEN sweeps[k]
                   ELSE IF k \in DOMAIN set THEN set[k] ELSE Left(gate, k)
<1>1. gate' = Latest({f, g, h})
  BY DEF Issues, IssueCommand, GatesAfter
<1>2. dev \in DOMAIN Devices /\ cmd \in Commands /\ b \in Banks
  BY IssueCommandOf DEF Shape
<1>3. k \in DOMAIN sweeps => sweeps[k] \in Nat
  BY <1>2, SweepAt
<1>4. k \in DOMAIN set => set[k] \in Nat
  BY <1>2, SetAt
<1>5. Left(gate, k) \in Nat
  BY DEF GateNat
<1>6. Left(g, k) \in Nat
  BY <1>2, MovedAt DEF Left
<1>7. Left(h, k) \in Nat
  BY <1>2, HeldNat
<1> HIDE DEF sweeps, set, g, h
<1>8. Left(f, k) = base
  BY OverAt DEF sweeps, set
<1>9. base \in Nat
  BY <1>3, <1>4, <1>5
<1> HIDE DEF f, base
<1>10. LET n == Left(gate', k)
       IN n \in Nat /\ n \in {Left(f, k), Left(g, k), Left(h, k)}
          /\ n >= Left(f, k) /\ n >= Left(g, k) /\ n >= Left(h, k)
  BY <1>1, <1>6, <1>7, <1>8, <1>9, LatestAt
<1>11. Left(gate', k) = Larger(Larger(base, Left(g, k)), Left(h, k))
  <2> DEFINE x == base
             y == Left(g, k)
             z == Left(h, k)
             n == Left(gate', k)
  <2>1. x \in Nat /\ y \in Nat /\ z \in Nat /\ n \in Nat /\ n \in {x, y, z}
        /\ n >= x /\ n >= y /\ n >= z
    BY <1>6, <1>7, <1>8, <1>9, <1>10
  <2> HIDE DEF x, y, z, n
  <2>2. n = Larger(Larger(x, y), z)
    BY <2>1 DEF Larger
  <2> QED BY <2>2 DEF x, y, z, n
<1> QED BY <1>9, <1>10, <1>11 DEF base, sweeps, set, g, h

LEMMA GateNatStep ==
  ASSUME Shape, GateNat, NEW c, Issues(c)
  PROVE  GateNat'
BY GateAfter DEF GateNat

\* The rules alone hold back commands, and no other gate is theirs.
LEMMA CommandGateAfter ==
  ASSUME Shape, GateNat, NEW c, Issues(c), NEW k, k[1] \in Commands
  PROVE  Left(gate', k) = Larger(Left(gate, k), Left(HeldBack(dev, c.cmd, c.r.bank), k))
<1> DEFINE b == c.r.bank
           cmd == c.cmd
<1>1. dev \in DOMAIN Devices /\ cmd \in Commands
  BY IssueCommandOf DEF Shape
<1>2. k[1] \notin GateNames
  BY GatesAreNotCommands
<1>3. k \notin DOMAIN SweepGates(cmd, b)
  BY <1>2, SweepNames DEF SweepGate, GateNames
<1>4. k \notin DOMAIN SetGates(cmd, b)
  BY <1>1, <1>2, SetAt
<1>5. Left(MovedGates(cmd, b), k) = 0
  BY <1>2, MovedNames DEF GateNames, Left
<1>6. Left(gate, k) \in Nat
  BY DEF GateNat
<1>7. Left(gate', k) = Larger(Larger(Left(gate, k), Left(MovedGates(cmd, b), k)),
                              Left(HeldBack(dev, cmd, b), k))
  BY <1>3, <1>4, GateAfter
<1>8. Larger(Left(gate, k), 0) = Left(gate, k)
  BY <1>6 DEF Larger
<1> QED BY <1>5, <1>7, <1>8

LEMMA OtherGateAfter ==
  ASSUME Shape, GateNat, NEW c, Issues(c), NEW k, k[1] \in GateNames
  PROVE  LET b == c.r.bank
             cmd == c.cmd
             base == IF k \in DOMAIN SweepGates(cmd, b) THEN SweepGates(cmd, b)[k]
                     ELSE IF k \in DOMAIN SetGates(cmd, b) THEN SetGates(cmd, b)[k]
                     ELSE Left(gate, k)
         IN Left(gate', k) = Larger(base, Left(MovedGates(cmd, b), k)) /\ base \in Nat
<1> DEFINE b == c.r.bank
           cmd == c.cmd
           base == IF k \in DOMAIN SweepGates(cmd, b) THEN SweepGates(cmd, b)[k]
                   ELSE IF k \in DOMAIN SetGates(cmd, b) THEN SetGates(cmd, b)[k]
                   ELSE Left(gate, k)
<1>1. dev \in DOMAIN Devices /\ cmd \in Commands
  BY IssueCommandOf DEF Shape
<1>2. Left(HeldBack(dev, cmd, b), k) = 0
  <2>1. k \notin DOMAIN HeldBack(dev, cmd, b)
    BY <1>1, HeldNames, GatesAreNotCommands
  <2> QED BY <2>1 DEF Left
<1>3. base \in Nat /\ Left(gate', k) = Larger(Larger(base, Left(MovedGates(cmd, b), k)),
                              Left(HeldBack(dev, cmd, b), k))
  BY GateAfter
<1>4. Left(MovedGates(cmd, b), k) \in Nat
  BY <1>1, MovedAt DEF Left
<1> HIDE DEF base
<1>5. \A x, y \in Nat : Larger(Larger(x, y), 0) = Larger(x, y)
  BY DEF Larger
<1> QED BY <1>2, <1>3, <1>4, <1>5 DEF base
-----------------------------------------------------------------------------
(* The judge keeps what the controller keeps *)

RankScopes == {At(dev, "Rank", b) : b \in Banks}
WckScopes == {At(dev, Dram.wckScope, b) : b \in Banks}

JudgeType ==
  /\ vbank \in [Banks -> [row : Nat, activating : BOOLEAN, target : Nat, request : Nat,
                          ready : Nat, deadline : Int]]
  /\ vwck \in [WckScopes -> [ready : Nat, until : Nat]]
  /\ vsweep \in [RankScopes -> [count : Nat, visited : SUBSET Banks, left : Nat]]
  /\ sweep \in [RankScopes -> [count : Nat, visited : SUBSET Banks]]

SameBank(b) ==
  vbank[b].row = bank[b].row /\ vbank[b].activating = bank[b].activating

\* A half open bank waits for the same ACT2 in both.
SameActivation(b) ==
  /\ vbank[b].ready = Left(gate, Act2Gate(b)) /\ vbank[b].deadline = bank[b].deadline
  /\ \A i \in DOMAIN Active : Active[i].bank = b =>
       vbank[b].request = Active[i].id /\ vbank[b].target = Active[i].row

SameRules == \A k : k[1] \in Commands => Left(vgate, k) = Left(gate, k)

SameSweep(b) ==
  LET s == sweep[At(dev, "Rank", b)]
      v == vsweep[At(dev, "Rank", b)]
  IN /\ v.count = s.count /\ v.visited = s.visited /\ v.left = Left(gate, SweepGate(b))
     /\ s.count < PairCount(dev)

Windows == Dram.lpddr /\ ~Dram.alwaysOn
SameWindow(b) ==
  LET v == vwck[At(dev, Dram.wckScope, b)]
  IN /\ v.ready = Left(gate, WckGate("wck_ready", b))
     /\ v.until = Left(gate, WckGate("wck_until", b))

SameModes ==
  /\ vacts = acts /\ vretrain = retrain /\ (retrain => Dram.lpddr)
  /\ Dram.edgePairing => vpair = edge /\ odd = rising
  /\ odd \in BOOLEAN /\ rising \in BOOLEAN

Agreement ==
  /\ GateNat /\ JudgeType
  /\ \A b \in Banks : SameBank(b) /\ (bank[b].activating => SameActivation(b))
  /\ SameRules /\ SameModes
  /\ Dram.dualBankRefresh => \A b \in Banks : SameSweep(b)
  /\ Windows => \A b \in Banks : SameWindow(b)
  /\ errors = {}


\* The judge reads the device with the same operators.
LEMMA SameClasses ==
  /\ V!Reads = Reads /\ V!Writes = Writes /\ V!DataCommands = DataCommands
  /\ V!ColumnCommands = ColumnCommands /\ V!RowCommands = RowCommands
  /\ V!AllBankMaintenance = AllBankMaintenance /\ V!AllBank = AllBank
  /\ V!Activating = Activating
BY DEF V!Reads, V!Writes, V!DataCommands, V!ColumnCommands, V!RowCommands, V!Opening,
       V!PerBankMaintenance, V!AllBankMaintenance, V!AllBank, V!Controls, V!Activating,
       Reads, Writes, DataCommands, ColumnCommands, RowCommands, Opening,
       PerBankMaintenance, AllBankMaintenance, AllBank, Controls, Activating

LEMMA SamePlaces ==
  /\ V!VDram = Dram /\ V!VT = T /\ V!VBanks = Banks
  /\ \A d, s, b : V!At(d, s, b) = At(d, s, b)
  /\ \A d, b : V!RankBanks(d, b) = RankBanks(d, b) /\ V!Partner(d, b) = Partner(d, b)
  /\ \A n, m : V!Larger(n, m) = Larger(n, m)
  /\ \A d, n : V!Delay(d, n) = Delay(d, n)
  /\ \A n : V!VDelay(n) = D(n)
  /\ \A f, k : V!Left(f, k) = Left(f, k)
  /\ \A f : V!OneTickLess(f) = OneTickLess(f)
  /\ \A d, s : V!Aged(d, s) = Aged(d, s)
  /\ \A s : V!FawFull(s) = FawFull(s)
<1>1. /\ V!VDram = Dram /\ V!VT = T /\ V!VBanks = Banks
  BY Zenon DEF V!VDram, V!VT, V!VBanks, V!BanksOf, Dram, T, Banks, BanksOf
<1>2. \A d, s, b : V!At(d, s, b) = At(d, s, b)
  BY Zenon DEF V!At, At
<1>3. \A d, b : V!RankBanks(d, b) = RankBanks(d, b) /\ V!Partner(d, b) = Partner(d, b)
  BY Zenon DEF V!RankBanks, RankBanks, V!BanksOf, BanksOf, V!At, At, V!Partner, Partner
<1>4. \A n, m : V!Larger(n, m) = Larger(n, m)
  BY Zenon DEF V!Larger, Larger
<1>5. \A d, n : V!Delay(d, n) = Delay(d, n)
  BY Zenon DEF V!Delay, Delay
<1>6. \A n : V!VDelay(n) = D(n)
  BY <1>5, Zenon DEF V!VDelay, D
<1>7. \A f, k : V!Left(f, k) = Left(f, k)
  BY Zenon DEF V!Left, Left
<1>8. \A f : V!OneTickLess(f) = OneTickLess(f)
  BY Zenon DEF V!OneTickLess, OneTickLess
<1>9. \A d, s : V!Aged(d, s) = Aged(d, s)
  BY Zenon DEF V!Aged, Aged, V!FawWindow, FawWindow, V!Delay, Delay, V!Larger, Larger
<1>10. \A s : V!FawFull(s) = FawFull(s)
  BY Zenon DEF V!FawFull, FawFull, V!Cardinality, Cardinality
<1> QED BY <1>1, <1>2, <1>3, <1>4, <1>5, <1>6, <1>7, <1>8, <1>9, <1>10, Zenon

LEMMA SameTable ==
  /\ \A d, cmd, b : V!HeldBack(d, cmd, b) = HeldBack(d, cmd, b)
  /\ \A d, f, cmd, b : V!ConstraintLeft(d, f, cmd, b) = ConstraintLeft(d, f, cmd, b)
  /\ \A s : V!Latest(s) = Latest(s)
<1>1. \A t : V!HbmRules(t) = HbmRules(t)
  BY Zenon DEF V!HbmRules, HbmRules, V!Rule, Rule, V!SiblingRule, SiblingRule,
     V!WriteRecovery, WriteRecovery, V!Larger, Larger, V!Reads, V!Writes, Reads, Writes
<1>2. \A t : V!LpddrRules(t) = LpddrRules(t)
  BY Zenon DEF V!LpddrRules, LpddrRules, V!Rule, Rule, V!SiblingRule, SiblingRule,
     V!WriteRecovery, WriteRecovery, V!Larger, Larger, V!Reads, V!Writes, Reads, Writes
<1>3. V!Rules = Rules
  BY <1>1, <1>2 DEF V!Rules, Rules
<1>4. \A d, r, cmd, b : V!Reached(d, r, cmd, b) = Reached(d, r, cmd, b)
  BY ZenonT(60) DEF V!Reached, Reached, V!Siblings, Siblings, V!At, At, V!BanksOf, BanksOf,
     V!Partner, Partner, V!Parent, Parent
<1>5. \A S : V!Max(S) = Max(S)
  BY Zenon DEF V!Max, Max
<1>6. ASSUME NEW d, NEW cmd, NEW b
      PROVE  V!HeldBack(d, cmd, b) = HeldBack(d, cmd, b)
  <2> DEFINE rules == {r \in Rules[d] : cmd \in r.pre}
             keys == UNION {r.post \X Reached(d, r, cmd, b) : r \in rules}
             on(k) == {r \in rules : k[1] \in r.post /\ k[2] \in Reached(d, r, cmd, b)}
             vkeys == UNION {r.post \X V!Reached(d, r, cmd, b) : r \in rules}
             von(k) == {r \in rules : k[1] \in r.post /\ k[2] \in V!Reached(d, r, cmd, b)}
             held(k) == {Delay(d, r.latency) : r \in on(k)}
             vheld(k) == {V!Delay(d, r.latency) : r \in von(k)}
  <2>1. V!HeldBack(d, cmd, b) = [k \in vkeys |-> V!Max(vheld(k))]
    BY <1>3, Zenon DEF V!HeldBack
  <2>2. HeldBack(d, cmd, b) = [k \in keys |-> Max(held(k))]
    BY Zenon DEF HeldBack
  <2>3. vkeys = keys
    BY <1>4
  <2>4. \A k : vheld(k) = held(k)
    BY <1>4, SamePlaces
  <2> HIDE DEF keys, vkeys, held, vheld
  <2>5. \A k : V!Max(vheld(k)) = Max(held(k))
    BY <2>4, <1>5
  <2> QED BY <2>1, <2>2, <2>3, <2>5
<1>8. ASSUME NEW d, NEW f, NEW cmd, NEW b
      PROVE  V!ConstraintLeft(d, f, cmd, b) = ConstraintLeft(d, f, cmd, b)
  <2> DEFINE own == {Left(f, <<cmd, At(d, s, b)>>) : s \in Scopes}
             partner == IF cmd = "REFDB" /\ Devices[d].dualBankRefresh
                        THEN {Left(f, <<cmd, At(d, "Bank", Partner(d, b))>>)} ELSE {}
             vown == {V!Left(f, <<cmd, V!At(d, s, b)>>) : s \in Scopes}
             vpartner == IF cmd = "REFDB" /\ Devices[d].dualBankRefresh
                         THEN {V!Left(f, <<cmd, V!At(d, "Bank", V!Partner(d, b))>>)} ELSE {}
  <2>1. V!Scopes = Scopes
    BY DEF V!Scopes, Scopes
  <2>2. V!ConstraintLeft(d, f, cmd, b) = V!Max(vown \cup vpartner)
    BY <2>1, Zenon DEF V!ConstraintLeft
  <2>3. ConstraintLeft(d, f, cmd, b) = Max(own \cup partner)
    BY Zenon DEF ConstraintLeft
  <2>4. vown = own
    BY SamePlaces
  <2>5. vpartner = partner
    BY SamePlaces
  <2> QED BY <2>2, <2>3, <2>4, <2>5, <1>5
<1>7. \A s : V!Latest(s) = Latest(s)
  BY Zenon DEF V!Latest, Latest, V!Left, Left, V!Max, Max
<1> QED BY <1>6, <1>7, <1>8

-----------------------------------------------------------------------------
(* The judge has nothing to object to *)

LEMMA IssuedIs ==
  ASSUME NEW c, Issues(c)
  PROVE  /\ issued'.cmd = c.cmd /\ issued'.bank = c.r.bank /\ issued'.row = c.r.row
         /\ issued'.id = c.r.id /\ issued'.bus = phase
BY DEF Issues, IssueCommand

\* What timing_ok() found open.
LEMMA IssueTimed ==
  ASSUME NEW c, Issues(c)
  PROVE  LET b == c.r.bank IN
         /\ ConstraintLeft(dev, gate, c.cmd, b) = 0
         /\ Dram.dualBankRefresh /\ c.cmd = "REFDB" =>
              /\ Open(SweepGate(b))
              /\ {b, Partner(dev, b)} \cap sweep[At(dev, "Rank", b)].visited = {}
         /\ c.cmd \in Activating => FawReady(b)
         /\ c.cmd = "ACT1" => ~RankActivating(b)
         /\ c.cmd = "ACT2" => Open(Act2Gate(b))
         /\ c.cmd = "REFDB" => PairIdle(b)
         /\ c.cmd \in DataCommands => WckReady(b)
<1>1. ConstraintReady(c.cmd, c.r.bank) /\ GatesOpen(c.r, c.cmd)
  BY IssueLegal DEF TimingOk
<1>2. /\ c.cmd \in Activating => FawReady(c.r.bank)
      /\ c.cmd = "ACT1" => ~RankActivating(c.r.bank)
      /\ c.cmd = "ACT2" => Open(Act2Gate(c.r.bank))
      /\ c.cmd = "REFDB" => PairIdle(c.r.bank)
  BY <1>1 DEF GatesOpen, Activating, Opening, ActivateGatesOpen, AllOpen, Act2Gate, Reads, Writes
<1>3. c.cmd \in DataCommands => WckReady(c.r.bank)
  BY <1>1 DEF GatesOpen, DataCommands, Reads, Writes, DataGatesOpen
<1> QED BY <1>1, <1>2, <1>3 DEF ConstraintReady

\* No request asks for a WCKSYNC, and a REFDB comes only to a device that has it.
LEMMA NoSync ==
  ASSUME Shape, NEW c, Issues(c)
  PROVE  c.cmd # "WCKSYNC" /\ (c.cmd = "REFDB" => Dram.dualBankRefresh)
<1>1. Fits(c.r, c.kind)
  BY QueueMoves
<1>2. CASE c.kind = "Priority"
  BY <1>1, <1>2, IssueCommandOf DEF Fits, Upkeep, RfmCommands, Controls
<1>3. CASE c.kind # "Priority"
  BY <1>3, IssueCommandOf DEF DataCommands, Reads, Writes
<1> QED BY <1>2, <1>3

LEMMA SweepAgrees ==
  ASSUME Shape, Agreement, NEW c, Issues(c)
  PROVE  V!SweepErrors(issued') = {}
<1> DEFINE b == c.r.bank
<1>1. b \in Banks
  BY IssueCommandOf
<1>2. SUFFICES ASSUME Dram.dualBankRefresh, c.cmd = "REFDB"
               PROVE  V!SweepErrors(issued') = {}
  BY IssuedIs, SamePlaces DEF V!SweepErrors
<1>3. SameSweep(b)
  BY <1>1, <1>2 DEF Agreement
<1>4. Left(gate, SweepGate(b)) = 0
      /\ {b, Partner(dev, b)} \cap sweep[At(dev, "Rank", b)].visited = {}
  BY <1>2, IssueTimed DEF Open
<1> DEFINE s == vsweep[At(dev, "Rank", b)]
<1>5. s.left = 0 /\ {b, Partner(dev, b)} \cap s.visited = {}
  BY <1>3, <1>4 DEF SameSweep
<1>6. V!SweepErrors(issued') = (IF s.left > 0 THEN {"refdb interval"} ELSE {}) \cup
       (IF {b, Partner(dev, b)} \cap s.visited # {}
        THEN {"refdb repeats a bank"} ELSE {})
  BY <1>2, IssuedIs, SamePlaces DEF V!SweepErrors
<1> HIDE DEF s
<1>7. (IF s.left > 0 THEN {"refdb interval"} ELSE {}) = {}
  BY <1>5
<1>8. (IF {b, Partner(dev, b)} \cap s.visited # {}
       THEN {"refdb repeats a bank"} ELSE {}) = {}
  BY <1>5
<1> QED BY <1>6, <1>7, <1>8

LEMMA BusAgrees ==
  ASSUME Shape, Covered(dev), Agreement, NEW c, Issues(c)
  PROVE  V!BusErrors(issued') = {} /\ V!EdgeErrors(issued') = {}
<1>1. phase \in {"Column", "Row", "Unified"} /\ BusMatches(c.r, c.cmd, phase)
  BY BusOf, IssueLegal
<1>2. Dram.dualBus => phase \in {"Column", "Row"}
  BY <1>1 DEF Shape, PhaseType
<1>3. V!BusErrors(issued') = {}
  BY <1>1, <1>2, IssuedIs, SamePlaces, SameClasses
     DEF V!BusErrors, BusMatches, RowCommands, AllBank
<1>4. ASSUME Dram.edgePairing, ~odd
      PROVE  c.cmd \in {"PREPB", "PREAB"} /\ ~V!PairBroken(issued')
  <2>1. ~rising /\ vpair = edge /\ Dram.dualBus
    BY <1>4 DEF Agreement, SameModes, Covered, Dram
  <2>2. c.cmd \in {"PREPB", "PREAB"} /\ (Dram.strictPairing => MayPair(c.r, c.cmd))
    BY <2>1, <1>1, <1>2, <1>4 DEF BusMatches
  <2>3. ~V!PairBroken(issued')
    BY <2>1, <2>2, IssuedIs, SamePlaces, SameClasses DEF V!PairBroken, MayPair
  <2> QED BY <2>2, <2>3
<1>5. V!EdgeErrors(issued') = {}
  BY <1>4, IssuedIs, SamePlaces DEF V!EdgeErrors
<1> QED BY <1>3, <1>5

LEMMA TimingAgrees ==
  ASSUME Shape, Agreement, NEW c, Issues(c)
  PROVE  V!TimingErrors(issued') = {}
<1> DEFINE b == c.r.bank
           cmd == c.cmd
<1>1. cmd \in Commands
  BY IssueCommandOf
<1>2. \A x : Left(vgate, <<cmd, x>>) = Left(gate, <<cmd, x>>)
  BY <1>1 DEF Agreement, SameRules
<1>3. ConstraintLeft(dev, vgate, cmd, b) = ConstraintLeft(dev, gate, cmd, b)
  BY <1>2 DEF ConstraintLeft
<1>4. ConstraintLeft(dev, gate, cmd, b) = 0
  BY IssueTimed
<1> QED BY <1>3, <1>4, IssuedIs, SameTable DEF V!TimingErrors

LEMMA WindowsAgree ==
  ASSUME Shape, Agreement, NEW c, Issues(c)
  PROVE  V!FawErrors(issued') = {} /\ V!WckErrors(issued') = {}
<1> DEFINE b == c.r.bank
           w == vwck[At(dev, Dram.wckScope, b)]
<1>1. b \in Banks
  BY IssueCommandOf
<1>2. V!FawErrors(issued') = {}
  <2>1. c.cmd \in Activating => ~FawFull(vacts[At(dev, Dram.actScope, b)])
    BY IssueTimed DEF FawReady, Agreement, SameModes
  <2> QED BY <2>1, IssuedIs, SamePlaces, SameClasses DEF V!FawErrors
<1>3. ASSUME Windows, c.cmd \in DataCommands
      PROVE  ~(w.ready > 0 \/ w.until = 0)
  <2>1. SameWindow(b)
    BY <1>1, <1>3 DEF Agreement
  <2>2. Left(gate, WckGate("wck_ready", b)) = 0 /\ Left(gate, WckGate("wck_until", b)) # 0
    BY <1>3, IssueTimed DEF WckReady, Windows, Open
  <2> QED BY <2>1, <2>2 DEF SameWindow
<1>4. V!WckErrors(issued') = {}
  BY <1>3, IssuedIs, SamePlaces, SameClasses DEF V!WckErrors, V!ChecksWck, Windows
<1> QED BY <1>2, <1>4


LEMMA StateAgrees ==
  ASSUME Shape, Covered(dev), Ownership, Deadlines, Agreement, NEW c, Issues(c)
  PROVE  V!StateErrors(issued') = {}
<1> DEFINE b == c.r.bank
           r == c.r
           v == vbank[b]
           cmd == c.cmd
<1>1. dev \in DOMAIN Devices /\ b \in Banks /\ cmd \in Commands
  BY IssueCommandOf DEF Shape
<1>2. \A x \in Banks : /\ vbank[x].row = bank[x].row /\ vbank[x].activating = bank[x].activating
                       /\ V!VBusy(x) = Busy(x)
  BY DEF Agreement, SameBank, V!VBusy, Busy
<1>3. V!RankIdle(b) = ~RankBusy(b)
  <2>1. RankBanks(dev, b) \subseteq Banks
    BY DEF RankBanks, Banks
  <2> QED BY <2>1, <1>2, SamePlaces DEF V!RankIdle, RankBusy
<1>4. V!ChannelIdle(b) = ~ChannelBusy(b)
  BY <1>2, SamePlaces DEF V!ChannelIdle, ChannelBusy
<1>5. V!OpenAt(issued') <=> ~bank[b].activating /\ bank[b].row = r.row
  BY <1>1, <1>2, IssuedIs DEF V!OpenAt
<1>6. vretrain = retrain /\ (retrain => Dram.lpddr)
  BY DEF Agreement, SameModes
<1>7. StateLegal(r, cmd)
  BY IssueLegal
<1>8. SUFFICES V!Unmet(issued') = {}
  BY DEF V!StateErrors
<1>9. CASE cmd \in {"ACT", "ACT1"}
  <2>1. ~V!VBusy(b) /\ (cmd = "ACT" => ~Dram.split) /\ (cmd = "ACT1" => Dram.split)
    BY <1>1, <1>2, <1>7, <1>9, LegalState
  <2>2. cmd = "ACT1" => \A x \in RankBanks(dev, b) : ~vbank[x].activating
    BY <1>2, IssueTimed DEF RankActivating, RankBanks, Banks
  <2> QED BY <2>1, <2>2, <1>9, IssuedIs, SamePlaces, SameClasses
          DEF V!Unmet, V!Unless, DataCommands, Reads, Writes, AllBankMaintenance
<1>10. CASE cmd = "ACT2"
  <2>1. Dram.split /\ bank[b].activating
    BY <1>7, <1>10, LegalState
  <2>2. OpenPage
    BY <2>1, OpenOrWhole
  <2>3. c.kind = "Active" /\ c.at \in DOMAIN Active /\ r = Active[c.at]
    BY <2>2, <1>10, OwnerOf DEF Issues, Choice, Active
  <2>4. SameActivation(b)
    BY <1>1, <2>1 DEF Agreement
  <2>5. v.request = r.id /\ v.target = r.row
    BY <2>3, <2>4 DEF SameActivation
  <2>6. v.ready = 0
    BY <2>4, <1>10, IssueTimed DEF SameActivation, Open
  <2>7. v.deadline >= 0
    <3>1. InTime(b)
      BY <1>1, <2>1 DEF Deadlines
    <3>2. D(T.nAADMax) \in Nat
      BY <1>1, <2>1, AADMax
    <3> QED BY <3>1, <3>2, <2>4 DEF InTime, SameActivation
  <2>8. v.activating
    BY <1>1, <1>2, <2>1
  <2> QED BY <2>1, <2>5, <2>6, <2>7, <2>8, <1>10, IssuedIs, SamePlaces, SameClasses
          DEF V!Unmet, V!Unless, DataCommands, Reads, Writes, AllBankMaintenance
<1>11. CASE cmd \in {"PREPB", "PREAB"}
  <2>1. /\ cmd = "PREPB" => ~v.activating /\ v.row # 0
        /\ cmd = "PREAB" => ~V!RankIdle(b)
    BY <1>1, <1>2, <1>3, <1>7, <1>11, LegalState
  <2> QED BY <2>1, <1>11, IssuedIs, SamePlaces, SameClasses
          DEF V!Unmet, V!Unless, DataCommands, Reads, Writes, AllBankMaintenance
<1>12. CASE cmd \in DataCommands \cup {"CASRD", "CASWR"}
  <2>1. V!OpenAt(issued') /\ ~vretrain /\ (cmd \in {"CASRD", "CASWR"} => Dram.lpddr)
    BY <1>5, <1>6, <1>7, <1>12, LegalState DEF RowHit
  <2> QED BY <2>1, <1>12, IssuedIs, SamePlaces, SameClasses
          DEF V!Unmet, V!Unless, DataCommands, Reads, Writes, AllBankMaintenance
<1>13. CASE cmd \in PerBankMaintenance
  <2>1. ~V!VBusy(b)
    BY <1>1, <1>2, <1>7, <1>13, LegalState
  <2>2. cmd = "REFDB" => Dram.dualBankRefresh /\ ~V!VBusy(Partner(dev, b))
    <3> SUFFICES ASSUME cmd = "REFDB"
                 PROVE  Dram.dualBankRefresh /\ ~V!VBusy(Partner(dev, b))
      OBVIOUS
    <3>1. Dram.dualBankRefresh
      BY NoSync
    <3>2. Partner(dev, b) \in Banks
      BY <1>1, <3>1, DeviceAssumption DEF Dram, Banks, RankBanks
    <3>3. ~Busy(Partner(dev, b))
      BY IssueTimed DEF PairIdle
    <3> QED BY <1>2, <3>1, <3>2, <3>3
  <2> QED BY <2>1, <2>2, <1>13, IssuedIs, SamePlaces, SameClasses
          DEF V!Unmet, V!Unless, DataCommands, Reads, Writes, AllBankMaintenance,
              PerBankMaintenance
<1>14. CASE cmd \in AllBankMaintenance
  <2>1. V!RankIdle(b)
    BY <1>3, <1>7, <1>14, LegalState
  <2> QED BY <2>1, <1>14, IssuedIs, SamePlaces, SameClasses
          DEF V!Unmet, V!Unless, DataCommands, Reads, Writes, AllBankMaintenance
<1>15. CASE cmd \in Controls
  <2>1. /\ cmd # "RASERR" => V!ChannelIdle(b)
        /\ cmd \in {"WCKTRAIN", "DVFS"} => Dram.lpddr
        /\ cmd = "ECCSCRUB" => Dram.ecc
        /\ cmd = "RASERR" => Dram.ecc \/ Dram.linkRetry
    BY <1>4, <1>7, <1>15, LegalState DEF Controls
  <2> QED BY <2>1, <1>15, IssuedIs, SamePlaces, SameClasses
          DEF V!Unmet, V!Unless, DataCommands, Reads, Writes, AllBankMaintenance, Controls
<1> QED
  BY <1>1, <1>9, <1>10, <1>11, <1>12, <1>13, <1>14, <1>15, NoSync
  DEF Commands, ColumnCommands, RowCommands, Opening, AllBank

\* A step of the judge adds no error.
LEMMA NoErrors ==
  ASSUME Shape, Covered(dev), Ownership, Deadlines, Agreement, NEW c, Issues(c),
         V!Replay(issued')
  PROVE  errors' = {}
<1>1. errors = {}
  BY DEF Agreement
<1>2. errors' = errors \cup V!SweepErrors(issued') \cup V!BusErrors(issued')
                  \cup V!EdgeErrors(issued') \cup V!StateErrors(issued')
                  \cup V!TimingErrors(issued') \cup V!FawErrors(issued')
                  \cup V!WckErrors(issued')
  BY DEF V!Replay
<1> QED BY <1>1, <1>2, SweepAgrees, BusAgrees, StateAgrees, TimingAgrees, WindowsAgree


-----------------------------------------------------------------------------
(* The judge follows a command *)

JudgeBanks ==
  [row : Nat, activating : BOOLEAN, target : Nat, request : Nat, ready : Nat, deadline : Int]

LEMMA JudgeBankMoves ==
  ASSUME Shape, Agreement, NEW c, Issues(c), V!Replay(issued')
  PROVE  /\ vbank' \in [Banks -> JudgeBanks]
         /\ \A x \in Banks :
              /\ x # c.r.bank /\ c.cmd # "PREAB" => vbank'[x] = vbank[x]
              /\ c.cmd = "PREAB" =>
                   IF x \in RankBanks(dev, c.r.bank)
                   THEN vbank'[x].row = 0 /\ vbank'[x].activating = FALSE
                   ELSE vbank'[x] = vbank[x]
              /\ x = c.r.bank =>
                   /\ c.cmd \in {"ACT", "ACT2"} =>
                        vbank'[x].row = c.r.row /\ vbank'[x].activating = FALSE
                   /\ c.cmd = "ACT1" =>
                        /\ vbank'[x].row = 0 /\ vbank'[x].activating = TRUE
                        /\ vbank'[x].target = c.r.row /\ vbank'[x].request = c.r.id
                        /\ vbank'[x].ready = D(Larger(1, T.nAADMin))
                        /\ vbank'[x].deadline = D(Larger(T.nAADMin, T.nAADMax))
                   /\ c.cmd = "PREPB" => vbank'[x].row = 0 /\ vbank'[x].activating = FALSE
                   /\ c.cmd \in {"RDA", "WRA"} =>
                        vbank'[x].row = 0 /\ vbank'[x].activating = vbank[x].activating
              /\ c.cmd \notin {"ACT", "ACT1", "ACT2", "PREPB", "RDA", "WRA", "PREAB"}
                   => vbank'[x] = vbank[x]
<1> DEFINE b == c.r.bank
           cmd == c.cmd
           row == c.r.row
           open == [V!Closed EXCEPT !.row = row]
           shut == [row |-> 0, activating |-> FALSE, target |-> 0, request |-> 0,
                    ready |-> 0, deadline |-> 0]
           half == [row |-> 0, activating |-> TRUE, target |-> row, request |-> c.r.id,
                    ready |-> D(Larger(1, T.nAADMin)),
                    deadline |-> D(Larger(T.nAADMin, T.nAADMax))]
<1>1. dev \in DOMAIN Devices /\ b \in Banks /\ row \in Nat /\ c.r.id \in Nat
  BY QueueMoves, IssueCommandOf DEF Shape, Requests
<1>2. vbank \in [Banks -> JudgeBanks] /\ vbank' = V!ReplayBank(issued')
  BY DEF Agreement, JudgeType, JudgeBanks, V!Replay
<1>3. half \in JudgeBanks /\ open \in JudgeBanks /\ shut \in JudgeBanks
      /\ open.row = row /\ open.activating = FALSE
  <2>1. T.nAADMin \in Int /\ T.nAADMax \in Int
    BY <1>1, TimingInt DEF TimingNames
  <2>2. Larger(1, T.nAADMin) \in Int /\ Larger(T.nAADMin, T.nAADMax) \in Int
    BY <2>1 DEF Larger
  <2>3. D(Larger(1, T.nAADMin)) \in Nat /\ D(Larger(T.nAADMin, T.nAADMax)) \in Int
    BY <1>1, <2>2, DelayNat
  <2>4. V!Closed \in JudgeBanks /\ V!Closed.activating = FALSE
    BY DEF V!Closed, JudgeBanks
  <2>5. open \in JudgeBanks /\ open.row = row /\ open.activating = FALSE
    BY <1>1, <2>4 DEF JudgeBanks
  <2> QED BY <1>1, <2>3, <2>5 DEF JudgeBanks
<1>4. CASE cmd \in {"ACT", "ACT2"}
  <2>1. vbank' = [vbank EXCEPT ![b] = open]
    <3>1. CASE cmd = "ACT"
      BY <3>1, <1>2, IssuedIs DEF V!ReplayBank
    <3>2. CASE cmd = "ACT2"
      BY <3>2, <1>2, IssuedIs DEF V!ReplayBank
    <3> QED BY <3>1, <3>2, <1>4
  <2> HIDE DEF open
  <2>2. vbank' \in [Banks -> JudgeBanks] /\ \A x \in Banks : vbank'[x] = IF x = b THEN open ELSE vbank[x]
    BY <2>1, <1>1, <1>2, <1>3
  <2> QED BY <2>2, <1>3, <1>4
<1>5. CASE cmd = "ACT1"
  <2>1. vbank' = [vbank EXCEPT ![b] = half]
    BY <1>2, <1>5, IssuedIs, SamePlaces DEF V!ReplayBank
  <2>2. /\ half.row = 0 /\ half.activating = TRUE /\ half.target = row /\ half.request = c.r.id
        /\ half.ready = D(Larger(1, T.nAADMin))
        /\ half.deadline = D(Larger(T.nAADMin, T.nAADMax))
    OBVIOUS
  <2> HIDE DEF half
  <2>3. vbank' \in [Banks -> JudgeBanks] /\ \A x \in Banks : vbank'[x] = IF x = b THEN half ELSE vbank[x]
    BY <2>1, <1>1, <1>2, <1>3
  <2> QED BY <2>2, <2>3, <1>5
<1>6. CASE cmd = "PREPB"
  <2>1. vbank' = [vbank EXCEPT ![b] = shut]
    BY <1>2, <1>6, IssuedIs DEF V!ReplayBank, V!Closed
  <2>2. shut.row = 0 /\ shut.activating = FALSE
    OBVIOUS
  <2> HIDE DEF shut
  <2>3. vbank' \in [Banks -> JudgeBanks] /\ \A x \in Banks : vbank'[x] = IF x = b THEN shut ELSE vbank[x]
    BY <2>1, <1>1, <1>2, <1>3
  <2> QED BY <2>2, <2>3, <1>6
<1>7. CASE cmd \in {"RDA", "WRA"}
  <2>1. vbank' = [vbank EXCEPT ![b].row = 0]
    BY <1>2, <1>7, IssuedIs DEF V!ReplayBank
  <2> QED BY <2>1, <1>1, <1>2, <1>7 DEF JudgeBanks
<1>8. CASE cmd = "PREAB"
  <2>1. vbank' = [x \in Banks |-> IF x \in RankBanks(dev, b) THEN shut ELSE vbank[x]]
    BY <1>2, <1>8, IssuedIs, SamePlaces DEF V!ReplayBank, V!Closed
  <2>2. shut.row = 0 /\ shut.activating = FALSE
    OBVIOUS
  <2> HIDE DEF shut
  <2> QED BY <2>1, <2>2, <1>2, <1>3, <1>8
<1>9. CASE cmd \notin {"ACT", "ACT1", "ACT2", "PREPB", "RDA", "WRA", "PREAB"}
  <2>1. vbank' = vbank
    BY <1>2, <1>9, IssuedIs DEF V!ReplayBank
  <2> QED BY <2>1, <1>2, <1>9
<1> QED BY <1>4, <1>5, <1>6, <1>7, <1>8, <1>9

\* The states of the banks stay the same in both.
LEMMA SameBankIssue ==
  ASSUME Shape, Agreement, NEW c, Issues(c), V!Replay(issued'), NEW x \in Banks
  PROVE  SameBank(x)'
<1> DEFINE b == c.r.bank
           cmd == c.cmd
<1>1. vbank[x].row = bank[x].row /\ vbank[x].activating = bank[x].activating
  BY DEF Agreement, SameBank
<1>2. cmd \in Commands /\ b \in Banks
  BY IssueCommandOf
<1>3. /\ cmd = "ACT" => ~Busy(b)
      /\ cmd = "ACT1" => bank[b].row = 0
  BY <1>2, IssueLegal, LegalState DEF Busy
<1>4. bank \in [Banks -> [row : Nat, activating : BOOLEAN, deadline : Int]]
  BY DEF Shape, BankType
<1> DEFINE old == bank[x]
           new == bank'[x]
           vold == vbank[x]
           vnew == vbank'[x]
           same == vnew.row = new.row /\ vnew.activating = new.activating
<1>5. vold.row = old.row /\ vold.activating = old.activating
  BY <1>1
<1>6. SUFFICES same
  BY DEF SameBank
<1>7. CASE cmd = "ACT"
  <2>1. x = b => old.activating = FALSE
    BY <1>2, <1>3, <1>4, <1>7 DEF Busy
  <2>2. /\ x # b => new = old /\ vnew = vold
        /\ x = b => /\ new.row = c.r.row /\ new.activating = old.activating
                    /\ vnew.row = c.r.row /\ vnew.activating = FALSE
    BY <1>7, BankMoves, JudgeBankMoves
  <2> HIDE DEF old, new, vold, vnew
  <2> QED BY <2>1, <2>2, <1>5
<1>8. CASE cmd = "ACT2"
  <2>1. /\ x # b => new = old /\ vnew = vold
        /\ x = b => /\ new.row = c.r.row /\ new.activating = FALSE
                    /\ vnew.row = c.r.row /\ vnew.activating = FALSE
    BY <1>8, BankMoves, JudgeBankMoves
  <2> HIDE DEF old, new, vold, vnew
  <2> QED BY <2>1, <1>5
<1>9. CASE cmd = "ACT1"
  <2>1. /\ x # b => new = old /\ vnew = vold
        /\ x = b => /\ new.row = 0 /\ new.activating = TRUE
                    /\ vnew.row = 0 /\ vnew.activating = TRUE
    BY <1>3, <1>9, BankMoves, JudgeBankMoves, ZenonT(60)
  <2> HIDE DEF old, new, vold, vnew
  <2> QED BY <2>1, <1>5
<1>10. CASE cmd = "PREPB"
  <2>1. /\ x # b => new = old /\ vnew = vold
        /\ x = b => /\ new.row = 0 /\ new.activating = FALSE
                    /\ vnew.row = 0 /\ vnew.activating = FALSE
    BY <1>10, BankMoves, JudgeBankMoves, ZenonT(60)
  <2> HIDE DEF old, new, vold, vnew
  <2> QED BY <2>1, <1>5
<1>11. CASE cmd \in {"RDA", "WRA"}
  <2>1. /\ x # b => new = old /\ vnew = vold
        /\ x = b => /\ new.row = 0 /\ new.activating = old.activating
                    /\ vnew.row = 0 /\ vnew.activating = vold.activating
    BY <1>11, BankMoves, JudgeBankMoves, ZenonT(60)
  <2> HIDE DEF old, new, vold, vnew
  <2> QED BY <2>1, <1>5
<1>12. CASE cmd = "PREAB"
  <2>1. IF x \in RankBanks(dev, b)
        THEN /\ new.row = 0 /\ new.activating = FALSE
             /\ vnew.row = 0 /\ vnew.activating = FALSE
        ELSE new = old /\ vnew = vold
    BY <1>12, BankMoves, JudgeBankMoves
  <2> HIDE DEF old, new, vold, vnew
  <2> QED BY <2>1, <1>5
<1>13. CASE cmd \notin {"ACT", "ACT1", "ACT2", "PREPB", "RDA", "WRA", "PREAB"}
  <2>1. new = old /\ vnew = vold
    BY <1>13, BankMoves, JudgeBankMoves
  <2> HIDE DEF old, new, vold, vnew
  <2> QED BY <2>1, <1>5
<1> QED BY <1>7, <1>8, <1>9, <1>10, <1>11, <1>12, <1>13


\* A bank that waits for its ACT2 keeps its request, and its gate stays.
LEMMA SameActivationIssue ==
  ASSUME Shape, Covered(dev), Ownership, Deadlines, Agreement, dev' = dev,
         NEW c, Issues(c), V!Replay(issued'), NEW x \in Banks, bank'[x].activating
  PROVE  SameActivation(x)'
<1> DEFINE b == c.r.bank
           cmd == c.cmd
<1>1. Act2Gate(x)' = Act2Gate(x)
  BY DEF Act2Gate, BankGate
<1>2. GateType
  BY DEF Deadlines
<1>3. Dram.split
  <2>1. (\A y \in Banks : bank'[y].activating => bank'[y].row = 0 /\ Dram.split)
    BY BankTypeIssue
  <2> QED BY <2>1
<1>4. OpenPage
  BY <1>3, OpenOrWhole
<1>5. /\ c.kind = "Active" => cmd \in OnOpenRow \cup {"ACT2"}
      /\ cmd \in Opening => Takes(c) /\ \A i \in DOMAIN Active : Active[i].bank # b
  BY <1>4, OwnerOf
<1>6. c.r \in Requests
  BY QueueMoves
<1>7. Active \in Seq(Requests) /\ DOMAIN Active = 1 .. Len(Active) /\ Len(Active) \in Nat
  BY ActiveIsSeq
<1>8. Served(c) \in Requests /\ Served(c).bank = b /\ Served(c).row = c.r.row
      /\ Served(c).id = c.r.id
  BY <1>6, ServedSame, QueueMoves
<1>9. CASE x = b /\ cmd = "ACT1" /\ ~bank[x].activating
  <2>1. vbank'[x].ready = Left(gate', Act2Gate(x))
    <3>1. Left(gate', Act2Gate(x)) = D(Larger(1, T.nAADMin))
      BY <1>2, <1>9, GatesMove
    <3>2. vbank'[x].ready = D(Larger(1, T.nAADMin))
      BY <1>9, JudgeBankMoves
    <3> QED BY <3>1, <3>2
  <2>2. vbank'[x].deadline = bank'[x].deadline
    <3>1. bank'[x].deadline = D(Larger(T.nAADMin, T.nAADMax))
      BY <1>9, BankMoves
    <3>2. vbank'[x].deadline = D(Larger(T.nAADMin, T.nAADMax))
      BY <1>9, JudgeBankMoves
    <3> QED BY <3>1, <3>2
  <2>3. Active' = Append(Active, Served(c)) /\ \A i \in DOMAIN Active : Active[i].bank # b
    BY <1>5, <1>9, ActiveMoves DEF Opening
  <2>4. \A i \in DOMAIN Active' : Active'[i].bank = b => Active'[i] = Served(c)
    BY <2>3, <1>7, <1>8
  <2>5. vbank'[x].target = c.r.row /\ vbank'[x].request = c.r.id
    BY <1>9, JudgeBankMoves
  <2> QED BY <2>1, <2>2, <2>4, <2>5, <1>1, <1>8, <1>9 DEF SameActivation
<1>10. CASE bank'[x] = bank[x] /\ ~(x = b /\ cmd \in {"ACT1", "ACT2"})
  <2>1. bank[x].activating
    BY <1>10
  <2>2. SameActivation(x)
    BY <2>1 DEF Agreement
  <2>3. vbank'[x] = vbank[x]
    <3>1. bank[x].row = 0
      BY <2>1 DEF Shape, BankType
    <3>2. cmd = "ACT" => x # b
      BY <1>3, IssueLegal, LegalState
    <3>3. cmd \in {"PREPB", "RDA", "WRA"} => x # b
      BY <2>1, IssueLegal, LegalState DEF DataCommands, Reads, Writes
    <3>4. cmd = "PREAB" => x \notin RankBanks(dev, b)
      BY <1>10, <2>1, BankMoves
    <3> QED BY <3>2, <3>3, <3>4, <1>10, JudgeBankMoves
  <2>4. Left(gate', Act2Gate(x)) = Left(gate, Act2Gate(x))
    BY <1>2, <1>10, GatesMove
  <2>5. \A i \in DOMAIN Active' : Active'[i].bank = x =>
          \E j \in DOMAIN Active : Active'[i] = Active[j]
    <3>1. CASE Takes(c)
      <4>1. Active' = Append(Active, Served(c)) /\ cmd = "ACT1"
        <5>1. cmd \in {"ACT", "ACT1"}
          BY <3>1 DEF Takes, Opening
        <5>2. cmd # "ACT"
          BY <1>3, IssueLegal, LegalState
        <5> QED BY <5>1, <5>2, <3>1, ActiveMoves
      <4>2. Served(c).bank # x
        BY <4>1, <1>8, <1>10
      <4> QED BY <4>1, <4>2, <1>7, <1>8
    <3>2. CASE c.kind = "Active" /\ cmd \in DataCommands
      <4>1. c.at \in DOMAIN Active /\ Active' = RemoveAt(Active, c.at)
        BY <3>2, ActiveMoves
      <4> QED BY <4>1, <1>7, RemovedFrom
    <3>3. CASE Active' = Active
      BY <3>3
    <3> QED BY <3>1, <3>2, <3>3, <1>5, ActiveMoves DEF OnOpenRow
  <2> QED BY <2>2, <2>3, <2>4, <2>5, <1>1, <1>10 DEF SameActivation
<1> QED BY <1>3, <1>9, <1>10, StillActivating

\* The rules hold back the same commands for the same time.
LEMMA SameRulesIssue ==
  ASSUME Shape, Agreement, NEW c, Issues(c), V!Replay(issued')
  PROVE  SameRules'
<1> SUFFICES ASSUME NEW k, k[1] \in Commands
             PROVE  Left(vgate', k) = Left(gate', k)
  BY DEF SameRules
<1> DEFINE h == HeldBack(dev, c.cmd, c.r.bank)
<1>1. vgate' = Latest({vgate, h})
  <2>1. vgate' = V!Latest({vgate, V!HeldBack(dev, issued'.cmd, issued'.bank)})
    BY DEF V!Replay
  <2> QED BY <2>1, IssuedIs, SameTable
<1>2. Left(vgate, k) = Left(gate, k) /\ Left(gate, k) \in Nat
  BY DEF Agreement, SameRules, GateNat
<1>3. Left(h, k) \in Nat
  BY HeldNat DEF Shape
<1>4. GateNat
  BY DEF Agreement
<1>5. Left(gate', k) = Larger(Left(gate, k), Left(h, k))
  BY <1>4, CommandGateAfter
<1> HIDE DEF h
<1>6. Left(vgate', k) = Larger(Left(vgate, k), Left(h, k))
  BY <1>1, <1>2, <1>3, LatestOfTwoAt
<1> QED BY <1>2, <1>5, <1>6

LEMMA SameModesIssue ==
  ASSUME Shape, Covered(dev), Agreement, dev' = dev, NEW c, Issues(c), V!Replay(issued')
  PROVE  SameModes'
<1> DEFINE b == c.r.bank
           cmd == c.cmd
<1>1. /\ vacts = acts /\ vretrain = retrain /\ (retrain => Dram.lpddr)
      /\ Dram.edgePairing => vpair = edge /\ odd = rising
      /\ odd \in BOOLEAN /\ rising \in BOOLEAN
  BY DEF Agreement, SameModes
<1>2. vacts' = acts'
  <2>1. acts' = IF cmd \in Activating
                THEN [acts EXCEPT ![At(dev, Dram.actScope, b)] = @ \cup {0}] ELSE acts
    BY DEF Issues, IssueCommand
  <2>2. vacts' = IF cmd \in Activating
                 THEN [vacts EXCEPT ![At(dev, Dram.actScope, b)] = @ \cup {0}] ELSE vacts
    BY IssuedIs, SamePlaces, SameClasses DEF V!Replay, V!ReplayActs
  <2> QED BY <2>1, <2>2, <1>1
<1>3. vretrain' = retrain' /\ (retrain' => Dram.lpddr)
  <2>1. retrain' = CASE cmd = "DVFS" /\ Dram.retrains -> TRUE
                     [] cmd = "WCKTRAIN" -> FALSE
                     [] OTHER -> retrain
    BY DEF Issues, IssueCommand
  <2>2. vretrain' = CASE cmd = "DVFS" /\ Dram.retrains -> TRUE
                     [] cmd = "WCKTRAIN" -> FALSE
                     [] OTHER -> vretrain
    BY IssuedIs, SamePlaces DEF V!Replay, V!ReplayRetrain
  <2>3. cmd = "DVFS" => Dram.lpddr
    BY IssueLegal, LegalState
  <2> QED BY <2>1, <2>2, <2>3, <1>1
<1>4. UNCHANGED <<odd, rising>>
  BY DEF V!Replay, Issues, OnBus
<1>5. Dram.edgePairing => vpair' = edge'
  <2> SUFFICES ASSUME Dram.edgePairing
               PROVE  vpair' = edge'
    OBVIOUS
  <2>1. vpair = edge /\ odd = rising /\ Dram.dualBus
    BY <1>1 DEF Covered, Dram
  <2> DEFINE now == [cmd |-> cmd, bank |-> b, left |-> IF cmd = "ACT" THEN 3 ELSE 1]
  <2>2. edge' = IF phase = "Row" /\ rising THEN now ELSE edge
    BY DEF Issues, IssueCommand, EdgeAfter
  <2>3. vpair' = IF odd /\ phase = "Row" /\ cmd \in RowCommands THEN now ELSE vpair
    BY IssuedIs, SamePlaces, SameClasses DEF V!Replay, V!ReplayPair
  <2>4. phase = "Row" /\ rising => cmd \in RowCommands
    BY IssueLegal DEF BusMatches
  <2> HIDE DEF now
  <2> QED BY <2>1, <2>2, <2>3, <2>4
<1>6. Dram' = Dram
  BY DeviceStays
<1> QED BY <1>1, <1>2, <1>3, <1>4, <1>5, <1>6 DEF SameModes


LEMMA Division ==
  ASSUME NEW n \in Nat \ {0}, NEW i \in Nat, i < n
  PROVE  (i + 1) % n = IF i + 1 = n THEN 0 ELSE i + 1
<1>1. i + 1 = n => (i + 1) % n = 0
  BY SMT
<1>2. i + 1 # n => (i + 1) % n = i + 1
  BY SMT
<1> QED BY <1>1, <1>2

\* Only a refresh sets the gate of its rank's sweep.
LEMMA SweepGateAfter ==
  ASSUME Shape, GateNat, NEW c, Issues(c), NEW x
  PROVE  LET b == c.r.bank
             short == IF T.nREFDB2REFDBS > 0 THEN T.nREFDB2REFDBS ELSE T.nRRDL
             long == IF T.nREFDB2REFDBL > 0 THEN T.nREFDB2REFDBL ELSE short
         IN Left(gate', SweepGate(x)) =
              IF /\ Dram.dualBankRefresh /\ c.cmd \in {"REFDB", "REFAB"}
                 /\ At(dev, "Rank", x) = At(dev, "Rank", b)
              THEN IF c.cmd = "REFAB" THEN D(T.nRFC)
                   ELSE IF sweep'[At(dev, "Rank", b)].count = 0 THEN D(long) ELSE D(short)
              ELSE Left(gate, SweepGate(x))
<1> DEFINE b == c.r.bank
           cmd == c.cmd
           k == SweepGate(x)
           short == IF T.nREFDB2REFDBS > 0 THEN T.nREFDB2REFDBS ELSE T.nRRDL
           long == IF T.nREFDB2REFDBL > 0 THEN T.nREFDB2REFDBL ELSE short
           n == IF cmd = "REFAB" THEN D(T.nRFC)
                ELSE IF sweep'[At(dev, "Rank", b)].count = 0 THEN D(long) ELSE D(short)
           mine == At(dev, "Rank", x) = At(dev, "Rank", b)
           refreshes == Dram.dualBankRefresh /\ cmd \in {"REFDB", "REFAB"}
           base == IF k \in DOMAIN SweepGates(cmd, b) THEN SweepGates(cmd, b)[k]
                   ELSE IF k \in DOMAIN SetGates(cmd, b) THEN SetGates(cmd, b)[k]
                   ELSE Left(gate, k)
<1>1. dev \in DOMAIN Devices /\ cmd \in Commands
  BY IssueCommandOf DEF Shape
<1>2. k[1] = "refdb_ready" /\ k[1] \in GateNames /\ (k = SweepGate(b) <=> mine)
  BY DEF SweepGate, GateNames
<1>3. k \notin DOMAIN SetGates(cmd, b)
  BY <1>1, <1>2, SetAt
<1>4. Left(MovedGates(cmd, b), k) = 0
  BY <1>2, MovedNames DEF Left
<1>5. refreshes => SweepGates(cmd, b) = Shut(SweepGate(b), n)
  <2>1. CASE cmd = "REFAB"
    BY <2>1 DEF SweepGates
  <2>2. CASE cmd = "REFDB"
    <3>1. sweep' = SweepAfter(cmd, b)
      BY DEF Issues, IssueCommand
    <3> DEFINE ends == SweepAfter(cmd, b)[At(dev, "Rank", b)].count = 0
    <3>2. refreshes => SweepGates(cmd, b) = Shut(SweepGate(b), D(IF ends THEN long ELSE short))
      BY <2>2 DEF SweepGates
    <3>3. D(IF ends THEN long ELSE short) = n
      BY <2>2, <3>1
    <3> QED BY <3>2, <3>3
  <2> QED BY <2>1, <2>2
<1>6. k \in DOMAIN SweepGates(cmd, b) => refreshes /\ mine
  BY <1>2, SweepNames
<1> HIDE DEF n, k
<1>7. refreshes /\ mine => k \in DOMAIN SweepGates(cmd, b) /\ SweepGates(cmd, b)[k] = n
  BY <1>2, <1>5, ShutAt
<1>8. Left(gate', k) = Larger(base, Left(MovedGates(cmd, b), k)) /\ base \in Nat
  BY <1>2, OtherGateAfter
<1>9. base = IF refreshes /\ mine THEN n ELSE Left(gate, k)
  BY <1>3, <1>6, <1>7
<1> HIDE DEF base
<1>10. Left(gate', k) = base
  BY <1>4, <1>8 DEF Larger
<1> QED BY <1>9, <1>10 DEF n, k

\* The sweep of a rank, and its gate, after a refresh.
LEMMA SameSweepIssue ==
  ASSUME Shape, Agreement, dev' = dev, NEW c, Issues(c), V!Replay(issued')
  PROVE  /\ vsweep' \in [RankScopes -> [count : Nat, visited : SUBSET Banks, left : Nat]]
         /\ sweep' \in [RankScopes -> [count : Nat, visited : SUBSET Banks]]
         /\ Dram.dualBankRefresh => \A x \in Banks : SameSweep(x)'
<1> DEFINE b == c.r.bank
           cmd == c.cmd
           rank == At(dev, "Rank", b)
           pairs == PairCount(dev)
           s == sweep[rank]
           v == vsweep[rank]
           short == IF T.nREFDB2REFDBS > 0 THEN T.nREFDB2REFDBS ELSE T.nRRDL
           long == IF T.nREFDB2REFDBL > 0 THEN T.nREFDB2REFDBL ELSE short
           both == {b, Partner(dev, b)}
           JudgeSweeps == [count : Nat, visited : SUBSET Banks, left : Nat]
           Sweeps == [count : Nat, visited : SUBSET Banks]
<1>1. dev \in DOMAIN Devices /\ b \in Banks /\ rank \in RankScopes
  BY IssueCommandOf DEF Shape, RankScopes
<1>2. /\ vsweep \in [RankScopes -> JudgeSweeps] /\ sweep \in [RankScopes -> Sweeps]
  BY DEF Agreement, JudgeType
<1>3. sweep' = SweepAfter(cmd, b) /\ vsweep' = V!ReplaySweep(issued')
  BY DEF Issues, IssueCommand, V!Replay
<1>4. GateNat
  BY DEF Agreement
<1>5. /\ PairCount(dev)' = PairCount(dev)
      /\ \A x : At(dev, "Rank", x)' = At(dev, "Rank", x) /\ SweepGate(x)' = SweepGate(x)
  BY DEF PairCount, At, Partner, BanksOf, SweepGate
<1>6. CASE ~Dram.dualBankRefresh
  <2>1. sweep' = sweep /\ vsweep' = vsweep
    BY <1>3, <1>6, SamePlaces DEF SweepAfter, V!ReplaySweep
  <2> QED BY <2>1, <1>2, <1>6
<1>7. CASE Dram.dualBankRefresh
  <2>1. /\ pairs \in Nat \ {0} /\ Cardinality(RankBanks(dev, b)) = 2 * pairs
        /\ both \subseteq Banks
    BY <1>1, <1>7, DeviceAssumption DEF Dram, Banks, RankBanks
  <2>2. \A x \in Banks : SameSweep(x)
    BY <1>7 DEF Agreement
  <2>3. v.count = s.count /\ v.visited = s.visited /\ s.count < pairs /\ s.count \in Nat
    BY <1>1, <1>2, <2>2 DEF SameSweep
  <2>4. T.nRFC \in Int /\ short \in Int /\ long \in Int
    BY <1>1, TimingInt DEF TimingNames
  <2>5. D(T.nRFC) \in Nat /\ D(short) \in Nat /\ D(long) \in Nat
    BY <1>1, <2>4, DelayNat
  <2> DEFINE ends == s.count + 1 = pairs
             left == IF cmd = "REFAB" THEN D(T.nRFC) ELSE IF ends THEN D(long) ELSE D(short)
             new == IF cmd = "REFDB" /\ ~ends
                    THEN [count |-> s.count + 1, visited |-> s.visited \cup both]
                    ELSE [count |-> 0, visited |-> {}]
             vnew == IF cmd = "REFDB" /\ ~ends
                     THEN [count |-> s.count + 1, visited |-> s.visited \cup both,
                           left |-> left]
                     ELSE [count |-> 0, visited |-> {}, left |-> left]
  <2>6. (s.count + 1) % pairs = IF ends THEN 0 ELSE s.count + 1
    BY <2>1, <2>3, Division
  <2>7. V!Cardinality(RankBanks(dev, b)) = 2 * pairs
    BY <2>1, Zenon DEF V!Cardinality, Cardinality
  <2>8. (2 * (v.count + 1) = 2 * pairs) <=> ends
    BY <2>1, <2>3
  <2>9. (0 < T.nREFDB2REFDBL /\ ends) \/ long = short \/ ~ends
    OBVIOUS
  <2> HIDE DEF pairs
  <2>10. ASSUME cmd = "REFAB"
         PROVE  sweep' = [sweep EXCEPT ![rank] = new] /\ vsweep' = [vsweep EXCEPT ![rank] = vnew]
    <3>1. sweep' = [sweep EXCEPT ![rank] = new]
      BY <1>3, <1>7, <2>10 DEF SweepAfter
    <3>2. vsweep' = [vsweep EXCEPT ![rank] = vnew]
      BY <1>3, <1>7, <2>10, IssuedIs, SamePlaces DEF V!ReplaySweep
    <3> QED BY <3>1, <3>2
  <2>11. ASSUME cmd = "REFDB" /\ ends
         PROVE  sweep' = [sweep EXCEPT ![rank] = new] /\ vsweep' = [vsweep EXCEPT ![rank] = vnew]
    <3>1. sweep' = [sweep EXCEPT ![rank] = new]
      BY <1>3, <1>7, <2>6, <2>11 DEF SweepAfter, pairs
    <3>2. vsweep' = [vsweep EXCEPT ![rank] = vnew]
      BY <1>3, <1>7, <2>7, <2>8, <2>11, IssuedIs, SamePlaces DEF V!ReplaySweep
    <3> QED BY <3>1, <3>2
  <2>12. ASSUME cmd = "REFDB" /\ ~ends
         PROVE  sweep' = [sweep EXCEPT ![rank] = new] /\ vsweep' = [vsweep EXCEPT ![rank] = vnew]
    <3> DEFINE count == (s.count + 1) % pairs
    <3>0. count = s.count + 1 /\ count # 0
      BY <2>3, <2>6, <2>12
    <3>1. sweep' = [sweep EXCEPT ![rank] = new]
      <4>1. sweep' = [sweep EXCEPT ![rank] =
              IF count # 0 THEN [count |-> count, visited |-> @.visited \cup both]
              ELSE [count |-> 0, visited |-> {}]]
        BY <1>3, <1>7, <2>12 DEF SweepAfter, pairs
      <4> HIDE DEF count
      <4> QED BY <4>1, <3>0, <2>12
    <3>2. vsweep' = [vsweep EXCEPT ![rank] = vnew]
      BY <1>3, <1>7, <2>3, <2>7, <2>8, <2>12, IssuedIs, SamePlaces DEF V!ReplaySweep
    <3> QED BY <3>1, <3>2
  <2>13. CASE cmd \notin {"REFDB", "REFAB"}
    <3>1. sweep' = sweep /\ vsweep' = vsweep
      BY <1>3, <2>13, IssuedIs, SamePlaces DEF SweepAfter, V!ReplaySweep
    <3>2. \A x \in Banks : Left(gate', SweepGate(x)) = Left(gate, SweepGate(x))
      BY <1>4, <2>13, SweepGateAfter
    <3> QED BY <3>1, <3>2, <2>2, <1>2, <1>5 DEF SameSweep
  <2>14. CASE cmd \in {"REFDB", "REFAB"}
    <3>1. sweep' = [sweep EXCEPT ![rank] = new] /\ vsweep' = [vsweep EXCEPT ![rank] = vnew]
      BY <2>10, <2>11, <2>12, <2>14
    <3>2. /\ new \in Sweeps /\ vnew \in JudgeSweeps /\ vnew.left = left
          /\ vnew.count = new.count /\ vnew.visited = new.visited /\ new.count < pairs
          /\ cmd = "REFDB" => (new.count = 0 <=> ends)
      <4>1. left \in Nat
        BY <2>5
      <4>2. s.visited \cup both \in SUBSET Banks
        BY <1>1, <1>2, <2>1
      <4> HIDE DEF left, both
      <4>3. CASE cmd = "REFDB" /\ ~ends
        BY <4>1, <4>2, <4>3, <2>1, <2>3
      <4>4. CASE ~(cmd = "REFDB" /\ ~ends)
        BY <4>1, <4>4, <2>1, <2>3, <2>14
      <4> QED BY <4>3, <4>4
    <3> HIDE DEF new, vnew
    <3>3. /\ vsweep' \in [RankScopes -> JudgeSweeps] /\ sweep' \in [RankScopes -> Sweeps]
          /\ \A k \in RankScopes : /\ sweep'[k] = IF k = rank THEN new ELSE sweep[k]
                                   /\ vsweep'[k] = IF k = rank THEN vnew ELSE vsweep[k]
      BY <3>1, <3>2, <1>1, <1>2
    <3>4. ASSUME NEW x \in Banks
          PROVE  SameSweep(x)'
      <4> DEFINE k == At(dev, "Rank", x)
      <4>1. k \in RankScopes
        BY DEF RankScopes
      <4>2. Left(gate', SweepGate(x)) = IF k = rank THEN left ELSE Left(gate, SweepGate(x))
        <5>1. sweep'[rank].count = new.count
          BY <3>3, <1>1
        <5>2. Left(gate', SweepGate(x)) =
                IF k = rank
                THEN IF cmd = "REFAB" THEN D(T.nRFC)
                     ELSE IF sweep'[rank].count = 0 THEN D(long) ELSE D(short)
                ELSE Left(gate, SweepGate(x))
          BY <1>7, <1>4, <2>14, SweepGateAfter
        <5> HIDE DEF k, rank, long, short
        <5> QED BY <5>1, <5>2, <3>2, <2>14
      <4>3. SameSweep(x)
        BY <2>2
      <4>4. /\ vsweep'[k].count = sweep'[k].count /\ vsweep'[k].visited = sweep'[k].visited
            /\ vsweep'[k].left = Left(gate', SweepGate(x)) /\ sweep'[k].count < pairs
        <5>1. CASE k = rank
          BY <5>1, <4>1, <4>2, <3>2, <3>3
        <5>2. CASE k # rank
          BY <5>2, <4>1, <4>2, <4>3, <3>3 DEF SameSweep, pairs
        <5> QED BY <5>1, <5>2
      <4> QED BY <4>4, <1>5 DEF SameSweep, pairs
    <3> QED BY <3>3, <3>4
  <2> QED BY <2>13, <2>14
<1> QED BY <1>6, <1>7


\* The WCK gates that a command sets.
LEMMA WckSet ==
  ASSUME dev \in DOMAIN Devices, NEW cmd \in Commands \ {"WCKSYNC"}, NEW b, NEW k,
         k[1] \in {"wck_ready", "wck_until"}
  PROVE  LET train == D(Larger(1, T.nWCKTRAIN))
             ready == IF cmd = "WCKTRAIN" THEN train ELSE D(Larger(1, T.nWCK2CK))
             until == IF cmd = "WCKTRAIN" THEN train + D(Larger(1, T.nWCKPST))
                      ELSE D(Larger(T.nWCKPST, T.nWCK2CK + 1))
         IN /\ k \in DOMAIN SetGates(cmd, b) <=>
                 k = WckGate(k[1], b) /\ cmd \in {"CASRD", "CASWR", "WCKTRAIN"}
            /\ k \in DOMAIN SetGates(cmd, b) =>
                 SetGates(cmd, b)[k] = IF k[1] = "wck_ready" THEN ready ELSE until
<1> DEFINE train == D(Larger(1, T.nWCKTRAIN))
           ready == IF cmd = "WCKTRAIN" THEN train ELSE D(Larger(1, T.nWCK2CK))
           until == IF cmd = "WCKTRAIN" THEN train + D(Larger(1, T.nWCKPST))
                    ELSE D(Larger(T.nWCKPST, T.nWCK2CK + 1))
           Not(S) == k \notin DOMAIN S
<1>1. \A f, g : Not(f) /\ Not(g) => Not(f ++ g)
  BY OverAt
<1>2. \A n, x : /\ Not(Shut(BankGate("next_rd", x), n)) /\ Not(Shut(BankGate("next_wr", x), n))
                /\ Not(Shut(BankGate("next_pre", x), n)) /\ Not(Shut(BankGate("next_act", x), n))
                /\ Not(Shut(BankGate("next_act2", x), n)) /\ Not(Shut(RowGate("next_act", x), n))
                /\ Not(Shut(GroupGate("next_act", x), n)) /\ Not(Shut(RowGate("next_row", x), n))
                /\ Not(Shut(BankGate("next_any_col", x), n))
                /\ Not(Shut(ColumnGate("next_col", x), n))
                /\ Not(Shut(GroupGate("next_col", x), n)) /\ Not(Shut(WckGate("next_cas", x), n))
  BY ShutAt DEF BankGate, RowGate, GroupGate, ColumnGate, WckGate
<1> HIDE DEF Not
<1>3. CASE cmd \in {"CASRD", "CASWR"}
  <2> DEFINE f == Shut(ColumnGate("next_col", b), 1) ++ Shut(WckGate("next_cas", b), 1)
             g == Shut(WckGate("wck_ready", b), D(Larger(1, T.nWCK2CK)))
             h == Shut(WckGate("wck_until", b), D(Larger(T.nWCKPST, T.nWCK2CK + 1)))
  <2>1. SetGates(cmd, b) = f ++ g ++ h
    BY <1>3 DEF SetGates, DataCommands, Reads, Writes
  <2>2. Not(f)
    BY <1>1, <1>2
  <2> HIDE DEF f
  <2>3. /\ k \in DOMAIN g <=> k = WckGate("wck_ready", b)
        /\ k \in DOMAIN h <=> k = WckGate("wck_until", b)
        /\ k \in DOMAIN g => g[k] = D(Larger(1, T.nWCK2CK))
        /\ k \in DOMAIN h => h[k] = D(Larger(T.nWCKPST, T.nWCK2CK + 1))
    BY ShutAt
  <2> HIDE DEF g, h
  <2>4. k \in DOMAIN SetGates(cmd, b) <=> k \in DOMAIN g \/ k \in DOMAIN h
    BY <2>1, <2>2, OverAt DEF Not
  <2>5. k \in DOMAIN SetGates(cmd, b) =>
          SetGates(cmd, b)[k] = IF k \in DOMAIN g THEN g[k] ELSE h[k]
    BY <2>1, <2>2, OverAt DEF Not
  <2>6. WckGate("wck_ready", b)[1] = "wck_ready" /\ WckGate("wck_until", b)[1] = "wck_until"
    BY DEF WckGate
  <2> QED BY <2>3, <2>4, <2>5, <2>6, <1>3
<1>4. CASE cmd = "WCKTRAIN"
  <2> DEFINE f == Shut(RowGate("next_row", b), train) ++ Shut(WckGate("next_cas", b), train)
             g == Shut(WckGate("wck_ready", b), train)
             h == Shut(WckGate("wck_until", b), train + D(Larger(1, T.nWCKPST)))
  <2>1. SetGates(cmd, b) = f ++ g ++ h
    BY <1>4 DEF SetGates, DataCommands, Reads, Writes
  <2>2. Not(f)
    BY <1>1, <1>2
  <2> HIDE DEF f, train
  <2>3. /\ k \in DOMAIN g <=> k = WckGate("wck_ready", b)
        /\ k \in DOMAIN h <=> k = WckGate("wck_until", b)
        /\ k \in DOMAIN g => g[k] = train
        /\ k \in DOMAIN h => h[k] = train + D(Larger(1, T.nWCKPST))
    BY ShutAt
  <2> HIDE DEF g, h
  <2>4. k \in DOMAIN SetGates(cmd, b) <=> k \in DOMAIN g \/ k \in DOMAIN h
    BY <2>1, <2>2, OverAt DEF Not
  <2>5. k \in DOMAIN SetGates(cmd, b) =>
          SetGates(cmd, b)[k] = IF k \in DOMAIN g THEN g[k] ELSE h[k]
    BY <2>1, <2>2, OverAt DEF Not
  <2>6. WckGate("wck_ready", b)[1] = "wck_ready" /\ WckGate("wck_until", b)[1] = "wck_until"
    BY DEF WckGate
  <2> QED BY <2>3, <2>4, <2>5, <2>6, <1>4 DEF train
<1>5. CASE cmd \notin {"CASRD", "CASWR", "WCKTRAIN"}
  <2> USE DEF Commands, ColumnCommands, RowCommands, DataCommands, Reads, Writes, Opening,
              PerBankMaintenance, AllBank, AllBankMaintenance, Controls
  <2>1. Not(SetGates(cmd, b))
    <3>1. CASE cmd \in {"ACT", "ACT1", "ACT2"}
      BY <3>1, <1>1, <1>2 DEF SetGates
    <3>2. CASE cmd \in {"PREPB", "REFPB", "REFDB", "RFMPB"}
      BY <3>2, <1>1, <1>2 DEF SetGates
    <3>3. CASE cmd \in DataCommands
      BY <3>3, <1>1, <1>2 DEF SetGates
    <3>4. CASE cmd \in {"MRW", "MRR", "ECCSCRUB", "RASERR"}
      BY <3>4, <1>1, <1>2 DEF SetGates
    <3>5. CASE cmd \in {"PREAB", "REFAB", "RFMAB", "DVFS"}
      BY <3>5, <1>1, <1>2 DEF SetGates
    <3> QED BY <3>1, <3>2, <3>3, <3>4, <3>5, <1>5
  <2> QED BY <2>1, <1>5 DEF Not
<1> QED BY <1>3, <1>4, <1>5


\* Every other gate of the WCK domain stays, but a burst prolongs the window.
LEMMA WckGateAfter ==
  ASSUME Shape, GateNat, Windows, NEW c, Issues(c), NEW x \in Banks
  PROVE  LET b == c.r.bank
             mine == At(dev, Dram.wckScope, x) = At(dev, Dram.wckScope, b)
             train == D(Larger(1, T.nWCKTRAIN))
             burst == D((IF c.cmd \in Reads THEN T.nCL ELSE T.nCWL) + T.nBL + T.nWCKPST)
             ready == Left(gate, WckGate("wck_ready", x))
             until == Left(gate, WckGate("wck_until", x))
         IN /\ Left(gate', WckGate("wck_ready", x)) =
                 IF ~mine THEN ready
                 ELSE IF c.cmd \in {"CASRD", "CASWR"} THEN D(Larger(1, T.nWCK2CK))
                 ELSE IF c.cmd = "WCKTRAIN" THEN train ELSE ready
            /\ Left(gate', WckGate("wck_until", x)) =
                 IF ~mine THEN until
                 ELSE IF c.cmd \in {"CASRD", "CASWR"}
                      THEN D(Larger(T.nWCKPST, T.nWCK2CK + 1))
                 ELSE IF c.cmd = "WCKTRAIN" THEN train + D(Larger(1, T.nWCKPST))
                 ELSE IF c.cmd \in DataCommands THEN Larger(until, burst) ELSE until
<1> DEFINE b == c.r.bank
           cmd == c.cmd
           mine == At(dev, Dram.wckScope, x) = At(dev, Dram.wckScope, b)
           train == D(Larger(1, T.nWCKTRAIN))
           burst == D((IF cmd \in Reads THEN T.nCL ELSE T.nCWL) + T.nBL + T.nWCKPST)
           Base(k) == IF k \in DOMAIN SweepGates(cmd, b) THEN SweepGates(cmd, b)[k]
                      ELSE IF k \in DOMAIN SetGates(cmd, b) THEN SetGates(cmd, b)[k]
                      ELSE Left(gate, k)
           ready == WckGate("wck_ready", x)
           until == WckGate("wck_until", x)
           cas == cmd \in {"CASRD", "CASWR"}
           newReady == IF cmd = "WCKTRAIN" THEN train ELSE D(Larger(1, T.nWCK2CK))
           newUntil == IF cmd = "WCKTRAIN" THEN train + D(Larger(1, T.nWCKPST))
                       ELSE D(Larger(T.nWCKPST, T.nWCK2CK + 1))
           sets == mine /\ cmd \in {"CASRD", "CASWR", "WCKTRAIN"}
<1>1. dev \in DOMAIN Devices /\ cmd \in Commands \ {"WCKSYNC"} /\ Dram.lpddr
  BY IssueCommandOf, NoSync DEF Shape, Windows
<1>2. /\ ready[1] = "wck_ready" /\ until[1] = "wck_until"
      /\ ready[1] \in GateNames /\ until[1] \in GateNames
      /\ ready = WckGate(ready[1], b) <=> mine
      /\ until = WckGate(until[1], b) <=> mine
  BY DEF WckGate, GateNames
<1>3. \A k \in {ready, until} : k \notin DOMAIN SweepGates(cmd, b)
  BY <1>2, SweepNames DEF SweepGate
<1> HIDE DEF ready, until
<1>4. /\ ready \in DOMAIN SetGates(cmd, b) <=> sets
      /\ ready \in DOMAIN SetGates(cmd, b) => SetGates(cmd, b)[ready] = newReady
  <2> HIDE DEF newReady, train
  <2> QED BY <1>1, <1>2, WckSet DEF newReady, train
<1>5. /\ until \in DOMAIN SetGates(cmd, b) <=> sets
      /\ until \in DOMAIN SetGates(cmd, b) => SetGates(cmd, b)[until] = newUntil
  BY <1>1, <1>2, WckSet
<1> HIDE DEF newReady, newUntil, burst, train
<1>6. /\ Base(ready) = IF sets THEN newReady ELSE Left(gate, ready)
      /\ Base(until) = IF sets THEN newUntil ELSE Left(gate, until)
  BY <1>3, <1>4, <1>5
<1>7. /\ Base(ready) \in Nat /\ Base(until) \in Nat
      /\ Left(gate', ready) = Larger(Base(ready), Left(MovedGates(cmd, b), ready))
      /\ Left(gate', until) = Larger(Base(until), Left(MovedGates(cmd, b), until))
  BY <1>2, OtherGateAfter
<1>8. Left(MovedGates(cmd, b), ready) = 0
  BY <1>2, MovedNames DEF Left
<1>9. /\ Left(MovedGates(cmd, b), until) =
           IF mine /\ cmd \in DataCommands THEN burst ELSE 0
      /\ Left(MovedGates(cmd, b), until) \in Nat
  <2> DEFINE moved == MovedGates(cmd, b)
  <2>1. until \in DOMAIN moved =>
          /\ moved[until] \in Nat /\ mine /\ cmd \in DataCommands /\ moved[until] = burst
    BY <1>1, <1>2, MovedAt DEF burst
  <2>2. mine /\ cmd \in DataCommands => until \in DOMAIN moved
    <3> SUFFICES ASSUME mine, cmd \in DataCommands
                 PROVE  until \in DOMAIN moved
      OBVIOUS
    <3> DEFINE recovery == IF cmd \in Reads THEN T.nRTP ELSE WriteRecovery(T)
               raw == IF cmd \in Reads THEN T.nCL ELSE T.nCWL
               f == Shut(BankGate("next_pre", b), D(recovery))
                    ++ (IF cmd \in Closing
                        THEN Shut(BankGate("next_act", b), D(recovery) + D(T.nRP)) ELSE NoGates)
               h == Shut(WckGate("wck_until", b), D(raw + T.nBL + T.nWCKPST))
    <3>1. moved = f ++ h
      BY <1>1 DEF MovedGates, DataCommands, Reads, Writes
    <3>2. until = WckGate("wck_until", b)
      BY <1>2
    <3>3. until \in DOMAIN h
      BY <3>2, ShutAt
    <3> HIDE DEF f, h, moved
    <3> QED BY <3>1, <3>3, OverAt
  <2> HIDE DEF moved
  <2> QED BY <2>1, <2>2 DEF Left, moved
<1>10. Left(gate, until) \in Nat
  BY DEF GateNat
<1>11. cmd \in DataCommands => ~sets
  BY DEF DataCommands, Reads, Writes
<1> HIDE DEF Base
<1>12. Left(gate', ready) = IF sets THEN newReady ELSE Left(gate, ready)
  BY <1>6, <1>7, <1>8 DEF Larger
<1>13. Left(gate', until) = IF sets THEN newUntil
                            ELSE IF mine /\ cmd \in DataCommands
                                 THEN Larger(Left(gate, until), burst) ELSE Left(gate, until)
  <2> HIDE DEF sets, mine
  <2> QED BY <1>6, <1>7, <1>9, <1>11 DEF Larger
<1> HIDE DEF mine
<1> DEFINE casReady == D(Larger(1, T.nWCK2CK))
           casUntil == D(Larger(T.nWCKPST, T.nWCK2CK + 1))
           trainUntil == train + D(Larger(1, T.nWCKPST))
<1>14. /\ newReady = IF cmd = "WCKTRAIN" THEN train ELSE casReady
       /\ newUntil = IF cmd = "WCKTRAIN" THEN trainUntil ELSE casUntil
  BY DEF newReady, newUntil
<1> HIDE DEF casReady, casUntil, trainUntil
<1>15. Left(gate', ready) = IF ~mine THEN Left(gate, ready)
                            ELSE IF cmd \in {"CASRD", "CASWR"} THEN casReady
                            ELSE IF cmd = "WCKTRAIN" THEN train ELSE Left(gate, ready)
  BY <1>12, <1>14
<1>16. Left(gate', until) =
         IF ~mine THEN Left(gate, until)
         ELSE IF cmd \in {"CASRD", "CASWR"} THEN casUntil
         ELSE IF cmd = "WCKTRAIN" THEN trainUntil
         ELSE IF cmd \in DataCommands THEN Larger(Left(gate, until), burst)
         ELSE Left(gate, until)
  BY <1>11, <1>13, <1>14
<1> QED BY <1>15, <1>16 DEF mine, burst, train, ready, until, casReady, casUntil, trainUntil


\* The WCK window of every bank after a command.
LEMMA SameWindowIssue ==
  ASSUME Shape, Agreement, dev' = dev, NEW c, Issues(c), V!Replay(issued')
  PROVE  /\ vwck' \in [WckScopes -> [ready : Nat, until : Nat]]
         /\ Windows => \A x \in Banks : SameWindow(x)'
<1> DEFINE b == c.r.bank
           cmd == c.cmd
           scope == At(dev, Dram.wckScope, b)
           train == D(Larger(1, T.nWCKTRAIN))
           burst == D((IF cmd \in Reads THEN T.nCL ELSE T.nCWL) + T.nBL + T.nWCKPST)
           casReady == D(Larger(1, T.nWCK2CK))
           casUntil == D(Larger(T.nWCKPST, T.nWCK2CK + 1))
           trainUntil == train + D(Larger(1, T.nWCKPST))
           Window == [ready : Nat, until : Nat]
           w == vwck[scope]
           new == IF cmd \in {"CASRD", "CASWR"} THEN [ready |-> casReady, until |-> casUntil]
                  ELSE IF cmd = "WCKTRAIN" THEN [ready |-> train, until |-> trainUntil]
                  ELSE IF cmd \in DataCommands
                  THEN [ready |-> w.ready, until |-> Larger(w.until, burst)]
                  ELSE w
<1>1. /\ dev \in DOMAIN Devices /\ b \in Banks /\ scope \in WckScopes
      /\ cmd \in Commands \ {"WCKSYNC"}
  BY IssueCommandOf, NoSync DEF Shape, WckScopes
<1>2. vwck \in [WckScopes -> Window] /\ vwck' = V!ReplayWck(issued') /\ GateNat
  BY DEF Agreement, JudgeType, V!Replay
<1>3. /\ Windows' = Windows /\ \A x : WckGate("wck_ready", x)' = WckGate("wck_ready", x)
      /\ \A x : WckGate("wck_until", x)' = WckGate("wck_until", x)
      /\ \A x : At(dev, Dram.wckScope, x)' = At(dev, Dram.wckScope, x)
  BY DeviceStays DEF Windows, WckGate, At
<1>4. V!ChecksWck <=> Windows
  BY SamePlaces DEF V!ChecksWck, Windows
<1>5. CASE ~Windows
  <2>1. vwck' = vwck
    BY <1>2, <1>4, <1>5 DEF V!ReplayWck
  <2> QED BY <2>1, <1>2, <1>5
<1>6. CASE Windows
  <2>1. /\ train \in Nat /\ burst \in Nat /\ casReady \in Nat /\ casUntil \in Nat
        /\ trainUntil \in Nat
    <3>1. \A n \in TimingNames : T[n] \in Int
      BY <1>1, TimingInt
    <3>2. {T.nWCKTRAIN, T.nWCKPST, T.nWCK2CK, T.nCL, T.nCWL, T.nBL} \subseteq Int
      BY <3>1 DEF TimingNames
    <3>3. {Larger(1, T.nWCKTRAIN), Larger(1, T.nWCK2CK), Larger(T.nWCKPST, T.nWCK2CK + 1),
           Larger(1, T.nWCKPST),
           (IF cmd \in Reads THEN T.nCL ELSE T.nCWL) + T.nBL + T.nWCKPST} \subseteq Int
      BY <3>2 DEF Larger
    <3>4. D(Larger(1, T.nWCKPST)) \in Nat
      BY <1>1, <3>3, DelayNat
    <3> QED BY <1>1, <3>3, <3>4, DelayNat
  <2>2. w \in Window
    BY <1>1, <1>2
  <2>3. /\ new \in Window
        /\ new.ready = IF cmd \in {"CASRD", "CASWR"} THEN casReady
                       ELSE IF cmd = "WCKTRAIN" THEN train ELSE w.ready
        /\ new.until = IF cmd \in {"CASRD", "CASWR"} THEN casUntil
                       ELSE IF cmd = "WCKTRAIN" THEN trainUntil
                       ELSE IF cmd \in DataCommands THEN Larger(w.until, burst) ELSE w.until
    <3> HIDE DEF w, train, burst, casReady, casUntil, trainUntil
    <3>1. Larger(w.until, burst) \in Nat
      BY <2>1, <2>2 DEF Larger
    <3>2. CASE cmd \in {"CASRD", "CASWR"}
      BY <3>2, <2>1
    <3>3. CASE cmd = "WCKTRAIN"
      BY <3>3, <2>1
    <3>4. CASE cmd \in DataCommands
      BY <3>4, <3>1, <2>2 DEF DataCommands, Reads, Writes
    <3>5. CASE cmd \notin DataCommands \cup {"CASRD", "CASWR", "WCKTRAIN"}
      BY <3>5, <2>2
    <3> QED BY <3>2, <3>3, <3>4, <3>5
  <2>4. vwck' = [vwck EXCEPT ![scope] = new]
    <3> USE <1>2, <1>4, <1>6, IssuedIs, SamePlaces, SameClasses
            DEF V!ReplayWck
    <3>1. CASE cmd \in {"CASRD", "CASWR"}
      BY <3>1 DEF DataCommands, Reads, Writes
    <3>2. CASE cmd = "WCKTRAIN"
      BY <3>2 DEF DataCommands, Reads, Writes
    <3>3. CASE cmd \in DataCommands
      <4>1. vwck' = [vwck EXCEPT ![scope].until = Larger(@, burst)]
        BY <3>3 DEF DataCommands, Reads, Writes
      <4> HIDE DEF burst, scope
      <4>2. new = [ready |-> w.ready, until |-> Larger(w.until, burst)]
        BY <3>3 DEF DataCommands, Reads, Writes
      <4>3. [w EXCEPT !.until = Larger(@, burst)] = new
        BY <2>2, <4>2
      <4> QED BY <4>1, <4>3
    <3>4. CASE cmd \notin DataCommands \cup {"CASRD", "CASWR", "WCKTRAIN"}
      <4>1. vwck' = vwck
        BY <3>4, <1>1
      <4>2. new = w
        BY <3>4
      <4> QED BY <4>1, <4>2, <1>1
    <3> QED BY <3>1, <3>2, <3>3, <3>4
  <2> HIDE DEF new
  <2>5. /\ vwck' \in [WckScopes -> Window]
        /\ \A k \in WckScopes : vwck'[k] = IF k = scope THEN new ELSE vwck[k]
    BY <2>3, <2>4, <1>1, <1>2
  <2>6. ASSUME NEW x \in Banks
        PROVE  SameWindow(x)'
    <3> DEFINE k == At(dev, Dram.wckScope, x)
    <3>1. k \in WckScopes
      BY DEF WckScopes
    <3>2. SameWindow(x) /\ SameWindow(b)
      BY <1>1, <1>6 DEF Agreement
    <3>3. k = scope => vwck[k] = w
      OBVIOUS
    <3>4. /\ vwck[k].ready = Left(gate, WckGate("wck_ready", x))
          /\ vwck[k].until = Left(gate, WckGate("wck_until", x))
      BY <3>2 DEF SameWindow
    <3>5. /\ Left(gate', WckGate("wck_ready", x)) =
               IF k # scope THEN vwck[k].ready
               ELSE IF cmd \in {"CASRD", "CASWR"} THEN casReady
               ELSE IF cmd = "WCKTRAIN" THEN train ELSE vwck[k].ready
          /\ Left(gate', WckGate("wck_until", x)) =
               IF k # scope THEN vwck[k].until
               ELSE IF cmd \in {"CASRD", "CASWR"} THEN casUntil
               ELSE IF cmd = "WCKTRAIN" THEN trainUntil
               ELSE IF cmd \in DataCommands THEN Larger(vwck[k].until, burst)
               ELSE vwck[k].until
      BY <1>2, <1>6, <3>4, WckGateAfter
    <3> HIDE DEF train, burst, casReady, casUntil, trainUntil, scope, k, w
    <3>6. /\ vwck'[k].ready = Left(gate', WckGate("wck_ready", x))
          /\ vwck'[k].until = Left(gate', WckGate("wck_until", x))
      <4>1. CASE k = scope
        BY <4>1, <3>1, <3>3, <3>5, <2>3, <2>5
      <4>2. CASE k # scope
        BY <4>2, <3>1, <3>5, <2>5
      <4> QED BY <4>1, <4>2
    <3> QED BY <3>6, <1>3 DEF SameWindow, k
  <2> QED BY <2>5, <2>6
<1> QED BY <1>5, <1>6

LEMMA AgreementIssue ==
  ASSUME Shape, Covered(dev), Ownership, Deadlines, Agreement, dev' = dev,
         NEW c, Issues(c), V!Replay(issued')
  PROVE  Agreement'
<1>1. /\ Dram' = Dram /\ Banks' = Banks /\ Windows' = Windows
      /\ RankScopes' = RankScopes /\ WckScopes' = WckScopes
  BY DeviceStays DEF Windows, RankScopes, WckScopes, At
<1>2. GateNat'
  BY GateNatStep DEF Agreement
<1>3. JudgeType'
  BY <1>1, JudgeBankMoves, SameSweepIssue, SameWindowIssue DEF JudgeType, JudgeBanks
<1>4. \A x \in Banks : SameBank(x)' /\ (bank'[x].activating => SameActivation(x)')
  BY SameBankIssue, SameActivationIssue
<1>5. SameRules' /\ SameModes' /\ errors' = {}
  BY SameRulesIssue, SameModesIssue, NoErrors
<1>6. (Dram.dualBankRefresh => \A x \in Banks : SameSweep(x)')
      /\ (Windows => \A x \in Banks : SameWindow(x)')
  BY SameSweepIssue, SameWindowIssue
<1> QED BY <1>1, <1>2, <1>3, <1>4, <1>5, <1>6 DEF Agreement


\* A cycle of the trace is a tick of the controller.
LEMMA AgreementTick ==
  ASSUME Shape, Covered(dev), Agreement, dev' = dev, Advance, V!Elapse
  PROVE  Agreement'
<1>0. /\ Dram' = Dram /\ Banks' = Banks /\ Windows' = Windows
      /\ RankScopes' = RankScopes /\ WckScopes' = WckScopes
      /\ PairCount(dev)' = PairCount(dev)
  BY DeviceStays DEF Windows, RankScopes, WckScopes, At, PairCount, Partner, BanksOf
<1>1. /\ gate' = OneTickLess(gate)
      /\ bank' = [b \in Banks |-> [bank[b] EXCEPT !.deadline = Larger(-1, @ - 1)]]
      /\ acts' = [s \in DOMAIN acts |-> Aged(dev, acts[s])]
      /\ rising' = (Dram.edgePairing /\ ~rising)
      /\ edge' = IF edge.left > 0 THEN [edge EXCEPT !.left = @ - 1] ELSE NoEdge
      /\ sweep' = sweep /\ retrain' = retrain /\ queue'["Active"] = queue["Active"]
  BY DEF Advance, Shape, QueueType, Kinds
<1>2. /\ vbank' = [b \in Banks |-> [vbank[b] EXCEPT
                     !.ready = V!Sooner(@),
                     !.deadline = IF vbank[b].activating THEN Larger(-1, @ - 1) ELSE 0]]
      /\ vgate' = OneTickLess(vgate)
      /\ vacts' = [s \in DOMAIN vacts |-> Aged(dev, vacts[s])]
      /\ vwck' = [s \in DOMAIN vwck |-> [ready |-> V!Sooner(vwck[s].ready),
                                         until |-> V!Sooner(vwck[s].until)]]
      /\ vsweep' = [s \in DOMAIN vsweep |-> [vsweep[s] EXCEPT !.left = V!Sooner(@)]]
      /\ vpair' = IF vpair.left > 0 THEN [vpair EXCEPT !.left = @ - 1] ELSE V!NoPair
      /\ odd' = ~odd /\ vretrain' = vretrain /\ errors' = errors
  BY SamePlaces DEF V!Elapse
<1>3. \A n \in Nat : V!Sooner(n) \in Nat /\ V!Sooner(n) = IF n > 0 THEN n - 1 ELSE 0
  BY DEF V!Sooner
<1>4. GateNat /\ JudgeType
  BY DEF Agreement
<1>5. \A k : /\ Left(gate, k) \in Nat /\ Left(gate', k) = V!Sooner(Left(gate, k))
             /\ Left(gate', k) \in Nat
  <2> SUFFICES ASSUME NEW k
               PROVE  /\ Left(gate, k) \in Nat /\ Left(gate', k) = V!Sooner(Left(gate, k))
                      /\ Left(gate', k) \in Nat
    OBVIOUS
  <2>1. Left(gate, k) \in Nat
    BY <1>4 DEF GateNat
  <2> QED BY <2>1, <1>1, <1>3, TickAt
<1>6. JudgeType'
  <2>1. vbank \in [Banks -> JudgeBanks]
    BY <1>4 DEF JudgeType, JudgeBanks
  <2>2. vbank' \in [Banks -> JudgeBanks]
    <3> SUFFICES ASSUME NEW b \in Banks
                 PROVE  vbank'[b] \in JudgeBanks
      BY <1>2
    <3>1. vbank[b] \in JudgeBanks
      BY <2>1
    <3>2. vbank'[b] = [vbank[b] EXCEPT !.ready = V!Sooner(@),
            !.deadline = IF vbank[b].activating THEN Larger(-1, @ - 1) ELSE 0]
      BY <1>2
    <3>3. V!Sooner(vbank[b].ready) \in Nat /\ Larger(-1, vbank[b].deadline - 1) \in Int
      BY <3>1, <1>3 DEF JudgeBanks, Larger
    <3>4. ASSUME NEW m \in Nat, NEW n \in Int
          PROVE  [vbank[b] EXCEPT !.ready = m, !.deadline = n] \in JudgeBanks
      BY <3>1 DEF JudgeBanks
    <3>5. (IF vbank[b].activating THEN Larger(-1, vbank[b].deadline - 1) ELSE 0) \in Int
      BY <3>3
    <3>6. vbank'[b] = [vbank[b] EXCEPT
              !.ready = V!Sooner(vbank[b].ready),
              !.deadline = IF vbank[b].activating
                           THEN Larger(-1, vbank[b].deadline - 1) ELSE 0]
      BY <3>1, <3>2 DEF JudgeBanks
    <3> QED BY <3>3, <3>4, <3>5, <3>6
  <2>3. vwck' \in [WckScopes -> [ready : Nat, until : Nat]]
    BY <1>2, <1>3, <1>4 DEF JudgeType
  <2>4. vsweep' \in [RankScopes -> [count : Nat, visited : SUBSET Banks, left : Nat]]
    BY <1>2, <1>3, <1>4 DEF JudgeType
  <2> QED BY <2>2, <2>3, <2>4, <1>0, <1>1, <1>4 DEF JudgeType, JudgeBanks
<1>7. ASSUME NEW b \in Banks
      PROVE  SameBank(b)' /\ (bank'[b].activating => SameActivation(b)')
  <2>1. SameBank(b) /\ (bank[b].activating => SameActivation(b))
    BY DEF Agreement
  <2>2. vbank[b] \in JudgeBanks /\ bank[b] \in [row : Nat, activating : BOOLEAN, deadline : Int]
    BY <1>4 DEF JudgeType, JudgeBanks, Shape, BankType
  <2>3. /\ bank'[b].row = bank[b].row /\ bank'[b].activating = bank[b].activating
        /\ bank'[b].deadline = Larger(-1, bank[b].deadline - 1)
    BY <1>1, <2>2
  <2>4. vbank'[b] = [vbank[b] EXCEPT !.ready = V!Sooner(@),
            !.deadline = IF vbank[b].activating THEN Larger(-1, @ - 1) ELSE 0]
    BY <1>2
  <2>5. /\ vbank'[b].row = vbank[b].row /\ vbank'[b].activating = vbank[b].activating
        /\ vbank'[b].request = vbank[b].request /\ vbank'[b].target = vbank[b].target
        /\ vbank'[b].ready = V!Sooner(vbank[b].ready)
        /\ vbank[b].activating => vbank'[b].deadline = Larger(-1, vbank[b].deadline - 1)
    BY <2>2, <2>4 DEF JudgeBanks
  <2>6. SameBank(b)'
    BY <2>1, <2>3, <2>5 DEF SameBank
  <2>7. Act2Gate(b)' = Act2Gate(b)
    BY DEF Act2Gate, BankGate, At
  <2>8. Active' = Active
    BY <1>1 DEF Active
  <2>9. bank'[b].activating => SameActivation(b)'
    BY <2>1, <2>3, <2>5, <2>7, <2>8, <1>5 DEF SameBank, SameActivation
  <2> QED BY <2>6, <2>9
<1>8. SameRules'
  <2> SUFFICES ASSUME NEW k, k[1] \in Commands
               PROVE  Left(vgate', k) = Left(gate', k)
    BY DEF SameRules
  <2>1. Left(vgate, k) = Left(gate, k)
    BY DEF Agreement, SameRules
  <2> QED BY <2>1, <1>1, <1>2, <1>5, TickAt
<1>9. SameModes'
  <2>1. SameModes
    BY DEF Agreement
  <2>2. vacts' = acts' /\ vretrain' = retrain' /\ (retrain' => Dram.lpddr)
    BY <2>1, <1>1, <1>2 DEF SameModes
  <2>3. V!NoPair = NoEdge
    BY DEF V!NoPair, NoEdge
  <2>4. Dram.edgePairing => vpair' = edge' /\ odd' = rising'
    BY <2>1, <2>3, <1>1, <1>2 DEF SameModes
  <2>5. odd' \in BOOLEAN /\ rising' \in BOOLEAN
    BY <1>1, <1>2
  <2> QED BY <2>2, <2>4, <2>5, <1>0 DEF SameModes
<1>10. ASSUME Dram.dualBankRefresh, NEW b \in Banks
       PROVE  SameSweep(b)'
  <2> DEFINE k == At(dev, "Rank", b)
  <2>1. SameSweep(b) /\ k \in RankScopes
    BY <1>10 DEF Agreement, RankScopes
  <2>2. vsweep[k] \in [count : Nat, visited : SUBSET Banks, left : Nat] /\ k \in DOMAIN vsweep
    BY <1>4, <2>1 DEF JudgeType
  <2>3. vsweep'[k] = [vsweep[k] EXCEPT !.left = V!Sooner(@)]
    BY <1>2, <2>2
  <2>4. /\ vsweep'[k].count = vsweep[k].count /\ vsweep'[k].visited = vsweep[k].visited
        /\ vsweep'[k].left = V!Sooner(vsweep[k].left)
    BY <2>2, <2>3
  <2>5. SweepGate(b)' = SweepGate(b) /\ k' = k
    BY DEF SweepGate, At
  <2> HIDE DEF k
  <2>6. /\ vsweep[k].count = sweep[k].count /\ vsweep[k].visited = sweep[k].visited
        /\ vsweep[k].left = Left(gate, SweepGate(b)) /\ sweep[k].count < PairCount(dev)
    BY <2>1 DEF SameSweep, k
  <2>7. /\ vsweep'[k].count = sweep'[k].count /\ vsweep'[k].visited = sweep'[k].visited
        /\ vsweep'[k].left = Left(gate', SweepGate(b)) /\ sweep'[k].count < PairCount(dev)
    BY <2>4, <2>6, <1>1, <1>5
  <2> QED BY <2>5, <2>7, <1>0 DEF SameSweep, k
<1>11. ASSUME Windows, NEW b \in Banks
       PROVE  SameWindow(b)'
  <2> DEFINE k == At(dev, Dram.wckScope, b)
  <2>1. SameWindow(b) /\ k \in WckScopes
    BY <1>11 DEF Agreement, WckScopes
  <2>2. k \in DOMAIN vwck
    BY <1>4, <2>1 DEF JudgeType
  <2>3. vwck'[k].ready = V!Sooner(vwck[k].ready) /\ vwck'[k].until = V!Sooner(vwck[k].until)
    BY <1>2, <2>2
  <2>4. /\ k' = k /\ WckGate("wck_ready", b)' = WckGate("wck_ready", b)
        /\ WckGate("wck_until", b)' = WckGate("wck_until", b)
    BY <1>0 DEF WckGate, At
  <2>5. /\ vwck'[k].ready = Left(gate', WckGate("wck_ready", b))
        /\ vwck'[k].until = Left(gate', WckGate("wck_until", b))
    BY <2>1, <2>3, <1>5 DEF SameWindow
  <2> HIDE DEF k
  <2> QED BY <2>4, <2>5 DEF SameWindow, k
<1>12. GateNat' /\ errors' = {}
  BY <1>2, <1>5 DEF GateNat, Agreement
<1> QED BY <1>0, <1>6, <1>7, <1>8, <1>9, <1>10, <1>11, <1>12 DEF Agreement

\* Steps that issue nothing leave the judge and what it follows alone.
LEMMA AgreementRest ==
  ASSUME Agreement, dev' = dev, Unjudged, Active' = Active,
         UNCHANGED <<bank, gate, acts, sweep, retrain, rising, edge>>
  PROVE  Agreement'
<1>1. /\ Dram' = Dram /\ Banks' = Banks /\ Windows' = Windows
      /\ RankScopes' = RankScopes /\ WckScopes' = WckScopes
      /\ PairCount(dev)' = PairCount(dev)
  BY DeviceStays DEF Windows, RankScopes, WckScopes, At, PairCount, Partner, BanksOf
<1>2. UNCHANGED <<vbank, vgate, vacts, vwck, vsweep, vretrain, vpair, odd, errors>>
  BY DEF Unjudged, judgeVars
<1>3. GateNat' /\ JudgeType' /\ SameRules' /\ SameModes' /\ errors' = {}
  BY <1>1, <1>2 DEF Agreement, GateNat, JudgeType, SameRules, SameModes
<1>4. ASSUME NEW b \in Banks
      PROVE  SameBank(b)' = SameBank(b) /\ SameActivation(b)' = SameActivation(b)
             /\ SameSweep(b)' = SameSweep(b) /\ SameWindow(b)' = SameWindow(b)
  BY <1>1, <1>2 DEF SameBank, SameActivation, SameSweep, SameWindow, Act2Gate, BankGate,
                    SweepGate, WckGate, At
<1> QED BY <1>1, <1>2, <1>3, <1>4 DEF Agreement

LEMMA AgreementStep ==
  ASSUME Shape, Covered(dev), Ownership, Deadlines, Agreement, [TraceNext]_traceVars
  PROVE  Agreement'
<1>1. dev' = dev
  BY Steps
<1>2. CASE UNCHANGED traceVars
  BY <1>1, <1>2, AgreementRest DEF traceVars, judgeVars, vars, deviceVars, Unjudged, Active
<1>3. ASSUME NEW r, Given(r), Submit(r), Unjudged
      PROVE  Agreement'
  <2>1. Active' = Active
    <3>1. queue \in [Kinds -> Seq(Requests)]
      BY DEF Shape, QueueType
    <3>2. r.type # "Active"
      BY <1>3 DEF Given, Requests
    <3> QED BY <3>1, <3>2, <1>3 DEF Submit, Active, Kinds
  <2> QED BY <2>1, <1>1, <1>3, AgreementRest DEF Submit, deviceVars
<1>4. CASE Advance /\ V!Elapse
  BY <1>1, <1>4, AgreementTick
<1>5. ASSUME NEW c, Issues(c), V!Replay(issued')
      PROVE  Agreement'
  BY <1>1, <1>5, AgreementIssue
<1>6. CASE BusIdle /\ queue' = queue /\ Unjudged
  BY <1>1, <1>6, AgreementRest DEF BusIdle, OnBus, deviceVars, Active
<1> QED BY <1>2, <1>3, <1>4, <1>5, <1>6, Steps

LEMMA AgreementStart ==
  ASSUME TraceInit
  PROVE  Agreement
<1> USE DEF TraceInit, Init, V!VInit
<1>1. GateNat /\ SameRules
  BY NoGatesAt DEF GateNat, SameRules, Left, V!NoGates, NoGates
<1>2. JudgeType
  BY SamePlaces DEF JudgeType, V!Closed, RankScopes, WckScopes
<1>3. ASSUME NEW b \in Banks
      PROVE  SameBank(b) /\ ~bank[b].activating
  BY SamePlaces DEF SameBank, V!Closed
<1>4. SameModes
  <2>1. V!NoPair = NoEdge
    BY DEF V!NoPair, NoEdge
  <2> QED BY <2>1, SamePlaces DEF SameModes
<1>5. ASSUME Dram.dualBankRefresh, NEW b \in Banks
      PROVE  SameSweep(b)
  <2>1. PairCount(dev) \in Nat \ {0}
    BY <1>5, DeviceAssumption DEF Dram, Banks
  <2>2. Left(gate, SweepGate(b)) = 0
    BY NoGatesAt DEF Left
  <2> QED BY <2>1, <2>2, SamePlaces DEF SameSweep
<1>6. ASSUME NEW b \in Banks
      PROVE  SameWindow(b)
  BY SamePlaces, NoGatesAt DEF SameWindow, Left
<1> QED BY <1>1, <1>2, <1>3, <1>4, <1>5, <1>6 DEF Agreement

-----------------------------------------------------------------------------
(* The theorems *)

\* What holds at the start.
LEMMA Start ==
  ASSUME TraceInit
  PROVE  Shape /\ Ownership /\ Deadlines /\ RfmInv
<1> USE DEF TraceInit, Init
<1>1. QueueType
  BY DeviceFacts DEF QueueType, Kinds
<1>2. BankType
  BY DEF BankType
<1>3. Shape
  BY <1>1, <1>2 DEF Shape, PhaseType
<1>4. /\ Active = <<>> /\ queue["Read"] = <<>> /\ queue["Write"] = <<>>
  BY DEF Active, Kinds
<1>5. Ownership
  BY <1>4 DEF Ownership, Fresh, Owned, OneOwner, ActiveRowsHeld, Active
<1>6. Deadlines
  BY NoGatesAt DEF Deadlines, GateType, Left
<1>7. RfmInv
  <2>1. Line = <<>> /\ Due = {}
    BY DEF Line, Due, Kinds
  <2>2. Queued
    <3>1. DOMAIN Line = {} /\ Due = {}
      BY <2>1
    <3> QED BY <3>1 DEF Queued
  <2>3. RfmType /\ Overflow
    BY DEF RfmType, Overflow
  <2>4. Counted
    <3> SUFFICES ASSUME RfmOn, NEW b \in Banks
                 PROVE  rfm[b].count < Dram.rfmThreshold
      BY RfmFacts DEF Counted, Dram
    <3> QED BY RfmFacts
  <2> QED BY <2>2, <2>3, <2>4 DEF RfmInv
<1> QED BY <1>3, <1>5, <1>6, <1>7

\* The inductive invariant.
Kept == Shape /\ Ownership /\ Deadlines /\ Agreement /\ (OpenPage => RfmInv)

LEMMA BanksAreKept ==
  TraceSpec => [](Covered(dev) => Kept)
<1> DEFINE Inv == Covered(dev) => Kept
<1>1. TraceInit => Inv
  BY Start, AgreementStart DEF Kept
<1>2. Inv /\ [TraceNext]_traceVars => Inv'
  <2> SUFFICES ASSUME Inv, [TraceNext]_traceVars, Covered(dev)'
               PROVE  Kept'
    OBVIOUS
  <2>1. Covered(dev) /\ (OpenPage' = OpenPage)
    <3>1. dev' = dev
      BY DEF TraceNext, SubmitAny, Submit, Advance, SchedulePrecharges, IssueChosen,
             BusIdle, OnBus, traceVars, vars
    <3> QED BY <3>1, DeviceStays DEF OpenPage
  <2>2. Kept
    BY <2>1
  <2> QED BY <2>1, <2>2, ShapeStep, OwnershipStep, DeadlinesStep, AgreementStep,
      RfmStep DEF Kept
<1> QED BY <1>1, <1>2, PTL DEF TraceSpec

\* While a request waits in the active buffer nothing closes the row that its
\* ACT opened, whatever the geometry, the timings and the requests
\* (would_close_active(), under the open-page policy).
THEOREM RowsStayOpen ==
  TraceSpec => [](Covered(dev) /\ Devices[dev].policy = "OpenPage" => ActiveRowsHeld)
<1>1. (Covered(dev) => Kept)
        => (Covered(dev) /\ Devices[dev].policy = "OpenPage" => ActiveRowsHeld)
  BY DEF Kept, Ownership, OpenPage, Dram
<1> QED BY <1>1, BanksAreKept, PTL

\* No ACT2 comes later than nAADMax after its ACT1: pick_urgent_act2() serves the
\* one on its last tick before anything else, its gates are open by then, and one
\* command bus is enough for any number of half open banks.
THEOREM Act2NeverLate ==
  TraceSpec => [](Covered(dev) => Act2InTime)
<1>1. (Covered(dev) => Kept) => (Covered(dev) => Act2InTime)
  BY DEF Kept, Deadlines, Act2InTime
<1> QED BY <1>1, BanksAreKept, PTL

\* A bank or rank whose rolling activation count has reached the threshold has one
\* RFM command waiting until it is issued, and no bank is activated beyond the
\* threshold (RfmManager::on_activate(), on_rfmpb() and on_rfmab(), and the queue
\* of enqueue_internal_maintenance()).
THEOREM RfmIsAsked ==
  TraceSpec => [](Covered(dev) /\ Devices[dev].policy = "OpenPage" => RfmWaiting)
<1>1. (Covered(dev) => Kept)
        => (Covered(dev) /\ Devices[dev].policy = "OpenPage" => RfmWaiting)
  BY QueuedIsWaiting DEF Kept, OpenPage, Dram
<1> QED BY <1>1, BanksAreKept, PTL

\* The offline validator (validate_and_replay_bank_state(), its rule table and its
\* windows) reports nothing about any trace of the controller, and accepts a trace
\* that ends when every queue is empty: an ACT1 without its ACT2 has a request in
\* the active buffer (pop_active_after_row_transition()).
THEOREM ValidatorAgrees ==
  TraceSpec => [](Covered(dev) => ValidatorAccepts)
<1>1. (Covered(dev) => Kept) => (Covered(dev) => ValidatorAccepts)
  <2> SUFFICES ASSUME Kept
               PROVE  ValidatorAccepts
    OBVIOUS
  <2>1. errors = {} /\ \A b \in Banks : SameBank(b)
    BY DEF Kept, Agreement
  <2>2. ASSUME AtRest
        PROVE  V!Accepted
    <3>1. DOMAIN Active = {}
      BY <2>2 DEF AtRest, Active, Kinds
    <3>2. \A b \in Banks : ~bank[b].activating
      BY <3>1 DEF Kept, Ownership, Owned
    <3>3. \A b \in Banks : ~vbank[b].activating
      BY <2>1, <3>2 DEF SameBank
    <3> QED BY <2>1, <3>3, SamePlaces DEF V!Accepted
  <2> QED BY <2>1, <2>2 DEF ValidatorAccepts
<1> QED BY <1>1, BanksAreKept, PTL

=============================================================================
