---------------------------- MODULE Maintenance ----------------------------
(***************************************************************************)
(* The maintenance path of a Controller: refresh commands, control         *)
(* commands of the frontend and the automatic entry and exit of low-power  *)
(* states share the queues pending_maintenance_ and Priority, of which     *)
(* only the head may issue.  Ordinary requests wait while Priority holds   *)
(* anything, and wake a controller that sleeps.                            *)
(*                                                                         *)
(* A tick goes through `phase`: "refresh" (schedule_refresh), "service"    *)
(* (service_pending_maintenance), "issue" (choose, issue), "entry" (the    *)
(* automatic low-power policy).  The frontend acts when it is "idle".      *)
(* Bank timing is left out: a command that is legal may still have to wait *)
(* for any number of ticks.                                                *)
(***************************************************************************)
EXTENDS Refresh, Sequences, SequencesExt, FiniteSets

CONSTANTS
  Setups,        \* [mode, commands, closed, behavioral]: low_power_mode, the
                 \* control sequence, whether data commands close their bank,
                 \* and whether the PHY has states of its own
  PrioritySize,
  EntryDelay,    \* low_power_entry_cycles
  ExitDelay,     \* low_power_exit_latency()
  WakeDelay,     \* nSREFEX
  MaxBacklog,    \* bound: the deadline is put off at this many commands
  MaxCredit      \* bound: or at this credit of a rank

Controls == {"MRW", "PDE", "PDX", "SREFEN", "SREFEX"}

ASSUME MaintenanceAssumption ==
  /\ Setups \subseteq [mode : {"off", "power_down", "self_refresh"},
                        commands : Seq(Controls),
                        closed : BOOLEAN, behavioral : BOOLEAN]
  /\ PrioritySize \in Nat \ {0} /\ WakeDelay \in Nat \ {0}
  /\ EntryDelay \in Nat /\ ExitDelay \in Nat
  /\ MaxBacklog \in Nat /\ MaxCredit \in Nat

VARIABLES
  phase,
  setup,        \* the configuration and control sequence of this run
  sent,         \* how much of the sequence the frontend has submitted
  work,         \* which of Read/Write, Active and pending_ hold requests
  openRow,      \* a bank without an active request is open
  priority,     \* the Priority queue
  pendingMaintenance,
  lowPower,     \* low_power_active_
  powerDown,    \* explicit_power_down_active_
  exitPending,  \* explicit_low_power_exit_pending_
  automatic,    \* automatic_self_refresh_request_ has a value
  blocked,      \* ticks until low_power_exit_until_
  idleFor,      \* ticks since low_power_idle_since_, 0 when it is not set
  phyLow,       \* the PHY is in MemPhyState::LowPower
  written       \* history: MRW commands issued

queues == <<priority, pendingMaintenance>>
powerVars == <<lowPower, powerDown, exitPending, automatic, blocked, idleFor,
               phyLow>>
workVars == <<work, openRow>>
frontVars == <<setup, sent, written>>
vars == <<refreshVars, phase, frontVars, workVars, queues, powerVars>>

-----------------------------------------------------------------------------
Ordinary == work \cap {"queued", "active"} # {}
BankBusy == openRow \/ "active" \in work

\* A request of a maintenance manager or of the frontend.
Command(c) == [cmd |-> c]
AutomaticEntry == [cmd |-> "SREFEN", auto |-> TRUE]
Refreshes(r, slot) == [cmd |-> "REF", rank |-> r, slot |-> slot]

IsExit(q) == q.cmd = "SREFEX"
IsRefreshOf(q, r) == q.cmd = "REF" /\ q.rank = r

MaintenanceInit ==
  /\ RefreshInit
  /\ phase = "idle"
  /\ setup \in Setups /\ sent = 0
  /\ work = {} /\ openRow = FALSE
  /\ priority = <<>> /\ pendingMaintenance = <<>>
  /\ lowPower = FALSE /\ powerDown = FALSE
  /\ exitPending = "none" /\ automatic = FALSE
  /\ blocked = 0 /\ idleFor = 0
  /\ phyLow = FALSE
  /\ written = 0

\* schedule_maintenance(): a wake-up goes first and is not repeated.
Waiting == Range(priority) \cup Range(pendingMaintenance)
ScheduledExit(c, pending) ==
  IF c # "SREFEX" THEN Append(pending, Command(c))
  ELSE IF \E q \in Waiting : IsExit(q) THEN pending
  ELSE <<Command(c)>> \o pending

-----------------------------------------------------------------------------
(* enqueue() of an ordinary request.  It first withdraws the automatic     *)
(* SREFEN (it has an id of its own) when it has not issued, then asks for  *)
(* the exit from a low-power state; both stay when the request is refused. *)

FaultWithdrawn(queue) == queue
Withdrawn(queue) ==
  IF automatic THEN RemoveFirst(queue, AutomaticEntry) ELSE queue

Wakes == lowPower /\ (powerDown \/ asleep) /\ exitPending = "none"
WakeCommand == IF asleep THEN "SREFEX" ELSE "PDX"

Submit ==
  /\ phase = "idle" /\ sent = Len(setup.commands)
  /\ work' \in {work, work \cup {"queued"}, work \cup {"pending"}}
  /\ priority' = Withdrawn(priority)
  /\ pendingMaintenance' = IF Wakes
                           THEN ScheduledExit(WakeCommand,
                                              Withdrawn(pendingMaintenance))
                           ELSE Withdrawn(pendingMaintenance)
  /\ exitPending' = IF Wakes THEN WakeCommand ELSE exitPending
  /\ automatic' = FALSE
  /\ idleFor' = IF automatic THEN 0 ELSE idleFor
  /\ IF lowPower /\ ~powerDown /\ ~asleep
     THEN /\ lowPower' = FALSE
          /\ blocked' = IF blocked > ExitDelay THEN blocked ELSE ExitDelay
     ELSE UNCHANGED <<lowPower, blocked>>
  /\ UNCHANGED <<refreshVars, phase, frontVars, openRow, powerDown, phyLow>>

\* enqueue() of a control command: into Priority, when it has room.
SubmitControl ==
  /\ phase = "idle" /\ sent < Len(setup.commands)
  /\ Len(priority) < PrioritySize
  /\ priority' = Append(priority, Command(setup.commands[sent + 1]))
  /\ sent' = sent + 1
  /\ UNCHANGED <<refreshVars, phase, setup, written, workVars,
                 pendingMaintenance, powerVars>>

-----------------------------------------------------------------------------
(* tick(): the clock, complete_pending(), and the wake-up check.  While a  *)
(* low-power state is being left nothing else happens.                     *)

RoomForDeadline ==
  /\ Len(priority) + Len(pendingMaintenance) < MaxBacklog
  /\ \A r \in Rank : credit[r] < MaxCredit

NeedsWakeup(q) == q.cmd \notin {"SREFEX", "SREFEN"}

Blocked == blocked > 1

\* The time since low_power_idle_since_ goes on, up to what is compared.
Longer == IF idleFor > EntryDelay THEN idleFor ELSE idleFor + 1

FaultMustWake == asleep /\ exitPending = "none" /\ Ordinary
MustWake ==
  /\ asleep /\ exitPending = "none"
  /\ Ordinary \/ \E q \in Waiting : NeedsWakeup(q)

Tick ==
  /\ phase = "idle"
  /\ IF left = 1 /\ ~RoomForDeadline
     THEN UNCHANGED refreshVars
     ELSE Clock
  /\ work' \in {work, work \ {"pending"}}
  /\ blocked' = IF blocked > 0 THEN blocked - 1 ELSE 0
  /\ phase' = IF Blocked THEN "idle" ELSE "refresh"
  /\ IF ~Blocked /\ MustWake
     THEN /\ pendingMaintenance' = ScheduledExit("SREFEX", pendingMaintenance)
          /\ exitPending' = "SREFEX"
     ELSE UNCHANGED <<pendingMaintenance, exitPending>>
  /\ idleFor' = IF Blocked /\ idleFor > 0 THEN Longer ELSE idleFor
  /\ UNCHANGED <<frontVars, openRow, priority, lowPower, powerDown, automatic,
                 phyLow>>

\* schedule_refresh(): the commands of a batch join pending_maintenance_.
\* REFab names an SID where REFpb names a bank position.
Batch(r) ==
  IF AllBank
  THEN [i \in 1 .. BatchSize |-> Refreshes(r, (i - 1) % Sids)]
  ELSE [i \in 1 .. BatchSize |-> Refreshes(r, cursor[r])]

\* What allow_pull_in asks for; done() wants an idle PHY besides.
Quiet == work = {} /\ priority = <<>> /\ pendingMaintenance = <<>>

ScheduleRefresh ==
  /\ phase = "refresh" /\ phase' = "service"
  /\ \/ \E r \in Rank :
          /\ Repay(r, Ordinary) \/ PullIn(r, Ordinary, Quiet)
          /\ pendingMaintenance' = pendingMaintenance \o Batch(r)
     \/ /\ (\E r \in Rank : Postpone(r, Ordinary)) \/ Rest(Ordinary, Quiet)
        /\ UNCHANGED pendingMaintenance
  /\ UNCHANGED <<frontVars, workVars, priority, powerVars>>

-----------------------------------------------------------------------------
(* service_pending_maintenance(): in self-refresh the exit goes to the     *)
(* front of its queue, and takes the place of the last command of a full   *)
(* Priority queue; then commands move over while there is room.            *)

ExitFirst(queue) ==
  LET i == SelectInSeq(queue, IsExit)
  IN  IF i = 0 THEN queue ELSE <<queue[i]>> \o RemoveAt(queue, i)

FaultFillFront(pri, pending) ==
  LET room == PrioritySize - Len(pri)
      n == IF Len(pending) < room THEN Len(pending) ELSE room
  IN  /\ priority' = SubSeq(pending, 1, n) \o pri
      /\ pendingMaintenance' = SubSeq(pending, n + 1, Len(pending))
FaultFill(pri, pending) ==
  /\ priority' = pri \o pending
  /\ pendingMaintenance' = <<>>
\* pending_maintenance_ never holds two exits (schedule_maintenance()).
Fill(pri, pending) ==
  LET room == PrioritySize - Len(pri)
      n == IF Len(pending) < room THEN Len(pending) ELSE room
      moved == ExitFirst(SubSeq(pending, 1, n))
  IN  /\ priority' = IF moved # <<>> /\ IsExit(Head(moved))
                     THEN <<Head(moved)>> \o pri \o Tail(moved)
                     ELSE pri \o moved
      /\ pendingMaintenance' = SubSeq(pending, n + 1, Len(pending))

\* The last command of Priority goes back to the front of the other queue.
FaultDropDisplaced(pri, pending) == Tail(pending)
Displaced(pri, pending) == <<Last(pri)>> \o Tail(pending)

Service ==
  /\ phase = "service" /\ phase' = "issue"
  /\ LET pri == IF asleep THEN ExitFirst(priority) ELSE priority
         pending == IF asleep THEN ExitFirst(pendingMaintenance)
                    ELSE pendingMaintenance
     IN  IF /\ asleep /\ Len(pri) = PrioritySize
            /\ pending # <<>> /\ IsExit(Head(pending))
         THEN Fill(<<Head(pending)>> \o Front(pri), Displaced(pri, pending))
         ELSE Fill(pri, pending)
  /\ UNCHANGED <<refreshVars, frontVars, workVars, powerVars>>

-----------------------------------------------------------------------------
(* choose() and issue().                                                   *)

\* self_refresh_active and low_power_active of the state snapshot.
SelfRefreshed == asleep \/ (lowPower /\ setup.mode = "self_refresh")
LowPowered == powerDown \/ (lowPower /\ setup.mode # "self_refresh")

\* check_command_state() and timing_ok(); a REF closes its banks first.
Legal(c) ==
  /\ SelfRefreshed => c = "SREFEX"
  /\ c \in {"MRW", "PDE"} => ~LowPowered
  /\ c \in {"MRW", "PDE", "SREFEN"} => ~BankBusy
  /\ c = "PDX" => LowPowered
  /\ c = "SREFEX" => SelfRefreshed

\* can_accept_command()
PhyAccepts(c) == phyLow => c \in {"PDX", "SREFEX"}

\* pick_priority_if(): only the head of Priority.
\* The command leaves the queue.
Issue(c) ==
  /\ phase = "issue" /\ phase' = "entry"
  /\ priority # <<>> /\ Head(priority).cmd = c
  /\ Legal(c) /\ PhyAccepts(c)
  /\ priority' = Tail(priority)

\* explicit_low_power_exit_pending_ is reset by the exit it waits for.
FaultExitDone(c) == exitPending' = exitPending
ExitDone(c) == exitPending' = IF exitPending = c THEN "none" ELSE exitPending

\* The banks of the REF are closed first, others may stay open.
IssueRefresh ==
  /\ Issue("REF")
  /\ \E r \in Rank : IsRefreshOf(Head(priority), r) /\ Serve(r)
  /\ openRow' \in {openRow, FALSE}
  /\ UNCHANGED <<frontVars, work, pendingMaintenance, powerVars>>

IssueMRW ==
  /\ Issue("MRW")
  /\ written' = written + 1
  /\ UNCHANGED <<refreshVars, setup, sent, workVars, pendingMaintenance,
                 powerVars>>

IssuePDE ==
  /\ Issue("PDE")
  /\ powerDown' = TRUE /\ lowPower' = TRUE /\ phyLow' = setup.behavioral
  /\ UNCHANGED <<refreshVars, frontVars, workVars, pendingMaintenance,
                 exitPending, automatic, blocked, idleFor>>

IssuePDX ==
  /\ Issue("PDX")
  /\ powerDown' = FALSE /\ lowPower' = asleep /\ phyLow' = FALSE
  /\ ExitDone("PDX")
  /\ UNCHANGED <<refreshVars, frontVars, workVars, pendingMaintenance,
                 automatic, blocked, idleFor>>

IssueSREFEN ==
  /\ Issue("SREFEN")
  /\ SetSelfRefresh(TRUE)
  /\ lowPower' = TRUE /\ automatic' = FALSE /\ phyLow' = setup.behavioral
  /\ UNCHANGED <<frontVars, workVars, pendingMaintenance, powerDown,
                 exitPending, blocked, idleFor>>

IssueSREFEX ==
  /\ Issue("SREFEX")
  /\ SetSelfRefresh(FALSE)
  /\ lowPower' = powerDown /\ phyLow' = FALSE
  /\ ExitDone("SREFEX")
  /\ blocked' = IF blocked > WakeDelay THEN blocked ELSE WakeDelay
  /\ UNCHANGED <<frontVars, workVars, pendingMaintenance, powerDown,
                 automatic, idleFor>>

IssueHead == \/ IssueRefresh \/ IssueMRW \/ IssuePDE \/ IssuePDX
             \/ IssueSREFEN \/ IssueSREFEX

\* Ordinary commands; there may be one on each bus of a tick.  Queued requests
\* are served only while Priority is empty.
CanWork == phase = "issue" /\ ~SelfRefreshed /\ ~phyLow

\* ACT: the request, and perhaps others with it, owns an open bank.
Activate ==
  /\ CanWork /\ priority = <<>>
  /\ "queued" \in work
  /\ work' \in {work \cup {"active"}, (work \ {"queued"}) \cup {"active"}}
  /\ openRow' \in {openRow, FALSE}
  /\ UNCHANGED <<refreshVars, phase, frontVars, queues, powerVars>>

\* RD, WR: the last active request may leave its row open.
FinishActive ==
  /\ CanWork /\ "active" \in work
  /\ work' \in {work \cup {"pending"}, (work \ {"active"}) \cup {"pending"}}
  /\ IF setup.closed THEN UNCHANGED openRow ELSE openRow' = TRUE
  /\ UNCHANGED <<refreshVars, phase, frontVars, queues, powerVars>>

\* RD, WR of a queued request whose row is open.
HitOpenRow ==
  /\ CanWork /\ priority = <<>> /\ BankBusy
  /\ "queued" \in work
  /\ work' \in {work \cup {"pending"}, (work \ {"queued"}) \cup {"pending"}}
  /\ UNCHANGED <<refreshVars, phase, frontVars, openRow, queues, powerVars>>

\* No command, or one that completes nothing (PRE for a REF, CAS, ACT2).
IssueNone ==
  /\ phase = "issue" /\ phase' = "entry"
  /\ UNCHANGED <<refreshVars, frontVars, workVars, queues, powerVars>>

-----------------------------------------------------------------------------
(* The end of tick(): an idle controller enters the low-power state of its *)
(* mode by itself, self-refresh through a command.                         *)

MayEnter(done) == done /\ ~lowPower /\ Longer > EntryDelay

\* A Behavioral PHY may still hold a command in its pipeline.
EndTick ==
  /\ phase = "entry" /\ phase' = "idle"
  /\ \E done \in IF setup.behavioral THEN {FALSE, Quiet} ELSE {Quiet} :
       /\ idleFor' = IF done /\ setup.mode # "off" THEN Longer ELSE 0
       /\ IF MayEnter(done) /\ setup.mode = "self_refresh" /\ ~BankBusy
          THEN /\ pendingMaintenance' = Append(pendingMaintenance,
                                               AutomaticEntry)
               /\ automatic' = TRUE
          ELSE UNCHANGED <<pendingMaintenance, automatic>>
       /\ lowPower' = (lowPower \/ (MayEnter(done)
                                     /\ setup.mode = "power_down"))
  /\ UNCHANGED <<refreshVars, frontVars, workVars, priority, powerDown,
                 exitPending, blocked, phyLow>>

-----------------------------------------------------------------------------
InTick == ScheduleRefresh \/ Service \/ IssueNone \/ EndTick

Next ==
  \/ Submit \/ SubmitControl
  \/ Tick \/ ScheduleRefresh \/ Service
  \/ IssueHead \/ Activate \/ FinishActive \/ HitOpenRow \/ IssueNone
  \/ EndTick

Spec == MaintenanceInit /\ [][Next]_vars

\* would_close_active(): a refresh may have to wait for the requests that own a
\* bank, and for nothing else once they are done.
Unhindered == Head(priority).cmd = "REF" => "active" \notin work

\* The simulation ticks until the work is done; the frontend submits its
\* control sequence; a command that is legal again and again issues some day,
\* a refresh only where no request owns a bank.  While Priority lets no other
\* request in, the requests that own a bank are done some day, if no data
\* command closes the row of another.
FairSpec ==
  /\ Spec
  /\ SF_vars(Tick) /\ WF_vars(InTick)
  /\ SF_vars(SubmitControl)
  /\ SF_vars(IssueHead /\ Unhindered)
  /\ SF_vars(/\ ~setup.closed /\ priority # <<>>
             /\ FinishActive /\ "active" \notin work')

-----------------------------------------------------------------------------
Commands ==
  {Command(c) : c \in Controls} \cup {AutomaticEntry}
    \cup {Refreshes(r, s) : r \in Rank, s \in 0 .. Slots - 1}

TypeOK ==
  /\ RefreshTypeOK
  /\ phase \in {"idle", "refresh", "service", "issue", "entry"}
  /\ setup \in Setups /\ sent \in 0 .. Len(setup.commands)
  /\ work \subseteq {"queued", "active", "pending"} /\ openRow \in BOOLEAN
  /\ priority \in Seq(Commands) /\ Len(priority) <= PrioritySize
  /\ pendingMaintenance \in Seq(Commands)
  /\ lowPower \in BOOLEAN /\ powerDown \in BOOLEAN
  /\ exitPending \in {"none", "PDX", "SREFEX"}
  /\ automatic \in BOOLEAN /\ phyLow \in BOOLEAN
  /\ blocked \in Nat /\ idleFor \in 0 .. EntryDelay + 1
  /\ written \in 0 .. sent

\* The commands on their way, oldest first, and the ones of a class that are
\* at or behind a position.
Line == priority \o pendingMaintenance
From(line, i, class) == {j \in DOMAIN line : j >= i /\ line[j] \in class}
RefreshesOf(r) == {q \in Commands : IsRefreshOf(q, r)}
RegisterWrites == {Command("MRW")}

\* Moving an exit to the front of a full queue, and giving the last command of
\* that queue its place in the other one, neither loses nor repeats a command:
\* what a rank owes is in the ledger or in the two queues, and so is every MRW
\* that was submitted and has not issued.
CommandsKept ==
  LET submitted == {i \in 1 .. sent : setup.commands[i] = "MRW"}
  IN  /\ \A r \in Rank :
           Cardinality(From(Line, 1, RefreshesOf(r))) = outstanding[r]
      /\ Cardinality(From(Line, 1, RegisterWrites))
           = Cardinality(submitted) - written

\* Refreshes keep the order of the bank rotation (the comment of choose():
\* only the head of Priority may issue, so that maintenance commands do not
\* overtake each other): the commands on their way are the ones of the last
\* positions before the cursor, in turn.
RefreshesRotate ==
  AllBank \/ \A r \in Rank :
    LET later(i) == Cardinality(From(Line, i + 1, RefreshesOf(r)))
    IN  \A i \in From(Line, 1, RefreshesOf(r)) :
          Line[i].slot = (cursor[r] - (later(i) \div BatchSize + 1)) % Slots

\* The frontend leaves low-power states to the controller.
Automatic ==
  \A i \in DOMAIN setup.commands : setup.commands[i] = "MRW"

\* The automatic policy puts only an idle controller to sleep: a request that
\* arrives before its SREFEN issues withdraws it, wherever it is queued.
SleepsOnlyWhenIdle ==
  [][Automatic /\ ~asleep /\ asleep' => work = {}]_vars

\* Queued work wakes a controller that sleeps, however full Priority is and
\* whatever was queued before it slept.
WakesForWork ==
  (Automatic /\ asleep /\ "queued" \in work) ~> ~asleep

\* Under the open-page policy the refresh of every bank gets its turn, through
\* the banks that requests own, low-power states the controller enters itself
\* and full queues.  (A closing policy can leave a request with its bank for
\* ever, and an MRW waits for rows that nothing closes.)
CommandsServed ==
  \A q \in UNION {RefreshesOf(r) : r \in Rank} :
    (setup.commands = <<>> /\ ~setup.closed /\ q \in Waiting)
      ~> q \notin Waiting

\* A control sequence of the frontend runs to its end: the init_sequence
\* lpddr6_full makes a round trip through self-refresh.
ControlsServed ==
  \A c \in Controls : Command(c) \in Waiting ~> Command(c) \notin Waiting

\* refresh_credit_limit is the most a rank may owe (configs/hbm.cfg): above it
\* the manager does not leave the debt of every rank for later.
RestsWithinLimit ==
  [][\A r \in Rank :
       /\ CreditLimit > 0
       /\ phase = "refresh" /\ Rest(Ordinary, Quiet)
       => credit'[r] <= CreditLimit]_vars
=============================================================================
