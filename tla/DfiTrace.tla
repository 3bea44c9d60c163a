------------------------------ MODULE DfiTrace ------------------------------
(***************************************************************************)
(* build_dfi_trace() and validate_dfi_trace(): the issued commands as      *)
(* command events and data beats on the DFI boundary, and the check of     *)
(* such a trace against the commands it was made from.                     *)
(*                                                                         *)
(* d is [phases, beatBytes, tick, latency].  The signals that follow from  *)
(* the kind of an event and its encoded address are left out; a payload is *)
(* the bytes of the beat.  The order of the events of a trace decides      *)
(* nothing in the validator, so the trace is not sorted here.              *)
(***************************************************************************)
EXTENDS Integers, SequencesExt

ReadCommands == {"RD", "RDA"}
DataCommands == {"RD", "RDA", "WR", "WRA"}

Beats(d, cmd) == (Len(cmd.payload) + d.beatBytes - 1) \div d.beatBytes

\* data_cycle of the command, or its cycle and the DFI latency.
FirstDataCycle(d, cmd) ==
  IF cmd.data # 0 THEN cmd.data ELSE cmd.cycle + d.latency * d.tick

BeatBytes(d, cmd, beat) ==
  SubSeq(cmd.payload, beat * d.beatBytes + 1,
         Min({Len(cmd.payload), (beat + 1) * d.beatBytes}))

EventOf(d, cmd, kind, cycle) ==
  [kind |-> kind, cycle |-> cycle, issued |-> cmd.cycle, id |-> cmd.id,
   cmd |-> cmd.cmd, stack |-> cmd.stack, at |-> cmd.at,
   phase |-> cycle % d.phases, address |-> cmd.address, system |-> cmd.system,
   beat |-> 0, beats |-> 0, payload |-> <<>>]

CommandEvent(d, cmd) == EventOf(d, cmd, "command", cmd.cycle)

DataEvent(d, cmd, beat) ==
  [EventOf(d, cmd, IF cmd.cmd \in ReadCommands THEN "read" ELSE "write",
           FirstDataCycle(d, cmd) + beat * d.tick)
   EXCEPT !.beat = beat, !.beats = Beats(d, cmd),
          !.address = @ + beat * d.beatBytes, !.system = @ + beat * d.beatBytes,
          !.payload = BeatBytes(d, cmd, beat)]

DataEvents(d, cmd) ==
  IF cmd.cmd \notin DataCommands THEN <<>>
  ELSE [i \in 1 .. Beats(d, cmd) |-> DataEvent(d, cmd, i - 1)]

\* build_dfi_trace()
BuildTrace(d, commands) ==
  FlattenSeq([i \in DOMAIN commands |->
                <<CommandEvent(d, commands[i])>> \o DataEvents(d, commands[i])])

-----------------------------------------------------------------------------
(* validate_dfi_trace() *)

\* Fault: the ids of the controllers' own maintenance are taken as global.
FaultTraceKey(stack, at, id, cmd, cycle) == <<stack, id, cmd, cycle>>

\* DfiEventKey, DfiDataKey: controllers number their maintenance on their own.
TraceKey(stack, at, id, cmd, cycle) == <<stack, at["channel"], id, cmd, cycle>>

CommandKey(c) == TraceKey(c.stack, c.at, c.id, c.cmd, c.cycle)
EventKey(e) ==
  TraceKey(e.stack, e.at, e.id, e.cmd,
           IF e.kind = "command" THEN e.cycle ELSE e.issued)

\* What is checked of an event by itself.
EventSound(d, e) ==
  /\ e.kind = "command" => e.issued = e.cycle
  /\ e.phase = e.cycle % d.phases
  /\ e.kind # "command" =>
       /\ 0 <= e.beat /\ e.beat < e.beats
       /\ Len(e.payload) \in 1 .. d.beatBytes

\* Fault: an event of no command is not looked for.
FaultOrphan(commands, e) == FALSE

\* An event of a command that was not issued.
Orphan(commands, e) ==
  \A i \in DOMAIN commands :
    \/ CommandKey(commands[i]) # EventKey(e)
    \/ e.kind # "command" /\ commands[i].cmd \notin DataCommands

EventsOf(events, c, kinds) ==
  {i \in DOMAIN events : events[i].kind \in kinds
                         /\ EventKey(events[i]) = CommandKey(c)}

\* What of a command event is compared with its command: no data.
Snapshot(e) ==
  [issued |-> e.issued, address |-> e.address, system |-> e.system,
   stack |-> e.stack, at |-> e.at]

\* Exactly one command event, with the snapshot of the command.
CommandSeen(d, events, c) ==
  \E found \in {EventsOf(events, c, {"command"})} :
    /\ Cardinality(found) = 1
    /\ \A i \in found : Snapshot(events[i]) = Snapshot(CommandEvent(d, c))

\* Every beat once, at its cycle and with its bytes.
BeatsSeen(d, events, c) ==
  \E found \in {EventsOf(events, c, {"read", "write"})} :
    /\ Cardinality(found) = Beats(d, c)
    /\ \A b \in 0 .. Beats(d, c) - 1 :
         \E i \in found : events[i] = DataEvent(d, c, b)

\* The payload of a read against the bytes its request expects.
ExpectationMet(c) ==
  c.cmd \in ReadCommands /\ c.expected # <<>> => c.payload = c.expected

ValidTrace(d, commands, events) ==
  /\ \A i \in DOMAIN events : EventSound(d, events[i])
  /\ \A i \in DOMAIN events : ~Orphan(commands, events[i])
  /\ \A i \in DOMAIN commands :
       /\ CommandSeen(d, events, commands[i])
       /\ commands[i].cmd \in DataCommands =>
            /\ BeatsSeen(d, events, commands[i])
            /\ ExpectationMet(commands[i])
=============================================================================
