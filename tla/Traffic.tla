------------------------------ MODULE Traffic ------------------------------
(***************************************************************************)
(* The request streams of the frontend: SyntheticTrafficStream,            *)
(* TraceTrafficStream, ControlPrefixedTrafficStream in front of either,    *)
(* and TransactionSplitTrafficStream around them.                          *)
(*                                                                         *)
(* A stream is a record, and the successors of a stream are the pairs of a *)
(* request and the stream after it.  A trace is a sequence of records, the *)
(* lines after their tokens are parsed; a line holds                       *)
(*   op "R" "W" "BR" "BW" "M", address, cycle (None: not given), stack,    *)
(*   cmd    of a maintenance line, "none" of the others,                   *)
(*   data   for a write: "auto", "zero" or the name of bytes in hex,       *)
(*   mask   for a write: a sequence of Booleans, empty when not given,     *)
(*   check  for a read: "none", "last_write", "auto", or a name of bytes,  *)
(*   size   the bytes data or check has: as many as are spelled out,       *)
(*   length of a burst, in host lines.                                     *)
(* A byte is a tuple that says where it comes from.                        *)
(***************************************************************************)
EXTENDS Integers, AddressMap

None == -1   \* also the empty optional

\* parse_maintenance_command()
TraceCommands ==
  {"REFAB", "REFPB", "REFDB", "RFMAB", "RFMPB", "PREAB", "PREPB", "MRW", "MRR",
   "WCKSYNC", "WCKTRAIN", "DVFS", "ECCSCRUB", "RASERR"}

TraceLines ==
  [op : {"R", "W", "BR", "BW", "M"}, address : Nat, cycle : Nat \cup {None},
   stack : Nat \cup {None}, cmd : TraceCommands \cup {"none"}, data : STRING,
   mask : Seq(BOOLEAN), check : STRING, size : Nat \ {0}, length : Nat \ {0}]

\* Bytes that a line does not spell out are as many as a host line has.
Generated == {"none", "last_write", "auto", "request_id", "zero"}

\* parse_trace_line(): a mask belongs to the payload of a single write and is
\* as long.  Only single lines spell out another length; emit_burst() makes no
\* check that is not listed here.
LineAllowed(org, t) ==
  /\ t.op = "M" <=> t.cmd # "none"
  /\ t.op \in {"W", "BW", "M"} => t.check = "none"
  /\ t.op = "BR" => t.check \in Generated \cup {"ff"}
  /\ t.mask # <<>> => t.op = "W" /\ Len(t.mask) = t.size
  /\ t.size # org.line => \/ t.op = "W" /\ t.data \notin Generated
                          \/ t.op = "R" /\ t.check \notin Generated

\* f, and g where f is not defined.
Over(f, g) ==
  [x \in DOMAIN f \cup DOMAIN g |-> IF x \in DOMAIN f THEN f[x] ELSE g[x]]

\* f with y at x.
With(f, x, y) == [z \in DOMAIN f \cup {x} |-> IF z = x THEN y ELSE f[z]]

\* default_value_ of the storage, and "zero"
ZeroByte == <<None, "zero", 0>>
Zeros(n) == [i \in 1 .. n |-> ZeroByte]

\* make_request_payload()
MakePayload(address, id, n) == [i \in 1 .. n |-> <<address, id, i>>]

\* Bytes spelled out in hexadecimal: n bytes that no other value v shares.
Hex(v, n) == [i \in 1 .. n |-> <<None, v, i>>]

-----------------------------------------------------------------------------
(* Bursts and lines of a trace *)

NoBurst == [active |-> FALSE]

\* trace_address_key(): a stack named by the line is a namespace of its own.
AddressKey(r) == <<r.address, IF r.explicit THEN r.stack ELSE None>>

\* lookup_last_write_payload() throws when nothing was written.
HasLastWrite(s, r) == AddressKey(r) \in DOMAIN s.lastWrites

\* trace_needs_last_write_tracking()
TracksLastWrites(u) ==
  \E i \in DOMAIN u.trace : u.trace[i].check \in {"last_write", "auto"}

RememberWrite(u, s, r) ==
  IF TracksLastWrites(u) /\ r.type = "write"
  THEN With(s.lastWrites, AddressKey(r), r.payload)
  ELSE s.lastWrites

\* burst_payload_value(), and trace_data_value() with the id of the request:
\* the bytes of a generated payload depend on the id they are made for.
DataValue(value, address, id, n) ==
  CASE value \in {"auto", "request_id"} -> MakePayload(address, id, n)
    [] value = "zero" -> Zeros(n)
    [] OTHER -> Hex(value, n)

\* What a read of a trace expects; the id is 0 for a burst.  A last write is
\* expected as long as it was.
ExpectedPayload(s, r, check, burst, n) ==
  CASE check = "none" -> <<>>
    [] check = "last_write" -> s.lastWrites[AddressKey(r)]
    [] check = "auto" /\ burst /\ HasLastWrite(s, r) ->
         s.lastWrites[AddressKey(r)]
    [] OTHER -> DataValue(check, r.address, IF burst THEN 0 ELSE r.id, n)

HostOf(s, type, address, cycle, stack) ==
  [id |-> s.nextId, type |-> type, cmd |-> "none", address |-> address,
   cycle |-> cycle, stack |-> stack, explicit |-> stack # None,
   payload |-> <<>>, expected |-> <<>>, mask |-> <<>>]

\* limit_reached()
LimitReached(u, s) == u.requests # 0 /\ s.emitted >= u.requests

Accounted(s) == [s EXCEPT !.nextId = @ + 1, !.emitted = @ + 1]

Failed(s) == [s EXCEPT !.failed = TRUE]

MissingLastWrite(s, r, check) == check = "last_write" /\ ~HasLastWrite(s, r)

\* A request of the stream, and the stream after it.
Emit(u, s, host) ==
  [host |-> host,
   next |-> [Accounted(s) EXCEPT !.lastWrites = RememberWrite(u, s, host)]]

\* The host line of a burst.
BurstHost(u, s) ==
  HostOf(s, s.burst.type, s.burst.address + s.burst.line * u.org.line,
         s.burst.cycle, s.burst.stack)

BurstAdvanced(b) ==
  IF b.line + 1 < b.count THEN [b EXCEPT !.line = @ + 1] ELSE NoBurst

\* emit_burst(): the next host line of the burst.
EmitBurst(u, s) ==
  LET b == s.burst
      r == BurstHost(u, s)
      rest == [s EXCEPT !.burst = BurstAdvanced(b)]
  IN IF b.type = "write"
     THEN Emit(u, rest, [r EXCEPT
                           !.payload = DataValue(b.data, r.address, 0, u.org.line)])
     ELSE IF MissingLastWrite(s, r, b.check)
     THEN [host |-> r, next |-> Failed(s)]
     ELSE Emit(u, rest, [r EXCEPT
                           !.expected = ExpectedPayload(s, r, b.check, TRUE,
                                                        u.org.line)])

\* A line without a cycle is injected by its number.
InjectCycle(u, s, t) ==
  IF t.cycle # None THEN t.cycle ELSE s.nextId * u.interval

\* parse_trace_line(), a burst: the record emit_burst() works through.
BurstOf(u, s, t) ==
  [active |-> TRUE, type |-> IF t.op = "BW" THEN "write" ELSE "read",
   address |-> t.address, cycle |-> InjectCycle(u, s, t), count |-> t.length,
   line |-> 0, data |-> t.data, check |-> t.check, stack |-> t.stack]

\* parse_trace_line(), a single request.  The payload of a write is
\* remembered as a whole, the bytes its mask disables included.
EmitSingle(u, s, t) ==
  LET r == HostOf(s, IF t.op = "W" THEN "write" ELSE "read", t.address,
                  InjectCycle(u, s, t), t.stack)
  IN IF t.op = "W"
     THEN Emit(u, s, [r EXCEPT !.payload = DataValue(t.data, t.address, r.id, t.size),
                               !.mask = t.mask])
     ELSE IF MissingLastWrite(s, r, t.check)
     THEN [host |-> r, next |-> Failed(s)]
     ELSE Emit(u, s, [r EXCEPT
                        !.expected = ExpectedPayload(s, r, t.check, FALSE, t.size)])

\* parse_trace_line(), M COMMAND ADDRESS: a request of the workload like the
\* others, with no bytes.
EmitControl(u, s, t) ==
  Emit(u, s, [HostOf(s, "control", t.address, InjectCycle(u, s, t), t.stack)
              EXCEPT !.cmd = t.cmd])

\* TraceTrafficStream::next().  It sets done_ when the file is at its end, and
\* remaining_hint() is not asked after that.
TraceNext(u, s) ==
  IF LimitReached(u, s) THEN {}
  ELSE IF s.burst.active THEN {EmitBurst(u, s)}
  ELSE IF s.line > Len(u.trace) THEN {}
  ELSE LET t == u.trace[s.line]
           read == [s EXCEPT !.line = @ + 1]
       IN IF t.op \in {"BR", "BW"}
          THEN {EmitBurst(u, [read EXCEPT !.burst = BurstOf(u, read, t)])}
          ELSE IF t.op = "M" THEN {EmitControl(u, read, t)}
          ELSE {EmitSingle(u, read, t)}

-----------------------------------------------------------------------------
(* Synthetic traffic *)

Aggregate(u) == u.map.capacity * u.map.stacks

\* random_start_count()
AddressSpace(u) == IF u.space = 0 THEN Aggregate(u) ELSE u.space

RandomStartCount(u) == 1 + (AddressSpace(u) - u.org.line) \div u.org.line

\* What random_start_count() and validate_options() refuse otherwise.
SpaceAllowed(u) ==
  /\ AddressSpace(u) \in u.org.line .. Aggregate(u)
  /\ AddressSpace(u) % u.org.line = 0
  /\ u.source = "stream" => u.stride # 0

\* validate_spec() and the constructor of MemorySystem refuse another line size,
\* and stripes that would cut a line; a stack has the capacity of its geometry.
GeometryAllowed(u) ==
  /\ u.org.line % u.org.transaction = 0
  /\ u.map.kind = "interleaved" => u.map.interleave % u.org.line = 0
  /\ u.map.capacity = Volume(u.org) * u.org.transaction

\* The types a ratio of reads allows.
TypesOf(ratio) ==
  (IF ratio > 0 THEN {"read"} ELSE {}) \cup (IF ratio < 100 THEN {"write"} ELSE {})

\* Where the next synthetic request may go.
SyntheticAddresses(u, s) ==
  IF u.source = "random"
  THEN {i * u.org.line : i \in 0 .. RandomStartCount(u) - 1}
  ELSE {s.nextId * u.stride}

\* SyntheticTrafficStream::next()
SyntheticNext(u, s) ==
  IF s.nextId >= u.requests THEN {}
  ELSE {[host |-> [HostOf(s, type, a, s.nextId * u.interval, None) EXCEPT
                     !.payload = IF type = "write"
                                 THEN MakePayload(a, s.nextId, u.org.line)
                                 ELSE <<>>],
         next |-> Accounted(s)] :
        type \in TypesOf(u.readRatio), a \in SyntheticAddresses(u, s)}

-----------------------------------------------------------------------------
(* Control sequences *)

\* generate_control_sequence(): the commands of one channel.
ChannelCommands(u) ==
  LET On(feature, cmd) == IF feature \in u.features THEN <<cmd>> ELSE <<>>
  IN IF "lpddr" \notin u.features
     THEN <<"MRW", "MRR">> \o On("ecc", "ECCSCRUB") \o On("ras", "RASERR")
     ELSE <<"MRW", "MRR">> \o On("dvfs", "DVFS") \o On("wck", "WCKTRAIN")
          \o On("link_ecc", "ECCSCRUB") \o On("link_protection", "RASERR")
          \o (IF u.sequence = "lpddr6_full"
              THEN <<"PDE", "PDX", "SREFEN", "SREFEX">> ELSE <<>>)

\* An HBM sequence for an LPDDR standard, and the other way round, throws.
Compatible(u) ==
  /\ u.sequence \in {"hbm", "hbm3", "hbm4"} => "lpddr" \notin u.features
  /\ u.sequence \in {"lpddr", "lpddr5", "lpddr6", "lpddr6_full"}
       => "lpddr" \in u.features

\* append_control(): the i-th command, stack by stack and channel by channel.
ControlAt(u, i) ==
  LET n == Len(ChannelCommands(u))
      c == (i - 1) \div n
  IN [HostOf([nextId |-> i - 1], "control", 0, (i - 1) * u.controlInterval,
             c \div u.org.size["channel"])
      EXCEPT !.cmd = ChannelCommands(u)[((i - 1) % n) + 1], !.explicit = FALSE]

ControlChannel(u, i) ==
  ((i - 1) \div Len(ChannelCommands(u))) % u.org.size["channel"]

Controls(u) ==
  IF u.sequence = "none" THEN 0
  ELSE Len(ChannelCommands(u)) * u.org.size["channel"] * u.map.stacks

\* Fault: the workload starts when the control sequence does.
FaultShift(u) == 0

\* ControlPrefixedTrafficStream: when the workload starts.
Shift(u) == IF Controls(u) = 0 THEN 0 ELSE (Controls(u) + 1) * u.controlInterval

\* ControlPrefixedTrafficStream::next()
HostNext(u, s) ==
  IF s.control < Controls(u)
  THEN {[host |-> ControlAt(u, s.control + 1),
         next |-> [s EXCEPT !.control = @ + 1]]}
  ELSE {[x EXCEPT !.host.id = @ + Controls(u), !.host.cycle = @ + Shift(u)] :
        x \in IF u.source = "trace" THEN TraceNext(u, s) ELSE SyntheticNext(u, s)}

-----------------------------------------------------------------------------
(* Transactions *)

\* host_request_bytes()
HostBytes(u, host) ==
  LET given == Max({Len(host.payload), Len(host.expected), Len(host.mask)})
  IN IF given = 0 THEN u.org.line ELSE given

\* slice_bytes()
Slice(seq, offset, n) == SubSeq(seq, offset + 1, Min({Len(seq), offset + n}))

PartCount(u, bytes) == 1 + (bytes - 1) \div u.org.transaction

\* split_host_request(), a read or a write: its i-th transaction.  The id, the
\* system address and the bytes it is owed are set later.
PartOf(u, host, i) ==
  LET bytes == HostBytes(u, host)
      offset == i * u.org.transaction
      n == Min({u.org.transaction, bytes - offset})
  IN [id |-> 0, system |-> 0, owed |-> <<>>,
      host |-> host.id, index |-> i, count |-> PartCount(u, bytes), size |-> n,
      type |-> host.type, cmd |-> "none", cycle |-> host.cycle,
      stack |-> host.stack, explicit |-> host.explicit,
      address |-> host.address + offset,
      at |-> Decode(u.org, host.address + offset),
      payload |-> Slice(host.payload, offset, n),
      expected |-> Slice(host.expected, offset, n),
      mask |-> Slice(host.mask, offset, n)]

\* split_host_request(), a control command: one transaction for one channel, that
\* of the sequence, or of the address in a trace.
ControlPart(u, host) ==
  [id |-> 0, system |-> 0, owed |-> <<>>,
   host |-> host.id, index |-> 0, count |-> 1, size |-> 0,
   type |-> "control", cmd |-> host.cmd, cycle |-> host.cycle,
   stack |-> host.stack, explicit |-> host.explicit, address |-> host.address,
   at |-> IF host.id < Controls(u)
          THEN [Origin EXCEPT !["channel"] = ControlChannel(u, host.id + 1)]
          ELSE Decode(u.org, host.address),
   payload |-> <<>>, expected |-> <<>>, mask |-> <<>>]

SplitHost(u, host) ==
  IF host.type = "control" THEN <<ControlPart(u, host)>>
  ELSE [i \in 1 .. PartCount(u, HostBytes(u, host)) |-> PartOf(u, host, i - 1)]

InitialStream ==
  [line |-> 1, nextId |-> 0, emitted |-> 0, burst |-> NoBurst,
   lastWrites |-> [k \in {} |-> <<>>], control |-> 0, pending |-> <<>>,
   transactions |-> 0, failed |-> FALSE]

\* TransactionSplitTrafficStream::next(): the transactions in pending_ first.
\* `hosts` holds the host request that was taken from the source, if any.
StreamNext(u, s) ==
  {[part |-> [Head(x.next.pending) EXCEPT !.id = s.transactions],
    hosts |-> x.hosts,
    next |-> [x.next EXCEPT !.pending = Tail(@), !.transactions = @ + 1]] :
   x \in IF s.pending # <<>> THEN {[hosts |-> {}, next |-> s]}
         ELSE {[hosts |-> {y.host},
                next |-> [y.next EXCEPT !.pending = SplitHost(u, y.host)]] :
               y \in HostNext(u, s)}}

\* remaining_hint() of the streams below; a trace without a limit has none.
HostHint(u, s) ==
  (Controls(u) - s.control) + (u.requests - s.emitted)

\* Fault: the transactions in pending_ are forgotten.
FaultRemainingHint(u, s) ==
  IF u.source = "trace" /\ u.requests = 0 THEN 1
  ELSE HostHint(u, s) * PartCount(u, u.org.line)

\* remaining_hint() of the whole stream, or the 1 that run_source() takes.
RemainingHint(u, s) ==
  IF u.source = "trace" /\ u.requests = 0 THEN 1
  ELSE Len(s.pending) + HostHint(u, s) * PartCount(u, u.org.line)
=============================================================================
