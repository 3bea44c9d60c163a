----------------------------- MODULE MCFrontend -----------------------------
(* Small organizations and short traces for TLC: transactions of two bytes, *)
(* host lines of two transactions, two channels, two rows, two columns.     *)
EXTENDS FrontendRun, Workloads

Org(template, pseudo, line) ==
  [size |-> [f \in Fields |->
               IF f \in {"channel", "row", "column"} THEN 2
               ELSE IF f = "pseudo_channel" THEN pseudo ELSE 1],
   template |-> template, transaction |-> 2, line |-> line,
   efficiency |-> FALSE]

OneStack == [stacks |-> 1, interleave |-> 4, capacity |-> 16, kind |-> "interleaved"]
TwoStacks(kind) == [stacks |-> 2, interleave |-> 4, capacity |-> 16, kind |-> kind]

Line(op, address, cycle) ==
  [op |-> op, address |-> address, cycle |-> cycle, cmd |-> "none", data |-> "auto",
   mask |-> <<>>, check |-> "none", stack |-> None, size |-> 2, length |-> 1]

M(cmd, address, cycle) == [Line("M", address, cycle) EXCEPT !.cmd = cmd]
Sized(n, t) == [t EXCEPT !.size = n]
W(address, data, cycle) == [Line("W", address, cycle) EXCEPT !.data = data]
R(address, check, cycle) == [Line("R", address, cycle) EXCEPT !.check = check]
On(stack, t) == [t EXCEPT !.stack = stack]

\* maxCycles, precharges and idle bound a run; the rest are the options of a run.
Base ==
  [org |-> Org("default", 1, 2), map |-> OneStack, mapper |-> "decoded",
   source |-> "trace", trace |-> <<>>, requests |-> 0, interval |-> 0,
   stride |-> 2, space |-> 0, readRatio |-> 50, sequence |-> "none",
   features |-> {}, controlInterval |-> 1, ingress |-> 2,
   dfi |-> [phases |-> 2, beatBytes |-> 1, tick |-> 1, latency |-> 2],
   maxCycles |-> 8, precharges |-> 2, idle |-> 2]

Trace(lines) == [Base EXCEPT !.trace = lines]

\* Two rows of one bank, and a write that reaches into the next line.
Rows == Trace(<<W(1, "a", 0), R(8, "none", 0), R(2, "none", 0)>>)

\* A masked write between a write and a read of one line.
Masked == Trace(<<W(0, "a", 0), [W(0, "b", 0) EXCEPT !.mask = <<FALSE, TRUE>>],
                  R(0, "none", 1)>>)

\* A burst over both channels, read back until the limit of the trace.
Burst == [Trace(<<[W(2, "auto", 0) EXCEPT !.op = "BW", !.length = 2],
                  [R(2, "auto", 1) EXCEPT !.op = "BR", !.length = 2]>>)
          EXCEPT !.requests = 3]

\* One address of the system, and the same address of a stack by name.
Named == [Trace(<<W(0, "a", 0), On(1, W(0, "b", 0)), R(0, "last_write", 0),
                  On(1, R(0, "last_write", 0))>>)
          EXCEPT !.map = TwoStacks("interleaved"), !.maxCycles = 6, !.idle = 1]

\* The same bytes by system address and by stack.
Stripes(kind, address, local) ==
  [Trace(<<W(address, "a", 0), On(1, R(local, "none", 0))>>)
   EXCEPT !.map = TwoStacks(kind), !.maxCycles = 6]

\* Lines that differ in one digit only, under every template.
Template(template, mapper, a, b) ==
  [Trace(<<W(a, "a", 0), W(b, "b", 0), R(a, "last_write", 0)>>)
   EXCEPT !.org = Org(template, 1, 2), !.mapper = mapper]

\* Bytes that are more than a host line, fewer, and read back as a line.
Partial == Trace(<<Sized(4, W(0, "a", 0)), Sized(1, W(2, "b", 0)), R(2, "none", 0)>>)

\* A maintenance line between a write and a read.
Commanded(cmd) ==
  [Trace(<<W(0, "a", 0), M(cmd, 0, 0), R(0, "last_write", 0)>>)
   EXCEPT !.requests = 3, !.precharges = 1, !.idle = 1]

\* Host lines of two transactions, one of them three bytes, that are cut off.
CutOff == [Trace(<<Sized(3, W(0, "a", 0)), Sized(4, R(0, "last_write", 0))>>)
           EXCEPT !.org = Org("default", 1, 4), !.maxCycles = 4,
                  !.ingress = 1, !.requests = 2]

Random == [Base EXCEPT !.source = "random", !.requests = 2, !.space = 8,
                       !.maxCycles = 4, !.idle = 1, !.precharges = 1]

\* A control sequence in front of a stream.
Prefixed(sequence, features) ==
  [Base EXCEPT !.source = "stream", !.requests = 1, !.sequence = sequence,
               !.features = features, !.readRatio = 100, !.maxCycles = 10,
               !.precharges = 0]

PassSetups ==
  {Rows, Masked, Burst, Named, Partial,
   Stripes("interleaved", 4, 0), Stripes("blocked", 18, 2),
   Template("default", "decoded", 0, 4), Template("RoBaRaCoCh", "xor", 0, 2),
   Template("ChRaBaRoCo", "decoded", 0, 8),
   Template("RoCoRaBaCh", "decoded", 0, 8),
   CutOff, Random, Prefixed("hbm", {"ras"}),
   Prefixed("lpddr", {"lpddr", "wck"})}
  \cup {Commanded(cmd) : cmd \in TraceCommands}

\* They are workloads the theorems about a whole run are for.
ASSUME WorkloadAssumption ==
  \A u \in PassSetups :
    \E g \in [0 .. Len(u.trace) -> 0 .. 4] :
      /\ u.requests # 0 => WeighsControls(u) /\ WeighsLines(u) /\ LongEnough(u, g)
      /\ InOrder(u, g) /\ Covered(u) /\ InReach(u) /\ ChecksHold(u)

\* Without the write across a boundary and the channel hash, every transaction has
\* a line of its own.
StraightSetups == PassSetups \ {Rows, Template("RoBaRaCoCh", "xor", 0, 2)}
ASSUME StraightAssumption == \A u \in StraightSetups : Straight(u)

\* The default template, and the channel hash in place of its channel digit.
HashSetups == {Template("default", "xor", 0, 4)}

\* A host line of two transactions, before a line of one byte or a maintenance line.
UnevenSetups ==
  {[Trace(<<Sized(4, W(0, "auto", 0)), second>>)
    EXCEPT !.org = Org("default", 1, 4), !.requests = 2, !.maxCycles = 4] :
   second \in {Sized(1, W(4, "a", 0)), Sized(4, M("PREAB", 0, 0))}}
=============================================================================
