----------------------------- MODULE Workloads -----------------------------
(* Workloads that run as their author means them to: what a trace and the   *)
(* options of a run should fulfil and the program does not check.  The      *)
(* theorems about a whole run are for such workloads.                       *)
EXTENDS Traffic

\* parse_type(): what a line of the trace asks for.
TypeOf(t) ==
  CASE t.op \in {"W", "BW"} -> "write"
    [] t.op = "M" -> "control"
    [] OTHER -> "read"

\* is_burst_type()
IsBurst(t) == t.op \in {"BR", "BW"}

\* The host lines of a line of the trace: a burst has one for each step.
HostLines(t) == IF IsBurst(t) THEN t.length ELSE 1
HostSteps(t) == 0 .. HostLines(t) - 1

\* split_host_request(): the transactions of each of them, by the bytes that the
\* line of the trace spells out.
LineParts(u, t) == IF t.op = "M" THEN 1 ELSE PartCount(u, t.size)

\* g counts the host lines of the lines of a trace.
LinesUpTo(u, g) ==
  /\ g \in [0 .. Len(u.trace) -> Nat] /\ g[0] = 0
  /\ \A i \in DOMAIN u.trace : g[i] = g[i - 1] + HostLines(u.trace[i])

-----------------------------------------------------------------------------
(* Workloads whose hint is exact *)

\* remaining_hint() multiplies what is left, the control commands and the lines
\* of a trace with other bytes than a host line included, by the transactions of
\* a host line.
WeighsControls(u) == Controls(u) = 0 \/ PartCount(u, u.org.line) = 1
WeighsLines(u) ==
  u.source = "trace" =>
    \A i \in DOMAIN u.trace : LineParts(u, u.trace[i]) = PartCount(u, u.org.line)

\* The trace has the host lines its limit asks for.
LongEnough(u, g) ==
  u.source = "trace" => LinesUpTo(u, g) /\ u.requests <= g[Len(u.trace)]

CountsLines(u) ==
  u.requests # 0 => /\ WeighsControls(u) /\ WeighsLines(u)
                    /\ \E g : LongEnough(u, g)

-----------------------------------------------------------------------------
(* Workloads that do not throw *)

\* The inject cycle of line i of a trace, when g counts the host lines.
Sched(u, g, i) ==
  IF u.trace[i].cycle # None THEN u.trace[i].cycle ELSE g[i - 1] * u.interval

\* The lines of a trace are in the order of their inject cycles.
InOrder(u, g) ==
  u.source = "trace" =>
    /\ LinesUpTo(u, g)
    /\ \A i \in DOMAIN u.trace : \A j \in DOMAIN u.trace :
         i <= j => Sched(u, g, i) <= Sched(u, g, j)

\* The key under which host line n of line i of a trace is remembered.
LineKey(u, i, n) == <<u.trace[i].address + n * u.org.line, u.trace[i].stack>>

\* Every last_write of a trace follows a write of the same key.
Covered(u) ==
  u.source = "trace" =>
    \A i \in DOMAIN u.trace : u.trace[i].check = "last_write" =>
      \A n \in HostSteps(u.trace[i]) :
        \E j \in DOMAIN u.trace : \E m \in HostSteps(u.trace[j]) :
          /\ j < i /\ TypeOf(u.trace[j]) = "write"
          /\ LineKey(u, j, m) = LineKey(u, i, n)

\* A transaction that names stack k, or none, and address a is in a stack; so are
\* all transactions of the host line there.
Located(u, k, a) ==
  InStacks(u.map, IF k # None THEN [stack |-> k, local |-> a] ELSE StackDecode(u.map, a))
Reaches(u, k, a, parts) ==
  \A i \in 0 .. parts - 1 : Located(u, k, a + i * u.org.transaction)

\* The addresses of a workload are in the stacks; those of a random one are
\* when no stripe is cut off at the end of a stack.
InReach(u) ==
  /\ u.source = "trace" =>
       \A i \in DOMAIN u.trace : \A n \in HostSteps(u.trace[i]) :
         Reaches(u, u.trace[i].stack, u.trace[i].address + n * u.org.line,
                 LineParts(u, u.trace[i]))
  /\ u.source = "stream" =>
       \A n \in 0 .. u.requests - 1 :
         Reaches(u, None, n * u.stride, PartCount(u, u.org.line))
  /\ u.source = "random" =>
       \/ u.map.stacks = 1 \/ u.map.kind = "blocked"
       \/ u.map.capacity % u.map.interleave = 0

SoundWorkload(u) == (\E g : InOrder(u, g)) /\ Covered(u) /\ InReach(u)

-----------------------------------------------------------------------------
(* Workloads whose transactions have a line of their own *)

\* Addresses are those of transactions, two transactions differ in a coordinate,
\* and the channel is one of the coordinates.
Straight(u) ==
  /\ ~u.org.efficiency
  /\ u.mapper = "decoded" \/ u.org.size["channel"] = 1
  /\ u.source = "trace" =>
       \A i \in DOMAIN u.trace :
         u.trace[i].op = "M" \/ u.trace[i].address % u.org.transaction = 0
  /\ u.source = "stream" =>
       \A n \in 0 .. u.requests - 1 : (n * u.stride) % u.org.transaction = 0

-----------------------------------------------------------------------------
(* Workloads whose checks are right *)

\* The system addresses of host line n of line i of a trace.
SystemByte(u, i, n, x) ==
  LET t == u.trace[i]
      a == t.address + n * u.org.line + (x - 1)
  IN IF t.stack # None THEN StackEncode(u.map, [stack |-> t.stack, local |-> a]) ELSE a
Touches(u, i, n) == {SystemByte(u, i, n, x) : x \in 1 .. u.trace[i].size}

\* Host line n of line i is read back with the bytes host line m of line j wrote, and
\* nothing before it writes to them again.
ReadsBack(u, i, n, j, m) ==
  /\ j < i /\ TypeOf(u.trace[j]) = "write" /\ u.trace[j].mask = <<>>
  /\ LineKey(u, j, m) = LineKey(u, i, n)
  /\ \A k \in j .. i - 1 : \A o \in HostSteps(u.trace[k]) :
       TypeOf(u.trace[k]) = "write" /\ (k > j \/ o > m) =>
         Touches(u, k, o) \cap Touches(u, j, m) = {}

\* What is expected of a read is what was written last.
ChecksHold(u) ==
  u.source = "trace" =>
    \A i \in DOMAIN u.trace :
      \/ u.trace[i].check = "none"
      \/ /\ \/ u.trace[i].check = "last_write"
            \/ u.trace[i].check = "auto" /\ IsBurst(u.trace[i])
         /\ \A n \in HostSteps(u.trace[i]) :
              \E j \in DOMAIN u.trace : \E m \in HostSteps(u.trace[j]) :
                ReadsBack(u, i, n, j, m)
=============================================================================
