---------------------------- MODULE FrontendRun ----------------------------
(***************************************************************************)
(* A whole run: run_source() takes transactions from a stream, enqueue()   *)
(* routes each to a stack and a channel, the controllers open rows, move   *)
(* data and close rows, collect_issued_commands() merges what they issued, *)
(* and the DFI trace is made from that.                                    *)
(*                                                                         *)
(* A step of the system ticks the controllers in order, and a controller   *)
(* issues a column command and then a row command or neither.  Which it    *)
(* issues is left open (Maintenance and BankProtocol decide that): only    *)
(* requests for the same bytes keep their order, which is what AtomicStore *)
(* promises of a controller.                                               *)
(***************************************************************************)
EXTENDS Traffic, DfiTrace

CONSTANT Setups

Options ==
  [org : Organizations, map : StackMaps, mapper : {"decoded", "round_robin", "xor"},
   source : {"trace", "random", "stream"}, trace : Seq(TraceLines),
   requests : Nat, interval : Nat, stride : Nat, space : Nat, readRatio : 0 .. 100,
   sequence : STRING, features : SUBSET STRING, controlInterval : Nat \ {0},
   ingress : Nat \ {0},
   dfi : [phases : Nat \ {0}, beatBytes : Nat \ {0}, tick : Nat \ {0}, latency : Nat],
   maxCycles : Nat, precharges : Nat, idle : Nat]

ASSUME SetupAssumption ==
  \A u \in Setups :
    /\ u \in Options /\ Compatible(u) /\ GeometryAllowed(u)
    /\ u.source # "trace" => SpaceAllowed(u)
    /\ \A i \in DOMAIN u.trace : LineAllowed(u.org, u.trace[i])

VARIABLES
  setup,
  stream,       \* the traffic stream
  held,         \* pending_request of run_source(), in a set
  sourceDone,
  lastCycle,    \* last_inject_cycle
  status,       \* "running", "finished", or "threw"
  clk,
  phase,        \* 0: the frontend; 2c-1, 2c: the commands of controller c
  ingress,      \* stack_ingress_queues_
  queues,       \* what controller c has accepted and not served
  store,        \* a MemoryImage per stack: row buffers and backend lines
  cursor,       \* next_round_robin_channel_
  log,          \* issued_ of controller c
  maintenance,  \* next_maintenance_id_ of controller c
  idle,         \* how often a controller waited with a command at hand
  memory        \* history: system address -> byte, in the order of the stream

vars == <<setup, stream, held, sourceDone, lastCycle, status, clk, phase, ingress,
          queues, store, cursor, log, maintenance, idle, memory>>

Channels == setup.org.size["channel"]
Stacks == 0 .. setup.map.stacks - 1
Controllers == 1 .. setup.map.stacks * Channels
StackOf(c) == (c - 1) \div Channels
ChannelOf(c) == (c - 1) % Channels
ControllerIndex(stack, channel) == stack * Channels + channel + 1

Init ==
  /\ setup \in Setups
  /\ stream = InitialStream
  /\ held = {} /\ sourceDone = FALSE /\ lastCycle = 0 /\ status = "running"
  /\ clk = 0 /\ phase = 0
  /\ ingress = [k \in Stacks |-> <<>>]
  /\ queues = [c \in Controllers |-> <<>>]
  /\ store = [k \in Stacks |-> [rows |-> [b \in {} |-> 0],
                                lines |-> [l \in {} |-> <<>>]]]
  /\ cursor = [k \in Stacks |-> 0]
  /\ log = [c \in Controllers |-> <<>>]
  /\ maintenance = [c \in Controllers |-> 1]
  /\ idle = 0
  /\ memory = [a \in {} |-> ZeroByte]

-----------------------------------------------------------------------------
(* In-order memory, the reference for what a read returns *)

SystemAddress(r, i) ==
  IF r.explicit
  THEN StackEncode(setup.map, [stack |-> r.stack, local |-> r.address + i])
  ELSE r.address + i

Remembered(a) == IF a \in DOMAIN memory THEN memory[a] ELSE ZeroByte

Enabled(r, i) == r.mask = <<>> \/ r.mask[i]

MemoryAfter(host) ==
  LET written == {SystemAddress(host, i - 1) :
                    i \in {j \in DOMAIN host.payload : Enabled(host, j)}}
  IN Over([a \in written |-> host.payload[CHOOSE i \in DOMAIN host.payload :
                                            SystemAddress(host, i - 1) = a]],
          memory)

\* The bytes a read transaction is owed.
Owed(r) ==
  IF r.type = "read"
  THEN [i \in 1 .. r.size |-> Remembered(SystemAddress(r, i - 1))] ELSE <<>>

-----------------------------------------------------------------------------
(* Routing *)

\* target_stack()
TargetStack(r) ==
  IF r.stack # None THEN r.stack ELSE StackDecode(setup.map, r.address).stack

\* Exclusive or, from the lowest bits up.
Xor[p \in Nat \X Nat] ==
  IF p[1] = 0 \/ p[2] = 0 THEN p[1] + p[2]
  ELSE 2 * Xor[<<p[1] \div 2, p[2] \div 2>>] + ((p[1] + p[2]) % 2)

\* target_channel() of a transaction with its stack-local address.
TargetChannel(r, stack) ==
  IF r.type = "control" \/ setup.mapper = "decoded" THEN r.at["channel"]
  ELSE IF setup.mapper = "round_robin" THEN cursor[stack] % Channels
  ELSE LET line == r.address \div setup.org.transaction
       IN Xor[<<Xor[<<line, line \div 64>>], line \div 4096>>] % Channels

\* localize_request(), the stack-local half.
Localized(r, stack) ==
  IF r.type = "control" THEN r
  ELSE LET local == IF r.explicit THEN r.address
                    ELSE StackDecode(setup.map, r.address).local
       IN [r EXCEPT !.address = local,
                    !.at = IF setup.map.stacks > 1
                           THEN Decode(setup.org, local) ELSE @,
                    !.system = SystemAddress(r, 0)]

\* localize_request(), the channel: storage_decoded has the real one.
ToChannel(r, stack, channel) ==
  [r EXCEPT !.at["channel"] = channel, !.stack = stack]

\* enqueue() throws for an address outside of every stack; a control command
\* for a stack is not asked for its address.
Routable(r) ==
  IF r.type = "control" /\ r.stack # None THEN r.stack \in Stacks
  ELSE InStacks(setup.map, IF r.explicit
                           THEN [stack |-> r.stack, local |-> r.address]
                           ELSE StackDecode(setup.map, r.address))

-----------------------------------------------------------------------------
(* run_source() *)

Running == status = "running" /\ clk < setup.maxCycles

Idle ==
  /\ \A k \in Stacks : ingress[k] = <<>>
  /\ \A c \in Controllers : queues[c] = <<>>

\* The next transaction of the source.
Fetch ==
  /\ Running /\ phase = 0 /\ held = {} /\ ~sourceDone
  /\ \E x \in StreamNext(setup, stream) :
       /\ stream' = x.next
       /\ lastCycle' = x.part.cycle
       /\ memory' = IF x.hosts = {} THEN memory
                    ELSE MemoryAfter(CHOOSE h \in x.hosts : TRUE)
       /\ held' = {x.part}
       /\ status' = IF x.next.failed \/ x.part.cycle < lastCycle
                    THEN "threw" ELSE status
  /\ UNCHANGED <<setup, sourceDone, clk, phase, ingress, queues, store, cursor,
                 log, maintenance, idle>>

SourceEnds ==
  /\ Running /\ phase = 0 /\ held = {} /\ ~sourceDone
  /\ StreamNext(setup, stream) = {}
  /\ sourceDone' = TRUE
  /\ UNCHANGED <<setup, stream, held, lastCycle, status, clk, phase, ingress, queues,
                 store, cursor, log, maintenance, idle, memory>>

Due == {r \in held : r.cycle <= clk}

Refused(r) == Len(ingress[TargetStack(r)]) >= setup.ingress

\* enqueue() of the held transaction.
Enqueue ==
  /\ Running /\ phase = 0
  /\ \E r \in Due :
       IF ~Routable(r)
       THEN /\ status' = "threw"
            /\ UNCHANGED <<held, ingress, cursor>>
       ELSE /\ ~Refused(r)
            /\ \E stack \in {TargetStack(r)} :
               \E routed \in {Localized([r EXCEPT !.owed = Owed(r)], stack)} :
                 /\ ingress' = [ingress EXCEPT ![stack] =
                      Append(@, ToChannel(routed, stack,
                                          TargetChannel(routed, stack)))]
                 /\ cursor' = IF setup.mapper = "round_robin" /\ Channels > 1
                                 /\ r.type # "control"
                              THEN [cursor EXCEPT ![stack] = @ + 1] ELSE cursor
            /\ held' = {}
            /\ UNCHANGED status
  /\ UNCHANGED <<setup, stream, sourceDone, lastCycle, clk, phase, queues, store, log,
                 maintenance, idle, memory>>

\* The frontend can do no more in this cycle: the system makes a step.  The
\* oldest transaction of every stack goes to its controller.
Waits ==
  IF held = {} THEN sourceDone
  ELSE \A r \in held : r.cycle > clk \/ (Routable(r) /\ Refused(r))

StepBegins ==
  /\ Running /\ phase = 0 /\ Waits
  /\ ~(sourceDone /\ held = {} /\ Idle)
  /\ queues' = [c \in Controllers |->
       LET q == ingress[StackOf(c)]
       IN IF q # <<>> /\ Head(q).at["channel"] = ChannelOf(c)
          THEN Append(queues[c], Head(q)) ELSE queues[c]]
  /\ ingress' = [k \in Stacks |->
                   IF ingress[k] = <<>> THEN <<>> ELSE Tail(ingress[k])]
  /\ phase' = 1
  /\ UNCHANGED <<setup, stream, held, sourceDone, lastCycle, status, clk, store, cursor,
                 log, maintenance, idle, memory>>

\* finish()
Finish ==
  /\ status = "running" /\ phase = 0
  /\ clk >= setup.maxCycles \/ (sourceDone /\ held = {} /\ Idle)
  /\ status' = "finished"
  /\ UNCHANGED <<setup, stream, held, sourceDone, lastCycle, clk, phase, ingress, queues,
                 store, cursor, log, maintenance, idle, memory>>

\* remaining_frontend
Remaining == Cardinality(held)
             + (IF sourceDone THEN 0 ELSE RemainingHint(setup, stream))

-----------------------------------------------------------------------------
(* Storage: the open row of a bank keeps its columns until it is closed *)

BankKey(at) == [at EXCEPT !["row"] = 0, !["column"] = 0]

RowOpen(st, at) ==
  BankKey(at) \in DOMAIN st.rows /\ st.rows[BankKey(at)].row = at["row"]

LineBytes == setup.org.transaction

\* The parts of a transaction that lie in different lines.  The coordinates
\* of the transaction are those of its first line.
Pieces(r) ==
  LET base == r.address - (r.address % LineBytes)
      first == Min({r.size, base + LineBytes - r.address})
      Piece(b, offset, from, n, at) ==
        [base |-> b, offset |-> offset, from |-> from, size |-> n, at |-> at]
  IN <<Piece(base, r.address - base, 0, first, r.at)>>
     \o (IF first = r.size THEN <<>>
         ELSE <<Piece(base + LineBytes, 0, first, r.size - first,
                      Decode(setup.org, base + LineBytes))>>)

BackendLine(st, base) ==
  IF base \in DOMAIN st.lines THEN st.lines[base] ELSE Zeros(LineBytes)

\* row_buffer_block(): the column of the open row, loaded when it is missing.
LineBlock(st, p) ==
  LET row == st.rows[BankKey(p.at)]
  IN [base |-> p.base,
      bytes |-> IF p.at["column"] \in DOMAIN row.columns
                THEN row.columns[p.at["column"]].bytes
                ELSE BackendLine(st, p.base)]

WithBlock(st, p, block, dirty) ==
  LET row == st.rows[BankKey(p.at)]
      used == [row EXCEPT !.columns = With(@, p.at["column"], block),
                          !.dirty = @ \/ dirty]
  IN [st EXCEPT !.rows[BankKey(p.at)] = used]

\* MemoryImage::read(), one line: the bytes and the storage after it.
ReadPiece(acc, p) ==
  LET open == RowOpen(acc.st, p.at)
      bytes == IF open THEN LineBlock(acc.st, p).bytes
               ELSE BackendLine(acc.st, p.base)
  IN [st |-> IF open THEN WithBlock(acc.st, p, LineBlock(acc.st, p), FALSE)
             ELSE acc.st,
      bytes |-> acc.bytes \o SubSeq(bytes, p.offset + 1, p.offset + p.size)]

Overwritten(bytes, r, p) ==
  [i \in DOMAIN bytes |->
     LET j == i - p.offset + p.from
     IN IF i > p.offset /\ i <= p.offset + p.size /\ Enabled(r, j)
        THEN r.payload[j] ELSE bytes[i]]

\* MemoryImage::write(), one line; a line that was never written is allocated
\* in the backend before its bytes go to the open row.
WritePiece(st, r, p) ==
  LET allocated == [st EXCEPT !.lines = With(@, p.base, BackendLine(st, p.base))]
      block == LineBlock(st, p)
  IN IF RowOpen(st, p.at)
     THEN WithBlock(allocated, p,
                    [block EXCEPT !.bytes = Overwritten(@, r, p)], TRUE)
     ELSE [st EXCEPT !.lines =
             With(@, p.base, Overwritten(BackendLine(st, p.base), r, p))]

\* writeback_row_buffer(): the columns of a dirty row go to the lines they
\* were last used for.
WriteBack(lines, row) ==
  IF ~row.dirty THEN lines
  ELSE Over([l \in {row.columns[k].base : k \in DOMAIN row.columns} |->
               row.columns[CHOOSE k \in DOMAIN row.columns :
                             row.columns[k].base = l].bytes], lines)

-----------------------------------------------------------------------------
(* Controllers *)

Overlap(q, r) == q.address < r.address + r.size /\ r.address < q.address + q.size

\* The requests of controller c whose order with an earlier one is free.
Unordered(c) ==
  {i \in DOMAIN queues[c] :
     \A j \in 1 .. i - 1 : queues[c][j].type = "control"
                           \/ ~Overlap(queues[c][j], queues[c][i])}

\* The control command at the head of the Priority buffer.
HeadControls(c) ==
  {i \in DOMAIN queues[c] :
     /\ queues[c][i].type = "control"
     /\ \A j \in 1 .. i - 1 : queues[c][j].type # "control"}

Entry(c, r, cmd, id, payload) ==
  [cycle |-> clk, cmd |-> cmd, id |-> id, at |-> [r.at EXCEPT !["channel"] = 0],
   data |-> IF cmd \in {"RD", "WR"} THEN clk + setup.dfi.latency ELSE 0,
   stack |-> 0, position |-> <<>>,
   address |-> r.address, system |-> r.system, payload |-> payload,
   expected |-> r.expected, owed |-> r.owed]

TurnEnds(c) == IF phase = 2 * Cardinality(Controllers)
            THEN phase' = 0 /\ clk' = clk + 1
            ELSE phase' = phase + 1 /\ UNCHANGED clk

Turn(c, p) == Running /\ phase = p /\ TurnEnds(c)
              /\ UNCHANGED <<setup, stream, held, sourceDone, lastCycle, status, ingress,
                             cursor, memory>>

RowsOf(c) ==
  {k \in DOMAIN store[StackOf(c)].rows : k["channel"] = ChannelOf(c)}

SameRank(k, j) ==
  \A f \in {"channel", "pseudo_channel", "sid", "rank"} : k[f] = j[f]

RankRows(c, at) == {k \in RowsOf(c) : SameRank(k, at)}
BankRows(c, at) == {k \in RowsOf(c) : k = BankKey(at)}

\* The rows that are closed by a precharge for the bank at `at`.
RowsClosed(c, cmd, at) ==
  IF cmd = "PREAB" THEN RankRows(c, at) ELSE BankRows(c, at)

AllBankControls == {"REFAB", "RFMAB"}
PerBankControls == {"REFPB", "REFDB", "RFMPB"}

\* next_command() of a control command that closes rows, or has to close some
\* first; of a REFDB also those of the rank when the partner bank has one.
PrechargesFor(c, r) ==
  {cmd \in {"PREAB", "PREPB"} :
     /\ RowsClosed(c, cmd, r.at) # {}
     /\ \/ r.cmd = cmd
        \/ cmd = "PREAB" /\ r.cmd \in AllBankControls
        \/ cmd = "PREPB" /\ r.cmd \in PerBankControls
        \/ cmd = "PREAB" /\ r.cmd = "REFDB" /\ BankRows(c, r.at) = {}}

\* timing_ok(): the rows that have to be closed when a control command is issued;
\* the others are for an idle channel.
RowsInTheWay(c, r) ==
  CASE r.cmd \in AllBankControls -> RankRows(c, r.at)
    [] r.cmd \in PerBankControls -> BankRows(c, r.at)
    [] r.cmd \in {"WCKSYNC", "RASERR", "PDX", "SREFEX"} -> {}
    [] OTHER -> RowsOf(c)

\* Requests whose row is open, whose bank is closed, and control commands that
\* no open row is in the way of, or that close one.
ReadyColumns(c) ==
  {i \in Unordered(c) : queues[c][i].type # "control"
                        /\ RowOpen(store[StackOf(c)], queues[c][i].at)}
NeedsRow(c) ==
  {i \in DOMAIN queues[c] : queues[c][i].type # "control"
                            /\ BankKey(queues[c][i].at) \notin RowsOf(c)}
ReadyControls(c) ==
  {i \in HeadControls(c) : queues[c][i].cmd \notin {"PREAB", "PREPB"}
                           /\ RowsInTheWay(c, queues[c][i]) = {}}
ClosingControls(c) ==
  {i \in HeadControls(c) : PrechargesFor(c, queues[c][i]) # {}}

\* RD
ReadColumn(c) ==
  \E i \in ReadyColumns(c) : \E r \in {queues[c][i]} :
    /\ r.type = "read"
    /\ \E got \in {FoldLeft(ReadPiece, [st |-> store[StackOf(c)], bytes |-> <<>>],
                            Pieces(r))} :
         /\ store' = [store EXCEPT ![StackOf(c)] = got.st]
         /\ log' = [log EXCEPT ![c] = Append(@, Entry(c, r, "RD", r.id, got.bytes))]
    /\ queues' = [queues EXCEPT ![c] = RemoveAt(@, i)]
    /\ UNCHANGED <<maintenance, idle>>

\* WR
WriteColumn(c) ==
  \E i \in ReadyColumns(c) : \E r \in {queues[c][i]} :
    /\ r.type = "write"
    /\ store' = [store EXCEPT ![StackOf(c)] =
         FoldLeft(LAMBDA st, p : WritePiece(st, r, p), @, Pieces(r))]
    /\ log' = [log EXCEPT ![c] = Append(@, Entry(c, r, "WR", r.id, r.payload))]
    /\ queues' = [queues EXCEPT ![c] = RemoveAt(@, i)]
    /\ UNCHANGED <<maintenance, idle>>

\* A control command.
ControlCommand(c) ==
  \E i \in ReadyControls(c) : \E r \in {queues[c][i]} :
    /\ log' = [log EXCEPT ![c] = Append(@, Entry(c, r, r.cmd, r.id, <<>>))]
    /\ queues' = [queues EXCEPT ![c] = RemoveAt(@, i)]
    /\ UNCHANGED <<store, maintenance, idle>>

\* ACT
Activate(c) ==
  \E i \in NeedsRow(c) : \E r \in {queues[c][i]} :
    /\ store' = [store EXCEPT ![StackOf(c)].rows =
         With(@, BankKey(r.at), [row |-> r.at["row"], dirty |-> FALSE,
                                 columns |-> [k \in {} |-> 0]])]
    /\ log' = [log EXCEPT ![c] = Append(@, Entry(c, r, "ACT", r.id, <<>>))]
    /\ UNCHANGED <<queues, maintenance, idle>>

\* precharge_all(), precharge_bank(): the columns of the rows are written back.
CloseRows(c, closed) ==
  store' = [store EXCEPT ![StackOf(c)] =
    [rows |-> [j \in DOMAIN @.rows \ closed |-> @.rows[j]],
     lines |-> FoldSet(LAMBDA j, lines :
                         WriteBack(lines, store[StackOf(c)].rows[j]),
                       @.lines, closed)]]

\* PREAB and PREPB for the control command at the head, which is served when it
\* is the precharge itself.
PrechargeForControl(c) ==
  \E i \in ClosingControls(c) : \E r \in {queues[c][i]} :
  \E cmd \in PrechargesFor(c, r) :
    /\ CloseRows(c, RowsClosed(c, cmd, r.at))
    /\ log' = [log EXCEPT ![c] = Append(@, Entry(c, r, cmd, r.id, <<>>))]
    /\ queues' = IF r.cmd = cmd THEN [queues EXCEPT ![c] = RemoveAt(@, i)]
                 ELSE queues
    /\ UNCHANGED <<maintenance, idle>>

\* PREAB for the rank of an open bank: the controller's own maintenance.
PrechargeAll(c) ==
  maintenance[c] <= setup.precharges /\ \E k \in RowsOf(c) :
    /\ CloseRows(c, RankRows(c, k))
    /\ log' = [log EXCEPT ![c] =
         Append(@, Entry(c, [at |-> k, address |-> 0, system |-> 0,
                             expected |-> <<>>, owed |-> <<>>],
                         "PREAB", maintenance[c], <<>>))]
    /\ maintenance' = [maintenance EXCEPT ![c] = @ + 1]
    /\ UNCHANGED <<queues, idle>>

\* Timing holds a command back that could be issued; nothing is to be issued.
HeldBack(ready) ==
  /\ ready = {} \/ idle < setup.idle
  /\ idle' = IF ready = {} THEN idle ELSE idle + 1
  /\ UNCHANGED <<queues, store, log, maintenance>>

\* choose(Column) of Controller::tick()
ColumnTurn(c) ==
  Turn(c, 2 * c - 1)
  /\ (ReadColumn(c) \/ WriteColumn(c) \/ HeldBack(ReadyColumns(c)))

\* choose(Row)
RowTurn(c) ==
  Turn(c, 2 * c)
  /\ (ControlCommand(c) \/ PrechargeForControl(c) \/ Activate(c) \/ PrechargeAll(c)
      \/ HeldBack(ReadyControls(c) \cup ClosingControls(c) \cup NeedsRow(c)))

\* pick_priority_if(): a PREPB of a closed bank is dropped before the turn.
DropPrecharge(c) ==
  /\ Running /\ phase = 2 * c
  /\ \E i \in HeadControls(c) :
       /\ queues[c][i].cmd = "PREPB" /\ BankRows(c, queues[c][i].at) = {}
       /\ queues' = [queues EXCEPT ![c] = RemoveAt(@, i)]
  /\ UNCHANGED <<setup, stream, held, sourceDone, lastCycle, status, clk, phase, ingress,
                 store, cursor, log, maintenance, idle, memory>>

Next ==
  \/ Fetch \/ SourceEnds \/ Enqueue \/ StepBegins \/ Finish
  \/ \E c \in Controllers : ColumnTurn(c) \/ DropPrecharge(c) \/ RowTurn(c)

Spec == Init /\ [][Next]_vars

-----------------------------------------------------------------------------
(* collect_issued_commands() *)

Restored(c, i) ==
  [log[c][i] EXCEPT !.at["channel"] = ChannelOf(c), !.stack = StackOf(c),
                    !.position = <<c, i>>]

\* Fault: the commands of one cycle are ordered by the id of the request.
FaultMergedBefore(a, b) ==
  \/ a.cycle < b.cycle
  \/ a.cycle = b.cycle /\ a.position[1] < b.position[1]
  \/ a.cycle = b.cycle /\ a.position[1] = b.position[1]
       /\ (a.id < b.id \/ (a.id = b.id /\ a.position[2] < b.position[2]))

\* stable_sort by cycle, stack and channel: controllers are in that order,
\* and one controller's commands keep the order they were issued in.
MergedBefore(a, b) ==
  \/ a.cycle < b.cycle
  \/ a.cycle = b.cycle /\ a.position[1] < b.position[1]
  \/ a.cycle = b.cycle /\ a.position[1] = b.position[1]
       /\ a.position[2] < b.position[2]

Merged == UNION {{Restored(c, i) : i \in DOMAIN log[c]} : c \in Controllers}

\* The command with n - 1 others before it is the n-th of them.
IssuedCommands ==
  LET issued == Merged
  IN [n \in 1 .. Cardinality(issued) |->
        CHOOSE e \in issued :
          Cardinality({a \in issued : MergedBefore(a, e)}) = n - 1]

-----------------------------------------------------------------------------
(* Properties *)

Finished == status = "finished"

\* A read returns what the writes before it in the stream left, whatever
\* stack, channel and row its bytes were sent to (target_stack(),
\* target_channel(), AddressMapper::decode() and the open rows of MemoryImage
\* must agree that two transactions are for the same bytes).
ReadsReturnLastWrite ==
  \A c \in Controllers : \A i \in DOMAIN log[c] :
    log[c][i].cmd = "RD" => log[c][i].payload = log[c][i].owed

\* The streams never make the run throw: inject cycles are ordered, control
\* sequence included, every last_write is known, and every address is in a
\* stack (run_source(), lookup_last_write_payload(), StackAddressMapper).
NeverThrows == status # "threw"

OpensRow(a, b) ==
  a.cmd = "ACT" /\ a.stack = b.stack /\ BankKey(a.at) = BankKey(b.at)
  /\ a.at["row"] = b.at["row"]

ClosesRow(a, b) ==
  /\ a.stack = b.stack
  /\ \/ a.cmd = "PREAB" /\ SameRank(a.at, b.at)
     \/ a.cmd = "PREPB" /\ BankKey(a.at) = BankKey(b.at)

\* In the merged trace every column command finds its row open: merging the
\* controllers' commands must not put the PREAB of a cycle before the column
\* command the controller issued first (collect_issued_commands()).
MergedTraceLegal ==
  \A e \in Merged : e.cmd \in DataCommands =>
    \E a \in Merged : /\ OpensRow(a, e) /\ MergedBefore(a, e)
                      /\ \A p \in Merged : ClosesRow(p, e) /\ MergedBefore(p, e)
                                           => MergedBefore(p, a)

\* The DFI trace that is built from a run is accepted by its own validator,
\* and every read carries the bytes its trace line expects, also when
\* controllers number their own maintenance alike (validate_dfi_trace()).
DfiAccepts ==
  Finished => \E t \in {IssuedCommands} :
                ValidTrace(setup.dfi, t, BuildTrace(setup.dfi, t))

Replaced(events, i, e) == [events EXCEPT ![i] = e]

Later(d, e) == [e EXCEPT !.cycle = @ + 1, !.phase = (e.cycle + 1) % d.phases]

\* One event lost, repeated, late, of another channel, or of a request that was
\* never sent, or a beat with other bytes; the bytes of a command event are not
\* looked at.
Damaged(d, events, i) ==
  {RemoveAt(events, i), Append(events, events[i]),
   Replaced(events, i, Later(d, events[i])),
   Replaced(events, i, [events[i] EXCEPT !.at["channel"] = 1 - @]),
   Append(events, [events[i] EXCEPT !.id = @ + 100])}
  \cup IF events[i].kind = "command" THEN {}
       ELSE {Replaced(events, i, [events[i] EXCEPT !.payload = <<ZeroByte>> \o @])}

\* No damage to one event passes the validator (validate_dfi_trace()).
DfiFaultsSeen ==
  Finished =>
    \E t \in {IssuedCommands} : \E events \in {BuildTrace(setup.dfi, t)} :
      ValidTrace(setup.dfi, t, events) =>
        \A i \in DOMAIN events : \A bad \in Damaged(setup.dfi, events, i) :
          ~ValidTrace(setup.dfi, t, bad)

\* What a limited run reports as left before it begins, and the transactions that
\* run_source() has passed on.
Worth == RemainingHint(setup, InitialStream)
Injected == stream.transactions - Cardinality(held)

\* At any cycle at which a limited run may be cut off, what the frontend reports
\* as left and what it has passed on add up to the workload: a host line of which
\* some transactions are handed out is neither forgotten nor counted twice
\* (remaining_frontend, remaining_hint()).
RemainingAddsUp ==
  status # "threw" /\ setup.requests # 0 => Remaining + Injected = Worth
=============================================================================
