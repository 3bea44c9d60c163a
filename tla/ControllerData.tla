--------------------------- MODULE ControllerData ---------------------------
(***************************************************************************)
(* The data path of one channel controller (class Controller): a request   *)
(* is accepted by enqueue(), waits in the read or write queue, is promoted *)
(* to the active queue when its row is opened, issues its data command,    *)
(* waits in pending_ and leaves as a response.  Writes are also kept in    *)
(* buffered_writes_, from which later reads are forwarded and into which   *)
(* later writes to the same address are merged.                            *)
(*                                                                         *)
(* A byte of data is the controller_sequence of the write it came from, so *)
(* the value a read returns says which write it saw.  Which request has a  *)
(* ready bank and a ready bus is left open: any eligible one may be next.  *)
(***************************************************************************)
EXTENDS Integers, FiniteSets, FiniteSetsExt

CONSTANTS
  Bytes,         \* byte addresses of the storage behind the channel
  Addrs,         \* request addresses that are used
  WriteShapes,   \* [addr, span, masked, mask] of the writes a frontend sends
  ReadShapes,    \* [addr, span] of the reads a frontend sends
  Behavioral,    \* MemPhyMode: TRUE for Behavioral, FALSE for Direct
  DualBus,       \* dual_command_bus: separate column and row buses
  ReadDepth, WriteDepth, ActiveDepth, ResponseDepth,  \* queue capacities
  PhyReadDepth, PhyWriteDepth,                        \* MemPhy FIFO depths
  ReadLatency, WriteLatency,                          \* in ticks
  PrechargeGate, \* ticks from RDA/WRA to its bank's own PRE; 0: open page
  HighMark,      \* write mode is entered above this number of writes
  LowMark,       \* and left below this one
  MaxRequests,   \* bound on the requests of a behaviour
  NoWrite        \* "no entry" in buffered_writes_

ASSUME ConstantsAssumption ==
  /\ Bytes \subseteq Nat
  /\ WriteShapes \subseteq [addr : Addrs, span : SUBSET Bytes,
                            masked : BOOLEAN, mask : SUBSET Bytes]
  /\ \A shape \in WriteShapes : shape.mask \subseteq shape.span
  /\ ReadShapes \subseteq [addr : Addrs, span : SUBSET Bytes]
  /\ Behavioral \in BOOLEAN /\ DualBus \in BOOLEAN
  /\ {ReadDepth, WriteDepth, ActiveDepth, ResponseDepth,
      PhyReadDepth, PhyWriteDepth, ReadLatency, WriteLatency,
      MaxRequests} \subseteq Nat \ {0}
  /\ PrechargeGate \in Nat
  /\ HighMark \in Nat /\ LowMark \in Nat /\ LowMark <= HighMark + 1

VARIABLES
  phase,      \* where tick() is; "idle" between two ticks
  nextSeq,    \* next_controller_sequence_
  readQ,      \* request_queues_[Read]
  writeQ,     \* request_queues_[Write]
  activeQ,    \* request_queues_[Active]
  buffered,   \* buffered_writes_; its keys are buffered_write_addrs_
  writeMode,  \* write_mode_
  pending,    \* pending_: data command issued, or bypass, not yet answered
  phyReads,   \* MemPhy::read_fifo_
  phyWrites,  \* MemPhy::write_fifo_
  phyDone,    \* MemPhy::completions_
  image,      \* MemoryImage: byte -> value
  responses,  \* responses_
  answered,   \* history: sequences the requester has popped
  shadow      \* history: byte -> last accepted write, a frontend's own record

queueVars == <<readQ, writeQ, activeQ, buffered>>
phyVars   == <<phyReads, phyWrites, phyDone>>
vars == <<phase, nextSeq, queueVars, writeMode, pending, phyVars, image,
          responses, answered, shadow>>

-----------------------------------------------------------------------------
(* Data and records *)

Pad == -1                     \* a zero byte that no request wrote
Uninitialized == 0            \* a byte before the first write
Sequences == 1 .. MaxRequests
Values == {Pad, Uninitialized} \cup Sequences

NoData == [b \in {} |-> Uninitialized]

Overlap(s, t) == s \cap t # {}

Slice(f, s) == [b \in s |-> f[b]]

Overwrite(f, mask, g) == [b \in DOMAIN f |-> IF b \in mask THEN g[b] ELSE f[b]]

Phases == {"idle", "complete", "column", "row", "unified"}

Init ==
  /\ phase = "idle"
  /\ nextSeq = 1
  /\ readQ = {} /\ writeQ = {} /\ activeQ = {}
  /\ buffered = [a \in Addrs |-> NoWrite]
  /\ writeMode = FALSE
  /\ pending = {}
  /\ phyReads = {} /\ phyWrites = {} /\ phyDone = {}
  /\ image = [b \in Bytes |-> Uninitialized]
  /\ responses = {}
  /\ answered = {}
  /\ shadow = [b \in Bytes |-> Uninitialized]

-----------------------------------------------------------------------------
(* Dependencies between requests *)

BufferedAddrs == {a \in Addrs : buffered[a] # NoWrite}

\* read_hits_buffered_write(): an enabled byte of a buffered write is read.
ReadHitsBufferedWrite(span) ==
  \E a \in BufferedAddrs :
    Overlap(span \cap buffered[a].span, buffered[a].mask)

\* has_unresolved_overlapping_read(): `older` limits the search to reads
\* accepted before that sequence number, 0 takes every read.
UnresolvedRead(span, older) ==
  \E r \in readQ \cup activeQ \cup pending :
    /\ r.type = "Read"
    /\ older # 0 => r.seq < older
    /\ Overlap(span, r.span)

\* has_unresolved_overlapping_write()
UnresolvedWrite(span) ==
  \E p \in pending : p.type = "Write" /\ Overlap(span, p.span)

\* read_forward_payload(): the storage, overlaid byte by byte with the
\* newest buffered write; padding carries byte_sequence 0.
ForwardPayload(span) ==
  [b \in span |->
     LET writes == {a \in BufferedAddrs :
                      b \in buffered[a].span \cap buffered[a].mask}
     IN IF writes = {} THEN image[b]
        ELSE Max({buffered[a].data[b] : a \in writes})]

-----------------------------------------------------------------------------
(* enqueue().  It runs between two ticks.  A call that returns false        *)
(* changes nothing here: the frontend offers the request again later.       *)

CanAccept == phase = "idle" /\ nextSeq <= MaxRequests

Bypass(shape, type, data, expect) ==
  [seq |-> nextSeq, type |-> type, span |-> shape.span, bypass |-> TRUE,
   wait |-> 1, data |-> data, expect |-> expect]

\* A read of a buffered byte is answered from a snapshot taken now.
ForwardRead(shape) ==
  /\ CanAccept
  /\ ReadHitsBufferedWrite(shape.span)
  /\ pending' = pending \cup
       {Bypass(shape, "Read", ForwardPayload(shape.span),
               Slice(shadow, shape.span))}
  /\ nextSeq' = nextSeq + 1
  /\ UNCHANGED <<phase, queueVars, writeMode, phyVars, image, responses,
                 answered, shadow>>

EnqueueRead(shape) ==
  /\ CanAccept
  /\ ~ReadHitsBufferedWrite(shape.span)
  /\ Cardinality(readQ) < ReadDepth
  /\ readQ' = readQ \cup {[seq |-> nextSeq, type |-> "Read",
                           addr |-> shape.addr, span |-> shape.span,
                           expect |-> Slice(shadow, shape.span)]}
  /\ nextSeq' = nextSeq + 1
  /\ UNCHANGED <<phase, writeQ, activeQ, buffered, writeMode, pending,
                 phyVars, image, responses, answered, shadow>>

AcceptIntoShadow(shape) ==
  shadow' = [b \in Bytes |-> IF b \in shape.mask THEN nextSeq ELSE shadow[b]]

\* The entry a write starts with, or that replaces an older one.
NewEntry(shape) ==
  [span |-> shape.span, masked |-> shape.masked, mask |-> shape.mask,
   data |-> [b \in shape.span |-> nextSeq]]

\* Fault: the merged mask is the new write's alone.
FaultMergeForgetsMask(old, shape) ==
  [span |-> old.span, masked |-> TRUE, mask |-> shape.mask,
   data |-> [b \in shape.span |-> nextSeq]]

\* A masked write merged byte by byte.  The payload is extended with zeros to
\* the longer of the two; the old entry's transfer size stays as it was.
MergedEntry(old, shape) ==
  LET extent == DOMAIN old.data \cup shape.span
      mask == (IF old.masked THEN old.mask ELSE extent) \cup shape.mask
  IN [span |-> old.span, masked |-> mask # extent, mask |-> mask,
      data |-> [b \in extent |-> IF b \in shape.mask THEN nextSeq
                                 ELSE IF b \in DOMAIN old.data
                                      THEN old.data[b] ELSE Pad]]

\* Fault: a coalesced write is merged but never answered.
FaultCoalesceSilently(shape) ==
  /\ CanAccept
  /\ shape.addr \in BufferedAddrs
  /\ ~UnresolvedRead(shape.span, 0)
  /\ buffered' = [buffered EXCEPT ![shape.addr] = NewEntry(shape)]
  /\ nextSeq' = nextSeq + 1
  /\ AcceptIntoShadow(shape)
  /\ UNCHANGED <<phase, readQ, writeQ, activeQ, writeMode, pending, phyVars,
                 image, responses, answered>>

\* Fault: a write is merged although an overlapping read is unresolved.
FaultCoalesceEarly(shape) ==
  /\ CanAccept
  /\ shape.addr \in BufferedAddrs
  /\ buffered' = [buffered EXCEPT ![shape.addr] =
       IF shape.masked THEN MergedEntry(@, shape) ELSE NewEntry(shape)]
  /\ pending' = pending \cup {Bypass(shape, "Write", NoData, NoData)}
  /\ nextSeq' = nextSeq + 1
  /\ AcceptIntoShadow(shape)
  /\ UNCHANGED <<phase, readQ, writeQ, activeQ, writeMode, phyVars, image,
                 responses, answered>>

\* A second write to a buffered address needs no DRAM command of its own.
CoalesceWrite(shape) ==
  /\ CanAccept
  /\ shape.addr \in BufferedAddrs
  /\ ~UnresolvedRead(shape.span, 0)
  /\ buffered' = [buffered EXCEPT ![shape.addr] =
       IF shape.masked THEN MergedEntry(@, shape) ELSE NewEntry(shape)]
  /\ pending' = pending \cup {Bypass(shape, "Write", NoData, NoData)}
  /\ nextSeq' = nextSeq + 1
  /\ AcceptIntoShadow(shape)
  /\ UNCHANGED <<phase, readQ, writeQ, activeQ, writeMode, phyVars, image,
                 responses, answered>>

EnqueueWrite(shape) ==
  /\ CanAccept
  /\ shape.addr \notin BufferedAddrs
  /\ Cardinality(writeQ) < WriteDepth
  /\ buffered' = [buffered EXCEPT ![shape.addr] = NewEntry(shape)]
  /\ writeQ' = writeQ \cup {[seq |-> nextSeq, type |-> "Write",
                             addr |-> shape.addr, span |-> shape.span,
                             expect |-> NoData]}
  /\ nextSeq' = nextSeq + 1
  /\ AcceptIntoShadow(shape)
  /\ UNCHANGED <<phase, readQ, activeQ, writeMode, pending, phyVars, image,
                 responses, answered>>

-----------------------------------------------------------------------------
(* tick(), first half: the PHY advances, then finished requests leave.      *)

\* Fault: the remaining time is counted below zero.
FaultAgeUnderflow(x) == [x EXCEPT !.wait = @ - 1]

Age(x) == [x EXCEPT !.wait = IF @ = 0 THEN 0 ELSE @ - 1]
Matured(S) == {x \in S : x.wait = 0}
Waiting(S) == {x \in S : x.wait # 0}

\* Fault: the write FIFO is served from its back.
FaultPhyServesNewest ==
  /\ phase = "idle"
  /\ phase' = "complete"
  /\ pending' = {Age(p) : p \in pending}
  /\ LET writes == {Age(s) : s \in phyWrites}
         out == {w \in Matured(writes) : \A v \in writes : v.seq <= w.seq}
     IN /\ phyWrites' = writes \ out
        /\ phyDone' = phyDone \cup {[seq |-> s.seq, data |-> NoData] : s \in out}
        /\ image' = [b \in Bytes |->
             IF \E w \in out : b \in w.mask
             THEN (CHOOSE w \in out : b \in w.mask).data[b] ELSE image[b]]
  /\ UNCHANGED <<nextSeq, queueVars, writeMode, phyReads, responses, answered,
                 shadow>>

\* MemPhy::tick(): reads that are ready sample the storage before the write
\* that is ready commits.  One data command is issued per tick and all writes
\* take equally long, so at most one write is ready.
PhyTick ==
  /\ phase = "idle"
  /\ phase' = "complete"
  /\ pending' = {Age(p) : p \in pending}
  /\ LET reads == {Age(s) : s \in phyReads}
         writes == {Age(s) : s \in phyWrites}
     IN /\ phyReads' = Waiting(reads)
        /\ phyWrites' = Waiting(writes)
        /\ phyDone' = phyDone
             \cup {[seq |-> s.seq, data |-> Slice(image, s.span)] :
                   s \in Matured(reads)}
             \cup {[seq |-> s.seq, data |-> NoData] : s \in Matured(writes)}
        /\ image' = [b \in Bytes |->
             IF \E w \in Matured(writes) : b \in w.mask
             THEN (CHOOSE w \in Matured(writes) : b \in w.mask).data[b]
             ELSE image[b]]
  /\ UNCHANGED <<nextSeq, queueVars, writeMode, responses, answered, shadow>>

PhyHas(p) == \E d \in phyDone : d.seq = p.seq

Finished(p) == p.wait = 0 /\ (p.bypass \/ ~Behavioral \/ PhyHas(p))

\* complete_read(): a forwarded read returns its snapshot, a Behavioral read
\* what the PHY sampled, a Direct read the storage as it is now.
ReadData(p) ==
  IF p.type = "Write" THEN NoData
  ELSE IF p.bypass THEN p.data
  ELSE IF Behavioral THEN (CHOOSE d \in phyDone : d.seq = p.seq).data
  ELSE Slice(image, p.span)

Response(p) ==
  [seq |-> p.seq, type |-> p.type, data |-> ReadData(p), expect |-> p.expect]

\* Fault: a completion is looked at but stays in the PHY.
FaultCompletionStays ==
  /\ phase = "complete"
  /\ phase' = IF DualBus THEN "column" ELSE "unified"
  /\ LET done == {p \in pending : Finished(p)}
     IN /\ Cardinality(responses) + Cardinality(done) <= ResponseDepth
        /\ pending' = pending \ done
        /\ responses' = responses \cup {Response(p) : p \in done}
  /\ UNCHANGED <<nextSeq, queueVars, writeMode, phyVars, image, answered,
                 shadow>>

\* complete_pending(): every finished entry leaves while the response queue
\* has room; the rest keep their PHY completion.
CompletePending ==
  /\ phase = "complete"
  /\ phase' = IF DualBus THEN "column" ELSE "unified"
  /\ \E done \in SUBSET {p \in pending : Finished(p)} :
       /\ Cardinality(done) =
            Min({Cardinality({p \in pending : Finished(p)}),
                 ResponseDepth - Cardinality(responses)})
       /\ pending' = pending \ done
       /\ responses' = responses \cup {Response(p) : p \in done}
       /\ phyDone' = {d \in phyDone : \A p \in done : p.bypass \/ p.seq # d.seq}
  /\ UNCHANGED <<nextSeq, queueVars, writeMode, phyReads, phyWrites, image,
                 answered, shadow>>

-----------------------------------------------------------------------------
(* tick(), second half: choose() and issue().                               *)

\* Fault: writes overtake older overlapping reads.
FaultWriteOvertakes(r, isData) ==
  r.type = "Read" => (isData /\ Behavioral => ~UnresolvedWrite(r.span))

\* Fault: a write opens its row before the older read is resolved.
FaultWriteOpensEarly(r, isData) ==
  IF r.type = "Write" THEN isData => ~UnresolvedRead(r.span, r.seq)
  ELSE isData /\ Behavioral => ~UnresolvedWrite(r.span)

\* Fault: a read is issued while the PHY still holds an overlapping write.
FaultReadPassesPhyWrite(r, isData) ==
  r.type = "Write" => ~UnresolvedRead(r.span, r.seq)

\* candidate_eligible(), the part about data dependencies.  A write does not
\* even open its row while an older overlapping read is unresolved.
Eligible(r, isData) ==
  IF r.type = "Write" THEN ~UnresolvedRead(r.span, r.seq)
  ELSE isData /\ Behavioral => ~UnresolvedWrite(r.span)

\* MemPhy::can_accept_data()
PhyAdmits(r) ==
  Behavioral => IF r.type = "Read" THEN Cardinality(phyReads) < PhyReadDepth
                ELSE Cardinality(phyWrites) < PhyWriteDepth

\* set_write_mode()
NextWriteMode ==
  IF writeMode THEN ~(Cardinality(writeQ) < LowMark /\ readQ # {})
  ELSE Cardinality(writeQ) > HighMark \/ readQ = {}

\* A queued write that waits for an older read.
ReadDependency == \E w \in writeQ : UnresolvedRead(w.span, w.seq)

\* Fault: write mode serves writes only.
FaultNoReadFallback == IF ~NextWriteMode THEN readQ ELSE writeQ

\* pick_rw_if(): the queues an ordinary candidate may come from.
Served ==
  IF ~NextWriteMode THEN readQ
  ELSE writeQ \cup (IF ReadDependency THEN readQ ELSE {})

\* The second bus follows the first; a tick ends after the last one.
NextBus == phase' = IF phase = "column" THEN "row" ELSE "idle"

\* An auto-precharging command is not complete before its bank may close.
Gated(latency) == {latency, Max({latency, PrechargeGate})}

\* retire_or_advance() of RD/RDA: the request waits for its data.
RetireRead(r) ==
  /\ \E wait \in Gated(ReadLatency) :
       pending' = pending \cup
         {[seq |-> r.seq, type |-> "Read", span |-> r.span, bypass |-> FALSE,
           wait |-> wait, data |-> NoData, expect |-> r.expect]}
  /\ phyReads' = IF Behavioral
                 THEN phyReads \cup {[seq |-> r.seq, span |-> r.span,
                                      wait |-> ReadLatency]}
                 ELSE phyReads
  /\ UNCHANGED <<buffered, phyWrites, image>>

\* Fault: the entry stays in buffered_writes_ after its command.
FaultEntryStays(r) ==
  /\ image' = Overwrite(image, buffered[r.addr].mask, buffered[r.addr].data)
  /\ pending' = pending \cup
       {[seq |-> r.seq, type |-> "Write", span |-> r.span, bypass |-> FALSE,
         wait |-> 1, data |-> NoData, expect |-> NoData]}
  /\ UNCHANGED <<buffered, phyReads, phyWrites>>

\* Fault: the request's own payload is sent instead of the merged one.
FaultOwnPayload(r) ==
  /\ buffered' = [buffered EXCEPT ![r.addr] = NoWrite]
  /\ pending' = pending \cup
       {[seq |-> r.seq, type |-> "Write", span |-> r.span, bypass |-> FALSE,
         wait |-> WriteLatency, data |-> NoData, expect |-> NoData]}
  /\ phyWrites' = phyWrites \cup
       {[seq |-> r.seq, mask |-> r.span, data |-> [b \in r.span |-> r.seq],
         wait |-> WriteLatency]}
  /\ UNCHANGED <<phyReads, image>>

\* retire_or_advance() of WR/WRA: the merged payload leaves buffered_writes_.
\* Direct commits it at once, Behavioral hands it to the PHY.
RetireWrite(r) ==
  LET merged == buffered[r.addr] IN
  /\ buffered' = [buffered EXCEPT ![r.addr] = NoWrite]
  /\ \E wait \in Gated(IF Behavioral THEN WriteLatency ELSE 1) :
       pending' = pending \cup
         {[seq |-> r.seq, type |-> "Write", span |-> r.span, bypass |-> FALSE,
           wait |-> wait, data |-> NoData, expect |-> NoData]}
  /\ IF Behavioral
     THEN /\ phyWrites' = phyWrites \cup
               {[seq |-> r.seq, mask |-> merged.mask, data |-> merged.data,
                 wait |-> WriteLatency]}
          /\ UNCHANGED image
     ELSE /\ image' = Overwrite(image, merged.mask, merged.data)
          /\ UNCHANGED phyWrites
  /\ UNCHANGED phyReads

Retire(r) == IF r.type = "Read" THEN RetireRead(r) ELSE RetireWrite(r)

CanIssueData(r) ==
  phase \in {"column", "unified"} /\ Eligible(r, TRUE) /\ PhyAdmits(r)

\* RD/WR of a request that already opened its row.
IssueActive(r) ==
  /\ CanIssueData(r)
  /\ Retire(r)
  /\ activeQ' = activeQ \ {r}
  /\ NextBus
  /\ UNCHANGED <<nextSeq, readQ, writeQ, writeMode, phyDone, responses,
                 answered, shadow>>

\* RD/WR of a queued request whose row another request left open.
IssueQueued(r) ==
  /\ CanIssueData(r)
  /\ r \in Served
  /\ Retire(r)
  /\ readQ' = readQ \ {r}
  /\ writeQ' = writeQ \ {r}
  /\ writeMode' = NextWriteMode
  /\ NextBus
  /\ UNCHANGED <<nextSeq, activeQ, phyDone, responses, answered, shadow>>

\* ACT/ACT1 of a queued request: it moves to the active queue.
Promote(r) ==
  /\ phase \in {"row", "unified"}
  /\ r \in Served
  /\ Eligible(r, FALSE)
  /\ Cardinality(activeQ) < ActiveDepth
  /\ readQ' = readQ \ {r}
  /\ writeQ' = writeQ \ {r}
  /\ activeQ' = activeQ \cup {r}
  /\ writeMode' = NextWriteMode
  /\ NextBus
  /\ UNCHANGED <<nextSeq, buffered, pending, phyVars, image, responses,
                 answered, shadow>>

\* No request of this controller moves: no bank is ready, the PHY is not
\* ready, maintenance has the bus (pick_rw_if() is then not called), or the
\* command is one that leaves its request where it was (PRE, CAS, ACT2).
IssueOther ==
  /\ phase \in {"column", "row", "unified"}
  /\ NextBus
  /\ writeMode' \in {writeMode, NextWriteMode}
  /\ UNCHANGED <<nextSeq, queueVars, pending, phyVars, image, responses,
                 answered, shadow>>

-----------------------------------------------------------------------------
\* pop_response(): the requester takes an answer between two ticks.
PopResponse ==
  /\ phase = "idle"
  /\ \E r \in responses :
       /\ responses' = responses \ {r}
       /\ answered' = answered \cup {r.seq}
  /\ UNCHANGED <<phase, nextSeq, queueVars, writeMode, pending, phyVars,
                 image, shadow>>

IssueData == (\E r \in activeQ : IssueActive(r))
             \/ (\E r \in readQ \cup writeQ : IssueQueued(r))

Tick ==
  \/ PhyTick
  \/ CompletePending
  \/ IssueData
  \/ \E r \in readQ \cup writeQ : Promote(r)
  \/ IssueOther

Next ==
  \/ \E shape \in ReadShapes : ForwardRead(shape)
  \/ \E shape \in ReadShapes : EnqueueRead(shape)
  \/ \E shape \in WriteShapes : CoalesceWrite(shape)
  \/ \E shape \in WriteShapes : EnqueueWrite(shape)
  \/ Tick
  \/ PopResponse

\* tick() is called again and again and runs to its end; the requester pops
\* responses; and the gates that keep a command from a bank (JEDEC timing,
\* maintenance, PHY training) each open again, so an eligible data command
\* that keeps coming up is issued some day.
Fairness ==
  /\ WF_vars(Tick)
  /\ SF_vars(PopResponse)
  /\ SF_vars(IssueData)

Spec == Init /\ [][Next]_vars
FairSpec == Spec /\ Fairness

-----------------------------------------------------------------------------
(* Types *)

DataOver(spans) == UNION {[s -> Values] : s \in spans}

Requests == [seq : Sequences, type : {"Read", "Write"}, addr : Addrs,
             span : SUBSET Bytes, expect : DataOver(SUBSET Bytes)]
Entries == {e \in [span : SUBSET Bytes, masked : BOOLEAN,
                    mask : SUBSET Bytes, data : DataOver(SUBSET Bytes)] :
              e.mask \subseteq DOMAIN e.data}
PendingItems == [seq : Sequences, type : {"Read", "Write"},
                 span : SUBSET Bytes, bypass : BOOLEAN, wait : Nat,
                 data : DataOver(SUBSET Bytes),
                 expect : DataOver(SUBSET Bytes)]
PhyReadSlots == [seq : Sequences, span : SUBSET Bytes, wait : Nat]
PhyWriteSlots == {s \in [seq : Sequences, mask : SUBSET Bytes,
                         data : DataOver(SUBSET Bytes), wait : Nat] :
                    s.mask \subseteq DOMAIN s.data}
Completions == [seq : Sequences, data : DataOver(SUBSET Bytes)]
Responses == [seq : Sequences, type : {"Read", "Write"},
              data : DataOver(SUBSET Bytes), expect : DataOver(SUBSET Bytes)]

ASSUME NoWriteAssumption == NoWrite \notin Entries

\* Every variable holds what its C++ counterpart can hold.
TypeOK ==
  /\ phase \in Phases
  /\ nextSeq \in 1 .. MaxRequests + 1
  /\ readQ \subseteq Requests /\ \A r \in readQ : r.type = "Read"
  /\ writeQ \subseteq Requests /\ \A w \in writeQ : w.type = "Write"
  /\ activeQ \subseteq Requests
  /\ DOMAIN buffered = Addrs
  /\ \A a \in Addrs : buffered[a] = NoWrite \/ buffered[a] \in Entries
  /\ writeMode \in BOOLEAN
  /\ pending \subseteq PendingItems
  /\ phyReads \subseteq PhyReadSlots
  /\ phyWrites \subseteq PhyWriteSlots
  /\ phyDone \subseteq Completions
  /\ image \in [Bytes -> Values]
  /\ responses \subseteq Responses
  /\ answered \subseteq Sequences
  /\ shadow \in [Bytes -> Values]

-----------------------------------------------------------------------------
(* Properties *)

\* Writes to one address cover the same bytes, writes to two none in common:
\* the transactions the frontend cuts its requests into.
AlignedShapes(writes) ==
  \A v, w \in writes :
    /\ v.addr = w.addr => v.span = w.span
    /\ v.addr # w.addr => v.span \cap w.span = {}
    /\ ~v.masked => v.mask = v.span

\* A read that meets a write reads bytes of that write only.
CoveredReads(reads, writes) ==
  \A r \in reads, w \in writes :
    Overlap(r.span, w.span) => r.span \subseteq w.mask

Seqs(S) == {x.seq : x \in S}

Queued == readQ \cup writeQ \cup activeQ

Unique(S) == \A x, y \in S : x.seq = y.seq => x = y
Apart(S, T) == \A x \in S, y \in T : x.seq # y.seq

\* No accepted request is lost or answered twice: each one is in exactly one
\* of the queues, pending_, the response queue or the requester's hands,
\* also when it is coalesced, forwarded or held back by a full queue.
ExactlyOnePlace ==
  /\ Seqs(Queued \cup pending \cup responses) \cup answered = 1 .. nextSeq - 1
  /\ readQ \cap activeQ = {} /\ writeQ \cap activeQ = {}
  /\ Unique(Queued) /\ Unique(pending) /\ Unique(responses)
  /\ Apart(Queued, pending) /\ Apart(Queued, responses)
  /\ Apart(pending, responses)
  /\ \A x \in Queued \cup pending \cup responses : x.seq \notin answered

QueuedWrites == {w \in writeQ \cup activeQ : w.type = "Write"}

\* buffered_writes_ and the queues agree: an address is buffered exactly when
\* a write to it waits for its data command, and only one ever does.
BufferedIffQueued ==
  /\ \A w \in QueuedWrites : w.addr \in BufferedAddrs
  /\ \A a \in BufferedAddrs : \E w \in QueuedWrites : w.addr = a
  /\ \A v, w \in QueuedWrites : v.addr = w.addr => v = w

\* check_read_data() never reports DataMismatch: a read returns, byte by
\* byte, the last write accepted before it, whether it is forwarded, read
\* through the PHY or read from the storage.
ReadsSeeAcceptedOrder ==
  \A r \in responses : r.type = "Read" => r.data = r.expect

\* No read returns a byte of a write that was accepted after it, not even
\* when requests overlap without being aligned.
NoFutureData ==
  \A r \in responses : r.type = "Read" =>
    \A b \in DOMAIN r.data : r.data[b] < r.seq

\* The value of the last accepted write to a byte is always somewhere: in
\* buffered_writes_, in the PHY write FIFO, or in the storage, and the place
\* nearest to the requester holds it.
Newest(b) ==
  LET entries == {a \in BufferedAddrs : b \in buffered[a].mask}
      slots == {s \in phyWrites : b \in s.mask}
  IN IF entries # {} THEN Max({buffered[a].data[b] : a \in entries})
     ELSE IF slots # {} THEN Max({s.data[b] : s \in slots})
     ELSE image[b]
NewestValueHeld == \A b \in Bytes : Newest(b) = shadow[b]

\* A byte of the storage never goes back to the value of an older write.
StorageMovesForward == [][\A b \in Bytes : image'[b] >= image[b]]_image

\* The PHY and pending_ account for the same transfers: no completion is
\* left in completions_ without a request that will take it (done() would
\* never become true) and no request waits for a transfer the PHY lost.
PhyMatchesPending ==
  Behavioral =>
    /\ Seqs(phyReads) \cup Seqs(phyWrites) \cup Seqs(phyDone)
         = Seqs({p \in pending : ~p.bypass})
    /\ Seqs(phyReads) \cap Seqs(phyDone) = {}
    /\ Seqs(phyWrites) \cap Seqs(phyDone) = {}

\* A write that holds an open bank never waits for an older read, so
\* maintenance that waits for the bank cannot block the read it waits for.
ActiveWritesNeverWait ==
  \A w \in activeQ : w.type = "Write" => ~UnresolvedRead(w.span, w.seq)

\* Data dependencies alone never stop the scheduler: with nothing in flight
\* and work queued, some request pick_rw_if() or the active queue offers may
\* issue its data command.
NoCircularWait ==
  (pending = {} /\ readQ \cup writeQ \cup activeQ # {}) =>
    \E r \in activeQ \cup Served : Eligible(r, TRUE) /\ PhyAdmits(r)

\* Every accepted request is answered.
EveryRequestAnswered ==
  \A s \in Sequences : (nextSeq > s) ~> (s \in answered)

\* The controller implements the atomic store.  A queued or in-flight read is
\* owed what the frontend expects, one that has its data is owed that data.
Owed ==
  {[id |-> r.seq, data |-> r.expect] : r \in readQ \cup writeQ \cup activeQ}
    \cup {[id |-> p.seq,
           data |-> IF p.bypass THEN p.data ELSE p.expect] : p \in pending}
    \cup {[id |-> r.seq, data |-> r.data] : r \in responses}

Store == INSTANCE AtomicStore WITH
  Ids <- Sequences, InitialValue <- Uninitialized,
  store <- shadow, outstanding <- Owed, answered <- answered

\* Every accepted request takes effect at the moment it is accepted: what a
\* read is answered was fixed then, through write buffer, forwarding, both PHY
\* FIFOs and two queues in any order, and no request is answered twice.
ImplementsAtomicStore == Store!AbsSpec
=============================================================================
