------------------------ MODULE ControllerDataProofs ------------------------
(***************************************************************************)
(* Theorems about ControllerData that hold for every depth, latency, set   *)
(* of shapes and number of requests: first the types, the places of the    *)
(* requests and the coalescing of writes, then the order of overlapping    *)
(* requests, aligned or not.                                               *)
(***************************************************************************)
EXTENDS ControllerData, WellFoundedInduction, NaturalsInduction, TLAPS

\* The largest element of a bounded set of data values is in the set.
LEMMA MaxInSet ==
  ASSUME NEW S, S # {}, S \subseteq Values, MaxRequests \in Nat
  PROVE  Max(S) \in S
PROOF
  <1> DEFINE T == {MaxRequests - v : v \in S}
  <1>1. \A v \in S : v \in Int /\ v <= MaxRequests
    BY DEF Values, Sequences, Pad, Uninitialized
  <1>2. T \subseteq Nat
    BY <1>1
  <1>3. T # {}
    OBVIOUS
  <1>4. PICK m \in T : \A n \in T : ~ (<<n, m>> \in OpToRel(<, Nat))
    <2>. HIDE DEF T
    <2>. QED BY <1>2, <1>3, WFMin, NatLessThanWellFounded
  <1>5. PICK v \in S : m = MaxRequests - v
    BY <1>4
  <1>6. \A y \in S : ~ (MaxRequests - y < MaxRequests - v)
    BY <1>2, <1>4, <1>5 DEF OpToRel
  <1>7. \A y \in S : v >= y
    BY <1>1, <1>6
  <1>. QED BY <1>7 DEF Max

-----------------------------------------------------------------------------
(* Data functions *)

\* Any function from a set of bytes to values is a piece of data.
LEMMA DataIntro ==
  ASSUME NEW s \in SUBSET Bytes, NEW d \in [s -> Values]
  PROVE  d \in DataOver(SUBSET Bytes)
  BY DEF DataOver

LEMMA DataElim ==
  ASSUME NEW d \in DataOver(SUBSET Bytes)
  PROVE  DOMAIN d \in SUBSET Bytes /\ d \in [DOMAIN d -> Values]
  BY DEF DataOver

LEMMA NoDataIsData == NoData \in DataOver(SUBSET Bytes)
  <1>1. NoData \in [{} -> Values]
    BY DEF NoData
  <1>. QED BY <1>1, DataIntro

\* A part of the storage is data.
LEMMA SliceIsData ==
  ASSUME NEW f \in [Bytes -> Values], NEW s \in SUBSET Bytes
  PROVE  Slice(f, s) \in DataOver(SUBSET Bytes)
  <1>1. Slice(f, s) \in [s -> Values]
    BY DEF Slice
  <1>. QED BY <1>1, DataIntro

LEMMA BufferedEntry ==
  ASSUME TypeOK, NEW a \in BufferedAddrs
  PROVE  /\ a \in Addrs
         /\ buffered[a] \in Entries
         /\ \A b \in buffered[a].mask : buffered[a].data[b] \in Values
  <1>1. a \in Addrs /\ buffered[a] \in Entries
    BY DEF BufferedAddrs, TypeOK
  <1>2. buffered[a].data \in DataOver(SUBSET Bytes)
    BY <1>1 DEF Entries
  <1>3. buffered[a].data \in [DOMAIN buffered[a].data -> Values]
    BY <1>2, DataElim
  <1>. QED BY <1>1, <1>3 DEF Entries

\* What a read is forwarded is made of values of the storage and of writes.
LEMMA ForwardIsData ==
  ASSUME TypeOK, NEW span \in SUBSET Bytes
  PROVE  ForwardPayload(span) \in DataOver(SUBSET Bytes)
  <1>1. ASSUME NEW b \in span
        PROVE  ForwardPayload(span)[b] \in Values
    <2> DEFINE writes == {a \in BufferedAddrs :
                            b \in buffered[a].span \cap buffered[a].mask}
               data == {buffered[a].data[b] : a \in writes}
    <2>1. ForwardPayload(span)[b] = IF writes = {} THEN image[b] ELSE Max(data)
      BY DEF ForwardPayload
    <2>2. data \subseteq Values
      BY BufferedEntry
    <2>3. CASE writes = {}
      BY <2>1, <2>3 DEF TypeOK
    <2>4. CASE writes # {}
      <3>1. data # {}
        BY <2>4
      <3>2. Max(data) \in data
        <4>. HIDE DEF data
        <4>. QED BY <2>2, <3>1, MaxInSet, ConstantsAssumption
      <3>. QED BY <2>1, <2>2, <2>4, <3>2
    <2>. QED BY <2>3, <2>4
  <1>2. ForwardPayload(span) \in [span -> Values]
    BY <1>1 DEF ForwardPayload
  <1>. QED BY <1>2, DataIntro

-----------------------------------------------------------------------------
(* Type correctness *)

\* Shapes, as far as the proofs need them.
LEMMA ShapeTypes ==
  /\ \A shape \in WriteShapes :
       /\ shape.addr \in Addrs /\ shape.span \in SUBSET Bytes
       /\ shape.masked \in BOOLEAN /\ shape.mask \in SUBSET Bytes
       /\ shape.mask \subseteq shape.span
  /\ \A shape \in ReadShapes :
       shape.addr \in Addrs /\ shape.span \in SUBSET Bytes
  BY ConstantsAssumption

LEMMA BypassType ==
  ASSUME TypeOK, CanAccept, NEW shape, shape.span \in SUBSET Bytes,
         NEW type \in {"Read", "Write"},
         NEW data \in DataOver(SUBSET Bytes),
         NEW expect \in DataOver(SUBSET Bytes)
  PROVE  Bypass(shape, type, data, expect) \in PendingItems
  BY ConstantsAssumption
     DEF Bypass, PendingItems, TypeOK, CanAccept, Sequences

LEMMA NewEntryType ==
  ASSUME TypeOK, CanAccept, NEW shape \in WriteShapes
  PROVE  NewEntry(shape) \in Entries
  <1>1. nextSeq \in Values
    BY ConstantsAssumption DEF TypeOK, CanAccept, Values, Sequences
  <1>2. [b \in shape.span |-> nextSeq] \in DataOver(SUBSET Bytes)
    BY <1>1, ShapeTypes, DataIntro
  <1>. QED BY <1>2, ShapeTypes DEF NewEntry, Entries

LEMMA MergedEntryType ==
  ASSUME TypeOK, CanAccept, NEW shape \in WriteShapes, NEW old \in Entries
  PROVE  MergedEntry(old, shape) \in Entries
  <1> DEFINE extent == DOMAIN old.data \cup shape.span
             data == [b \in extent |-> IF b \in shape.mask THEN nextSeq
                                       ELSE IF b \in DOMAIN old.data
                                            THEN old.data[b] ELSE Pad]
             mask == (IF old.masked THEN old.mask ELSE extent) \cup shape.mask
  <1>1. nextSeq \in Values /\ Pad \in Values
    BY ConstantsAssumption DEF TypeOK, CanAccept, Values, Sequences
  <1>2. /\ DOMAIN old.data \in SUBSET Bytes
        /\ old.data \in [DOMAIN old.data -> Values]
    BY DataElim DEF Entries
  <1>3. extent \in SUBSET Bytes
    BY <1>2, ShapeTypes
  <1>4. data \in [extent -> Values]
    BY <1>1, <1>2
  <1>5. data \in DataOver(SUBSET Bytes)
    BY <1>3, <1>4, DataIntro
  <1>6. mask \subseteq extent
    BY ShapeTypes DEF Entries
  <1>7. MergedEntry(old, shape) =
          [span |-> old.span, masked |-> mask # extent, mask |-> mask,
           data |-> data]
    BY DEF MergedEntry
  <1>8. DOMAIN data = extent
    OBVIOUS
  <1>. HIDE DEF extent, data, mask
  <1>. QED BY <1>3, <1>5, <1>6, <1>7, <1>8 DEF Entries

LEMMA AcceptStep ==
  ASSUME TypeOK, CanAccept, nextSeq' = nextSeq + 1
  PROVE  nextSeq \in Sequences /\ nextSeq' \in 1 .. MaxRequests + 1
  BY ConstantsAssumption DEF TypeOK, CanAccept, Sequences

LEMMA ShadowType ==
  ASSUME TypeOK, CanAccept, NEW shape, AcceptIntoShadow(shape)
  PROVE  shadow' \in [Bytes -> Values]
  BY ConstantsAssumption
     DEF TypeOK, CanAccept, AcceptIntoShadow, Values, Sequences

LEMMA ForwardReadTypes ==
  ASSUME TypeOK, NEW shape \in ReadShapes, ForwardRead(shape)
  PROVE  TypeOK'
  <1> DEFINE item == Bypass(shape, "Read", ForwardPayload(shape.span),
                            Slice(shadow, shape.span))
  <1>1. shape.span \in SUBSET Bytes /\ CanAccept
    BY ShapeTypes DEF ForwardRead
  <1>2. ForwardPayload(shape.span) \in DataOver(SUBSET Bytes)
    BY <1>1, ForwardIsData
  <1>3. Slice(shadow, shape.span) \in DataOver(SUBSET Bytes)
    BY <1>1, SliceIsData DEF TypeOK
  <1>4. item \in PendingItems
    BY <1>1, <1>2, <1>3, BypassType
  <1>5. nextSeq' \in 1 .. MaxRequests + 1
    BY <1>1, AcceptStep DEF ForwardRead
  <1>6. pending' = pending \cup {item}
    BY DEF ForwardRead
  <1>. HIDE DEF item
  <1>. QED BY <1>4, <1>5, <1>6 DEF TypeOK, ForwardRead, queueVars, phyVars

LEMMA EnqueueReadTypes ==
  ASSUME TypeOK, NEW shape \in ReadShapes, EnqueueRead(shape)
  PROVE  TypeOK'
  <1> DEFINE r == [seq |-> nextSeq, type |-> "Read", addr |-> shape.addr,
                   span |-> shape.span, expect |-> Slice(shadow, shape.span)]
  <1>1. shape.span \in SUBSET Bytes /\ shape.addr \in Addrs /\ CanAccept
    BY ShapeTypes DEF EnqueueRead
  <1>2. Slice(shadow, shape.span) \in DataOver(SUBSET Bytes)
    BY <1>1, SliceIsData DEF TypeOK
  <1>3. nextSeq \in Sequences /\ nextSeq' \in 1 .. MaxRequests + 1
    BY <1>1, AcceptStep DEF EnqueueRead
  <1>4. r \in Requests /\ r.type = "Read"
    BY <1>1, <1>2, <1>3 DEF Requests
  <1>5. readQ' = readQ \cup {r}
    BY DEF EnqueueRead
  <1>. HIDE DEF r
  <1>. QED BY <1>3, <1>4, <1>5 DEF TypeOK, EnqueueRead, phyVars

LEMMA CoalesceWriteTypes ==
  ASSUME TypeOK, NEW shape \in WriteShapes, CoalesceWrite(shape)
  PROVE  TypeOK'
  <1> DEFINE item == Bypass(shape, "Write", NoData, NoData)
             entry == IF shape.masked THEN MergedEntry(buffered[shape.addr], shape)
                      ELSE NewEntry(shape)
  <1>1. /\ shape.span \in SUBSET Bytes /\ CanAccept
        /\ shape.addr \in BufferedAddrs
        /\ AcceptIntoShadow(shape)
        /\ nextSeq' = nextSeq + 1
    BY ShapeTypes DEF CoalesceWrite
  <1>2. item \in PendingItems
    BY <1>1, NoDataIsData, BypassType
  <1>3. shape.addr \in Addrs /\ buffered[shape.addr] \in Entries
    BY <1>1, BufferedEntry
  <1>4. entry \in Entries
    BY <1>1, <1>3, NewEntryType, MergedEntryType
  <1>5. nextSeq' \in 1 .. MaxRequests + 1
    BY <1>1, AcceptStep
  <1>6. shadow' \in [Bytes -> Values]
    BY <1>1, ShadowType
  <1>7. /\ pending' = pending \cup {item}
        /\ buffered' = [buffered EXCEPT ![shape.addr] = entry]
    BY DEF CoalesceWrite
  <1>. HIDE DEF item, entry
  <1>8. /\ DOMAIN buffered' = Addrs
        /\ \A a \in Addrs : buffered'[a] = NoWrite \/ buffered'[a] \in Entries
    BY <1>3, <1>4, <1>7 DEF TypeOK
  <1>. QED BY <1>2, <1>5, <1>6, <1>7, <1>8 DEF TypeOK, CoalesceWrite, phyVars

LEMMA EnqueueWriteTypes ==
  ASSUME TypeOK, NEW shape \in WriteShapes, EnqueueWrite(shape)
  PROVE  TypeOK'
  <1> DEFINE w == [seq |-> nextSeq, type |-> "Write", addr |-> shape.addr,
                   span |-> shape.span, expect |-> NoData]
             entry == NewEntry(shape)
  <1>1. /\ shape.span \in SUBSET Bytes /\ shape.addr \in Addrs /\ CanAccept
        /\ AcceptIntoShadow(shape)
        /\ nextSeq' = nextSeq + 1
    BY ShapeTypes DEF EnqueueWrite
  <1>2. entry \in Entries
    BY <1>1, NewEntryType
  <1>3. nextSeq \in Sequences /\ nextSeq' \in 1 .. MaxRequests + 1
    BY <1>1, AcceptStep
  <1>4. shadow' \in [Bytes -> Values]
    BY <1>1, ShadowType
  <1>5. w \in Requests /\ w.type = "Write"
    BY <1>1, <1>3, NoDataIsData DEF Requests
  <1>6. /\ writeQ' = writeQ \cup {w}
        /\ buffered' = [buffered EXCEPT ![shape.addr] = entry]
    BY DEF EnqueueWrite
  <1>. HIDE DEF w, entry
  <1>7. /\ DOMAIN buffered' = Addrs
        /\ \A a \in Addrs : buffered'[a] = NoWrite \/ buffered'[a] \in Entries
    BY <1>1, <1>2, <1>6 DEF TypeOK
  <1>. QED BY <1>3, <1>4, <1>5, <1>6, <1>7 DEF TypeOK, EnqueueWrite, phyVars

\* Ageing changes the remaining time and nothing else.
LEMMA AgeTypes ==
  /\ \A p \in PendingItems : Age(p) \in PendingItems
  /\ \A x \in PhyReadSlots : Age(x) \in PhyReadSlots
  /\ \A x \in PhyWriteSlots : Age(x) \in PhyWriteSlots
  BY DEF Age, PendingItems, PhyReadSlots, PhyWriteSlots

LEMMA PhyTickTypes ==
  ASSUME TypeOK, PhyTick
  PROVE  TypeOK'
  <1> DEFINE reads == {Age(x) : x \in phyReads}
             writes == {Age(x) : x \in phyWrites}
  <1>1. reads \subseteq PhyReadSlots /\ writes \subseteq PhyWriteSlots
    BY AgeTypes DEF TypeOK
  <1>2. \A x \in reads : [seq |-> x.seq, data |-> Slice(image, x.span)]
                           \in Completions
    BY <1>1, SliceIsData DEF TypeOK, PhyReadSlots, Completions
  <1>3. \A x \in writes : [seq |-> x.seq, data |-> NoData] \in Completions
    BY <1>1, NoDataIsData DEF PhyWriteSlots, Completions
  <1>4. ASSUME NEW b \in Bytes, NEW w \in writes, b \in w.mask
        PROVE  w.data[b] \in Values
    BY <1>1, <1>4, DataElim DEF PhyWriteSlots
  <1>5. /\ pending' = {Age(p) : p \in pending}
        /\ phyReads' = Waiting(reads)
        /\ phyWrites' = Waiting(writes)
        /\ phyDone' = phyDone
             \cup {[seq |-> x.seq, data |-> Slice(image, x.span)] :
                   x \in Matured(reads)}
             \cup {[seq |-> x.seq, data |-> NoData] : x \in Matured(writes)}
        /\ image' = [b \in Bytes |->
             IF \E w \in Matured(writes) : b \in w.mask
             THEN (CHOOSE w \in Matured(writes) : b \in w.mask).data[b]
             ELSE image[b]]
    BY DEF PhyTick
  <1>6. pending' \subseteq PendingItems
    BY <1>5, AgeTypes DEF TypeOK
  <1>. HIDE DEF reads, writes
  <1>7. phyReads' \subseteq PhyReadSlots /\ phyWrites' \subseteq PhyWriteSlots
    BY <1>1, <1>5 DEF Waiting
  <1>8. phyDone' \subseteq Completions
    BY <1>2, <1>3, <1>5 DEF Matured, TypeOK
  <1>9. image' \in [Bytes -> Values]
    BY <1>4, <1>5 DEF Matured, TypeOK
  <1>. QED BY <1>6, <1>7, <1>8, <1>9
           DEF TypeOK, PhyTick, queueVars, Phases

LEMMA ResponseType ==
  ASSUME TypeOK, NEW p \in pending, Finished(p)
  PROVE  Response(p) \in Responses
  <1>1. p \in PendingItems
    BY DEF TypeOK
  <1>2. ReadData(p) \in DataOver(SUBSET Bytes)
    <2>1. CASE p.type = "Write"
      BY <2>1, NoDataIsData DEF ReadData
    <2>2. CASE p.type # "Write" /\ p.bypass
      BY <1>1, <2>2 DEF ReadData, PendingItems
    <2>3. CASE p.type # "Write" /\ ~p.bypass /\ Behavioral
      <3>1. \E d \in phyDone : d.seq = p.seq
        BY <2>3 DEF Finished, PhyHas
      <3>2. (CHOOSE d \in phyDone : d.seq = p.seq) \in Completions
        BY <3>1 DEF TypeOK
      <3>. QED BY <2>3, <3>2 DEF ReadData, Completions
    <2>4. CASE p.type # "Write" /\ ~p.bypass /\ ~Behavioral
      BY <1>1, <2>4, SliceIsData DEF ReadData, PendingItems, TypeOK
    <2>. QED BY <2>1, <2>2, <2>3, <2>4
  <1>. QED BY <1>1, <1>2 DEF Response, Responses, PendingItems

LEMMA CompletePendingTypes ==
  ASSUME TypeOK, CompletePending
  PROVE  TypeOK'
  <1>1. PICK done \in SUBSET {p \in pending : Finished(p)} :
          /\ pending' = pending \ done
          /\ responses' = responses \cup {Response(p) : p \in done}
          /\ phyDone' = {d \in phyDone :
                           \A p \in done : p.bypass \/ p.seq # d.seq}
    BY DEF CompletePending
  <1>2. \A p \in done : Response(p) \in Responses
    BY ResponseType
  <1>3. responses' \subseteq Responses
    BY <1>1, <1>2 DEF TypeOK
  <1>. QED BY <1>1, <1>3 DEF TypeOK, CompletePending, queueVars, Phases

LEMMA GatedType ==
  ASSUME NEW n \in Nat
  PROVE  Gated(n) \subseteq Nat
  <1>1. PrechargeGate \in Nat
    BY ConstantsAssumption
  <1>2. CASE n <= PrechargeGate
    <2>1. PrechargeGate \in {n, PrechargeGate}
            /\ \A y \in {n, PrechargeGate} : PrechargeGate >= y
      BY <1>1, <1>2
    <2>2. Max({n, PrechargeGate}) \in {n, PrechargeGate}
      BY <2>1 DEF Max
    <2>. QED BY <1>1, <2>2 DEF Gated
  <1>3. CASE ~(n <= PrechargeGate)
    <2>1. n \in {n, PrechargeGate} /\ \A y \in {n, PrechargeGate} : n >= y
      BY <1>1, <1>3
    <2>2. Max({n, PrechargeGate}) \in {n, PrechargeGate}
      BY <2>1 DEF Max
    <2>. QED BY <1>1, <2>2 DEF Gated
  <1>. QED BY <1>2, <1>3

\* What retiring a request changes keeps its type.
LEMMA RetireTypes ==
  ASSUME TypeOK, NEW r \in Requests, Retire(r),
         r.type = "Write" => r.addr \in BufferedAddrs
  PROVE  /\ DOMAIN buffered' = Addrs
         /\ \A a \in Addrs : buffered'[a] = NoWrite \/ buffered'[a] \in Entries
         /\ pending' \subseteq PendingItems
         /\ phyReads' \subseteq PhyReadSlots
         /\ phyWrites' \subseteq PhyWriteSlots
         /\ image' \in [Bytes -> Values]
  <1>1. ReadLatency \in Nat /\ WriteLatency \in Nat /\ Behavioral \in BOOLEAN
    BY ConstantsAssumption
  <1>2. CASE r.type = "Read"
    <2>1. RetireRead(r)
      BY <1>2 DEF Retire
    <2>2. ASSUME NEW wait \in Gated(ReadLatency)
          PROVE  [seq |-> r.seq, type |-> "Read", span |-> r.span,
                  bypass |-> FALSE, wait |-> wait, data |-> NoData,
                  expect |-> r.expect] \in PendingItems
      <3>1. wait \in Nat
        BY <1>1, GatedType
      <3>. QED BY <3>1, NoDataIsData DEF Requests, PendingItems
    <2>3. [seq |-> r.seq, span |-> r.span, wait |-> ReadLatency]
             \in PhyReadSlots
      BY <1>1 DEF Requests, PhyReadSlots
    <2>4. pending' \subseteq PendingItems
      BY <2>1, <2>2 DEF RetireRead, TypeOK
    <2>. QED BY <2>1, <2>3, <2>4 DEF RetireRead, TypeOK
  <1>3. CASE r.type = "Write"
    <2> DEFINE e == buffered[r.addr]
               slot == [seq |-> r.seq, mask |-> e.mask, data |-> e.data,
                        wait |-> WriteLatency]
               latency == IF Behavioral THEN WriteLatency ELSE 1
               item(wait) == [seq |-> r.seq, type |-> "Write",
                              span |-> r.span, bypass |-> FALSE,
                              wait |-> wait, data |-> NoData,
                              expect |-> NoData]
    <2>1. RetireWrite(r)
      BY <1>3 DEF Retire
    <2>2. e \in Entries /\ \A b \in e.mask : e.data[b] \in Values
      BY <1>3, BufferedEntry
    <2>3. slot \in PhyWriteSlots
      BY <1>1, <2>2 DEF Entries, PhyWriteSlots, Requests
    <2>4. \A wait \in Gated(latency) : item(wait) \in PendingItems
      <3>1. latency \in Nat
        BY <1>1
      <3>2. \A wait \in Gated(latency) : wait \in Nat
        BY <3>1, GatedType
      <3>. QED BY <3>2, NoDataIsData DEF Requests, PendingItems
    <2>5. Overwrite(image, e.mask, e.data) \in [Bytes -> Values]
      BY <2>2 DEF Overwrite, TypeOK
    <2>6. /\ buffered' = [buffered EXCEPT ![r.addr] = NoWrite]
          /\ \E wait \in Gated(latency) : pending' = pending \cup {item(wait)}
          /\ phyWrites' = phyWrites \cup {slot} \/ phyWrites' = phyWrites
          /\ image' = Overwrite(image, e.mask, e.data) \/ image' = image
          /\ phyReads' = phyReads
      BY <2>1 DEF RetireWrite
    <2>. HIDE DEF e, slot, item, latency
    <2>. QED BY <2>3, <2>4, <2>5, <2>6 DEF TypeOK
  <1>. QED BY <1>2, <1>3 DEF Requests

-----------------------------------------------------------------------------
(* The inductive invariant: types, the agreement of buffered_writes_ with  *)
(* the queues, and that a queued write is in one of the two queues only.   *)

QueuesApart == writeQ \cap activeQ = {}

QueueInv == TypeOK /\ BufferedIffQueued /\ QueuesApart

LEMMA InitQueueInv == Init => QueueInv
  <1>1. ASSUME Init PROVE TypeOK
    <2>1. /\ 1 \in 1 .. MaxRequests + 1
          /\ Uninitialized \in Values
      BY ConstantsAssumption DEF Values
    <2>2. /\ image \in [Bytes -> Values] /\ shadow \in [Bytes -> Values]
          /\ nextSeq \in 1 .. MaxRequests + 1
      BY <1>1, <2>1 DEF Init
    <2>3. /\ DOMAIN buffered = Addrs
          /\ \A a \in Addrs : buffered[a] = NoWrite
      BY <1>1 DEF Init
    <2>. QED BY <1>1, <2>2, <2>3 DEF Init, TypeOK, Phases
  <1>2. ASSUME Init PROVE BufferedIffQueued
    BY <1>2 DEF Init, BufferedIffQueued, BufferedAddrs, QueuedWrites
  <1>3. ASSUME Init PROVE QueuesApart
    BY <1>3 DEF Init, QueuesApart
  <1>. QED BY <1>1, <1>2, <1>3 DEF QueueInv

\* A queued write has its entry.
LEMMA QueuedWriteBuffered ==
  ASSUME QueueInv, NEW r \in readQ \cup writeQ \cup activeQ, r.type = "Write"
  PROVE  r \in QueuedWrites /\ r.addr \in BufferedAddrs /\ r.addr \in Addrs
  BY DEF QueueInv, TypeOK, BufferedIffQueued, QueuedWrites, BufferedAddrs

\* The agreement when a write enters the queue under a free address.
LEMMA EnqueueWriteAgreement ==
  ASSUME QueueInv, NEW shape \in WriteShapes, EnqueueWrite(shape)
  PROVE  BufferedIffQueued' /\ QueuesApart'
  <1> DEFINE w == [seq |-> nextSeq, type |-> "Write", addr |-> shape.addr,
                   span |-> shape.span, expect |-> NoData]
  <1>1. /\ writeQ' = writeQ \cup {w}
        /\ w.type = "Write" /\ w.addr = shape.addr
    BY DEF EnqueueWrite
  <1>. HIDE DEF w
  <1>2. /\ activeQ' = activeQ
        /\ buffered' = [buffered EXCEPT ![shape.addr] = NewEntry(shape)]
        /\ shape.addr \notin BufferedAddrs
        /\ CanAccept
    BY DEF EnqueueWrite
  <1>3. shape.addr \in Addrs /\ DOMAIN buffered = Addrs
    BY ShapeTypes DEF QueueInv, TypeOK
  <1>4. NewEntry(shape) # NoWrite
    BY NoWriteAssumption, NewEntryType, <1>2 DEF QueueInv
  <1>5. BufferedAddrs' = BufferedAddrs \cup {shape.addr}
    BY <1>2, <1>3, <1>4 DEF BufferedAddrs
  <1>6. QueuedWrites' = QueuedWrites \cup {w}
    BY <1>1, <1>2 DEF QueuedWrites
  <1>7. w \notin activeQ
    BY <1>1, <1>2, QueuedWriteBuffered
  <1>. QED BY <1>1, <1>2, <1>5, <1>6, <1>7
           DEF QueueInv, BufferedIffQueued, QueuesApart

\* The agreement when the write r leaves its queue and its entry is cleared.
LEMMA RetireWriteAgreement ==
  ASSUME QueueInv, NEW r \in QueuedWrites,
         buffered' = [buffered EXCEPT ![r.addr] = NoWrite],
         QueuedWrites' = QueuedWrites \ {r}
  PROVE  BufferedIffQueued'
  <1>1. r.addr \in Addrs /\ DOMAIN buffered = Addrs
    BY DEF QueueInv, BufferedIffQueued, BufferedAddrs, TypeOK
  <1>2. BufferedAddrs' = BufferedAddrs \ {r.addr}
    BY <1>1 DEF BufferedAddrs
  <1>. QED BY <1>2 DEF QueueInv, BufferedIffQueued

\* Retiring a request keeps the agreement, whichever queue it was in.
LEMMA RetireAgreement ==
  ASSUME QueueInv, NEW r \in readQ \cup writeQ \cup activeQ, Retire(r),
         QueuedWrites' = QueuedWrites \ {r}
  PROVE  BufferedIffQueued'
  <1>1. r.type \in {"Read", "Write"}
    BY DEF QueueInv, TypeOK, Requests
  <1>2. CASE r.type = "Read"
    <2>1. buffered' = buffered /\ r \notin QueuedWrites
      BY <1>2 DEF Retire, RetireRead, QueuedWrites
    <2>. QED BY <2>1 DEF QueueInv, BufferedIffQueued, BufferedAddrs
  <1>3. CASE r.type = "Write"
    <2>1. r \in QueuedWrites
      BY <1>3, QueuedWriteBuffered
    <2>2. buffered' = [buffered EXCEPT ![r.addr] = NoWrite]
      BY <1>3 DEF Retire, RetireWrite
    <2>. QED BY <2>1, <2>2, RetireWriteAgreement
  <1>. QED BY <1>1, <1>2, <1>3

LEMMA IssueActiveQueueInv ==
  ASSUME QueueInv, NEW r \in activeQ, IssueActive(r)
  PROVE  QueueInv'
  <1>1. r \in Requests /\ Retire(r)
    BY DEF QueueInv, TypeOK, IssueActive
  <1>2. r.type = "Write" => r.addr \in BufferedAddrs
    BY QueuedWriteBuffered
  <1>3. TypeOK'
    <2>1. /\ DOMAIN buffered' = Addrs
          /\ \A a \in Addrs : buffered'[a] = NoWrite \/ buffered'[a] \in Entries
          /\ pending' \subseteq PendingItems
          /\ phyReads' \subseteq PhyReadSlots
          /\ phyWrites' \subseteq PhyWriteSlots
          /\ image' \in [Bytes -> Values]
      BY <1>1, <1>2, RetireTypes DEF QueueInv
    <2>. QED BY <2>1 DEF QueueInv, TypeOK, IssueActive, NextBus, Phases
  <1>4. QueuedWrites' = QueuedWrites \ {r} /\ QueuesApart'
    BY DEF QueueInv, QueuesApart, QueuedWrites, IssueActive
  <1>5. BufferedIffQueued'
    BY <1>1, <1>4, RetireAgreement
  <1>. QED BY <1>3, <1>4, <1>5 DEF QueueInv

LEMMA IssueQueuedQueueInv ==
  ASSUME QueueInv, NEW r \in readQ \cup writeQ, IssueQueued(r)
  PROVE  QueueInv'
  <1>1. r \in Requests /\ Retire(r)
    BY DEF QueueInv, TypeOK, IssueQueued
  <1>2. r.type = "Write" => r.addr \in BufferedAddrs
    BY QueuedWriteBuffered
  <1>3. TypeOK'
    <2>1. /\ DOMAIN buffered' = Addrs
          /\ \A a \in Addrs : buffered'[a] = NoWrite \/ buffered'[a] \in Entries
          /\ pending' \subseteq PendingItems
          /\ phyReads' \subseteq PhyReadSlots
          /\ phyWrites' \subseteq PhyWriteSlots
          /\ image' \in [Bytes -> Values]
      BY <1>1, <1>2, RetireTypes DEF QueueInv
    <2>2. NextWriteMode \in BOOLEAN
      BY DEF NextWriteMode
    <2>. QED BY <2>1, <2>2 DEF QueueInv, TypeOK, IssueQueued, NextBus, Phases
  <1>4. QueuedWrites' = QueuedWrites \ {r} /\ QueuesApart'
    BY DEF QueueInv, TypeOK, QueuesApart, QueuedWrites, IssueQueued
  <1>5. BufferedIffQueued'
    BY <1>1, <1>4, RetireAgreement
  <1>. QED BY <1>3, <1>4, <1>5 DEF QueueInv

LEMMA PromoteQueueInv ==
  ASSUME QueueInv, NEW r \in readQ \cup writeQ, Promote(r)
  PROVE  QueueInv'
  <1>1. TypeOK'
    <2>1. NextWriteMode \in BOOLEAN
      BY DEF NextWriteMode
    <2>. QED BY <2>1
             DEF QueueInv, TypeOK, Promote, NextBus, Phases, phyVars
  <1>2. QueuedWrites' = QueuedWrites
    BY DEF QueueInv, TypeOK, QueuedWrites, Promote
  <1>3. BufferedIffQueued'
    BY <1>2 DEF QueueInv, BufferedIffQueued, BufferedAddrs, Promote
  <1>4. QueuesApart'
    BY DEF QueueInv, QueuesApart, Promote
  <1>. QED BY <1>1, <1>3, <1>4 DEF QueueInv

LEMMA CoalesceAgreement ==
  ASSUME QueueInv, NEW shape \in WriteShapes, CoalesceWrite(shape)
  PROVE  BufferedIffQueued' /\ QueuesApart'
  <1> DEFINE entry == IF shape.masked
                      THEN MergedEntry(buffered[shape.addr], shape)
                      ELSE NewEntry(shape)
  <1>1. /\ CanAccept /\ shape.addr \in BufferedAddrs
        /\ buffered' = [buffered EXCEPT ![shape.addr] = entry]
        /\ UNCHANGED <<readQ, writeQ, activeQ>>
    BY DEF CoalesceWrite
  <1>2. /\ shape.addr \in Addrs /\ buffered[shape.addr] \in Entries
        /\ DOMAIN buffered = Addrs
    BY <1>1, BufferedEntry DEF QueueInv, TypeOK
  <1>3. entry \in Entries
    BY <1>1, <1>2, NewEntryType, MergedEntryType DEF QueueInv
  <1>. HIDE DEF entry
  <1>4. BufferedAddrs' = BufferedAddrs
    BY <1>1, <1>2, <1>3, NoWriteAssumption DEF BufferedAddrs
  <1>. QED BY <1>1, <1>4
           DEF QueueInv, BufferedIffQueued, QueuedWrites, QueuesApart

\* Steps that leave the queues and buffered_writes_ alone keep the agreement.
LEMMA QueuesUnchanged ==
  ASSUME QueueInv, TypeOK', UNCHANGED <<writeQ, activeQ, buffered>>
  PROVE  QueueInv'
  BY DEF QueueInv, BufferedIffQueued, BufferedAddrs, QueuedWrites, QueuesApart

LEMMA QueueInvStep == QueueInv /\ [Next]_vars => QueueInv'
  <1>. SUFFICES ASSUME QueueInv, [Next]_vars PROVE QueueInv'
    OBVIOUS
  <1>1. TypeOK
    BY DEF QueueInv
  <1>2. CASE \E shape \in ReadShapes : ForwardRead(shape)
    <2>1. TypeOK' /\ UNCHANGED <<writeQ, activeQ, buffered>>
      BY <1>1, <1>2, ForwardReadTypes DEF ForwardRead, queueVars
    <2>. QED BY <2>1, QueuesUnchanged
  <1>3. CASE \E shape \in ReadShapes : EnqueueRead(shape)
    <2>1. TypeOK' /\ UNCHANGED <<writeQ, activeQ, buffered>>
      BY <1>1, <1>3, EnqueueReadTypes DEF EnqueueRead
    <2>. QED BY <2>1, QueuesUnchanged
  <1>4. CASE \E shape \in WriteShapes : CoalesceWrite(shape)
    BY <1>1, <1>4, CoalesceWriteTypes, CoalesceAgreement DEF QueueInv
  <1>5. CASE \E shape \in WriteShapes : EnqueueWrite(shape)
    BY <1>1, <1>5, EnqueueWriteTypes, EnqueueWriteAgreement DEF QueueInv
  <1>6. CASE PhyTick
    <2>1. TypeOK' /\ UNCHANGED <<writeQ, activeQ, buffered>>
      BY <1>1, <1>6, PhyTickTypes DEF PhyTick, queueVars
    <2>. QED BY <2>1, QueuesUnchanged
  <1>7. CASE CompletePending
    <2>1. TypeOK' /\ UNCHANGED <<writeQ, activeQ, buffered>>
      BY <1>1, <1>7, CompletePendingTypes DEF CompletePending, queueVars
    <2>. QED BY <2>1, QueuesUnchanged
  <1>8. CASE IssueData
    BY <1>8, IssueActiveQueueInv, IssueQueuedQueueInv DEF IssueData
  <1>9. CASE \E r \in readQ \cup writeQ : Promote(r)
    BY <1>9, PromoteQueueInv
  <1>10. CASE IssueOther
    <2>1. NextWriteMode \in BOOLEAN
      BY DEF NextWriteMode
    <2>2. TypeOK'
      BY <1>1, <1>10, <2>1
         DEF IssueOther, TypeOK, NextBus, Phases, queueVars, phyVars
    <2>3. UNCHANGED <<writeQ, activeQ, buffered>>
      BY <1>10 DEF IssueOther, queueVars
    <2>. QED BY <2>2, <2>3, QueuesUnchanged
  <1>11. CASE PopResponse
    <2>1. TypeOK'
      BY <1>1, <1>11 DEF PopResponse, TypeOK, Responses, queueVars, phyVars
    <2>2. UNCHANGED <<writeQ, activeQ, buffered>>
      BY <1>11 DEF PopResponse, queueVars
    <2>. QED BY <2>1, <2>2, QueuesUnchanged
  <1>12. CASE UNCHANGED vars
    <2>1. TypeOK'
      BY <1>1, <1>12 DEF vars, TypeOK, queueVars, phyVars
    <2>2. UNCHANGED <<writeQ, activeQ, buffered>>
      BY <1>12 DEF vars, queueVars
    <2>. QED BY <2>1, <2>2, QueuesUnchanged
  <1>. QED BY <1>2, <1>3, <1>4, <1>5, <1>6, <1>7, <1>8, <1>9, <1>10, <1>11,
              <1>12 DEF Next, Tick

\* Every reachable state is well typed: no depth, latency, shape or number
\* of requests makes a counter, a slot or a piece of data leave its range.
THEOREM TypeCorrect == Spec => []TypeOK
  <1>1. QueueInv => TypeOK
    BY DEF QueueInv
  <1>. QED BY <1>1, InitQueueInv, QueueInvStep, PTL DEF Spec

\* buffered_writes_ and the queues never disagree: a read is forwarded from,
\* and a write merged into, an entry exactly as long as the write that will
\* carry it to the DRAM is still queued.
THEOREM BufferedAgreement == Spec => []BufferedIffQueued
  <1>1. QueueInv => BufferedIffQueued
    BY DEF QueueInv
  <1>. QED BY <1>1, InitQueueInv, QueueInvStep, PTL DEF Spec

-----------------------------------------------------------------------------
(* Exactly one place.  Three kinds of step change where a request is: one  *)
(* that accepts it, one that moves it on, one that hands its answer over.  *)

PlaceInv == QueueInv /\ ExactlyOnePlace

\* Every sequence number in use is below the next one.
LEMMA UsedSeqs ==
  ASSUME PlaceInv
  PROVE  /\ nextSeq \in Nat /\ nextSeq # 0
         /\ \A x \in Queued \cup pending \cup responses :
              x.seq \in Nat /\ x.seq < nextSeq
         /\ \A n \in answered : n \in Nat /\ n < nextSeq
  <1>1. nextSeq \in Nat /\ nextSeq # 0
    BY ConstantsAssumption DEF PlaceInv, QueueInv, TypeOK
  <1>2. \A x \in Queued \cup pending \cup responses : x.seq \in 1 .. nextSeq - 1
    BY DEF PlaceInv, ExactlyOnePlace, Seqs
  <1>3. answered \subseteq 1 .. nextSeq - 1
    BY DEF PlaceInv, ExactlyOnePlace
  <1>. QED BY <1>1, <1>2, <1>3

\* A new request in one of the queues.
LEMMA AcceptIntoQueue ==
  ASSUME PlaceInv, NEW x, x.seq = nextSeq, nextSeq' = nextSeq + 1,
         \/ readQ' = readQ \cup {x} /\ writeQ' = writeQ
         \/ writeQ' = writeQ \cup {x} /\ readQ' = readQ,
         activeQ' = activeQ, pending' = pending,
         responses' = responses, answered' = answered
  PROVE  ExactlyOnePlace'
  <1>1. Queued' = Queued \cup {x}
    BY DEF Queued
  <1>2. Seqs(Queued' \cup pending \cup responses)
          = Seqs(Queued \cup pending \cup responses) \cup {nextSeq}
    BY <1>1 DEF Seqs
  <1>3. 1 .. nextSeq' - 1 = (1 .. nextSeq - 1) \cup {nextSeq}
    BY UsedSeqs
  <1>4. /\ x \notin activeQ
        /\ \A y \in Queued \cup pending \cup responses : y.seq # x.seq
        /\ x.seq \notin answered
    BY UsedSeqs DEF Queued
  <1>5. (Seqs(Queued \cup pending \cup responses) \cup answered
           = 1 .. nextSeq - 1)'
    <2>1. Seqs(Queued \cup pending \cup responses) \cup answered
            = 1 .. nextSeq - 1
      BY DEF PlaceInv, ExactlyOnePlace
    <2>. QED BY <1>2, <1>3, <2>1 DEF Seqs
  <1>6. (readQ \cap activeQ = {} /\ writeQ \cap activeQ = {})'
    BY <1>4 DEF PlaceInv, ExactlyOnePlace
  <1>7. (Unique(Queued) /\ Unique(pending) /\ Unique(responses))'
    BY <1>1, <1>4 DEF PlaceInv, ExactlyOnePlace, Unique
  <1>8. (Apart(Queued, pending) /\ Apart(Queued, responses)
           /\ Apart(pending, responses))'
    BY <1>1, <1>4 DEF PlaceInv, ExactlyOnePlace, Apart
  <1>9. (\A y \in Queued \cup pending \cup responses : y.seq \notin answered)'
    BY <1>1, <1>4 DEF PlaceInv, ExactlyOnePlace
  <1>. QED BY <1>5, <1>6, <1>7, <1>8, <1>9 DEF ExactlyOnePlace

\* A new request that is answered without a DRAM command.
LEMMA AcceptIntoPending ==
  ASSUME PlaceInv, NEW x, x.seq = nextSeq, nextSeq' = nextSeq + 1,
         pending' = pending \cup {x}, readQ' = readQ, writeQ' = writeQ,
         activeQ' = activeQ, responses' = responses, answered' = answered
  PROVE  ExactlyOnePlace'
  <1>1. Queued' = Queued
    BY DEF Queued
  <1>2. Seqs(Queued \cup pending' \cup responses)
          = Seqs(Queued \cup pending \cup responses) \cup {nextSeq}
    BY DEF Seqs
  <1>3. 1 .. nextSeq' - 1 = (1 .. nextSeq - 1) \cup {nextSeq}
    BY UsedSeqs
  <1>4. /\ \A y \in Queued \cup pending \cup responses : y.seq # x.seq
        /\ x.seq \notin answered
    BY UsedSeqs
  <1>5. (Seqs(Queued \cup pending \cup responses) \cup answered
           = 1 .. nextSeq - 1)'
    <2>1. Seqs(Queued \cup pending \cup responses) \cup answered
            = 1 .. nextSeq - 1
      BY DEF PlaceInv, ExactlyOnePlace
    <2>. QED BY <1>1, <1>2, <1>3, <2>1 DEF Seqs
  <1>6. (readQ \cap activeQ = {} /\ writeQ \cap activeQ = {})'
    BY DEF PlaceInv, ExactlyOnePlace
  <1>7. (Unique(Queued) /\ Unique(pending) /\ Unique(responses))'
    BY <1>1, <1>4 DEF PlaceInv, ExactlyOnePlace, Unique
  <1>8. (Apart(Queued, pending) /\ Apart(Queued, responses)
           /\ Apart(pending, responses))'
    BY <1>1, <1>4 DEF PlaceInv, ExactlyOnePlace, Apart
  <1>9. (\A y \in Queued \cup pending \cup responses : y.seq \notin answered)'
    BY <1>1, <1>4 DEF PlaceInv, ExactlyOnePlace
  <1>. QED BY <1>5, <1>6, <1>7, <1>8, <1>9 DEF ExactlyOnePlace

\* A data command moves its request from its queue to pending_.
LEMMA QueueToPending ==
  ASSUME PlaceInv, NEW r \in Queued, NEW p, p.seq = r.seq,
         pending' = pending \cup {p},
         Queued' = Queued \ {r},
         readQ' \subseteq readQ, writeQ' \subseteq writeQ,
         activeQ' \subseteq activeQ,
         UNCHANGED <<nextSeq, responses, answered>>
  PROVE  ExactlyOnePlace'
  <1>1. Seqs(Queued' \cup pending' \cup responses)
          = Seqs(Queued \cup pending \cup responses)
    BY DEF Seqs
  <1>2. \A x \in Queued' : x.seq # p.seq
    BY DEF PlaceInv, ExactlyOnePlace, Unique
  <1>3. \A x \in pending \cup responses : x.seq # p.seq
    BY DEF PlaceInv, ExactlyOnePlace, Apart
  <1>4. p.seq \notin answered
    BY DEF PlaceInv, ExactlyOnePlace
  <1>. QED BY <1>1, <1>2, <1>3, <1>4
           DEF PlaceInv, ExactlyOnePlace, Unique, Apart

LEMMA RetirePlaces ==
  ASSUME PlaceInv, NEW r \in Queued, Retire(r)
  PROVE  \E p : p.seq = r.seq /\ pending' = pending \cup {p}
  <1>1. CASE r.type = "Read"
    BY <1>1 DEF Retire, RetireRead
  <1>2. CASE r.type # "Read"
    BY <1>2 DEF Retire, RetireWrite
  <1>. QED BY <1>1, <1>2

LEMMA IssueDataPlaces ==
  ASSUME PlaceInv, IssueData
  PROVE  ExactlyOnePlace'
  <1>1. ASSUME NEW r \in activeQ, IssueActive(r) PROVE ExactlyOnePlace'
    <2>1. r \in Queued /\ Retire(r)
      BY <1>1 DEF IssueActive, Queued
    <2>2. PICK p : p.seq = r.seq /\ pending' = pending \cup {p}
      BY <2>1, RetirePlaces
    <2>3. /\ readQ' = readQ /\ writeQ' = writeQ /\ activeQ' = activeQ \ {r}
          /\ UNCHANGED <<nextSeq, responses, answered>>
      BY <1>1 DEF IssueActive
    <2>4. Queued' = Queued \ {r}
      BY <1>1, <2>3 DEF Queued, PlaceInv, ExactlyOnePlace
    <2>. QED BY <2>1, <2>2, <2>3, <2>4, QueueToPending
  <1>2. ASSUME NEW r \in readQ \cup writeQ, IssueQueued(r)
        PROVE  ExactlyOnePlace'
    <2>1. r \in Queued /\ Retire(r)
      BY <1>2 DEF IssueQueued, Queued
    <2>2. PICK p : p.seq = r.seq /\ pending' = pending \cup {p}
      BY <2>1, RetirePlaces
    <2>3. /\ readQ' = readQ \ {r} /\ writeQ' = writeQ \ {r}
          /\ activeQ' = activeQ
          /\ UNCHANGED <<nextSeq, responses, answered>>
      BY <1>2 DEF IssueQueued
    <2>4. Queued' = Queued \ {r}
      BY <1>2, <2>3 DEF Queued, PlaceInv, ExactlyOnePlace
    <2>. QED BY <2>1, <2>2, <2>3, <2>4, QueueToPending
  <1>. QED BY <1>1, <1>2 DEF IssueData

\* Answers move from pending_ to the response queue.
LEMMA PendingToResponses ==
  ASSUME PlaceInv, NEW done, done \subseteq pending,
         pending' = pending \ done,
         responses' = responses \cup {Response(p) : p \in done},
         readQ' = readQ, writeQ' = writeQ, activeQ' = activeQ,
         nextSeq' = nextSeq, answered' = answered
  PROVE  ExactlyOnePlace'
  <1>1. Queued' = Queued
    BY DEF Queued
  <1>2. \A p \in done : Response(p).seq = p.seq
    BY DEF Response
  <1>3. Seqs(Queued \cup pending' \cup responses')
          = Seqs(Queued \cup pending \cup responses)
    BY <1>2 DEF Seqs
  <1>4. Unique(responses')
    <2>1. ASSUME NEW p \in done, NEW q \in done, p.seq = q.seq PROVE p = q
      BY <2>1 DEF PlaceInv, ExactlyOnePlace, Unique
    <2>2. ASSUME NEW p \in done, NEW y \in responses PROVE p.seq # y.seq
      BY DEF PlaceInv, ExactlyOnePlace, Apart
    <2>. QED BY <1>2, <2>1, <2>2 DEF PlaceInv, ExactlyOnePlace, Unique
  <1>5. Apart(pending', responses')
    <2>1. ASSUME NEW p \in done, NEW q \in pending' PROVE p.seq # q.seq
      BY DEF PlaceInv, ExactlyOnePlace, Unique
    <2>. QED BY <1>2, <2>1 DEF PlaceInv, ExactlyOnePlace, Apart
  <1>6. Apart(Queued, pending') /\ Apart(Queued, responses')
    BY <1>2 DEF PlaceInv, ExactlyOnePlace, Apart
  <1>7. \A x \in Queued \cup pending' \cup responses' : x.seq \notin answered
    BY <1>2 DEF PlaceInv, ExactlyOnePlace
  <1>8. Unique(pending')
    BY DEF PlaceInv, ExactlyOnePlace, Unique
  <1>9. /\ Seqs(Queued \cup pending' \cup responses') \cup answered
             = 1 .. nextSeq - 1
        /\ readQ \cap activeQ = {} /\ writeQ \cap activeQ = {}
        /\ Unique(Queued)
    BY <1>3 DEF PlaceInv, ExactlyOnePlace
  <1>. QED BY <1>1, <1>4, <1>5, <1>6, <1>7, <1>8, <1>9
           DEF ExactlyOnePlace, Seqs, Unique, Apart

LEMMA PhyTickPlaces ==
  ASSUME PlaceInv, PhyTick
  PROVE  ExactlyOnePlace'
  <1>1. /\ pending' = {Age(p) : p \in pending}
        /\ UNCHANGED <<readQ, writeQ, activeQ, nextSeq, responses, answered>>
    BY DEF PhyTick, queueVars
  <1>2. \A p \in pending : Age(p).seq = p.seq
    BY DEF Age, PlaceInv, QueueInv, TypeOK, PendingItems
  <1>3. Queued' = Queued
    BY <1>1 DEF Queued
  <1>4. Seqs(Queued \cup pending' \cup responses)
          = Seqs(Queued \cup pending \cup responses)
    BY <1>1, <1>2 DEF Seqs
  <1>5. Unique(pending')
    BY <1>1, <1>2 DEF PlaceInv, ExactlyOnePlace, Unique
  <1>6. Apart(Queued, pending') /\ Apart(pending', responses)
    BY <1>1, <1>2 DEF PlaceInv, ExactlyOnePlace, Apart
  <1>7. \A x \in Queued \cup pending' \cup responses : x.seq \notin answered
    BY <1>1, <1>2 DEF PlaceInv, ExactlyOnePlace
  <1>8. /\ Seqs(Queued \cup pending' \cup responses) \cup answered
             = 1 .. nextSeq - 1
        /\ readQ \cap activeQ = {} /\ writeQ \cap activeQ = {}
        /\ Unique(Queued) /\ Unique(responses) /\ Apart(Queued, responses)
    BY <1>4 DEF PlaceInv, ExactlyOnePlace
  <1>. QED BY <1>1, <1>3, <1>5, <1>6, <1>7, <1>8
           DEF ExactlyOnePlace, Seqs, Unique, Apart

\* The requester takes one answer.
LEMMA PopPlaces ==
  ASSUME PlaceInv, PopResponse
  PROVE  ExactlyOnePlace'
  <1>1. PICK r \in responses : /\ responses' = responses \ {r}
                               /\ answered' = answered \cup {r.seq}
    BY DEF PopResponse
  <1>2. UNCHANGED <<readQ, writeQ, activeQ, nextSeq, pending>>
    BY DEF PopResponse, queueVars
  <1>3. Queued' = Queued
    BY <1>2 DEF Queued
  <1>4. Seqs(Queued \cup pending \cup responses') \cup answered'
          = Seqs(Queued \cup pending \cup responses) \cup answered
    BY <1>1 DEF Seqs
  <1>5. \A x \in Queued \cup pending \cup responses' : x.seq # r.seq
    BY <1>1 DEF PlaceInv, ExactlyOnePlace, Unique, Apart
  <1>6. \A x \in Queued \cup pending \cup responses' : x.seq \notin answered'
    BY <1>1, <1>5 DEF PlaceInv, ExactlyOnePlace
  <1>7. Unique(responses') /\ Apart(Queued, responses')
          /\ Apart(pending, responses')
    BY <1>1 DEF PlaceInv, ExactlyOnePlace, Unique, Apart
  <1>8. /\ Seqs(Queued \cup pending \cup responses') \cup answered'
             = 1 .. nextSeq - 1
        /\ readQ \cap activeQ = {} /\ writeQ \cap activeQ = {}
        /\ Unique(Queued) /\ Unique(pending) /\ Apart(Queued, pending)
    BY <1>4 DEF PlaceInv, ExactlyOnePlace
  <1>. QED BY <1>2, <1>3, <1>6, <1>7, <1>8
           DEF ExactlyOnePlace, Seqs, Unique, Apart

\* A promoted request only changes queue.
LEMMA PromotePlaces ==
  ASSUME PlaceInv, NEW r \in readQ \cup writeQ, Promote(r)
  PROVE  ExactlyOnePlace'
  <1>1. /\ readQ' = readQ \ {r} /\ writeQ' = writeQ \ {r}
        /\ activeQ' = activeQ \cup {r}
        /\ UNCHANGED <<nextSeq, pending, responses, answered>>
    BY DEF Promote
  <1>2. Queued' = Queued
    BY <1>1 DEF Queued
  <1>3. readQ' \cap activeQ' = {} /\ writeQ' \cap activeQ' = {}
    BY <1>1 DEF PlaceInv, ExactlyOnePlace
  <1>. QED BY <1>1, <1>2, <1>3
           DEF PlaceInv, ExactlyOnePlace, Seqs, Unique, Apart

\* Steps that leave every place alone.
LEMMA PlacesUnchanged ==
  ASSUME PlaceInv, UNCHANGED <<readQ, writeQ, activeQ, nextSeq, pending,
                               responses, answered>>
  PROVE  ExactlyOnePlace'
  <1>1. Queued' = Queued
    BY DEF Queued
  <1>. QED BY <1>1 DEF PlaceInv, ExactlyOnePlace, Seqs, Unique, Apart

LEMMA PlaceInvStep == PlaceInv /\ [Next]_vars => PlaceInv'
  <1>. SUFFICES ASSUME PlaceInv, [Next]_vars PROVE ExactlyOnePlace'
    BY QueueInvStep DEF PlaceInv
  <1>1. ASSUME NEW shape \in ReadShapes, ForwardRead(shape)
        PROVE  ExactlyOnePlace'
    <2>. DEFINE p == Bypass(shape, "Read", ForwardPayload(shape.span),
                            Slice(shadow, shape.span))
    <2>1. p.seq = nextSeq
      BY DEF Bypass
    <2>2. /\ pending' = pending \cup {p} /\ nextSeq' = nextSeq + 1
          /\ readQ' = readQ /\ writeQ' = writeQ /\ activeQ' = activeQ
          /\ responses' = responses /\ answered' = answered
      BY <1>1 DEF ForwardRead, queueVars
    <2>. HIDE DEF p
    <2>. QED BY <2>1, <2>2, AcceptIntoPending
  <1>2. ASSUME NEW shape \in ReadShapes, EnqueueRead(shape)
        PROVE  ExactlyOnePlace'
    <2>. DEFINE x == [seq |-> nextSeq, type |-> "Read", addr |-> shape.addr,
                      span |-> shape.span,
                      expect |-> Slice(shadow, shape.span)]
    <2>1. x.seq = nextSeq
      OBVIOUS
    <2>2. /\ readQ' = readQ \cup {x} /\ writeQ' = writeQ
          /\ nextSeq' = nextSeq + 1 /\ pending' = pending
          /\ activeQ' = activeQ
          /\ responses' = responses /\ answered' = answered
      BY <1>2 DEF EnqueueRead
    <2>. HIDE DEF x
    <2>. QED BY <2>1, <2>2, AcceptIntoQueue
  <1>3. ASSUME NEW shape \in WriteShapes, CoalesceWrite(shape)
        PROVE  ExactlyOnePlace'
    <2>. DEFINE p == Bypass(shape, "Write", NoData, NoData)
    <2>1. p.seq = nextSeq
      BY DEF Bypass
    <2>2. /\ pending' = pending \cup {p} /\ nextSeq' = nextSeq + 1
          /\ readQ' = readQ /\ writeQ' = writeQ /\ activeQ' = activeQ
          /\ responses' = responses /\ answered' = answered
      BY <1>3 DEF CoalesceWrite
    <2>. HIDE DEF p
    <2>. QED BY <2>1, <2>2, AcceptIntoPending
  <1>4. ASSUME NEW shape \in WriteShapes, EnqueueWrite(shape)
        PROVE  ExactlyOnePlace'
    <2>. DEFINE x == [seq |-> nextSeq, type |-> "Write", addr |-> shape.addr,
                      span |-> shape.span, expect |-> NoData]
    <2>1. x.seq = nextSeq
      OBVIOUS
    <2>2. /\ writeQ' = writeQ \cup {x} /\ readQ' = readQ
          /\ nextSeq' = nextSeq + 1 /\ pending' = pending
          /\ activeQ' = activeQ
          /\ responses' = responses /\ answered' = answered
      BY <1>4 DEF EnqueueWrite
    <2>. HIDE DEF x
    <2>. QED BY <2>1, <2>2, AcceptIntoQueue
  <1>5. CASE PhyTick
    BY <1>5, PhyTickPlaces
  <1>6. CASE CompletePending
    <2>1. PICK done \in SUBSET {p \in pending : Finished(p)} :
            /\ pending' = pending \ done
            /\ responses' = responses \cup {Response(p) : p \in done}
      BY <1>6 DEF CompletePending
    <2>2. /\ readQ' = readQ /\ writeQ' = writeQ /\ activeQ' = activeQ
          /\ nextSeq' = nextSeq /\ answered' = answered
      BY <1>6 DEF CompletePending, queueVars
    <2>3. done \subseteq pending
      OBVIOUS
    <2>. QED BY <2>1, <2>2, <2>3, PendingToResponses
  <1>7. CASE IssueData
    BY <1>7, IssueDataPlaces
  <1>8. CASE \E r \in readQ \cup writeQ : Promote(r)
    BY <1>8, PromotePlaces
  <1>9. CASE IssueOther
    BY <1>9, PlacesUnchanged DEF IssueOther, queueVars
  <1>10. CASE PopResponse
    BY <1>10, PopPlaces
  <1>11. CASE UNCHANGED vars
    BY <1>11, PlacesUnchanged DEF vars, queueVars
  <1>. QED BY <1>1, <1>2, <1>3, <1>4, <1>5, <1>6, <1>7, <1>8, <1>9, <1>10,
              <1>11 DEF Next, Tick

LEMMA InitPlaceInv == Init => PlaceInv
  <1>. SUFFICES ASSUME Init PROVE PlaceInv
    OBVIOUS
  <1>1. QueueInv
    BY InitQueueInv
  <1>2. Queued = {} /\ pending = {} /\ responses = {} /\ answered = {}
    BY DEF Init, Queued
  <1>3. 1 .. nextSeq - 1 = {}
    BY DEF Init
  <1>. QED BY <1>1, <1>2, <1>3
           DEF Init, PlaceInv, ExactlyOnePlace, Seqs, Unique, Apart

\* No accepted request is lost or answered twice, whatever the capacities:
\* it is forwarded, coalesced, queued, in flight, waiting in a full response
\* queue or answered, and never two of these.
THEOREM OnePlaceAlways == Spec => []ExactlyOnePlace
  <1>1. PlaceInv => ExactlyOnePlace
    BY DEF PlaceInv
  <1>. QED BY <1>1, InitPlaceInv, PlaceInvStep, PTL DEF Spec

-----------------------------------------------------------------------------
(* The order of overlapping requests *)

Unresolved == readQ \cup activeQ \cup pending

\* Reads that still wait for their data, or for the PHY to bring it.
Readers ==
  {r \in readQ \cup activeQ \cup {p \in pending : ~p.bypass} : r.type = "Read"}

\* A step makes no read of bytes that were not read before, except that it may
\* accept one, which is the newest.
Known(x, S) == \E y \in S : y.type = "Read" /\ y.seq = x.seq /\ y.span = x.span
Recalled(x, S) ==
  \E y \in S : /\ y.type = "Read" /\ y.seq = x.seq /\ y.span = x.span
               /\ y.expect = x.expect
Accepted(x) == x.seq = nextSeq /\ nextSeq' = nextSeq + 1
ReadsFollow ==
  /\ \A x \in Unresolved' : x.type = "Read" => Accepted(x) \/ Known(x, Unresolved)
  /\ \A x \in Readers' : Accepted(x) \/ Recalled(x, Readers)

\* What a request becomes when its data command is issued.
LEMMA RetiredItem ==
  ASSUME NEW r, Retire(r), r.type \in {"Read", "Write"}
  PROVE  \E p : /\ pending' = pending \cup {p}
                /\ p.seq = r.seq /\ p.type = r.type /\ p.span = r.span
                /\ p.bypass = FALSE /\ p.data = NoData
                /\ p.expect = IF r.type = "Read" THEN r.expect ELSE NoData
  <1>. DEFINE item(wait, expect) ==
                [seq |-> r.seq, type |-> r.type, span |-> r.span,
                 bypass |-> FALSE, wait |-> wait, data |-> NoData,
                 expect |-> expect]
              due == IF r.type = "Read" THEN r.expect ELSE NoData
  <1>1. \E wait : pending' = pending \cup {item(wait, due)}
    <2>1. CASE r.type = "Read"
      <3>1. \E wait \in Gated(ReadLatency) :
              pending' = pending \cup {item(wait, r.expect)}
        BY <2>1 DEF Retire, RetireRead
      <3>2. due = r.expect
        BY <2>1
      <3>. QED BY <3>1, <3>2
    <2>2. CASE r.type = "Write"
      <3>1. \E wait \in Gated(IF Behavioral THEN WriteLatency ELSE 1) :
              pending' = pending \cup {item(wait, NoData)}
        BY <2>2 DEF Retire, RetireWrite
      <3>2. due = NoData
        BY <2>2
      <3>. QED BY <3>1, <3>2
    <2>. QED BY <2>1, <2>2
  <1>2. PICK wait : pending' = pending \cup {item(wait, due)}
    BY <1>1
  <1>3. /\ item(wait, due).seq = r.seq /\ item(wait, due).type = r.type
        /\ item(wait, due).span = r.span /\ item(wait, due).bypass = FALSE
        /\ item(wait, due).data = NoData /\ item(wait, due).expect = due
    OBVIOUS
  <1>. HIDE DEF item
  <1>. QED BY <1>2, <1>3

\* Ageing keeps what a pending entry is.
LEMMA AgedItem ==
  ASSUME TypeOK, NEW p \in pending
  PROVE  /\ Age(p).seq = p.seq /\ Age(p).type = p.type /\ Age(p).span = p.span
         /\ Age(p).bypass = p.bypass /\ Age(p).data = p.data
         /\ Age(p).expect = p.expect
  BY DEF TypeOK, PendingItems, Age

\* A request that leaves its queue for pending_ stays the same read.
LEMMA RetireFollows ==
  ASSUME PlaceInv, NEW r \in Queued, Retire(r),
         readQ' \subseteq readQ, activeQ' \subseteq activeQ
  PROVE  ReadsFollow
  <1>1. r.type \in {"Read", "Write"}
    BY DEF PlaceInv, QueueInv, TypeOK, Requests, Queued
  <1>2. PICK p : /\ pending' = pending \cup {p}
                 /\ p.seq = r.seq /\ p.type = r.type /\ p.span = r.span
                 /\ p.bypass = FALSE
                 /\ r.type = "Read" => p.expect = r.expect
    BY <1>1, RetiredItem
  <1>3. r.type = "Read" => r \in readQ \cup activeQ
    BY DEF PlaceInv, QueueInv, TypeOK, Queued
  <1>. QED BY <1>2, <1>3 DEF ReadsFollow, Known, Recalled, Readers, Unresolved

\* Every step keeps the reads it does not accept or answer.
LEMMA StepFollows ==
  ASSUME PlaceInv, [Next]_vars
  PROVE  ReadsFollow
  <1>1. ASSUME NEW shape \in ReadShapes, ForwardRead(shape)
        PROVE  ReadsFollow
    <2>. DEFINE p == Bypass(shape, "Read", ForwardPayload(shape.span),
                            Slice(shadow, shape.span))
    <2>1. p.seq = nextSeq /\ p.bypass = TRUE
      BY DEF Bypass
    <2>2. /\ pending' = pending \cup {p} /\ nextSeq' = nextSeq + 1
          /\ readQ' = readQ /\ activeQ' = activeQ
      BY <1>1 DEF ForwardRead, queueVars
    <2>. HIDE DEF p
    <2>. QED BY <2>1, <2>2 DEF ReadsFollow, Known, Recalled, Accepted, Readers, Unresolved
  <1>2. ASSUME NEW shape \in ReadShapes, EnqueueRead(shape)
        PROVE  ReadsFollow
    <2>. DEFINE x == [seq |-> nextSeq, type |-> "Read", addr |-> shape.addr,
                      span |-> shape.span,
                      expect |-> Slice(shadow, shape.span)]
    <2>1. x.seq = nextSeq
      OBVIOUS
    <2>2. /\ readQ' = readQ \cup {x} /\ nextSeq' = nextSeq + 1
          /\ pending' = pending /\ activeQ' = activeQ
      BY <1>2 DEF EnqueueRead
    <2>. HIDE DEF x
    <2>. QED BY <2>1, <2>2 DEF ReadsFollow, Known, Recalled, Accepted, Readers, Unresolved
  <1>3. ASSUME NEW shape \in WriteShapes, CoalesceWrite(shape)
        PROVE  ReadsFollow
    <2>. DEFINE p == Bypass(shape, "Write", NoData, NoData)
    <2>1. p.type = "Write"
      BY DEF Bypass
    <2>2. /\ pending' = pending \cup {p}
          /\ readQ' = readQ /\ activeQ' = activeQ
      BY <1>3 DEF CoalesceWrite
    <2>. HIDE DEF p
    <2>. QED BY <2>1, <2>2 DEF ReadsFollow, Known, Recalled, Readers, Unresolved
  <1>4. ASSUME NEW shape \in WriteShapes, EnqueueWrite(shape)
        PROVE  ReadsFollow
    <2>1. readQ' = readQ /\ activeQ' = activeQ /\ pending' = pending
      BY <1>4 DEF EnqueueWrite
    <2>. QED BY <2>1 DEF ReadsFollow, Known, Recalled, Readers, Unresolved
  <1>5. CASE PhyTick
    <2>1. /\ pending' = {Age(p) : p \in pending}
          /\ readQ' = readQ /\ activeQ' = activeQ
      BY <1>5 DEF PhyTick, queueVars
    <2>2. \A p \in pending : /\ Age(p).seq = p.seq /\ Age(p).type = p.type
                             /\ Age(p).span = p.span /\ Age(p).bypass = p.bypass
                             /\ Age(p).expect = p.expect
      BY AgedItem DEF PlaceInv, QueueInv
    <2>. QED BY <2>1, <2>2 DEF ReadsFollow, Known, Recalled, Readers, Unresolved
  <1>6. CASE CompletePending
    <2>1. pending' \subseteq pending /\ readQ' = readQ /\ activeQ' = activeQ
      BY <1>6 DEF CompletePending, queueVars
    <2>. QED BY <2>1 DEF ReadsFollow, Known, Recalled, Readers, Unresolved
  <1>7. CASE IssueData
    <2>1. ASSUME NEW r \in activeQ, IssueActive(r) PROVE ReadsFollow
      <3>1. r \in Queued /\ Retire(r)
            /\ readQ' \subseteq readQ /\ activeQ' \subseteq activeQ
        BY <2>1 DEF IssueActive, Queued
      <3>. QED BY <3>1, RetireFollows
    <2>2. ASSUME NEW r \in readQ \cup writeQ, IssueQueued(r) PROVE ReadsFollow
      <3>1. r \in Queued /\ Retire(r)
            /\ readQ' \subseteq readQ /\ activeQ' \subseteq activeQ
        BY <2>2 DEF IssueQueued, Queued
      <3>. QED BY <3>1, RetireFollows
    <2>. QED BY <1>7, <2>1, <2>2 DEF IssueData
  <1>8. ASSUME NEW r \in readQ \cup writeQ, Promote(r)
        PROVE  ReadsFollow
    <2>1. /\ readQ' = readQ \ {r} /\ activeQ' = activeQ \cup {r}
          /\ pending' = pending
      BY <1>8 DEF Promote
    <2>2. r.type = "Read" => r \in readQ
      BY DEF PlaceInv, QueueInv, TypeOK
    <2>. QED BY <2>1, <2>2 DEF ReadsFollow, Known, Recalled, Readers, Unresolved
  <1>9. CASE UNCHANGED <<readQ, activeQ, pending>>
    BY <1>9 DEF ReadsFollow, Known, Recalled, Readers, Unresolved
  <1>. QED BY <1>1, <1>2, <1>3, <1>4, <1>5, <1>6, <1>7, <1>8, <1>9
           DEF Next, Tick, IssueOther, PopResponse, vars, queueVars

-----------------------------------------------------------------------------
(* Active writes *)

\* A write that waits for no older read never will: new reads are newer.
LEMMA StillFree ==
  ASSUME PlaceInv, ReadsFollow, NEW span, NEW seq \in Nat \ {0}, seq < nextSeq,
         ~UnresolvedRead(span, seq)
  PROVE  ~UnresolvedRead(span, seq)'
  <1>1. nextSeq \in Nat
    BY UsedSeqs
  <1>2. ASSUME NEW x \in Unresolved', x.type = "Read", x.seq < seq,
               Overlap(span, x.span)
        PROVE  FALSE
    <2>1. Known(x, Unresolved)
      BY <1>1, <1>2 DEF ReadsFollow, Accepted
    <2>2. PICK y \in Unresolved :
            y.type = "Read" /\ y.seq = x.seq /\ y.span = x.span
      BY <2>1 DEF Known
    <2>. QED BY <1>2, <2>2 DEF UnresolvedRead, Unresolved
  <1>. QED BY <1>2 DEF UnresolvedRead, Unresolved

FreeInv == PlaceInv /\ ActiveWritesNeverWait

LEMMA FreeInvStep == FreeInv /\ [Next]_vars => FreeInv'
  <1>. SUFFICES ASSUME FreeInv, [Next]_vars PROVE ActiveWritesNeverWait'
    BY PlaceInvStep DEF FreeInv
  <1>1. PlaceInv /\ ReadsFollow
    BY StepFollows DEF FreeInv
  <1>2. \A w \in Queued : w.seq \in Nat \ {0} /\ w.seq < nextSeq
    <2>1. \A w \in Queued : w.seq \in Sequences
      BY DEF FreeInv, PlaceInv, QueueInv, TypeOK, Requests, Queued
    <2>. QED BY <1>1, <2>1, UsedSeqs DEF Sequences
  <1>3. ASSUME NEW w \in activeQ', w.type = "Write"
        PROVE  w \in Queued /\ ~UnresolvedRead(w.span, w.seq)
    <2>1. CASE w \in activeQ
      BY <1>3, <2>1 DEF FreeInv, ActiveWritesNeverWait, Queued
    <2>2. CASE w \notin activeQ
      <3>1. PICK r \in readQ \cup writeQ : Promote(r)
        BY <1>3, <2>2
           DEF Next, Tick, ForwardRead, EnqueueRead, CoalesceWrite,
               EnqueueWrite, PhyTick, CompletePending, IssueData, IssueActive,
               IssueQueued, IssueOther, PopResponse, vars, queueVars
      <3>2. w = r
        BY <1>3, <2>2, <3>1 DEF Promote
      <3>. QED BY <1>3, <3>1, <3>2 DEF Promote, Eligible, Queued
    <2>. QED BY <2>1, <2>2
  <1>4. ASSUME NEW w \in activeQ', w.type = "Write"
        PROVE  ~UnresolvedRead(w.span, w.seq)'
    <2>1. w \in Queued /\ ~UnresolvedRead(w.span, w.seq)
      BY <1>3, <1>4
    <2>. QED BY <1>1, <1>2, <2>1, StillFree
  <1>. QED BY <1>4 DEF ActiveWritesNeverWait

\* A write that holds a bank open never waits for a read: maintenance that must
\* close the bank can wait for the write without waiting for the read.
THEOREM ActiveWritesAlwaysFree == Spec => []ActiveWritesNeverWait
  <1>1. Init => FreeInv
    <2>. SUFFICES ASSUME Init PROVE FreeInv
      OBVIOUS
    <2>1. PlaceInv
      BY InitPlaceInv
    <2>. QED BY <2>1 DEF FreeInv, ActiveWritesNeverWait, Init
  <1>2. FreeInv => ActiveWritesNeverWait
    BY DEF FreeInv
  <1>. QED BY <1>1, <1>2, FreeInvStep, PTL DEF Spec

-----------------------------------------------------------------------------
(* Transfers of the PHY *)

Transfers == {p \in pending : ~p.bypass}

\* The PHY holds each transfer once, and reads only what a pending read waits
\* for; the Direct PHY holds nothing.
PhyInv ==
  /\ PhyMatchesPending
  /\ Behavioral => /\ Unique(phyReads) /\ Unique(phyWrites)
                   /\ Seqs(phyReads) \cap Seqs(phyWrites) = {}
  /\ ~Behavioral => phyReads = {} /\ phyWrites = {} /\ phyDone = {}
  /\ \A s \in phyReads : Known(s, {p \in Transfers : p.type = "Read"})

\* Answers that need no transfer do not concern the PHY.
LEMMA PhyUntouched ==
  ASSUME PhyInv, UNCHANGED phyVars, pending \subseteq pending',
         \A p \in pending' \ pending : p.bypass
  PROVE  PhyInv'
  <1>1. Transfers' = Transfers
    BY DEF Transfers
  <1>2. PhyMatchesPending'
    BY <1>1 DEF PhyInv, PhyMatchesPending, Transfers, Seqs, phyVars
  <1>. QED BY <1>1, <1>2 DEF PhyInv, Known, Unique, Seqs, phyVars

\* What retiring a request does to the PHY.
LEMMA RetiredSlot ==
  ASSUME NEW r, Retire(r), r.type \in {"Read", "Write"}
  PROVE  IF r.type = "Read"
         THEN /\ phyWrites' = phyWrites
              /\ \/ ~Behavioral /\ phyReads' = phyReads
                 \/ \E s : /\ Behavioral /\ phyReads' = phyReads \cup {s}
                           /\ s.seq = r.seq /\ s.span = r.span
         ELSE /\ phyReads' = phyReads
              /\ \/ ~Behavioral /\ phyWrites' = phyWrites
                 \/ \E s : /\ Behavioral /\ phyWrites' = phyWrites \cup {s}
                           /\ s.seq = r.seq
                           /\ s.mask = buffered[r.addr].mask
                           /\ s.data = buffered[r.addr].data
  <1>1. CASE r.type = "Read"
    <2>. DEFINE s == [seq |-> r.seq, span |-> r.span, wait |-> ReadLatency]
    <2>1. /\ phyReads' = IF Behavioral THEN phyReads \cup {s} ELSE phyReads
          /\ phyWrites' = phyWrites
      BY <1>1 DEF Retire, RetireRead
    <2>2. s.seq = r.seq /\ s.span = r.span
      OBVIOUS
    <2>. HIDE DEF s
    <2>. QED BY <1>1, <2>1, <2>2
  <1>2. CASE r.type = "Write"
    <2>. DEFINE s == [seq |-> r.seq, mask |-> buffered[r.addr].mask,
                      data |-> buffered[r.addr].data, wait |-> WriteLatency]
    <2>1. /\ phyWrites' = IF Behavioral THEN phyWrites \cup {s} ELSE phyWrites
          /\ phyReads' = phyReads
      BY <1>2 DEF Retire, RetireWrite
    <2>2. /\ s.seq = r.seq /\ s.mask = buffered[r.addr].mask
          /\ s.data = buffered[r.addr].data
      OBVIOUS
    <2>. HIDE DEF s
    <2>. QED BY <1>2, <2>1, <2>2
  <1>. QED BY <1>1, <1>2

\* A data command hands the PHY a transfer it did not hold.
LEMMA PhyRetires ==
  ASSUME PlaceInv, PhyInv, NEW r \in Queued, Retire(r), phyDone' = phyDone
  PROVE  PhyInv'
  <1>1. r.type \in {"Read", "Write"}
    BY DEF PlaceInv, QueueInv, TypeOK, Requests, Queued
  <1>2. PICK p : /\ pending' = pending \cup {p}
                 /\ p.seq = r.seq /\ p.type = r.type /\ p.span = r.span
                 /\ p.bypass = FALSE
    BY <1>1, RetiredItem
  <1>3. Transfers' = Transfers \cup {p}
    BY <1>2 DEF Transfers
  <1>4. Seqs(Transfers') = Seqs(Transfers) \cup {r.seq}
    BY <1>2, <1>3 DEF Seqs
  <1>5. r.seq \notin Seqs(Transfers)
    BY DEF PlaceInv, ExactlyOnePlace, Apart, Seqs, Transfers
  <1>6. CASE ~Behavioral
    <2>1. phyReads' = phyReads /\ phyWrites' = phyWrites
      BY <1>1, <1>6, RetiredSlot
    <2>. QED BY <1>6, <2>1 DEF PhyInv, PhyMatchesPending
  <1>7. CASE Behavioral
    <2>1. /\ Seqs(phyReads) \cup Seqs(phyWrites) \cup Seqs(phyDone) = Seqs(Transfers)
          /\ Seqs(phyReads) \cap Seqs(phyDone) = {}
          /\ Seqs(phyWrites) \cap Seqs(phyDone) = {}
          /\ Unique(phyReads) /\ Unique(phyWrites)
          /\ Seqs(phyReads) \cap Seqs(phyWrites) = {}
      BY <1>7 DEF PhyInv, PhyMatchesPending, Transfers
    <2>2. /\ r.seq \notin Seqs(phyReads) /\ r.seq \notin Seqs(phyWrites)
          /\ r.seq \notin Seqs(phyDone)
      BY <1>5, <2>1
    <2>3. CASE r.type = "Read"
      <3>1. PICK s : /\ phyReads' = phyReads \cup {s} /\ phyWrites' = phyWrites
                     /\ s.seq = r.seq /\ s.span = r.span
        BY <1>7, <2>3, RetiredSlot
      <3>2. Seqs(phyReads') = Seqs(phyReads) \cup {r.seq}
        BY <3>1 DEF Seqs
      <3>3. Unique(phyReads')
        BY <2>1, <2>2, <3>1 DEF Unique, Seqs
      <3>4. PhyMatchesPending'
        BY <1>4, <2>1, <2>2, <3>1, <3>2 DEF PhyMatchesPending, Transfers
      <3>5. \A t \in phyReads' : Known(t, {q \in Transfers' : q.type = "Read"})
        BY <1>2, <1>3, <2>3, <3>1 DEF PhyInv, Known
      <3>. QED BY <1>7, <2>1, <2>2, <3>1, <3>2, <3>3, <3>4, <3>5, ZenonT(60) DEF PhyInv, Known
    <2>4. CASE r.type = "Write"
      <3>1. PICK s : /\ phyWrites' = phyWrites \cup {s} /\ phyReads' = phyReads
                     /\ s.seq = r.seq
        BY <1>7, <2>4, RetiredSlot
      <3>2. Seqs(phyWrites') = Seqs(phyWrites) \cup {r.seq}
        BY <3>1 DEF Seqs
      <3>3. Unique(phyWrites')
        BY <2>1, <2>2, <3>1 DEF Unique, Seqs
      <3>4. PhyMatchesPending'
        BY <1>4, <2>1, <2>2, <3>1, <3>2 DEF PhyMatchesPending, Transfers
      <3>5. \A t \in phyReads' : Known(t, {q \in Transfers' : q.type = "Read"})
        BY <1>3, <3>1 DEF PhyInv, Known
      <3>. QED BY <1>7, <2>1, <2>2, <3>1, <3>2, <3>3, <3>4, <3>5, ZenonT(60) DEF PhyInv, Known
    <2>. QED BY <1>1, <2>3, <2>4
  <1>. QED BY <1>6, <1>7

\* A completion has the sequence number of its transfer.
LEMMA CompletionSeqs ==
  ASSUME NEW S, NEW f
  PROVE  Seqs({[seq |-> x.seq, data |-> f[x]] : x \in S}) = Seqs(S)
  <1>. DEFINE c(x) == [seq |-> x.seq, data |-> f[x]]
  <1>1. \A x \in S : c(x).seq = x.seq
    OBVIOUS
  <1>. HIDE DEF c
  <1>2. {c(x).seq : x \in S} = {x.seq : x \in S}
    BY <1>1
  <1>3. Seqs({c(x) : x \in S}) = {c(x).seq : x \in S}
    BY DEF Seqs
  <1>. QED BY <1>2, <1>3 DEF Seqs, c

\* The PHY moves a transfer that is ready to its completions.
LEMMA PhyTicks ==
  ASSUME PlaceInv, PhyInv, PhyTick
  PROVE  PhyInv'
  <1>. DEFINE reads == {Age(x) : x \in phyReads}
              writes == {Age(x) : x \in phyWrites}
  <1>1. TypeOK
    BY DEF PlaceInv, QueueInv
  <1>2. /\ \A x \in phyReads : Age(x).seq = x.seq /\ Age(x).span = x.span
        /\ \A x \in phyWrites : Age(x).seq = x.seq
    BY <1>1 DEF TypeOK, PhyReadSlots, PhyWriteSlots, Age
  <1>3. \A p \in pending : /\ Age(p).seq = p.seq /\ Age(p).type = p.type
                           /\ Age(p).span = p.span /\ Age(p).bypass = p.bypass
    BY <1>1, AgedItem
  <1>4. /\ pending' = {Age(p) : p \in pending}
        /\ phyReads' = Waiting(reads) /\ phyWrites' = Waiting(writes)
        /\ phyDone' = phyDone
             \cup {[seq |-> x.seq, data |-> Slice(image, x.span)] :
                   x \in Matured(reads)}
             \cup {[seq |-> x.seq, data |-> NoData] : x \in Matured(writes)}
    BY DEF PhyTick
  <1>5. Seqs(Transfers') = Seqs(Transfers)
    BY <1>3, <1>4 DEF Transfers, Seqs
  <1>6. Seqs(reads) = Seqs(phyReads) /\ Seqs(writes) = Seqs(phyWrites)
    BY <1>2 DEF Seqs
  <1>7. /\ Unique(phyReads) => Unique(reads)
        /\ Unique(phyWrites) => Unique(writes)
    BY <1>2 DEF Unique
  <1>8. \A t \in reads : Known(t, {q \in Transfers : q.type = "Read"})
    BY <1>2 DEF PhyInv, Known
  <1>9. ~Behavioral => reads = {} /\ writes = {}
    BY DEF PhyInv
  <1>. HIDE DEF reads, writes
  <1>10. Seqs(phyDone') = Seqs(phyDone) \cup Seqs(Matured(reads))
                            \cup Seqs(Matured(writes))
    <2>. DEFINE sampled == {[seq |-> x.seq, data |-> Slice(image, x.span)] :
                            x \in Matured(reads)}
                stored == {[seq |-> x.seq, data |-> NoData] : x \in Matured(writes)}
    <2>. HIDE DEF Waiting, Matured
    <2>1. Seqs(sampled) = Seqs(Matured(reads))
      <3>. DEFINE f == [x \in Matured(reads) |-> Slice(image, x.span)]
      <3>1. sampled = {[seq |-> x.seq, data |-> f[x]] : x \in Matured(reads)}
        OBVIOUS
      <3>. HIDE DEF f, sampled
      <3>. QED BY <3>1, CompletionSeqs
    <2>2. Seqs(stored) = Seqs(Matured(writes))
      <3>. DEFINE f == [x \in Matured(writes) |-> NoData]
      <3>1. stored = {[seq |-> x.seq, data |-> f[x]] : x \in Matured(writes)}
        OBVIOUS
      <3>. HIDE DEF f, stored
      <3>. QED BY <3>1, CompletionSeqs
    <2>3. phyDone' = phyDone \cup sampled \cup stored
      BY <1>4
    <2>. HIDE DEF sampled, stored
    <2>4. Seqs(phyDone \cup sampled \cup stored)
            = Seqs(phyDone) \cup Seqs(sampled) \cup Seqs(stored)
      BY DEF Seqs
    <2>. QED BY <2>1, <2>2, <2>3, <2>4
  <1>11. /\ reads = phyReads' \cup Matured(reads)
         /\ writes = phyWrites' \cup Matured(writes)
    BY <1>4 DEF Waiting, Matured
  <1>12. /\ Seqs(reads) = Seqs(phyReads') \cup Seqs(Matured(reads))
         /\ Seqs(writes) = Seqs(phyWrites') \cup Seqs(Matured(writes))
    BY <1>11 DEF Seqs
  <1>13. \A t \in phyReads' : Known(t, {q \in Transfers' : q.type = "Read"})
    <2>1. \A t \in phyReads' : Known(t, {q \in Transfers : q.type = "Read"})
      BY <1>8, <1>11
    <2>2. \A q \in Transfers : Age(q) \in Transfers'
      BY <1>3, <1>4 DEF Transfers
    <2>. QED BY <1>3, <2>1, <2>2 DEF Known, Transfers
  <1>14. CASE ~Behavioral
    BY <1>4, <1>9, <1>14 DEF PhyInv, PhyMatchesPending, Waiting, Matured
  <1>15. CASE Behavioral
    <2>1. /\ Seqs(phyReads) \cup Seqs(phyWrites) \cup Seqs(phyDone) = Seqs(Transfers)
          /\ Seqs(phyReads) \cap Seqs(phyDone) = {}
          /\ Seqs(phyWrites) \cap Seqs(phyDone) = {}
          /\ Unique(reads) /\ Unique(writes)
          /\ Seqs(phyReads) \cap Seqs(phyWrites) = {}
      BY <1>7, <1>15 DEF PhyInv, PhyMatchesPending, Transfers
    <2>2. /\ Seqs(phyReads') \cap Seqs(Matured(reads)) = {}
          /\ Seqs(phyWrites') \cap Seqs(Matured(writes)) = {}
      BY <1>4, <2>1 DEF Unique, Seqs, Waiting, Matured
    <2>3. Unique(phyReads') /\ Unique(phyWrites')
      BY <1>11, <2>1 DEF Unique
    <2>4. PhyMatchesPending'
      BY <1>5, <1>6, <1>10, <1>12, <2>1, <2>2 DEF PhyMatchesPending, Transfers
    <2>5. Seqs(phyReads') \cap Seqs(phyWrites') = {}
      BY <1>6, <1>12, <2>1
    <2>. QED BY <1>13, <1>15, <2>3, <2>4, <2>5 DEF PhyInv
  <1>. QED BY <1>14, <1>15

\* A transfer that is answered takes its completion with it.
LEMMA PhyCompletes ==
  ASSUME PlaceInv, PhyInv, CompletePending
  PROVE  PhyInv'
  <1>1. PICK done \in SUBSET {p \in pending : Finished(p)} :
          /\ pending' = pending \ done
          /\ phyDone' = {d \in phyDone :
                           \A p \in done : p.bypass \/ p.seq # d.seq}
    BY DEF CompletePending
  <1>2. phyReads' = phyReads /\ phyWrites' = phyWrites
    BY DEF CompletePending
  <1>3. Transfers' = Transfers \ done
    BY <1>1 DEF Transfers
  <1>4. CASE ~Behavioral
    BY <1>1, <1>2, <1>4 DEF PhyInv, PhyMatchesPending
  <1>5. CASE Behavioral
    <2>1. /\ Seqs(phyReads) \cup Seqs(phyWrites) \cup Seqs(phyDone) = Seqs(Transfers)
          /\ Seqs(phyReads) \cap Seqs(phyDone) = {}
          /\ Seqs(phyWrites) \cap Seqs(phyDone) = {}
      BY <1>5 DEF PhyInv, PhyMatchesPending, Transfers
    <2>2. \A p \in done : ~p.bypass => p.seq \in Seqs(phyDone)
      BY <1>5 DEF Finished, PhyHas, Seqs
    <2>3. \A p, q \in Transfers : p.seq = q.seq => p = q
      BY DEF Transfers, PlaceInv, ExactlyOnePlace, Unique
    <2>4. Seqs(phyDone') \subseteq Seqs(phyDone)
      BY <1>1 DEF Seqs
    <2>5. \A p \in done : ~p.bypass => p.seq \notin Seqs(phyDone')
      BY <1>1 DEF Seqs
    <2>6. ASSUME NEW p \in Transfers', p.seq \in Seqs(phyDone)
          PROVE  p.seq \in Seqs(phyDone')
      <3>1. PICK d \in phyDone : d.seq = p.seq
        BY <2>6 DEF Seqs
      <3>2. \A q \in done : q.bypass \/ q.seq # d.seq
        <4>1. ASSUME NEW q \in done, ~q.bypass, q.seq = d.seq PROVE FALSE
          <5>1. q \in Transfers /\ p \in Transfers /\ p \notin done
            BY <1>3, <4>1 DEF Transfers
          <5>. QED BY <2>3, <3>1, <4>1, <5>1
        <4>. QED BY <4>1
      <3>. QED BY <1>1, <3>1, <3>2 DEF Seqs
    <2>7. ASSUME NEW n \in Seqs(phyReads) \cup Seqs(phyWrites)
          PROVE  \E p \in Transfers' : p.seq = n
      <3>1. PICK p \in Transfers : p.seq = n
        BY <2>1 DEF Seqs
      <3>2. p \notin done
        BY <2>1, <2>2, <3>1 DEF Transfers
      <3>. QED BY <1>3, <3>1, <3>2
    <2>8. ASSUME NEW n \in Seqs(phyDone')
          PROVE  \E p \in Transfers' : p.seq = n
      <3>1. PICK p \in Transfers : p.seq = n
        BY <2>1, <2>4 DEF Seqs
      <3>2. p \notin done
        BY <2>5, <3>1 DEF Transfers
      <3>. QED BY <1>3, <3>1, <3>2
    <2>9. ASSUME NEW n \in Seqs(Transfers')
          PROVE  n \in Seqs(phyReads) \cup Seqs(phyWrites) \cup Seqs(phyDone')
      <3>1. PICK p \in Transfers' : p.seq = n
        BY DEF Seqs
      <3>2. p \in Transfers
        BY <1>3
      <3>3. n \in Seqs(Transfers)
        BY <3>1, <3>2 DEF Seqs
      <3>. QED BY <2>1, <2>6, <3>1, <3>3
    <2>10. Seqs(phyReads) \cup Seqs(phyWrites) \cup Seqs(phyDone') = Seqs(Transfers')
      <3>1. \A n : (\E p \in Transfers' : p.seq = n) => n \in Seqs(Transfers')
        BY DEF Seqs
      <3>. QED BY <2>7, <2>8, <2>9, <3>1
    <2>11. PhyMatchesPending'
      BY <1>2, <2>1, <2>4, <2>10 DEF PhyMatchesPending, Transfers
    <2>12. ASSUME NEW s \in phyReads
           PROVE  Known(s, {p \in Transfers' : p.type = "Read"})
      <3>1. PICK p \in Transfers : /\ p.type = "Read" /\ p.seq = s.seq
                                   /\ p.span = s.span
        BY DEF PhyInv, Known
      <3>2. s.seq \in Seqs(phyReads)
        BY DEF Seqs
      <3>3. p \notin done
        BY <2>1, <2>2, <3>1, <3>2 DEF Transfers
      <3>. QED BY <1>3, <3>1, <3>3 DEF Known
    <2>. QED BY <1>2, <1>5, <2>11, <2>12 DEF PhyInv
  <1>. QED BY <1>4, <1>5

LEMMA PhyInvStep ==
  ASSUME PlaceInv, PhyInv, [Next]_vars
  PROVE  PhyInv'
  <1>1. ASSUME NEW shape \in ReadShapes, ForwardRead(shape)
        PROVE  PhyInv'
    <2>. DEFINE p == Bypass(shape, "Read", ForwardPayload(shape.span),
                            Slice(shadow, shape.span))
    <2>1. p.bypass = TRUE
      BY DEF Bypass
    <2>2. pending' = pending \cup {p} /\ UNCHANGED phyVars
      BY <1>1 DEF ForwardRead
    <2>. HIDE DEF p
    <2>. QED BY <2>1, <2>2, PhyUntouched
  <1>2. ASSUME NEW shape \in WriteShapes, CoalesceWrite(shape)
        PROVE  PhyInv'
    <2>. DEFINE p == Bypass(shape, "Write", NoData, NoData)
    <2>1. p.bypass = TRUE
      BY DEF Bypass
    <2>2. pending' = pending \cup {p} /\ UNCHANGED phyVars
      BY <1>2 DEF CoalesceWrite
    <2>. HIDE DEF p
    <2>. QED BY <2>1, <2>2, PhyUntouched
  <1>3. CASE PhyTick
    BY <1>3, PhyTicks
  <1>4. CASE CompletePending
    BY <1>4, PhyCompletes
  <1>5. CASE IssueData
    <2>1. ASSUME NEW r \in activeQ, IssueActive(r) PROVE PhyInv'
      <3>1. r \in Queued /\ Retire(r) /\ phyDone' = phyDone
        BY <2>1 DEF IssueActive, Queued
      <3>. QED BY <3>1, PhyRetires
    <2>2. ASSUME NEW r \in readQ \cup writeQ, IssueQueued(r) PROVE PhyInv'
      <3>1. r \in Queued /\ Retire(r) /\ phyDone' = phyDone
        BY <2>2 DEF IssueQueued, Queued
      <3>. QED BY <3>1, PhyRetires
    <2>. QED BY <1>5, <2>1, <2>2 DEF IssueData
  <1>6. CASE UNCHANGED <<pending, phyVars>>
    BY <1>6, PhyUntouched
  <1>. QED BY <1>1, <1>2, <1>3, <1>4, <1>5, <1>6
           DEF Next, Tick, EnqueueRead, EnqueueWrite, Promote, IssueOther,
               PopResponse, vars

\* The PHY and the controller never lose track of each other: every transfer
\* of the PHY has a pending request that takes its completion, and every
\* pending request that needs one has a transfer.
THEOREM PhyAlwaysMatches == Spec => []PhyMatchesPending
  <1>. DEFINE Inv == PlaceInv /\ PhyInv
  <1>1. Init => Inv
    <2>. SUFFICES ASSUME Init PROVE Inv
      OBVIOUS
    <2>1. PlaceInv
      BY InitPlaceInv
    <2>. QED BY <2>1 DEF Init, PhyInv, PhyMatchesPending, Unique, Seqs
  <1>2. Inv /\ [Next]_vars => Inv'
    BY PlaceInvStep, PhyInvStep
  <1>3. Inv => PhyMatchesPending
    BY DEF PhyInv
  <1>. QED BY <1>1, <1>2, <1>3, PTL DEF Spec

-----------------------------------------------------------------------------
(* No read sees the future *)

\* No value is newer than the writes accepted so far ...
ValuesUsed ==
  /\ \A b \in Bytes : image[b] < nextSeq
  /\ \A a \in BufferedAddrs : \A b \in DOMAIN buffered[a].data :
       buffered[a].data[b] < nextSeq
  /\ \A s \in phyWrites : \A b \in s.mask : s.data[b] < nextSeq

\* ... and what a read of these bytes may meet is older than the read: the
\* storage, the PHY, and the entries of the writes that will not wait for it.
StoredBefore(seq, span) ==
  \A b \in span : /\ image[b] < seq
                  /\ \A s \in phyWrites : b \in s.mask => s.data[b] < seq
BufferedBefore(seq, span) ==
  \A w \in QueuedWrites :
    \A b \in span \cap DOMAIN buffered[w.addr].data :
      buffered[w.addr].data[b] < seq \/ (b \in w.span /\ seq < w.seq)
ReadersBefore ==
  \A r \in Readers : StoredBefore(r.seq, r.span) /\ BufferedBefore(r.seq, r.span)

\* So is what was sampled or forwarded for it already.
SampledBefore ==
  /\ \A d \in phyDone : \A b \in DOMAIN d.data : d.data[b] < d.seq
  /\ \A p \in pending : p.type = "Read" /\ p.bypass =>
       \A b \in DOMAIN p.data : p.data[b] < p.seq

OrderInv ==
  PlaceInv /\ PhyInv /\ ValuesUsed /\ ReadersBefore /\ SampledBefore /\ NoFutureData

\* Every value is a number, and every mask is within its data.
LEMMA Numbers ==
  ASSUME TypeOK
  PROVE  /\ nextSeq \in Nat
         /\ \A b \in Bytes : image[b] \in Int
         /\ \A a \in BufferedAddrs : \A b \in DOMAIN buffered[a].data :
              buffered[a].data[b] \in Int
         /\ \A a \in BufferedAddrs : /\ buffered[a].mask \subseteq DOMAIN buffered[a].data
                                     /\ DOMAIN buffered[a].data \in SUBSET Bytes
         /\ \A s \in phyWrites : \A b \in s.mask : s.data[b] \in Int
         /\ \A r \in Readers : r.span \in SUBSET Bytes /\ r.seq \in Nat
  <1>1. Values \subseteq Int
    BY ConstantsAssumption DEF Values, Sequences, Pad, Uninitialized
  <1>2. nextSeq \in Nat /\ \A b \in Bytes : image[b] \in Values
    BY ConstantsAssumption DEF TypeOK
  <1>3. ASSUME NEW a \in BufferedAddrs
        PROVE  /\ buffered[a].mask \subseteq DOMAIN buffered[a].data
               /\ DOMAIN buffered[a].data \in SUBSET Bytes
               /\ \A b \in DOMAIN buffered[a].data : buffered[a].data[b] \in Values
    <2>1. buffered[a] \in Entries
      BY BufferedEntry
    <2>. QED BY <2>1, DataElim DEF Entries
  <1>4. ASSUME NEW s \in phyWrites, NEW b \in s.mask
        PROVE  s.data[b] \in Values
    <2>1. s \in PhyWriteSlots
      BY DEF TypeOK
    <2>. QED BY <2>1, DataElim DEF PhyWriteSlots
  <1>5. \A r \in Readers : r.span \in SUBSET Bytes /\ r.seq \in Nat
    BY DEF Readers, TypeOK, Requests, PendingItems, Sequences
  <1>. QED BY <1>1, <1>2, <1>3, <1>4, <1>5

\* Steps that leave the data alone.
LEMMA DataUntouched ==
  ASSUME OrderInv, PlaceInv', ReadsFollow,
         UNCHANGED <<image, buffered, phyWrites>>, QueuedWrites' = QueuedWrites,
         nextSeq' \in {nextSeq, nextSeq + 1}
  PROVE  ValuesUsed' /\ ReadersBefore'
  <1>1. TypeOK /\ TypeOK' /\ BufferedAddrs' = BufferedAddrs
    BY DEF OrderInv, PlaceInv, QueueInv, BufferedAddrs
  <1>2. ValuesUsed'
    BY <1>1, Numbers DEF OrderInv, ValuesUsed
  <1>3. ASSUME NEW x \in Readers'
        PROVE  StoredBefore(x.seq, x.span)' /\ BufferedBefore(x.seq, x.span)'
    <2>1. CASE Known(x, Readers)
      BY <2>1 DEF Known, OrderInv, ReadersBefore, StoredBefore, BufferedBefore
    <2>2. CASE Accepted(x)
      <3>1. x.span \in SUBSET Bytes /\ x.seq = nextSeq
        BY <1>1, <2>2 DEF Accepted, Readers, TypeOK, Requests, PendingItems
      <3>2. \A w \in QueuedWrites : w.addr \in BufferedAddrs
        BY DEF OrderInv, PlaceInv, QueueInv, BufferedIffQueued
      <3>. QED BY <3>1, <3>2 DEF OrderInv, ValuesUsed, StoredBefore, BufferedBefore
    <2>. QED BY <2>1, <2>2 DEF ReadsFollow, Known, Recalled
  <1>. QED BY <1>2, <1>3 DEF ReadersBefore

\* A new write is newer than every read that waits, which it will wait for.
LEMMA EnqueueWriteOrder ==
  ASSUME OrderInv, NEW shape \in WriteShapes, EnqueueWrite(shape)
  PROVE  ValuesUsed' /\ ReadersBefore'
  <1>. DEFINE w == [seq |-> nextSeq, type |-> "Write", addr |-> shape.addr,
                    span |-> shape.span, expect |-> NoData]
              e == NewEntry(shape)
  <1>1. TypeOK /\ PlaceInv /\ CanAccept
    BY DEF OrderInv, PlaceInv, QueueInv, EnqueueWrite
  <1>2. /\ w.seq = nextSeq /\ w.type = "Write" /\ w.addr = shape.addr
        /\ w.span = shape.span
        /\ DOMAIN e.data = shape.span /\ \A b \in shape.span : e.data[b] = nextSeq
    BY DEF NewEntry
  <1>3. e \in Entries /\ shape.addr \in Addrs /\ DOMAIN buffered = Addrs
    BY <1>1, NewEntryType, ShapeTypes DEF TypeOK
  <1>4. /\ writeQ' = writeQ \cup {w} /\ nextSeq' = nextSeq + 1
        /\ buffered' = [buffered EXCEPT ![shape.addr] = e]
        /\ shape.addr \notin BufferedAddrs
        /\ UNCHANGED <<readQ, activeQ, pending, image, phyWrites>>
    BY DEF EnqueueWrite, phyVars
  <1>. HIDE DEF w, e
  <1>5. /\ BufferedAddrs' = BufferedAddrs \cup {shape.addr}
        /\ QueuedWrites' = QueuedWrites \cup {w} /\ Readers' = Readers
    BY <1>2, <1>3, <1>4, NoWriteAssumption DEF BufferedAddrs, QueuedWrites, Readers
  <1>6. /\ buffered'[shape.addr] = e
        /\ \A a \in BufferedAddrs : buffered'[a] = buffered[a]
    BY <1>3, <1>4 DEF BufferedAddrs
  <1>7. \A v \in QueuedWrites : v.addr \in BufferedAddrs
    BY <1>1 DEF PlaceInv, QueueInv, BufferedIffQueued
  <1>8. ValuesUsed'
    BY <1>1, <1>2, <1>4, <1>5, <1>6, Numbers DEF OrderInv, ValuesUsed
  <1>9. ASSUME NEW r \in Readers
        PROVE  StoredBefore(r.seq, r.span)' /\ BufferedBefore(r.seq, r.span)'
    <2>1. StoredBefore(r.seq, r.span) /\ BufferedBefore(r.seq, r.span)
      BY DEF OrderInv, ReadersBefore
    <2>2. r.seq < nextSeq
      BY <1>1, UsedSeqs DEF Readers, Queued
    <2>3. ASSUME NEW v \in QueuedWrites',
                 NEW b \in r.span \cap DOMAIN buffered'[v.addr].data
          PROVE  buffered'[v.addr].data[b] < r.seq \/ (b \in v.span /\ r.seq < v.seq)
      <3>1. CASE v = w
        BY <1>2, <1>6, <2>2, <2>3, <3>1
      <3>2. CASE v \in QueuedWrites
        BY <1>6, <1>7, <2>1, <2>3, <3>2 DEF BufferedBefore
      <3>. QED BY <1>5, <3>1, <3>2
    <2>. QED BY <1>4, <2>1, <2>3 DEF StoredBefore, BufferedBefore
  <1>. QED BY <1>5, <1>8, <1>9 DEF ReadersBefore

\* A merge only changes bytes that no read waits for, and pads with zeros.
LEMMA CoalesceWriteOrder ==
  ASSUME OrderInv, NEW shape \in WriteShapes, CoalesceWrite(shape)
  PROVE  ValuesUsed' /\ ReadersBefore'
  <1>. DEFINE p == Bypass(shape, "Write", NoData, NoData)
              old == buffered[shape.addr]
              e == IF shape.masked THEN MergedEntry(old, shape) ELSE NewEntry(shape)
  <1>1. TypeOK /\ PlaceInv /\ CanAccept /\ shape.addr \in BufferedAddrs
    BY DEF OrderInv, PlaceInv, QueueInv, CoalesceWrite
  <1>2. /\ shape.addr \in Addrs /\ old \in Entries /\ DOMAIN buffered = Addrs
    BY <1>1, BufferedEntry DEF TypeOK
  <1>3. e \in Entries
    BY <1>1, <1>2, NewEntryType, MergedEntryType
  <1>4. ASSUME NEW b \in DOMAIN e.data
        PROVE  \/ b \in shape.span /\ e.data[b] = nextSeq
               \/ b \in DOMAIN old.data /\ e.data[b] = old.data[b]
               \/ e.data[b] = Pad
    <2>1. CASE shape.masked
      <3>. DEFINE extent == DOMAIN old.data \cup shape.span
                  data == [c \in extent |-> IF c \in shape.mask THEN nextSeq
                                            ELSE IF c \in DOMAIN old.data
                                                 THEN old.data[c] ELSE Pad]
      <3>1. e.data = data
        BY <2>1 DEF MergedEntry
      <3>2. shape.mask \subseteq shape.span
        BY ShapeTypes
      <3>3. b \in extent
        BY <1>4, <3>1
      <3>4. e.data[b] = IF b \in shape.mask THEN nextSeq
                        ELSE IF b \in DOMAIN old.data THEN old.data[b] ELSE Pad
        BY <3>1, <3>3
      <3>. HIDE DEF e, old, data, extent
      <3>. QED BY <3>2, <3>4
    <2>2. CASE ~shape.masked
      <3>1. e.data = [c \in shape.span |-> nextSeq]
        BY <2>2 DEF NewEntry
      <3>. HIDE DEF e
      <3>. QED BY <1>4, <3>1
    <2>. QED BY <2>1, <2>2
  <1>5. p.type = "Write"
    BY DEF Bypass
  <1>6. /\ pending' = pending \cup {p} /\ nextSeq' = nextSeq + 1
        /\ buffered' = [buffered EXCEPT ![shape.addr] = e]
        /\ ~UnresolvedRead(shape.span, 0)
        /\ UNCHANGED <<readQ, writeQ, activeQ, image, phyWrites>>
    BY DEF CoalesceWrite, phyVars
  <1>. HIDE DEF p, e
  <1>7. /\ BufferedAddrs' = BufferedAddrs /\ QueuedWrites' = QueuedWrites
        /\ Readers' = Readers
    BY <1>1, <1>2, <1>3, <1>5, <1>6, NoWriteAssumption
    DEF BufferedAddrs, QueuedWrites, Readers
  <1>8. /\ buffered'[shape.addr] = e
        /\ \A a \in BufferedAddrs : a # shape.addr => buffered'[a] = buffered[a]
    BY <1>2, <1>6 DEF BufferedAddrs
  <1>9. \A b \in DOMAIN old.data : old.data[b] \in Int /\ old.data[b] < nextSeq
    BY <1>1, Numbers DEF OrderInv, ValuesUsed
  <1>. HIDE DEF old
  <1>10. \A b \in DOMAIN e.data : e.data[b] < nextSeq + 1
    BY <1>1, <1>4, <1>9, Numbers DEF Pad
  <1>11. ValuesUsed'
    BY <1>1, <1>6, <1>7, <1>8, <1>10, Numbers DEF OrderInv, ValuesUsed
  <1>12. ASSUME NEW r \in Readers
         PROVE  StoredBefore(r.seq, r.span)' /\ BufferedBefore(r.seq, r.span)'
    <2>1. StoredBefore(r.seq, r.span) /\ BufferedBefore(r.seq, r.span)
      BY DEF OrderInv, ReadersBefore
    <2>2. r.span \cap shape.span = {}
      BY <1>6 DEF UnresolvedRead, Overlap, Readers
    <2>3. r.seq \in Nat
      BY <1>1, Numbers
    <2>4. ASSUME NEW v \in QueuedWrites,
                 NEW b \in r.span \cap DOMAIN buffered'[v.addr].data
          PROVE  buffered'[v.addr].data[b] < r.seq \/ (b \in v.span /\ r.seq < v.seq)
      <3>1. v.addr \in BufferedAddrs
        BY <1>1 DEF PlaceInv, QueueInv, BufferedIffQueued
      <3>2. CASE v.addr # shape.addr
        BY <1>8, <2>1, <2>4, <3>1, <3>2 DEF BufferedBefore
      <3>3. CASE v.addr = shape.addr
        <4>1. b \in DOMAIN e.data /\ b \notin shape.span
          BY <1>8, <2>2, <2>4, <3>3
        <4>2. CASE b \in DOMAIN old.data /\ e.data[b] = old.data[b]
          BY <1>8, <2>1, <2>4, <3>3, <4>2 DEF BufferedBefore, old
        <4>3. CASE e.data[b] = Pad
          BY <1>8, <2>3, <3>3, <4>3 DEF Pad
        <4>. QED BY <1>4, <4>1, <4>2, <4>3
      <3>. QED BY <3>2, <3>3
    <2>. QED BY <1>6, <1>7, <2>1, <2>4 DEF StoredBefore, BufferedBefore
  <1>. QED BY <1>7, <1>11, <1>12 DEF ReadersBefore

\* The PHY commits a write that was older than every read that still waits.
LEMMA PhyTickOrder ==
  ASSUME OrderInv, PhyTick
  PROVE  ValuesUsed' /\ ReadersBefore'
  <1>. DEFINE writes == {Age(x) : x \in phyWrites}
  <1>1. TypeOK /\ PlaceInv
    BY DEF OrderInv, PlaceInv, QueueInv
  <1>2. \A x \in phyWrites : Age(x).mask = x.mask /\ Age(x).data = x.data
    BY <1>1 DEF TypeOK, PhyWriteSlots, Age
  <1>3. \A s \in writes : \E x \in phyWrites : s.mask = x.mask /\ s.data = x.data
    BY <1>2
  <1>4. /\ phyWrites' = Waiting(writes)
        /\ image' = [b \in Bytes |->
             IF \E w \in Matured(writes) : b \in w.mask
             THEN (CHOOSE w \in Matured(writes) : b \in w.mask).data[b]
             ELSE image[b]]
        /\ UNCHANGED <<buffered, readQ, writeQ, activeQ, nextSeq>>
    BY DEF PhyTick, queueVars
  <1>. HIDE DEF writes
  <1>5. phyWrites' \subseteq writes /\ Matured(writes) \subseteq writes
    BY <1>4 DEF Waiting, Matured
  <1>6. ASSUME NEW b \in Bytes
        PROVE  image'[b] = image[b]
                 \/ \E x \in phyWrites : b \in x.mask /\ image'[b] = x.data[b]
    <2>1. CASE \E w \in Matured(writes) : b \in w.mask
      <3>. DEFINE w == CHOOSE w \in Matured(writes) : b \in w.mask
      <3>1. w \in Matured(writes) /\ b \in w.mask
        BY <2>1
      <3>2. image'[b] = w.data[b]
        BY <1>4, <2>1
      <3>. HIDE DEF w
      <3>. QED BY <1>3, <1>5, <3>1, <3>2
    <2>2. CASE ~\E w \in Matured(writes) : b \in w.mask
      BY <1>4, <2>2
    <2>. QED BY <2>1, <2>2
  <1>7. BufferedAddrs' = BufferedAddrs /\ QueuedWrites' = QueuedWrites
    BY <1>4 DEF BufferedAddrs, QueuedWrites
  <1>8. ValuesUsed'
    BY <1>3, <1>4, <1>5, <1>6, <1>7 DEF OrderInv, ValuesUsed
  <1>9. ASSUME NEW x \in Readers'
        PROVE  StoredBefore(x.seq, x.span)' /\ BufferedBefore(x.seq, x.span)'
    <2>1. Known(x, Readers)
      <3>1. ReadsFollow
        BY <1>1, StepFollows DEF Next, Tick
      <3>2. nextSeq' = nextSeq /\ nextSeq \in Nat
        BY <1>1, <1>4, Numbers
      <3>. QED BY <3>1, <3>2 DEF ReadsFollow, Accepted, Known, Recalled
    <2>2. PICK r \in Readers : r.seq = x.seq /\ r.span = x.span
      BY <2>1 DEF Known
    <2>3. StoredBefore(x.seq, x.span) /\ BufferedBefore(x.seq, x.span)
          /\ x.span \in SUBSET Bytes
      BY <1>1, <2>2, Numbers DEF OrderInv, ReadersBefore
    <2>4. StoredBefore(x.seq, x.span)'
      BY <1>3, <1>5, <1>6, <2>3 DEF StoredBefore
    <2>. QED BY <1>4, <1>7, <2>3, <2>4 DEF BufferedBefore
  <1>. QED BY <1>8, <1>9 DEF ReadersBefore

\* A write that leaves its queue waits for no older read, so every value of its
\* entry is older than the reads that still wait.
LEMMA RetireWriteOrder ==
  ASSUME OrderInv, PlaceInv', NEW r \in QueuedWrites, RetireWrite(r),
         Eligible(r, TRUE), ReadsFollow,
         QueuedWrites' = QueuedWrites \ {r}, nextSeq' = nextSeq
  PROVE  ValuesUsed' /\ ReadersBefore'
  <1>. DEFINE e == buffered[r.addr]
  <1>1. TypeOK /\ PlaceInv /\ r.type = "Write" /\ r.addr \in BufferedAddrs
    BY DEF OrderInv, PlaceInv, QueueInv, BufferedIffQueued, QueuedWrites
  <1>2. r.addr \in Addrs /\ DOMAIN buffered = Addrs
    BY <1>1 DEF TypeOK, BufferedAddrs
  <1>3. buffered' = [buffered EXCEPT ![r.addr] = NoWrite]
    BY DEF RetireWrite
  <1>4. /\ BufferedAddrs' = BufferedAddrs \ {r.addr}
        /\ \A a \in BufferedAddrs' : buffered'[a] = buffered[a]
    BY <1>2, <1>3 DEF BufferedAddrs
  <1>5. /\ e.mask \subseteq DOMAIN e.data
        /\ \A b \in DOMAIN e.data : e.data[b] < nextSeq
    BY <1>1, Numbers DEF OrderInv, ValuesUsed
  <1>6. /\ \A b \in Bytes : image'[b] = image[b]
                              \/ (b \in e.mask /\ image'[b] = e.data[b])
        /\ \A s \in phyWrites' : s \in phyWrites \/ (s.mask = e.mask /\ s.data = e.data)
    <2>1. CASE Behavioral
      <3>1. /\ image' = image
            /\ phyWrites' = phyWrites \cup
                 {[seq |-> r.seq, mask |-> e.mask, data |-> e.data,
                   wait |-> WriteLatency]}
        BY <2>1 DEF RetireWrite
      <3>. QED BY <3>1
    <2>2. CASE ~Behavioral
      <3>1. image' = Overwrite(image, e.mask, e.data) /\ phyWrites' = phyWrites
        BY <2>2 DEF RetireWrite
      <3>2. DOMAIN image = Bytes
        BY <1>1 DEF TypeOK
      <3>. QED BY <3>1, <3>2 DEF Overwrite
    <2>. QED BY <2>1, <2>2
  <1>. HIDE DEF e
  <1>7. ValuesUsed'
    BY <1>4, <1>5, <1>6 DEF OrderInv, ValuesUsed
  <1>8. ASSUME NEW x \in Readers'
        PROVE  StoredBefore(x.seq, x.span)' /\ BufferedBefore(x.seq, x.span)'
    <2>1. Known(x, Readers)
      <3>1. nextSeq' = nextSeq /\ nextSeq \in Nat
        BY <1>1, Numbers
      <3>. QED BY <3>1 DEF ReadsFollow, Accepted, Known, Recalled
    <2>2. PICK y \in Readers : y.seq = x.seq /\ y.span = x.span
      BY <2>1 DEF Known
    <2>3. StoredBefore(x.seq, x.span) /\ BufferedBefore(x.seq, x.span)
          /\ x.span \in SUBSET Bytes
      BY <1>1, <2>2, Numbers DEF OrderInv, ReadersBefore
    <2>4. ASSUME NEW b \in x.span, b \in r.span
          PROVE  ~(x.seq < r.seq)
      <3>1. ~UnresolvedRead(r.span, r.seq)
        BY <1>1 DEF Eligible
      <3>2. y \in readQ \cup activeQ \cup pending /\ y.type = "Read"
        BY DEF Readers
      <3>3. Overlap(r.span, y.span)
        BY <2>2, <2>4 DEF Overlap
      <3>. QED BY <2>2, <3>1, <3>2, <3>3 DEF UnresolvedRead
    <2>5. \A b \in x.span \cap e.mask : e.data[b] < x.seq
      BY <1>5, <2>3, <2>4 DEF BufferedBefore, e
    <2>6. StoredBefore(x.seq, x.span)'
      BY <1>6, <2>3, <2>5 DEF StoredBefore
    <2>7. BufferedBefore(x.seq, x.span)'
      <3>1. \A v \in QueuedWrites' : v \in QueuedWrites /\ v.addr \in BufferedAddrs'
        BY DEF PlaceInv, QueueInv, BufferedIffQueued
      <3>. QED BY <1>4, <2>3, <3>1 DEF BufferedBefore
    <2>. QED BY <2>6, <2>7
  <1>. QED BY <1>7, <1>8 DEF ReadersBefore

\* A data command of either queue.
LEMMA RetireOrder ==
  ASSUME OrderInv, PlaceInv', NEW r \in Queued, Retire(r), Eligible(r, TRUE),
         ReadsFollow, QueuedWrites' = QueuedWrites \ {r}, nextSeq' = nextSeq
  PROVE  ValuesUsed' /\ ReadersBefore'
  <1>1. r.type \in {"Read", "Write"}
    BY DEF OrderInv, PlaceInv, QueueInv, TypeOK, Requests, Queued
  <1>2. CASE r.type = "Read"
    <2>1. UNCHANGED <<image, buffered, phyWrites>>
      BY <1>2 DEF Retire, RetireRead
    <2>2. QueuedWrites' = QueuedWrites
      BY <1>2 DEF QueuedWrites
    <2>. QED BY <2>1, <2>2, DataUntouched
  <1>3. CASE r.type = "Write"
    <2>1. r \in QueuedWrites
      BY <1>3 DEF QueuedWrites, Queued, OrderInv, PlaceInv, QueueInv, TypeOK
    <2>. QED BY <1>3, <2>1, RetireWriteOrder DEF Retire
  <1>. QED BY <1>1, <1>2, <1>3

LEMMA IssueOrder ==
  ASSUME OrderInv, PlaceInv', ReadsFollow, IssueData
  PROVE  ValuesUsed' /\ ReadersBefore'
  <1>1. ASSUME NEW r \in activeQ, IssueActive(r)
        PROVE  ValuesUsed' /\ ReadersBefore'
    <2>1. /\ r \in Queued /\ Retire(r) /\ Eligible(r, TRUE) /\ nextSeq' = nextSeq
          /\ readQ' = readQ /\ writeQ' = writeQ /\ activeQ' = activeQ \ {r}
      BY <1>1 DEF IssueActive, CanIssueData, Queued
    <2>2. QueuedWrites' = QueuedWrites \ {r}
      BY <2>1 DEF QueuedWrites, OrderInv, PlaceInv, ExactlyOnePlace
    <2>. QED BY <2>1, <2>2, RetireOrder
  <1>2. ASSUME NEW r \in readQ \cup writeQ, IssueQueued(r)
        PROVE  ValuesUsed' /\ ReadersBefore'
    <2>1. /\ r \in Queued /\ Retire(r) /\ Eligible(r, TRUE) /\ nextSeq' = nextSeq
          /\ readQ' = readQ \ {r} /\ writeQ' = writeQ \ {r} /\ activeQ' = activeQ
      BY <1>2 DEF IssueQueued, CanIssueData, Queued
    <2>2. QueuedWrites' = QueuedWrites \ {r}
      BY <2>1 DEF QueuedWrites, OrderInv, PlaceInv, ExactlyOnePlace
    <2>. QED BY <2>1, <2>2, RetireOrder
  <1>. QED BY <1>1, <1>2 DEF IssueData

\* What is forwarded to a read comes from the storage or from queued writes.
LEMMA ForwardedBefore ==
  ASSUME OrderInv, NEW span \in SUBSET Bytes, NEW b \in span
  PROVE  ForwardPayload(span)[b] < nextSeq
  <1>. DEFINE writes == {a \in BufferedAddrs : b \in buffered[a].span \cap buffered[a].mask}
              data == {buffered[a].data[b] : a \in writes}
  <1>1. ForwardPayload(span)[b] = IF writes = {} THEN image[b] ELSE Max(data)
    BY DEF ForwardPayload
  <1>2. CASE writes = {}
    BY <1>1, <1>2 DEF OrderInv, ValuesUsed
  <1>3. CASE writes # {}
    <2>1. TypeOK
      BY DEF OrderInv, PlaceInv, QueueInv
    <2>2. data \subseteq Values /\ \A v \in data : v < nextSeq
      BY <2>1, BufferedEntry, Numbers DEF OrderInv, ValuesUsed
    <2>3. data # {}
      BY <1>3
    <2>4. Max(data) \in data
      <3>. HIDE DEF data
      <3>. QED BY <2>2, <2>3, MaxInSet, ConstantsAssumption
    <2>. QED BY <1>1, <1>3, <2>2, <2>4
  <1>. QED BY <1>2, <1>3

LEMMA ForwardSamples ==
  ASSUME OrderInv, NEW shape \in ReadShapes, ForwardRead(shape)
  PROVE  SampledBefore'
  <1>. DEFINE p == Bypass(shape, "Read", ForwardPayload(shape.span),
                          Slice(shadow, shape.span))
  <1>1. /\ p.seq = nextSeq /\ p.data = ForwardPayload(shape.span)
        /\ DOMAIN p.data = shape.span
    BY DEF Bypass, ForwardPayload
  <1>2. shape.span \in SUBSET Bytes
    BY ShapeTypes
  <1>3. \A b \in DOMAIN p.data : p.data[b] < p.seq
    <2>. HIDE DEF p
    <2>. QED BY <1>1, <1>2, ForwardedBefore
  <1>4. pending' = pending \cup {p} /\ phyDone' = phyDone
    BY DEF ForwardRead, phyVars
  <1>. HIDE DEF p
  <1>. QED BY <1>3, <1>4 DEF OrderInv, SampledBefore

\* The PHY samples the storage for a read that still waits.
LEMMA TickSamples ==
  ASSUME OrderInv, PhyTick
  PROVE  SampledBefore'
  <1>. DEFINE reads == {Age(x) : x \in phyReads}
              writes == {Age(x) : x \in phyWrites}
              item(x) == [seq |-> x.seq, data |-> Slice(image, x.span)]
              note(x) == [seq |-> x.seq, data |-> NoData]
  <1>1. TypeOK
    BY DEF OrderInv, PlaceInv, QueueInv
  <1>2. \A x \in phyReads : Age(x).seq = x.seq /\ Age(x).span = x.span
    BY <1>1 DEF TypeOK, PhyReadSlots, Age
  <1>3. phyDone' = phyDone \cup {item(x) : x \in Matured(reads)}
                           \cup {note(x) : x \in Matured(writes)}
    BY DEF PhyTick
  <1>4. ASSUME NEW x \in phyReads, NEW b \in x.span
        PROVE  image[b] < x.seq
    <2>1. PICK p \in Transfers : p.type = "Read" /\ p.seq = x.seq /\ p.span = x.span
      BY DEF OrderInv, PhyInv, Known
    <2>2. p \in Readers
      BY <2>1 DEF Transfers, Readers
    <2>. QED BY <2>1, <2>2 DEF OrderInv, ReadersBefore, StoredBefore
  <1>5. \A x \in reads : \A b \in x.span : image[b] < x.seq
    BY <1>2, <1>4
  <1>6. /\ \A x : item(x).seq = x.seq /\ DOMAIN item(x).data = x.span
        /\ \A x : \A b \in x.span : item(x).data[b] = image[b]
        /\ \A x : DOMAIN note(x).data = {}
    BY DEF Slice, NoData
  <1>7. Matured(reads) \subseteq reads
    BY DEF Matured
  <1>. HIDE DEF reads, writes, item, note
  <1>8. \A d \in phyDone' : \A b \in DOMAIN d.data : d.data[b] < d.seq
    BY <1>3, <1>5, <1>6, <1>7 DEF OrderInv, SampledBefore
  <1>9. \A p \in pending' : p.type = "Read" /\ p.bypass =>
          \A b \in DOMAIN p.data : p.data[b] < p.seq
    <2>1. pending' = {Age(p) : p \in pending}
      BY DEF PhyTick
    <2>2. \A p \in pending : /\ Age(p).seq = p.seq /\ Age(p).type = p.type
                             /\ Age(p).bypass = p.bypass /\ Age(p).data = p.data
      BY <1>1, AgedItem
    <2>. QED BY <2>1, <2>2 DEF OrderInv, SampledBefore
  <1>. QED BY <1>8, <1>9 DEF SampledBefore

LEMMA SampledStep ==
  ASSUME OrderInv, [Next]_vars
  PROVE  SampledBefore'
  <1>1. ASSUME NEW shape \in WriteShapes, CoalesceWrite(shape)
        PROVE  SampledBefore'
    <2>. DEFINE p == Bypass(shape, "Write", NoData, NoData)
    <2>1. p.type = "Write"
      BY DEF Bypass
    <2>2. pending' = pending \cup {p} /\ phyDone' = phyDone
      BY <1>1 DEF CoalesceWrite, phyVars
    <2>. HIDE DEF p
    <2>. QED BY <2>1, <2>2 DEF OrderInv, SampledBefore
  <1>2. CASE CompletePending
    <2>1. pending' \subseteq pending /\ phyDone' \subseteq phyDone
      BY <1>2 DEF CompletePending
    <2>. QED BY <2>1 DEF OrderInv, SampledBefore
  <1>3. CASE IssueData
    <2>1. PICK r \in Queued : Retire(r) /\ phyDone' = phyDone
      BY <1>3 DEF IssueData, IssueActive, IssueQueued, Queued
    <2>2. r.type \in {"Read", "Write"}
      BY DEF OrderInv, PlaceInv, QueueInv, TypeOK, Requests, Queued
    <2>3. PICK p : pending' = pending \cup {p} /\ p.bypass = FALSE
      BY <2>1, <2>2, RetiredItem
    <2>. QED BY <2>1, <2>3 DEF OrderInv, SampledBefore
  <1>4. CASE UNCHANGED <<pending, phyDone>>
    BY <1>4 DEF OrderInv, SampledBefore
  <1>. QED BY <1>1, <1>2, <1>3, <1>4, ForwardSamples, TickSamples
           DEF Next, Tick, EnqueueRead, EnqueueWrite, Promote, IssueOther,
               PopResponse, vars, phyVars

\* The answer a finished read is given.
LEMMA AnswersBefore ==
  ASSUME OrderInv, NEW p \in pending, Finished(p), p.type = "Read"
  PROVE  \A b \in DOMAIN Response(p).data : Response(p).data[b] < Response(p).seq
  <1>1. Response(p).data = ReadData(p) /\ Response(p).seq = p.seq
    BY DEF Response
  <1>2. \A b \in DOMAIN ReadData(p) : ReadData(p)[b] < p.seq
    <2>1. CASE p.bypass
      BY <2>1 DEF ReadData, OrderInv, SampledBefore
    <2>2. CASE ~p.bypass /\ Behavioral
      <3>. DEFINE d == CHOOSE c \in phyDone : c.seq = p.seq
      <3>1. \E c \in phyDone : c.seq = p.seq
        BY <2>2 DEF Finished, PhyHas
      <3>2. d \in phyDone /\ d.seq = p.seq
        BY <3>1
      <3>3. ReadData(p) = d.data
        BY <2>2 DEF ReadData
      <3>. HIDE DEF d
      <3>. QED BY <3>2, <3>3 DEF OrderInv, SampledBefore
    <2>3. CASE ~p.bypass /\ ~Behavioral
      <3>1. p \in Readers
        BY <2>3 DEF Readers
      <3>2. ReadData(p) = Slice(image, p.span)
        BY <2>3 DEF ReadData
      <3>. QED BY <3>1, <3>2 DEF Slice, OrderInv, ReadersBefore, StoredBefore
    <2>. QED BY <2>1, <2>2, <2>3
  <1>. QED BY <1>1, <1>2

LEMMA NoFutureStep ==
  ASSUME OrderInv, [Next]_vars
  PROVE  NoFutureData'
  <1>1. CASE CompletePending
    <2>1. PICK done \in SUBSET {p \in pending : Finished(p)} :
            responses' = responses \cup {Response(p) : p \in done}
      BY <1>1 DEF CompletePending
    <2>2. \A p \in done : Response(p).type = p.type
      BY DEF Response
    <2>3. \A p \in done : p.type = "Read" =>
            \A b \in DOMAIN Response(p).data : Response(p).data[b] < Response(p).seq
      BY AnswersBefore
    <2>. QED BY <2>1, <2>2, <2>3 DEF OrderInv, NoFutureData
  <1>2. CASE responses' \subseteq responses
    BY <1>2 DEF OrderInv, NoFutureData
  <1>. QED BY <1>1, <1>2
           DEF Next, Tick, ForwardRead, EnqueueRead, CoalesceWrite, EnqueueWrite,
               PhyTick, IssueData, IssueActive, IssueQueued, Promote, IssueOther,
               PopResponse, vars

LEMMA OrderInvStep == OrderInv /\ [Next]_vars => OrderInv'
  <1>. SUFFICES ASSUME OrderInv, [Next]_vars PROVE OrderInv'
    OBVIOUS
  <1>1. PlaceInv /\ PlaceInv' /\ PhyInv'
    BY PlaceInvStep, PhyInvStep DEF OrderInv
  <1>2. ReadsFollow
    BY <1>1, StepFollows
  <1>3. SampledBefore' /\ NoFutureData'
    BY SampledStep, NoFutureStep
  <1>4. ASSUME UNCHANGED <<image, buffered, phyWrites>>,
               QueuedWrites' = QueuedWrites, nextSeq' \in {nextSeq, nextSeq + 1}
        PROVE  ValuesUsed' /\ ReadersBefore'
    BY <1>1, <1>2, <1>4, DataUntouched
  <1>5. ValuesUsed' /\ ReadersBefore'
    <2>1. CASE \E shape \in ReadShapes : ForwardRead(shape) \/ EnqueueRead(shape)
      <3>1. /\ UNCHANGED <<image, buffered, phyWrites, writeQ, activeQ>>
            /\ nextSeq' = nextSeq + 1
        BY <2>1 DEF ForwardRead, EnqueueRead, queueVars, phyVars
      <3>. QED BY <1>4, <3>1 DEF QueuedWrites
    <2>2. CASE \E shape \in WriteShapes : CoalesceWrite(shape) \/ EnqueueWrite(shape)
      BY <2>2, CoalesceWriteOrder, EnqueueWriteOrder
    <2>3. CASE PhyTick
      BY <2>3, PhyTickOrder
    <2>4. CASE IssueData
      BY <1>1, <1>2, <2>4, IssueOrder
    <2>5. CASE \E r \in readQ \cup writeQ : Promote(r)
      <3>1. PICK r \in readQ \cup writeQ : Promote(r)
        BY <2>5
      <3>2. /\ UNCHANGED <<image, buffered, phyWrites, nextSeq>>
            /\ writeQ' = writeQ \ {r} /\ activeQ' = activeQ \cup {r}
        BY <3>1 DEF Promote, phyVars
      <3>3. QueuedWrites' = QueuedWrites
        BY <1>1, <3>2 DEF QueuedWrites, PlaceInv, QueueInv, TypeOK
      <3>. QED BY <1>4, <3>2, <3>3
    <2>6. CASE CompletePending \/ IssueOther \/ PopResponse \/ UNCHANGED vars
      <3>1. UNCHANGED <<image, buffered, phyWrites, writeQ, activeQ, nextSeq>>
        BY <2>6 DEF CompletePending, IssueOther, PopResponse, vars, queueVars, phyVars
      <3>. QED BY <1>4, <3>1 DEF QueuedWrites
    <2>. QED BY <2>1, <2>2, <2>3, <2>4, <2>5, <2>6 DEF Next, Tick
  <1>. QED BY <1>1, <1>3, <1>5 DEF OrderInv

\* No read returns a byte of a write that was accepted after it, however the
\* requests overlap, whether it was forwarded, sampled by the PHY or read from
\* the storage, and whatever was merged into the write meanwhile.
THEOREM NoReadSeesTheFuture == Spec => []NoFutureData
  <1>1. Init => OrderInv
    <2>. SUFFICES ASSUME Init PROVE OrderInv
      OBVIOUS
    <2>1. PlaceInv
      BY InitPlaceInv
    <2>2. PhyInv
      BY DEF Init, PhyInv, PhyMatchesPending, Unique, Seqs
    <2>3. BufferedAddrs = {} /\ Readers = {}
      BY DEF Init, BufferedAddrs, Readers
    <2>4. ValuesUsed
      BY <2>3 DEF Init, ValuesUsed, Uninitialized
    <2>. QED BY <2>1, <2>2, <2>3, <2>4
             DEF Init, OrderInv, ReadersBefore, SampledBefore, NoFutureData
  <1>2. OrderInv => NoFutureData
    BY DEF OrderInv
  <1>. QED BY <1>1, <1>2, OrderInvStep, PTL DEF Spec
=============================================================================
