------------------------- MODULE AtomicStoreProofs -------------------------
(***************************************************************************)
(* ControllerData implements AtomicStore when writes are aligned: theorems *)
(* for both PHY modes and every depth, latency, set of shapes and number   *)
(* of requests.  A write accepted by the controller is first in its entry  *)
(* of buffered_writes_, then in a slot of the PHY write FIFO (Behavioral   *)
(* only), then in the storage; the invariant says which of these places    *)
(* holds the last value of a byte and which one a waiting read will meet.  *)
(***************************************************************************)
EXTENDS ControllerDataProofs

Aligned == AlignedShapes(WriteShapes)

\* With a Behavioral PHY a forwarded read must not need a byte from below its
\* entry, where an older write may still be under way.
Forwardable == Behavioral => CoveredReads(ReadShapes, WriteShapes)

\* An entry, and the queued write it belongs to, cover one transaction.
ShapedAs(v, e) ==
  /\ e.span = v.span /\ DOMAIN e.data = v.span /\ e.mask \subseteq v.span
  /\ ~e.masked => e.mask = v.span
EntryAligned(a) ==
  \E v \in WriteShapes :
    v.addr = a /\ ShapedAs(v, buffered[a]) /\ v.mask \subseteq buffered[a].mask
EntriesAligned ==
  /\ \A a \in BufferedAddrs : EntryAligned(a)
  /\ \A w \in QueuedWrites : \E v \in WriteShapes :
       v.addr = w.addr /\ v.span = w.span

\* What the storage will hold at b when the PHY has committed its writes.
Settled(b, v) ==
  \/ image[b] = v /\ \A s \in phyWrites : b \notin s.mask
  \/ \E s \in phyWrites :
       /\ b \in s.mask /\ s.data[b] = v
       /\ \A t \in phyWrites : b \in t.mask => t.wait <= s.wait

\* The last write of a byte is in its entry or, without one, on its way to the
\* storage or there.
EntriesNewest ==
  \A a \in BufferedAddrs : \A b \in buffered[a].mask : buffered[a].data[b] = shadow[b]
StorageNewest ==
  \A b \in Bytes : (\A a \in BufferedAddrs : b \notin buffered[a].mask)
                     => Settled(b, shadow[b])

\* From the storage through the PHY to the requester, values never get older.
ValuesInOrder ==
  /\ \A b \in Bytes : image[b] <= shadow[b] /\ shadow[b] < nextSeq
  /\ \A s \in phyWrites : \A b \in s.mask :
       image[b] <= s.data[b] /\ s.data[b] <= shadow[b]
  /\ \A s, t \in phyWrites : \A b \in s.mask \cap t.mask :
       s.wait <= t.wait => s.data[b] <= t.data[b]

\* The storage will hold what a read expects: the writes that would change it
\* wait for the read.
OwedTo(r) ==
  /\ DOMAIN r.expect = r.span
  /\ \A b \in r.span : Settled(b, r.expect[b])
  /\ \A w \in QueuedWrites : Overlap(r.span, buffered[w.addr].mask) => r.seq < w.seq
ReadersOwed == \A r \in Readers : OwedTo(r)

DataInv ==
  EntriesAligned /\ EntriesNewest /\ StorageNewest /\ ValuesInOrder /\ ReadersOwed

\* One data command is issued per tick, so no two writes commit in one tick.
SlotsInOrder ==
  /\ \A s \in phyWrites : /\ s.wait \in 1 .. WriteLatency
                          /\ s.wait = WriteLatency => phase \in {"idle", "row"}
  /\ \A s, t \in phyWrites : s.wait = t.wait => s = t

\* A write of the PHY is pending, where reads see it and are not issued.
SlotsPending ==
  \A s \in phyWrites : \E p \in Transfers :
    p.type = "Write" /\ p.seq = s.seq /\ s.mask \subseteq p.span
ReadersClear ==
  \A p \in Transfers : p.type = "Read" =>
    /\ \A s \in phyWrites : ~Overlap(s.mask, p.span)
    /\ \A d \in phyDone : d.seq = p.seq => d.data = p.expect

TransferInv == SlotsInOrder /\ SlotsPending /\ ReadersClear

StoreInv == PlaceInv /\ PhyInv /\ DataInv /\ TransferInv

\* What is answered already is what was expected; a write expects no data.
AnswersExpected ==
  /\ \A p \in pending : p.bypass \/ p.type = "Write" => p.data = p.expect
  /\ \A p \in pending : p.type = "Write" => p.expect = NoData
  /\ \A w \in QueuedWrites : w.expect = NoData
  /\ \A r \in responses : r.data = r.expect

AnswerInv == StoreInv /\ AnswersExpected

LEMMA StoreFacts ==
  ASSUME StoreInv
  PROVE  /\ TypeOK
         /\ \A w \in QueuedWrites : w.addr \in BufferedAddrs /\ w.seq < nextSeq
         /\ \A v, w \in QueuedWrites : v.addr = w.addr => v = w
         /\ \A a \in BufferedAddrs : buffered[a].mask \subseteq Bytes
         /\ \A r \in Readers : r.span \subseteq Bytes /\ r.seq < nextSeq
  <1>1. TypeOK /\ PlaceInv
    BY DEF StoreInv, PlaceInv, QueueInv
  <1>2. \A a \in BufferedAddrs : buffered[a].mask \subseteq Bytes
    BY <1>1, BufferedEntry DEF Entries
  <1>3. \A r \in Queued \cup pending : r.seq < nextSeq
    BY <1>1, UsedSeqs
  <1>4. \A r \in Readers : r.span \subseteq Bytes /\ r.seq < nextSeq
    BY <1>1, <1>3 DEF Readers, TypeOK, Requests, PendingItems, Queued
  <1>. QED BY <1>1, <1>2, <1>3, <1>4
           DEF PlaceInv, QueueInv, BufferedIffQueued, QueuedWrites, Queued

\* Data values, latencies and sequence numbers are integers.
LEMMA StoreNumbers ==
  ASSUME StoreInv
  PROVE  /\ nextSeq \in Nat /\ WriteLatency \in Nat \ {0}
         /\ \A b \in Bytes : image[b] \in Int /\ shadow[b] \in Int
         /\ \A s \in phyWrites : /\ s.wait \in Nat /\ s.mask \subseteq Bytes
                                 /\ \A b \in s.mask : s.data[b] \in Int
  <1>1. TypeOK
    BY StoreFacts
  <1>2. Values \subseteq Int
    BY DEF Values, Pad, Uninitialized, Sequences
  <1>3. \A s \in phyWrites : /\ s.wait \in Nat /\ s.mask \in SUBSET Bytes
                             /\ s.mask \subseteq DOMAIN s.data
                             /\ s.data \in DataOver(SUBSET Bytes)
    BY <1>1 DEF TypeOK, PhyWriteSlots
  <1>4. \A s \in phyWrites : \A b \in s.mask : s.data[b] \in Values
    BY <1>3, DataElim
  <1>5. nextSeq \in Nat /\ WriteLatency \in Nat \ {0}
    BY <1>1, ConstantsAssumption DEF TypeOK
  <1>. QED BY <1>1, <1>2, <1>3, <1>4, <1>5 DEF TypeOK

\* The Direct PHY holds no writes.
LEMMA DirectHoldsNothing ==
  ASSUME StoreInv, ~Behavioral
  PROVE  phyWrites = {} /\ \A b, v : Settled(b, v) <=> image[b] = v
  BY DEF StoreInv, PhyInv, Settled

-----------------------------------------------------------------------------
(* Steps that change no data *)

LEMMA DataKept ==
  ASSUME StoreInv, UNCHANGED <<buffered, image, shadow, phyWrites>>,
         nextSeq' \in {nextSeq, nextSeq + 1}, QueuedWrites' \subseteq QueuedWrites,
         \A x \in Readers' : Recalled(x, Readers) \/ OwedTo(x)'
  PROVE  DataInv'
  <1>1. BufferedAddrs' = BufferedAddrs
    BY DEF BufferedAddrs
  <1>2. \A b, v : Settled(b, v)' <=> Settled(b, v)
    BY DEF Settled
  <1>3. EntriesAligned' /\ EntriesNewest' /\ StorageNewest'
    BY <1>1, <1>2 DEF StoreInv, DataInv, EntriesAligned, EntryAligned, EntriesNewest,
                      StorageNewest, ShapedAs
  <1>4. ValuesInOrder'
    BY StoreNumbers DEF StoreInv, DataInv, ValuesInOrder
  <1>5. ASSUME NEW x \in Readers', Recalled(x, Readers)
        PROVE  OwedTo(x)'
    <2>1. PICK y \in Readers : y.seq = x.seq /\ y.span = x.span /\ y.expect = x.expect
      BY <1>5 DEF Recalled
    <2>2. OwedTo(y)
      BY DEF StoreInv, DataInv, ReadersOwed
    <2>. QED BY <1>2, <2>1, <2>2 DEF OwedTo
  <1>. QED BY <1>3, <1>4, <1>5 DEF DataInv, ReadersOwed

\* Steps that leave the transfers alone.
LEMMA TransfersKept ==
  ASSUME StoreInv, phyWrites' = phyWrites, phyDone' = phyDone,
         Transfers' = Transfers,
         phase \in {"idle", "row"} => phase' \in {"idle", "row"}
  PROVE  TransferInv'
  BY DEF StoreInv, TransferInv, SlotsInOrder, SlotsPending, ReadersClear

\* The bytes of a forwarded read are the last ones written.
LEMMA ForwardIsShadow ==
  ASSUME StoreInv, Forwardable, NEW shape \in ReadShapes,
         ReadHitsBufferedWrite(shape.span)
  PROVE  ForwardPayload(shape.span) = Slice(shadow, shape.span)
  <1>. DEFINE span == shape.span
  <1>0. span \in SUBSET Bytes
    BY ShapeTypes
  <1>1. ASSUME NEW b \in span
        PROVE  ForwardPayload(span)[b] = shadow[b]
    <2>. DEFINE writes == {a \in BufferedAddrs :
                             b \in buffered[a].span \cap buffered[a].mask}
                values == {buffered[a].data[b] : a \in writes}
    <2>1. ForwardPayload(span)[b] = IF writes = {} THEN image[b] ELSE Max(values)
      BY <1>1 DEF ForwardPayload
    <2>2. \A a \in BufferedAddrs : buffered[a].mask \subseteq buffered[a].span
      BY DEF StoreInv, DataInv, EntriesAligned, EntryAligned, ShapedAs
    <2>3. CASE writes = {}
      <3>1. \A a \in BufferedAddrs : b \notin buffered[a].mask
        BY <2>2, <2>3
      <3>2. ~Behavioral
        <4>1. SUFFICES ASSUME Behavioral PROVE FALSE
          OBVIOUS
        <4>2. PICK a \in BufferedAddrs : Overlap(span \cap buffered[a].span, buffered[a].mask)
          BY DEF ReadHitsBufferedWrite
        <4>3. PICK v \in WriteShapes :
                ShapedAs(v, buffered[a]) /\ v.mask \subseteq buffered[a].mask
          BY DEF StoreInv, DataInv, EntriesAligned, EntryAligned
        <4>4. Overlap(span, v.span)
          BY <4>2, <4>3 DEF Overlap, ShapedAs
        <4>5. b \in v.mask
          BY <4>1, <4>4 DEF Forwardable, CoveredReads
        <4>. QED BY <3>1, <4>3, <4>5
      <3>3. Settled(b, shadow[b])
        BY <1>0, <3>1 DEF StoreInv, DataInv, StorageNewest
      <3>4. image[b] = shadow[b]
        BY <3>2, <3>3, DirectHoldsNothing
      <3>. QED BY <2>1, <2>3, <3>4
    <2>4. CASE writes # {}
      <3>1. values # {} /\ \A v \in values : v = shadow[b]
        BY <2>4 DEF StoreInv, DataInv, EntriesNewest
      <3>2. values \subseteq Values
        BY StoreFacts, BufferedEntry
      <3>3. Max(values) \in values
        <4>. HIDE DEF values
        <4>. QED BY <3>1, <3>2, MaxInSet, ConstantsAssumption
      <3>. QED BY <2>1, <2>4, <3>1, <3>3
    <2>. QED BY <2>3, <2>4
  <1>. QED BY <1>1 DEF ForwardPayload, Slice

\* A read that finds nothing to forward is owed what the storage will hold.
LEMMA NewReaderOwed ==
  ASSUME StoreInv, NEW span \in SUBSET Bytes, ~ReadHitsBufferedWrite(span),
         NEW r, r.span = span, r.expect = Slice(shadow, span)
  PROVE  OwedTo(r)
  <1>1. \A a \in BufferedAddrs : \A b \in span : b \notin buffered[a].mask
    BY DEF StoreInv, DataInv, EntriesAligned, EntryAligned, ShapedAs,
           ReadHitsBufferedWrite, Overlap
  <1>2. \A b \in span : Settled(b, shadow[b])
    BY <1>1 DEF StoreInv, DataInv, StorageNewest
  <1>3. \A b \in span : r.expect[b] = shadow[b]
    BY DEF Slice
  <1>4. \A w \in QueuedWrites : ~Overlap(span, buffered[w.addr].mask)
    BY <1>1, StoreFacts DEF Overlap
  <1>. QED BY <1>2, <1>3, <1>4 DEF OwedTo, Slice

-----------------------------------------------------------------------------
(* Accepted writes *)

\* What a write makes of its entry: its own bytes, and the older ones.
Absorbs(shape, e) ==
  /\ ShapedAs(shape, e) /\ shape.mask \subseteq e.mask
  /\ \A b \in e.mask :
       e.data[b] = IF b \in shape.mask THEN nextSeq ELSE shadow[b]
  /\ shape.addr \in BufferedAddrs => buffered[shape.addr].mask \subseteq e.mask

LEMMA WriteAbsorbed ==
  ASSUME Aligned, StoreInv, NEW shape \in WriteShapes, NEW e, e # NoWrite,
         Absorbs(shape, e), AcceptIntoShadow(shape), nextSeq' = nextSeq + 1,
         UNCHANGED <<image, phyWrites>>,
         buffered' = [buffered EXCEPT ![shape.addr] = e]
  PROVE  /\ BufferedAddrs' = BufferedAddrs \cup {shape.addr}
         /\ buffered'[shape.addr] = e
         /\ \A a \in BufferedAddrs \ {shape.addr} : buffered'[a] = buffered[a]
         /\ \A a \in BufferedAddrs' : EntryAligned(a)'
         /\ EntriesNewest' /\ StorageNewest' /\ ValuesInOrder'
         /\ \A b, v : Settled(b, v)' <=> Settled(b, v)
  <1>1. /\ BufferedAddrs' = BufferedAddrs \cup {shape.addr}
        /\ buffered'[shape.addr] = e
        /\ \A a \in BufferedAddrs \ {shape.addr} : buffered'[a] = buffered[a]
    <2>1. shape.addr \in Addrs /\ DOMAIN buffered = Addrs
      BY ShapeTypes, StoreFacts DEF TypeOK
    <2>. QED BY <2>1 DEF BufferedAddrs
  <1>2. \A a \in BufferedAddrs' : EntryAligned(a)'
    <2>1. \A a \in BufferedAddrs : EntryAligned(a)
      BY DEF StoreInv, DataInv, EntriesAligned
    <2>2. ShapedAs(shape, e) /\ shape.mask \subseteq e.mask
      BY DEF Absorbs
    <2>. QED BY <1>1, <2>1, <2>2 DEF EntryAligned
  <1>3. shape.mask \subseteq Bytes /\ shape.mask \subseteq shape.span
    BY ShapeTypes
  <1>4. \A b \in Bytes : shadow'[b] = IF b \in shape.mask THEN nextSeq ELSE shadow[b]
    BY DEF AcceptIntoShadow
  <1>5. ASSUME NEW a \in BufferedAddrs \ {shape.addr}
        PROVE  buffered[a].mask \cap shape.mask = {}
    <2>1. PICK v \in WriteShapes : v.addr = a /\ ShapedAs(v, buffered[a])
      BY DEF StoreInv, DataInv, EntriesAligned, EntryAligned
    <2>2. v.span \cap shape.span = {}
      BY <2>1 DEF Aligned, AlignedShapes
    <2>. QED BY <1>3, <2>1, <2>2 DEF ShapedAs
  <1>6. EntriesNewest'
    <2>1. ASSUME NEW b \in e.mask PROVE e.data[b] = shadow'[b]
      <3>1. b \in Bytes
        BY ShapeTypes DEF Absorbs, ShapedAs
      <3>. QED BY <1>4, <3>1 DEF Absorbs
    <2>2. ASSUME NEW a \in BufferedAddrs \ {shape.addr}, NEW b \in buffered[a].mask
          PROVE  buffered[a].data[b] = shadow'[b]
      <3>1. b \in Bytes /\ b \notin shape.mask
        BY <1>5, StoreFacts
      <3>. QED BY <1>4, <3>1 DEF StoreInv, DataInv, EntriesNewest
    <2>. QED BY <1>1, <2>1, <2>2 DEF EntriesNewest
  <1>7. \A b, v : Settled(b, v)' <=> Settled(b, v)
    BY DEF Settled
  <1>8. StorageNewest'
    <2>1. SUFFICES ASSUME NEW b \in Bytes,
                          \A a \in BufferedAddrs' : b \notin buffered'[a].mask
                   PROVE  Settled(b, shadow'[b])
      BY <1>7 DEF StorageNewest
    <2>2. b \notin e.mask
      BY <1>1, <2>1
    <2>3. b \notin shape.mask
      BY <2>2 DEF Absorbs
    <2>4. \A a \in BufferedAddrs : b \notin buffered[a].mask
      BY <1>1, <2>1, <2>2 DEF Absorbs
    <2>. QED BY <1>4, <2>3, <2>4 DEF StoreInv, DataInv, StorageNewest
  <1>9. ValuesInOrder'
    <2>1. ValuesInOrder
      BY DEF StoreInv, DataInv
    <2>2. \A b \in Bytes : shadow[b] <= shadow'[b] /\ shadow'[b] < nextSeq'
                           /\ shadow'[b] \in Int
      BY <1>4, <2>1, StoreNumbers DEF ValuesInOrder
    <2>3. \A b \in Bytes : image[b] <= shadow'[b]
      BY <2>1, <2>2, StoreNumbers DEF ValuesInOrder
    <2>4. \A s \in phyWrites : \A b \in s.mask : s.data[b] <= shadow'[b]
      BY <2>1, <2>2, StoreNumbers DEF ValuesInOrder
    <2>. QED BY <2>1, <2>2, <2>3, <2>4 DEF ValuesInOrder
  <1>. QED BY <1>1, <1>2, <1>6, <1>7, <1>8, <1>9

LEMMA EnqueueAbsorbs ==
  ASSUME Aligned, StoreInv, NEW shape \in WriteShapes,
         shape.addr \notin BufferedAddrs
  PROVE  Absorbs(shape, NewEntry(shape))
  <1>1. shape.mask \subseteq shape.span /\ (~shape.masked => shape.mask = shape.span)
    BY ShapeTypes DEF Aligned, AlignedShapes
  <1>. QED BY <1>1 DEF Absorbs, ShapedAs, NewEntry

LEMMA CoalesceAbsorbs ==
  ASSUME Aligned, StoreInv, NEW shape \in WriteShapes,
         shape.addr \in BufferedAddrs
  PROVE  Absorbs(shape, IF shape.masked THEN MergedEntry(buffered[shape.addr], shape)
                                        ELSE NewEntry(shape))
  <1>. DEFINE old == buffered[shape.addr]
  <1>1. shape.mask \subseteq shape.span /\ (~shape.masked => shape.mask = shape.span)
    BY ShapeTypes DEF Aligned, AlignedShapes
  <1>2. ShapedAs(shape, old)
    <2>1. PICK v \in WriteShapes : v.addr = shape.addr /\ ShapedAs(v, old)
      BY DEF StoreInv, DataInv, EntriesAligned, EntryAligned
    <2>2. v.span = shape.span
      BY <2>1 DEF Aligned, AlignedShapes
    <2>. QED BY <2>1, <2>2 DEF ShapedAs
  <1>3. \A b \in old.mask : old.data[b] = shadow[b]
    BY DEF StoreInv, DataInv, EntriesNewest
  <1>4. CASE ~shape.masked
    BY <1>1, <1>2, <1>4 DEF Absorbs, ShapedAs, NewEntry
  <1>5. CASE shape.masked
    <2>. DEFINE e == MergedEntry(old, shape)
    <2>1. /\ e.span = shape.span
          /\ e.mask = old.mask \cup shape.mask
          /\ e.masked = (e.mask # shape.span)
          /\ DOMAIN e.data = shape.span
          /\ \A b \in shape.span : e.data[b] = IF b \in shape.mask THEN nextSeq
                                               ELSE old.data[b]
      BY <1>1, <1>2 DEF MergedEntry, ShapedAs
    <2>. HIDE DEF e
    <2>2. Absorbs(shape, e)
      BY <1>1, <1>2, <1>3, <2>1 DEF Absorbs, ShapedAs
    <2>. QED BY <1>5, <2>2 DEF e
  <1>. QED BY <1>4, <1>5

\* A new write is newer than every read that waits.
LEMMA EnqueueWriteStore ==
  ASSUME Aligned, StoreInv, NEW shape \in WriteShapes, EnqueueWrite(shape)
  PROVE  DataInv' /\ TransferInv'
  <1>. DEFINE w == [seq |-> nextSeq, type |-> "Write", addr |-> shape.addr,
                    span |-> shape.span, expect |-> NoData]
              e == NewEntry(shape)
  <1>1. /\ shape.addr \notin BufferedAddrs /\ CanAccept /\ AcceptIntoShadow(shape)
        /\ buffered' = [buffered EXCEPT ![shape.addr] = e]
        /\ writeQ' = writeQ \cup {w} /\ nextSeq' = nextSeq + 1
        /\ UNCHANGED <<phase, readQ, activeQ, pending, phyWrites, phyDone, image>>
    BY DEF EnqueueWrite, phyVars
  <1>2. Absorbs(shape, e)
    BY <1>1, EnqueueAbsorbs
  <1>3. e # NoWrite
    BY <1>1, StoreFacts, NewEntryType, NoWriteAssumption
  <1>4. /\ w.type = "Write" /\ w.addr = shape.addr /\ w.span = shape.span
        /\ w.seq = nextSeq
    OBVIOUS
  <1>. HIDE DEF w, e
  <1>5. /\ BufferedAddrs' = BufferedAddrs \cup {shape.addr}
        /\ \A a \in BufferedAddrs \ {shape.addr} : buffered'[a] = buffered[a]
        /\ \A a \in BufferedAddrs' : EntryAligned(a)'
        /\ EntriesNewest' /\ StorageNewest' /\ ValuesInOrder'
        /\ \A b, v : Settled(b, v)' <=> Settled(b, v)
    BY <1>1, <1>2, <1>3, WriteAbsorbed
  <1>6. QueuedWrites' = QueuedWrites \cup {w}
    BY <1>1, <1>4 DEF QueuedWrites
  <1>7. EntriesAligned'
    BY <1>4, <1>5, <1>6 DEF StoreInv, DataInv, EntriesAligned
  <1>8. ReadersOwed'
    <2>1. Readers' = Readers
      BY <1>1 DEF Readers
    <2>2. ASSUME NEW r \in Readers PROVE OwedTo(r)'
      <3>1. OwedTo(r) /\ r.seq < w.seq
        BY <1>4, StoreFacts DEF StoreInv, DataInv, ReadersOwed
      <3>2. \A v \in QueuedWrites : buffered'[v.addr] = buffered[v.addr]
        BY <1>1, <1>5, StoreFacts
      <3>. QED BY <1>5, <1>6, <3>1, <3>2 DEF OwedTo
    <2>. QED BY <2>1, <2>2 DEF ReadersOwed
  <1>9. TransferInv'
    <2>1. Transfers' = Transfers
      BY <1>1 DEF Transfers
    <2>. QED BY <1>1, <2>1, TransfersKept
  <1>. QED BY <1>5, <1>7, <1>8, <1>9 DEF DataInv

\* A write is merged only when no read of its bytes waits.
LEMMA CoalesceWriteStore ==
  ASSUME Aligned, StoreInv, NEW shape \in WriteShapes, CoalesceWrite(shape)
  PROVE  DataInv' /\ TransferInv'
  <1>. DEFINE p == Bypass(shape, "Write", NoData, NoData)
              e == IF shape.masked THEN MergedEntry(buffered[shape.addr], shape)
                                   ELSE NewEntry(shape)
  <1>1. /\ shape.addr \in BufferedAddrs /\ CanAccept /\ AcceptIntoShadow(shape)
        /\ ~UnresolvedRead(shape.span, 0)
        /\ pending' = pending \cup {p} /\ nextSeq' = nextSeq + 1
        /\ UNCHANGED <<phase, readQ, writeQ, activeQ, phyWrites, phyDone, image>>
    BY DEF CoalesceWrite, phyVars
  <1>2. Absorbs(shape, e)
    BY <1>1, CoalesceAbsorbs
  <1>3. e # NoWrite
    BY <1>1, StoreFacts, BufferedEntry, NewEntryType, MergedEntryType, NoWriteAssumption
  <1>4. p.bypass = TRUE /\ p.type = "Write"
    BY DEF Bypass
  <1>5. buffered' = [buffered EXCEPT ![shape.addr] = e]
    BY DEF CoalesceWrite
  <1>. HIDE DEF p, e
  <1>6. /\ BufferedAddrs' = BufferedAddrs \cup {shape.addr}
        /\ buffered'[shape.addr] = e
        /\ \A a \in BufferedAddrs \ {shape.addr} : buffered'[a] = buffered[a]
        /\ \A a \in BufferedAddrs' : EntryAligned(a)'
        /\ EntriesNewest' /\ StorageNewest' /\ ValuesInOrder'
        /\ \A b, v : Settled(b, v)' <=> Settled(b, v)
    BY <1>1, <1>2, <1>3, <1>5, WriteAbsorbed
  <1>7. QueuedWrites' = QueuedWrites
    BY <1>1 DEF QueuedWrites
  <1>8. EntriesAligned'
    BY <1>6, <1>7 DEF StoreInv, DataInv, EntriesAligned
  <1>9. ReadersOwed'
    <2>1. Readers' = Readers
      BY <1>1, <1>4 DEF Readers
    <2>2. ASSUME NEW r \in Readers PROVE OwedTo(r)'
      <3>1. OwedTo(r)
        BY DEF StoreInv, DataInv, ReadersOwed
      <3>2. ~Overlap(r.span, e.mask)
        <4>1. r \in readQ \cup activeQ \cup pending /\ r.type = "Read"
          BY DEF Readers
        <4>2. ~Overlap(shape.span, r.span)
          BY <1>1, <4>1 DEF UnresolvedRead
        <4>. QED BY <1>2, <4>2 DEF Absorbs, ShapedAs, Overlap
      <3>3. ASSUME NEW w \in QueuedWrites, Overlap(r.span, buffered'[w.addr].mask)
            PROVE  r.seq < w.seq
        <4>1. w.addr # shape.addr
          BY <1>6, <3>2, <3>3
        <4>2. buffered'[w.addr] = buffered[w.addr]
          BY <1>6, <4>1, StoreFacts
        <4>. QED BY <3>1, <3>3, <4>2 DEF OwedTo
      <3>. QED BY <1>6, <1>7, <3>1, <3>3 DEF OwedTo
    <2>. QED BY <2>1, <2>2 DEF ReadersOwed
  <1>10. TransferInv'
    <2>1. Transfers' = Transfers
      BY <1>1, <1>4 DEF Transfers
    <2>. QED BY <1>1, <2>1, TransfersKept
  <1>. QED BY <1>6, <1>8, <1>9, <1>10 DEF DataInv

-----------------------------------------------------------------------------
(* The PHY *)

\* A read whose data command was issued meets no write of the PHY: the storage
\* already holds what it expects.
LEMMA IssuedReadMeets ==
  ASSUME StoreInv, NEW p \in Transfers, p.type = "Read"
  PROVE  Slice(image, p.span) = p.expect
  <1>1. p \in Readers
    BY DEF Readers, Transfers
  <1>2. OwedTo(p) /\ \A s \in phyWrites : ~Overlap(s.mask, p.span)
    BY <1>1 DEF StoreInv, DataInv, ReadersOwed, TransferInv, ReadersClear
  <1>3. \A b \in p.span : image[b] = p.expect[b]
    BY <1>2 DEF OwedTo, Settled, Overlap
  <1>4. p.expect \in DataOver(SUBSET Bytes)
    BY StoreFacts DEF Transfers, TypeOK, PendingItems
  <1>5. DOMAIN p.expect = p.span
    BY <1>2 DEF OwedTo
  <1>6. p.expect \in [p.span -> Values]
    BY <1>4, <1>5, DataElim
  <1>. QED BY <1>3, <1>6 DEF Slice

\* What a tick makes of the write FIFO and of the storage.
LEMMA PhyTickWrites ==
  ASSUME StoreInv, PhyTick
  PROVE  /\ \A s \in phyWrites :
              /\ Age(s).seq = s.seq /\ Age(s).mask = s.mask /\ Age(s).data = s.data
              /\ Age(s).wait = s.wait - 1 /\ s.wait \in Nat /\ s.wait >= 1
         /\ phyWrites' = {Age(s) : s \in {x \in phyWrites : x.wait # 1}}
         /\ \A b \in Bytes :
              \/ \E s \in phyWrites :
                   s.wait = 1 /\ b \in s.mask /\ image'[b] = s.data[b]
              \/ /\ image'[b] = image[b]
                 /\ \A s \in phyWrites : s.wait = 1 => b \notin s.mask
  <1>. DEFINE writes == {Age(s) : s \in phyWrites}
  <1>1. \A s \in phyWrites :
          /\ Age(s).seq = s.seq /\ Age(s).mask = s.mask /\ Age(s).data = s.data
          /\ Age(s).wait = s.wait - 1 /\ s.wait \in Nat /\ s.wait >= 1
    <2>1. \A s \in phyWrites : s \in PhyWriteSlots
      BY StoreFacts DEF TypeOK
    <2>2. \A s \in phyWrites : s.wait \in Nat /\ s.wait >= 1
      BY StoreNumbers DEF StoreInv, TransferInv, SlotsInOrder
    <2>. QED BY <2>1, <2>2 DEF Age, PhyWriteSlots
  <1>2. /\ phyWrites' = Waiting(writes)
        /\ image' = [b \in Bytes |->
             IF \E w \in Matured(writes) : b \in w.mask
             THEN (CHOOSE w \in Matured(writes) : b \in w.mask).data[b]
             ELSE image[b]]
    BY DEF PhyTick
  <1>3. phyWrites' = {Age(s) : s \in {x \in phyWrites : x.wait # 1}}
    BY <1>1, <1>2 DEF Waiting
  <1>4. Matured(writes) = {Age(s) : s \in {x \in phyWrites : x.wait = 1}}
    BY <1>1 DEF Matured
  <1>. HIDE DEF writes
  <1>5. ASSUME NEW b \in Bytes
        PROVE  \/ \E s \in phyWrites :
                    s.wait = 1 /\ b \in s.mask /\ image'[b] = s.data[b]
               \/ /\ image'[b] = image[b]
                  /\ \A s \in phyWrites : s.wait = 1 => b \notin s.mask
    <2>1. CASE \E w \in Matured(writes) : b \in w.mask
      <3>. DEFINE w == CHOOSE w \in Matured(writes) : b \in w.mask
      <3>1. w \in Matured(writes) /\ b \in w.mask
        BY <2>1
      <3>2. image'[b] = w.data[b]
        BY <1>2, <2>1
      <3>. HIDE DEF w
      <3>3. PICK s \in phyWrites : s.wait = 1 /\ w = Age(s)
        BY <1>4, <3>1
      <3>. QED BY <1>1, <3>1, <3>2, <3>3
    <2>2. CASE ~\E w \in Matured(writes) : b \in w.mask
      <3>1. image'[b] = image[b]
        BY <1>2, <2>2
      <3>. QED BY <1>1, <1>4, <2>2, <3>1
    <2>. QED BY <2>1, <2>2
  <1>. QED BY <1>1, <1>3, <1>5

\* Committing the oldest write changes nothing of what the storage will hold.
LEMMA TickSettles ==
  ASSUME StoreInv, PhyTick, NEW b \in Bytes, NEW v, Settled(b, v)
  PROVE  Settled(b, v)'
  <1>1. \A s, t \in phyWrites : s.wait = t.wait => s = t
    BY DEF StoreInv, TransferInv, SlotsInOrder
  <1>2. CASE image[b] = v /\ \A s \in phyWrites : b \notin s.mask
    BY <1>2, PhyTickWrites DEF Settled
  <1>3. CASE \E s \in phyWrites :
               /\ b \in s.mask /\ s.data[b] = v
               /\ \A t \in phyWrites : b \in t.mask => t.wait <= s.wait
    <2>1. PICK s \in phyWrites :
            /\ b \in s.mask /\ s.data[b] = v
            /\ \A t \in phyWrites : b \in t.mask => t.wait <= s.wait
      BY <1>3
    <2>2. CASE s.wait = 1
      <3>1. \A t \in phyWrites : b \in t.mask => t = s
        BY <1>1, <2>1, <2>2, PhyTickWrites
      <3>2. image'[b] = v
        BY <2>1, <2>2, <3>1, PhyTickWrites
      <3>3. \A t \in phyWrites' : b \notin t.mask
        BY <2>2, <3>1, PhyTickWrites
      <3>. QED BY <3>2, <3>3 DEF Settled
    <2>3. CASE s.wait # 1
      <3>1. Age(s) \in phyWrites' /\ b \in Age(s).mask /\ Age(s).data[b] = v
        BY <2>1, <2>3, PhyTickWrites
      <3>2. \A t \in phyWrites' : b \in t.mask => t.wait <= Age(s).wait
        BY <2>1, PhyTickWrites
      <3>. QED BY <3>1, <3>2 DEF Settled
    <2>. QED BY <2>2, <2>3
  <1>. QED BY <1>2, <1>3 DEF Settled

LEMMA PhyTickData ==
  ASSUME StoreInv, PhyTick, ReadsFollow
  PROVE  DataInv'
  <1>1. UNCHANGED <<nextSeq, buffered, readQ, writeQ, activeQ, shadow>>
    BY DEF PhyTick, queueVars
  <1>2. BufferedAddrs' = BufferedAddrs /\ QueuedWrites' = QueuedWrites
    BY <1>1 DEF BufferedAddrs, QueuedWrites
  <1>3. EntriesAligned' /\ EntriesNewest'
    BY <1>1, <1>2 DEF StoreInv, DataInv, EntriesAligned, EntryAligned, EntriesNewest,
                      ShapedAs
  <1>4. StorageNewest'
    <2>1. \A b \in Bytes : Settled(b, shadow[b]) => Settled(b, shadow[b])'
      <3>1. ASSUME NEW b \in Bytes, NEW v, v = shadow[b], Settled(b, v)
            PROVE  Settled(b, v)' /\ shadow'[b] = v
        BY <1>1, <3>1, TickSettles
      <3>. QED BY <1>1, <3>1 DEF Settled
    <2>. QED BY <1>1, <1>2, <2>1 DEF StoreInv, DataInv, StorageNewest
  <1>5. ValuesInOrder'
    <2>1. ValuesInOrder
      BY DEF StoreInv, DataInv
    <2>2. \A b \in Bytes : image'[b] <= shadow[b]
      BY <2>1, PhyTickWrites DEF ValuesInOrder
    <2>3. ASSUME NEW t \in phyWrites', NEW b \in t.mask
          PROVE  image'[b] <= t.data[b] /\ t.data[b] <= shadow[b]
      <3>1. PICK s \in phyWrites : s.wait # 1 /\ t = Age(s)
        BY PhyTickWrites
      <3>2. b \in s.mask /\ t.data[b] = s.data[b] /\ b \in Bytes
        BY <3>1, PhyTickWrites, StoreNumbers
      <3>3. image[b] <= s.data[b] /\ s.data[b] <= shadow[b]
        BY <2>1, <3>2 DEF ValuesInOrder
      <3>4. \A u \in phyWrites : u.wait = 1 /\ b \in u.mask => u.data[b] <= s.data[b]
        BY <2>1, <3>2, PhyTickWrites DEF ValuesInOrder
      <3>. QED BY <3>2, <3>3, <3>4, PhyTickWrites
    <2>4. ASSUME NEW t \in phyWrites', NEW u \in phyWrites', NEW b \in t.mask \cap u.mask,
                 t.wait <= u.wait
          PROVE  t.data[b] <= u.data[b]
      <3>1. PICK s \in phyWrites : t = Age(s)
        BY PhyTickWrites
      <3>2. PICK r \in phyWrites : u = Age(r)
        BY PhyTickWrites
      <3>3. s.wait <= r.wait /\ b \in s.mask \cap r.mask
        BY <2>4, <3>1, <3>2, PhyTickWrites
      <3>4. s.data[b] <= r.data[b]
        BY <2>1, <3>3 DEF ValuesInOrder
      <3>. QED BY <3>1, <3>2, <3>4, PhyTickWrites
    <2>. QED BY <1>1, <2>1, <2>2, <2>3, <2>4 DEF ValuesInOrder
  <1>6. ASSUME NEW x \in Readers' PROVE OwedTo(x)'
    <2>1. PICK y \in Readers : /\ y.seq = x.seq /\ y.span = x.span
                               /\ y.expect = x.expect
      <3>1. nextSeq \in Nat
        BY StoreNumbers
      <3>. QED BY <1>1, <3>1 DEF ReadsFollow, Accepted, Recalled
    <2>2. OwedTo(y) /\ y.span \subseteq Bytes
      BY StoreFacts DEF StoreInv, DataInv, ReadersOwed
    <2>3. \A b \in x.span : Settled(b, x.expect[b])'
      <3>1. ASSUME NEW b \in x.span, NEW v, v = x.expect[b]
            PROVE  Settled(b, v)'
        <4>1. Settled(b, v) /\ b \in Bytes
          BY <2>1, <2>2, <3>1 DEF OwedTo
        <4>. QED BY <4>1, TickSettles
      <3>. QED BY <3>1
    <2>. QED BY <1>1, <1>2, <2>1, <2>2, <2>3 DEF OwedTo
  <1>. QED BY <1>3, <1>4, <1>5, <1>6 DEF DataInv, ReadersOwed

\* A read that is ready samples what it expects, before any write commits.
LEMMA PhyTickTransfers ==
  ASSUME StoreInv, PhyTick
  PROVE  TransferInv'
  <1>1. pending' = {Age(p) : p \in pending}
    BY DEF PhyTick
  <1>2. \A p \in pending : /\ Age(p).seq = p.seq /\ Age(p).type = p.type
                           /\ Age(p).span = p.span /\ Age(p).bypass = p.bypass
                           /\ Age(p).expect = p.expect
    BY StoreFacts, AgedItem
  <1>3. Transfers' = {Age(p) : p \in Transfers}
    BY <1>1, <1>2 DEF Transfers
  <1>4. SlotsInOrder'
    <2>1. \A s \in phyWrites : s.wait \in 1 .. WriteLatency
      BY DEF StoreInv, TransferInv, SlotsInOrder
    <2>2. \A s, t \in phyWrites : s.wait = t.wait => s = t
      BY DEF StoreInv, TransferInv, SlotsInOrder
    <2>3. \A t \in phyWrites' : t.wait \in 1 .. WriteLatency /\ t.wait # WriteLatency
      BY <2>1, PhyTickWrites, StoreNumbers
    <2>4. \A t, u \in phyWrites' : t.wait = u.wait => t = u
      BY <2>2, PhyTickWrites
    <2>. QED BY <2>3, <2>4 DEF SlotsInOrder
  <1>5. SlotsPending'
    <2>1. SUFFICES ASSUME NEW t \in phyWrites'
                   PROVE  \E p \in Transfers' :
                            p.type = "Write" /\ p.seq = t.seq /\ t.mask \subseteq p.span
      BY DEF SlotsPending
    <2>2. PICK s \in phyWrites : t.seq = s.seq /\ t.mask = s.mask
      BY PhyTickWrites
    <2>3. PICK p \in Transfers : p.type = "Write" /\ p.seq = s.seq /\ s.mask \subseteq p.span
      BY DEF StoreInv, TransferInv, SlotsPending
    <2>. QED BY <1>2, <1>3, <2>2, <2>3 DEF Transfers
  <1>6. ASSUME NEW p \in Transfers, p.type = "Read"
        PROVE  /\ \A t \in phyWrites' : ~Overlap(t.mask, p.span)
               /\ \A d \in phyDone' : d.seq = p.seq => d.data = p.expect
    <2>1. /\ \A s \in phyWrites : ~Overlap(s.mask, p.span)
          /\ \A d \in phyDone : d.seq = p.seq => d.data = p.expect
      BY <1>6 DEF StoreInv, TransferInv, ReadersClear
    <2>2. \A t \in phyWrites' : ~Overlap(t.mask, p.span)
      BY <2>1, PhyTickWrites
    <2>3. \A q \in Transfers : q.seq = p.seq => q = p
      BY DEF StoreInv, PlaceInv, ExactlyOnePlace, Unique, Transfers
    <2>4. ASSUME NEW x \in phyReads, x.seq = p.seq
          PROVE  x.span = p.span
      BY <2>3, <2>4 DEF StoreInv, PhyInv, Known
    <2>5. ASSUME NEW x \in phyWrites
          PROVE  x.seq # p.seq
      BY <1>6, <2>3 DEF StoreInv, TransferInv, SlotsPending
    <2>6. \A x \in phyReads : Age(x).seq = x.seq /\ Age(x).span = x.span
      BY StoreFacts DEF TypeOK, PhyReadSlots, Age
    <2>7. ASSUME NEW d \in phyDone', d.seq = p.seq, d \notin phyDone
          PROVE  d.data = p.expect
      <3>1. \/ \E s \in Matured({Age(x) : x \in phyReads}) :
                 d = [seq |-> s.seq, data |-> Slice(image, s.span)]
            \/ \E s \in Matured({Age(x) : x \in phyWrites}) : d.seq = s.seq
        <4>. DEFINE ready == Matured({Age(x) : x \in phyReads})
                    done == Matured({Age(x) : x \in phyWrites})
        <4>1. phyDone' = phyDone
                \cup {[seq |-> s.seq, data |-> Slice(image, s.span)] : s \in ready}
                \cup {[seq |-> s.seq, data |-> NoData] : s \in done}
          BY DEF PhyTick
        <4>. HIDE DEF ready, done
        <4>2. \/ d \in {[seq |-> s.seq, data |-> Slice(image, s.span)] : s \in ready}
              \/ d \in {[seq |-> s.seq, data |-> NoData] : s \in done}
          BY <2>7, <4>1
        <4>3. (\E s \in ready : d = [seq |-> s.seq, data |-> Slice(image, s.span)])
              \/ (\E s \in done : d.seq = s.seq)
          BY <4>2
        <4>. QED BY <4>3 DEF ready, done
      <3>2. \A s \in Matured({Age(x) : x \in phyWrites}) : s.seq # p.seq
        BY <2>5, PhyTickWrites DEF Matured
      <3>3. PICK s \in Matured({Age(x) : x \in phyReads}) :
              d = [seq |-> s.seq, data |-> Slice(image, s.span)]
        BY <2>7, <3>1, <3>2
      <3>4. PICK x \in phyReads : s = Age(x)
        BY <3>3 DEF Matured
      <3>5. s.span = p.span
        BY <2>4, <2>6, <2>7, <3>3, <3>4
      <3>. QED BY <1>6, <3>3, <3>5, IssuedReadMeets
    <2>. QED BY <2>1, <2>2, <2>7
  <1>7. ReadersClear'
    BY <1>2, <1>3, <1>6 DEF ReadersClear, Transfers
  <1>. QED BY <1>4, <1>5, <1>7 DEF TransferInv

\* An answered transfer has left the PHY.
LEMMA CompleteTransfers ==
  ASSUME StoreInv, CompletePending
  PROVE  TransferInv'
  <1>1. PICK done \in SUBSET {p \in pending : Finished(p)} :
          pending' = pending \ done /\ phyDone' \subseteq phyDone
    BY DEF CompletePending
  <1>2. phase = "complete" /\ phyWrites' = phyWrites
    BY DEF CompletePending
  <1>3. ASSUME NEW s \in phyWrites, NEW p \in Transfers, p.seq = s.seq
        PROVE  p \in Transfers'
    <2>1. Behavioral
      BY DirectHoldsNothing
    <2>2. s.seq \notin Seqs(phyDone)
      BY <2>1 DEF StoreInv, PhyInv, PhyMatchesPending, Seqs
    <2>3. ~Finished(p)
      BY <1>3, <2>1, <2>2 DEF Finished, PhyHas, Seqs, Transfers
    <2>. QED BY <1>1, <2>3 DEF Transfers
  <1>4. Transfers' \subseteq Transfers
    BY <1>1 DEF Transfers
  <1>5. SlotsInOrder'
    BY <1>2 DEF StoreInv, TransferInv, SlotsInOrder
  <1>6. SlotsPending'
    BY <1>2, <1>3 DEF StoreInv, TransferInv, SlotsPending
  <1>7. ReadersClear'
    BY <1>1, <1>2, <1>4 DEF StoreInv, TransferInv, ReadersClear
  <1>. QED BY <1>5, <1>6, <1>7 DEF TransferInv

-----------------------------------------------------------------------------
(* Data commands *)

\* The data command of a write hands its entry e to the PHY or commits it.
HandsOver(e) ==
  /\ image' = image
  /\ \E n : /\ phyWrites' = phyWrites \cup {n}
            /\ n.mask = e.mask /\ n.data = e.data /\ n.wait = WriteLatency
Commits(e) ==
  /\ phyWrites = {} /\ phyWrites' = {}
  /\ \A b \in Bytes : image'[b] = IF b \in e.mask THEN e.data[b] ELSE image[b]

\* An entry reaches the storage, or the PHY, when no older read of its bytes
\* waits, and as the last of the writes on their way.
LEMMA RetireWriteStore ==
  ASSUME Aligned, StoreInv, ReadsFollow, UNCHANGED <<nextSeq, shadow, phyDone>>,
         NEW r \in QueuedWrites, Eligible(r, TRUE), RetireWrite(r),
         phase \notin {"idle", "row"}, phase' \in {"idle", "row"},
         QueuedWrites' = QueuedWrites \ {r}
  PROVE  DataInv' /\ TransferInv'
  <1>. PICK e : e = buffered[r.addr]
    OBVIOUS
  <1>1. /\ r.addr \in BufferedAddrs /\ r.type = "Write"
        /\ \A w \in QueuedWrites : w.addr \in BufferedAddrs
        /\ \A w \in QueuedWrites' : w.addr # r.addr
    BY StoreFacts DEF QueuedWrites
  <1>2. buffered' = [buffered EXCEPT ![r.addr] = NoWrite]
    BY DEF RetireWrite
  <1>3. DOMAIN image = Bytes /\ DOMAIN buffered = Addrs
    BY StoreFacts DEF TypeOK
  <1>4. /\ BufferedAddrs' = BufferedAddrs \ {r.addr}
        /\ \A a \in BufferedAddrs' : buffered'[a] = buffered[a]
    BY <1>2, <1>3 DEF BufferedAddrs
  <1>5. PICK p : /\ pending' = pending \cup {p} /\ p.seq = r.seq
                 /\ p.type = "Write" /\ p.span = r.span /\ p.bypass = FALSE
    BY <1>1, RetiredItem DEF Retire
  <1>6. e.mask \subseteq r.span /\ e.mask \subseteq Bytes
    <2>1. PICK u \in WriteShapes : u.addr = r.addr /\ ShapedAs(u, e)
      BY <1>1 DEF StoreInv, DataInv, EntriesAligned, EntryAligned
    <2>2. PICK v \in WriteShapes : v.addr = r.addr /\ v.span = r.span
      BY DEF StoreInv, DataInv, EntriesAligned
    <2>3. u.span = v.span
      BY <2>1, <2>2 DEF Aligned, AlignedShapes
    <2>. QED BY <1>1, <2>1, <2>2, <2>3, StoreFacts DEF ShapedAs
  <1>7. \A b \in e.mask : e.data[b] = shadow[b]
    BY <1>1 DEF StoreInv, DataInv, EntriesNewest
  <1>8. \A s \in phyWrites : s.wait < WriteLatency
    BY StoreNumbers DEF StoreInv, TransferInv, SlotsInOrder
  <1>9. /\ HandsOver(e) \/ Commits(e)
        /\ \A s \in phyWrites' : s \in phyWrites \/ (s.seq = r.seq /\ s.mask = e.mask)
    <2>1. CASE Behavioral
      <3>1. PICK n : n = [seq |-> r.seq, mask |-> e.mask, data |-> e.data,
                          wait |-> WriteLatency]
        OBVIOUS
      <3>2. image' = image /\ phyWrites' = phyWrites \cup {n}
        BY <2>1, <3>1 DEF RetireWrite
      <3>3. /\ n.seq = r.seq /\ n.mask = e.mask /\ n.data = e.data
            /\ n.wait = WriteLatency
        BY <3>1
      <3>. QED BY <3>2, <3>3 DEF HandsOver
    <2>2. CASE ~Behavioral
      <3>1. image' = Overwrite(image, e.mask, e.data) /\ phyWrites' = phyWrites
        BY <2>2 DEF RetireWrite
      <3>2. phyWrites = {}
        BY <2>2, DirectHoldsNothing
      <3>. QED BY <1>3, <3>1, <3>2 DEF Overwrite, Commits
    <2>. QED BY <2>1, <2>2
  <1>10. ASSUME NEW b \in Bytes, NEW v,
                IF b \in e.mask THEN v = e.data[b] ELSE Settled(b, v)
         PROVE  Settled(b, v)'
    <2>1. CASE HandsOver(e)
      <3>1. PICK n : /\ phyWrites' = phyWrites \cup {n}
                     /\ n.mask = e.mask /\ n.data = e.data
                     /\ n.wait = WriteLatency
        BY <2>1 DEF HandsOver
      <3>2. CASE b \in e.mask
        <4>1. \A t \in phyWrites' : t.wait <= n.wait
          BY <1>8, <3>1, StoreNumbers
        <4>2. n \in phyWrites' /\ b \in n.mask /\ n.data[b] = v
          BY <1>10, <3>1, <3>2
        <4>. QED BY <4>1, <4>2 DEF Settled
      <3>3. CASE b \notin e.mask
        <4>1. Settled(b, v) /\ image' = image
          BY <1>10, <2>1, <3>3 DEF HandsOver
        <4>. QED BY <3>1, <3>3, <4>1 DEF Settled
      <3>. QED BY <3>2, <3>3
    <2>2. CASE Commits(e)
      BY <1>10, <2>2 DEF Settled, Commits
    <2>. QED BY <1>9, <2>1, <2>2
  <1>11. EntriesAligned' /\ EntriesNewest'
    BY <1>4 DEF StoreInv, DataInv, EntriesAligned, EntryAligned, EntriesNewest, ShapedAs
  <1>12. StorageNewest'
    <2>1. ASSUME NEW b \in Bytes, NEW v, v = shadow[b],
                 \A a \in BufferedAddrs' : b \notin buffered'[a].mask
          PROVE  Settled(b, v)'
      <3>1. CASE b \in e.mask
        BY <1>7, <1>10, <2>1, <3>1
      <3>2. CASE b \notin e.mask
        <4>1. \A a \in BufferedAddrs : b \notin buffered[a].mask
          BY <1>4, <2>1, <3>2
        <4>2. Settled(b, v)
          BY <2>1, <4>1 DEF StoreInv, DataInv, StorageNewest
        <4>. QED BY <1>10, <3>2, <4>2
      <3>. QED BY <3>1, <3>2
    <2>. QED BY <2>1 DEF StorageNewest
  <1>13. ValuesInOrder'
    <2>1. ValuesInOrder
      BY DEF StoreInv, DataInv
    <2>2. CASE HandsOver(e)
      <3>0. image' = image
        BY <2>2 DEF HandsOver
      <3>1. PICK n : /\ phyWrites' = phyWrites \cup {n}
                     /\ n.mask = e.mask /\ n.data = e.data
                     /\ n.wait = WriteLatency
        BY <2>2 DEF HandsOver
      <3>2. \A b \in n.mask : n.data[b] = shadow[b] /\ b \in Bytes
        BY <1>6, <1>7, <3>1
      <3>3. \A b \in n.mask : image[b] <= n.data[b] /\ n.data[b] <= shadow[b]
        BY <2>1, <3>2, StoreNumbers DEF ValuesInOrder
      <3>4. \A s \in phyWrites : \A b \in s.mask \cap n.mask :
              s.data[b] <= n.data[b] /\ ~(n.wait <= s.wait)
        BY <1>8, <2>1, <3>1, <3>2, StoreNumbers DEF ValuesInOrder
      <3>5. \A s, t \in phyWrites' : \A b \in s.mask \cap t.mask :
              s.wait <= t.wait => s.data[b] <= t.data[b]
        <4>1. \A b \in n.mask : n.data[b] <= n.data[b]
          BY <3>2, StoreNumbers
        <4>. QED BY <2>1, <3>1, <3>4, <4>1 DEF ValuesInOrder
      <3>6. \A s \in phyWrites' : \A b \in s.mask :
              image'[b] <= s.data[b] /\ s.data[b] <= shadow'[b]
        BY <2>1, <3>0, <3>1, <3>3 DEF ValuesInOrder
      <3>. QED BY <2>1, <3>0, <3>5, <3>6 DEF ValuesInOrder
    <2>3. CASE Commits(e)
      <3>1. \A b \in Bytes : image'[b] <= shadow[b]
        BY <1>7, <2>1, <2>3, StoreNumbers DEF ValuesInOrder, Commits
      <3>. QED BY <2>1, <2>3, <3>1 DEF ValuesInOrder, Commits
    <2>. QED BY <1>9, <2>2, <2>3
  <1>14. \A y \in Readers : ~Overlap(y.span, e.mask)
    <2>1. SUFFICES ASSUME NEW y \in Readers, Overlap(y.span, e.mask) PROVE FALSE
      OBVIOUS
    <2>2. y.seq < r.seq
      BY <2>1 DEF StoreInv, DataInv, ReadersOwed, OwedTo
    <2>3. Overlap(r.span, y.span)
      BY <1>6, <2>1 DEF Overlap
    <2>4. y \in readQ \cup activeQ \cup pending /\ y.type = "Read"
      BY DEF Readers
    <2>. QED BY <1>1, <2>2, <2>3, <2>4 DEF Eligible, UnresolvedRead
  <1>15. ASSUME NEW x \in Readers' PROVE OwedTo(x)'
    <2>1. PICK y \in Readers : /\ y.seq = x.seq /\ y.span = x.span
                               /\ y.expect = x.expect
      BY StoreNumbers DEF ReadsFollow, Accepted, Recalled
    <2>2. OwedTo(y) /\ y.span \subseteq Bytes
      BY StoreFacts DEF StoreInv, DataInv, ReadersOwed
    <2>3. \A b \in x.span : Settled(b, x.expect[b])'
      <3>1. ASSUME NEW b \in x.span, NEW v, v = x.expect[b]
            PROVE  Settled(b, v)'
        <4>1. Settled(b, v) /\ b \in Bytes /\ b \notin e.mask
          BY <1>14, <2>1, <2>2, <3>1 DEF OwedTo, Overlap
        <4>. QED BY <1>10, <4>1
      <3>. QED BY <3>1
    <2>4. \A w \in QueuedWrites' : buffered'[w.addr] = buffered[w.addr]
      BY <1>1, <1>4
    <2>. QED BY <2>1, <2>2, <2>3, <2>4 DEF OwedTo
  <1>16. Transfers' = Transfers \cup {p}
    BY <1>5 DEF Transfers
  <1>17. SlotsInOrder'
    <2>1. CASE Commits(e)
      BY <2>1 DEF SlotsInOrder, Commits
    <2>2. CASE HandsOver(e)
      <3>1. PICK n : phyWrites' = phyWrites \cup {n} /\ n.wait = WriteLatency
        BY <2>2 DEF HandsOver
      <3>. QED BY <1>8, <3>1, StoreNumbers DEF StoreInv, TransferInv, SlotsInOrder
    <2>. QED BY <1>9, <2>1, <2>2
  <1>18. SlotsPending'
    BY <1>5, <1>6, <1>9, <1>16 DEF StoreInv, TransferInv, SlotsPending
  <1>19. ReadersClear'
    <2>1. ASSUME NEW q \in Transfers, q.type = "Read"
          PROVE  \A s \in phyWrites' : ~Overlap(s.mask, q.span)
      <3>1. ~Overlap(q.span, e.mask)
        BY <1>14, <2>1 DEF Readers, Transfers
      <3>2. \A s \in phyWrites : ~Overlap(s.mask, q.span)
        BY <2>1 DEF StoreInv, TransferInv, ReadersClear
      <3>. QED BY <1>9, <3>1, <3>2 DEF Overlap
    <2>. QED BY <1>5, <1>16, <2>1 DEF StoreInv, TransferInv, ReadersClear
  <1>. QED BY <1>11, <1>12, <1>13, <1>15, <1>17, <1>18, <1>19
           DEF DataInv, ReadersOwed, TransferInv

\* A read is issued when no write it would overtake is in the PHY.
LEMMA RetireReadStore ==
  ASSUME StoreInv, ReadsFollow, UNCHANGED <<nextSeq, shadow, phyDone>>,
         NEW r \in Queued, r.type = "Read", Eligible(r, TRUE), RetireRead(r),
         phase' \in {"idle", "row"}, QueuedWrites' \subseteq QueuedWrites
  PROVE  DataInv' /\ TransferInv'
  <1>1. PICK p : /\ pending' = pending \cup {p} /\ p.seq = r.seq
                 /\ p.type = "Read" /\ p.span = r.span /\ p.bypass = FALSE
    BY RetiredItem DEF Retire
  <1>2. UNCHANGED <<buffered, image, phyWrites>>
    BY DEF RetireRead
  <1>3. DataInv'
    <2>1. \A x \in Readers' : Recalled(x, Readers)
      BY StoreNumbers DEF ReadsFollow, Accepted
    <2>. QED BY <1>2, <2>1, DataKept
  <1>4. Transfers' = Transfers \cup {p}
    BY <1>1 DEF Transfers
  <1>5. \A s \in phyWrites : ~Overlap(s.mask, p.span)
    <2>1. SUFFICES ASSUME NEW s \in phyWrites, Overlap(s.mask, p.span) PROVE FALSE
      OBVIOUS
    <2>2. PICK q \in Transfers : q.type = "Write" /\ s.mask \subseteq q.span
      BY DEF StoreInv, TransferInv, SlotsPending
    <2>3. Overlap(r.span, q.span) /\ q \in pending
      BY <1>1, <2>1, <2>2 DEF Overlap, Transfers
    <2>4. UnresolvedWrite(r.span)
      BY <2>2, <2>3 DEF UnresolvedWrite
    <2>5. Behavioral
      BY <2>1, DirectHoldsNothing
    <2>. QED BY <2>4, <2>5 DEF Eligible
  <1>6. \A d \in phyDone : d.seq # p.seq
    <2>1. SUFFICES ASSUME NEW d \in phyDone, d.seq = p.seq PROVE FALSE
      OBVIOUS
    <2>2. Behavioral
      BY <2>1 DEF StoreInv, PhyInv
    <2>3. d.seq \in Seqs(phyDone)
      BY DEF Seqs
    <2>4. \E q \in pending : q.seq = d.seq
      BY <2>2, <2>3 DEF StoreInv, PhyInv, PhyMatchesPending, Seqs
    <2>. QED BY <1>1, <2>1, <2>4 DEF StoreInv, PlaceInv, ExactlyOnePlace, Apart
  <1>7. TransferInv'
    BY <1>1, <1>2, <1>4, <1>5, <1>6
       DEF StoreInv, TransferInv, SlotsInOrder, SlotsPending, ReadersClear
  <1>. QED BY <1>3, <1>7

\* The data command of a request, from whichever queue it comes.
LEMMA IssueStore ==
  ASSUME Aligned, StoreInv, ReadsFollow, UNCHANGED <<nextSeq, shadow, phyDone>>,
         NEW r \in Queued, CanIssueData(r), NextBus, Retire(r),
         QueuedWrites' = QueuedWrites \ {r}
  PROVE  DataInv' /\ TransferInv'
  <1>1. r.type \in {"Read", "Write"}
    BY StoreFacts DEF TypeOK, Requests, Queued
  <1>2. /\ Eligible(r, TRUE) /\ phase \notin {"idle", "row"}
        /\ phase' \in {"idle", "row"}
    BY DEF CanIssueData, NextBus
  <1>3. CASE r.type = "Read"
    BY <1>2, <1>3, RetireReadStore DEF Retire
  <1>4. CASE r.type = "Write"
    <2>1. r \in QueuedWrites /\ RetireWrite(r)
      BY <1>4, StoreFacts DEF Queued, QueuedWrites, TypeOK, Retire
    <2>. QED BY <1>2, <2>1, RetireWriteStore
  <1>. QED BY <1>1, <1>3, <1>4

-----------------------------------------------------------------------------
(* The invariant *)

LEMMA StoreInvStep ==
  ASSUME Aligned, StoreInv, [Next]_vars
  PROVE  StoreInv'
  <1>1. PlaceInv /\ PlaceInv' /\ PhyInv' /\ ReadsFollow
    BY PlaceInvStep, PhyInvStep, StepFollows DEF StoreInv
  <1>. SUFFICES DataInv' /\ TransferInv'
    BY <1>1 DEF StoreInv
  <1>2. ASSUME nextSeq' = nextSeq
        PROVE  \A x \in Readers' : Recalled(x, Readers)
    BY <1>1, <1>2, UsedSeqs DEF ReadsFollow, Accepted
  <1>3. ASSUME NEW shape \in ReadShapes, ForwardRead(shape)
        PROVE  DataInv' /\ TransferInv'
    <2>. PICK p : p = Bypass(shape, "Read", ForwardPayload(shape.span),
                             Slice(shadow, shape.span))
      OBVIOUS
    <2>1. /\ UNCHANGED <<phase, buffered, image, shadow, readQ, writeQ, activeQ,
                         phyWrites, phyDone>>
          /\ pending' = pending \cup {p} /\ nextSeq' = nextSeq + 1
      BY <1>3 DEF ForwardRead, queueVars, phyVars
    <2>2. p.bypass = TRUE /\ p.type = "Read"
      BY DEF Bypass
    <2>3. Readers' = Readers /\ QueuedWrites' = QueuedWrites /\ Transfers' = Transfers
      BY <2>1, <2>2 DEF Readers, QueuedWrites, Transfers
    <2>4. \A x \in Readers' : Recalled(x, Readers)
      BY <2>3 DEF Recalled, Readers
    <2>. QED BY <2>1, <2>3, <2>4, DataKept, TransfersKept
  <1>4. ASSUME NEW shape \in ReadShapes, EnqueueRead(shape)
        PROVE  DataInv' /\ TransferInv'
    <2>. PICK x : x = [seq |-> nextSeq, type |-> "Read", addr |-> shape.addr,
                       span |-> shape.span,
                       expect |-> Slice(shadow, shape.span)]
      OBVIOUS
    <2>1. /\ UNCHANGED <<phase, buffered, image, shadow, writeQ, activeQ, pending,
                         phyWrites, phyDone>>
          /\ readQ' = readQ \cup {x} /\ ~ReadHitsBufferedWrite(shape.span)
          /\ nextSeq' = nextSeq + 1
      BY <1>4 DEF EnqueueRead, phyVars
    <2>2. x.type = "Read" /\ x.span = shape.span /\ x.expect = Slice(shadow, shape.span)
      OBVIOUS
    <2>3. QueuedWrites' = QueuedWrites /\ Transfers' = Transfers
      BY <2>1 DEF QueuedWrites, Transfers
    <2>4. OwedTo(x)'
      <3>1. OwedTo(x)
        BY <2>1, <2>2, NewReaderOwed, ShapeTypes
      <3>. QED BY <2>1, <2>3, <3>1 DEF OwedTo, Settled
    <2>5. \A y \in Readers' : y \in Readers \/ y = x
      BY <2>1 DEF Readers
    <2>6. \A y \in Readers' : Recalled(y, Readers) \/ OwedTo(y)'
      <3>1. \A y \in Readers : Recalled(y, Readers)
        BY DEF Recalled, Readers
      <3>. QED BY <2>4, <2>5, <3>1
    <2>. QED BY <2>1, <2>3, <2>6, DataKept, TransfersKept
  <1>5. CASE PhyTick
    BY <1>1, <1>5, PhyTickData, PhyTickTransfers
  <1>6. CASE CompletePending
    <2>1. UNCHANGED <<nextSeq, buffered, image, shadow, writeQ, activeQ, phyWrites>>
      BY <1>6 DEF CompletePending, queueVars
    <2>2. QueuedWrites' = QueuedWrites
      BY <2>1 DEF QueuedWrites
    <2>. QED BY <1>2, <1>6, <2>1, <2>2, DataKept, CompleteTransfers
  <1>7. ASSUME NEW r \in activeQ, IssueActive(r)
        PROVE  DataInv' /\ TransferInv'
    <2>1. /\ CanIssueData(r) /\ NextBus /\ Retire(r) /\ activeQ' = activeQ \ {r}
          /\ UNCHANGED <<nextSeq, writeQ, shadow, phyDone>>
      BY <1>7 DEF IssueActive
    <2>2. r \notin writeQ
      BY <1>1 DEF PlaceInv, QueueInv, ExactlyOnePlace
    <2>3. QueuedWrites' = QueuedWrites \ {r}
      BY <2>1, <2>2 DEF QueuedWrites
    <2>4. r \in Queued
      BY DEF Queued
    <2>. QED BY <1>1, <2>1, <2>3, <2>4, IssueStore
  <1>8. ASSUME NEW r \in readQ \cup writeQ, IssueQueued(r)
        PROVE  DataInv' /\ TransferInv'
    <2>1. /\ CanIssueData(r) /\ NextBus /\ Retire(r) /\ writeQ' = writeQ \ {r}
          /\ UNCHANGED <<nextSeq, activeQ, shadow, phyDone>>
      BY <1>8 DEF IssueQueued
    <2>2. r \notin activeQ
      BY <1>1 DEF PlaceInv, QueueInv, ExactlyOnePlace
    <2>3. QueuedWrites' = QueuedWrites \ {r}
      BY <2>1, <2>2 DEF QueuedWrites
    <2>4. r \in Queued
      BY DEF Queued
    <2>. QED BY <1>1, <2>1, <2>3, <2>4, IssueStore
  <1>9. ASSUME UNCHANGED <<nextSeq, buffered, image, shadow, pending, phyWrites, phyDone>>,
               QueuedWrites' = QueuedWrites,
               phase \in {"idle", "row"} => phase' \in {"idle", "row"}
        PROVE  DataInv' /\ TransferInv'
    <2>1. Transfers' = Transfers
      BY <1>9 DEF Transfers
    <2>. QED BY <1>2, <1>9, <2>1, DataKept, TransfersKept
  <1>10. ASSUME NEW r \in readQ \cup writeQ, Promote(r)
         PROVE  DataInv' /\ TransferInv'
    <2>1. /\ UNCHANGED <<nextSeq, buffered, image, shadow, pending, phyWrites, phyDone>>
          /\ writeQ' = writeQ \ {r} /\ activeQ' = activeQ \cup {r} /\ NextBus
      BY <1>10 DEF Promote, phyVars
    <2>2. r.type = "Write" => r \in writeQ
      BY StoreFacts DEF TypeOK
    <2>3. QueuedWrites' = QueuedWrites
      BY <2>1, <2>2 DEF QueuedWrites
    <2>4. phase' \in {"idle", "row"}
      BY <2>1 DEF NextBus
    <2>. QED BY <1>9, <2>1, <2>3, <2>4
  <1>11. CASE IssueOther \/ PopResponse \/ UNCHANGED vars
    <2>1. /\ UNCHANGED <<nextSeq, buffered, image, shadow, pending, phyWrites, phyDone>>
          /\ UNCHANGED <<writeQ, activeQ>>
      BY <1>11 DEF IssueOther, PopResponse, vars, queueVars, phyVars
    <2>2. phase' = phase \/ phase' \in {"idle", "row"}
      BY <1>11 DEF IssueOther, PopResponse, vars, NextBus
    <2>3. QueuedWrites' = QueuedWrites
      BY <2>1 DEF QueuedWrites
    <2>. QED BY <1>9, <2>1, <2>2, <2>3
  <1>. QED BY <1>3, <1>4, <1>5, <1>6, <1>7, <1>8, <1>10, <1>11,
              EnqueueWriteStore, CoalesceWriteStore
           DEF Next, Tick, IssueData

LEMMA InitStoreInv == Init => StoreInv
  <1>. SUFFICES ASSUME Init PROVE StoreInv
    OBVIOUS
  <1>1. PlaceInv
    BY InitPlaceInv
  <1>2. BufferedAddrs = {} /\ QueuedWrites = {} /\ Readers = {} /\ Transfers = {}
    BY DEF Init, BufferedAddrs, QueuedWrites, Readers, Transfers
  <1>3. phyReads = {} /\ phyWrites = {} /\ phyDone = {} /\ pending = {}
    BY DEF Init
  <1>4. PhyInv
    BY <1>3 DEF PhyInv, PhyMatchesPending, Seqs, Unique
  <1>5. /\ EntriesAligned /\ EntriesNewest /\ ReadersOwed /\ TransferInv
    BY <1>2, <1>3 DEF EntriesAligned, EntriesNewest, ReadersOwed, TransferInv,
                      SlotsInOrder, SlotsPending, ReadersClear
  <1>6. \A b \in Bytes : image[b] = 0 /\ shadow[b] = 0
    BY DEF Init, Uninitialized
  <1>7. nextSeq = 1
    BY DEF Init
  <1>8. ValuesInOrder
    BY <1>3, <1>6, <1>7 DEF ValuesInOrder
  <1>9. StorageNewest
    BY <1>3, <1>6 DEF StorageNewest, Settled
  <1>. QED BY <1>1, <1>4, <1>5, <1>8, <1>9 DEF StoreInv, DataInv

LEMMA NewestIsHeld == StoreInv => NewestValueHeld
  <1>. SUFFICES ASSUME StoreInv, NEW b \in Bytes PROVE Newest(b) = shadow[b]
    BY DEF NewestValueHeld
  <1>. DEFINE entries == {a \in BufferedAddrs : b \in buffered[a].mask}
              values == {buffered[a].data[b] : a \in entries}
              slots == {s \in phyWrites : b \in s.mask}
              sent == {s.data[b] : s \in slots}
  <1>1. Newest(b) = IF entries # {} THEN Max(values)
                    ELSE IF slots # {} THEN Max(sent) ELSE image[b]
    BY DEF Newest
  <1>2. CASE entries # {}
    <2>1. values # {} /\ \A v \in values : v = shadow[b]
      BY <1>2 DEF StoreInv, DataInv, EntriesNewest
    <2>2. values \subseteq Values
      BY StoreFacts, BufferedEntry
    <2>3. Max(values) \in values
      <3>. HIDE DEF values
      <3>. QED BY <2>1, <2>2, MaxInSet, ConstantsAssumption
    <2>. QED BY <1>1, <1>2, <2>1, <2>3
  <1>3. CASE entries = {}
    <2>1. Settled(b, shadow[b])
      BY <1>3 DEF StoreInv, DataInv, StorageNewest
    <2>2. CASE slots = {}
      <3>1. image[b] = shadow[b]
        BY <2>1, <2>2 DEF Settled
      <3>. QED BY <1>1, <1>3, <2>2, <3>1
    <2>3. CASE slots # {}
      <3>1. shadow[b] \in sent
        BY <2>1, <2>3 DEF Settled
      <3>2. \A v \in sent : v <= shadow[b]
        BY DEF StoreInv, DataInv, ValuesInOrder
      <3>3. sent \subseteq Int /\ shadow[b] \in Int
        BY StoreNumbers
      <3>4. Max(sent) = shadow[b]
        <4>. HIDE DEF sent
        <4>1. \A y : y \in sent /\ (\A z \in sent : y >= z) => y = shadow[b]
          BY <3>1, <3>2, <3>3
        <4>2. shadow[b] \in sent /\ \A z \in sent : shadow[b] >= z
          BY <3>1, <3>2, <3>3
        <4>. QED BY <4>1, <4>2 DEF Max
      <3>. QED BY <1>1, <1>3, <2>3, <3>4
    <2>. QED BY <2>2, <2>3
  <1>. QED BY <1>2, <1>3

\* What a finished request is answered with is what it expects.
LEMMA AnswerIsExpected ==
  ASSUME AnswerInv, NEW p \in pending, Finished(p)
  PROVE  ReadData(p) = p.expect
  <1>1. CASE p.type = "Write" \/ p.bypass
    BY <1>1 DEF ReadData, AnswerInv, AnswersExpected
  <1>2. CASE p.type # "Write" /\ ~p.bypass
    <2>1. p \in Transfers /\ p.type = "Read"
      BY <1>2, StoreFacts DEF AnswerInv, Transfers, TypeOK, PendingItems
    <2>2. CASE Behavioral
      <3>1. \E d \in phyDone : d.seq = p.seq
        BY <1>2, <2>2 DEF Finished, PhyHas
      <3>2. \A d \in phyDone : d.seq = p.seq => d.data = p.expect
        BY <2>1 DEF AnswerInv, StoreInv, TransferInv, ReadersClear
      <3>. QED BY <1>2, <2>2, <3>1, <3>2 DEF ReadData
    <2>3. CASE ~Behavioral
      BY <1>2, <2>1, <2>3, IssuedReadMeets DEF ReadData, AnswerInv
    <2>. QED BY <2>2, <2>3
  <1>. QED BY <1>1, <1>2

LEMMA AnswerInvStep ==
  ASSUME Aligned, Forwardable, AnswerInv, [Next]_vars
  PROVE  AnswerInv'
  <1>1. StoreInv /\ StoreInv' /\ PlaceInv
    BY StoreInvStep DEF AnswerInv, StoreInv
  <1>. SUFFICES AnswersExpected'
    BY <1>1 DEF AnswerInv
  <1>2. AnswersExpected
    BY DEF AnswerInv
  <1>3. ASSUME NEW p, pending' = pending \cup {p},
               p.bypass \/ p.type = "Write" => p.data = p.expect,
               p.type = "Write" => p.expect = NoData,
               QueuedWrites' \subseteq QueuedWrites, responses' = responses
        PROVE  AnswersExpected'
    BY <1>2, <1>3 DEF AnswersExpected
  <1>4. ASSUME NEW shape \in ReadShapes, ForwardRead(shape)
        PROVE  AnswersExpected'
    <2>. PICK p : p = Bypass(shape, "Read", ForwardPayload(shape.span),
                             Slice(shadow, shape.span))
      OBVIOUS
    <2>1. /\ ReadHitsBufferedWrite(shape.span) /\ pending' = pending \cup {p}
          /\ UNCHANGED <<writeQ, activeQ, responses>>
      BY <1>4 DEF ForwardRead, queueVars
    <2>2. p.type = "Read" /\ p.data = p.expect
      BY <1>1, <2>1, ForwardIsShadow DEF Bypass
    <2>3. QueuedWrites' = QueuedWrites
      BY <2>1 DEF QueuedWrites
    <2>. QED BY <1>3, <2>1, <2>2, <2>3
  <1>5. ASSUME NEW shape \in WriteShapes, CoalesceWrite(shape)
        PROVE  AnswersExpected'
    <2>. PICK p : p = Bypass(shape, "Write", NoData, NoData)
      OBVIOUS
    <2>1. pending' = pending \cup {p} /\ UNCHANGED <<writeQ, activeQ, responses>>
      BY <1>5 DEF CoalesceWrite
    <2>2. p.data = NoData /\ p.expect = NoData
      BY DEF Bypass
    <2>3. QueuedWrites' = QueuedWrites
      BY <2>1 DEF QueuedWrites
    <2>. QED BY <1>3, <2>1, <2>2, <2>3
  <1>6. ASSUME NEW shape \in WriteShapes, EnqueueWrite(shape)
        PROVE  AnswersExpected'
    <2>. PICK w : w = [seq |-> nextSeq, type |-> "Write", addr |-> shape.addr,
                       span |-> shape.span, expect |-> NoData]
      OBVIOUS
    <2>1. /\ writeQ' = writeQ \cup {w} /\ w.expect = NoData
          /\ UNCHANGED <<activeQ, pending, responses>>
      BY <1>6 DEF EnqueueWrite
    <2>2. QueuedWrites' \subseteq QueuedWrites \cup {w}
      BY <2>1 DEF QueuedWrites
    <2>. QED BY <1>2, <2>1, <2>2 DEF AnswersExpected
  <1>7. CASE PhyTick
    <2>1. /\ UNCHANGED <<writeQ, activeQ, responses>>
          /\ pending' = {Age(p) : p \in pending}
      BY <1>7 DEF PhyTick, queueVars
    <2>2. \A p \in pending : /\ Age(p).type = p.type /\ Age(p).bypass = p.bypass
                             /\ Age(p).data = p.data /\ Age(p).expect = p.expect
      BY <1>1, AgedItem, StoreFacts
    <2>3. QueuedWrites' = QueuedWrites
      BY <2>1 DEF QueuedWrites
    <2>. QED BY <1>2, <2>1, <2>2, <2>3 DEF AnswersExpected
  <1>8. CASE CompletePending
    <2>1. PICK done \in SUBSET {p \in pending : Finished(p)} :
            /\ pending' = pending \ done
            /\ responses' = responses \cup {Response(p) : p \in done}
      BY <1>8 DEF CompletePending
    <2>2. QueuedWrites' = QueuedWrites
      BY <1>8 DEF CompletePending, queueVars, QueuedWrites
    <2>3. \A p \in done : Response(p).data = Response(p).expect
      BY AnswerIsExpected DEF Response
    <2>. QED BY <1>2, <2>1, <2>2, <2>3 DEF AnswersExpected
  <1>9. ASSUME NEW r \in Queued, Retire(r), responses' = responses,
               QueuedWrites' \subseteq QueuedWrites
        PROVE  AnswersExpected'
    <2>1. r.type \in {"Read", "Write"}
      BY <1>1, StoreFacts DEF TypeOK, Requests, Queued
    <2>2. PICK p : /\ pending' = pending \cup {p}
                   /\ p.type = r.type /\ p.bypass = FALSE /\ p.data = NoData
                   /\ p.expect = IF r.type = "Read" THEN r.expect ELSE NoData
      BY <1>9, <2>1, RetiredItem
    <2>. QED BY <1>3, <1>9, <2>1, <2>2
  <1>10. CASE IssueData
    <2>1. PICK r \in Queued : /\ Retire(r) /\ responses' = responses
                              /\ writeQ' \subseteq writeQ /\ activeQ' \subseteq activeQ
      BY <1>10 DEF IssueData, IssueActive, IssueQueued, Queued
    <2>2. QueuedWrites' \subseteq QueuedWrites
      BY <2>1 DEF QueuedWrites
    <2>. QED BY <1>9, <2>1, <2>2
  <1>11. ASSUME QueuedWrites' \subseteq QueuedWrites, pending' = pending,
                responses' \subseteq responses
         PROVE  AnswersExpected'
    BY <1>2, <1>11 DEF AnswersExpected
  <1>12. ASSUME NEW r \in readQ \cup writeQ, Promote(r)
         PROVE  AnswersExpected'
    <2>1. /\ UNCHANGED <<pending, responses>>
          /\ writeQ' = writeQ \ {r} /\ activeQ' = activeQ \cup {r}
      BY <1>12 DEF Promote
    <2>2. r.type = "Write" => r \in writeQ
      BY <1>1, StoreFacts DEF TypeOK
    <2>3. QueuedWrites' = QueuedWrites
      BY <2>1, <2>2 DEF QueuedWrites
    <2>. QED BY <1>11, <2>1, <2>3
  <1>13. CASE (\E shape \in ReadShapes : EnqueueRead(shape)) \/ IssueOther
              \/ PopResponse \/ UNCHANGED vars
    <2>1. UNCHANGED <<writeQ, activeQ, pending>> /\ responses' \subseteq responses
      BY <1>13 DEF EnqueueRead, IssueOther, PopResponse, vars, queueVars
    <2>2. QueuedWrites' = QueuedWrites
      BY <2>1 DEF QueuedWrites
    <2>. QED BY <1>11, <2>1, <2>2
  <1>. QED BY <1>4, <1>5, <1>6, <1>7, <1>8, <1>10, <1>12, <1>13
           DEF Next, Tick

LEMMA InitAnswerInv == Init => AnswerInv
  BY InitStoreInv DEF Init, AnswerInv, AnswersExpected, QueuedWrites

\* Only a tick of the PHY or a data command of a write changes the storage.
LEMMA StepMovesForward ==
  ASSUME StoreInv, [Next]_vars, NEW b \in Bytes
  PROVE  image'[b] >= image[b]
  <1>1. ASSUME image' = image PROVE image'[b] >= image[b]
    BY <1>1, StoreNumbers
  <1>2. CASE PhyTick
    <2>1. \A s \in phyWrites : b \in s.mask => image[b] <= s.data[b] /\ s.data[b] \in Int
      BY StoreNumbers DEF StoreInv, DataInv, ValuesInOrder
    <2>. QED BY <1>2, <2>1, PhyTickWrites, StoreNumbers
  <1>3. ASSUME NEW r \in Queued, Retire(r) PROVE image'[b] >= image[b]
    <2>1. r.type \in {"Read", "Write"}
      BY StoreFacts DEF TypeOK, Requests, Queued
    <2>2. CASE r.type = "Read" \/ Behavioral
      <3>1. image' = image
        BY <1>3, <2>1, <2>2 DEF Retire, RetireRead, RetireWrite
      <3>. QED BY <1>1, <3>1
    <2>3. CASE r.type = "Write" /\ ~Behavioral
      <3>1. image' = Overwrite(image, buffered[r.addr].mask, buffered[r.addr].data)
        BY <1>3, <2>3 DEF Retire, RetireWrite
      <3>2. r.addr \in BufferedAddrs
        BY <2>3, StoreFacts DEF Queued, QueuedWrites, TypeOK
      <3>3. b \in buffered[r.addr].mask => buffered[r.addr].data[b] = shadow[b]
        BY <3>2 DEF StoreInv, DataInv, EntriesNewest
      <3>4. image'[b] = image[b] \/ image'[b] = shadow[b]
        BY <3>1, <3>3, StoreFacts DEF Overwrite, TypeOK
      <3>. QED BY <3>4, StoreNumbers DEF StoreInv, DataInv, ValuesInOrder
    <2>. QED BY <2>1, <2>2, <2>3
  <1>4. CASE IssueData
    BY <1>3, <1>4 DEF IssueData, IssueActive, IssueQueued, Queued
  <1>5. CASE image' = image
    BY <1>1, <1>5
  <1>. QED BY <1>2, <1>4, <1>5 DEF Next, Tick, ForwardRead, EnqueueRead,
              CoalesceWrite, EnqueueWrite, CompletePending, Promote, IssueOther,
              PopResponse, vars

-----------------------------------------------------------------------------
(* The controller implements the atomic store *)

\* What is owed, with one rule for every place a request can be in.
Held == Queued \cup pending \cup responses
Due(x) == [id |-> x.seq, data |-> x.expect]
Dues == {Due(x) : x \in Held}

LEMMA OwedIsDues == AnswerInv => Owed = Dues
  <1>. SUFFICES ASSUME AnswerInv PROVE Owed = Dues
    OBVIOUS
  <1>1. \A p \in pending : (IF p.bypass THEN p.data ELSE p.expect) = p.expect
    BY DEF AnswerInv, AnswersExpected
  <1>2. \A r \in responses : r.data = r.expect
    BY DEF AnswerInv, AnswersExpected
  <1>. QED BY <1>1, <1>2 DEF Owed, Dues, Due, Held, Queued

\* The number of the request that is accepted names nothing yet.
LEMMA NewIsFresh ==
  ASSUME AnswerInv, CanAccept, Owed = Dues
  PROVE  nextSeq \in Sequences /\ Store!Fresh(nextSeq)
  <1>1. \A x \in Held : x.seq \in Nat /\ x.seq < nextSeq
    BY UsedSeqs DEF AnswerInv, StoreInv, Held
  <1>2. \A o \in Owed : o.id # nextSeq
    BY <1>1, UsedSeqs DEF Dues, Due, AnswerInv, StoreInv
  <1>3. nextSeq \notin answered
    BY UsedSeqs DEF AnswerInv, StoreInv
  <1>4. nextSeq \in Sequences
    BY StoreFacts, ConstantsAssumption DEF AnswerInv, TypeOK, CanAccept, Sequences
  <1>. QED BY <1>2, <1>3, <1>4 DEF Store!Fresh

\* A step that moves requests on, and changes what none of them is owed.
LEMMA MoveIsStutter ==
  ASSUME Owed = Dues, Owed' = Dues', UNCHANGED <<shadow, answered>>,
         \A x \in Held : \E y \in Held' : y.seq = x.seq /\ y.expect = x.expect,
         \A y \in Held' : \E x \in Held : y.seq = x.seq /\ y.expect = x.expect
  PROVE  UNCHANGED Store!absVars
  <1>1. Dues' = Dues
    <2>1. \A o : o \in Dues => o \in Dues'
      BY DEF Dues, Due
    <2>2. \A o : o \in Dues' => o \in Dues
      BY DEF Dues, Due
    <2>. QED BY <2>1, <2>2, Zenon
  <1>. QED BY <1>1 DEF Store!absVars

LEMMA ReadIsAccepted ==
  ASSUME AnswerInv, Owed = Dues, Owed' = Dues', CanAccept,
         UNCHANGED <<shadow, answered>>, NEW span \in SUBSET Bytes,
         NEW x, x.seq = nextSeq, x.expect = Slice(shadow, span),
         Held' = Held \cup {x}
  PROVE  Store!AcceptRead
  <1>1. Owed' = Owed \cup {[id |-> nextSeq, data |-> [b \in span |-> shadow[b]]]}
    <2>1. Dues' = Dues \cup {Due(x)}
      BY DEF Dues, Due
    <2>2. Due(x) = [id |-> nextSeq, data |-> [b \in span |-> shadow[b]]]
      BY DEF Due, Slice
    <2>. QED BY <2>1, <2>2
  <1>2. nextSeq \in Sequences /\ Store!Fresh(nextSeq)
    BY NewIsFresh
  <1>. QED BY <1>1, <1>2 DEF Store!AcceptRead

LEMMA WriteIsAccepted ==
  ASSUME AnswerInv, Owed = Dues, Owed' = Dues', CanAccept, answered' = answered,
         NEW shape \in WriteShapes, AcceptIntoShadow(shape),
         NEW x, x.seq = nextSeq, x.expect = NoData, Held' = Held \cup {x}
  PROVE  Store!AcceptWrite
  <1>1. Owed' = Owed \cup {[id |-> nextSeq, data |-> Store!NoData]}
    <2>1. Dues' = Dues \cup {Due(x)}
      BY DEF Dues, Due
    <2>2. Due(x) = [id |-> nextSeq, data |-> Store!NoData]
      BY DEF Due, NoData, Store!NoData
    <2>. QED BY <2>1, <2>2
  <1>2. nextSeq \in Sequences /\ Store!Fresh(nextSeq)
    BY NewIsFresh
  <1>3. shape.mask \in SUBSET Bytes /\ nextSeq \in Values
    BY <1>2, ShapeTypes DEF Values
  <1>. QED BY <1>1, <1>2, <1>3 DEF Store!AcceptWrite, AcceptIntoShadow

\* Taking an answer away leaves the others owed.
LEMMA PopIsAnswer ==
  ASSUME AnswerInv, Owed = Dues, Owed' = Dues', PopResponse
  PROVE  Store!Answer
  <1>1. PICK r \in responses : responses' = responses \ {r} /\ answered' = answered \cup {r.seq}
    BY DEF PopResponse
  <1>2. Queued' = Queued /\ pending' = pending /\ shadow' = shadow
    BY DEF PopResponse, Queued, queueVars
  <1>3. \A x \in Held : x.seq = r.seq => x = r
    BY DEF Held, AnswerInv, StoreInv, PlaceInv, ExactlyOnePlace, Unique, Apart
  <1>4. Held' = Held \ {r} /\ r \in Held
    <2>1. r \notin Queued /\ r \notin pending
      BY DEF AnswerInv, StoreInv, PlaceInv, ExactlyOnePlace, Apart
    <2>. QED BY <1>1, <1>2, <2>1 DEF Held
  <1>5. Dues' = Dues \ {Due(r)}
    <2>1. \A x \in Held : Due(x) = Due(r) => x = r
      BY <1>3 DEF Due
    <2>2. \A o : o \in Dues' <=> o \in Dues /\ o # Due(r)
      BY <1>4, <2>1 DEF Dues, Due
    <2>. QED BY <2>2, Zenon
  <1>6. Due(r) \in Owed /\ Due(r).id = r.seq
    BY <1>4 DEF Dues, Due
  <1>. QED BY <1>1, <1>2, <1>5, <1>6 DEF Store!Answer

\* A data command moves its request to pending_, and to nothing else.
LEMMA RetireIsStutter ==
  ASSUME AnswerInv, Owed = Dues, Owed' = Dues',
         UNCHANGED <<shadow, answered, responses>>,
         NEW r \in Queued, Retire(r), Queued' = Queued \ {r}
  PROVE  UNCHANGED Store!absVars
  <1>1. r.type \in {"Read", "Write"}
    BY StoreFacts DEF AnswerInv, TypeOK, Requests, Queued
  <1>2. PICK p : /\ pending' = pending \cup {p} /\ p.seq = r.seq
                 /\ p.expect = IF r.type = "Read" THEN r.expect ELSE NoData
    BY <1>1, RetiredItem
  <1>3. r.type = "Write" => r.expect = NoData
    <2>1. r.type = "Write" => r \in QueuedWrites
      BY StoreFacts DEF AnswerInv, TypeOK, Queued, QueuedWrites
    <2>. QED BY <2>1 DEF AnswerInv, AnswersExpected
  <1>4. p.expect = r.expect
    BY <1>1, <1>2, <1>3
  <1>5. \A x \in Held : x \in Held' \/ x = r
    BY <1>2 DEF Held
  <1>6. \A y \in Held' : y \in Held \/ y = p
    BY <1>2 DEF Held
  <1>7. p \in Held' /\ r \in Held
    BY <1>2 DEF Held
  <1>. QED BY <1>2, <1>4, <1>5, <1>6, <1>7, MoveIsStutter

LEMMA StoreStep ==
  ASSUME AnswerInv, Owed = Dues, Owed' = Dues', [Next]_vars
  PROVE  [Store!AbsNext]_(Store!absVars)
  <1>1. ASSUME NEW shape \in ReadShapes, ForwardRead(shape)
        PROVE  Store!AcceptRead
    <2>1. PICK p : p = Bypass(shape, "Read", ForwardPayload(shape.span),
                              Slice(shadow, shape.span))
      OBVIOUS
    <2>2. /\ UNCHANGED <<shadow, answered, readQ, writeQ, activeQ, responses>>
          /\ pending' = pending \cup {p} /\ CanAccept
      BY <1>1, <2>1 DEF ForwardRead, queueVars
    <2>3. p.seq = nextSeq /\ p.expect = Slice(shadow, shape.span)
      BY <2>1 DEF Bypass
    <2>4. Held' = Held \cup {p}
      BY <2>2 DEF Held, Queued
    <2>. QED BY <2>2, <2>3, <2>4, ReadIsAccepted, ShapeTypes
  <1>2. ASSUME NEW shape \in ReadShapes, EnqueueRead(shape)
        PROVE  Store!AcceptRead
    <2>1. PICK x : x = [seq |-> nextSeq, type |-> "Read", addr |-> shape.addr,
                        span |-> shape.span,
                        expect |-> Slice(shadow, shape.span)]
      OBVIOUS
    <2>2. /\ UNCHANGED <<shadow, answered, writeQ, activeQ, pending, responses>>
          /\ readQ' = readQ \cup {x} /\ CanAccept
      BY <1>2, <2>1 DEF EnqueueRead
    <2>3. x.seq = nextSeq /\ x.expect = Slice(shadow, shape.span)
      BY <2>1
    <2>4. Held' = Held \cup {x}
      BY <2>2 DEF Held, Queued
    <2>. QED BY <2>2, <2>3, <2>4, ReadIsAccepted, ShapeTypes
  <1>3. ASSUME NEW shape \in WriteShapes, CoalesceWrite(shape)
        PROVE  Store!AcceptWrite
    <2>1. PICK p : p = Bypass(shape, "Write", NoData, NoData)
      OBVIOUS
    <2>2. /\ UNCHANGED <<answered, readQ, writeQ, activeQ, responses>>
          /\ pending' = pending \cup {p} /\ CanAccept /\ AcceptIntoShadow(shape)
      BY <1>3, <2>1 DEF CoalesceWrite
    <2>3. p.seq = nextSeq /\ p.expect = NoData
      BY <2>1 DEF Bypass
    <2>4. Held' = Held \cup {p}
      BY <2>2 DEF Held, Queued
    <2>. QED BY <2>2, <2>3, <2>4, WriteIsAccepted
  <1>4. ASSUME NEW shape \in WriteShapes, EnqueueWrite(shape)
        PROVE  Store!AcceptWrite
    <2>1. PICK w : w = [seq |-> nextSeq, type |-> "Write", addr |-> shape.addr,
                        span |-> shape.span, expect |-> NoData]
      OBVIOUS
    <2>2. /\ UNCHANGED <<answered, readQ, activeQ, pending, responses>>
          /\ writeQ' = writeQ \cup {w} /\ CanAccept /\ AcceptIntoShadow(shape)
      BY <1>4, <2>1 DEF EnqueueWrite
    <2>3. w.seq = nextSeq /\ w.expect = NoData
      BY <2>1
    <2>4. Held' = Held \cup {w}
      BY <2>2 DEF Held, Queued
    <2>. QED BY <2>2, <2>3, <2>4, WriteIsAccepted
  <1>5. CASE PhyTick
    <2>1. /\ UNCHANGED <<shadow, answered, readQ, writeQ, activeQ, responses>>
          /\ pending' = {Age(p) : p \in pending}
      BY <1>5 DEF PhyTick, queueVars
    <2>2. \A p \in pending : Age(p).seq = p.seq /\ Age(p).expect = p.expect
      BY AgedItem, StoreFacts DEF AnswerInv
    <2>3. \A x \in Held : \E y \in Held' : y.seq = x.seq /\ y.expect = x.expect
      BY <2>1, <2>2 DEF Held, Queued
    <2>4. \A y \in Held' : \E x \in Held : y.seq = x.seq /\ y.expect = x.expect
      BY <2>1, <2>2 DEF Held, Queued
    <2>. QED BY <2>1, <2>3, <2>4, MoveIsStutter
  <1>6. CASE CompletePending
    <2>1. PICK done \in SUBSET {p \in pending : Finished(p)} :
            /\ pending' = pending \ done
            /\ responses' = responses \cup {Response(p) : p \in done}
      BY <1>6 DEF CompletePending
    <2>2. UNCHANGED <<shadow, answered, readQ, writeQ, activeQ>>
      BY <1>6 DEF CompletePending, queueVars
    <2>3. \A p \in done : Response(p).seq = p.seq /\ Response(p).expect = p.expect
      BY DEF Response
    <2>4. \A x \in Held : \E y \in Held' : y.seq = x.seq /\ y.expect = x.expect
      BY <2>1, <2>2, <2>3 DEF Held, Queued
    <2>5. \A y \in Held' : \E x \in Held : y.seq = x.seq /\ y.expect = x.expect
      BY <2>1, <2>2, <2>3 DEF Held, Queued
    <2>. QED BY <2>2, <2>4, <2>5, MoveIsStutter
  <1>7. ASSUME NEW r \in activeQ, IssueActive(r)
        PROVE  UNCHANGED Store!absVars
    <2>1. /\ Retire(r) /\ activeQ' = activeQ \ {r}
          /\ UNCHANGED <<readQ, writeQ, responses, shadow, answered>>
      BY <1>7 DEF IssueActive
    <2>2. r \notin readQ /\ r \notin writeQ
      BY DEF AnswerInv, StoreInv, PlaceInv, ExactlyOnePlace
    <2>3. Queued' = Queued \ {r} /\ r \in Queued
      BY <2>1, <2>2 DEF Queued
    <2>. QED BY <2>1, <2>3, RetireIsStutter
  <1>8. ASSUME NEW r \in readQ \cup writeQ, IssueQueued(r)
        PROVE  UNCHANGED Store!absVars
    <2>1. /\ Retire(r) /\ readQ' = readQ \ {r} /\ writeQ' = writeQ \ {r}
          /\ UNCHANGED <<activeQ, responses, shadow, answered>>
      BY <1>8 DEF IssueQueued
    <2>2. r \notin activeQ
      BY DEF AnswerInv, StoreInv, PlaceInv, ExactlyOnePlace
    <2>3. Queued' = Queued \ {r} /\ r \in Queued
      BY <2>1, <2>2 DEF Queued
    <2>. QED BY <2>1, <2>3, RetireIsStutter
  <1>9. ASSUME UNCHANGED <<pending, responses, shadow, answered>>, Queued' = Queued
        PROVE  UNCHANGED Store!absVars
    BY <1>9, MoveIsStutter DEF Held
  <1>10. ASSUME NEW r \in readQ \cup writeQ, Promote(r)
         PROVE  UNCHANGED Store!absVars
    <2>1. Queued' = Queued
      BY <1>10 DEF Promote, Queued
    <2>. QED BY <1>9, <1>10, <2>1 DEF Promote
  <1>11. CASE IssueOther \/ UNCHANGED vars
    <2>1. Queued' = Queued /\ UNCHANGED <<pending, responses, shadow, answered>>
      BY <1>11 DEF IssueOther, vars, queueVars, Queued
    <2>. QED BY <1>9, <2>1
  <1>12. CASE PopResponse
    BY <1>12, PopIsAnswer DEF Store!AbsNext
  <1>. QED BY <1>1, <1>2, <1>3, <1>4, <1>5, <1>6, <1>7, <1>8, <1>10, <1>11, <1>12
           DEF Next, Tick, IssueData, Store!AbsNext

-----------------------------------------------------------------------------
(* Theorems *)

\* No accepted write is lost to merging, to the order in which entries leave the
\* buffer or to the PHY: the newest value of a byte is in its entry, in the
\* write FIFO or in the storage, and the place nearest to the requester has it.
THEOREM NewestAlwaysHeld ==
  ASSUME Aligned
  PROVE  Spec => []NewestValueHeld
  <1>1. Init => StoreInv
    BY InitStoreInv
  <1>2. StoreInv /\ [Next]_vars => StoreInv'
    BY StoreInvStep
  <1>3. StoreInv => NewestValueHeld
    BY NewestIsHeld
  <1>. QED BY <1>1, <1>2, <1>3, PTL DEF Spec

\* Writes reach each byte of the storage in the order in which they were
\* accepted, through the PHY or without one, merged or not.
THEOREM StorageNeverGoesBack ==
  ASSUME Aligned
  PROVE  Spec => StorageMovesForward
  <1>1. Init => StoreInv
    BY InitStoreInv
  <1>2. StoreInv /\ [Next]_vars => StoreInv'
    BY StoreInvStep
  <1>3. StoreInv /\ [Next]_vars => [\A b \in Bytes : image'[b] >= image[b]]_image
    <2>1. SUFFICES ASSUME StoreInv, [Next]_vars, NEW b \in Bytes
                   PROVE  image'[b] >= image[b]
      OBVIOUS
    <2>. QED BY <2>1, StepMovesForward
  <1>. QED BY <1>1, <1>2, <1>3, PTL DEF Spec, StorageMovesForward

\* Every read is answered with what the writes accepted before it left, whether
\* it is forwarded from the write buffer, read through the PHY or read from the
\* storage, and however the scheduler orders the queues (check_read_data()
\* finds no DataMismatch).
THEOREM ReadsAlwaysInOrder ==
  ASSUME Aligned, Forwardable
  PROVE  Spec => []ReadsSeeAcceptedOrder
  <1>1. Init => AnswerInv
    BY InitAnswerInv
  <1>2. AnswerInv /\ [Next]_vars => AnswerInv'
    BY AnswerInvStep
  <1>3. AnswerInv => ReadsSeeAcceptedOrder
    BY DEF AnswerInv, AnswersExpected, ReadsSeeAcceptedOrder
  <1>. QED BY <1>1, <1>2, <1>3, PTL DEF Spec

\* The controller is an atomic store: every request takes effect when it is
\* accepted, none is answered twice, and each with the answer it was owed then.
THEOREM ControllerImplementsStore ==
  ASSUME Aligned, Forwardable
  PROVE  Spec => ImplementsAtomicStore
  <1>1. Init => AnswerInv
    BY InitAnswerInv
  <1>2. AnswerInv /\ [Next]_vars => AnswerInv'
    BY AnswerInvStep
  <1>3. Init => Store!AbsInit
    BY DEF Init, Owed, Store!AbsInit
  <1>4. AnswerInv => Owed = Dues
    BY OwedIsDues
  <1>5. AnswerInv /\ Owed = Dues /\ (Owed = Dues)' /\ [Next]_vars
          => [Store!AbsNext]_(Store!absVars)
    BY StoreStep
  <1>. QED BY <1>1, <1>2, <1>3, <1>4, <1>5, PTL DEF Spec, ImplementsAtomicStore, Store!AbsSpec
=============================================================================
