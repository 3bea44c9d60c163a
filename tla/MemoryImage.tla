---------------------------- MODULE MemoryImage ----------------------------
(***************************************************************************)
(* The storage of one stack (class MemoryImage): lines in a backend, in    *)
(* front of them the row buffers that ACT opens and PRE writes back, and a *)
(* SECDED shadow per line.  The controller calls one operation at a time.  *)
(* A process may end, and the next one opens the files it left.            *)
(*                                                                         *)
(* A line has two bytes.  A byte is the number of the write it came from,  *)
(* 0 before the first, so the initialised mask is data # 0.  maybe_inject_ *)
(* ecc_error() always flips bit 0 of byte 1: `flipped` says the byte is    *)
(* wrong, `shadow` that the shadow was computed over the wrong byte.       *)
(***************************************************************************)
EXTENDS MemoryBackend, FiniteSetsExt, TLC

CONSTANTS
  Banks, NoRow,
  BankOf, RowOf,          \* the coordinates of a line
  Setups,      \* [kind, period, masks, loads]: backend, ecc_inject_period,
               \* the byte masks that are sent, and whether images are loaded
  MaxWrites,   \* bound on the writes of one process
  MaxStarts    \* bound on the processes of a behaviour

ASSUME ImageAssumption ==
  /\ IsFiniteSet(Banks) /\ BankOf \in [Lines -> Banks]
  /\ \A l \in Lines : RowOf[l] # NoRow
  /\ \A s \in Setups : s.kind \in Kinds /\ s.period \in Nat
                       /\ s.masks \subseteq SUBSET {1, 2}
                       /\ s.loads \in BOOLEAN
  /\ MaxWrites \in Nat /\ MaxStarts \in Nat

VARIABLES
  setup,
  up,           \* a process has the storage open
  backend,      \* backend_, and the files behind it
  rows,         \* row_buffers_
  nextVersion,  \* next_version_
  starts,
  content,      \* history: line -> what was written to it
  saved         \* history: nothing was stored since the last flush

vars == <<setup, up, backend, rows, nextVersion, starts, content, saved>>

NoColumns == [l \in {} |-> Zero]
ClosedRow == [row |-> NoRow, dirty |-> FALSE, columns |-> NoColumns]

Init ==
  /\ setup \in Setups
  /\ up = TRUE
  /\ backend = Open(EmptyBackend(setup.kind))
  /\ rows = [k \in Banks |-> ClosedRow]
  /\ nextVersion = 1
  /\ starts = 1
  /\ content = [l \in Lines |-> Zero.data]
  /\ saved = TRUE

-----------------------------------------------------------------------------
(* SECDED shadow *)

\* refresh_ecc_shadow(): over the bytes as they are.
RefreshShadow(block) == [block EXCEPT !.shadow = block.flipped, !.ecc = TRUE]

\* maybe_inject_ecc_error()
MaybeInject(block) ==
  IF setup.period # 0 /\ block.version # 0 /\ block.version % setup.period = 0
  THEN [block EXCEPT !.flipped = ~@] ELSE block

\* Fault: the corrected byte is not put back into the line.
FaultCheck(block) == [block EXCEPT !.shadow = block.flipped]

\* check_ecc_shadow() of a line with at most one wrong bit.
CheckShadow(block) ==
  IF block.ecc THEN [block EXCEPT !.flipped = block.shadow] ELSE block

-----------------------------------------------------------------------------
(* Row buffers *)

OpenFor(l) == rows[BankOf[l]].row = RowOf[l]
Column(l) == rows[BankOf[l]].columns[l]
HasColumn(l) == OpenFor(l) /\ l \in DOMAIN rows[BankOf[l]].columns

\* row_buffer_block(): a line of an open row is loaded when first used.
Target(l) == IF HasColumn(l) THEN Column(l) ELSE Block(backend, l)
AfterTarget(l) == IF HasColumn(l) THEN backend ELSE AfterLoad(backend, l)

SetColumn(l, block, dirtied) ==
  LET buffer == rows[BankOf[l]] IN
  rows' = [rows EXCEPT ![BankOf[l]] =
    [buffer EXCEPT !.dirty = @ \/ dirtied,
                   !.columns = [c \in DOMAIN @ \cup {l} |->
                                  IF c = l THEN block ELSE @[c]]]]

\* The columns of a dirty row, stored one after the other.
Writeback(b, k) ==
  LET store(l, acc) == Store(acc, l, rows[k].columns[l])
  IN IF rows[k].dirty THEN FoldSet(store, b, DOMAIN rows[k].columns) ELSE b

\* writeback_row_buffer() of some banks.
CloseRows(banks, opened) ==
  LET close(k, acc) == Writeback(acc, k) IN
  /\ backend' = FoldSet(close, backend, banks)
  /\ rows' = [k \in Banks |-> IF k \in DOMAIN opened THEN opened[k]
                              ELSE IF k \in banks THEN ClosedRow ELSE rows[k]]
  /\ saved' = (saved /\ \A k \in banks : ~rows[k].dirty)
  /\ UNCHANGED <<setup, up, nextVersion, starts, content>>

NothingOpened == [k \in {} |-> ClosedRow]

\* activate_row(): an other row that is still open is closed by force.
ActivateRow(l) ==
  /\ up
  /\ ~OpenFor(l)
  /\ LET k == BankOf[l] IN
     CloseRows({k}, [b \in {k} |-> [ClosedRow EXCEPT !.row = RowOf[l]]])

\* precharge_bank(), of PRE, PREPB, REFPB, REFDB and RFMPB, and when the data
\* of an RDA or a WRA are complete.  The row may be a newer one by then.
PrechargeBank(k) ==
  /\ up
  /\ rows[k].row # NoRow
  /\ CloseRows({k}, NothingOpened)

\* precharge_all(), of PREAB, REFAB, RFMAB and SREFEN.
PrechargeAll ==
  /\ up
  /\ \E k \in Banks : rows[k].row # NoRow
  /\ CloseRows(Banks, NothingOpened)

-----------------------------------------------------------------------------
(* Data *)

\* read(): a line of an open row is corrected in the row, which does not
\* become dirty; another one in the backend, if there is anything to correct.
Read(l) ==
  /\ up
  /\ IF OpenFor(l)
     THEN /\ SetColumn(l, CheckShadow(Target(l)), FALSE)
          /\ backend' = AfterTarget(l)
          /\ UNCHANGED saved
     ELSE LET before == Block(backend, l)
              after == CheckShadow(before)
          IN /\ UNCHANGED rows
             /\ IF l \in backend.present /\ after # before
                THEN backend' = Store(AfterLoad(backend, l), l, after)
                     /\ saved' = FALSE
                ELSE backend' = AfterLoad(backend, l) /\ UNCHANGED saved
  /\ UNCHANGED <<setup, up, nextVersion, starts, content>>

\* A number of its own for every write of every process, and the one of the
\* bytes that come from a loaded text image.
Stamp == (starts - 1) * MaxWrites + nextVersion
Loaded == MaxStarts * MaxWrites + 1

\* The bytes of a line under a mask; a mask without a byte changes none.
Overwrite(block, mask) ==
  [block EXCEPT
     !.data = [h \in {1, 2} |-> IF h \in mask THEN Stamp ELSE @[h]],
     !.version = IF mask = {} THEN @ ELSE nextVersion,
     !.flipped = @ /\ 1 \notin mask]

Dirties(mask) == mask # {}

\* write(): into the open row, or through to the backend.  A line that the
\* backend does not hold is allocated there at once, still empty.
Write(l, mask) ==
  /\ up
  /\ nextVersion <= MaxWrites
  /\ LET loaded == AfterLoad(backend, l)
         block == MaybeInject(RefreshShadow(Overwrite(Target(l), mask)))
     IN IF OpenFor(l)
        THEN /\ SetColumn(l, block, Dirties(mask))
             /\ backend' = IF l \in backend.present THEN loaded
                           ELSE Store(loaded, l, Zero)
        ELSE /\ backend' = Store(loaded, l, block)
             /\ UNCHANGED rows
  /\ content' = [content EXCEPT ![l] =
       [h \in {1, 2} |-> IF h \in mask THEN Stamp ELSE @[h]]]
  /\ nextVersion' = IF mask = {} THEN nextVersion ELSE nextVersion + 1
  /\ saved' = FALSE
  /\ UNCHANGED <<setup, up, starts>>

-----------------------------------------------------------------------------
(* Saving, ending and starting again *)

DirtyRows == {k \in Banks : rows[k].dirty}

\* flush_dirty_row_buffers(): stored, and the rows stay open.
StoreDirtyRows ==
  LET store(k, acc) == Writeback(acc, k) IN FoldSet(store, backend, DirtyRows)

Flush(b) == FlushHeader(FlushChunks(b))

\* Fault: the backend is flushed before the rows are stored.
FaultFlushStorage ==
  /\ up
  /\ backend' = LET store(k, acc) == Writeback(acc, k)
                IN FoldSet(store, Flush(backend), DirtyRows)
  /\ rows' = [k \in Banks |-> [rows[k] EXCEPT !.dirty = FALSE]]
  /\ saved' = TRUE
  /\ UNCHANGED <<setup, up, nextVersion, starts, content>>

\* flush_storage(), at the end of a simulation.
FlushStorage ==
  /\ up
  /\ backend' = Flush(StoreDirtyRows)
  /\ rows' = [k \in Banks |-> [rows[k] EXCEPT !.dirty = FALSE]]
  /\ saved' = TRUE
  /\ UNCHANGED <<setup, up, nextVersion, starts, content>>

\* A process that was killed after a flush: what it had in memory is gone.
Killed ==
  /\ up /\ saved
  /\ up' = FALSE
  /\ backend' = [backend EXCEPT !.cache = <<>>]
  /\ rows' = [k \in Banks |-> ClosedRow]
  /\ UNCHANGED <<setup, nextVersion, starts, content, saved>>

\* ~MemoryImage() flushes the backend, not the rows: flush_storage() ran.
Destroyed ==
  /\ up /\ DirtyRows = {}
  /\ up' = FALSE
  /\ backend' = [Flush(backend) EXCEPT !.cache = <<>>]
  /\ rows' = [k \in Banks |-> ClosedRow]
  /\ saved' = TRUE
  /\ UNCHANGED <<setup, nextVersion, starts, content>>

\* The constructor of the next process; versions count from 1 again.
Start ==
  /\ ~up /\ starts < MaxStarts
  /\ HeaderFits(backend)
  /\ up' = TRUE
  /\ backend' = Open(backend)
  /\ nextVersion' = 1
  /\ starts' = starts + 1
  /\ content' = IF Persistent(backend) THEN content
                ELSE [l \in Lines |-> Zero.data]
  /\ UNCHANGED <<setup, rows, saved>>

-----------------------------------------------------------------------------
(* Images *)

\* What dump_binary() has written when it, or the file, ends after n lines: the
\* lines of the backend are in order of their addresses.
Dumped(n) ==
  {l \in backend.present : Cardinality({m \in backend.present : m < l}) < n}

\* load_binary() of that dump: the storage is emptied, then filled line by
\* line; a file that ends after n of them makes it throw and leaves those.
Reload(n) ==
  LET entry == [l \in Lines |-> RefreshShadow([Block(backend, l) EXCEPT !.version = 0])]
      add(l, acc) == Store(acc, l, entry[l])
      last(s) == Max(s)
      kept == Dumped(n)
  IN /\ up /\ setup.loads /\ DirtyRows = {}
     /\ n \in 0 .. Cardinality(backend.present)
     /\ backend' = MapThenFoldSet(add, Clear(backend), LAMBDA l : l, last, kept)
     /\ rows' = [k \in Banks |-> ClosedRow]
     /\ content' = [l \in Lines |-> IF l \in kept THEN content[l] ELSE Zero.data]
     /\ saved' = FALSE
     /\ UNCHANGED <<setup, up, nextVersion, starts>>

\* One line of load_text(), into the backend, before any row is open.
LoadText(l, mask) ==
  /\ up /\ setup.loads /\ mask # {}
  /\ \A k \in Banks : rows[k].row = NoRow
  /\ LET old == Block(backend, l)
         block == RefreshShadow([old EXCEPT
           !.data = [h \in {1, 2} |-> IF h \in mask THEN Loaded ELSE @[h]],
           !.version = 0, !.flipped = @ /\ 1 \notin mask])
     IN backend' = Store(AfterLoad(backend, l), l, block)
  /\ content' = [content EXCEPT ![l] =
       [h \in {1, 2} |-> IF h \in mask THEN Loaded ELSE @[h]]]
  /\ saved' = FALSE
  /\ UNCHANGED <<setup, up, rows, nextVersion, starts>>

-----------------------------------------------------------------------------
Next ==
  \/ \E l \in Lines : ActivateRow(l) \/ Read(l)
  \/ \E k \in Banks : PrechargeBank(k)
  \/ PrechargeAll
  \/ \E l \in Lines, mask \in setup.masks : Write(l, mask) \/ LoadText(l, mask)
  \/ FlushStorage \/ Killed \/ Destroyed \/ Start
  \/ \E n \in 0 .. LineCount : Reload(n)

Spec == Init /\ [][Next]_vars

-----------------------------------------------------------------------------
(* Properties *)

Stamps == 0 .. Loaded
Blocks == [data : [{1, 2} -> Stamps], version : 0 .. MaxWrites,
           flipped : BOOLEAN, shadow : BOOLEAN, ecc : BOOLEAN]
Headers == [made : BOOLEAN, allocated : 0 .. LineCount, written : 0 .. LineCount]

\* Every variable has its type, and the cache its limit.
TypeOK ==
  /\ setup \in Setups /\ up \in BOOLEAN /\ saved \in BOOLEAN
  /\ nextVersion \in 1 .. MaxWrites + 1 /\ starts \in 1 .. MaxStarts
  /\ content \in [Lines -> [{1, 2} -> Stamps]]
  /\ backend.file \in [Lines -> Blocks] /\ backend.header \in Headers
  /\ backend.present \subseteq Lines /\ backend.written \subseteq Lines
  /\ {backend.allocated, backend.unique} \subseteq 0 .. LineCount
  /\ Len(backend.cache) <= CacheLimit
  /\ \A i \in DOMAIN backend.cache :
       backend.cache[i].copy \in [ChunkLines(backend.cache[i].chunk) -> Blocks]
  /\ \A k \in Banks :
       \A l \in DOMAIN rows[k].columns :
         /\ rows[k].columns[l] \in Blocks
         /\ BankOf[l] = k /\ RowOf[l] = rows[k].row

\* What a read finds: the column of an open row, or else the backend's line.
Visible(l) == IF HasColumn(l) THEN Column(l) ELSE Block(backend, l)

\* A read returns the last bytes written, wherever they are: in a row buffer,
\* in a cached chunk, in a file, or in the files an earlier process left.
ReadsSeeWrites == up => \A l \in Lines : Visible(l).data = content[l]

\* allocated_lines() and unique_written_lines() count lines, also after the
\* files were closed and opened again.
CountersCountLines ==
  up => /\ backend.allocated = Cardinality(backend.present)
        /\ backend.unique = Cardinality(backend.written)
        /\ backend.written =
             {l \in backend.present : Block(backend, l).version > 0}

\* After a flush the files alone hold everything: a process that is killed
\* then, whatever it has read since, loses nothing and can be restarted.
FlushedFilesAreComplete ==
  saved /\ Persistent(backend) =>
    /\ HeaderFits(backend)
    /\ \A l \in Lines : content[l] = IF l \in backend.present
                                     THEN backend.file[l].data ELSE Zero.data
    /\ backend.header.allocated = Cardinality(backend.present)
    /\ backend.header.written = Cardinality(backend.written)

\* A shadow describes the bytes that were written, so check_ecc_shadow() can
\* find the wrong bit of every line that has one.
ErrorsAreCorrectable ==
  up => \A l \in Lines : /\ Visible(l).flipped => Visible(l).ecc
                         /\ Visible(l).ecc => ~Visible(l).shadow
=============================================================================
