---------------------------- MODULE MemoryBackend ----------------------------
(***************************************************************************)
(* Where MemoryImage keeps its lines (class MemoryBackend): a table of the *)
(* process (sparse), mapped files (mmap_sparse), or files behind a bounded *)
(* cache of chunks (chunk_file).  A backend is a value here, and each of   *)
(* its operations maps a backend to the next one.                          *)
(*                                                                         *)
(* The data, .init and .meta files are one function from lines to blocks:  *)
(* every write to one of them writes the other two.  The two bit maps of   *)
(* the .present file are mapped into memory by both file backends, so they *)
(* change at once, and the counters of the header only when it is written. *)
(***************************************************************************)
EXTENDS Integers, Sequences, FiniteSets, SequencesExt

CONSTANTS
  LineCount,      \* capacity_bytes / line_size
  LinesPerChunk,  \* lines_per_chunk_
  CacheLimit      \* cache_limit_

ASSUME BackendAssumption ==
  {LineCount, LinesPerChunk, CacheLimit} \subseteq Nat \ {0}

Lines == 0 .. LineCount - 1
Chunk(l) == l \div LinesPerChunk
ChunkLines(c) == {l \in Lines : Chunk(l) = c}

Kinds == {"sparse", "mmap_sparse", "chunk_file"}
Persistent(b) == b.kind # "sparse"

\* A line of zeros, as a file that was never written reads.
Zero == [data |-> [h \in {1, 2} |-> 0], version |-> 0,
         flipped |-> FALSE, shadow |-> FALSE, ecc |-> FALSE]

\* The header that is not there yet, and the one make_header() returns.
NoHeader == [made |-> FALSE, allocated |-> 0, written |-> 0]
MakeHeader == [made |-> TRUE, allocated |-> 0, written |-> 0]

\* Empty tables and files of size 0.
EmptyBackend(kind) ==
  [kind |-> kind, file |-> [l \in Lines |-> Zero],
   present |-> {}, written |-> {}, header |-> NoHeader,
   allocated |-> 0, unique |-> 0, cache |-> <<>>]

-----------------------------------------------------------------------------
(* The chunk cache, least recently used chunk first *)

Cached(b, c) == {i \in DOMAIN b.cache : b.cache[i].chunk = c}

\* write_chunk()
WriteChunk(b, entry) ==
  IF ~entry.dirty THEN b
  ELSE [b EXCEPT !.file = [l \in Lines |-> IF Chunk(l) = entry.chunk
                                           THEN entry.copy[l] ELSE @[l]]]

\* Fault: a full cache grows.
FaultEvict(b) == b

\* Room for one more chunk.
Evict(b) ==
  IF Len(b.cache) < CacheLimit THEN b
  ELSE [WriteChunk(b, Head(b.cache)) EXCEPT !.cache = Tail(@)]

ReadChunk(b, c) ==
  [chunk |-> c, dirty |-> FALSE, copy |-> [l \in ChunkLines(c) |-> b.file[l]]]

\* ensure_chunk(): the chunk is cached, and the last one used.
EnsureChunk(b, c) ==
  IF Cached(b, c) # {}
  THEN LET i == CHOOSE i \in Cached(b, c) : TRUE IN
       [b EXCEPT !.cache = Append(RemoveAt(@, i), @[i])]
  ELSE LET room == Evict(b) IN
       [room EXCEPT !.cache = Append(@, ReadChunk(room, c))]

-----------------------------------------------------------------------------
(* The operations of the interface *)

\* What load() fills in, whichever way the line is kept.
Block(b, l) ==
  IF l \notin b.present THEN Zero
  ELSE IF Cached(b, Chunk(l)) = {} THEN b.file[l]
       ELSE b.cache[CHOOSE i \in Cached(b, Chunk(l)) : TRUE].copy[l]

\* load() of a line, which may bring its chunk into the cache.
AfterLoad(b, l) ==
  IF b.kind = "chunk_file" /\ l \in b.present
  THEN EnsureChunk(b, Chunk(l)) ELSE b

\* Fault: a line that is stored again counts as a new one.
FaultCount(b, l, block) ==
  [b EXCEPT
     !.present = @ \cup {l},
     !.allocated = @ + 1,
     !.written = IF block.version > 0 THEN @ \cup {l} ELSE @ \ {l},
     !.unique = IF block.version > 0 THEN @ + 1 ELSE @]

\* The presence and written bits, and the two counters that follow them.
Count(b, l, block) ==
  [b EXCEPT
     !.present = @ \cup {l},
     !.allocated = IF l \in b.present THEN @ ELSE @ + 1,
     !.written = IF block.version > 0 THEN @ \cup {l} ELSE @ \ {l},
     !.unique = CASE block.version > 0 /\ l \notin b.written -> @ + 1
                  [] block.version = 0 /\ l \in b.written -> @ - 1
                  [] OTHER -> @]

\* Fault: the cached chunk is changed but not marked dirty.
FaultPut(b, l, block) ==
  IF b.kind # "chunk_file" THEN [b EXCEPT !.file[l] = block]
  ELSE LET e == EnsureChunk(b, Chunk(l)) IN
       [e EXCEPT !.cache[Len(e.cache)].copy[l] = block]

Put(b, l, block) ==
  IF b.kind # "chunk_file" THEN [b EXCEPT !.file[l] = block]
  ELSE LET e == EnsureChunk(b, Chunk(l)) IN
       [e EXCEPT !.cache[Len(e.cache)].copy[l] = block,
                 !.cache[Len(e.cache)].dirty = TRUE]

\* store()
Store(b, l, block) == Count(Put(b, l, block), l, block)

\* flush() up to the header: every dirty chunk is written and stays cached.
FlushChunks(b) ==
  LET flushed(acc, entry) == WriteChunk(acc, entry)
  IN [FoldLeft(flushed, b, b.cache) EXCEPT
        !.cache = [i \in DOMAIN @ |-> [@[i] EXCEPT !.dirty = FALSE]]]

FlushHeader(b) ==
  IF Persistent(b)
  THEN [b EXCEPT !.header = [made |-> TRUE, allocated |-> b.allocated,
                             written |-> b.unique]]
  ELSE b

\* clear(): all files start again from nothing, with a new header.
Clear(b) == [EmptyBackend(b.kind) EXCEPT
  !.header = IF Persistent(b) THEN MakeHeader ELSE NoHeader]

\* validate_header() and validate_header_counters(): false makes the
\* constructor throw.  A missing header makes the files new ones.
HeaderFits(b) ==
  b.header.made =>
    b.header.allocated <= LineCount /\ b.header.written <= b.header.allocated

\* The constructor on the files a process left; a table is empty again.
Open(b) ==
  IF ~Persistent(b) THEN EmptyBackend(b.kind)
  ELSE [b EXCEPT !.header = IF @.made THEN @ ELSE MakeHeader,
                 !.allocated = b.header.allocated,
                 !.unique = b.header.written,
                 !.cache = <<>>]
==============================================================================
