---------------------------- MODULE StorageProofs ----------------------------
(****************************************************************************)
(* The storage of a stack, for every number of lines and banks, chunk       *)
(* size, cache limit and set of setups.  First the backend: bringing a      *)
(* chunk in, with the eviction and the write to the file that this may      *)
(* take, changes no line, and storing a line changes that line only and     *)
(* keeps the counters.  Then the folds: the rows written back, the chunks   *)
(* flushed, the lines of a dump, each stored one after the other.  Last the *)
(* image in front of the backend: every operation keeps its invariant       *)
(* ImageInv, from which reads see writes, counters count lines, flushed     *)
(* files are complete, and the errors that were injected can be found.      *)
(****************************************************************************)
EXTENDS MemoryImage, FiniteSetTheorems, SequenceTheorems, WellFoundedInduction, TLAPS

\* Backends whose lines hold blocks of D.
Entries(D) ==
  [chunk : Nat, dirty : BOOLEAN, copy : UNION {[S -> D] : S \in SUBSET Lines}]
Backends(D) ==
  [kind : Kinds, file : [Lines -> D], present : SUBSET Lines,
   written : SUBSET Lines, header : [made : BOOLEAN, allocated : Nat, written : Nat],
   allocated : Nat, unique : Nat, cache : Seq(Entries(D))]

\* Cached chunks are whole and cached once, the clean ones agree with the file,
\* and only one kind of backend caches.
WholeChunks(b) ==
  \A i \in DOMAIN b.cache : DOMAIN b.cache[i].copy = ChunkLines(b.cache[i].chunk)
OnceCached(b) ==
  \A i, j \in DOMAIN b.cache : b.cache[i].chunk = b.cache[j].chunk => i = j
CleanAgree(b) ==
  \A i \in DOMAIN b.cache :
    ~b.cache[i].dirty =>
      \A l \in ChunkLines(b.cache[i].chunk) : b.cache[i].copy[l] = b.file[l]
Coherent(b) ==
  /\ WholeChunks(b) /\ OnceCached(b) /\ CleanAgree(b)
  /\ Len(b.cache) <= CacheLimit
  /\ b.kind # "chunk_file" => b.cache = <<>>

\* What the header is made from.
CountersHold(b) ==
  b.allocated = Cardinality(b.present) /\ b.unique = Cardinality(b.written)

-----------------------------------------------------------------------------
(* Sequences *)

\* RemoveAt() closes the gap.
LEMMA RemoveAtElements ==
  ASSUME NEW S, NEW s \in Seq(S), NEW i \in 1 .. Len(s)
  PROVE  /\ RemoveAt(s, i) \in Seq(S)
         /\ Len(RemoveAt(s, i)) = Len(s) - 1
         /\ \A j \in 1 .. Len(s) - 1 :
              RemoveAt(s, i)[j] = IF j < i THEN s[j] ELSE s[j + 1]
<1>1. /\ SubSeq(s, 1, i - 1) \in Seq(S) /\ Len(SubSeq(s, 1, i - 1)) = i - 1
      /\ \A j \in 1 .. i - 1 : SubSeq(s, 1, i - 1)[j] = s[j]
  OBVIOUS
<1>2. /\ SubSeq(s, i + 1, Len(s)) \in Seq(S)
      /\ Len(SubSeq(s, i + 1, Len(s))) = Len(s) - i
      /\ \A j \in 1 .. Len(s) - i : SubSeq(s, i + 1, Len(s))[j] = s[i + j]
  OBVIOUS
<1> DEFINE p == SubSeq(s, 1, i - 1)
           q == SubSeq(s, i + 1, Len(s))
<1> HIDE DEF p, q
<1>3. p \in Seq(S) /\ q \in Seq(S) /\ Len(p) = i - 1 /\ Len(q) = Len(s) - i
  BY <1>1, <1>2 DEF p, q
<1>4. /\ p \o q \in Seq(S) /\ Len(p \o q) = Len(s) - 1
      /\ \A j \in 1 .. Len(s) - 1 :
           (p \o q)[j] = IF j < i THEN p[j] ELSE q[j - (i - 1)]
  BY <1>3
<1>5. ASSUME NEW j \in 1 .. Len(s) - 1
      PROVE  (p \o q)[j] = IF j < i THEN s[j] ELSE s[j + 1]
  <2>1. CASE j < i
    BY <1>1, <1>4, <2>1 DEF p
  <2>2. CASE j >= i
    <3>1. j - (i - 1) \in 1 .. Len(s) - i /\ i + (j - (i - 1)) = j + 1
      BY <2>2
    <3>2. q[j - (i - 1)] = s[i + (j - (i - 1))]
      BY <1>2, <3>1 DEF q
    <3> QED BY <1>4, <2>2, <3>1, <3>2
  <2>3. j < i \/ j >= i
    OBVIOUS
  <2> QED BY <2>1, <2>2, <2>3
<1> QED BY <1>4, <1>5 DEF RemoveAt, p, q

\* t has the elements of s, in another order.
Permuted(t, s) ==
  \E old \in [1 .. Len(s) -> 1 .. Len(s)] :
    /\ \A j \in 1 .. Len(s) : t[j] = s[old[j]]
    /\ \A j, k \in 1 .. Len(s) : old[j] = old[k] => j = k
    /\ \A k \in 1 .. Len(s) : \E j \in 1 .. Len(s) : old[j] = k

\* When an element moves to the end nothing is repeated or lost.
LEMMA MoveToEnd ==
  ASSUME NEW S, NEW s \in Seq(S), NEW i \in 1 .. Len(s)
  PROVE  /\ Append(RemoveAt(s, i), s[i]) \in Seq(S)
         /\ Len(Append(RemoveAt(s, i), s[i])) = Len(s)
         /\ Append(RemoveAt(s, i), s[i])[Len(s)] = s[i]
         /\ Permuted(Append(RemoveAt(s, i), s[i]), s)
<1> DEFINE r == RemoveAt(s, i)
           t == Append(r, s[i])
           old == [j \in 1 .. Len(s) |->
                     IF j = Len(s) THEN i ELSE IF j < i THEN j ELSE j + 1]
<1>1. r \in Seq(S) /\ Len(r) = Len(s) - 1
      /\ \A j \in 1 .. Len(s) - 1 : r[j] = IF j < i THEN s[j] ELSE s[j + 1]
  BY RemoveAtElements
<1>2. s[i] \in S /\ Len(s) \in Nat
  OBVIOUS
<1> HIDE DEF r
<1>3. t \in Seq(S) /\ Len(t) = Len(s)
      /\ t[Len(s)] = s[i] /\ \A j \in 1 .. Len(s) - 1 : t[j] = r[j]
  BY <1>1, <1>2
<1>4. old \in [1 .. Len(s) -> 1 .. Len(s)]
  BY <1>2
<1>5. \A j \in 1 .. Len(s) : t[j] = s[old[j]]
  BY <1>1, <1>2, <1>3
<1>6. \A j, k \in 1 .. Len(s) : old[j] = old[k] => j = k
  BY <1>2
<1>7. ASSUME NEW k \in 1 .. Len(s)
      PROVE  \E j \in 1 .. Len(s) : old[j] = k
  <2> DEFINE j == IF k = i THEN Len(s) ELSE IF k < i THEN k ELSE k - 1
  <2>1. j \in 1 .. Len(s) /\ old[j] = k
    BY <1>2
  <2> QED BY <2>1
<1>8. Permuted(t, s)
  BY <1>4, <1>5, <1>6, <1>7 DEF Permuted
<1> QED BY <1>3, <1>8 DEF r

-----------------------------------------------------------------------------
(* Counters *)

\* store() keeps allocated_lines_ and unique_written_lines_ equal to what the
\* presence file says, a line that is stored again or made unwritten included.
THEOREM CountKeepsCounters ==
  ASSUME NEW D, NEW b \in Backends(D), NEW l \in Lines, NEW x,
         x.version \in Nat, CountersHold(b)
  PROVE  CountersHold(Count(b, l, x))
<1>1. b.present \subseteq Lines /\ b.written \subseteq Lines
  BY DEF Backends
<1>2. IsFiniteSet(Lines)
  BY FS_Interval, BackendAssumption DEF Lines
<1>3. IsFiniteSet(b.present) /\ IsFiniteSet(b.written)
  BY <1>1, <1>2, FS_Subset
<1>4. Cardinality(b.present \cup {l}) =
        IF l \in b.present THEN Cardinality(b.present) ELSE Cardinality(b.present) + 1
  BY <1>3, FS_AddElement
<1>5. Cardinality(b.written \cup {l}) =
        IF l \in b.written THEN Cardinality(b.written) ELSE Cardinality(b.written) + 1
  BY <1>3, FS_AddElement
<1>6. Cardinality(b.written \ {l}) =
        IF l \in b.written THEN Cardinality(b.written) - 1 ELSE Cardinality(b.written)
  BY <1>3, FS_RemoveElement
<1> DEFINE c == Count(b, l, x)
<1>7. /\ c.present = b.present \cup {l}
      /\ c.allocated = IF l \in b.present THEN b.allocated ELSE b.allocated + 1
      /\ c.written = IF x.version > 0 THEN b.written \cup {l} ELSE b.written \ {l}
      /\ c.unique = CASE x.version > 0 /\ l \notin b.written -> b.unique + 1
                      [] x.version = 0 /\ l \in b.written -> b.unique - 1
                      [] OTHER -> b.unique
  BY DEF Count, Backends
<1> HIDE DEF c
<1>8. c.allocated = Cardinality(c.present)
  BY <1>4, <1>7 DEF CountersHold
<1>9. CASE x.version > 0
  <2>1. c.unique = Cardinality(c.written)
    BY <1>5, <1>7, <1>9 DEF CountersHold
  <2> QED BY <1>8, <2>1 DEF CountersHold, c
<1>10. CASE x.version = 0
  <2>1. c.unique = Cardinality(c.written)
    BY <1>6, <1>7, <1>10 DEF CountersHold
  <2> QED BY <1>8, <2>1 DEF CountersHold, c
<1> QED BY <1>9, <1>10
-----------------------------------------------------------------------------
(* Where a line is kept *)

\* The block of a line that is present: in its chunk, or in the file.
Kept(b, l) ==
  IF Cached(b, Chunk(l)) = {} THEN b.file[l]
  ELSE b.cache[CHOOSE i \in Cached(b, Chunk(l)) : TRUE].copy[l]

\* A line of a cached chunk is kept in the one entry of that chunk.
LEMMA KeptInCache ==
  ASSUME NEW b, OnceCached(b), NEW l, NEW i \in DOMAIN b.cache,
         b.cache[i].chunk = Chunk(l)
  PROVE  Kept(b, l) = b.cache[i].copy[l]
<1>1. Cached(b, Chunk(l)) = {i}
  BY DEF Cached, OnceCached
<1>2. (CHOOSE j \in {i} : TRUE) = i
  OBVIOUS
<1> QED BY <1>1, <1>2 DEF Kept

\* A line of no cached chunk is kept in the file.
LEMMA KeptInFile ==
  ASSUME NEW b, NEW l, \A i \in DOMAIN b.cache : b.cache[i].chunk # Chunk(l)
  PROVE  Kept(b, l) = b.file[l]
<1>1. Cached(b, Chunk(l)) = {}
  BY DEF Cached
<1> QED BY <1>1 DEF Kept

\* Block() is what is kept of a line that is present.
LEMMA BlockIsKept ==
  ASSUME NEW b, NEW l
  PROVE  Block(b, l) = IF l \in b.present THEN Kept(b, l) ELSE Zero
BY DEF Block, Kept

\* Chunks have numbers.
LEMMA ChunkNumber ==
  ASSUME NEW l \in Lines
  PROVE  Chunk(l) \in Nat
<1>1. l \in Nat /\ LinesPerChunk \in Nat \ {0}
  BY BackendAssumption DEF Lines
<1> QED BY <1>1 DEF Chunk

\* The copy of a chunk holds blocks.
LEMMA CopyHoldsBlocks ==
  ASSUME NEW D, NEW e \in Entries(D), DOMAIN e.copy = ChunkLines(e.chunk),
         NEW l \in ChunkLines(e.chunk)
  PROVE  e.copy[l] \in D
BY DEF Entries

-----------------------------------------------------------------------------
(* Eviction *)

\* The least recently used chunk leaves a full cache, and no line changes: if
\* it was changed in the cache, the file has it now.
LEMMA EvictIsTransparent ==
  ASSUME NEW D, NEW b \in Backends(D), Coherent(b), b.kind = "chunk_file"
  PROVE  LET r == Evict(b)
         IN /\ r \in Backends(D) /\ Coherent(r) /\ Len(r.cache) < CacheLimit
            /\ r.kind = b.kind /\ r.present = b.present
            /\ \A l \in Lines : Kept(r, l) = Kept(b, l)
            /\ \A i \in DOMAIN r.cache : \E j \in DOMAIN b.cache :
                 r.cache[i].chunk = b.cache[j].chunk
<1>1. CASE Len(b.cache) < CacheLimit
  BY <1>1 DEF Evict
<1>2. CASE ~(Len(b.cache) < CacheLimit)
  <2> DEFINE head == Head(b.cache)
             rest == Tail(b.cache)
             r == Evict(b)
             file == [l \in Lines |-> IF head.dirty /\ Chunk(l) = head.chunk
                                      THEN head.copy[l] ELSE b.file[l]]
  <2>1. b.cache \in Seq(Entries(D)) /\ Len(b.cache) \in Nat
        /\ b.cache # <<>> /\ CacheLimit \in Nat \ {0} /\ Len(b.cache) = CacheLimit
    BY <1>2, BackendAssumption DEF Backends, Coherent
  <2>2. /\ head = b.cache[1] /\ head \in Entries(D) /\ 1 \in DOMAIN b.cache
        /\ rest \in Seq(Entries(D)) /\ Len(rest) = Len(b.cache) - 1
        /\ DOMAIN rest = 1 .. Len(b.cache) - 1 /\ DOMAIN b.cache = 1 .. Len(b.cache)
        /\ \A i \in DOMAIN rest : i + 1 \in DOMAIN b.cache /\ rest[i] = b.cache[i + 1]
    BY <2>1
  <2>3. b.file \in [Lines -> D]
    BY DEF Backends
  <2>4. r = [b EXCEPT !.file = file, !.cache = rest]
    <3>1. CASE head.dirty
      <4>1. WriteChunk(b, head) = [b EXCEPT !.file = file]
        BY <3>1 DEF WriteChunk
      <4>2. r = [WriteChunk(b, head) EXCEPT !.cache = Tail(WriteChunk(b, head).cache)]
        BY <1>2 DEF Evict
      <4>3. WriteChunk(b, head).cache = b.cache
        BY <4>1 DEF Backends
      <4> QED BY <4>1, <4>2, <4>3 DEF Backends
    <3>2. CASE ~head.dirty
      <4>1. WriteChunk(b, head) = b
        BY <3>2 DEF WriteChunk
      <4>2. file = b.file
        BY <2>3, <3>2
      <4>3. r = [b EXCEPT !.cache = rest]
        BY <1>2, <4>1 DEF Evict
      <4> QED BY <4>2, <4>3 DEF Backends
    <3> QED BY <3>1, <3>2
  <2> HIDE DEF r, head, rest
  <2>5. ASSUME NEW l \in Lines, Chunk(l) = head.chunk
        PROVE  head.copy[l] \in D /\ (~head.dirty => head.copy[l] = b.file[l])
    <3>1. l \in ChunkLines(head.chunk)
      BY <2>5 DEF ChunkLines
    <3>2. DOMAIN head.copy = ChunkLines(head.chunk)
      BY <2>2 DEF Coherent, WholeChunks
    <3> QED BY <2>2, <3>1, <3>2, CopyHoldsBlocks DEF Coherent, CleanAgree
  <2>6. file \in [Lines -> D]
    BY <2>3, <2>5
  <2>7. r \in Backends(D)
    BY <2>2, <2>4, <2>6 DEF Backends
  <2>8. r.cache = rest /\ r.file = file /\ r.kind = b.kind /\ r.present = b.present
    BY <2>4 DEF Backends
  <2>9. \A i \in DOMAIN rest : rest[i].chunk # head.chunk
    BY <2>2 DEF Coherent, OnceCached
  <2>10. WholeChunks(r)
    BY <2>2, <2>8 DEF WholeChunks, Coherent
  <2>11. OnceCached(r)
    <3> SUFFICES ASSUME NEW i \in DOMAIN rest, NEW j \in DOMAIN rest,
                        rest[i].chunk = rest[j].chunk
                 PROVE  i = j
      BY <2>8 DEF OnceCached
    <3>1. i + 1 = j + 1
      BY <2>2 DEF Coherent, OnceCached
    <3> QED BY <2>1, <2>2, <3>1
  <2>12. CleanAgree(r)
    <3> SUFFICES ASSUME NEW i \in DOMAIN rest, ~rest[i].dirty,
                        NEW l \in ChunkLines(rest[i].chunk)
                 PROVE  rest[i].copy[l] = file[l]
      BY <2>8 DEF CleanAgree
    <3>1. rest[i].copy[l] = b.file[l]
      <4>1. i + 1 \in DOMAIN b.cache /\ rest[i] = b.cache[i + 1]
        BY <2>2
      <4> DEFINE k == i + 1
      <4> HIDE DEF k
      <4>2. k \in DOMAIN b.cache /\ rest[i] = b.cache[k]
        BY <4>1 DEF k
      <4>3. b.cache[k].copy[l] = b.file[l]
        BY <4>2 DEF Coherent, CleanAgree
      <4> QED BY <4>2, <4>3
    <3>2. l \in Lines /\ Chunk(l) # head.chunk
      BY <2>9 DEF ChunkLines
    <3> QED BY <3>1, <3>2
  <2>13. Len(r.cache) < CacheLimit
    BY <2>1, <2>2, <2>8
  <2>14. Coherent(r)
    <3>1. Len(r.cache) <= CacheLimit
      BY <2>1, <2>2, <2>8
    <3> QED BY <2>8, <2>10, <2>11, <2>12, <3>1 DEF Coherent
  <2>15. ASSUME NEW l \in Lines
         PROVE  Kept(r, l) = Kept(b, l)
    <3>1. CASE Chunk(l) = head.chunk
      <4>1. Kept(b, l) = head.copy[l]
        BY <2>2, <3>1, KeptInCache DEF Coherent
      <4>2. Kept(r, l) = file[l]
        BY <2>8, <2>9, <3>1, KeptInFile
      <4> QED BY <2>5, <3>1, <4>1, <4>2
    <3>2. CASE Chunk(l) # head.chunk /\ \E i \in DOMAIN rest : rest[i].chunk = Chunk(l)
      <4>1. PICK i \in DOMAIN rest : rest[i].chunk = Chunk(l)
        BY <3>2
      <4>2. Kept(r, l) = rest[i].copy[l]
        BY <2>8, <2>11, <4>1, KeptInCache
      <4>3. Kept(b, l) = b.cache[i + 1].copy[l]
        BY <2>2, <4>1, KeptInCache DEF Coherent
      <4> QED BY <2>2, <4>2, <4>3
    <3>3. CASE Chunk(l) # head.chunk /\ ~\E i \in DOMAIN rest : rest[i].chunk = Chunk(l)
      <4>1. \A i \in DOMAIN b.cache : b.cache[i].chunk # Chunk(l)
        <5> SUFFICES ASSUME NEW i \in DOMAIN b.cache, i # 1
                     PROVE  b.cache[i].chunk # Chunk(l)
          BY <2>2, <3>3
        <5>1. i - 1 \in DOMAIN rest /\ (i - 1) + 1 = i
          BY <2>1, <2>2
        <5> QED BY <2>2, <3>3, <5>1
      <4>2. Kept(b, l) = b.file[l]
        BY <4>1, KeptInFile
      <4>3. Kept(r, l) = file[l]
        BY <2>8, <3>3, KeptInFile
      <4> QED BY <3>3, <4>2, <4>3
    <3> QED BY <3>1, <3>2, <3>3
  <2> QED BY <2>2, <2>7, <2>8, <2>13, <2>14, <2>15 DEF r
<1> QED BY <1>1, <1>2
-----------------------------------------------------------------------------
(* ensure_chunk() *)

\* The two ways to bring a chunk in.
Touch(b, i) == [b EXCEPT !.cache = Append(RemoveAt(b.cache, i), b.cache[i])]
Fetch(b, c) == [b EXCEPT !.cache = Append(b.cache, ReadChunk(b, c))]

\* r is b with chunk c used last, and otherwise the same storage.
BroughtIn(D, b, r, c) ==
  /\ r \in Backends(D) /\ Coherent(r)
  /\ r.kind = b.kind /\ r.present = b.present
  /\ Len(r.cache) \in Nat \ {0}
  /\ r.cache[Len(r.cache)].chunk = c
  /\ \A l \in Lines : Kept(r, l) = Kept(b, l)

\* A chunk that is cached becomes the last one used.
LEMMA TouchIsTransparent ==
  ASSUME NEW D, NEW b \in Backends(D), Coherent(b), b.kind = "chunk_file",
         NEW i \in DOMAIN b.cache
  PROVE  BroughtIn(D, b, Touch(b, i), b.cache[i].chunk)
<1> DEFINE r == Touch(b, i)
           s == b.cache
           t == Append(RemoveAt(s, i), s[i])
           n == Len(s)
<1>1. b.cache \in Seq(Entries(D)) /\ DOMAIN b.cache = 1 .. n /\ i \in 1 .. n
      /\ n \in Nat \ {0}
  BY DEF Backends
<1>2. t \in Seq(Entries(D)) /\ Len(t) = n /\ t[n] = b.cache[i] /\ Permuted(t, s)
  BY <1>1, MoveToEnd
<1> HIDE DEF t, n, r
<1>3. PICK old \in [1 .. n -> 1 .. n] :
           /\ \A j \in 1 .. n : t[j] = b.cache[old[j]]
           /\ \A j, k \in 1 .. n : old[j] = old[k] => j = k
           /\ \A k \in 1 .. n : \E j \in 1 .. n : old[j] = k
  BY <1>2 DEF Permuted, n
<1>4. r.cache = t /\ r.file = b.file /\ r.kind = b.kind /\ r.present = b.present
      /\ DOMAIN t = 1 .. n
  BY <1>2 DEF Backends, Touch, r, s, t
<1>5. r \in Backends(D)
  BY <1>2 DEF Backends, Touch, r, s, t
<1>6. WholeChunks(r)
  <2> SUFFICES ASSUME NEW j \in 1 .. n
               PROVE  DOMAIN t[j].copy = ChunkLines(t[j].chunk)
    BY <1>4 DEF WholeChunks
  <2>1. PICK k \in DOMAIN b.cache : t[j] = b.cache[k]
    BY <1>1, <1>3
  <2>2. DOMAIN b.cache[k].copy = ChunkLines(b.cache[k].chunk)
    BY DEF Coherent, WholeChunks
  <2> QED BY <2>1, <2>2
<1>7. OnceCached(r)
  <2> SUFFICES ASSUME NEW j \in 1 .. n, NEW k \in 1 .. n, t[j].chunk = t[k].chunk
               PROVE  j = k
    BY <1>4 DEF OnceCached
  <2>1. old[j] \in DOMAIN b.cache /\ old[k] \in DOMAIN b.cache
    BY <1>1
  <2>2. b.cache[old[j]].chunk = b.cache[old[k]].chunk
    BY <1>3
  <2>3. old[j] = old[k]
    BY <2>1, <2>2 DEF Coherent, OnceCached
  <2> QED BY <1>3, <2>3
<1>8. CleanAgree(r)
  <2> SUFFICES ASSUME NEW j \in 1 .. n, ~t[j].dirty, NEW l \in ChunkLines(t[j].chunk)
               PROVE  t[j].copy[l] = b.file[l]
    BY <1>4 DEF CleanAgree
  <2> DEFINE k == old[j]
  <2>1. k \in DOMAIN b.cache /\ t[j] = b.cache[k]
    BY <1>1, <1>3
  <2> HIDE DEF k
  <2>2. b.cache[k].copy[l] = b.file[l]
    BY <2>1 DEF Coherent, CleanAgree
  <2> QED BY <2>1, <2>2
<1>9. Coherent(r)
  BY <1>2, <1>4, <1>6, <1>7, <1>8 DEF Coherent, n
<1>10. ASSUME NEW l \in Lines
       PROVE  Kept(r, l) = Kept(b, l)
  <2>1. CASE \E j \in 1 .. n : t[j].chunk = Chunk(l)
    <3>1. PICK j \in 1 .. n : t[j].chunk = Chunk(l)
      BY <2>1
    <3> DEFINE k == old[j]
    <3>2. k \in DOMAIN b.cache /\ t[j] = b.cache[k]
      BY <1>1, <1>3
    <3> HIDE DEF k
    <3>3. Kept(b, l) = b.cache[k].copy[l]
      BY <3>1, <3>2, KeptInCache DEF Coherent
    <3>4. Kept(r, l) = t[j].copy[l]
      BY <1>4, <1>7, <3>1, KeptInCache, ZenonT(60)
    <3> QED BY <3>2, <3>3, <3>4
  <2>2. CASE ~\E j \in 1 .. n : t[j].chunk = Chunk(l)
    <3>1. \A k \in DOMAIN b.cache : b.cache[k].chunk # Chunk(l)
      <4> SUFFICES ASSUME NEW k \in 1 .. n
                   PROVE  b.cache[k].chunk # Chunk(l)
        BY <1>1
      <4>1. PICK j \in 1 .. n : old[j] = k
        BY <1>3
      <4>2. t[j] = b.cache[k]
        BY <1>3, <4>1
      <4> QED BY <2>2, <4>2
    <3>2. Kept(b, l) = b.file[l]
      BY <3>1, KeptInFile
    <3>3. Kept(r, l) = r.file[l]
      BY <1>4, <2>2, KeptInFile
    <3> QED BY <1>4, <3>2, <3>3
  <2> QED BY <2>1, <2>2
<1>11. Len(r.cache) = n /\ r.cache[n] = b.cache[i]
  BY <1>2, <1>4
<1> QED BY <1>1, <1>4, <1>5, <1>9, <1>10, <1>11 DEF BroughtIn, r

\* A chunk that is not cached is read from the file behind the others.
LEMMA FetchIsTransparent ==
  ASSUME NEW D, NEW b \in Backends(D), Coherent(b), b.kind = "chunk_file",
         Len(b.cache) < CacheLimit, NEW c \in Nat,
         \A i \in DOMAIN b.cache : b.cache[i].chunk # c
  PROVE  BroughtIn(D, b, Fetch(b, c), c)
<1> DEFINE r == Fetch(b, c)
           e == ReadChunk(b, c)
           t == Append(b.cache, e)
           n == Len(b.cache)
<1>1. b.cache \in Seq(Entries(D)) /\ DOMAIN b.cache = 1 .. n /\ n \in Nat
      /\ b.file \in [Lines -> D] /\ CacheLimit \in Nat
  BY BackendAssumption DEF Backends
<1>2. /\ e.chunk = c /\ DOMAIN e.copy = ChunkLines(c)
      /\ \A l \in ChunkLines(c) : e.copy[l] = b.file[l]
  BY DEF ReadChunk
<1>3. e \in Entries(D)
  <2>1. ChunkLines(c) \in SUBSET Lines
    BY DEF ChunkLines
  <2>2. [l \in ChunkLines(c) |-> b.file[l]] \in [ChunkLines(c) -> D]
    BY <1>1, <2>1
  <2>3. [l \in ChunkLines(c) |-> b.file[l]] \in UNION {[S -> D] : S \in SUBSET Lines}
    BY <2>1, <2>2
  <2> QED BY <2>3 DEF Entries, ReadChunk
<1> HIDE DEF e
<1>4. /\ t \in Seq(Entries(D)) /\ Len(t) = n + 1 /\ DOMAIN t = 1 .. n + 1
      /\ t[n + 1] = e /\ \A i \in 1 .. n : t[i] = b.cache[i]
  BY <1>1, <1>3
<1> HIDE DEF t
<1>5. r.cache = t /\ r.file = b.file /\ r.kind = b.kind /\ r.present = b.present
  BY DEF Backends, Fetch, t, e
<1>6. r \in Backends(D)
  BY <1>4 DEF Backends, Fetch, t, e
<1> HIDE DEF r
<1>7. \A i \in 1 .. n + 1 : i = n + 1 \/ i \in 1 .. n
  BY <1>1
<1>8. WholeChunks(r)
  BY <1>1, <1>2, <1>4, <1>5, <1>7 DEF WholeChunks, Coherent
<1>9. OnceCached(r)
  <2> SUFFICES ASSUME NEW j \in 1 .. n + 1, NEW k \in 1 .. n + 1,
                      t[j].chunk = t[k].chunk
               PROVE  j = k
    BY <1>4, <1>5 DEF OnceCached
  <2>1. CASE j \in 1 .. n /\ k \in 1 .. n
    BY <1>1, <1>4, <2>1 DEF Coherent, OnceCached
  <2>2. CASE j \in 1 .. n /\ k = n + 1
    BY <1>1, <1>2, <1>4, <2>2
  <2>3. CASE j = n + 1 /\ k \in 1 .. n
    BY <1>1, <1>2, <1>4, <2>3
  <2> QED BY <1>7, <2>1, <2>2, <2>3
<1>10. CleanAgree(r)
  <2> SUFFICES ASSUME NEW j \in 1 .. n + 1, ~t[j].dirty, NEW l \in ChunkLines(t[j].chunk)
               PROVE  t[j].copy[l] = b.file[l]
    BY <1>4, <1>5 DEF CleanAgree
  <2>1. CASE j = n + 1
    BY <1>2, <1>4, <2>1
  <2>2. CASE j \in 1 .. n
    <3>1. j \in DOMAIN b.cache /\ t[j] = b.cache[j]
      BY <1>1, <1>4, <2>2
    <3> QED BY <3>1 DEF Coherent, CleanAgree
  <2> QED BY <1>7, <2>1, <2>2
<1>11. Coherent(r)
  <2>1. Len(r.cache) <= CacheLimit
    BY <1>1, <1>4, <1>5
  <2> QED BY <1>5, <1>8, <1>9, <1>10, <2>1 DEF Coherent
<1>12. ASSUME NEW l \in Lines
       PROVE  Kept(r, l) = Kept(b, l)
  <2>1. CASE \E j \in 1 .. n : b.cache[j].chunk = Chunk(l)
    <3>1. PICK j \in 1 .. n : b.cache[j].chunk = Chunk(l)
      BY <2>1
    <3>2. Kept(b, l) = b.cache[j].copy[l]
      BY <1>1, <3>1, KeptInCache DEF Coherent
    <3>3. j \in DOMAIN r.cache /\ r.cache[j] = b.cache[j]
      BY <1>1, <1>4, <1>5
    <3>4. Kept(r, l) = r.cache[j].copy[l]
      BY <1>9, <3>1, <3>3, KeptInCache
    <3> QED BY <3>2, <3>3, <3>4
  <2>2. CASE ~\E j \in 1 .. n : b.cache[j].chunk = Chunk(l)
    <3>1. Kept(b, l) = b.file[l]
      BY <1>1, <2>2, KeptInFile
    <3>2. CASE Chunk(l) = c
      <4>1. n + 1 \in DOMAIN r.cache /\ r.cache[n + 1] = e
        BY <1>1, <1>4, <1>5
      <4>2. Kept(r, l) = e.copy[l]
        BY <1>2, <1>9, <3>2, <4>1, KeptInCache
      <4>3. l \in ChunkLines(c)
        BY <3>2 DEF ChunkLines
      <4> QED BY <1>2, <3>1, <4>2, <4>3
    <3>3. CASE Chunk(l) # c
      <4>1. \A j \in DOMAIN r.cache : r.cache[j].chunk # Chunk(l)
        BY <1>2, <1>4, <1>5, <1>7, <2>2, <3>3
      <4>2. Kept(r, l) = r.file[l]
        BY <4>1, KeptInFile
      <4> QED BY <1>5, <3>1, <4>2
    <3> QED BY <3>2, <3>3
  <2> QED BY <2>1, <2>2
<1>13. Len(r.cache) = n + 1 /\ r.cache[n + 1].chunk = c
  BY <1>2, <1>4, <1>5
<1>14. n + 1 \in Nat \ {0}
  BY <1>1
<1> QED BY <1>5, <1>6, <1>11, <1>12, <1>13, <1>14 DEF BroughtIn, r

\* ensure_chunk() brings in any chunk, in place of another one when the cache is
\* full, and changes no line of the storage.
THEOREM EnsureIsTransparent ==
  ASSUME NEW D, NEW b \in Backends(D), Coherent(b), b.kind = "chunk_file",
         NEW c \in Nat
  PROVE  BroughtIn(D, b, EnsureChunk(b, c), c)
<1>1. CASE Cached(b, c) # {}
  <2> DEFINE i == CHOOSE i \in Cached(b, c) : TRUE
  <2>1. i \in DOMAIN b.cache /\ b.cache[i].chunk = c
    BY <1>1 DEF Cached
  <2>2. EnsureChunk(b, c) = Touch(b, i)
    BY <1>1 DEF EnsureChunk, Touch
  <2> HIDE DEF i
  <2> QED BY <2>1, <2>2, TouchIsTransparent
<1>2. CASE Cached(b, c) = {}
  <2> DEFINE room == Evict(b)
  <2>1. /\ room \in Backends(D) /\ Coherent(room) /\ Len(room.cache) < CacheLimit
        /\ room.kind = b.kind /\ room.present = b.present
        /\ \A l \in Lines : Kept(room, l) = Kept(b, l)
        /\ \A i \in DOMAIN room.cache : \E j \in DOMAIN b.cache :
             room.cache[i].chunk = b.cache[j].chunk
    BY EvictIsTransparent
  <2>2. \A i \in DOMAIN room.cache : room.cache[i].chunk # c
    BY <1>2, <2>1 DEF Cached
  <2>3. EnsureChunk(b, c) = Fetch(room, c)
    BY <1>2 DEF EnsureChunk, Fetch
  <2>4. room.kind = "chunk_file"
    BY <2>1
  <2>5. BroughtIn(D, room, EnsureChunk(b, c), c)
    BY <2>1, <2>2, <2>3, <2>4, FetchIsTransparent
  <2> QED BY <2>1, <2>5 DEF BroughtIn
<1> QED BY <1>1, <1>2

-----------------------------------------------------------------------------
(* Storing a line *)

\* A copy stays a function to blocks when one of its lines changes.
LEMMA CopyIsFunction ==
  ASSUME NEW D, NEW S, NEW f, f \in [S -> D], NEW l \in S, NEW x \in D
  PROVE  [f EXCEPT ![l] = x] \in [S -> D]
OBVIOUS

\* An entry whose copy changes keeps its chunk.
LEMMA ChangedEntry ==
  ASSUME NEW D, NEW f \in Entries(D), NEW l, NEW x
  PROVE  [f EXCEPT !.copy[l] = x, !.dirty = TRUE] =
           [chunk |-> f.chunk, dirty |-> TRUE, copy |-> [f.copy EXCEPT ![l] = x]]
<1> DEFINE g == [f EXCEPT !.copy[l] = x, !.dirty = TRUE]
<1>1. DOMAIN f = {"chunk", "dirty", "copy"}
  BY DEF Entries
<1>2. DOMAIN g = {"chunk", "dirty", "copy"} /\ g.chunk = f.chunk /\ g.dirty = TRUE
      /\ g.copy = [f.copy EXCEPT ![l] = x]
      /\ g = [i \in {"chunk", "dirty", "copy"} |-> g[i]]
  BY <1>1
<1> HIDE DEF g
<1>3. g = [chunk |-> f.chunk, dirty |-> TRUE, copy |-> [f.copy EXCEPT ![l] = x]]
  BY <1>2
<1> QED BY <1>3 DEF g

\* The block of a line is put where the line is kept, and nothing else changes.
LEMMA PutChangesOneLine ==
  ASSUME NEW D, NEW b \in Backends(D), Coherent(b), NEW l \in Lines, NEW x \in D
  PROVE  LET r == Put(b, l, x)
         IN /\ r \in Backends(D) /\ Coherent(r) /\ r.present = b.present
            /\ \A k \in Lines : Kept(r, k) = IF k = l THEN x ELSE Kept(b, k)
<1> DEFINE r == Put(b, l, x)
<1>1. CASE b.kind # "chunk_file"
  <2>1. r = [b EXCEPT !.file[l] = x]
    BY <1>1 DEF Put
  <2>2. b.cache = <<>> /\ b.file \in [Lines -> D]
    BY <1>1 DEF Coherent, Backends
  <2> HIDE DEF r
  <2>3. /\ r \in Backends(D) /\ r.present = b.present /\ r.cache = <<>>
        /\ r.file = [b.file EXCEPT ![l] = x]
    BY <2>1, <2>2 DEF Backends
  <2>4. Coherent(r)
    BY <2>2, <2>3, BackendAssumption
    DEF Coherent, WholeChunks, OnceCached, CleanAgree
  <2>5. ASSUME NEW k \in Lines
        PROVE  Kept(r, k) = IF k = l THEN x ELSE Kept(b, k)
    <3>1. Kept(r, k) = r.file[k] /\ Kept(b, k) = b.file[k]
      BY <2>2, <2>3, KeptInFile
    <3> QED BY <2>2, <2>3, <3>1
  <2> QED BY <2>3, <2>4, <2>5 DEF r
<1>2. CASE b.kind = "chunk_file"
  <2> DEFINE e == EnsureChunk(b, Chunk(l))
             n == Len(e.cache)
             entry == [e.cache[n] EXCEPT !.copy[l] = x, !.dirty = TRUE]
  <2>1. BroughtIn(D, b, e, Chunk(l))
    BY <1>2, ChunkNumber, EnsureIsTransparent
  <2>2. r = [e EXCEPT !.cache[n].copy[l] = x, !.cache[n].dirty = TRUE]
    BY <1>2 DEF Put
  <2> HIDE DEF e, r
  <2>3. /\ e \in Backends(D) /\ Coherent(e) /\ e.kind = "chunk_file"
        /\ e.present = b.present
        /\ e.cache \in Seq(Entries(D)) /\ n \in Nat \ {0}
        /\ DOMAIN e.cache = 1 .. n /\ n \in 1 .. n /\ e.cache[n] \in Entries(D)
        /\ e.cache[n].chunk = Chunk(l)
        /\ \A k \in Lines : Kept(e, k) = Kept(b, k)
    BY <1>2, <2>1 DEF BroughtIn, Backends
  <2>4. DOMAIN e.cache[n].copy = ChunkLines(Chunk(l)) /\ l \in ChunkLines(Chunk(l))
    BY <2>3 DEF Coherent, WholeChunks, ChunkLines
  <2>5. /\ entry.chunk = Chunk(l) /\ entry.dirty = TRUE
        /\ entry.copy = [e.cache[n].copy EXCEPT ![l] = x]
        /\ DOMAIN entry.copy = ChunkLines(Chunk(l))
        /\ entry = [chunk |-> Chunk(l), dirty |-> TRUE, copy |-> entry.copy]
    <3>1. entry = [chunk |-> e.cache[n].chunk, dirty |-> TRUE,
                   copy |-> [e.cache[n].copy EXCEPT ![l] = x]]
      BY <2>3, ChangedEntry
    <3> HIDE DEF entry
    <3> QED BY <2>3, <2>4, <3>1
  <2>6. entry \in Entries(D)
    <3>1. \A k \in ChunkLines(Chunk(l)) : e.cache[n].copy[k] \in D
      BY <2>3, <2>4, CopyHoldsBlocks
    <3>2. e.cache[n].copy \in [ChunkLines(Chunk(l)) -> D]
      BY <2>3, <2>4, <3>1 DEF Entries
    <3>4. entry.copy \in [ChunkLines(Chunk(l)) -> D]
      BY <2>4, <2>5, <3>2, CopyIsFunction
    <3>3. ChunkLines(Chunk(l)) \in SUBSET Lines /\ Chunk(l) \in Nat
      BY ChunkNumber DEF ChunkLines
    <3>5. entry.copy \in UNION {[S -> D] : S \in SUBSET Lines}
      BY <3>3, <3>4
    <3> DEFINE copy == entry.copy
    <3> HIDE DEF copy, entry
    <3>6. [chunk |-> Chunk(l), dirty |-> TRUE, copy |-> copy] \in Entries(D)
      BY <3>3, <3>5 DEF Entries, copy
    <3> QED BY <2>5, <3>6 DEF copy
  <2> DEFINE t == [e.cache EXCEPT ![n] = entry]
  <2>7. r = [e EXCEPT !.cache = t]
    BY <2>2, <2>3 DEF Backends, Entries
  <2> HIDE DEF n, entry
  <2>8. /\ t \in Seq(Entries(D)) /\ Len(t) = n /\ DOMAIN t = 1 .. n
        /\ \A i \in 1 .. n : t[i] = IF i = n THEN entry ELSE e.cache[i]
    BY <2>3, <2>6
  <2> HIDE DEF t
  <2>9. /\ r \in Backends(D) /\ r.present = b.present /\ r.cache = t
        /\ r.file = e.file /\ r.kind = "chunk_file"
    BY <2>3, <2>7, <2>8 DEF Backends
  <2>10. \A i \in 1 .. n : t[i].chunk = e.cache[i].chunk
    BY <2>3, <2>5, <2>8
  <2>11. WholeChunks(r)
    BY <2>3, <2>5, <2>8, <2>9 DEF WholeChunks, Coherent
  <2>12. OnceCached(r)
    BY <2>3, <2>8, <2>9, <2>10 DEF OnceCached, Coherent
  <2>13. CleanAgree(r)
    BY <2>3, <2>5, <2>8, <2>9 DEF CleanAgree, Coherent
  <2>14. Coherent(r)
    <3>1. Len(e.cache) = n
      BY DEF n
    <3> QED BY <2>3, <2>8, <2>9, <2>11, <2>12, <2>13, <3>1 DEF Coherent
  <2>15. ASSUME NEW k \in Lines
         PROVE  Kept(r, k) = IF k = l THEN x ELSE Kept(b, k)
    <3>1. CASE Chunk(k) = Chunk(l)
      <4>4. n \in DOMAIN r.cache /\ r.cache[n] = entry /\ entry.chunk = Chunk(k)
        BY <2>3, <2>5, <2>8, <2>9, <3>1
      <4>1. Kept(r, k) = entry.copy[k]
        BY <2>12, <4>4, KeptInCache
      <4>2. Kept(e, k) = e.cache[n].copy[k]
        BY <2>3, <3>1, KeptInCache DEF Coherent
      <4>3. k \in ChunkLines(Chunk(l))
        BY <3>1 DEF ChunkLines
      <4> QED BY <2>3, <2>4, <2>5, <4>1, <4>2, <4>3
    <3>2. CASE Chunk(k) # Chunk(l) /\ \E i \in 1 .. n : e.cache[i].chunk = Chunk(k)
      <4>1. PICK i \in 1 .. n : e.cache[i].chunk = Chunk(k)
        BY <3>2
      <4>2. t[i] = e.cache[i]
        BY <2>3, <2>8, <3>2, <4>1
      <4>3. Kept(e, k) = e.cache[i].copy[k]
        BY <2>3, <4>1, KeptInCache DEF Coherent
      <4>4. Kept(r, k) = t[i].copy[k]
        BY <2>8, <2>9, <2>12, <4>1, <4>2, KeptInCache
      <4> QED BY <2>3, <3>2, <4>2, <4>3, <4>4
    <3>3. CASE ~\E i \in 1 .. n : e.cache[i].chunk = Chunk(k)
      <4>1. Kept(e, k) = e.file[k]
        BY <2>3, <3>3, KeptInFile
      <4>2. Kept(r, k) = r.file[k]
        BY <2>8, <2>9, <2>10, <3>3, KeptInFile
      <4>3. k # l
        BY <2>3, <3>3
      <4> QED BY <2>3, <2>9, <4>1, <4>2, <4>3
    <3> QED BY <3>1, <3>2, <3>3
  <2> QED BY <2>9, <2>14, <2>15 DEF r
<1> QED BY <1>1, <1>2

\* store() makes its line read as the new block and every other line as before,
\* whether lines are in a table, in the files or in cached chunks.
THEOREM StoreWritesOneLine ==
  ASSUME NEW D, NEW b \in Backends(D), Coherent(b), NEW l \in Lines, NEW x \in D
  PROVE  /\ Coherent(Store(b, l, x))
         /\ \A k \in Lines : Block(Store(b, l, x), k) = IF k = l THEN x ELSE Block(b, k)
<1> DEFINE p == Put(b, l, x)
           r == Count(p, l, x)
<1>1. /\ p \in Backends(D) /\ Coherent(p) /\ p.present = b.present
      /\ \A k \in Lines : Kept(p, k) = IF k = l THEN x ELSE Kept(b, k)
  BY PutChangesOneLine
<1>2. Store(b, l, x) = r
  BY DEF Store
<1> HIDE DEF p
<1>3. /\ r.present = b.present \cup {l}
      /\ r.cache = p.cache /\ r.file = p.file /\ r.kind = p.kind
  BY <1>1 DEF Count, Backends
<1> HIDE DEF r
<1>4. Coherent(r)
  BY <1>1, <1>3 DEF Coherent, WholeChunks, OnceCached, CleanAgree
<1>5. ASSUME NEW k \in Lines
      PROVE  Block(r, k) = IF k = l THEN x ELSE Block(b, k)
  <2>1. Kept(r, k) = Kept(p, k)
    BY <1>3 DEF Kept, Cached
  <2> QED BY <1>1, <1>3, <2>1, BlockIsKept
<1> QED BY <1>2, <1>4, <1>5

-----------------------------------------------------------------------------
(* Folds over finite sets *)

\* What holds of {} and is kept by the element that a choice adds holds of all.
LEMMA SubsetInduction ==
  ASSUME NEW S, IsFiniteSet(S), NEW T, {} \in T,
         \A s \in SUBSET S : s # {} => \E x \in s : s \ {x} \in T => s \in T
  PROVE  \A s \in SUBSET S : s \in T
<1> DEFINE Bad == {s \in SUBSET S : s \notin T}
           Sizes == {Cardinality(s) : s \in Bad}
<1>1. \A s \in SUBSET S : IsFiniteSet(s) /\ Cardinality(s) \in Nat
  BY FS_Subset, FS_CardinalityType
<1> SUFFICES ASSUME Bad # {}
             PROVE  FALSE
  OBVIOUS
<1>2. Sizes \subseteq Nat /\ Sizes # {}
  BY <1>1
<1>3. PICK n \in Sizes : \A m \in Sizes : ~(<<m, n>> \in OpToRel(<, Nat))
  <2> HIDE DEF Sizes
  <2> QED BY <1>2, WFMin, NatLessThanWellFounded
<1>4. PICK s \in Bad : n = Cardinality(s)
  BY <1>3
<1>5. PICK x \in s : s \ {x} \in T => s \in T
  BY <1>4
<1>6. s \ {x} \in SUBSET S /\ s \ {x} \in Bad
  BY <1>4, <1>5
<1>7. Cardinality(s \ {x}) = n - 1 /\ n - 1 \in Nat /\ n \in Nat
  BY <1>1, <1>4, <1>5, <1>6, FS_RemoveElement
<1>8. n - 1 \in Sizes /\ <<n - 1, n>> \in OpToRel(<, Nat)
  BY <1>6, <1>7 DEF OpToRel
<1> QED BY <1>3, <1>8

\* The function by which a fold is defined: ch chooses the element that f adds
\* last.
IsFold(iter, S, base, f, ch) ==
  iter = [s \in SUBSET S |->
            IF s = {} THEN base ELSE f[ch[s]][iter[s \ {ch[s]}]]]

HasFold(S, A, base, f, ch) ==
  \E iter \in [SUBSET S -> A] : IsFold(iter, S, base, f, ch)

\* It exists, and its values stay where f keeps them.
LEMMA FoldExists ==
  ASSUME NEW S, IsFiniteSet(S), NEW A, NEW base \in A, NEW f \in [S -> [A -> A]],
         NEW ch, \A s \in SUBSET S : s # {} => ch[s] \in s
  PROVE  HasFold(S, A, base, f, ch)
<1> DEFINE Small(n) == {s \in SUBSET S : Cardinality(s) <= n}
           After(g, s) == IF s = {} THEN base ELSE f[ch[s]][g[s \ {ch[s]}]]
           Good(g, n) == /\ g \in [Small(n) -> A]
                         /\ \A s \in Small(n) : g[s] = After(g, s)
           Reached == {n \in Nat : \E g : Good(g, n)}
<1>1. \A s \in SUBSET S : IsFiniteSet(s) /\ Cardinality(s) \in Nat
  BY FS_Subset, FS_CardinalityType
<1>2. \A s \in SUBSET S : s # {} =>
        /\ s \ {ch[s]} \in SUBSET S /\ Cardinality(s \ {ch[s]}) = Cardinality(s) - 1
        /\ ch[s] \in S
  BY <1>1, FS_RemoveElement
<1>3. \A s \in SUBSET S : Cardinality(s) = 0 <=> s = {}
  BY <1>1, FS_EmptySet
<1>4. 0 \in Reached
  <2> DEFINE g == [s \in Small(0) |-> base]
  <2>1. \A s \in Small(0) : s = {}
    BY <1>1, <1>3
  <2>2. Good(g, 0)
    BY <2>1
  <2> QED BY <2>2
<1>5. ASSUME NEW n \in Reached
      PROVE  n + 1 \in Reached
  <2>1. PICK g : Good(g, n)
    OBVIOUS
  <2> DEFINE h == [s \in Small(n + 1) |-> After(g, s)]
  <2>2. \A s \in Small(n + 1) : s # {} => s \ {ch[s]} \in Small(n)
    BY <1>1, <1>2
  <2>3. \A s \in Small(n + 1) : After(g, s) \in A
    BY <1>2, <2>1, <2>2
  <2>4. \A s \in Small(n) : s \in Small(n + 1)
    BY <1>1
  <2>5. \A s \in Small(n) : h[s] = g[s]
    BY <2>1, <2>4
  <2>6. ASSUME NEW s \in Small(n + 1)
        PROVE  After(h, s) = After(g, s)
    <3>1. s # {} => h[s \ {ch[s]}] = g[s \ {ch[s]}]
      BY <2>2, <2>5
    <3> HIDE DEF h
    <3> QED BY <3>1
  <2>7. \A s \in Small(n + 1) : h[s] = After(g, s)
    OBVIOUS
  <2>8. h \in [Small(n + 1) -> A]
    BY <2>3
  <2> HIDE DEF h
  <2>9. Good(h, n + 1)
    BY <2>6, <2>7, <2>8
  <2>10. n + 1 \in Nat
    OBVIOUS
  <2> QED BY <2>9, <2>10
<1>6. \A n \in Nat : n \in Reached
  <2> DEFINE Missed == Nat \ Reached
  <2> SUFFICES ASSUME Missed # {}
               PROVE  FALSE
    OBVIOUS
  <2>1. Missed \subseteq Nat
    OBVIOUS
  <2> HIDE DEF Reached
  <2>2. PICK n \in Missed : \A m \in Missed : ~(<<m, n>> \in OpToRel(<, Nat))
    <3> HIDE DEF Missed
    <3> QED BY <2>1, WFMin, NatLessThanWellFounded
  <2>3. n \in Nat /\ n \notin Reached
    BY <2>2
  <2>4. ~(<<n - 1, n>> \in OpToRel(<, Nat)) \/ n - 1 \notin Missed
    BY <2>2
  <2>5. n # 0
    BY <1>4, <2>3
  <2>6. n - 1 \in Nat /\ n - 1 < n /\ (n - 1) + 1 = n
    BY <2>3, <2>5
  <2>7. <<n - 1, n>> \in OpToRel(<, Nat)
    BY <2>3, <2>6 DEF OpToRel
  <2>8. n - 1 \in Reached
    BY <2>4, <2>6, <2>7
  <2>9. (n - 1) + 1 \in Reached
    BY <1>5, <2>8
  <2> QED BY <2>3, <2>6, <2>9
<1>7. PICK g : Good(g, Cardinality(S))
  BY <1>1, <1>6
<1>8. Small(Cardinality(S)) = SUBSET S
  BY FS_Subset
<1>9. g \in [SUBSET S -> A] /\ \A s \in SUBSET S : g[s] = After(g, s)
  BY <1>7, <1>8
<1>10. g = [s \in SUBSET S |-> After(g, s)]
  <2> HIDE DEF After
  <2> QED BY <1>9
<1> QED BY <1>9, <1>10 DEF IsFold, HasFold

-----------------------------------------------------------------------------
(* What an operation leaves as it is *)

\* The bit maps, the header and the counters.
SameBooks(b, r) ==
  /\ r.kind = b.kind /\ r.present = b.present /\ r.written = b.written
  /\ r.header = b.header /\ r.allocated = b.allocated /\ r.unique = b.unique

\* Nothing waits to be written to the files.
AllClean(b) == \A i \in DOMAIN b.cache : ~b.cache[i].dirty

\* The victim of the cache is written only when it is dirty.
LEMMA EvictKeeps ==
  ASSUME NEW D, NEW b \in Backends(D), Coherent(b)
  PROVE  /\ SameBooks(b, Evict(b))
         /\ AllClean(b) => AllClean(Evict(b)) /\ Evict(b).file = b.file
<1>1. CASE Len(b.cache) < CacheLimit
  BY <1>1 DEF Evict, SameBooks
<1>2. CASE ~(Len(b.cache) < CacheLimit)
  <2> DEFINE w == WriteChunk(b, Head(b.cache))
  <2>1. Evict(b) = [w EXCEPT !.cache = Tail(@)]
    BY <1>2 DEF Evict
  <2>2. b.cache \in Seq(Entries(D)) /\ b.cache # <<>> /\ Len(b.cache) \in Nat
        /\ DOMAIN b.cache = 1 .. Len(b.cache)
    BY <1>2, BackendAssumption DEF Backends, Coherent
  <2>3. /\ SameBooks(b, w) /\ w.cache = b.cache /\ DOMAIN w = DOMAIN b
        /\ ~Head(b.cache).dirty => w = b
    BY DEF WriteChunk, SameBooks, Backends
  <2> HIDE DEF w
  <2>4. /\ SameBooks(b, Evict(b)) /\ Evict(b).cache = Tail(b.cache)
        /\ Evict(b).file = w.file
    BY <2>1, <2>3 DEF SameBooks, Backends
  <2>5. ASSUME AllClean(b)
        PROVE  AllClean(Evict(b)) /\ Evict(b).file = b.file
    <3>1. Head(b.cache) = b.cache[1] /\ 1 \in DOMAIN b.cache
      BY <2>2
    <3>2. w = b
      BY <2>3, <2>5, <3>1 DEF AllClean
    <3>3. \A i \in DOMAIN Tail(b.cache) :
            Tail(b.cache)[i] = b.cache[i + 1] /\ i + 1 \in DOMAIN b.cache
      BY <2>2
    <3> QED BY <2>4, <2>5, <3>2, <3>3 DEF AllClean
  <2> QED BY <2>4, <2>5
<1> QED BY <1>1, <1>2

\* Bringing a chunk in changes no books, and writes nothing if all is clean.
LEMMA EnsureKeeps ==
  ASSUME NEW D, NEW b \in Backends(D), Coherent(b), b.kind = "chunk_file", NEW c \in Nat
  PROVE  /\ SameBooks(b, EnsureChunk(b, c))
         /\ AllClean(b) => AllClean(EnsureChunk(b, c)) /\ EnsureChunk(b, c).file = b.file
<1>1. CASE Cached(b, c) # {}
  <2> DEFINE i == CHOOSE i \in Cached(b, c) : TRUE
             s == b.cache
             t == Append(RemoveAt(s, i), s[i])
  <2>1. i \in DOMAIN s
    BY <1>1 DEF Cached
  <2>2. EnsureChunk(b, c) = [b EXCEPT !.cache = t]
    BY <1>1 DEF EnsureChunk
  <2> HIDE DEF i
  <2>3. s \in Seq(Entries(D)) /\ i \in 1 .. Len(s) /\ DOMAIN s = 1 .. Len(s)
    BY <2>1 DEF Backends
  <2>4. t \in Seq(Entries(D)) /\ Len(t) = Len(s) /\ Permuted(t, s)
    BY <2>3, MoveToEnd
  <2> HIDE DEF t
  <2>5. /\ SameBooks(b, EnsureChunk(b, c)) /\ EnsureChunk(b, c).cache = t
        /\ EnsureChunk(b, c).file = b.file
    BY <2>2 DEF SameBooks, Backends
  <2>6. ASSUME AllClean(b)
        PROVE  AllClean(EnsureChunk(b, c))
    <3>1. DOMAIN t = 1 .. Len(s)
      BY <2>4
    <3>2. \A j \in DOMAIN t : \E k \in DOMAIN s : t[j] = s[k]
      BY <2>3, <2>4, <3>1 DEF Permuted
    <3> QED BY <2>5, <2>6, <3>2 DEF AllClean
  <2> QED BY <2>5, <2>6
<1>2. CASE Cached(b, c) = {}
  <2> DEFINE room == Evict(b)
             e == ReadChunk(room, c)
             t == Append(room.cache, e)
  <2>1. EnsureChunk(b, c) = [room EXCEPT !.cache = t]
    BY <1>2 DEF EnsureChunk
  <2>2. room \in Backends(D)
    BY EvictIsTransparent
  <2>3. /\ SameBooks(b, room)
        /\ AllClean(b) => AllClean(room) /\ room.file = b.file
    BY EvictKeeps
  <2>4. ~e.dirty
    BY DEF ReadChunk
  <2> HIDE DEF room, e
  <2>5. room.cache \in Seq(Entries(D)) /\ DOMAIN room.cache = 1 .. Len(room.cache)
    BY <2>2 DEF Backends
  <2>6. DOMAIN t = 1 .. Len(room.cache) + 1
        /\ \A i \in DOMAIN t : IF i \in DOMAIN room.cache THEN t[i] = room.cache[i] ELSE t[i] = e
    BY <2>5
  <2> HIDE DEF t
  <2>7. /\ SameBooks(room, EnsureChunk(b, c)) /\ EnsureChunk(b, c).cache = t
        /\ EnsureChunk(b, c).file = room.file
    BY <2>1, <2>2 DEF SameBooks, Backends
  <2> QED BY <2>3, <2>4, <2>6, <2>7 DEF SameBooks, AllClean
<1> QED BY <1>1, <1>2

\* load() keeps the books and every line, and writes nothing if all is clean.
LEMMA LoadKeeps ==
  ASSUME NEW D, NEW b \in Backends(D), Coherent(b), NEW l \in Lines
  PROVE  LET r == AfterLoad(b, l)
         IN /\ r \in Backends(D) /\ Coherent(r) /\ SameBooks(b, r)
            /\ \A k \in Lines : Block(r, k) = Block(b, k)
            /\ AllClean(b) => AllClean(r) /\ r.file = b.file
<1>1. CASE b.kind = "chunk_file" /\ l \in b.present
  <2> DEFINE r == EnsureChunk(b, Chunk(l))
  <2>1. AfterLoad(b, l) = r
    BY <1>1 DEF AfterLoad
  <2>2. BroughtIn(D, b, r, Chunk(l))
    BY <1>1, ChunkNumber, EnsureIsTransparent
  <2>3. SameBooks(b, r) /\ (AllClean(b) => AllClean(r) /\ r.file = b.file)
    BY <1>1, ChunkNumber, EnsureKeeps
  <2> HIDE DEF r
  <2>4. \A k \in Lines : Block(r, k) = Block(b, k)
    BY <2>2, BlockIsKept DEF BroughtIn
  <2> QED BY <2>1, <2>2, <2>3, <2>4 DEF BroughtIn
<1>2. CASE ~(b.kind = "chunk_file" /\ l \in b.present)
  BY <1>2 DEF AfterLoad, SameBooks
<1> QED BY <1>1, <1>2

\* Storing a block changes no books before they are counted.
LEMMA PutKeeps ==
  ASSUME NEW D, NEW b \in Backends(D), Coherent(b), NEW l \in Lines, NEW x \in D
  PROVE  SameBooks(b, Put(b, l, x))
<1>1. CASE b.kind # "chunk_file"
  BY <1>1 DEF Put, SameBooks, Backends
<1>2. CASE b.kind = "chunk_file"
  <2> DEFINE e == EnsureChunk(b, Chunk(l))
  <2>1. e \in Backends(D) /\ SameBooks(b, e)
    BY <1>2, ChunkNumber, EnsureIsTransparent, EnsureKeeps DEF BroughtIn
  <2>2. Put(b, l, x) = [e EXCEPT !.cache[Len(e.cache)].copy[l] = x,
                                 !.cache[Len(e.cache)].dirty = TRUE]
    BY <1>2 DEF Put
  <2> HIDE DEF e
  <2>3. SameBooks(e, Put(b, l, x))
    BY <2>1, <2>2 DEF SameBooks, Backends
  <2> QED BY <2>1, <2>3 DEF SameBooks
<1> QED BY <1>1, <1>2

-----------------------------------------------------------------------------
(* Sound backends *)

\* The bit map of written lines.
WrittenHold(b) ==
  \A l \in Lines : l \in b.written <=> l \in b.present /\ Block(b, l).version > 0

Sound(D, b) == b \in Backends(D) /\ Coherent(b) /\ CountersHold(b) /\ WrittenHold(b)

\* Blocks that a backend can keep.
BlocksOf(D) == Zero \in D /\ \A x \in D : x.version \in Nat

LEMMA ZeroVersion == Zero.version = 0 /\ Zero.data = [h \in {1, 2} |-> 0]
BY DEF Zero

\* A line holds a block.
LEMMA BlockInD ==
  ASSUME NEW D, BlocksOf(D), NEW b \in Backends(D), Coherent(b), NEW l \in Lines
  PROVE  Block(b, l) \in D /\ (l \notin b.present => Block(b, l) = Zero)
<1>1. CASE l \notin b.present
  BY <1>1 DEF Block, BlocksOf
<1>2. CASE l \in b.present /\ Cached(b, Chunk(l)) = {}
  BY <1>2 DEF Block, Backends
<1>3. CASE l \in b.present /\ Cached(b, Chunk(l)) # {}
  <2>1. PICK i \in DOMAIN b.cache : b.cache[i].chunk = Chunk(l)
    BY <1>3 DEF Cached
  <2>2. Kept(b, l) = b.cache[i].copy[l]
    BY <2>1, KeptInCache DEF Coherent
  <2>3. b.cache[i] \in Entries(D) /\ DOMAIN b.cache[i].copy = ChunkLines(b.cache[i].chunk)
    BY <2>1 DEF Backends, Coherent, WholeChunks
  <2>4. l \in ChunkLines(b.cache[i].chunk)
    BY <2>1 DEF ChunkLines
  <2> QED BY <1>3, <2>2, <2>3, <2>4, CopyHoldsBlocks, BlockIsKept
<1> QED BY <1>1, <1>2, <1>3

\* A clean backend has every line in its files.
LEMMA CleanBlock ==
  ASSUME NEW D, NEW b \in Backends(D), Coherent(b), AllClean(b), NEW l \in Lines
  PROVE  Block(b, l) = IF l \in b.present THEN b.file[l] ELSE Zero
<1>1. CASE \A i \in DOMAIN b.cache : b.cache[i].chunk # Chunk(l)
  BY <1>1, KeptInFile, BlockIsKept
<1>2. CASE \E i \in DOMAIN b.cache : b.cache[i].chunk = Chunk(l)
  <2>1. PICK i \in DOMAIN b.cache : b.cache[i].chunk = Chunk(l)
    BY <1>2
  <2>2. Kept(b, l) = b.cache[i].copy[l]
    BY <2>1, KeptInCache DEF Coherent
  <2>3. l \in ChunkLines(b.cache[i].chunk)
    BY <2>1 DEF ChunkLines
  <2>4. b.cache[i].copy[l] = b.file[l]
    BY <2>1, <2>3 DEF Coherent, CleanAgree, AllClean
  <2> QED BY <2>2, <2>4, BlockIsKept
<1> QED BY <1>1, <1>2

\* The counters of a sound backend fit.
LEMMA CountersFit ==
  ASSUME NEW D, NEW b, Sound(D, b)
  PROVE  /\ b.allocated \in Nat /\ b.unique \in Nat
         /\ b.allocated <= LineCount /\ b.unique <= b.allocated
<1>1. LineCount \in Nat /\ IsFiniteSet(Lines) /\ Cardinality(Lines) = LineCount
  <2>1. LineCount \in Nat \ {0}
    BY BackendAssumption
  <2> QED BY <2>1, FS_Interval DEF Lines
<1>2. b.present \in SUBSET Lines /\ b.written \in SUBSET b.present
  BY DEF Sound, Backends, WrittenHold
<1>3. IsFiniteSet(b.present) /\ Cardinality(b.present) <= LineCount
  BY <1>1, <1>2, FS_Subset
<1>4. IsFiniteSet(b.written) /\ Cardinality(b.written) <= Cardinality(b.present)
  BY <1>2, <1>3, FS_Subset
<1>5. Cardinality(b.present) \in Nat /\ Cardinality(b.written) \in Nat
  BY <1>3, <1>4, FS_CardinalityType
<1> QED BY <1>3, <1>4, <1>5 DEF Sound, CountersHold

LEMMA LoadIsSound ==
  ASSUME NEW D, NEW b, Sound(D, b), NEW l \in Lines
  PROVE  LET r == AfterLoad(b, l)
         IN /\ Sound(D, r) /\ SameBooks(b, r)
            /\ \A k \in Lines : Block(r, k) = Block(b, k)
            /\ AllClean(b) => AllClean(r) /\ r.file = b.file
<1> DEFINE r == AfterLoad(b, l)
<1>1. /\ r \in Backends(D) /\ Coherent(r) /\ SameBooks(b, r)
      /\ \A k \in Lines : Block(r, k) = Block(b, k)
      /\ AllClean(b) => AllClean(r) /\ r.file = b.file
  BY LoadKeeps DEF Sound
<1> HIDE DEF r
<1>2. CountersHold(r) /\ WrittenHold(r)
  BY <1>1 DEF Sound, SameBooks, CountersHold, WrittenHold
<1> QED BY <1>1, <1>2 DEF Sound, r

\* The line that changes in a store, and what follows it.
Stored(D, b, r, S, blocks) ==
  /\ Sound(D, r) /\ r.kind = b.kind /\ r.header = b.header
  /\ r.present = b.present \cup S
  /\ \A k \in Lines : Block(r, k) = IF k \in S THEN blocks[k] ELSE Block(b, k)

LEMMA StoreIsSound ==
  ASSUME NEW D, BlocksOf(D), NEW b, Sound(D, b), NEW l \in Lines, NEW x \in D
  PROVE  LET r == Store(b, l, x)
         IN /\ Sound(D, r) /\ r.kind = b.kind /\ r.header = b.header
            /\ r.present = b.present \cup {l}
            /\ \A k \in Lines : Block(r, k) = IF k = l THEN x ELSE Block(b, k)
<1> DEFINE p == Put(b, l, x)
           r == Store(b, l, x)
<1>1. b \in Backends(D) /\ Coherent(b) /\ CountersHold(b) /\ WrittenHold(b)
  BY DEF Sound
<1>2. p \in Backends(D) /\ Coherent(p) /\ SameBooks(b, p)
  BY <1>1, PutChangesOneLine, PutKeeps
<1>3. Coherent(r) /\ \A k \in Lines : Block(r, k) = IF k = l THEN x ELSE Block(b, k)
  BY <1>1, StoreWritesOneLine
<1>4. x.version \in Nat
  BY DEF BlocksOf
<1>5. CountersHold(p)
  BY <1>1, <1>2 DEF CountersHold, SameBooks
<1>6. CountersHold(Count(p, l, x)) /\ r = Count(p, l, x)
  BY <1>2, <1>4, <1>5, CountKeepsCounters DEF Store
<1> HIDE DEF p
<1>7. /\ r.kind = b.kind /\ r.header = b.header /\ r.present = b.present \cup {l}
      /\ r.written = IF x.version > 0 THEN b.written \cup {l} ELSE b.written \ {l}
  BY <1>2, <1>6 DEF Count, SameBooks, Backends
<1>8. r \in Backends(D)
  <2> DEFINE present == p.present \cup {l}
             written == IF x.version > 0 THEN p.written \cup {l} ELSE p.written \ {l}
             unique == CASE x.version > 0 /\ l \notin p.written -> p.unique + 1
                         [] x.version = 0 /\ l \in p.written -> p.unique - 1
                         [] OTHER -> p.unique
             allocated == IF l \in p.present THEN p.allocated ELSE p.allocated + 1
  <2>1. r = [p EXCEPT !.present = present, !.allocated = allocated,
                      !.written = written, !.unique = unique]
    BY <1>6 DEF Count
  <2>2. present \in SUBSET Lines /\ written \in SUBSET Lines
    BY <1>2 DEF Backends
  <2>3. p.allocated \in Nat /\ p.unique \in Nat
    BY <1>2 DEF Backends
  <2>4. l \in p.written => p.unique > 0
    <3>1. IsFiniteSet(p.written)
      <4>1. IsFiniteSet(Lines) /\ p.written \in SUBSET Lines
        <5>1. LineCount \in Nat \ {0}
          BY BackendAssumption
        <5> QED BY <1>2, <5>1, FS_Interval DEF Lines, Backends
      <4> QED BY <4>1, FS_Subset
    <3>2. Cardinality(p.written) = 0 <=> p.written = {}
      BY <3>1, FS_EmptySet
    <3> QED BY <1>5, <2>3, <3>2 DEF CountersHold
  <2>5. allocated \in Nat /\ unique \in Nat
    BY <1>4, <2>3, <2>4
  <2> HIDE DEF present, written, unique, allocated
  <2> QED BY <1>2, <2>1, <2>2, <2>5 DEF Backends
<1> HIDE DEF r
<1>9. WrittenHold(r)
  <2> SUFFICES ASSUME NEW k \in Lines
               PROVE  k \in r.written <=> k \in r.present /\ Block(r, k).version > 0
    BY DEF WrittenHold
  <2>1. CASE k = l
    BY <1>3, <1>4, <1>7, <2>1
  <2>2. CASE k # l
    BY <1>1, <1>3, <1>7, <2>2 DEF WrittenHold
  <2> QED BY <2>1, <2>2
<1> QED BY <1>3, <1>6, <1>7, <1>8, <1>9 DEF Sound, r

-----------------------------------------------------------------------------
(* Storing many lines *)

\* The fold that stores the lines of S one after the other.
StoreFold(iter, S, b, blocks, ch) ==
  iter = [s \in SUBSET S |->
            IF s = {} THEN b
            ELSE Store(iter[s \ {ch[s]}], ch[s], blocks[ch[s]])]

Chooses(ch, S) == \A s \in SUBSET S : s # {} => ch[s] \in s

LEMMA LinesAreFinite ==
  ASSUME NEW S \in SUBSET Lines
  PROVE  IsFiniteSet(S)
<1>1. LineCount \in Nat \ {0}
  BY BackendAssumption
<1>2. IsFiniteSet(Lines)
  BY <1>1, FS_Interval DEF Lines
<1> QED BY <1>2, FS_Subset

LEMMA StoreFoldExists ==
  ASSUME NEW D, BlocksOf(D), NEW b, Sound(D, b), NEW S \in SUBSET Lines,
         NEW blocks, \A l \in S : blocks[l] \in D, NEW ch, Chooses(ch, S)
  PROVE  \E iter : StoreFold(iter, S, b, blocks, ch)
<1> DEFINE A == {r \in Backends(D) : Sound(D, r)}
           f == [l \in S |-> [a \in A |-> Store(a, l, blocks[l])]]
<1>1. b \in A
  BY DEF Sound
<1>2. \A a \in A, l \in S : Store(a, l, blocks[l]) \in A
  BY StoreIsSound DEF Sound
<1>3. f \in [S -> [A -> A]]
  BY <1>2
<1>4. \A a \in A, l \in S : f[l][a] = Store(a, l, blocks[l])
  OBVIOUS
<1> HIDE DEF A, f
<1>5. PICK iter \in [SUBSET S -> A] : IsFold(iter, S, b, f, ch)
  <2>1. IsFiniteSet(S) /\ \A s \in SUBSET S : s # {} => ch[s] \in s
    BY LinesAreFinite DEF Chooses
  <2>2. HasFold(S, A, b, f, ch)
    BY <1>1, <1>3, <2>1, FoldExists
  <2> QED BY <2>2 DEF HasFold
<1>6. ASSUME NEW s \in SUBSET S, s # {}
      PROVE  f[ch[s]][iter[s \ {ch[s]}]] =
               Store(iter[s \ {ch[s]}], ch[s], blocks[ch[s]])
  <2>1. ch[s] \in S /\ s \ {ch[s]} \in SUBSET S
    BY <1>6 DEF Chooses
  <2>2. iter[s \ {ch[s]}] \in A
    BY <1>5, <2>1
  <2> QED BY <1>4, <2>1, <2>2
<1>7. [s \in SUBSET S |-> IF s = {} THEN b ELSE f[ch[s]][iter[s \ {ch[s]}]]] =
        [s \in SUBSET S |-> IF s = {} THEN b
           ELSE Store(iter[s \ {ch[s]}], ch[s], blocks[ch[s]])]
  BY <1>6
<1> QED BY <1>5, <1>7 DEF IsFold, StoreFold

\* Afterwards the lines of S hold their blocks and the others are as before.
LEMMA StoreFoldStores ==
  ASSUME NEW D, BlocksOf(D), NEW b, Sound(D, b), NEW S \in SUBSET Lines,
         NEW blocks, \A l \in S : blocks[l] \in D, NEW ch, Chooses(ch, S),
         NEW iter, StoreFold(iter, S, b, blocks, ch)
  PROVE  Stored(D, b, iter[S], S, blocks)
<1> DEFINE T == {s \in SUBSET S : Stored(D, b, iter[s], s, blocks)}
<1>1. \A s \in SUBSET S :
        iter[s] = IF s = {} THEN b ELSE Store(iter[s \ {ch[s]}], ch[s], blocks[ch[s]])
  BY Zenon DEF StoreFold
<1>2. {} \in T
  <2>1. iter[{}] = b
    BY <1>1
  <2> QED BY <2>1 DEF Stored
<1>3. ASSUME NEW s \in SUBSET S, s # {}, s \ {ch[s]} \in T
      PROVE  s \in T
  <2> DEFINE l == ch[s]
             a == iter[s \ {l}]
  <2>1. l \in s /\ l \in Lines /\ blocks[l] \in D
    BY <1>3 DEF Chooses
  <2>2. Stored(D, b, a, s \ {l}, blocks) /\ iter[s] = Store(a, l, blocks[l])
    BY <1>1, <1>3
  <2> HIDE DEF l, a
  <2>3. /\ Sound(D, iter[s]) /\ iter[s].kind = a.kind /\ iter[s].header = a.header
        /\ iter[s].present = a.present \cup {l}
        /\ \A k \in Lines : Block(iter[s], k) = IF k = l THEN blocks[l] ELSE Block(a, k)
    BY <2>1, <2>2, StoreIsSound DEF Stored
  <2>4. iter[s].present = b.present \cup s
    BY <2>1, <2>2, <2>3 DEF Stored
  <2>5. \A k \in Lines : Block(iter[s], k) = IF k \in s THEN blocks[k] ELSE Block(b, k)
    BY <2>1, <2>2, <2>3 DEF Stored
  <2> QED BY <2>2, <2>3, <2>4, <2>5 DEF Stored
<1>4. \A s \in SUBSET S : s # {} => \E x \in s : s \ {x} \in T => s \in T
  BY <1>3 DEF Chooses
<1> HIDE DEF T
<1>5. S \in T
  BY <1>2, <1>4, LinesAreFinite, SubsetInduction
<1> QED BY <1>5 DEF T

-----------------------------------------------------------------------------
(* Row buffers *)

\* The columns of a row buffer are blocks of lines of its bank.
ColumnsOf(D, k) ==
  \A l \in DOMAIN rows[k].columns :
    l \in Lines /\ BankOf[l] = k /\ rows[k].columns[l] \in D

LEMMA WritebackStores ==
  ASSUME NEW D, BlocksOf(D), NEW b, Sound(D, b), NEW k, ColumnsOf(D, k)
  PROVE  /\ ~rows[k].dirty => Writeback(b, k) = b
         /\ rows[k].dirty => Stored(D, b, Writeback(b, k), DOMAIN rows[k].columns,
                                    rows[k].columns)
<1>1. ~rows[k].dirty => Writeback(b, k) = b
  BY DEF Writeback
<1>2. ASSUME rows[k].dirty
      PROVE  Stored(D, b, Writeback(b, k), DOMAIN rows[k].columns, rows[k].columns)
  <2> DEFINE c == rows[k].columns
             S == DOMAIN c
             ch == [s \in SUBSET S |-> CHOOSE x \in s : TRUE]
             R(it) == it = [s \in SUBSET S |->
                        IF s = {} THEN b
                        ELSE LET x == CHOOSE x \in s : TRUE
                             IN  Store(it[s \ {x}], x, c[x])]
  <2>1. Writeback(b, k) = (CHOOSE it : R(it))[S]
    BY <1>2 DEF Writeback, FoldSet, MapThenFoldSet
  <2>2. S \in SUBSET Lines /\ (\A l \in S : c[l] \in D)
    BY DEF ColumnsOf
  <2>3. Chooses(ch, S)
    BY DEF Chooses
  <2>4. ASSUME NEW it
        PROVE  R(it) <=> StoreFold(it, S, b, c, ch)
    <3>1. \A s \in SUBSET S : ch[s] = CHOOSE x \in s : TRUE
      OBVIOUS
    <3> HIDE DEF ch
    <3>2. [s \in SUBSET S |-> IF s = {} THEN b
             ELSE LET x == CHOOSE x \in s : TRUE IN Store(it[s \ {x}], x, c[x])] =
          [s \in SUBSET S |-> IF s = {} THEN b
             ELSE Store(it[s \ {ch[s]}], ch[s], c[ch[s]])]
      BY <3>1
    <3> QED BY <3>2 DEF StoreFold
  <2> HIDE DEF ch, c
  <2>5. \E it : R(it)
    <3>1. PICK it : StoreFold(it, S, b, c, ch)
      BY <2>2, <2>3, StoreFoldExists
    <3> HIDE DEF R
    <3>2. R(it)
      BY <2>4, <3>1
    <3> QED BY <3>2
  <2>6. R(CHOOSE it : R(it))
    <3> HIDE DEF R
    <3> QED BY <2>5
  <2> DEFINE iter == CHOOSE it : R(it)
  <2>7. StoreFold(iter, S, b, c, ch)
    BY <2>4, <2>6
  <2> HIDE DEF iter, R
  <2>8. Stored(D, b, iter[S], S, c)
    BY <2>2, <2>3, <2>7, StoreFoldStores
  <2> QED BY <2>1, <2>8 DEF iter, c
<1> QED BY <1>1, <1>2

\* The lines in the dirty rows of the banks of K, and what they hold.
DirtyLines(K) == UNION {DOMAIN rows[k].columns : k \in {x \in K : rows[x].dirty}}
Columns == [l \in Lines |-> rows[BankOf[l]].columns[l]]

CloseFold(iter, K, b) ==
  iter = [s \in SUBSET K |->
            IF s = {} THEN b
            ELSE LET x == CHOOSE x \in s : TRUE IN Writeback(iter[s \ {x}], x)]

LEMMA CloseFoldExists ==
  ASSUME NEW D, BlocksOf(D), NEW b, Sound(D, b), NEW K \in SUBSET Banks,
         \A k \in K : ColumnsOf(D, k)
  PROVE  \E iter : CloseFold(iter, K, b)
<1> DEFINE A == {r \in Backends(D) : Sound(D, r)}
           f == [k \in K |-> [a \in A |-> Writeback(a, k)]]
           ch == [s \in SUBSET K |-> CHOOSE x \in s : TRUE]
<1>1. b \in A
  BY DEF Sound
<1>2. ASSUME NEW a \in A, NEW k \in K
      PROVE  Writeback(a, k) \in A
  <2>1. Sound(D, a) /\ ColumnsOf(D, k)
    OBVIOUS
  <2>2. Sound(D, Writeback(a, k))
    BY <2>1, WritebackStores DEF Stored
  <2> QED BY <2>2 DEF Sound
<1>3. f \in [K -> [A -> A]]
  BY <1>2
<1>4. \A a \in A, k \in K : f[k][a] = Writeback(a, k)
  OBVIOUS
<1>5. \A s \in SUBSET K : ch[s] = CHOOSE x \in s : TRUE
  OBVIOUS
<1>6. IsFiniteSet(K) /\ \A s \in SUBSET K : s # {} => ch[s] \in s
  BY FS_Subset, ImageAssumption
<1> HIDE DEF A, f, ch
<1>7. HasFold(K, A, b, f, ch)
  BY <1>1, <1>3, <1>6, FoldExists
<1>8. PICK iter \in [SUBSET K -> A] : IsFold(iter, K, b, f, ch)
  BY <1>7 DEF HasFold
<1>9. ASSUME NEW s \in SUBSET K, s # {}
      PROVE  f[ch[s]][iter[s \ {ch[s]}]] =
               LET x == CHOOSE x \in s : TRUE IN Writeback(iter[s \ {x}], x)
  <2>1. ch[s] \in K /\ s \ {ch[s]} \in SUBSET K /\ iter[s \ {ch[s]}] \in A
    BY <1>6, <1>8, <1>9
  <2> QED BY <1>4, <1>5, <2>1
<1>10. [s \in SUBSET K |-> IF s = {} THEN b ELSE f[ch[s]][iter[s \ {ch[s]}]]] =
         [s \in SUBSET K |-> IF s = {} THEN b
            ELSE LET x == CHOOSE x \in s : TRUE IN Writeback(iter[s \ {x}], x)]
  BY <1>9
<1> QED BY <1>8, <1>10 DEF IsFold, CloseFold

LEMMA CloseFoldStores ==
  ASSUME NEW D, BlocksOf(D), NEW b, Sound(D, b), NEW K \in SUBSET Banks,
         \A k \in K : ColumnsOf(D, k), NEW iter, CloseFold(iter, K, b)
  PROVE  Stored(D, b, iter[K], DirtyLines(K), Columns)
<1> DEFINE T == {s \in SUBSET K : Stored(D, b, iter[s], DirtyLines(s), Columns)}
           pick(s) == CHOOSE x \in s : TRUE
<1>1. \A s \in SUBSET K :
        iter[s] = IF s = {} THEN b ELSE Writeback(iter[s \ {pick(s)}], pick(s))
  BY Zenon DEF CloseFold
<1>2. {} \in T
  <2>1. iter[{}] = b /\ DirtyLines({}) = {}
    BY <1>1 DEF DirtyLines
  <2> QED BY <2>1 DEF Stored
<1>3. ASSUME NEW s \in SUBSET K, NEW k \in s, k = pick(s), s \ {k} \in T
      PROVE  s \in T
  <2> DEFINE a == iter[s \ {k}]
             c == rows[k].columns
             new == IF rows[k].dirty THEN DOMAIN c ELSE {}
  <2>1. Stored(D, b, a, DirtyLines(s \ {k}), Columns) /\ iter[s] = Writeback(a, k)
    BY <1>1, <1>3
  <2>2. ColumnsOf(D, k) /\ Sound(D, a)
    BY <2>1 DEF Stored
  <2> HIDE DEF a
  <2>3. /\ ~rows[k].dirty => iter[s] = a
        /\ rows[k].dirty => Stored(D, a, iter[s], DOMAIN c, c)
    BY <2>1, <2>2, WritebackStores
  <2>4. DirtyLines(s) = DirtyLines(s \ {k}) \cup new
    BY DEF DirtyLines
  <2>5. \A l \in DOMAIN c : c[l] = Columns[l]
    BY <2>2 DEF ColumnsOf, Columns
  <2> HIDE DEF c
  <2>6. CASE ~rows[k].dirty
    BY <2>1, <2>3, <2>4, <2>6
  <2>7. CASE rows[k].dirty
    <3>1. Stored(D, a, iter[s], DOMAIN c, c)
      BY <2>3, <2>7
    <3>2. DirtyLines(s) = DirtyLines(s \ {k}) \cup DOMAIN c
      BY <2>4, <2>7
    <3>3. \A l \in Lines : Block(iter[s], l) =
            IF l \in DirtyLines(s) THEN Columns[l] ELSE Block(b, l)
      BY <2>1, <2>5, <3>1, <3>2 DEF Stored
    <3>4. iter[s].present = b.present \cup DirtyLines(s)
      BY <2>1, <3>1, <3>2 DEF Stored
    <3> QED BY <2>1, <3>1, <3>3, <3>4 DEF Stored
  <2> QED BY <2>6, <2>7
<1>4. \A s \in SUBSET K : s # {} => \E x \in s : s \ {x} \in T => s \in T
  BY <1>3
<1>5. IsFiniteSet(K)
  BY FS_Subset, ImageAssumption
<1> HIDE DEF T
<1>6. K \in T
  BY <1>2, <1>4, <1>5, SubsetInduction
<1> QED BY <1>6 DEF T

\* What writeback_row_buffer() of the banks of K leaves.
Closed(b, K) == LET close(k, acc) == Writeback(acc, k) IN FoldSet(close, b, K)

LEMMA ClosingStores ==
  ASSUME NEW D, BlocksOf(D), NEW b, Sound(D, b), NEW K \in SUBSET Banks,
         \A k \in K : ColumnsOf(D, k)
  PROVE  Stored(D, b, Closed(b, K), DirtyLines(K), Columns)
<1> DEFINE iter == CHOOSE it : CloseFold(it, K, b)
<1>1. Closed(b, K) = iter[K]
  BY DEF Closed, FoldSet, MapThenFoldSet, CloseFold
<1>2. CloseFold(iter, K, b)
  BY CloseFoldExists
<1> HIDE DEF iter
<1> QED BY <1>1, <1>2, CloseFoldStores

-----------------------------------------------------------------------------
(* Flushing *)

LEMMA GreatestChosen ==
  ASSUME NEW n \in Nat, NEW s \in SUBSET (0 .. n), s # {}
  PROVE  Max(s) \in s
<1> DEFINE Gaps == {n - x : x \in s}
<1>1. Gaps \subseteq Nat /\ Gaps # {}
  <2>1. \A x \in s : n - x \in Nat
    OBVIOUS
  <2>2. PICK x \in s : TRUE
    OBVIOUS
  <2>3. n - x \in Gaps
    BY <2>2
  <2> QED BY <2>1, <2>3
<1>2. PICK g \in Gaps : \A h \in Gaps : ~(<<h, g>> \in OpToRel(<, Nat))
  <2> HIDE DEF Gaps
  <2> QED BY <1>1, WFMin, NatLessThanWellFounded
<1>3. PICK m \in s : g = n - m
  BY <1>2
<1>4. \A x \in s : m >= x
  <2> SUFFICES ASSUME NEW x \in s, ~(m >= x)
               PROVE  FALSE
    OBVIOUS
  <2>1. n - x \in Gaps /\ n - x \in Nat /\ g \in Nat /\ n - x < g
    BY <1>1, <1>3
  <2>2. <<n - x, g>> \in OpToRel(<, Nat)
    BY <2>1 DEF OpToRel
  <2> QED BY <1>2, <2>1, <2>2
<1> QED BY <1>4 DEF Max

FlushFold(iter, b) ==
  iter = [s \in SUBSET DOMAIN b.cache |->
            IF s = {} THEN b
            ELSE LET x == Max(s) IN WriteChunk(iter[s \ {x}], b.cache[x])]

\* What writing one chunk of b to the files does to a backend on the way.
Halfway(D, b, r, s) ==
  /\ r = [b EXCEPT !.file = r.file] /\ r.file \in [Lines -> D]
  /\ \A l \in Lines :
       r.file[l] = IF \E i \in s : b.cache[i].chunk = Chunk(l) /\ b.cache[i].dirty
                   THEN Kept(b, l) ELSE b.file[l]

LEMMA CacheShape ==
  ASSUME NEW D, NEW b \in Backends(D)
  PROVE  /\ Len(b.cache) \in Nat /\ DOMAIN b.cache = 1 .. Len(b.cache)
         /\ IsFiniteSet(DOMAIN b.cache)
         /\ \A s \in SUBSET DOMAIN b.cache : s # {} => Max(s) \in s
<1>1. Len(b.cache) \in Nat /\ DOMAIN b.cache = 1 .. Len(b.cache)
  BY DEF Backends
<1>2. IsFiniteSet(DOMAIN b.cache)
  <2> DEFINE n == Len(b.cache)
  <2>1. n \in Int /\ 1 \in Int
    BY <1>1
  <2> HIDE DEF n
  <2>2. IsFiniteSet(1 .. n)
    BY <2>1, FS_Interval
  <2> QED BY <1>1, <2>2 DEF n
<1>3. \A s \in SUBSET DOMAIN b.cache : s \in SUBSET (0 .. Len(b.cache))
  BY <1>1
<1> QED BY <1>1, <1>2, <1>3, GreatestChosen

LEMMA ChunkIsWritten ==
  ASSUME NEW D, NEW b \in Backends(D), Coherent(b), NEW s \in SUBSET DOMAIN b.cache,
         NEW r, Halfway(D, b, r, s), NEW x \in DOMAIN b.cache, x \notin s
  PROVE  Halfway(D, b, WriteChunk(r, b.cache[x]), s \cup {x})
<1> DEFINE e == b.cache[x]
           w == WriteChunk(r, e)
<1>1. /\ e \in Entries(D) /\ DOMAIN e.copy = ChunkLines(e.chunk)
      /\ \A l \in Lines : Chunk(l) = e.chunk => Kept(b, l) = e.copy[l]
  BY KeptInCache DEF Backends, Coherent, WholeChunks
<1>2. \A l \in ChunkLines(e.chunk) : e.copy[l] \in D
  BY <1>1, CopyHoldsBlocks
<1> HIDE DEF e
<1>3. CASE ~e.dirty
  <2>1. w = r
    BY <1>3 DEF WriteChunk
  <2>2. \A l \in Lines :
          (\E i \in s \cup {x} : b.cache[i].chunk = Chunk(l) /\ b.cache[i].dirty) <=>
          (\E i \in s : b.cache[i].chunk = Chunk(l) /\ b.cache[i].dirty)
    BY <1>3 DEF e
  <2> QED BY <2>1, <2>2 DEF Halfway, e
<1>4. CASE e.dirty
  <2> DEFINE file == [l \in Lines |-> IF Chunk(l) = e.chunk THEN e.copy[l] ELSE r.file[l]]
  <2>1. w = [r EXCEPT !.file = file]
    BY <1>4 DEF WriteChunk
  <2>2. file \in [Lines -> D]
    BY <1>2 DEF Halfway, ChunkLines
  <2>3. \A l \in Lines :
          (\E i \in s \cup {x} : b.cache[i].chunk = Chunk(l) /\ b.cache[i].dirty) <=>
          (Chunk(l) = e.chunk
             \/ \E i \in s : b.cache[i].chunk = Chunk(l) /\ b.cache[i].dirty)
    BY <1>4 DEF e
  <2>4. \A l \in Lines :
          file[l] = IF \E i \in s \cup {x} : b.cache[i].chunk = Chunk(l) /\ b.cache[i].dirty
                    THEN Kept(b, l) ELSE b.file[l]
    BY <1>1, <2>3 DEF Halfway
  <2> HIDE DEF file
  <2>5. w.file = file /\ w = [b EXCEPT !.file = file]
    BY <2>1 DEF Halfway, Backends
  <2> QED BY <2>2, <2>4, <2>5 DEF Halfway, e
<1> QED BY <1>3, <1>4

LEMMA FlushFoldExists ==
  ASSUME NEW D, NEW b \in Backends(D), Coherent(b)
  PROVE  \E iter : FlushFold(iter, b)
<1> DEFINE S == DOMAIN b.cache
           A == {[b EXCEPT !.file = file] : file \in [Lines -> D]}
           f == [i \in S |-> [a \in A |-> WriteChunk(a, b.cache[i])]]
           ch == [s \in SUBSET S |-> Max(s)]
<1>1. b \in A
  <2>1. b.file \in [Lines -> D] /\ b = [b EXCEPT !.file = b.file]
    BY DEF Backends
  <2> QED BY <2>1
<1>2. ASSUME NEW a \in A, NEW i \in S
      PROVE  WriteChunk(a, b.cache[i]) \in A
  <2> DEFINE e == b.cache[i]
             file == [l \in Lines |-> IF Chunk(l) = e.chunk THEN e.copy[l] ELSE a.file[l]]
  <2>1. PICK g \in [Lines -> D] : a = [b EXCEPT !.file = g]
    OBVIOUS
  <2>2. a.file = g
    BY <2>1 DEF Backends
  <2>3. e \in Entries(D) /\ DOMAIN e.copy = ChunkLines(e.chunk)
    BY DEF Backends, Coherent, WholeChunks
  <2>4. \A l \in ChunkLines(e.chunk) : e.copy[l] \in D
    BY <2>3, CopyHoldsBlocks
  <2> HIDE DEF e
  <2>5. file \in [Lines -> D]
    BY <2>2, <2>4 DEF ChunkLines
  <2>6. WriteChunk(a, e) = IF ~e.dirty THEN a ELSE [a EXCEPT !.file = file]
    BY DEF WriteChunk
  <2> HIDE DEF file
  <2>7. [a EXCEPT !.file = file] = [b EXCEPT !.file = file]
    BY <2>1 DEF Backends
  <2> QED BY <2>5, <2>6, <2>7 DEF e
<1>3. f \in [S -> [A -> A]]
  BY <1>2
<1>4. \A a \in A, i \in S : f[i][a] = WriteChunk(a, b.cache[i])
  OBVIOUS
<1>5. \A s \in SUBSET S : ch[s] = Max(s)
  OBVIOUS
<1>6. IsFiniteSet(S) /\ \A s \in SUBSET S : s # {} => ch[s] \in s
  BY <1>5, CacheShape
<1> HIDE DEF A, f, ch
<1>7. HasFold(S, A, b, f, ch)
  BY <1>1, <1>3, <1>6, FoldExists
<1>8. PICK iter \in [SUBSET S -> A] : IsFold(iter, S, b, f, ch)
  BY <1>7 DEF HasFold
<1>9. ASSUME NEW s \in SUBSET S, s # {}
      PROVE  f[ch[s]][iter[s \ {ch[s]}]] =
               LET x == Max(s) IN WriteChunk(iter[s \ {x}], b.cache[x])
  <2>1. ch[s] \in S /\ s \ {ch[s]} \in SUBSET S /\ iter[s \ {ch[s]}] \in A
    BY <1>6, <1>8, <1>9
  <2> QED BY <1>4, <1>5, <2>1
<1>10. [s \in SUBSET S |-> IF s = {} THEN b ELSE f[ch[s]][iter[s \ {ch[s]}]]] =
         [s \in SUBSET S |-> IF s = {} THEN b
            ELSE LET x == Max(s) IN WriteChunk(iter[s \ {x}], b.cache[x])]
  BY <1>9
<1> QED BY <1>8, <1>10 DEF IsFold, FlushFold

LEMMA FlushFoldWrites ==
  ASSUME NEW D, NEW b \in Backends(D), Coherent(b), NEW iter, FlushFold(iter, b)
  PROVE  Halfway(D, b, iter[DOMAIN b.cache], DOMAIN b.cache)
<1> DEFINE S == DOMAIN b.cache
           T == {s \in SUBSET S : Halfway(D, b, iter[s], s)}
<1>1. \A s \in SUBSET S :
        iter[s] = IF s = {} THEN b ELSE WriteChunk(iter[s \ {Max(s)}], b.cache[Max(s)])
  BY Zenon DEF FlushFold
<1>2. {} \in T
  <2>1. iter[{}] = b /\ b.file \in [Lines -> D] /\ b = [b EXCEPT !.file = b.file]
    BY <1>1 DEF Backends
  <2> QED BY <2>1 DEF Halfway
<1>3. ASSUME NEW s \in SUBSET S, NEW x \in s, x = Max(s), s \ {x} \in T
      PROVE  s \in T
  <2>1. Halfway(D, b, iter[s \ {x}], s \ {x}) /\ iter[s] = WriteChunk(iter[s \ {x}], b.cache[x])
    BY <1>1, <1>3
  <2>2. (s \ {x}) \cup {x} = s /\ s \ {x} \in SUBSET S /\ x \in S /\ x \notin s \ {x}
    OBVIOUS
  <2>3. Halfway(D, b, iter[s], (s \ {x}) \cup {x})
    BY <2>1, <2>2, ChunkIsWritten
  <2> QED BY <2>2, <2>3
<1>4. \A s \in SUBSET S : s # {} => \E x \in s : s \ {x} \in T => s \in T
  BY <1>3, CacheShape
<1> HIDE DEF T
<1>5. S \in T
  <2> HIDE DEF S
  <2>1. IsFiniteSet(S)
    BY CacheShape DEF S
  <2> QED BY <1>2, <1>4, <2>1, SubsetInduction, ZenonT(60)
<1> QED BY <1>5 DEF T

\* flush() keeps every line, leaves nothing dirty and brings the header up to date.
Flushed(D, b, r) ==
  /\ Sound(D, r) /\ AllClean(r)
  /\ r.kind = b.kind /\ r.present = b.present /\ r.written = b.written
  /\ Persistent(b) => r.header = [made |-> TRUE, allocated |-> b.allocated,
                                  written |-> b.unique]
  /\ \A l \in Lines : Block(r, l) = Block(b, l)

LEMMA FlushIsSound ==
  ASSUME NEW D, NEW b, Sound(D, b)
  PROVE  Flushed(D, b, Flush(b))
<1> DEFINE S == DOMAIN b.cache
           iter == CHOOSE it : FlushFold(it, b)
           w == iter[S]
           t == [i \in S |-> [b.cache[i] EXCEPT !.dirty = FALSE]]
           c == FlushChunks(b)
           r == Flush(b)
<1>1. b \in Backends(D) /\ Coherent(b)
  BY DEF Sound
<1>2. FlushFold(iter, b)
  BY <1>1, FlushFoldExists
<1>3. c = [w EXCEPT !.cache = [i \in DOMAIN @ |-> [@[i] EXCEPT !.dirty = FALSE]]]
  BY DEF FlushChunks, FoldLeft, MapThenFoldSet, FlushFold
<1> HIDE DEF iter
<1>4. Halfway(D, b, w, S)
  BY <1>1, <1>2, FlushFoldWrites
<1> HIDE DEF w, c
<1>5. w.cache = b.cache /\ DOMAIN w = DOMAIN b
  BY <1>1, <1>4 DEF Halfway, Backends
<1>6. c = [b EXCEPT !.file = w.file, !.cache = t]
  BY <1>1, <1>3, <1>4, <1>5 DEF Halfway, Backends
<1>7. /\ Len(b.cache) \in Nat /\ S = 1 .. Len(b.cache)
      /\ \A i \in S : b.cache[i] \in Entries(D)
  BY <1>1, CacheShape DEF Backends
<1>8. \A i \in S : /\ t[i] \in Entries(D) /\ ~t[i].dirty
                   /\ t[i].chunk = b.cache[i].chunk /\ t[i].copy = b.cache[i].copy
  BY <1>7 DEF Entries
<1>9. t \in Seq(Entries(D)) /\ Len(t) = Len(b.cache) /\ DOMAIN t = S
  <2>1. t = [i \in S |-> t[i]]
    OBVIOUS
  <2> DEFINE n == Len(b.cache)
  <2> HIDE DEF t
  <2>2. t \in [1 .. n -> Entries(D)]
    BY <1>7, <1>8, <2>1
  <2>3. DOMAIN t = 1 .. n
    BY <2>2
  <2>4. n \in Nat
    BY <1>7
  <2> HIDE DEF n
  <2>5. t \in Seq(Entries(D)) /\ Len(t) = n
    BY <2>2, <2>3, <2>4
  <2> QED BY <1>7, <2>3, <2>5 DEF n
<1> HIDE DEF t
<1>10. c \in Backends(D) /\ SameBooks(b, c) /\ c.cache = t /\ c.file = w.file
  BY <1>1, <1>4, <1>6, <1>9 DEF Backends, Halfway, SameBooks
<1>11. ASSUME NEW l \in Lines
       PROVE  w.file[l] = Kept(b, l)
  <2>1. CASE \E i \in S : b.cache[i].chunk = Chunk(l) /\ b.cache[i].dirty
    BY <1>4, <2>1 DEF Halfway
  <2>2. CASE \E i \in S : b.cache[i].chunk = Chunk(l) /\ ~b.cache[i].dirty
    <3>1. PICK i \in S : b.cache[i].chunk = Chunk(l) /\ ~b.cache[i].dirty
      BY <2>2
    <3>2. Kept(b, l) = b.cache[i].copy[l]
      BY <1>1, <3>1, KeptInCache DEF Coherent
    <3>3. b.cache[i].copy[l] = b.file[l]
      BY <1>1, <3>1 DEF Coherent, CleanAgree, ChunkLines
    <3>4. \A j \in S : b.cache[j].chunk = Chunk(l) => j = i
      BY <1>1, <3>1 DEF Coherent, OnceCached
    <3> QED BY <1>4, <3>1, <3>2, <3>3, <3>4 DEF Halfway
  <2>3. CASE \A i \in S : b.cache[i].chunk # Chunk(l)
    BY <1>4, <2>3, KeptInFile DEF Halfway
  <2> QED BY <2>1, <2>2, <2>3
<1>12. CleanAgree(c)
  <2> SUFFICES ASSUME NEW i \in S, NEW l \in ChunkLines(t[i].chunk)
               PROVE  t[i].copy[l] = w.file[l]
    BY <1>9, <1>10 DEF CleanAgree
  <2>1. l \in Lines /\ b.cache[i].chunk = Chunk(l)
    BY <1>8 DEF ChunkLines
  <2>2. Kept(b, l) = b.cache[i].copy[l]
    BY <1>1, <2>1, KeptInCache DEF Coherent
  <2> QED BY <1>8, <1>11, <2>1, <2>2
<1>13. WholeChunks(c) /\ OnceCached(c) /\ AllClean(c)
  BY <1>1, <1>8, <1>9, <1>10 DEF Coherent, WholeChunks, OnceCached, AllClean
<1>14. Coherent(c)
  <2>1. c.kind # "chunk_file" => c.cache = <<>>
    <3>1. c.kind # "chunk_file" => b.cache = <<>>
      BY <1>1, <1>10 DEF Coherent, SameBooks
    <3>2. c.kind # "chunk_file" => Len(t) = 0
      BY <1>9, <3>1
    <3> QED BY <1>9, <1>10, <3>2
  <2> QED BY <1>1, <1>9, <1>10, <1>12, <1>13, <2>1 DEF Coherent
<1>15. ASSUME NEW l \in Lines
       PROVE  Block(c, l) = Block(b, l)
  <2>1. Block(c, l) = IF l \in b.present THEN w.file[l] ELSE Zero
    BY <1>10, <1>13, <1>14, CleanBlock DEF SameBooks
  <2> QED BY <1>11, <2>1, BlockIsKept
<1>16. /\ r.file = c.file /\ r.cache = c.cache /\ r.kind = c.kind
       /\ r.present = c.present /\ r.written = c.written
       /\ r.allocated = c.allocated /\ r.unique = c.unique /\ r \in Backends(D)
       /\ Persistent(b) => r.header = [made |-> TRUE, allocated |-> b.allocated,
                                       written |-> b.unique]
  <2>1. Persistent(c) = Persistent(b)
    BY <1>10 DEF Persistent, SameBooks
  <2>2. r = IF Persistent(c)
            THEN [c EXCEPT !.header = [made |-> TRUE, allocated |-> c.allocated,
                                       written |-> c.unique]]
            ELSE c
    BY DEF Flush, FlushHeader, c
  <2>3. [made |-> TRUE, allocated |-> c.allocated, written |-> c.unique]
          \in [made : BOOLEAN, allocated : Nat, written : Nat]
    BY <1>10 DEF Backends
  <2> DEFINE header == [made |-> TRUE, allocated |-> c.allocated, written |-> c.unique]
  <2>4. header = [made |-> TRUE, allocated |-> b.allocated, written |-> b.unique]
    BY <1>10 DEF SameBooks
  <2> HIDE DEF header, r
  <2>5. r = IF Persistent(c) THEN [c EXCEPT !.header = header] ELSE c
    BY <2>2 DEF header
  <2>6. header \in [made : BOOLEAN, allocated : Nat, written : Nat]
    BY <2>3 DEF header
  <2> QED BY <1>10, <2>1, <2>4, <2>5, <2>6 DEF Backends
<1> HIDE DEF r
<1>17. Coherent(r) /\ AllClean(r)
  BY <1>13, <1>14, <1>16
  DEF Coherent, WholeChunks, OnceCached, CleanAgree, AllClean
<1>18. \A l \in Lines : Block(r, l) = Block(b, l)
  <2>1. \A l \in Lines : Block(r, l) = Block(c, l)
    BY <1>16 DEF Block, Cached
  <2> QED BY <1>15, <2>1
<1>19. CountersHold(r) /\ WrittenHold(r)
  BY <1>10, <1>16, <1>18 DEF Sound, CountersHold, WrittenHold, SameBooks
<1> QED BY <1>10, <1>16, <1>17, <1>18, <1>19 DEF Flushed, Sound, SameBooks, r

-----------------------------------------------------------------------------
(* Loading a dump *)

\* The lines of S stored one after the other, the greatest last.
StoreAll(b, S, blocks) ==
  LET add(l, acc) == Store(acc, l, blocks[l])
      last(s) == Max(s)
  IN MapThenFoldSet(add, b, LAMBDA l : l, last, S)

LEMMA ReloadStores ==
  ASSUME NEW D, BlocksOf(D), NEW b, Sound(D, b), NEW S \in SUBSET Lines,
         NEW blocks, \A l \in S : blocks[l] \in D
  PROVE  Stored(D, b, StoreAll(b, S, blocks), S, blocks)
<1> DEFINE ch == [s \in SUBSET S |-> Max(s)]
           R(it) == it = [s \in SUBSET S |->
                      IF s = {} THEN b
                      ELSE LET x == Max(s) IN Store(it[s \ {x}], x, blocks[x])]
           iter == CHOOSE it : R(it)
<1>1. StoreAll(b, S, blocks) = iter[S]
  BY DEF StoreAll, MapThenFoldSet
<1>2. Chooses(ch, S)
  <2>1. LineCount \in Nat \ {0}
    BY BackendAssumption
  <2>2. \A s \in SUBSET S : s \in SUBSET (0 .. LineCount)
    BY <2>1 DEF Lines
  <2> QED BY <2>1, <2>2, GreatestChosen DEF Chooses
<1>3. ASSUME NEW it
      PROVE  R(it) <=> StoreFold(it, S, b, blocks, ch)
  <2>1. \A s \in SUBSET S : ch[s] = Max(s)
    OBVIOUS
  <2> HIDE DEF ch
  <2>2. [s \in SUBSET S |-> IF s = {} THEN b
           ELSE LET x == Max(s) IN Store(it[s \ {x}], x, blocks[x])] =
        [s \in SUBSET S |-> IF s = {} THEN b
           ELSE Store(it[s \ {ch[s]}], ch[s], blocks[ch[s]])]
    BY <2>1
  <2> QED BY <2>2 DEF StoreFold
<1> HIDE DEF ch
<1>4. R(iter)
  <2>1. PICK it : StoreFold(it, S, b, blocks, ch)
    BY <1>2, StoreFoldExists
  <2> HIDE DEF R
  <2>2. R(it)
    BY <1>3, <2>1
  <2> QED BY <2>2
<1>5. StoreFold(iter, S, b, blocks, ch)
  <2> HIDE DEF R
  <2> QED BY <1>3, <1>4
<1> HIDE DEF iter, R
<1>6. Stored(D, b, iter[S], S, blocks)
  BY <1>2, <1>5, StoreFoldStores
<1> QED BY <1>1, <1>6

-----------------------------------------------------------------------------
(* The invariant *)

BlockSet ==
  [data : [{1, 2} -> Nat], version : Nat, flipped : BOOLEAN, shadow : BOOLEAN,
   ecc : BOOLEAN]
Rows == {RowOf[l] : l \in Lines} \cup {NoRow}
RowSet ==
  [row : Rows, dirty : BOOLEAN, columns : UNION {[S -> BlockSet] : S \in SUBSET Lines}]

Shape ==
  /\ setup \in Setups /\ up \in BOOLEAN /\ saved \in BOOLEAN
  /\ nextVersion \in Nat \ {0} /\ starts \in Nat \ {0}
  /\ content \in [Lines -> [{1, 2} -> Nat]]
  /\ Sound(BlockSet, backend) /\ backend.kind = setup.kind
  /\ rows \in [Banks -> RowSet]
  /\ \A k \in Banks : \A l \in DOMAIN rows[k].columns :
       BankOf[l] = k /\ RowOf[l] = rows[k].row

\* A row that is not dirty may be dropped.
CleanRows ==
  \A k \in Banks : ~rows[k].dirty =>
    \A l \in DOMAIN rows[k].columns : rows[k].columns[l].data = Block(backend, l).data

ContentSeen == \A l \in Lines : Visible(l).data = content[l]

\* After a flush, and between two processes, everything is in the files.
NothingPending ==
  /\ saved => /\ DirtyRows = {} /\ AllClean(backend)
              /\ Persistent(backend) =>
                   backend.header = [made |-> TRUE, allocated |-> backend.allocated,
                                     written |-> backend.unique]
  /\ ~up => saved /\ \A k \in Banks : rows[k] = ClosedRow

\* Errors are injected into lines that are written whole, or not at all.
Correctable(s) == s.period = 0 \/ (s.masks \subseteq {{1, 2}} /\ ~s.loads)
Fits(x) ==
  (x.flipped => x.ecc) /\ (x.ecc => ~x.shadow) /\ (setup.period = 0 => ~x.flipped)
ShadowsFit ==
  Correctable(setup) =>
    /\ \A l \in Lines : Fits(Block(backend, l))
    /\ \A k \in Banks : \A l \in DOMAIN rows[k].columns : Fits(rows[k].columns[l])

ImageInv == Shape /\ CleanRows /\ ContentSeen /\ NothingPending /\ ShadowsFit

LEMMA ZeroBlock ==
  Zero \in BlockSet /\ BlocksOf(BlockSet) /\ Fits(Zero)
BY DEF Zero, BlockSet, BlocksOf, Fits

LEMMA SoundBlock ==
  ASSUME NEW b, Sound(BlockSet, b), NEW l \in Lines
  PROVE  Block(b, l) \in BlockSet /\ (l \notin b.present => Block(b, l) = Zero)
BY ZeroBlock, BlockInD DEF Sound

\* Columns of a row, and the lines that have none.
LEMMA RowFacts ==
  ASSUME Shape
  PROVE  /\ \A k \in Banks :
              /\ ColumnsOf(BlockSet, k) /\ rows[k] \in RowSet
              /\ rows[k].columns \in [DOMAIN rows[k].columns -> BlockSet]
              /\ DOMAIN rows[k].columns \in SUBSET Lines
         /\ \A l \in Lines :
              /\ BankOf[l] \in Banks
              /\ HasColumn(l) <=> l \in DOMAIN rows[BankOf[l]].columns
<1>1. ASSUME NEW k \in Banks
      PROVE  /\ rows[k] \in RowSet
             /\ DOMAIN rows[k].columns \in SUBSET Lines
             /\ rows[k].columns \in [DOMAIN rows[k].columns -> BlockSet]
  <2>1. rows[k] \in RowSet
    BY DEF Shape
  <2>2. PICK S \in SUBSET Lines : rows[k].columns \in [S -> BlockSet]
    BY <2>1 DEF RowSet
  <2> QED BY <2>1, <2>2
<1>2. \A k \in Banks : ColumnsOf(BlockSet, k)
  BY <1>1 DEF ColumnsOf, Shape
<1>3. \A l \in Lines : BankOf[l] \in Banks
  BY ImageAssumption
<1>4. \A l \in Lines : HasColumn(l) <=> l \in DOMAIN rows[BankOf[l]].columns
  BY <1>3 DEF HasColumn, OpenFor, Shape
<1> QED BY <1>1, <1>2, <1>3, <1>4

LEMMA ClosedRowType ==
  ASSUME NEW r \in Rows
  PROVE  /\ ClosedRow \in RowSet /\ ClosedRow.columns = NoColumns /\ ClosedRow.row = NoRow
         /\ ~ClosedRow.dirty /\ DOMAIN NoColumns = {}
         /\ [ClosedRow EXCEPT !.row = r] \in RowSet
         /\ [ClosedRow EXCEPT !.row = r].columns = NoColumns
         /\ ~[ClosedRow EXCEPT !.row = r].dirty
<1>1. DOMAIN NoColumns = {} /\ NoColumns \in [{} -> BlockSet]
  BY DEF NoColumns
<1>2. NoColumns \in UNION {[S -> BlockSet] : S \in SUBSET Lines}
  BY <1>1
<1> QED BY <1>1, <1>2 DEF ClosedRow, RowSet, Rows

\* A sound backend that has nothing.
LEMMA EmptyIsSound ==
  ASSUME NEW kind \in Kinds, NEW h \in [made : BOOLEAN, allocated : Nat, written : Nat]
  PROVE  LET b == [EmptyBackend(kind) EXCEPT !.header = h]
         IN /\ Sound(BlockSet, b) /\ AllClean(b) /\ b.kind = kind /\ b.header = h
            /\ b.present = {} /\ b.allocated = 0 /\ b.unique = 0
            /\ \A l \in Lines : Block(b, l) = Zero
<1> DEFINE e == EmptyBackend(kind)
           b == [e EXCEPT !.header = h]
<1>1. /\ e \in Backends(BlockSet) /\ e.cache = <<>> /\ e.present = {} /\ e.written = {}
      /\ e.allocated = 0 /\ e.unique = 0 /\ e.kind = kind
  <2> DEFINE file == [l \in Lines |-> Zero]
  <2>1. file \in [Lines -> BlockSet]
    BY ZeroBlock
  <2>2. NoHeader \in [made : BOOLEAN, allocated : Nat, written : Nat]
    BY DEF NoHeader
  <2> DEFINE none == NoHeader
  <2>3. e = [kind |-> kind, file |-> file, present |-> {}, written |-> {},
             header |-> none, allocated |-> 0, unique |-> 0, cache |-> <<>>]
    BY DEF EmptyBackend
  <2> HIDE DEF file, none, e
  <2> QED BY <2>1, <2>2, <2>3 DEF Backends, none
<1> HIDE DEF e
<1>2. b = [e EXCEPT !.header = h]
  OBVIOUS
<1> HIDE DEF b
<1>3. b \in Backends(BlockSet)
  BY <1>1, <1>2 DEF Backends
<1>4. b.cache = <<>> /\ b.present = {} /\ b.written = {} /\ b.allocated = 0 /\ b.unique = 0
      /\ b.kind = kind /\ b.header = h
  BY <1>1, <1>2 DEF Backends
<1>5. Coherent(b) /\ AllClean(b)
  <2>1. DOMAIN b.cache = {} /\ Len(b.cache) = 0 /\ CacheLimit \in Nat
    BY <1>4, BackendAssumption
  <2> QED BY <1>4, <2>1 DEF Coherent, WholeChunks, OnceCached, CleanAgree, AllClean
<1>6. CountersHold(b)
  BY <1>4, FS_EmptySet DEF CountersHold
<1>7. \A l \in Lines : Block(b, l) = Zero
  BY <1>4 DEF Block
<1>8. WrittenHold(b)
  BY <1>4 DEF WrittenHold
<1> QED BY <1>3, <1>4, <1>5, <1>6, <1>7, <1>8 DEF Sound, b, e

\* The constructor of the first process.
LEMMA ImageStart ==
  ASSUME Init
  PROVE  ImageInv
<1> DEFINE h == IF setup.kind # "sparse" THEN MakeHeader ELSE NoHeader
           b == [EmptyBackend(setup.kind) EXCEPT !.header = h]
           e == EmptyBackend(setup.kind)
<1>1. setup \in Setups /\ setup.kind \in Kinds
  BY ImageAssumption DEF Init
<1>2. /\ h \in [made : BOOLEAN, allocated : Nat, written : Nat]
      /\ NoHeader \in [made : BOOLEAN, allocated : Nat, written : Nat]
      /\ setup.kind # "sparse" => h = [made |-> TRUE, allocated |-> 0, written |-> 0]
  BY DEF MakeHeader, NoHeader
<1> HIDE DEF h
<1>3. /\ Sound(BlockSet, b) /\ AllClean(b) /\ b.kind = setup.kind /\ b.header = h
      /\ b.allocated = 0 /\ b.unique = 0 /\ \A l \in Lines : Block(b, l) = Zero
  BY <1>1, <1>2, EmptyIsSound
<1>4. backend = b
  <2>1. /\ e \in Backends(BlockSet) /\ e.header = NoHeader /\ e.kind = setup.kind
        /\ e.cache = <<>> /\ e.allocated = 0 /\ e.unique = 0
    <3>1. [e EXCEPT !.header = NoHeader] = e
      <4>1. e.header = NoHeader /\ e = [x \in DOMAIN e |-> e[x]]
        BY DEF EmptyBackend
      <4> HIDE DEF e
      <4> QED BY <4>1
    <3>2. LET x == [EmptyBackend(setup.kind) EXCEPT !.header = NoHeader]
          IN Sound(BlockSet, x) /\ x.header = NoHeader /\ x.kind = setup.kind
      BY <1>1, <1>2, EmptyIsSound
    <3> QED BY <3>1, <3>2 DEF Sound, EmptyBackend
  <2>2. backend = Open(e)
    BY DEF Init
  <2> HIDE DEF e
  <2>3. CASE setup.kind = "sparse"
    <3>1. backend = EmptyBackend(setup.kind)
      BY <2>1, <2>2, <2>3 DEF Open, Persistent
    <3>2. h = NoHeader
      BY <2>3 DEF h
    <3> QED BY <2>1, <3>1, <3>2 DEF e, Backends
  <2>4. CASE setup.kind # "sparse"
    <3>1. backend = [e EXCEPT !.header = MakeHeader, !.allocated = 0, !.unique = 0,
                              !.cache = <<>>]
      BY <2>1, <2>2, <2>4 DEF Open, Persistent, NoHeader
    <3>2. h = MakeHeader
      BY <2>4 DEF h
    <3>3. backend = [e EXCEPT !.header = MakeHeader]
      BY <2>1, <3>1 DEF Backends
    <3> QED BY <3>2, <3>3 DEF e
  <2> QED BY <2>3, <2>4
<1> HIDE DEF b
<1>5. \A l \in Lines : Block(backend, l) = Zero
  BY <1>3, <1>4
<1>6. /\ rows \in [Banks -> RowSet]
      /\ \A k \in Banks : rows[k] = ClosedRow /\ DOMAIN rows[k].columns = {}
                          /\ ~rows[k].dirty
  BY ClosedRowType DEF Init, Rows
<1>7. content \in [Lines -> [{1, 2} -> Nat]] /\ \A l \in Lines : content[l] = Zero.data
  BY ZeroBlock DEF Init, BlockSet
<1>8. Shape
  BY <1>1, <1>3, <1>4, <1>6, <1>7 DEF Shape, Init
<1>9. CleanRows
  BY <1>6 DEF CleanRows
<1>10. ContentSeen
  BY <1>5, <1>6, <1>7, <1>8, RowFacts DEF ContentSeen, Visible
<1>11. NothingPending
  <2>1. DirtyRows = {} /\ up
    BY <1>6 DEF DirtyRows, Init
  <2>2. Persistent(backend) => backend.header = [made |-> TRUE,
           allocated |-> backend.allocated, written |-> backend.unique]
    BY <1>2, <1>3, <1>4 DEF Persistent
  <2> QED BY <1>3, <1>4, <2>1, <2>2 DEF NothingPending
<1>12. ShadowsFit
  BY <1>5, <1>6, ZeroBlock DEF ShadowsFit
<1> QED BY <1>8, <1>9, <1>10, <1>11, <1>12 DEF ImageInv

-----------------------------------------------------------------------------
(* Closing rows *)

\* Clean rows are not stored.
LEMMA ClosingNothing ==
  ASSUME Shape, NEW K \in SUBSET Banks, \A k \in K : ~rows[k].dirty
  PROVE  Closed(backend, K) = backend
<1> DEFINE iter == CHOOSE it : CloseFold(it, K, backend)
           T == {s \in SUBSET K : iter[s] = backend}
           pick(s) == CHOOSE x \in s : TRUE
<1>1. Closed(backend, K) = iter[K]
  BY DEF Closed, FoldSet, MapThenFoldSet, CloseFold
<1>2. CloseFold(iter, K, backend)
  <2>1. \A k \in K : ColumnsOf(BlockSet, k)
    BY RowFacts
  <2>2. BlocksOf(BlockSet) /\ Sound(BlockSet, backend)
    BY ZeroBlock DEF Shape
  <2> QED BY <2>1, <2>2, CloseFoldExists
<1> HIDE DEF iter
<1>3. \A s \in SUBSET K :
        iter[s] = IF s = {} THEN backend ELSE Writeback(iter[s \ {pick(s)}], pick(s))
  BY <1>2, Zenon DEF CloseFold
<1>4. {} \in T
  BY <1>3
<1>5. ASSUME NEW s \in SUBSET K, NEW k \in s, k = pick(s), s \ {k} \in T
      PROVE  s \in T
  <2>1. iter[s] = Writeback(backend, k)
    BY <1>3, <1>5
  <2> QED BY <2>1 DEF Writeback
<1>6. \A s \in SUBSET K : s # {} => \E x \in s : s \ {x} \in T => s \in T
  BY <1>5
<1>7. IsFiniteSet(K)
  BY FS_Subset, ImageAssumption
<1> HIDE DEF T
<1>8. K \in T
  BY <1>4, <1>6, <1>7, SubsetInduction
<1> QED BY <1>1, <1>8 DEF T

\* What lines look like once the dirty rows of some banks are stored.
LEMMA AfterClosing ==
  ASSUME Shape, CleanRows, ShadowsFit, NEW K \in SUBSET Banks
  PROVE  LET b == Closed(backend, K)
         IN /\ Sound(BlockSet, b) /\ b.kind = backend.kind
            /\ \A l \in Lines :
                 IF HasColumn(l) /\ BankOf[l] \in K /\ rows[BankOf[l]].dirty
                 THEN Block(b, l) = Column(l) ELSE Block(b, l) = Block(backend, l)
            /\ \A l \in Lines : BankOf[l] \in K => Block(b, l).data = Visible(l).data
            /\ Correctable(setup) => \A l \in Lines : Fits(Block(b, l))
            /\ (\A k \in K : ~rows[k].dirty) => b = backend
<1> DEFINE b == Closed(backend, K)
<1>1. (\A k \in K : ~rows[k].dirty) => b = backend
  BY ClosingNothing
<1>2. Stored(BlockSet, backend, b, DirtyLines(K), Columns)
  <2>1. \A k \in K : ColumnsOf(BlockSet, k)
    BY RowFacts
  <2>2. BlocksOf(BlockSet) /\ Sound(BlockSet, backend)
    BY ZeroBlock DEF Shape
  <2> QED BY <2>1, <2>2, ClosingStores
<1> HIDE DEF b
<1>3. ASSUME NEW l \in Lines
      PROVE  l \in DirtyLines(K) <=> HasColumn(l) /\ BankOf[l] \in K /\ rows[BankOf[l]].dirty
  <2>1. \A k \in K : l \in DOMAIN rows[k].columns => k = BankOf[l]
    BY DEF Shape
  <2> QED BY <2>1, RowFacts DEF DirtyLines
<1>4. ASSUME NEW l \in Lines
      PROVE  IF HasColumn(l) /\ BankOf[l] \in K /\ rows[BankOf[l]].dirty
             THEN Block(b, l) = Column(l) ELSE Block(b, l) = Block(backend, l)
  BY <1>2, <1>3 DEF Stored, Columns, Column
<1>5. ASSUME NEW l \in Lines, BankOf[l] \in K
      PROVE  Block(b, l).data = Visible(l).data
  <2>1. HasColumn(l) /\ ~rows[BankOf[l]].dirty => Column(l).data = Block(backend, l).data
    BY RowFacts DEF CleanRows, Column
  <2> QED BY <1>4, <1>5, <2>1 DEF Visible
<1>6. ASSUME Correctable(setup), NEW l \in Lines
      PROVE  Fits(Block(b, l))
  <2>1. HasColumn(l) => Fits(Column(l))
    BY <1>6, RowFacts DEF ShadowsFit, Column
  <2> QED BY <1>4, <1>6, <2>1 DEF ShadowsFit
<1> QED BY <1>1, <1>2, <1>4, <1>5, <1>6 DEF Stored, b

\* activate_row(), precharge_bank() and precharge_all().
LEMMA CloseStep ==
  ASSUME ImageInv, up, NEW K \in SUBSET Banks, NEW opened, DOMAIN opened \subseteq K,
         \A k \in DOMAIN opened : \E r \in Rows : opened[k] = [ClosedRow EXCEPT !.row = r],
         CloseRows(K, opened)
  PROVE  ImageInv'
<1> DEFINE b == Closed(backend, K)
<1>1. /\ backend' = b
      /\ rows' = [k \in Banks |-> IF k \in DOMAIN opened THEN opened[k]
                                  ELSE IF k \in K THEN ClosedRow ELSE rows[k]]
      /\ saved' = (saved /\ \A k \in K : ~rows[k].dirty)
      /\ setup' = setup /\ up' = up /\ nextVersion' = nextVersion /\ starts' = starts
      /\ content' = content
  BY DEF CloseRows, Closed
<1>2. /\ Sound(BlockSet, b) /\ b.kind = backend.kind
      /\ \A l \in Lines :
           IF HasColumn(l) /\ BankOf[l] \in K /\ rows[BankOf[l]].dirty
           THEN Block(b, l) = Column(l) ELSE Block(b, l) = Block(backend, l)
      /\ \A l \in Lines : BankOf[l] \in K => Block(b, l).data = Visible(l).data
      /\ Correctable(setup) => \A l \in Lines : Fits(Block(b, l))
      /\ (\A k \in K : ~rows[k].dirty) => b = backend
  BY AfterClosing DEF ImageInv
<1> HIDE DEF b
<1>3. \A k \in Banks :
        /\ rows'[k] \in RowSet
        /\ k \in K => DOMAIN rows'[k].columns = {} /\ ~rows'[k].dirty
        /\ k \notin K => rows'[k] = rows[k]
  <2> SUFFICES ASSUME NEW k \in Banks
               PROVE  /\ rows'[k] \in RowSet
                      /\ k \in K => DOMAIN rows'[k].columns = {} /\ ~rows'[k].dirty
                      /\ k \notin K => rows'[k] = rows[k]
    OBVIOUS
  <2>1. CASE k \in DOMAIN opened
    <3>1. PICK r \in Rows : opened[k] = [ClosedRow EXCEPT !.row = r]
      BY <2>1
    <3>2. /\ [ClosedRow EXCEPT !.row = r] \in RowSet
          /\ DOMAIN [ClosedRow EXCEPT !.row = r].columns = {}
          /\ ~[ClosedRow EXCEPT !.row = r].dirty
      BY ClosedRowType
    <3>3. rows'[k] = opened[k] /\ k \in K
      BY <1>1, <2>1
    <3> QED BY <3>1, <3>2, <3>3
  <2>2. CASE k \notin DOMAIN opened /\ k \in K
    <3>1. ClosedRow \in RowSet /\ DOMAIN ClosedRow.columns = {} /\ ~ClosedRow.dirty
      BY ClosedRowType DEF Rows
    <3>2. rows'[k] = ClosedRow
      BY <1>1, <2>2
    <3> QED BY <2>2, <3>1, <3>2
  <2>3. CASE k \notin K
    <3>1. rows'[k] = rows[k]
      BY <1>1, <2>3
    <3> QED BY <2>3, <3>1, RowFacts DEF ImageInv
  <2> QED BY <2>1, <2>2, <2>3
<1>4. Shape'
  <2>1. rows' \in [Banks -> RowSet]
    BY <1>1, <1>3
  <2>2. saved' \in BOOLEAN
    BY <1>1 DEF ImageInv, Shape
  <2>3. \A k \in Banks : \A l \in DOMAIN rows'[k].columns :
          BankOf[l] = k /\ RowOf[l] = rows'[k].row
    BY <1>3 DEF ImageInv, Shape
  <2> QED BY <1>1, <1>2, <2>1, <2>2, <2>3 DEF ImageInv, Shape
<1>5. CleanRows'
  <2> SUFFICES ASSUME NEW k \in Banks, ~rows'[k].dirty, NEW l \in DOMAIN rows'[k].columns
               PROVE  rows'[k].columns[l].data = Block(b, l).data
    BY <1>1 DEF CleanRows
  <2>1. k \notin K /\ rows'[k] = rows[k]
    BY <1>3
  <2>2. l \in Lines /\ BankOf[l] = k
    BY <2>1, RowFacts DEF ImageInv, Shape
  <2>3. Block(b, l) = Block(backend, l)
    BY <1>2, <2>1, <2>2
  <2> QED BY <2>1, <2>3 DEF ImageInv, CleanRows
<1>6. ContentSeen'
  <2> SUFFICES ASSUME NEW l \in Lines
               PROVE  Visible(l)'.data = content[l]
    BY <1>1 DEF ContentSeen
  <2>1. BankOf[l] \in Banks /\ (HasColumn(l) <=> l \in DOMAIN rows[BankOf[l]].columns)
        /\ (HasColumn(l)' <=> l \in DOMAIN rows'[BankOf[l]].columns)
    <3>1. HasColumn(l)' <=> l \in DOMAIN rows'[BankOf[l]].columns
      BY <1>4, RowFacts, ImageAssumption DEF HasColumn, OpenFor, Shape
    <3> QED BY <3>1, RowFacts DEF ImageInv
  <2>2. Visible(l)' = IF HasColumn(l)' THEN rows'[BankOf[l]].columns[l] ELSE Block(b, l)
    BY <1>1 DEF Visible, Column
  <2>3. CASE BankOf[l] \in K
    BY <1>2, <1>3, <2>1, <2>2, <2>3 DEF ImageInv, ContentSeen
  <2>4. CASE BankOf[l] \notin K
    BY <1>2, <1>3, <2>1, <2>2, <2>4 DEF ImageInv, ContentSeen, Visible, Column
  <2> QED BY <2>3, <2>4
<1>7. NothingPending'
  <2>1. ASSUME saved'
        PROVE  backend' = backend /\ DirtyRows' = {}
    <3>1. saved /\ b = backend
      BY <1>1, <1>2, <2>1
    <3>2. \A k \in Banks : ~rows'[k].dirty
      BY <1>3, <3>1 DEF ImageInv, NothingPending, DirtyRows
    <3> QED BY <1>1, <3>1, <3>2 DEF DirtyRows
  <2> QED BY <1>1, <2>1 DEF ImageInv, NothingPending
<1>8. ShadowsFit'
  <2> SUFFICES ASSUME Correctable(setup)
               PROVE  /\ \A l \in Lines : Fits(Block(b, l))
                      /\ \A k \in Banks : \A l \in DOMAIN rows'[k].columns :
                           Fits(rows'[k].columns[l])
    BY <1>1 DEF ShadowsFit, Correctable, Fits
  <2> QED BY <1>2, <1>3 DEF ImageInv, ShadowsFit
<1> QED BY <1>4, <1>5, <1>6, <1>7, <1>8 DEF ImageInv

-----------------------------------------------------------------------------
(* Reading and writing *)

\* The row a line is put into.
LEMMA ColumnIsSet ==
  ASSUME Shape, NEW l \in Lines, OpenFor(l), NEW x \in BlockSet,
         NEW dirtied \in BOOLEAN, SetColumn(l, x, dirtied)
  PROVE  /\ rows' \in [Banks -> RowSet]
         /\ \A k \in Banks : rows'[k].row = rows[k].row
         /\ \A k \in Banks : rows'[k].dirty = (rows[k].dirty \/ (k = BankOf[l] /\ dirtied))
         /\ \A k \in Banks : DOMAIN rows'[k].columns =
              IF k = BankOf[l] THEN DOMAIN rows[k].columns \cup {l}
                               ELSE DOMAIN rows[k].columns
         /\ \A k \in Banks : \A c \in DOMAIN rows'[k].columns :
              rows'[k].columns[c] = IF c = l THEN x ELSE rows[k].columns[c]
<1> DEFINE K == BankOf[l]
           D == DOMAIN rows[K].columns
           cols == [c \in D \cup {l} |-> IF c = l THEN x ELSE rows[K].columns[c]]
           new == [rows[K] EXCEPT !.dirty = rows[K].dirty \/ dirtied, !.columns = cols]
<1>1. K \in Banks /\ rows[K] \in RowSet /\ D \in SUBSET Lines
      /\ rows[K].columns \in [D -> BlockSet] /\ rows \in [Banks -> RowSet]
  BY RowFacts DEF Shape
<1>2. rows' = [rows EXCEPT ![K] = new]
  BY DEF SetColumn
<1>3. cols \in [D \cup {l} -> BlockSet] /\ D \cup {l} \in SUBSET Lines
  BY <1>1
<1>4. DOMAIN cols = D \cup {l}
      /\ \A c \in D \cup {l} : cols[c] = IF c = l THEN x ELSE rows[K].columns[c]
  OBVIOUS
<1> HIDE DEF cols
<1>5. cols \in UNION {[S -> BlockSet] : S \in SUBSET Lines}
  BY <1>3
<1>6. /\ new \in RowSet /\ new.row = rows[K].row /\ new.columns = cols
      /\ new.dirty = (rows[K].dirty \/ dirtied)
  <2>1. (rows[K].dirty \/ dirtied) \in BOOLEAN
    BY <1>1 DEF RowSet
  <2> QED BY <1>1, <1>5, <2>1 DEF RowSet
<1> HIDE DEF new
<1>7. /\ rows' \in [Banks -> RowSet] /\ rows'[K] = new
      /\ \A k \in Banks : k # K => rows'[k] = rows[k]
  BY <1>1, <1>2, <1>6
<1>8. \A k \in Banks : k # K => l \notin DOMAIN rows[k].columns
  BY DEF Shape
<1>9. ASSUME NEW k \in Banks
      PROVE  /\ rows'[k].row = rows[k].row
             /\ rows'[k].dirty = (rows[k].dirty \/ (k = K /\ dirtied))
             /\ DOMAIN rows'[k].columns = IF k = K THEN D \cup {l} ELSE DOMAIN rows[k].columns
             /\ \A c \in DOMAIN rows'[k].columns :
                  rows'[k].columns[c] = IF c = l THEN x ELSE rows[k].columns[c]
  <2>1. CASE k = K
    BY <1>4, <1>6, <1>7, <2>1
  <2>2. CASE k # K
    <3>1. rows'[k] = rows[k] /\ rows[k] \in RowSet /\ l \notin DOMAIN rows[k].columns
      BY <1>1, <1>7, <1>8, <2>2
    <3>2. rows[k].dirty = (rows[k].dirty \/ (k = K /\ dirtied))
      BY <2>2, <3>1 DEF RowSet
    <3> QED BY <2>2, <3>1, <3>2
  <2> QED BY <2>1, <2>2
<1> QED BY <1>7, <1>9

\* What a process keeps when it works on one line.
SameProcess ==
  /\ setup' = setup /\ up /\ up' = up /\ starts' = starts
  /\ nextVersion' \in Nat \ {0} /\ saved' \in BOOLEAN

\* The files stay complete when nothing was stored.
StillSaved ==
  saved' => saved /\ SameBooks(backend, backend') /\ AllClean(backend')

LEMMA StaySaved ==
  ASSUME Shape, NothingPending, SameProcess, StillSaved,
         saved' => \A k \in Banks : rows'[k].dirty = rows[k].dirty
  PROVE  NothingPending'
<1>1. saved' => DirtyRows' = {}
  BY DEF NothingPending, StillSaved, DirtyRows
<1>2. ASSUME saved', Persistent(backend')
      PROVE  backend'.header = [made |-> TRUE, allocated |-> backend'.allocated,
                                written |-> backend'.unique]
  BY <1>2 DEF NothingPending, StillSaved, SameBooks, Persistent
<1> QED BY <1>1, <1>2 DEF NothingPending, SameProcess, StillSaved

\* A line of an open row gets the block x.
LEMMA OpenRowStep ==
  ASSUME ImageInv, SameProcess, StillSaved, NEW l \in Lines, OpenFor(l),
         NEW x \in BlockSet, NEW dirtied \in BOOLEAN, SetColumn(l, x, dirtied),
         Sound(BlockSet, backend'), backend'.kind = backend.kind,
         \A c \in Lines : Block(backend', c) = Block(backend, c),
         content' = [content EXCEPT ![l] = x.data],
         ~dirtied => x.data = Visible(l).data, saved' => ~dirtied,
         Correctable(setup) => Fits(x)
  PROVE  ImageInv'
<1> DEFINE K == BankOf[l]
<1>0. Shape
  BY DEF ImageInv
<1>1. /\ rows' \in [Banks -> RowSet]
      /\ \A k \in Banks : rows'[k].row = rows[k].row
      /\ \A k \in Banks : rows'[k].dirty = (rows[k].dirty \/ (k = K /\ dirtied))
      /\ \A k \in Banks : DOMAIN rows'[k].columns =
           IF k = K THEN DOMAIN rows[k].columns \cup {l} ELSE DOMAIN rows[k].columns
      /\ \A k \in Banks : \A c \in DOMAIN rows'[k].columns :
           rows'[k].columns[c] = IF c = l THEN x ELSE rows[k].columns[c]
  BY <1>0, ColumnIsSet
<1>2. K \in Banks /\ rows[K].row = RowOf[l]
  BY ImageAssumption DEF OpenFor
<1>3. Shape'
  <2>1. content' \in [Lines -> [{1, 2} -> Nat]]
    <3>1. x.data \in [{1, 2} -> Nat]
      BY DEF BlockSet
    <3> QED BY <1>0, <3>1 DEF Shape
  <2>2. \A k \in Banks : \A c \in DOMAIN rows'[k].columns :
          BankOf[c] = k /\ RowOf[c] = rows'[k].row
    <3> SUFFICES ASSUME NEW k \in Banks, NEW c \in DOMAIN rows'[k].columns
                 PROVE  BankOf[c] = k /\ RowOf[c] = rows[k].row
      BY <1>1
    <3>1. c \in DOMAIN rows[k].columns \/ (k = K /\ c = l)
      BY <1>1
    <3> QED BY <1>0, <1>2, <3>1 DEF Shape
  <2> QED BY <1>0, <1>1, <2>1, <2>2 DEF Shape, SameProcess
<1>4. CleanRows'
  <2> SUFFICES ASSUME NEW k \in Banks, ~rows'[k].dirty, NEW c \in DOMAIN rows'[k].columns
               PROVE  rows'[k].columns[c].data = Block(backend', c).data
    BY DEF CleanRows
  <2>1. ~rows[k].dirty /\ c \in Lines /\ (k = K => ~dirtied)
    <3>1. DOMAIN rows[k].columns \subseteq Lines
      BY <1>0, RowFacts
    <3>2. rows[k].dirty \in BOOLEAN
      BY <1>0 DEF Shape, RowSet
    <3> QED BY <1>1, <3>1, <3>2, ZenonT(60)
  <2>2. CASE c = l
    <3>1. k = K
      BY <1>3, <2>2 DEF Shape
    <3>2. Visible(l).data = Block(backend, l).data
      BY <2>1, <3>1, <1>0, RowFacts DEF ImageInv, CleanRows, Visible, Column
    <3> QED BY <1>1, <2>1, <2>2, <3>1, <3>2
  <2>3. CASE c # l
    <3>1. c \in DOMAIN rows[k].columns
      BY <1>1, <2>3
    <3>2. rows[k].columns[c].data = Block(backend, c).data
      BY <2>1, <3>1 DEF ImageInv, CleanRows
    <3> QED BY <1>1, <2>1, <2>3, <3>2
  <2> QED BY <2>2, <2>3
<1>5. ASSUME NEW c \in Lines
      PROVE  Visible(c)' = IF c = l THEN x ELSE Visible(c)
  <2>1. BankOf[c] \in Banks /\ (HasColumn(c) <=> c \in DOMAIN rows[BankOf[c]].columns)
    BY <1>0, RowFacts
  <2>2. HasColumn(c)' <=> c \in DOMAIN rows'[BankOf[c]].columns
    BY <1>3, <2>1 DEF HasColumn, OpenFor, Shape
  <2>3. Visible(c)' = IF HasColumn(c)' THEN rows'[BankOf[c]].columns[c]
                      ELSE Block(backend', c)
    BY DEF Visible, Column
  <2> QED BY <1>1, <2>1, <2>2, <2>3, ZenonT(60) DEF Visible, Column
<1>6. ContentSeen'
  BY <1>0, <1>5 DEF ImageInv, ContentSeen, Shape
<1>7. NothingPending'
  <2>1. ASSUME saved', NEW k \in Banks
        PROVE  rows'[k].dirty = rows[k].dirty
    <3>1. rows[k].dirty \in BOOLEAN
      BY <1>0 DEF Shape, RowSet
    <3> QED BY <1>1, <2>1, <3>1
  <2> QED BY <1>0, <2>1, StaySaved DEF ImageInv
<1>8. ShadowsFit'
  <2> SUFFICES ASSUME Correctable(setup)
               PROVE  /\ \A c \in Lines : Fits(Block(backend', c))
                      /\ \A k \in Banks : \A c \in DOMAIN rows'[k].columns :
                           Fits(rows'[k].columns[c])
    BY DEF ShadowsFit, Correctable, Fits, SameProcess
  <2>1. \A k \in Banks : \A c \in DOMAIN rows'[k].columns :
          c = l \/ c \in DOMAIN rows[k].columns
    BY <1>1
  <2> QED BY <1>1, <2>1 DEF ImageInv, ShadowsFit
<1> QED BY <1>3, <1>4, <1>6, <1>7, <1>8 DEF ImageInv

\* A line of no open row gets the block x.
LEMMA ClosedRowStep ==
  ASSUME ImageInv, SameProcess, StillSaved, NEW l \in Lines, ~OpenFor(l),
         NEW x \in BlockSet, rows' = rows,
         Sound(BlockSet, backend'), backend'.kind = backend.kind,
         \A c \in Lines : Block(backend', c) = IF c = l THEN x ELSE Block(backend, c),
         content' = [content EXCEPT ![l] = x.data],
         Correctable(setup) => Fits(x)
  PROVE  ImageInv'
<1>0. Shape
  BY DEF ImageInv
<1>1. Shape'
  <2>1. content' \in [Lines -> [{1, 2} -> Nat]]
    <3>1. x.data \in [{1, 2} -> Nat]
      BY DEF BlockSet
    <3> QED BY <1>0, <3>1 DEF Shape
  <2> QED BY <1>0, <2>1 DEF Shape, SameProcess
<1>2. ~HasColumn(l)
  BY DEF HasColumn
<1>3. \A k \in Banks : \A c \in DOMAIN rows[k].columns : c \in Lines /\ c # l
  BY <1>0, <1>2, RowFacts DEF Shape
<1>4. CleanRows'
  BY <1>3 DEF ImageInv, CleanRows
<1>5. ASSUME NEW c \in Lines
      PROVE  Visible(c)' = IF c = l THEN x ELSE Visible(c)
  BY <1>2 DEF Visible, HasColumn, OpenFor, Column
<1>6. ContentSeen'
  BY <1>0, <1>5 DEF ImageInv, ContentSeen, Shape
<1>7. NothingPending'
  BY <1>0, StaySaved DEF ImageInv
<1>8. ShadowsFit'
  <2> SUFFICES ASSUME Correctable(setup)
               PROVE  /\ \A c \in Lines : Fits(Block(backend', c))
                      /\ \A k \in Banks : \A c \in DOMAIN rows[k].columns :
                           Fits(rows[k].columns[c])
    BY DEF ShadowsFit, Correctable, Fits, SameProcess
  <2> QED BY <1>3 DEF ImageInv, ShadowsFit
<1> QED BY <1>1, <1>4, <1>6, <1>7, <1>8 DEF ImageInv

\* check_ecc_shadow() and refresh_ecc_shadow() of a block.
LEMMA CheckFacts ==
  ASSUME Shape, NEW x \in BlockSet
  PROVE  LET y == CheckShadow(x)
         IN /\ y \in BlockSet /\ y.data = x.data
            /\ Correctable(setup) /\ Fits(x) => Fits(y)
<1>1. x.flipped \in BOOLEAN /\ x.shadow \in BOOLEAN /\ x.ecc \in BOOLEAN
  BY DEF BlockSet
<1>2. CASE x.ecc
  <2> DEFINE y == [x EXCEPT !.flipped = x.shadow]
  <2>1. CheckShadow(x) = y
    BY <1>2 DEF CheckShadow
  <2>2. y \in BlockSet /\ y.data = x.data /\ y.flipped = x.shadow /\ y.shadow = x.shadow
        /\ y.ecc = x.ecc
    BY <1>1 DEF BlockSet
  <2> HIDE DEF y
  <2>3. Fits(x) => Fits(y)
    BY <1>2, <2>2 DEF Fits
  <2> QED BY <2>1, <2>2, <2>3
<1>3. CASE ~x.ecc
  BY <1>3 DEF CheckShadow
<1> QED BY <1>2, <1>3

LEMMA RefreshFacts ==
  ASSUME NEW x \in BlockSet
  PROVE  LET y == RefreshShadow(x)
         IN /\ y \in BlockSet /\ y.data = x.data /\ y.version = x.version
            /\ y.flipped = x.flipped /\ y.shadow = x.flipped /\ y.ecc
BY DEF RefreshShadow, BlockSet

\* maybe_inject_ecc_error() of a block with a right shadow.
LEMMA InjectFacts ==
  ASSUME Shape, NEW x \in BlockSet
  PROVE  LET y == MaybeInject(x)
         IN /\ y \in BlockSet /\ y.data = x.data
            /\ ~x.flipped /\ ~x.shadow /\ x.ecc => Fits(y)
<1> DEFINE y == MaybeInject(x)
<1>1. x.flipped \in BOOLEAN
  BY DEF BlockSet
<1>2. CASE y = x
  BY <1>2 DEF Fits
<1>3. CASE y # x
  <2>1. setup.period # 0 /\ y = [x EXCEPT !.flipped = ~x.flipped]
    BY <1>3 DEF MaybeInject
  <2> HIDE DEF y
  <2>2. /\ y \in BlockSet /\ y.data = x.data /\ y.shadow = x.shadow /\ y.ecc = x.ecc
    BY <1>1, <2>1 DEF BlockSet
  <2> QED BY <2>1, <2>2 DEF Fits, y
<1> QED BY <1>2, <1>3

\* What a line holds, wherever it is.
LEMMA VisibleFacts ==
  ASSUME Shape, NEW l \in Lines
  PROVE  /\ Visible(l) \in BlockSet /\ Target(l) = Visible(l)
         /\ ~OpenFor(l) => Visible(l) = Block(backend, l)
         /\ ShadowsFit /\ Correctable(setup) => Fits(Visible(l))
<1>1. Block(backend, l) \in BlockSet
  BY SoundBlock DEF Shape
<1>2. /\ BankOf[l] \in Banks /\ HasColumn(l) <=> l \in DOMAIN rows[BankOf[l]].columns
      /\ rows[BankOf[l]].columns \in [DOMAIN rows[BankOf[l]].columns -> BlockSet]
  BY RowFacts
<1> QED BY <1>1, <1>2 DEF Visible, Target, Column, HasColumn, ShadowsFit

\* load() of the line, if it has no column yet.
LEMMA TargetIsSound ==
  ASSUME Shape, NEW l \in Lines, NEW r, r \in {backend, AfterLoad(backend, l)}
  PROVE  /\ Sound(BlockSet, r) /\ SameBooks(backend, r)
         /\ \A k \in Lines : Block(r, k) = Block(backend, k)
         /\ AllClean(backend) => AllClean(r)
<1>1. Sound(BlockSet, backend)
  BY DEF Shape
<1>2. CASE r = backend
  BY <1>1, <1>2 DEF SameBooks
<1>3. CASE r = AfterLoad(backend, l)
  BY <1>1, <1>3, LoadIsSound
<1> QED BY <1>2, <1>3

LEMMA ReadStep ==
  ASSUME ImageInv, NEW l \in Lines, Read(l)
  PROVE  ImageInv'
<1> DEFINE x == CheckShadow(Visible(l))
<1>0. Shape /\ up /\ (saved => AllClean(backend))
  BY DEF ImageInv, Read, NothingPending
<1>1. /\ Visible(l) \in BlockSet /\ Target(l) = Visible(l)
      /\ ~OpenFor(l) => Visible(l) = Block(backend, l)
      /\ Correctable(setup) => Fits(Visible(l))
  BY <1>0, VisibleFacts DEF ImageInv
<1>2. x \in BlockSet /\ x.data = Visible(l).data /\ (Correctable(setup) => Fits(x))
  BY <1>0, <1>1, CheckFacts
<1> HIDE DEF x
<1>3. /\ setup' = setup /\ up' = up /\ nextVersion' = nextVersion /\ starts' = starts
      /\ content' = content
  BY DEF Read
<1>4. content' = [content EXCEPT ![l] = x.data]
  <2>1. content[l] = x.data
    BY <1>2 DEF ImageInv, ContentSeen
  <2>2. content = [content EXCEPT ![l] = content[l]]
    BY <1>0 DEF Shape
  <2> QED BY <1>3, <2>1, <2>2
<1>5. CASE OpenFor(l)
  <2>1. SetColumn(l, x, FALSE) /\ backend' = AfterTarget(l) /\ saved' = saved
    BY <1>1, <1>5 DEF Read, x
  <2>2. backend' \in {backend, AfterLoad(backend, l)}
    BY <2>1 DEF AfterTarget
  <2>3. /\ Sound(BlockSet, backend') /\ SameBooks(backend, backend')
        /\ \A k \in Lines : Block(backend', k) = Block(backend, k)
        /\ AllClean(backend) => AllClean(backend')
    BY <1>0, <2>2, TargetIsSound
  <2>4. SameProcess /\ StillSaved
    BY <1>0, <1>3, <2>1, <2>3 DEF SameProcess, StillSaved, Shape
  <2>5. backend'.kind = backend.kind
    BY <2>3 DEF SameBooks
  <2> QED BY <1>2, <1>4, <1>5, <2>1, <2>3, <2>4, <2>5, OpenRowStep
<1>6. CASE ~OpenFor(l)
  <2> DEFINE loaded == AfterLoad(backend, l)
  <2>1. x = CheckShadow(Block(backend, l)) /\ rows' = rows
    BY <1>1, <1>6 DEF Read, x
  <2>2. /\ Sound(BlockSet, loaded) /\ SameBooks(backend, loaded)
        /\ \A k \in Lines : Block(loaded, k) = Block(backend, k)
        /\ AllClean(backend) => AllClean(loaded)
    BY <1>0, TargetIsSound
  <2>3. \/ backend' = Store(loaded, l, x) /\ saved' = FALSE
        \/ /\ backend' = loaded /\ saved' = saved
           /\ l \notin backend.present \/ x = Block(backend, l)
    BY <1>6, <2>1 DEF Read
  <2> HIDE DEF loaded
  <2>4. CASE backend' = Store(loaded, l, x) /\ saved' = FALSE
    <3>1. /\ Sound(BlockSet, backend') /\ backend'.kind = loaded.kind
          /\ \A k \in Lines : Block(backend', k) = IF k = l THEN x ELSE Block(loaded, k)
      BY <1>2, <2>2, <2>4, ZeroBlock, StoreIsSound
    <3>2. SameProcess /\ StillSaved
      BY <1>0, <1>3, <2>4 DEF SameProcess, StillSaved, Shape
    <3>3. backend'.kind = backend.kind
      BY <2>2, <3>1 DEF SameBooks
    <3>4. \A k \in Lines : Block(backend', k) = IF k = l THEN x ELSE Block(backend, k)
      BY <2>2, <3>1
    <3> QED BY <1>2, <1>4, <1>6, <2>1, <3>1, <3>2, <3>3, <3>4, ClosedRowStep
  <2>5. CASE /\ backend' = loaded /\ saved' = saved
             /\ l \notin backend.present \/ x = Block(backend, l)
    <3>1. x = Block(backend, l)
      <4>1. CASE l \notin backend.present
        <5>1. Block(backend, l) = Zero
          BY <4>1 DEF Block
        <5>2. CheckShadow(Zero) = Zero
          BY DEF CheckShadow, Zero
        <5> QED BY <2>1, <5>1, <5>2
      <4> QED BY <2>5, <4>1
    <3>2. SameProcess /\ StillSaved
      BY <1>0, <1>3, <2>2, <2>5 DEF SameProcess, StillSaved, Shape
    <3>3. backend'.kind = backend.kind
      BY <2>2, <2>5 DEF SameBooks
    <3>4. \A k \in Lines : Block(backend', k) = IF k = l THEN x ELSE Block(backend, k)
      BY <2>2, <2>5, <3>1
    <3> QED BY <1>2, <1>4, <1>6, <2>1, <2>2, <2>5, <3>2, <3>3, <3>4, ClosedRowStep
  <2> QED BY <2>3, <2>4, <2>5
<1> QED BY <1>5, <1>6

\* A block under a mask: its bytes are n, its version is v.
Masked(x, mask, n, v) ==
  [x EXCEPT !.data = [h \in {1, 2} |-> IF h \in mask THEN n ELSE @[h]],
            !.version = v, !.flipped = @ /\ 1 \notin mask]

LEMMA MaskedFacts ==
  ASSUME Shape, NEW x \in BlockSet, NEW mask \in setup.masks, NEW v \in Nat, NEW n \in Nat
  PROVE  LET y == Masked(x, mask, n, v)
         IN /\ y \in BlockSet
            /\ y.data = [h \in {1, 2} |-> IF h \in mask THEN n ELSE x.data[h]]
            /\ mask = {} => y.data = x.data
            /\ Correctable(setup) /\ Fits(x) => ~y.flipped
<1> DEFINE data == [h \in {1, 2} |-> IF h \in mask THEN n ELSE x.data[h]]
           flipped == x.flipped /\ 1 \notin mask
           y == Masked(x, mask, n, v)
<1>1. x.data \in [{1, 2} -> Nat] /\ x.flipped \in BOOLEAN
  BY DEF BlockSet
<1>2. data \in [{1, 2} -> Nat] /\ (mask = {} => data = x.data)
  BY <1>1
<1>3. flipped \in BOOLEAN
  BY <1>1
<1>4. Correctable(setup) /\ Fits(x) => ~flipped
  BY DEF Correctable, Fits
<1>5. y = [x EXCEPT !.data = data, !.version = v, !.flipped = flipped]
  BY DEF Masked
<1> HIDE DEF data, flipped, y
<1>6. y \in BlockSet /\ y.data = data /\ y.flipped = flipped
  BY <1>2, <1>3, <1>5 DEF BlockSet
<1> QED BY <1>2, <1>4, <1>6 DEF y, data, flipped

\* The stamps of writes and of loaded bytes are numbers.
LEMMA StampType == ASSUME Shape PROVE Stamp \in Nat /\ Loaded \in Nat
<1>1. MaxWrites \in Nat /\ MaxStarts \in Nat /\ starts - 1 \in Nat /\ nextVersion \in Nat
  BY ImageAssumption DEF Shape
<1>2. \A m, n \in Nat : m * n \in Nat
  OBVIOUS
<1>3. (starts - 1) * MaxWrites \in Nat /\ MaxStarts * MaxWrites \in Nat
  BY <1>1, <1>2
<1> QED BY <1>1, <1>3 DEF Stamp, Loaded

LEMMA WriteStep ==
  ASSUME ImageInv, NEW l \in Lines, NEW mask \in setup.masks, Write(l, mask)
  PROVE  ImageInv'
<1> DEFINE old == Visible(l)
           y == Overwrite(old, mask)
           z == RefreshShadow(y)
           x == MaybeInject(z)
           loaded == AfterLoad(backend, l)
<1>0. Shape /\ up
  BY DEF ImageInv, Write
<1>1. /\ old \in BlockSet /\ Target(l) = old
      /\ ~OpenFor(l) => old = Block(backend, l)
      /\ Correctable(setup) => Fits(old)
  BY <1>0, VisibleFacts DEF ImageInv
<1>2. y \in BlockSet /\ y.data = [h \in {1, 2} |-> IF h \in mask THEN Stamp ELSE old.data[h]]
      /\ (mask = {} => y.data = old.data) /\ (Correctable(setup) => ~y.flipped)
  <2> DEFINE v == IF mask = {} THEN old.version ELSE nextVersion
  <2>1. v \in Nat /\ Stamp \in Nat
    BY <1>0, <1>1, StampType DEF Shape, BlockSet
  <2>2. y = Masked(old, mask, Stamp, v)
    BY DEF Overwrite, Masked
  <2> HIDE DEF y, v, old
  <2> QED BY <1>0, <1>1, <2>1, <2>2, MaskedFacts
<1> HIDE DEF y
<1>3. z \in BlockSet /\ z.data = y.data /\ z.flipped = y.flipped /\ z.shadow = y.flipped /\ z.ecc
  BY <1>2, RefreshFacts
<1> HIDE DEF z
<1>4. x \in BlockSet /\ x.data = y.data /\ (Correctable(setup) => Fits(x))
  BY <1>0, <1>2, <1>3, InjectFacts
<1> HIDE DEF x
<1>5. x = MaybeInject(RefreshShadow(Overwrite(Target(l), mask)))
  BY <1>1 DEF x, z, y
<1>6. /\ IF OpenFor(l)
         THEN /\ SetColumn(l, x, Dirties(mask))
              /\ backend' = IF l \in backend.present THEN loaded ELSE Store(loaded, l, Zero)
         ELSE backend' = Store(loaded, l, x) /\ rows' = rows
      /\ saved' = FALSE /\ setup' = setup /\ up' = up /\ starts' = starts
      /\ nextVersion' = IF mask = {} THEN nextVersion ELSE nextVersion + 1
      /\ content' = [content EXCEPT ![l] =
           [h \in {1, 2} |-> IF h \in mask THEN Stamp ELSE @[h]]]
  BY <1>5 DEF Write
<1>7. content' = [content EXCEPT ![l] = x.data]
  <2>1. content[l] = old.data
    BY DEF ImageInv, ContentSeen
  <2> QED BY <1>2, <1>4, <1>6, <2>1
<1>8. /\ Sound(BlockSet, loaded) /\ SameBooks(backend, loaded)
      /\ \A k \in Lines : Block(loaded, k) = Block(backend, k)
  BY <1>0, TargetIsSound
<1>9. SameProcess /\ StillSaved
  <2>1. nextVersion' \in Nat \ {0}
    BY <1>0, <1>6 DEF Shape
  <2> QED BY <1>0, <1>6, <2>1 DEF SameProcess, StillSaved
<1> HIDE DEF loaded, old
<1>10. CASE OpenFor(l)
  <2>1. Dirties(mask) \in BOOLEAN /\ (~Dirties(mask) => x.data = old.data)
    BY <1>2, <1>4 DEF Dirties
  <2>2. /\ Sound(BlockSet, backend') /\ backend'.kind = backend.kind
        /\ \A c \in Lines : Block(backend', c) = Block(backend, c)
    <3>1. CASE l \in backend.present
      BY <1>6, <1>8, <1>10, <3>1 DEF SameBooks
    <3>2. CASE l \notin backend.present
      <4>1. backend' = Store(loaded, l, Zero)
        BY <1>6, <1>10, <3>2
      <4>2. /\ Sound(BlockSet, backend') /\ backend'.kind = loaded.kind
            /\ \A c \in Lines : Block(backend', c) = IF c = l THEN Zero ELSE Block(loaded, c)
        BY <1>8, <4>1, ZeroBlock, StoreIsSound
      <4>3. Block(backend, l) = Zero
        BY <3>2 DEF Block
      <4> QED BY <1>8, <4>2, <4>3 DEF SameBooks
    <3> QED BY <3>1, <3>2
  <2>3. SetColumn(l, x, Dirties(mask)) /\ saved' = FALSE
    BY <1>6, <1>10
  <2> QED BY <1>4, <1>7, <1>9, <1>10, <2>1, <2>2, <2>3, OpenRowStep DEF old
<1>11. CASE ~OpenFor(l)
  <2>1. backend' = Store(loaded, l, x) /\ rows' = rows
    BY <1>6, <1>11
  <2>2. /\ Sound(BlockSet, backend') /\ backend'.kind = loaded.kind
        /\ \A c \in Lines : Block(backend', c) = IF c = l THEN x ELSE Block(loaded, c)
    BY <1>4, <1>8, <2>1, ZeroBlock, StoreIsSound
  <2>3. backend'.kind = backend.kind
    BY <1>8, <2>2 DEF SameBooks
  <2>4. \A c \in Lines : Block(backend', c) = IF c = l THEN x ELSE Block(backend, c)
    BY <1>8, <2>2
  <2> QED BY <1>4, <1>7, <1>9, <1>11, <2>1, <2>2, <2>3, <2>4, ClosedRowStep
<1> QED BY <1>10, <1>11

LEMMA LoadTextStep ==
  ASSUME ImageInv, NEW l \in Lines, NEW mask \in setup.masks, LoadText(l, mask)
  PROVE  ImageInv'
<1> DEFINE old == Block(backend, l)
           y == Masked(old, mask, Loaded, 0)
           x == RefreshShadow(y)
           loaded == AfterLoad(backend, l)
<1>0. Shape /\ up /\ setup.loads
  BY DEF ImageInv, LoadText
<1>1. ~OpenFor(l)
  BY ImageAssumption DEF LoadText, OpenFor
<1>2. old \in BlockSet /\ Visible(l) = old /\ (Correctable(setup) => Fits(old))
  BY <1>0, <1>1, VisibleFacts DEF ImageInv
<1>3. y \in BlockSet /\ y.data = [h \in {1, 2} |-> IF h \in mask THEN Loaded ELSE old.data[h]]
      /\ (Correctable(setup) => ~y.flipped)
  <2>1. Loaded \in Nat
    BY <1>0, StampType
  <2> HIDE DEF old
  <2> QED BY <1>0, <1>2, <2>1, MaskedFacts
<1>4. /\ rows' = rows /\ backend' = Store(loaded, l, x)
      /\ saved' = FALSE /\ setup' = setup /\ up' = up /\ starts' = starts
      /\ nextVersion' = nextVersion
      /\ content' = [content EXCEPT ![l] =
           [h \in {1, 2} |-> IF h \in mask THEN Loaded ELSE @[h]]]
  BY DEF LoadText, Masked
<1> HIDE DEF y
<1>5. x \in BlockSet /\ x.data = y.data /\ x.flipped = y.flipped /\ x.shadow = y.flipped /\ x.ecc
  BY <1>3, RefreshFacts
<1> HIDE DEF x
<1>6. Correctable(setup) => Fits(x)
  BY <1>3, <1>5 DEF Fits
<1>7. content' = [content EXCEPT ![l] = x.data]
  <2>1. content[l] = old.data
    BY <1>2 DEF ImageInv, ContentSeen
  <2> QED BY <1>3, <1>4, <1>5, <2>1
<1>8. /\ Sound(BlockSet, loaded) /\ SameBooks(backend, loaded)
      /\ \A k \in Lines : Block(loaded, k) = Block(backend, k)
  BY <1>0, TargetIsSound
<1>9. SameProcess /\ StillSaved
  BY <1>0, <1>4 DEF SameProcess, StillSaved, Shape
<1> HIDE DEF loaded, old
<1>10. /\ Sound(BlockSet, backend') /\ backend'.kind = loaded.kind
       /\ \A c \in Lines : Block(backend', c) = IF c = l THEN x ELSE Block(loaded, c)
  BY <1>4, <1>5, <1>8, ZeroBlock, StoreIsSound
<1>11. backend'.kind = backend.kind
  BY <1>8, <1>10 DEF SameBooks
<1>12. \A c \in Lines : Block(backend', c) = IF c = l THEN x ELSE Block(backend, c)
  BY <1>8, <1>10
<1> QED BY <1>1, <1>4, <1>5, <1>6, <1>7, <1>9, <1>10, <1>11, <1>12, ClosedRowStep

-----------------------------------------------------------------------------
(* The other operations *)

LEMMA ActivateStep ==
  ASSUME ImageInv, NEW l \in Lines, ActivateRow(l)
  PROVE  ImageInv'
<1> DEFINE k == BankOf[l]
           r == RowOf[l]
           opened == [b \in {k} |-> [ClosedRow EXCEPT !.row = r]]
<1>1. k \in Banks /\ r \in Rows
  BY ImageAssumption DEF Rows
<1>2. up /\ CloseRows({k}, opened)
  BY DEF ActivateRow
<1>3. DOMAIN opened = {k} /\ opened[k] = [ClosedRow EXCEPT !.row = r]
  OBVIOUS
<1> HIDE DEF opened, k, r
<1> DEFINE K == {k}
<1>4. K \in SUBSET Banks /\ DOMAIN opened \subseteq K /\ CloseRows(K, opened)
  BY <1>1, <1>2, <1>3
<1> HIDE DEF K
<1>5. \A x \in DOMAIN opened : \E q \in Rows : opened[x] = [ClosedRow EXCEPT !.row = q]
  BY <1>1, <1>3
<1> QED BY <1>2, <1>4, <1>5, CloseStep

LEMMA PrechargeStep ==
  ASSUME ImageInv, PrechargeAll \/ (\E k \in Banks : PrechargeBank(k))
  PROVE  ImageInv'
<1>1. up /\ \E K \in SUBSET Banks : CloseRows(K, NothingOpened)
  BY DEF PrechargeAll, PrechargeBank
<1>2. PICK K \in SUBSET Banks : CloseRows(K, NothingOpened)
  BY <1>1
<1> DEFINE opened == NothingOpened
<1>3. DOMAIN opened = {}
  BY DEF NothingOpened
<1>4. CloseRows(K, opened)
  BY <1>2
<1> HIDE DEF opened
<1>5. DOMAIN opened \subseteq K
      /\ \A k \in DOMAIN opened : \E r \in Rows : opened[k] = [ClosedRow EXCEPT !.row = r]
  BY <1>3
<1> QED BY <1>1, <1>4, <1>5, CloseStep

\* A line that is not in a row of the process is in the backend.
LEMMA NothingDirty ==
  ASSUME Shape, CleanRows, DirtyRows = {}, NEW l \in Lines
  PROVE  Visible(l).data = Block(backend, l).data
<1>1. BankOf[l] \in Banks /\ (HasColumn(l) <=> l \in DOMAIN rows[BankOf[l]].columns)
  BY RowFacts
<1>2. ~rows[BankOf[l]].dirty
  BY <1>1 DEF DirtyRows
<1> QED BY <1>1, <1>2 DEF Visible, Column, CleanRows

\* What the header of a flushed backend says, also after it was opened again.
HeaderHolds(b) ==
  b.header = [made |-> TRUE, allocated |-> b.allocated, written |-> b.unique]

\* All rows are closed, and the lines are those of a sound backend.
LEMMA AllClosed ==
  ASSUME Shape, setup' = setup, up' \in BOOLEAN, saved' \in BOOLEAN,
         nextVersion' \in Nat \ {0}, starts' \in Nat \ {0},
         content' \in [Lines -> [{1, 2} -> Nat]],
         Sound(BlockSet, backend'), backend'.kind = backend.kind,
         rows' = [k \in Banks |-> ClosedRow],
         \A l \in Lines : Block(backend', l).data = content'[l],
         ~up' => saved',
         saved' => AllClean(backend') /\ (Persistent(backend') => HeaderHolds(backend')),
         Correctable(setup) => \A l \in Lines : Fits(Block(backend', l))
  PROVE  ImageInv'
<1>1. /\ rows' \in [Banks -> RowSet]
      /\ \A k \in Banks : rows'[k] = ClosedRow /\ DOMAIN rows'[k].columns = {}
                          /\ ~rows'[k].dirty
  BY ClosedRowType DEF Rows
<1>2. Shape'
  BY <1>1 DEF Shape
<1>3. CleanRows' /\ NothingPending'
  BY <1>1 DEF CleanRows, NothingPending, DirtyRows, HeaderHolds
<1>4. ASSUME NEW l \in Lines
      PROVE  Visible(l)' = Block(backend', l)
  <2>1. BankOf[l] \in Banks /\ RowOf[l] # NoRow
    BY ImageAssumption
  <2>2. ~OpenFor(l)'
    BY <1>1, <2>1 DEF OpenFor, ClosedRow
  <2> QED BY <2>2 DEF Visible, HasColumn
<1>5. ContentSeen'
  BY <1>4 DEF ContentSeen
<1>6. ShadowsFit'
  BY <1>1 DEF ShadowsFit, Correctable, Fits
<1> QED BY <1>2, <1>3, <1>5, <1>6 DEF ImageInv

LEMMA FlushStep ==
  ASSUME ImageInv, FlushStorage
  PROVE  ImageInv'
<1> DEFINE K == DirtyRows
           c == Closed(backend, K)
           b == Flush(c)
<1>0. Shape
  BY DEF ImageInv
<1>1. /\ backend' = b /\ rows' = [k \in Banks |-> [rows[k] EXCEPT !.dirty = FALSE]]
      /\ saved' = TRUE /\ up /\ setup' = setup /\ up' = up /\ nextVersion' = nextVersion
      /\ starts' = starts /\ content' = content
  BY DEF FlushStorage, StoreDirtyRows, Closed
<1>2. K \in SUBSET Banks /\ \A k \in Banks : k \in K <=> rows[k].dirty
  BY DEF DirtyRows
<1> HIDE DEF K
<1>3. /\ Sound(BlockSet, c) /\ c.kind = backend.kind
      /\ \A l \in Lines :
           IF HasColumn(l) /\ BankOf[l] \in K /\ rows[BankOf[l]].dirty
           THEN Block(c, l) = Column(l) ELSE Block(c, l) = Block(backend, l)
      /\ Correctable(setup) => \A l \in Lines : Fits(Block(c, l))
  BY <1>2, AfterClosing DEF ImageInv
<1> HIDE DEF c
<1>4. Flushed(BlockSet, c, b)
  BY <1>3, FlushIsSound
<1> HIDE DEF b
<1>5. /\ Sound(BlockSet, b) /\ b.kind = backend.kind /\ AllClean(b)
      /\ \A l \in Lines : Block(b, l) = Block(c, l)
  BY <1>3, <1>4 DEF Flushed
<1>6. Persistent(b) => HeaderHolds(b)
  BY <1>3, <1>4 DEF Flushed, Persistent, HeaderHolds, Sound, CountersHold
<1>7. ASSUME NEW k \in Banks
      PROVE  /\ rows'[k] \in RowSet /\ rows'[k].row = rows[k].row
             /\ rows'[k].columns = rows[k].columns /\ ~rows'[k].dirty
  <2>1. rows[k] \in RowSet /\ rows'[k] = [rows[k] EXCEPT !.dirty = FALSE]
    BY <1>0, <1>1 DEF Shape
  <2> QED BY <2>1 DEF RowSet
<1>8. Shape'
  <2>1. rows' \in [Banks -> RowSet]
    BY <1>1, <1>7
  <2>2. \A k \in Banks : \A l \in DOMAIN rows'[k].columns :
          BankOf[l] = k /\ RowOf[l] = rows'[k].row
    BY <1>0, <1>7 DEF Shape
  <2> QED BY <1>0, <1>1, <1>5, <2>1, <2>2 DEF Shape
<1>9. ASSUME NEW l \in Lines, HasColumn(l)
      PROVE  Block(b, l).data = Column(l).data
  <2>1. BankOf[l] \in Banks /\ l \in DOMAIN rows[BankOf[l]].columns
    BY <1>0, <1>9, RowFacts
  <2>2. ~rows[BankOf[l]].dirty => Column(l).data = Block(backend, l).data
    BY <2>1 DEF ImageInv, CleanRows, Column
  <2> QED BY <1>2, <1>3, <1>5, <1>9, <2>1, <2>2
<1>10. CleanRows'
  <2> SUFFICES ASSUME NEW k \in Banks, NEW l \in DOMAIN rows[k].columns
               PROVE  rows[k].columns[l].data = Block(b, l).data
    BY <1>1, <1>7 DEF CleanRows
  <2>1. l \in Lines /\ BankOf[l] = k /\ HasColumn(l)
    BY <1>0, RowFacts DEF Shape
  <2> QED BY <1>9, <2>1 DEF Column
<1>11. ASSUME NEW l \in Lines
       PROVE  Visible(l)' = IF HasColumn(l) THEN Column(l) ELSE Block(b, l)
  <2>1. BankOf[l] \in Banks
    BY ImageAssumption
  <2> QED BY <1>1, <1>7, <2>1 DEF Visible, HasColumn, OpenFor, Column
<1>12. ContentSeen'
  <2> SUFFICES ASSUME NEW l \in Lines
               PROVE  Visible(l)'.data = content[l]
    BY <1>1 DEF ContentSeen
  <2> QED BY <1>3, <1>5, <1>11 DEF ImageInv, ContentSeen, Visible
<1>13. NothingPending'
  <2>1. DirtyRows' = {}
    BY <1>7 DEF DirtyRows
  <2> QED BY <1>1, <1>5, <1>6, <2>1 DEF NothingPending, HeaderHolds
<1>14. ShadowsFit'
  <2> SUFFICES ASSUME Correctable(setup)
               PROVE  /\ \A l \in Lines : Fits(Block(b, l))
                      /\ \A k \in Banks : \A l \in DOMAIN rows'[k].columns :
                           Fits(rows'[k].columns[l])
    BY <1>1 DEF ShadowsFit, Correctable, Fits
  <2> QED BY <1>3, <1>5, <1>7 DEF ImageInv, ShadowsFit
<1> QED BY <1>8, <1>10, <1>12, <1>13, <1>14 DEF ImageInv

\* What the process had in memory is gone, and nothing is lost.
LEMMA CacheIsDropped ==
  ASSUME NEW b, Sound(BlockSet, b), AllClean(b)
  PROVE  LET r == [b EXCEPT !.cache = <<>>]
         IN /\ Sound(BlockSet, r) /\ AllClean(r) /\ SameBooks(b, r)
            /\ \A l \in Lines : Block(r, l) = Block(b, l)
<1> DEFINE r == [b EXCEPT !.cache = <<>>]
<1>1. b \in Backends(BlockSet) /\ Coherent(b) /\ CountersHold(b) /\ WrittenHold(b)
  BY DEF Sound
<1>2. r \in Backends(BlockSet) /\ SameBooks(b, r) /\ r.file = b.file /\ r.cache = <<>>
  <2>1. <<>> \in Seq(Entries(BlockSet))
    OBVIOUS
  <2>2. r.cache = <<>> /\ r.file = b.file /\ SameBooks(b, r)
    BY <1>1 DEF Backends, SameBooks
  <2> DEFINE none == <<>>
  <2>3. r = [b EXCEPT !.cache = none]
    OBVIOUS
  <2>4. none \in Seq(Entries(BlockSet))
    BY <2>1
  <2> HIDE DEF none
  <2>5. r \in Backends(BlockSet)
    BY <1>1, <2>3, <2>4 DEF Backends
  <2> QED BY <2>2, <2>5
<1> HIDE DEF r
<1>3. DOMAIN r.cache = {} /\ Len(r.cache) = 0 /\ CacheLimit \in Nat
  BY <1>2, BackendAssumption
<1>4. Coherent(r) /\ AllClean(r)
  BY <1>2, <1>3 DEF Coherent, WholeChunks, OnceCached, CleanAgree, AllClean
<1>5. ASSUME NEW l \in Lines
      PROVE  Block(r, l) = Block(b, l)
  <2>1. Block(r, l) = IF l \in r.present THEN r.file[l] ELSE Zero
    BY <1>2, <1>4, CleanBlock
  <2>2. Block(b, l) = IF l \in b.present THEN b.file[l] ELSE Zero
    BY <1>1, CleanBlock
  <2> QED BY <1>2, <2>1, <2>2 DEF SameBooks
<1>6. CountersHold(r) /\ WrittenHold(r)
  BY <1>1, <1>2, <1>5 DEF CountersHold, WrittenHold, SameBooks
<1> QED BY <1>2, <1>4, <1>5, <1>6 DEF Sound, r

LEMMA KilledStep ==
  ASSUME ImageInv, Killed
  PROVE  ImageInv'
<1> DEFINE b == [backend EXCEPT !.cache = <<>>]
<1>0. /\ Shape /\ saved /\ DirtyRows = {} /\ AllClean(backend)
      /\ Persistent(backend) => HeaderHolds(backend)
  BY DEF ImageInv, Killed, NothingPending, HeaderHolds
<1>1. /\ Sound(BlockSet, b) /\ AllClean(b) /\ SameBooks(backend, b)
      /\ \A l \in Lines : Block(b, l) = Block(backend, l)
  BY <1>0, CacheIsDropped DEF Shape
<1>2. /\ backend' = b /\ rows' = [k \in Banks |-> ClosedRow] /\ up' = FALSE
      /\ setup' = setup /\ nextVersion' = nextVersion /\ starts' = starts
      /\ content' = content /\ saved' = saved
  BY DEF Killed
<1> HIDE DEF b
<1>3. Persistent(b) => HeaderHolds(b)
  BY <1>0, <1>1 DEF Persistent, HeaderHolds, SameBooks
<1>4. \A l \in Lines : Block(b, l).data = content'[l]
  BY <1>0, <1>1, <1>2, NothingDirty DEF ImageInv, ContentSeen
<1>5. Correctable(setup) => \A l \in Lines : Fits(Block(b, l))
  BY <1>1 DEF ImageInv, ShadowsFit
<1>6. b.kind = backend.kind
  BY <1>1 DEF SameBooks
<1>7. /\ setup' = setup /\ up' \in BOOLEAN /\ saved' \in BOOLEAN
      /\ nextVersion' \in Nat \ {0} /\ starts' \in Nat \ {0}
      /\ content' \in [Lines -> [{1, 2} -> Nat]] /\ (~up' => saved')
  BY <1>0, <1>2 DEF Shape
<1> QED BY <1>0, <1>1, <1>2, <1>3, <1>4, <1>5, <1>6, <1>7, AllClosed

LEMMA DestroyedStep ==
  ASSUME ImageInv, Destroyed
  PROVE  ImageInv'
<1> DEFINE c == Flush(backend)
           b == [c EXCEPT !.cache = <<>>]
<1>0. Shape /\ DirtyRows = {} /\ Sound(BlockSet, backend)
  BY DEF ImageInv, Destroyed, Shape
<1>1. Flushed(BlockSet, backend, c)
  BY <1>0, FlushIsSound
<1>2. /\ backend' = b /\ rows' = [k \in Banks |-> ClosedRow] /\ up' = FALSE
      /\ setup' = setup /\ nextVersion' = nextVersion /\ starts' = starts
      /\ content' = content /\ saved' = TRUE
  BY DEF Destroyed
<1> HIDE DEF c
<1>3. Sound(BlockSet, c) /\ AllClean(c)
  BY <1>1 DEF Flushed
<1>4. /\ Sound(BlockSet, b) /\ AllClean(b) /\ SameBooks(c, b)
      /\ \A l \in Lines : Block(b, l) = Block(c, l)
  BY <1>3, CacheIsDropped
<1> HIDE DEF b
<1>5. Persistent(b) => HeaderHolds(b)
  BY <1>0, <1>1, <1>4 DEF Flushed, Persistent, HeaderHolds, SameBooks, Sound, CountersHold
<1>6. \A l \in Lines : Block(b, l) = Block(backend, l)
  BY <1>1, <1>4 DEF Flushed
<1>7. \A l \in Lines : Block(b, l).data = content'[l]
  BY <1>0, <1>2, <1>6, NothingDirty DEF ImageInv, ContentSeen
<1>8. Correctable(setup) => \A l \in Lines : Fits(Block(b, l))
  BY <1>6 DEF ImageInv, ShadowsFit
<1>9. b.kind = backend.kind
  BY <1>1, <1>4 DEF SameBooks, Flushed
<1>10. /\ setup' = setup /\ up' \in BOOLEAN /\ saved' \in BOOLEAN
       /\ nextVersion' \in Nat \ {0} /\ starts' \in Nat \ {0}
       /\ content' \in [Lines -> [{1, 2} -> Nat]] /\ (~up' => saved')
  BY <1>0, <1>2 DEF Shape
<1> QED BY <1>0, <1>2, <1>4, <1>5, <1>7, <1>8, <1>9, <1>10, AllClosed

\* The table of a new process.
LEMMA EmptyTable ==
  ASSUME NEW kind \in Kinds
  PROVE  LET b == EmptyBackend(kind)
         IN /\ Sound(BlockSet, b) /\ AllClean(b) /\ b.kind = kind
            /\ \A l \in Lines : Block(b, l) = Zero
<1> DEFINE b == EmptyBackend(kind)
           h == NoHeader
<1>1. [b EXCEPT !.header = h] = b
  <2>1. b.header = h /\ b = [x \in DOMAIN b |-> b[x]]
    BY DEF EmptyBackend
  <2> HIDE DEF b, h
  <2> QED BY <2>1
<1>2. h \in [made : BOOLEAN, allocated : Nat, written : Nat]
  BY DEF NoHeader
<1> HIDE DEF h
<1>3. LET x == [EmptyBackend(kind) EXCEPT !.header = h]
      IN /\ Sound(BlockSet, x) /\ AllClean(x) /\ x.kind = kind
         /\ \A l \in Lines : Block(x, l) = Zero
  BY <1>2, EmptyIsSound
<1> QED BY <1>1, <1>3

LEMMA StartStep ==
  ASSUME ImageInv, Start
  PROVE  ImageInv'
<1>0. /\ Shape /\ saved /\ DirtyRows = {} /\ AllClean(backend)
      /\ Persistent(backend) => HeaderHolds(backend)
      /\ \A k \in Banks : rows[k] = ClosedRow
  BY DEF ImageInv, Start, NothingPending, HeaderHolds
<1>1. /\ backend' = Open(backend) /\ rows' = rows /\ up' = TRUE /\ setup' = setup
      /\ nextVersion' = 1 /\ starts' = starts + 1 /\ saved' = saved
      /\ content' = IF Persistent(backend) THEN content ELSE [l \in Lines |-> Zero.data]
  BY DEF Start
<1>2. rows' = [k \in Banks |-> ClosedRow]
  BY <1>0, <1>1 DEF Shape
<1>3. /\ Sound(BlockSet, backend') /\ AllClean(backend') /\ backend'.kind = backend.kind
      /\ Persistent(backend') => HeaderHolds(backend')
      /\ \A l \in Lines : Block(backend', l).data = content'[l]
      /\ Correctable(setup) => \A l \in Lines : Fits(Block(backend', l))
      /\ content' \in [Lines -> [{1, 2} -> Nat]]
  <2>1. CASE ~Persistent(backend)
    <3> DEFINE e == EmptyBackend(backend.kind)
    <3>1. backend' = e /\ content' = [l \in Lines |-> Zero.data]
      BY <1>1, <2>1 DEF Open
    <3>2. backend.kind \in Kinds
      BY <1>0 DEF Shape, Sound, Backends
    <3>3. /\ Sound(BlockSet, e) /\ AllClean(e) /\ e.kind = backend.kind
          /\ \A l \in Lines : Block(e, l) = Zero
      BY <3>2, EmptyTable
    <3> HIDE DEF e
    <3>4. ~Persistent(e)
      BY <2>1, <3>3 DEF Persistent
    <3>5. Zero.data \in [{1, 2} -> Nat] /\ Fits(Zero)
      BY ZeroBlock DEF BlockSet
    <3> QED BY <3>1, <3>3, <3>4, <3>5
  <2>2. CASE Persistent(backend)
    <3> DEFINE b == [backend EXCEPT !.cache = <<>>]
    <3>1. HeaderHolds(backend) /\ Sound(BlockSet, backend)
      BY <1>0, <2>2 DEF Shape
    <3>2. backend' = b
      <4>1. /\ backend.header.made /\ backend.header.allocated = backend.allocated
            /\ backend.header.written = backend.unique
        BY <3>1 DEF HeaderHolds
      <4>2. backend' = [backend EXCEPT !.header = backend.header,
                          !.allocated = backend.allocated, !.unique = backend.unique,
                          !.cache = <<>>]
        BY <1>1, <2>2, <4>1 DEF Open
      <4> QED BY <3>1, <4>2 DEF Sound, Backends
    <3>3. /\ Sound(BlockSet, b) /\ AllClean(b) /\ SameBooks(backend, b)
          /\ \A l \in Lines : Block(b, l) = Block(backend, l)
      BY <1>0, <3>1, CacheIsDropped
    <3> HIDE DEF b
    <3>4. HeaderHolds(b) /\ b.kind = backend.kind
      BY <3>1, <3>3 DEF HeaderHolds, SameBooks
    <3>5. content' = content
      BY <1>1, <2>2
    <3>6. \A l \in Lines : Block(b, l).data = content[l]
      BY <1>0, <3>3, NothingDirty DEF ImageInv, ContentSeen
    <3>7. Correctable(setup) => \A l \in Lines : Fits(Block(b, l))
      BY <3>3 DEF ImageInv, ShadowsFit
    <3> QED BY <1>0, <3>2, <3>3, <3>4, <3>5, <3>6, <3>7 DEF Shape
  <2> QED BY <2>1, <2>2
<1>4. /\ up' \in BOOLEAN /\ saved' \in BOOLEAN /\ (~up' => saved')
      /\ nextVersion' \in Nat \ {0} /\ starts' \in Nat \ {0}
  BY <1>0, <1>1 DEF Shape
<1> QED BY <1>0, <1>1, <1>2, <1>3, <1>4, AllClosed

\* load_binary() of a dump, or of the beginning of one.
LEMMA ReloadStep ==
  ASSUME ImageInv, NEW n, Reload(n)
  PROVE  ImageInv'
<1> DEFINE entry == [l \in Lines |-> RefreshShadow([Block(backend, l) EXCEPT !.version = 0])]
           kept == Dumped(n)
           h == IF Persistent(backend) THEN MakeHeader ELSE NoHeader
           e == Clear(backend)
           b == StoreAll(e, kept, entry)
<1>0. Shape /\ DirtyRows = {} /\ setup.loads
  BY DEF ImageInv, Reload
<1>1. /\ backend' = b /\ rows' = [k \in Banks |-> ClosedRow] /\ saved' = FALSE
      /\ setup' = setup /\ up' = up /\ up /\ nextVersion' = nextVersion /\ starts' = starts
      /\ content' = [l \in Lines |-> IF l \in kept THEN content[l] ELSE Zero.data]
  BY DEF Reload, StoreAll
<1>2. kept \in SUBSET Lines
  BY <1>0 DEF Dumped, Shape, Sound, Backends
<1> HIDE DEF kept
<1>3. /\ Sound(BlockSet, e) /\ e.kind = backend.kind
      /\ \A l \in Lines : Block(e, l) = Zero
  <2>1. backend.kind \in Kinds
    BY <1>0 DEF Shape, Sound, Backends
  <2>2. h \in [made : BOOLEAN, allocated : Nat, written : Nat]
    BY DEF MakeHeader, NoHeader
  <2>3. e = [EmptyBackend(backend.kind) EXCEPT !.header = h]
    BY DEF Clear
  <2> HIDE DEF h, e
  <2> QED BY <2>1, <2>2, <2>3, EmptyIsSound
<1> HIDE DEF e
<1>4. ASSUME NEW l \in Lines
      PROVE  /\ entry[l] \in BlockSet /\ entry[l].data = Block(backend, l).data
             /\ Correctable(setup) => Fits(entry[l])
  <2> DEFINE old == Block(backend, l)
             new == [old EXCEPT !.version = 0]
  <2>1. entry[l] = RefreshShadow(new)
    OBVIOUS
  <2>2. old \in BlockSet
    BY <1>0, SoundBlock DEF Shape
  <2>3. Correctable(setup) => ~old.flipped
    BY <1>0 DEF ImageInv, ShadowsFit, Fits, Correctable
  <2> HIDE DEF old
  <2>4. new \in BlockSet /\ new.data = old.data /\ new.flipped = old.flipped
    BY <2>2 DEF BlockSet
  <2> HIDE DEF new
  <2> DEFINE y == RefreshShadow(new)
  <2>5. y \in BlockSet /\ y.data = new.data /\ y.flipped = new.flipped
        /\ y.shadow = new.flipped /\ y.ecc
    BY <2>4, RefreshFacts
  <2> HIDE DEF y
  <2>6. Correctable(setup) => Fits(y)
    BY <2>3, <2>4, <2>5 DEF Fits
  <2> QED BY <2>1, <2>4, <2>5, <2>6 DEF old, y
<1> HIDE DEF entry
<1>5. Stored(BlockSet, e, b, kept, entry)
  BY <1>2, <1>3, <1>4, ZeroBlock, ReloadStores
<1> HIDE DEF b
<1>6. /\ Sound(BlockSet, b) /\ b.kind = backend.kind
      /\ \A l \in Lines : Block(b, l) = IF l \in kept THEN entry[l] ELSE Zero
  BY <1>3, <1>5 DEF Stored
<1>7. \A l \in Lines : Block(b, l).data = content'[l]
  <2>1. \A l \in Lines : Block(backend, l).data = content[l]
    BY <1>0, NothingDirty DEF ImageInv, ContentSeen
  <2> QED BY <1>1, <1>4, <1>6, <2>1
<1>8. Correctable(setup) => \A l \in Lines : Fits(Block(b, l))
  BY <1>4, <1>6, ZeroBlock
<1>9. content' \in [Lines -> [{1, 2} -> Nat]]
  <2>1. Zero.data \in [{1, 2} -> Nat]
    BY ZeroBlock DEF BlockSet
  <2> QED BY <1>0, <1>1, <2>1 DEF Shape
<1>10. /\ up' \in BOOLEAN /\ saved' \in BOOLEAN /\ (~up' => saved') /\ ~saved'
       /\ nextVersion' \in Nat \ {0} /\ starts' \in Nat \ {0}
  BY <1>0, <1>1 DEF Shape
<1> QED BY <1>0, <1>1, <1>6, <1>7, <1>8, <1>9, <1>10, AllClosed

-----------------------------------------------------------------------------
(* The theorems *)

LEMMA ImageStep ==
  ASSUME ImageInv, [Next]_vars
  PROVE  ImageInv'
<1>1. CASE Next
  <2>1. ASSUME NEW l \in Lines, ActivateRow(l)
        PROVE  ImageInv'
    BY <2>1, ActivateStep
  <2>2. ASSUME NEW l \in Lines, Read(l)
        PROVE  ImageInv'
    BY <2>2, ReadStep
  <2>3. CASE PrechargeAll \/ (\E k \in Banks : PrechargeBank(k))
    BY <2>3, PrechargeStep
  <2>4. ASSUME NEW l \in Lines, NEW mask \in setup.masks, Write(l, mask)
        PROVE  ImageInv'
    BY <2>4, WriteStep
  <2>5. ASSUME NEW l \in Lines, NEW mask \in setup.masks, LoadText(l, mask)
        PROVE  ImageInv'
    BY <2>5, LoadTextStep
  <2>6. CASE FlushStorage
    BY <2>6, FlushStep
  <2>7. CASE Killed
    BY <2>7, KilledStep
  <2>8. CASE Destroyed
    BY <2>8, DestroyedStep
  <2>9. CASE Start
    BY <2>9, StartStep
  <2>10. ASSUME NEW n \in 0 .. LineCount, Reload(n)
         PROVE  ImageInv'
    BY <2>10, ReloadStep
  <2> QED BY <1>1, <2>1, <2>2, <2>3, <2>4, <2>5, <2>6, <2>7, <2>8, <2>9, <2>10 DEF Next
<1>2. CASE UNCHANGED vars
  <2>1. /\ setup' = setup /\ up' = up /\ backend' = backend /\ rows' = rows
        /\ nextVersion' = nextVersion /\ starts' = starts /\ content' = content
        /\ saved' = saved
    BY <1>2 DEF vars
  <2>2. Shape' /\ CleanRows'
    BY <2>1 DEF ImageInv, Shape, CleanRows
  <2>3. ContentSeen'
    BY <2>1 DEF ImageInv, ContentSeen, Visible, HasColumn, OpenFor, Column
  <2>4. NothingPending'
    BY <2>1 DEF ImageInv, NothingPending, DirtyRows
  <2>5. ShadowsFit'
    BY <2>1 DEF ImageInv, ShadowsFit, Correctable, Fits
  <2> QED BY <2>2, <2>3, <2>4, <2>5 DEF ImageInv
<1> QED BY <1>1, <1>2

\* The inductive invariant: the backend is sound, a row that is not dirty says
\* what the backend says, every line holds what was written to it, after a flush
\* nothing waits, and every shadow fits.
THEOREM ImageHolds == Spec => []ImageInv
<1>1. Init => ImageInv
  BY ImageStart
<1>2. ImageInv /\ [Next]_vars => ImageInv'
  BY ImageStep
<1> QED BY <1>1, <1>2, PTL DEF Spec

\* MemoryImage::read() returns the last bytes written, through row buffers that
\* are closed by force, evicted chunks, dumps, crashes after a flush and restarts.
THEOREM ReadsSeeEveryWrite == Spec => []ReadsSeeWrites
<1>1. ImageInv => ReadsSeeWrites
  BY DEF ImageInv, ContentSeen, ReadsSeeWrites
<1> QED BY <1>1, ImageHolds, PTL

\* allocated_lines() and unique_written_lines() count the lines there are, also
\* after the constructor took them from the header.
THEOREM CountersAreRight == Spec => []CountersCountLines
<1>1. ASSUME ImageInv
      PROVE  CountersCountLines
  <2>1. Sound(BlockSet, backend)
    BY <1>1 DEF ImageInv, Shape
  <2>2. backend.written \in SUBSET Lines /\ backend.present \in SUBSET Lines
    BY <2>1 DEF Sound, Backends
  <2>3. backend.written = {l \in backend.present : Block(backend, l).version > 0}
    BY <2>1, <2>2 DEF Sound, WrittenHold
  <2> QED BY <2>1, <2>3 DEF Sound, CountersHold, CountersCountLines
<1> QED BY <1>1, ImageHolds, PTL

\* flush_storage() leaves files with every line and a header that fits, and
\* reads do not undo that: the process may be killed.
THEOREM FilesAreComplete == Spec => []FlushedFilesAreComplete
<1>1. ASSUME ImageInv, saved, Persistent(backend)
      PROVE  /\ HeaderFits(backend)
             /\ \A l \in Lines : content[l] = IF l \in backend.present
                                              THEN backend.file[l].data ELSE Zero.data
             /\ backend.header.allocated = Cardinality(backend.present)
             /\ backend.header.written = Cardinality(backend.written)
  <2>1. Shape /\ CleanRows /\ ContentSeen /\ DirtyRows = {} /\ AllClean(backend)
        /\ HeaderHolds(backend)
    BY <1>1 DEF ImageInv, NothingPending, HeaderHolds
  <2>2. Sound(BlockSet, backend)
    BY <2>1 DEF Shape
  <2>3. /\ backend.allocated \in Nat /\ backend.unique \in Nat
        /\ backend.allocated <= LineCount /\ backend.unique <= backend.allocated
    BY <2>2, CountersFit
  <2>4. /\ backend.header.made /\ backend.header.allocated = backend.allocated
        /\ backend.header.written = backend.unique
    BY <2>1 DEF HeaderHolds
  <2>5. ASSUME NEW l \in Lines
        PROVE  content[l] = IF l \in backend.present THEN backend.file[l].data ELSE Zero.data
    <3>1. content[l] = Block(backend, l).data
      BY <2>1, NothingDirty DEF ContentSeen
    <3>2. Block(backend, l) = IF l \in backend.present THEN backend.file[l] ELSE Zero
      BY <2>1, <2>2, CleanBlock DEF Sound
    <3> QED BY <3>1, <3>2
  <2> QED BY <2>2, <2>3, <2>4, <2>5 DEF HeaderFits, Sound, CountersHold
<1>2. ImageInv => FlushedFilesAreComplete
  BY <1>1 DEF FlushedFilesAreComplete
<1> QED BY <1>2, ImageHolds, PTL

\* When errors are injected only into lines that are written whole, a shadow
\* describes the bytes that were written, and check_ecc_shadow() finds the bit.
THEOREM ErrorsCanBeFound == Spec => [](Correctable(setup) => ErrorsAreCorrectable)
<1>1. ASSUME ImageInv, Correctable(setup)
      PROVE  ErrorsAreCorrectable
  <2>1. Shape /\ ShadowsFit
    BY <1>1 DEF ImageInv
  <2>2. \A l \in Lines : Fits(Visible(l))
    BY <1>1, <2>1, VisibleFacts
  <2> QED BY <2>2 DEF Fits, ErrorsAreCorrectable
<1>2. ImageInv => (Correctable(setup) => ErrorsAreCorrectable)
  BY <1>1
<1> QED BY <1>2, ImageHolds, PTL
==============================================================================
