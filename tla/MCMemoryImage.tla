--------------------------- MODULE MCMemoryImage ---------------------------
(* Three lines for TLC: lines 0 and 2 share a row, 0 and 1 share a chunk.   *)
EXTENDS MemoryImage

MCBankOf == [l \in Lines |-> 0]
MCRowOf == [l \in Lines |-> IF l = 1 THEN 1 ELSE 0]

Masks == {{}, {1}, {1, 2}}
WholeLine == {{1, 2}}

Setup(kind, period, masks, loads) ==
  [kind |-> kind, period |-> period, masks |-> masks, loads |-> loads]

\* Byte masks without injected errors, errors under writes of whole lines,
\* and images of lines that are written in part.
SafeSetups ==
  {Setup("sparse", 0, Masks, FALSE), Setup("mmap_sparse", 0, Masks, FALSE),
   Setup("mmap_sparse", 2, WholeLine, FALSE),
   Setup("chunk_file", 2, WholeLine, FALSE),
   Setup("chunk_file", 0, {{1}}, TRUE)}

\* An injected error, and a write to the other byte of the line.
MaskedSetups == {Setup("sparse", 1, Masks, FALSE)}
============================================================================
