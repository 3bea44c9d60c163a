-------------------------- MODULE MCControllerData --------------------------
(***************************************************************************)
(* Request shapes for model checking ControllerData.  Bytes 0 and 1 are one *)
(* transaction, byte 2 is the next one.                                     *)
(***************************************************************************)
EXTENDS ControllerData

MCBytes == 0 .. 2

Write(addr, span) ==
  [addr |-> addr, span |-> span, masked |-> FALSE, mask |-> span]
MaskedWrite(addr, span, mask) ==
  [addr |-> addr, span |-> span, masked |-> TRUE, mask |-> mask]
Read(addr, span) == [addr |-> addr, span |-> span]

\* Transactions of one size that never overlap, with and without byte masks.
AlignedMaskedWrites ==
  {Write(0, {0, 1}), MaskedWrite(0, {0, 1}, {0}), Write(2, {2})}

AlignedWrites == {Write(0, {0, 1}), Write(2, {2})}

AlignedReads == {Read(0, {0, 1}), Read(2, {2})}

\* A read that starts inside one transaction and ends in the next.
StraddlingReads == {Read(0, {0, 1}), Read(1, {1, 2})}

\* Writes to different addresses whose ranges share byte 1.
OverlappingWrites ==
  {Write(0, {0, 1}), MaskedWrite(0, {0, 1}, {0, 1}), Write(1, {1, 2})}

\* Writes to one address of different lengths, as the last transaction of a
\* host request that does not fill it.
UnequalWrites == {Write(0, {0, 1}), Write(0, {0})}

\* The same with a longer masked write on top of a shorter one.
UnequalMaskedWrites == {Write(0, {0}), MaskedWrite(0, {0, 1}, {0})}

\* What the theorems of AtomicStoreProofs ask of the shapes, of the sets that
\* have it: the first for a Direct PHY, the second for either.
ASSUME AlignedAssumption ==
  /\ AlignedShapes(AlignedMaskedWrites)
  /\ AlignedShapes(AlignedWrites) /\ CoveredReads(AlignedReads, AlignedWrites)
=============================================================================
