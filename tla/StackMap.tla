------------------------------ MODULE StackMap ------------------------------
(***************************************************************************)
(* StackAddressMapper: which stack a system address belongs to, and where  *)
(* in that stack it lies.  A map m has the number of stacks, the bytes of  *)
(* a stripe, the bytes of a stack, and the kind of mapping.  Every address *)
(* is below 2^64, where the checked arithmetic of the code cannot throw.   *)
(***************************************************************************)
EXTENDS Naturals

StackMaps ==
  [stacks : Nat \ {0}, interleave : Nat \ {0}, capacity : Nat \ {0},
   kind : {"interleaved", "blocked"}]

\* decode()
StackDecode(m, address) ==
  IF m.stacks = 1 THEN [stack |-> 0, local |-> address]
  ELSE IF m.kind = "blocked"
  THEN [stack |-> address \div m.capacity, local |-> address % m.capacity]
  ELSE [stack |-> (address \div m.interleave) % m.stacks,
        local |-> ((address \div m.interleave) \div m.stacks) * m.interleave
                  + (address % m.interleave)]

\* decode() and encode() throw outside of this range.
InStacks(m, at) == at.stack \in 0 .. m.stacks - 1 /\ at.local < m.capacity

\* encode()
StackEncode(m, at) ==
  IF m.stacks = 1 THEN at.local
  ELSE IF m.kind = "blocked" THEN at.stack * m.capacity + at.local
  ELSE ((at.local \div m.interleave) * m.stacks + at.stack) * m.interleave
       + (at.local % m.interleave)
=============================================================================
