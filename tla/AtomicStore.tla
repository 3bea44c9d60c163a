----------------------------- MODULE AtomicStore -----------------------------
(***************************************************************************)
(* What one memory controller promises to the requester, without queues,   *)
(* buffers, buses or a PHY: every accepted request takes effect at the     *)
(* moment it is accepted.  A read fixes the value it will return when it   *)
(* is accepted, a write is visible to every request accepted after it, and *)
(* no request is answered twice.  When an answer comes is left open.       *)
(***************************************************************************)
EXTENDS Naturals

CONSTANTS
  Bytes,        \* byte addresses
  Values,       \* what a byte can hold
  InitialValue, \* what every byte holds before the first write
  Ids           \* names of requests

VARIABLES
  store,        \* byte -> value left by the last accepted write
  outstanding,  \* accepted requests with the answer each one is owed
  answered      \* names of the requests that were answered

absVars == <<store, outstanding, answered>>

NoData == [b \in {} |-> InitialValue]

AbsInit ==
  /\ store = [b \in Bytes |-> InitialValue]
  /\ outstanding = {}
  /\ answered = {}

Fresh(id) == id \notin answered /\ \A o \in outstanding : o.id # id

\* A write changes the bytes it enables and is owed an answer without data.
AcceptWrite ==
  \E id \in Ids, mask \in SUBSET Bytes, v \in Values :
    /\ Fresh(id)
    /\ store' = [b \in Bytes |-> IF b \in mask THEN v ELSE store[b]]
    /\ outstanding' = outstanding \cup {[id |-> id, data |-> NoData]}
    /\ UNCHANGED answered

\* A read is owed the bytes of the store as they are now.
AcceptRead ==
  \E id \in Ids, span \in SUBSET Bytes :
    /\ Fresh(id)
    /\ outstanding' =
         outstanding \cup {[id |-> id, data |-> [b \in span |-> store[b]]]}
    /\ UNCHANGED <<store, answered>>

\* The requester takes one answer; it is the one that was promised.
Answer ==
  \E o \in outstanding :
    /\ outstanding' = outstanding \ {o}
    /\ answered' = answered \cup {o.id}
    /\ UNCHANGED store

AbsNext == AcceptWrite \/ AcceptRead \/ Answer

AbsSpec == AbsInit /\ [][AbsNext]_absVars
=============================================================================
