------------------------------ MODULE HostPort ------------------------------
(***************************************************************************)
(* What the asynchronous interface of MemorySystem promises a frontend: a  *)
(* host_request_id is a tag.  Its transactions are accepted one by one,    *)
(* each index once; when all of them are accepted one answer is made; and  *)
(* the tag is free again when the frontend has taken that answer.          *)
(***************************************************************************)
EXTENDS Integers

CONSTANTS Hosts, MaxCount

VARIABLES
  tag,      \* host_request_id -> what was accepted under it
  ready     \* tags whose answer waits for the frontend

portVars == <<tag, ready>>

Indexes(n) == 0 .. n - 1

Free == [count |-> 0, accepted |-> {}]

PortInit == tag = [h \in Hosts |-> Free] /\ ready = {}

\* The first transaction takes the tag, the others join it.
Open(h, count) ==
  /\ tag[h] = Free
  /\ tag' = [tag EXCEPT ![h] = [count |-> count, accepted |-> {0}]]
  /\ UNCHANGED ready

Join(h, i) ==
  /\ i \in Indexes(tag[h].count) \ tag[h].accepted
  /\ tag' = [tag EXCEPT ![h].accepted = @ \cup {i}]
  /\ UNCHANGED ready

Complete(h) == tag[h] # Free /\ tag[h].accepted = Indexes(tag[h].count)

\* One answer is made for all the transactions of the tag.
Answer(h) ==
  /\ Complete(h) /\ h \notin ready
  /\ ready' = ready \cup {h}
  /\ UNCHANGED tag

\* The frontend takes the answer, and only then the tag is free.
Release(h) ==
  /\ h \in ready
  /\ ready' = ready \ {h}
  /\ tag' = [tag EXCEPT ![h] = Free]

\* A frontend that takes transaction responses only needs no answer.
Deliver(h) ==
  /\ Complete(h) /\ h \notin ready
  /\ tag' = [tag EXCEPT ![h] = Free]
  /\ UNCHANGED ready

PortNext ==
  \E h \in Hosts :
    \/ \E count \in 1 .. MaxCount : Open(h, count)
    \/ \E i \in Indexes(MaxCount) : Join(h, i)
    \/ Answer(h)
    \/ Release(h)
    \/ Deliver(h)

PortSpec == PortInit /\ [][PortNext]_portVars
=============================================================================
