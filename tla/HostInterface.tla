--------------------------- MODULE HostInterface ---------------------------
(***************************************************************************)
(* The system level (class MemorySystem): a frontend submits the           *)
(* transactions of a host request, they wait in the ingress queue of their *)
(* stack, are dispatched to channel controllers, and the transaction       *)
(* responses are collected and put together into one host response.        *)
(*                                                                         *)
(* One thread calls everything: the frontend acts between two ticks, and   *)
(* tick() dispatches, ticks every controller, and collects.  A controller  *)
(* is what ControllerData promises of it: a request it accepts is answered *)
(* once, in any order, through a response queue of limited size.           *)
(***************************************************************************)
EXTENDS Integers, Sequences, FiniteSets, SequencesExt

CONSTANTS
  Hosts,            \* host_request_id values
  MaxCount,         \* transactions of a host request, at most
  StackCount, ChannelCount,
  Classes,          \* qos_class values
  Strict,           \* stack_qos_policy: TRUE for StrictPriority
  IngressSize, DispatchWidth,
  ControllerResponses,        \* response_queue_capacity of a controller
  TransactionCap, HostCap,    \* system queue capacities
  InitialMode,      \* response_delivery_mode at construction
  SetModes,         \* modes the frontend switches to
  BatchCalls,       \* TRUE when run() is called too, on the same system
  MaxAccepted,      \* bound on next_system_sequence_
  NoTag             \* "no entry" in host_submissions_ and host_assemblies_

Modes == {"Disabled", "TransactionOnly", "HostOnly", "Both"}

ASSUME SizesAssumption ==
  /\ {MaxCount, StackCount, ChannelCount, IngressSize, DispatchWidth,
      ControllerResponses, TransactionCap, HostCap, MaxAccepted}
       \subseteq Nat \ {0}
  /\ Classes \subseteq Nat
  /\ Strict \in BOOLEAN /\ BatchCalls \in BOOLEAN
  /\ InitialMode \in Modes /\ SetModes \subseteq Modes

VARIABLES
  phase,        \* where tick() is; "idle" when the frontend may act
  started,      \* clk_ # 0
  mode,         \* response_delivery_mode_
  sequence,     \* next_system_sequence_
  ingress,      \* stack_ingress_queues_
  turn,         \* the stack or controller a loop of tick() has reached
  slots,        \* dispatches of this stack in this tick
  working,      \* requests a controller has accepted and not answered
  finished,     \* responses_ of every controller
  submissions,  \* host_submissions_
  assemblies,   \* host_assemblies_
  transactionResponses, hostResponses,
  generation    \* history: host -> number of its submissions

tickVars == <<phase, started, turn, slots>>
hostVars == <<submissions, assemblies, transactionResponses, hostResponses>>
vars == <<tickVars, mode, sequence, ingress, working, finished, hostVars,
          generation>>

-----------------------------------------------------------------------------
Stacks == 0 .. StackCount - 1
Channels == 0 .. ChannelCount - 1
Controllers == 0 .. StackCount * ChannelCount - 1
Indexes(n) == 0 .. n - 1

\* controller_index()
ControllerIndex(stack, channel) == stack * ChannelCount + channel

RetainsHost == mode \in {"HostOnly", "Both"}
RetainsTransactions == mode \in {"TransactionOnly", "Both"}

Tagged == {h \in Hosts : submissions[h] # NoTag}
Assembling == {h \in Hosts : assemblies[h] # NoTag}

Init ==
  /\ phase = "idle" /\ started = FALSE
  /\ turn = 0 /\ slots = 0
  /\ mode = InitialMode
  /\ sequence = 0
  /\ ingress = [s \in Stacks |-> <<>>]
  /\ working = [c \in Controllers |-> {}]
  /\ finished = [c \in Controllers |-> <<>>]
  /\ submissions = [h \in Hosts |-> NoTag]
  /\ assemblies = [h \in Hosts |-> NoTag]
  /\ transactionResponses = <<>> /\ hostResponses = <<>>
  /\ generation = [h \in Hosts |-> 0]

-----------------------------------------------------------------------------
(* The frontend's calls *)

\* Fault: the queue holds one request too many.
FaultHasRoom(stack) ==
  Len(ingress[stack]) <= IngressSize /\ sequence < MaxAccepted

HasRoom(stack) == Len(ingress[stack]) < IngressSize /\ sequence < MaxAccepted

\* enqueue(): the mappers have chosen a stack and a channel.
Accept(request) ==
  /\ ingress' = [ingress EXCEPT ![request.stack] = Append(@, request)]
  /\ sequence' = sequence + 1

Request(type, h, i, count, gen, stack, channel, class) ==
  [type |-> type, host |-> h, index |-> i, count |-> count, gen |-> gen,
   stack |-> stack, channel |-> channel, class |-> class, seq |-> sequence]

\* Fault: an index may be submitted again, or first.
FaultMaySubmit(h, i, count) ==
  i \in Indexes(count) /\ (h \in Tagged => submissions[h].count = count)

\* The checks of try_submit(); a call that fails one throws.
MaySubmit(h, i, count) ==
  /\ i \in Indexes(count)
  /\ IF h \in Tagged
     THEN submissions[h].count = count /\ i \notin submissions[h].accepted
     ELSE i = 0

\* record_submitted_transaction()
Record(h, i, count) ==
  submissions' =
    IF h \in Tagged THEN [submissions EXCEPT ![h].accepted = @ \cup {i}]
    ELSE [submissions EXCEPT ![h] =
            [count |-> count, accepted |-> {i}, completed |-> 0]]

\* try_submit().  It turns the response interface on before it knows whether
\* the ingress queue has room.
TrySubmit(h, i, count, stack, channel, class) ==
  /\ phase = "idle"
  /\ MaySubmit(h, i, count)
  /\ mode' = IF mode = "Disabled" THEN "HostOnly" ELSE mode
  /\ IF HasRoom(stack)
     THEN LET gen == generation[h] + (IF h \in Tagged THEN 0 ELSE 1) IN
          /\ Accept(Request("Data", h, i, count, gen, stack, channel, class))
          /\ Record(h, i, count)
          /\ generation' = [generation EXCEPT ![h] = gen]
     ELSE UNCHANGED <<ingress, sequence, submissions, generation>>
  /\ UNCHANGED <<tickVars, working, finished, assemblies,
                 transactionResponses, hostResponses>>

\* try_submit_maintenance(): it shares the ingress queue, without a tag.
SubmitMaintenance(stack, channel) ==
  /\ phase = "idle"
  /\ HasRoom(stack)
  /\ Accept(Request("Maintenance", NoTag, 0, 1, 0, stack, channel, 0))
  /\ UNCHANGED <<tickVars, mode, working, finished, hostVars, generation>>

\* run() puts requests in without registering a submission for them.
BatchSubmit(h, stack, channel) ==
  /\ BatchCalls
  /\ phase = "idle"
  /\ HasRoom(stack)
  /\ Accept(Request("Data", h, 0, 1, 0, stack, channel, 0))
  /\ UNCHANGED <<tickVars, mode, working, finished, hostVars, generation>>

\* idle() and responses_drained()
Quiescent ==
  /\ \A s \in Stacks : ingress[s] = <<>>
  /\ \A c \in Controllers : working[c] = {} /\ finished[c] = <<>>
  /\ Tagged = {} /\ Assembling = {}
  /\ transactionResponses = <<>> /\ hostResponses = <<>>

\* set_response_delivery_mode(), also through the two callback setters.
SetMode(m) ==
  /\ phase = "idle"
  /\ m # mode
  /\ started => Quiescent
  /\ mode' = m
  /\ UNCHANGED <<tickVars, sequence, ingress, working, finished, hostVars,
                 generation>>

\* A tag is given back.
FreeTag(h) == submissions' = [submissions EXCEPT ![h] = NoTag]

\* pop_response()
PopResponse ==
  /\ phase = "idle"
  /\ hostResponses # <<>>
  /\ hostResponses' = Tail(hostResponses)
  /\ LET h == Head(hostResponses).host IN
     IF h \in Tagged /\ submissions[h].completed >= submissions[h].count
     THEN FreeTag(h)
     ELSE UNCHANGED submissions
  /\ UNCHANGED <<tickVars, mode, sequence, ingress, working, finished,
                 assemblies, transactionResponses, generation>>

PopTransactionResponse ==
  /\ phase = "idle"
  /\ transactionResponses # <<>>
  /\ transactionResponses' = Tail(transactionResponses)
  /\ UNCHANGED <<tickVars, mode, sequence, ingress, working, finished,
                 submissions, assemblies, hostResponses, generation>>

\* run_source() drains the controllers once more when its cycles are used up.
DrainAtEnd ==
  /\ phase = "idle"
  /\ phase' = "collect" /\ turn' = 0
  /\ UNCHANGED <<started, slots, mode, sequence, ingress, working, finished,
                 hostVars, generation>>

-----------------------------------------------------------------------------
(* tick(): dispatch_stack_ingress() *)

StartTick ==
  /\ phase = "idle"
  /\ phase' = "dispatch" /\ turn' = 0 /\ slots' = 0
  /\ started' = TRUE
  /\ UNCHANGED <<mode, sequence, ingress, working, finished, hostVars,
                 generation>>

NextStack ==
  /\ slots' = 0
  /\ IF turn + 1 \in Stacks
     THEN turn' = turn + 1 /\ UNCHANGED phase
     ELSE turn' = 0 /\ phase' = "work"
  /\ UNCHANGED started

\* Fault: of equal classes the newest request is taken.
FaultSelected(queue) ==
  IF ~Strict THEN 1
  ELSE CHOOSE k \in DOMAIN queue : \A j \in DOMAIN queue :
         \/ queue[k].class > queue[j].class
         \/ queue[k].class = queue[j].class /\ queue[k].seq >= queue[j].seq

\* The head, or the oldest request of the highest class.
Selected(queue) ==
  IF ~Strict THEN 1
  ELSE CHOOSE k \in DOMAIN queue : \A j \in DOMAIN queue :
         \/ queue[k].class > queue[j].class
         \/ queue[k].class = queue[j].class /\ queue[k].seq <= queue[j].seq

Dispatch ==
  /\ phase = "dispatch" /\ ingress[turn] # <<>> /\ slots < DispatchWidth
  /\ LET k == Selected(ingress[turn])
         request == ingress[turn][k]
         c == ControllerIndex(turn, request.channel)
     IN /\ working' = [working EXCEPT ![c] = @ \cup {request}]
        /\ ingress' = [ingress EXCEPT ![turn] = RemoveAt(@, k)]
  /\ slots' = slots + 1
  /\ UNCHANGED <<phase, started, turn, mode, sequence, finished, hostVars,
                 generation>>

\* The selected request's controller refuses: nothing else of this stack is
\* dispatched in this tick.  A controller with nothing in it never refuses.
DispatchRefused ==
  /\ phase = "dispatch" /\ ingress[turn] # <<>> /\ slots < DispatchWidth
  /\ LET request == ingress[turn][Selected(ingress[turn])]
     IN working[ControllerIndex(turn, request.channel)] # {}
  /\ NextStack
  /\ UNCHANGED <<mode, sequence, ingress, working, finished, hostVars,
                 generation>>

DispatchDone ==
  /\ phase = "dispatch"
  /\ ingress[turn] = <<>> \/ slots = DispatchWidth
  /\ NextStack
  /\ UNCHANGED <<mode, sequence, ingress, working, finished, hostVars,
                 generation>>

-----------------------------------------------------------------------------
(* tick(): the controllers, then collect_responses() *)

\* A controller finishes one of its requests; a maintenance request has no
\* response, and a full response queue holds the others back.
Finish(c) ==
  /\ phase = "work"
  /\ \E request \in working[c] :
       /\ working' = [working EXCEPT ![c] = @ \ {request}]
       /\ IF request.type = "Maintenance"
          THEN UNCHANGED finished
          ELSE /\ Len(finished[c]) < ControllerResponses
               /\ finished' = [finished EXCEPT ![c] = Append(@, request)]
  /\ UNCHANGED <<tickVars, mode, sequence, ingress, hostVars, generation>>

WorkDone ==
  /\ phase = "work"
  /\ phase' = "collect" /\ turn' = 0
  /\ UNCHANGED <<started, slots, mode, sequence, ingress, working, finished,
                 hostVars, generation>>

\* Fault: the tag is given back with the last completion in every mode.
FaultComplete(h) ==
  IF h \notin Tagged THEN UNCHANGED submissions
  ELSE LET completed == submissions[h].completed + 1 IN
       IF completed >= submissions[h].count
       THEN FreeTag(h)
       ELSE submissions' = [submissions EXCEPT ![h].completed = completed]

\* record_completed_transaction()
Complete(h) ==
  IF h \notin Tagged THEN UNCHANGED submissions
  ELSE LET completed == submissions[h].completed + 1 IN
       IF completed >= submissions[h].count /\ ~RetainsHost
       THEN FreeTag(h)
       ELSE submissions' = [submissions EXCEPT ![h].completed = completed]

Part(r) == [index |-> r.index, gen |-> r.gen]

HostResponse(h, count, parts, ok) ==
  [host |-> h, count |-> count, parts |-> parts, ok |-> ok]

\* Fault: the part with the last index completes the assembly.
FaultAggregate(r) ==
  LET old == IF r.host \in Assembling THEN assemblies[r.host].parts ELSE {}
      parts == old \cup {Part(r)}
  IN IF r.index = r.count - 1
     THEN /\ hostResponses' = Append(hostResponses,
               HostResponse(r.host, r.count, parts, TRUE))
          /\ assemblies' = [assemblies EXCEPT ![r.host] = NoTag]
     ELSE /\ assemblies' = [assemblies EXCEPT ![r.host] =
                              [count |-> r.count, parts |-> parts]]
          /\ UNCHANGED hostResponses

\* aggregate_response(): the parts of a host request are collected; one that
\* does not fit makes an InvalidTransaction response and ends the assembly.
Aggregate(r) ==
  LET fresh == r.host \notin Assembling
      old == IF fresh THEN [count |-> r.count, parts |-> {}]
             ELSE assemblies[r.host]
      fits == old.count = r.count /\ \A p \in old.parts : p.index # r.index
      parts == old.parts \cup {Part(r)}
  IN IF ~fits
     THEN /\ hostResponses' = Append(hostResponses,
               HostResponse(r.host, r.count, {Part(r)}, FALSE))
          /\ assemblies' = [assemblies EXCEPT ![r.host] = NoTag]
     ELSE IF Cardinality(parts) = old.count
     THEN /\ hostResponses' = Append(hostResponses,
               HostResponse(r.host, old.count, parts, TRUE))
          /\ assemblies' = [assemblies EXCEPT ![r.host] = NoTag]
     ELSE /\ assemblies' = [assemblies EXCEPT ![r.host] =
                              [count |-> old.count, parts |-> parts]]
          /\ UNCHANGED hostResponses

\* Fault: only the transaction queue is looked at.
FaultBlocked ==
  RetainsTransactions /\ Len(transactionResponses) >= TransactionCap

Blocked ==
  \/ RetainsTransactions /\ Len(transactionResponses) >= TransactionCap
  \/ RetainsHost /\ Len(hostResponses) >= HostCap

\* One turn of the inner loop of collect_responses().
Collect ==
  /\ phase = "collect" /\ finished[turn] # <<>> /\ ~Blocked
  /\ LET r == Head(finished[turn]) IN
     /\ finished' = [finished EXCEPT ![turn] = Tail(@)]
     /\ Complete(r.host)
     /\ IF RetainsTransactions
        THEN transactionResponses' = Append(transactionResponses, r)
        ELSE UNCHANGED transactionResponses
     /\ IF RetainsHost THEN Aggregate(r)
        ELSE UNCHANGED <<assemblies, hostResponses>>
  /\ UNCHANGED <<tickVars, mode, sequence, ingress, working, generation>>

EndTick == phase' = "idle" /\ turn' = 0 /\ UNCHANGED <<started, slots>>

\* A full system queue ends the whole collection, not only this controller's.
CollectBlocked ==
  /\ phase = "collect" /\ finished[turn] # <<>> /\ Blocked
  /\ EndTick
  /\ UNCHANGED <<mode, sequence, ingress, working, finished, hostVars,
                 generation>>

CollectNext ==
  /\ phase = "collect" /\ finished[turn] = <<>>
  /\ IF turn + 1 \in Controllers
     THEN turn' = turn + 1 /\ UNCHANGED <<phase, started, slots>>
     ELSE EndTick
  /\ UNCHANGED <<mode, sequence, ingress, working, finished, hostVars,
                 generation>>

-----------------------------------------------------------------------------
Frontend ==
  \/ \E h \in Hosts, count \in 1 .. MaxCount, i \in Indexes(MaxCount),
        stack \in Stacks, channel \in Channels, class \in Classes :
       TrySubmit(h, i, count, stack, channel, class)
  \/ \E stack \in Stacks, channel \in Channels :
       SubmitMaintenance(stack, channel)
  \/ \E h \in Hosts, stack \in Stacks, channel \in Channels :
       BatchSubmit(h, stack, channel)
  \/ \E m \in SetModes : SetMode(m)
  \/ DrainAtEnd

Pop == PopResponse \/ PopTransactionResponse

Step ==
  \/ StartTick \/ Dispatch \/ DispatchRefused \/ DispatchDone
  \/ WorkDone \/ Collect \/ CollectBlocked \/ CollectNext

Next == Frontend \/ Pop \/ Step \/ \E c \in Controllers : Finish(c)

Spec == Init /\ [][Next]_vars

-----------------------------------------------------------------------------
(* Properties *)

Requests ==
  [type : {"Data", "Maintenance"}, host : Hosts \cup {NoTag},
   index : Indexes(MaxCount), count : 1 .. MaxCount, gen : 0 .. MaxAccepted,
   stack : Stacks, channel : Channels, class : Classes \cup {0},
   seq : 0 .. MaxAccepted - 1]
Parts == [index : Indexes(MaxCount), gen : 0 .. MaxAccepted]
HostResponseType ==
  [host : Hosts, count : 1 .. MaxCount, parts : SUBSET Parts, ok : BOOLEAN]
Submissions ==
  [count : 1 .. MaxCount, accepted : SUBSET Indexes(MaxCount), completed : Nat]
Assemblies == [count : 1 .. MaxCount, parts : SUBSET Parts]

ASSUME NoTagAssumption == NoTag \notin Submissions \cup Assemblies

\* Every variable holds what its C++ counterpart can hold.
TypeOK ==
  /\ phase \in {"idle", "dispatch", "work", "collect"}
  /\ started \in BOOLEAN
  /\ mode \in Modes
  /\ sequence \in 0 .. MaxAccepted
  /\ ingress \in [Stacks -> Seq(Requests)]
  /\ \A s \in Stacks : Len(ingress[s]) <= IngressSize
  /\ turn \in Stacks \cup Controllers /\ slots \in 0 .. DispatchWidth
  /\ working \in [Controllers -> SUBSET Requests]
  /\ finished \in [Controllers -> Seq(Requests)]
  /\ \A c \in Controllers : Len(finished[c]) <= ControllerResponses
  /\ submissions \in [Hosts -> Submissions \cup {NoTag}]
  /\ \A h \in Tagged : submissions[h].completed <= MaxCount
  /\ assemblies \in [Hosts -> Assemblies \cup {NoTag}]
  /\ transactionResponses \in Seq(Requests)
  /\ hostResponses \in Seq(HostResponseType)
  /\ generation \in [Hosts -> 0 .. MaxAccepted]

\* Requests of a host that have been accepted and not collected.
Travelling(h) ==
  {r \in (UNION {ToSet(ingress[s]) : s \in Stacks})
         \cup (UNION {working[c] : c \in Controllers})
         \cup (UNION {ToSet(finished[c]) : c \in Controllers}) :
     r.type = "Data" /\ r.host = h}

\* A host_request_id is not given back while anything of its submission is
\* still under way, whatever order the transactions come back in and however
\* the delivery mode is set, so a reused one never meets its own past.
TagOutlivesItsTransactions ==
  \A h \in Hosts :
    /\ \A r \in Travelling(h) : h \in Tagged /\ r.gen = generation[h]
    /\ h \in Assembling =>
         h \in Tagged /\ \A p \in assemblies[h].parts : p.gen = generation[h]
    /\ \A k \in DOMAIN hostResponses :
         hostResponses[k].host = h => h \in Tagged

\* host_submissions_ accounts for every transaction: what was accepted is
\* either completed or still under way, and each index is in one place only.
SubmissionAccounts ==
  \A h \in Tagged :
    LET s == submissions[h] IN
    /\ s.completed + Cardinality(Travelling(h)) = Cardinality(s.accepted)
    /\ {r.index : r \in Travelling(h)} \subseteq s.accepted
    /\ h \in Assembling =>
         {p.index : p \in assemblies[h].parts} \cup
           {r.index : r \in Travelling(h)} = s.accepted

\* A host response is made of all the transactions of one submission, each
\* once, it is never InvalidTransaction, and there is one per submission.
AnswersAreWhole ==
  /\ \A k \in DOMAIN hostResponses :
       LET r == hostResponses[k] IN
       /\ r.ok
       /\ {p.index : p \in r.parts} = Indexes(r.count)
       /\ Cardinality(r.parts) = r.count
       /\ \A p \in r.parts : p.gen = generation[r.host]
  /\ \A j, k \in DOMAIN hostResponses :
       hostResponses[j].host = hostResponses[k].host => j = k

\* publish_host_response() never finds the queue full and throws.
HostQueueHolds == Len(hostResponses) <= HostCap

\* Requests leave an ingress queue by class and, within a class, in the order
\* they were accepted; without classes, in that order alone.
DispatchInOrder ==
  [][\A s \in Stacks :
       \A r \in ToSet(ingress[s]) \ ToSet(ingress'[s]) :
         \A q \in ToSet(ingress'[s]) \cap ToSet(ingress[s]) :
           IF Strict THEN \/ r.class > q.class
                          \/ r.class = q.class /\ r.seq < q.seq
           ELSE r.seq < q.seq]_ingress

\* The delivery mode only changes while the system is quiescent, or before
\* its first cycle.
ModeChangesWhenQuiescent == [][~started \/ Quiescent]_mode

\* MemorySystem implements the tag protocol of HostPort.
TagState ==
  [h \in Hosts |->
     IF h \in Tagged
     THEN [count |-> submissions[h].count, accepted |-> submissions[h].accepted]
     ELSE [count |-> 0, accepted |-> {}]]

Port == INSTANCE HostPort WITH
  tag <- TagState, ready <- {r.host : r \in ToSet(hostResponses)}

\* A host_request_id is taken by its first transaction, answered at most once
\* and not before all of its transactions are accepted, and given back with
\* that answer and at no other time, in whatever order the transactions come
\* back and whichever queue is full.
ImplementsHostPort == Port!PortSpec
=============================================================================
