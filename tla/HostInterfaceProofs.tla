------------------------- MODULE HostInterfaceProofs -------------------------
(***************************************************************************)
(* Theorems about HostInterface, for every number of stacks, channels and  *)
(* hosts, every queue size, and every order in which parts come back.      *)
(***************************************************************************)
EXTENDS HostInterface, FiniteSetTheorems, WellFoundedInduction, TLAPS

Distinct(s) == \A i, j \in DOMAIN s : s[i] = s[j] => i = j

-----------------------------------------------------------------------------
(* Sequences *)

LEMMA AppendElements ==
  ASSUME NEW S, NEW s \in Seq(S), NEW x \in S
  PROVE  /\ Append(s, x) \in Seq(S)
         /\ ToSet(Append(s, x)) = ToSet(s) \cup {x}
         /\ Distinct(s) /\ x \notin ToSet(s) => Distinct(Append(s, x))
  <1>. DEFINE t == Append(s, x)
  <1>1. /\ t \in Seq(S) /\ Len(t) = Len(s) + 1 /\ DOMAIN t = 1 .. Len(s) + 1
        /\ \A i \in 1 .. Len(s) : t[i] = s[i]
        /\ t[Len(s) + 1] = x /\ Len(s) \in Nat /\ DOMAIN s = 1 .. Len(s)
    OBVIOUS
  <1>. HIDE DEF t
  <1>2. ToSet(t) = ToSet(s) \cup {x}
    BY <1>1 DEF ToSet
  <1>3. Distinct(s) /\ x \notin ToSet(s) => Distinct(t)
    BY <1>1 DEF Distinct, ToSet
  <1>. QED BY <1>1, <1>2, <1>3 DEF t

\* RemoveAt() closes the gap.
LEMMA RemoveAtElements ==
  ASSUME NEW S, NEW s \in Seq(S), NEW k \in DOMAIN s
  PROVE  /\ RemoveAt(s, k) \in Seq(S)
         /\ Len(RemoveAt(s, k)) = Len(s) - 1
         /\ \A j \in 1 .. Len(s) - 1 :
              RemoveAt(s, k)[j] = IF j < k THEN s[j] ELSE s[j + 1]
  <1>. DEFINE p == SubSeq(s, 1, k - 1)
              q == SubSeq(s, k + 1, Len(s))
  <1>1. k \in 1 .. Len(s) /\ Len(s) \in Nat
    OBVIOUS
  <1>2. /\ p \in Seq(S) /\ Len(p) = k - 1
        /\ \A j \in 1 .. k - 1 : p[j] = s[j]
    BY <1>1
  <1>3. /\ q \in Seq(S) /\ Len(q) = Len(s) - k
        /\ \A j \in 1 .. Len(s) - k : q[j] = s[k + j]
    BY <1>1
  <1>. HIDE DEF p, q
  <1>4. /\ p \o q \in Seq(S) /\ Len(p \o q) = Len(s) - 1
        /\ \A j \in 1 .. Len(s) - 1 :
             (p \o q)[j] = IF j < k THEN p[j] ELSE q[j - (k - 1)]
    BY <1>1, <1>2, <1>3
  <1>5. ASSUME NEW j \in 1 .. Len(s) - 1
        PROVE  (p \o q)[j] = IF j < k THEN s[j] ELSE s[j + 1]
    <2>1. CASE j < k
      BY <1>1, <1>2, <1>4, <2>1
    <2>2. CASE ~(j < k)
      <3>1. j - (k - 1) \in 1 .. Len(s) - k /\ k + (j - (k - 1)) = j + 1
        BY <1>1, <2>2
      <3>2. q[j - (k - 1)] = s[k + (j - (k - 1))]
        BY <1>3, <3>1
      <3>. QED BY <1>4, <2>2, <3>1, <3>2
    <2>. QED BY <2>1, <2>2
  <1>. QED BY <1>4, <1>5 DEF RemoveAt, p, q

\* Removing an element of a queue without repetitions leaves the others.
LEMMA Removal ==
  ASSUME NEW S, NEW s \in Seq(S), Distinct(s), NEW k \in DOMAIN s,
         NEW t \in Seq(S), Len(t) = Len(s) - 1,
         \A j \in 1 .. Len(s) - 1 : t[j] = IF j < k THEN s[j] ELSE s[j + 1]
  PROVE  ToSet(t) = ToSet(s) \ {s[k]} /\ Distinct(t)
  <1>1. /\ Len(s) \in Nat /\ DOMAIN s = 1 .. Len(s) /\ k \in 1 .. Len(s)
        /\ DOMAIN t = 1 .. Len(s) - 1
    OBVIOUS
  <1>2. ASSUME NEW i \in DOMAIN s, i # k
        PROVE  \E j \in DOMAIN t : t[j] = s[i]
    <2>1. CASE i < k
      <3>1. i \in 1 .. Len(s) - 1 /\ t[i] = s[i]
        BY <1>1, <2>1
      <3>. QED BY <1>1, <3>1
    <2>2. CASE ~(i < k)
      <3>1. i - 1 \in 1 .. Len(s) - 1 /\ ~(i - 1 < k) /\ (i - 1) + 1 = i
        BY <1>1, <1>2, <2>2
      <3>2. t[i - 1] = s[i]
        BY <3>1
      <3>. QED BY <1>1, <3>1, <3>2
    <2>. QED BY <2>1, <2>2
  <1>3. ASSUME NEW j \in DOMAIN t
        PROVE  \E i \in DOMAIN s : i # k /\ s[i] = t[j] /\ i = IF j < k THEN j ELSE j + 1
    <2>1. j \in 1 .. Len(s) - 1
      BY <1>1
    <2>. QED BY <1>1, <2>1
  <1>4. ToSet(t) = ToSet(s) \ {s[k]}
    BY <1>2, <1>3 DEF ToSet, Distinct
  <1>5. Distinct(t)
    <2>1. ASSUME NEW i \in DOMAIN t, NEW j \in DOMAIN t, t[i] = t[j]
          PROVE  i = j
      <3>1. PICK m \in DOMAIN s : s[m] = t[i] /\ m = IF i < k THEN i ELSE i + 1
        BY <1>3
      <3>2. PICK n \in DOMAIN s : s[n] = t[j] /\ n = IF j < k THEN j ELSE j + 1
        BY <1>3
      <3>3. m = n
        BY <2>1, <3>1, <3>2 DEF Distinct
      <3>. QED BY <1>1, <3>1, <3>2, <3>3
    <2>. QED BY <2>1 DEF Distinct
  <1>. QED BY <1>4, <1>5

LEMMA RemoveAtLeaves ==
  ASSUME NEW S, NEW s \in Seq(S), Distinct(s), NEW k \in DOMAIN s
  PROVE  /\ RemoveAt(s, k) \in Seq(S)
         /\ ToSet(RemoveAt(s, k)) = ToSet(s) \ {s[k]}
  <1>. DEFINE t == RemoveAt(s, k)
  <1>1. /\ t \in Seq(S) /\ Len(t) = Len(s) - 1
        /\ \A j \in 1 .. Len(s) - 1 : t[j] = IF j < k THEN s[j] ELSE s[j + 1]
    BY RemoveAtElements
  <1>. HIDE DEF t
  <1>2. ToSet(t) = ToSet(s) \ {s[k]}
    BY <1>1, Removal
  <1>. QED BY <1>1, <1>2 DEF t

LEMMA TailElements ==
  ASSUME NEW S, NEW s \in Seq(S), s # <<>>
  PROVE  /\ Head(s) = s[1] /\ 1 \in DOMAIN s /\ Head(s) \in S
         /\ Tail(s) \in Seq(S) /\ Len(Tail(s)) = Len(s) - 1
         /\ Distinct(s) => ToSet(Tail(s)) = ToSet(s) \ {Head(s)} /\ Distinct(Tail(s))
  <1>1. /\ Head(s) = s[1] /\ 1 \in DOMAIN s /\ Head(s) \in S
        /\ Tail(s) \in Seq(S) /\ Len(Tail(s)) = Len(s) - 1
        /\ \A j \in 1 .. Len(s) - 1 : Tail(s)[j] = s[j + 1]
    OBVIOUS
  <1>2. ASSUME Distinct(s)
        PROVE  ToSet(Tail(s)) = ToSet(s) \ {s[1]} /\ Distinct(Tail(s))
    <2>. DEFINE t == Tail(s)
    <2>1. t \in Seq(S) /\ Len(t) = Len(s) - 1 /\ 1 \in DOMAIN s
      BY <1>1
    <2>2. \A j \in 1 .. Len(s) - 1 : t[j] = IF j < 1 THEN s[j] ELSE s[j + 1]
      BY <1>1
    <2>. HIDE DEF t
    <2>3. ToSet(t) = ToSet(s) \ {s[1]} /\ Distinct(t)
      BY <1>2, <2>1, <2>2, Removal
    <2>. QED BY <2>3 DEF t
  <1>. QED BY <1>1, <1>2
-----------------------------------------------------------------------------
(* The inductive invariant *)

\* A request is waiting, at work, or answered.
Queued == UNION {ToSet(ingress[s]) : s \in Stacks}
Running == UNION {working[c] : c \in Controllers}
Answered == UNION {ToSet(finished[c]) : c \in Controllers}
Everywhere == Queued \cup Running \cup Answered

\* It is in the containers of its own stack and channel, and in one of them.
Placed ==
  /\ \A s \in Stacks : \A r \in ToSet(ingress[s]) : r.stack = s
  /\ \A c \in Controllers : \A r \in working[c] \cup ToSet(finished[c]) :
       ControllerIndex(r.stack, r.channel) = c

Apart ==
  /\ Queued \cap Running = {} /\ Queued \cap Answered = {}
  /\ Running \cap Answered = {}
  /\ \A s \in Stacks : Distinct(ingress[s])
  /\ \A c \in Controllers : Distinct(finished[c])

\* Only data is answered, and data has a host.
Typed ==
  /\ \A r \in Everywhere : r.type = "Data" => r.host \in Hosts
  /\ \A r \in Answered : r.type = "Data"
  /\ ~started => Running = {} /\ Answered = {}

\* Sequence numbers below next_system_sequence_ are the used ones.
Fresh == \A r \in Everywhere : r.seq < sequence

FlowType ==
  /\ started \in BOOLEAN
  /\ sequence \in 0 .. MaxAccepted
  /\ ingress \in [Stacks -> Seq(Requests)]
  /\ \A s \in Stacks : Len(ingress[s]) <= IngressSize
  /\ working \in [Controllers -> SUBSET Requests]
  /\ finished \in [Controllers -> Seq(Requests)]
  /\ \A c \in Controllers : Len(finished[c]) <= ControllerResponses

FlowOK == FlowType /\ Placed /\ Apart /\ Typed /\ Fresh

\* Where tick() is.
Turning ==
  /\ phase = "dispatch" => turn \in Stacks
  /\ phase = "collect" => turn \in Controllers
  /\ phase \in {"dispatch", "work"} => started

Going(h) == {r.index : r \in Travelling(h)}
Done(h) == submissions[h].accepted \ Going(h)

\* What travels belongs to the submission that is registered.
Fit(h) ==
  /\ \A r \in Travelling(h) :
       /\ h \in Tagged /\ r.gen = generation[h]
       /\ r.count = submissions[h].count
       /\ r.index \in submissions[h].accepted
  /\ \A q, r \in Travelling(h) : q.index = r.index => q = r

Counted(h) ==
  /\ submissions[h].accepted \subseteq Indexes(submissions[h].count)
  /\ submissions[h].completed = Cardinality(Done(h))

PartsOf(h, indexes) ==
  {[index |-> i, gen |-> generation[h]] : i \in indexes}

\* The answers that wait for the frontend.
Answers(h) == {r \in ToSet(hostResponses) : r.host = h}

\* Something of the submission is missing, and what is done of it is in its
\* assembly when host responses are kept.
Unanswered(h) ==
  /\ Done(h) # Indexes(submissions[h].count)
  /\ h \in Assembling =>
       /\ assemblies[h].count = submissions[h].count
       /\ assemblies[h].parts = PartsOf(h, Done(h))
  /\ RetainsHost /\ h \notin Assembling => Done(h) = {}

WholeAnswer(h) ==
  HostResponse(h, submissions[h].count,
               PartsOf(h, Indexes(submissions[h].count)), TRUE)

HasAnswer(h) ==
  /\ Done(h) = Indexes(submissions[h].count)
  /\ h \notin Assembling
  /\ Answers(h) = {WholeAnswer(h)}

Staged(h) == IF Answers(h) = {} THEN Unanswered(h) ELSE HasAnswer(h)

\* Before the first cycle, and as long as no host response is asked for.
Modal(h) ==
  /\ h \in Assembling \/ Answers(h) # {} =>
       started /\ h \in Tagged /\ RetainsHost
  /\ h \in Tagged => mode # "Disabled" /\ (started \/ Done(h) = {})

HostInv(h) ==
  /\ generation[h] <= sequence
  /\ Fit(h) /\ Modal(h)
  /\ h \in Tagged => Counted(h) /\ Staged(h)

ControlType ==
  /\ phase \in {"idle", "dispatch", "work", "collect"}
  /\ mode \in Modes
  /\ turn \in Stacks \cup Controllers /\ slots \in 0 .. DispatchWidth

HostType ==
  /\ submissions \in [Hosts -> Submissions \cup {NoTag}]
  /\ \A h \in Tagged : submissions[h].completed <= MaxCount
  /\ assemblies \in [Hosts -> Assemblies \cup {NoTag}]
  /\ transactionResponses \in Seq(Requests)
  /\ hostResponses \in Seq(HostResponseType)
  /\ generation \in [Hosts -> 0 .. MaxAccepted]

IInv ==
  /\ ControlType /\ FlowOK /\ HostType /\ Turning /\ Distinct(hostResponses)
  /\ \A h \in Hosts : HostInv(h)

-----------------------------------------------------------------------------
(* The places of a request *)

LEMMA Constants ==
  /\ MaxCount \in Nat \ {0} /\ StackCount \in Nat \ {0}
  /\ ChannelCount \in Nat \ {0} /\ IngressSize \in Nat \ {0}
  /\ DispatchWidth \in Nat \ {0} /\ ControllerResponses \in Nat \ {0}
  /\ HostCap \in Nat \ {0} /\ MaxAccepted \in Nat \ {0}
  /\ Classes \subseteq Nat
  BY SizesAssumption

\* The index of a channel controller is in range.
LEMMA ControllerInRange ==
  ASSUME NEW s \in Stacks, NEW ch \in Channels
  PROVE  ControllerIndex(s, ch) \in Controllers
  <1>1. ASSUME NEW a \in Nat, NEW b \in Nat, NEW n \in Nat, a < b
        PROVE  a * n + n <= b * n
    <2>1. PICK d \in Nat : b = a + 1 + d
      <3>1. b - a - 1 \in Nat /\ b = a + 1 + (b - a - 1)
        BY <1>1
      <3>. QED BY <3>1
    <2>2. b * n = a * n + n + d * n /\ d * n >= 0
      BY <2>1
    <2>. QED BY <2>2
  <1>2. s * ChannelCount + ChannelCount <= StackCount * ChannelCount
    BY <1>1, Constants DEF Stacks
  <1>3. s * ChannelCount \in Nat /\ StackCount * ChannelCount \in Nat
    BY Constants DEF Stacks
  <1>. QED
    BY <1>2, <1>3, Constants DEF ControllerIndex, Controllers, Channels

\* Of a row of pairs one is best: the first is largest, then the second least.
LEMMA BestExists ==
  ASSUME NEW n \in Nat \ {0}, NEW c \in [1 .. n -> Int], NEW t \in [1 .. n -> Int]
  PROVE  \E k \in 1 .. n : \A j \in 1 .. n :
           c[k] > c[j] \/ (c[k] = c[j] /\ t[k] <= t[j])
  <1>. DEFINE Beats(k, j) == c[k] > c[j] \/ (c[k] = c[j] /\ t[k] <= t[j])
              Best(k, m) == \A j \in 1 .. m : Beats(k, j)
              Lacking == {m \in 1 .. n : ~\E k \in 1 .. m : Best(k, m)}
  <1>1. \A i, j, k \in 1 .. n :
          /\ Beats(i, i) /\ (Beats(i, j) \/ Beats(j, i))
          /\ Beats(i, j) /\ Beats(j, k) => Beats(i, k)
    <2>. TAKE i, j, k \in 1 .. n
    <2>1. /\ c[i] \in Int /\ c[j] \in Int /\ c[k] \in Int
          /\ t[i] \in Int /\ t[j] \in Int /\ t[k] \in Int
      OBVIOUS
    <2>2. Beats(i, i) /\ (Beats(i, j) \/ Beats(j, i))
      BY <2>1
    <2>3. Beats(i, j) /\ Beats(j, k) => Beats(i, k)
      BY <2>1
    <2>. QED BY <2>2, <2>3
  <1>. HIDE DEF Beats
  <1>2. Lacking = {}
    <2>. SUFFICES ASSUME Lacking # {} PROVE FALSE
      OBVIOUS
    <2>1. PICK m \in Lacking : \A l \in Lacking : ~(<<l, m>> \in OpToRel(<, Nat))
      <3>1. Lacking \subseteq Nat
        OBVIOUS
      <3>. HIDE DEF Lacking
      <3>. QED BY <3>1, WFMin, NatLessThanWellFounded
    <2>2. m \in 1 .. n
      OBVIOUS
    <2>3. m # 1
      <3>1. ASSUME m = 1 PROVE Best(1, m)
        BY <1>1, <2>2, <3>1
      <3>. QED BY <3>1
    <2>4. m - 1 \in 1 .. n /\ m - 1 < m
      BY <2>2, <2>3
    <2>5. m - 1 \notin Lacking
      <3>. HIDE DEF Lacking
      <3>1. <<m - 1, m>> \in OpToRel(<, Nat)
        BY <2>2, <2>4 DEF OpToRel
      <3>. QED BY <2>1, <3>1
    <2>6. PICK k \in 1 .. m - 1 : Best(k, m - 1)
      BY <2>4, <2>5
    <2>7. k \in 1 .. m /\ k \in 1 .. n /\ \A j \in 1 .. m : j = m \/ j \in 1 .. m - 1
      <3>1. m \in Nat /\ m <= n /\ k \in Nat \ {0} /\ k <= m - 1
        BY <2>2, <2>4
      <3>. HIDE DEF Lacking, Best
      <3>2. k \in 1 .. m /\ k \in 1 .. n
        BY <3>1
      <3>3. \A j \in 1 .. m : j = m \/ j \in 1 .. m - 1
        BY <3>1
      <3>. QED BY <3>2, <3>3
    <2>8. CASE Beats(k, m)
      <3>1. Best(k, m)
        BY <2>6, <2>7, <2>8
      <3>. QED BY <2>7, <3>1
    <2>9. CASE Beats(m, k)
      <3>1. ASSUME NEW j \in 1 .. m PROVE Beats(m, j)
        <4>1. j \in 1 .. n
          BY <2>2
        <4>. QED BY <1>1, <2>2, <2>6, <2>7, <2>9, <4>1
      <3>2. Best(m, m) /\ m \in 1 .. m
        BY <2>2, <3>1
      <3>. QED BY <3>2
    <2>. QED BY <1>1, <2>2, <2>7, <2>8, <2>9
  <1>3. n \in 1 .. n
    OBVIOUS
  <1>4. PICK k \in 1 .. n : Best(k, n)
    BY <1>2, <1>3
  <1>. QED BY <1>4 DEF Beats

\* Selected() chooses a request of the queue, and none comes before it.
LEMMA SelectedInQueue ==
  ASSUME NEW queue \in Seq(Requests), queue # <<>>
  PROVE  /\ Selected(queue) \in DOMAIN queue
         /\ Strict => \A j \in DOMAIN queue :
              \/ queue[Selected(queue)].class > queue[j].class
              \/ /\ queue[Selected(queue)].class = queue[j].class
                 /\ queue[Selected(queue)].seq <= queue[j].seq
         /\ ~Strict => Selected(queue) = 1
  <1>1. Len(queue) \in Nat \ {0} /\ DOMAIN queue = 1 .. Len(queue)
    OBVIOUS
  <1>2. CASE Strict
    <2>1. \A k \in 1 .. Len(queue) : queue[k] \in Requests
      BY <1>1
    <2>2. \A r \in Requests : r.class \in Int /\ r.seq \in Int
      <3>. TAKE r \in Requests
      <3>1. r.class \in Classes \cup {0} /\ r.seq \in 0 .. MaxAccepted - 1
        BY DEF Requests
      <3>2. Classes \cup {0} \subseteq Int /\ MaxAccepted \in Nat
        BY Constants
      <3>. QED BY <3>1, <3>2
    <2>. DEFINE n == Len(queue)
                c == [k \in 1 .. n |-> queue[k].class]
                t == [k \in 1 .. n |-> queue[k].seq]
    <2>3. /\ n \in Nat \ {0} /\ DOMAIN queue = 1 .. n
          /\ c \in [1 .. n -> Int] /\ t \in [1 .. n -> Int]
      BY <1>1, <2>1, <2>2
    <2>4. \A k \in 1 .. n : c[k] = queue[k].class /\ t[k] = queue[k].seq
      OBVIOUS
    <2>. HIDE DEF n, c, t
    <2>5. \E k \in 1 .. n : \A j \in 1 .. n :
            c[k] > c[j] \/ (c[k] = c[j] /\ t[k] <= t[j])
      BY <2>3, BestExists
    <2>6. \E k \in DOMAIN queue : \A j \in DOMAIN queue :
            \/ queue[k].class > queue[j].class
            \/ /\ queue[k].class = queue[j].class
               /\ queue[k].seq <= queue[j].seq
      <3>1. PICK k \in 1 .. n : \A j \in 1 .. n :
              c[k] > c[j] \/ (c[k] = c[j] /\ t[k] <= t[j])
        BY <2>5
      <3>2. ASSUME NEW j \in 1 .. n
            PROVE  \/ queue[k].class > queue[j].class
                   \/ /\ queue[k].class = queue[j].class
                      /\ queue[k].seq <= queue[j].seq
        BY <2>4, <3>1
      <3>. QED BY <2>3, <3>2
    <2>. QED BY <1>2, <2>6 DEF Selected
  <1>3. CASE ~Strict
    BY <1>1, <1>3 DEF Selected
  <1>. QED BY <1>2, <1>3, SizesAssumption

LEMMA InEverywhere ==
  ASSUME NEW h
  PROVE  Travelling(h) = {r \in Everywhere : r.type = "Data" /\ r.host = h}
  BY DEF Travelling, Everywhere, Queued, Running, Answered

LEMMA Members ==
  ASSUME NEW S, NEW s \in Seq(S)
  PROVE  ToSet(s) \subseteq S
  BY DEF ToSet

LEMMA EverywhereType ==
  ASSUME FlowType
  PROVE  Everywhere \subseteq Requests
  <1>1. \A s \in Stacks : ToSet(ingress[s]) \subseteq Requests
    BY Members DEF FlowType
  <1>2. \A c \in Controllers : ToSet(finished[c]) \subseteq Requests
    BY Members DEF FlowType
  <1>3. \A c \in Controllers : working[c] \subseteq Requests
    BY DEF FlowType
  <1>. QED BY <1>1, <1>2, <1>3 DEF Everywhere, Queued, Running, Answered

LEMMA QueuedIn ==
  ASSUME FlowType
  PROVE  /\ \A s \in Stacks : ingress[s] \in Seq(Requests)
         /\ \A s \in Stacks : ToSet(ingress[s]) \subseteq Queued
         /\ \A c \in Controllers : finished[c] \in Seq(Requests)
         /\ \A c \in Controllers : ToSet(finished[c]) \subseteq Answered
         /\ \A c \in Controllers : working[c] \subseteq Running
         /\ \A c \in Controllers : working[c] \subseteq Requests
  BY DEF FlowType, Queued, Running, Answered

\* An accepted request is new, and the only thing that is.
LEMMA AcceptFlow ==
  ASSUME FlowOK, NEW request \in Requests, request.seq = sequence,
         request.type = "Data" => request.host \in Hosts,
         HasRoom(request.stack), Accept(request),
         UNCHANGED <<started, working, finished>>
  PROVE  /\ FlowOK'
         /\ request \notin Everywhere
         /\ Everywhere' = Everywhere \cup {request}
         /\ sequence' = sequence + 1
  <1>. DEFINE s == request.stack
  <1>1. s \in Stacks
    BY DEF Requests
  <1>2. request \notin Everywhere
    <2>1. \A r \in Everywhere : r.seq < sequence
      BY DEF FlowOK, Fresh
    <2>2. sequence \in Int
      BY Constants DEF FlowOK, FlowType
    <2>. QED BY <2>1, <2>2
  <1>3. /\ ingress[s] \in Seq(Requests) /\ ToSet(ingress[s]) \subseteq Queued
        /\ request \notin ToSet(ingress[s])
    BY <1>1, <1>2, QueuedIn DEF FlowOK, Everywhere
  <1>4. ingress' = [ingress EXCEPT ![s] = Append(ingress[s], request)]
    BY DEF Accept
  <1>5. /\ ingress'[s] \in Seq(Requests)
        /\ ToSet(ingress'[s]) = ToSet(ingress[s]) \cup {request}
        /\ Distinct(ingress'[s]) /\ Len(ingress'[s]) = Len(ingress[s]) + 1
        /\ \A z \in Stacks : z # s => ingress'[z] = ingress[z]
        /\ ingress' \in [Stacks -> Seq(Requests)]
    <2>1. ingress'[s] = Append(ingress[s], request)
          /\ \A z \in Stacks : z # s => ingress'[z] = ingress[z]
      BY <1>1, <1>4 DEF FlowOK, FlowType
    <2>2. Distinct(ingress[s])
      BY <1>1 DEF FlowOK, Apart
    <2>3. /\ Append(ingress[s], request) \in Seq(Requests)
          /\ Len(Append(ingress[s], request)) = Len(ingress[s]) + 1
      BY <1>3
    <2>4. /\ ToSet(Append(ingress[s], request)) = ToSet(ingress[s]) \cup {request}
          /\ Distinct(Append(ingress[s], request))
      BY <1>3, <2>2, AppendElements
    <2>5. ingress' \in [Stacks -> Seq(Requests)]
      BY <1>1, <1>4, <2>3 DEF FlowOK, FlowType
    <2>. QED BY <2>1, <2>3, <2>4, <2>5
  <1>6. Queued' = Queued \cup {request} /\ Running' = Running /\ Answered' = Answered
    <2>1. ASSUME NEW z \in Stacks
          PROVE  ToSet(ingress'[z]) =
                   ToSet(ingress[z]) \cup (IF z = s THEN {request} ELSE {})
      BY <1>5
    <2>. QED BY <1>1, <2>1 DEF Queued, Running, Answered
  <1>7. Everywhere' = Everywhere \cup {request}
    BY <1>6 DEF Everywhere
  <1>8. FlowType'
    <2>1. sequence' \in 0 .. MaxAccepted
      BY Constants DEF HasRoom, Accept, FlowOK, FlowType
    <2>2. ASSUME NEW z \in Stacks PROVE Len(ingress'[z]) <= IngressSize
      <3>1. CASE z = s
        BY <1>3, <1>5, <3>1, Constants DEF HasRoom
      <3>. QED BY <1>5, <3>1 DEF FlowOK, FlowType
    <2>. QED BY <1>5, <2>1, <2>2 DEF FlowOK, FlowType
  <1>9. Placed'
    <2>1. ASSUME NEW z \in Stacks, NEW r \in ToSet(ingress'[z])
          PROVE  r.stack = z
      BY <1>5, <2>1 DEF FlowOK, Placed
    <2>. QED BY <2>1 DEF FlowOK, Placed
  <1>10. Apart'
    <2>1. ASSUME NEW z \in Stacks PROVE Distinct(ingress'[z])
      BY <1>5 DEF FlowOK, Apart
    <2>. QED BY <1>2, <1>6, <2>1 DEF FlowOK, Apart, Everywhere
  <1>11. Typed'
    BY <1>6, <1>7 DEF FlowOK, Typed
  <1>12. Fresh' /\ sequence' = sequence + 1
    <2>1. sequence \in Int /\ sequence' = sequence + 1
      BY Constants DEF FlowOK, FlowType, Accept
    <2>2. \A r \in Requests : r.seq \in Int
      BY Constants DEF Requests
    <2>3. Everywhere \subseteq Requests
      BY EverywhereType DEF FlowOK
    <2>. QED BY <1>7, <2>1, <2>2, <2>3 DEF FlowOK, Fresh
  <1>. QED BY <1>2, <1>7, <1>8, <1>9, <1>10, <1>11, <1>12 DEF FlowOK

\* A dispatched request moves from its ingress queue to its controller.
LEMMA DispatchFlow ==
  ASSUME FlowOK, Turning, Dispatch
  PROVE  FlowOK' /\ Everywhere' = Everywhere
  <1>. DEFINE s == turn
              k == Selected(ingress[s])
              r == ingress[s][k]
              c == ControllerIndex(s, r.channel)
              t == RemoveAt(ingress[s], k)
  <1>1. /\ s \in Stacks /\ started /\ ingress[s] # <<>>
        /\ ingress[s] \in Seq(Requests) /\ ToSet(ingress[s]) \subseteq Queued
    BY QueuedIn DEF Dispatch, Turning, FlowOK
  <1>2. k \in DOMAIN ingress[s]
    BY <1>1, SelectedInQueue
  <1>3. r \in Requests /\ r \in ToSet(ingress[s]) /\ r \in Queued /\ r.stack = s
    <2>1. r \in ToSet(ingress[s])
      BY <1>2 DEF ToSet
    <2>. QED BY <1>1, <1>2, <2>1 DEF FlowOK, Placed
  <1>4. c \in Controllers
    BY <1>1, <1>3, ControllerInRange DEF Requests
  <1>5. /\ working' = [working EXCEPT ![c] = working[c] \cup {r}]
        /\ ingress' = [ingress EXCEPT ![s] = t]
        /\ UNCHANGED <<started, sequence, finished>>
    BY DEF Dispatch
  <1>6. /\ t \in Seq(Requests) /\ Len(t) = Len(ingress[s]) - 1
        /\ ToSet(t) = ToSet(ingress[s]) \ {r} /\ Distinct(t)
    <2>1. /\ t \in Seq(Requests) /\ Len(t) = Len(ingress[s]) - 1
          /\ \A j \in 1 .. Len(ingress[s]) - 1 :
               t[j] = IF j < k THEN ingress[s][j] ELSE ingress[s][j + 1]
      <3>. HIDE DEF k
      <3>. QED BY <1>1, <1>2, RemoveAtElements
    <2>2. Distinct(ingress[s])
      BY <1>1 DEF FlowOK, Apart
    <2>3. ToSet(t) = ToSet(ingress[s]) \ {ingress[s][k]} /\ Distinct(t)
      <3>. HIDE DEF k, t
      <3>. QED BY <1>1, <1>2, <2>1, <2>2, Removal
    <2>. QED BY <2>1, <2>3
  <1>. HIDE DEF k, r, c, t
  <1>7. /\ ingress'[s] = t /\ ingress' \in [Stacks -> Seq(Requests)]
        /\ \A z \in Stacks : z # s => ingress'[z] = ingress[z]
        /\ working'[c] = working[c] \cup {r}
        /\ working' \in [Controllers -> SUBSET Requests]
        /\ \A d \in Controllers : d # c => working'[d] = working[d]
    BY <1>1, <1>3, <1>4, <1>5, <1>6 DEF FlowOK, FlowType
  <1>8. Queued' = Queued \ {r}
    <2>1. ASSUME NEW z \in Stacks PROVE ToSet(ingress'[z]) = ToSet(ingress[z]) \ {r}
      <3>1. CASE z = s
        BY <1>6, <1>7, <3>1
      <3>2. CASE z # s
        <4>1. r \notin ToSet(ingress[z])
          BY <1>3, <3>2 DEF FlowOK, Placed
        <4>. QED BY <1>7, <3>2, <4>1
      <3>. QED BY <3>1, <3>2
    <2>. QED BY <2>1 DEF Queued
  <1>9. Running' = Running \cup {r} /\ Answered' = Answered
    <2>1. ASSUME NEW d \in Controllers
          PROVE  working'[d] = working[d] \cup (IF d = c THEN {r} ELSE {})
      BY <1>7
    <2>. QED BY <1>4, <1>5, <2>1 DEF Running, Answered
  <1>10. Everywhere' = Everywhere
    BY <1>3, <1>8, <1>9 DEF Everywhere
  <1>11. FlowType'
    <2>1. ASSUME NEW z \in Stacks PROVE Len(ingress'[z]) <= IngressSize
      <3>1. Len(ingress[z]) \in Nat /\ Len(ingress[z]) <= IngressSize
        BY QueuedIn DEF FlowOK, FlowType
      <3>2. CASE z = s
        BY <1>6, <1>7, <3>1, <3>2, Constants
      <3>. QED BY <1>7, <3>1, <3>2
    <2>. QED BY <1>5, <1>7, <2>1 DEF FlowOK, FlowType
  <1>12. Placed'
    <2>1. ASSUME NEW z \in Stacks, NEW q \in ToSet(ingress'[z]) PROVE q.stack = z
      BY <1>6, <1>7, <2>1 DEF FlowOK, Placed
    <2>2. ASSUME NEW d \in Controllers, NEW q \in working'[d]
          PROVE  ControllerIndex(q.stack, q.channel) = d
      BY <1>3, <1>7, <2>2 DEF FlowOK, Placed, c
    <2>. QED BY <1>5, <2>1, <2>2 DEF FlowOK, Placed
  <1>13. Apart'
    <2>1. ASSUME NEW z \in Stacks PROVE Distinct(ingress'[z])
      BY <1>6, <1>7 DEF FlowOK, Apart
    <2>. QED BY <1>3, <1>5, <1>8, <1>9, <2>1 DEF FlowOK, Apart
  <1>14. Typed' /\ Fresh'
    BY <1>1, <1>5, <1>9, <1>10 DEF FlowOK, Typed, Fresh
  <1>. QED BY <1>10, <1>11, <1>12, <1>13, <1>14 DEF FlowOK

\* What a controller finishes moves to its responses; maintenance is gone.
LEMMA FinishFlow ==
  ASSUME FlowOK, Turning, NEW c \in Controllers, Finish(c)
  PROVE  FlowOK' /\ \A h \in Hosts : Travelling(h)' = Travelling(h)
  <1>1. PICK r \in working[c] :
          /\ working' = [working EXCEPT ![c] = working[c] \ {r}]
          /\ IF r.type = "Maintenance"
             THEN UNCHANGED finished
             ELSE /\ Len(finished[c]) < ControllerResponses
                  /\ finished' = [finished EXCEPT ![c] = Append(finished[c], r)]
    BY DEF Finish
  <1>2. /\ r \in Requests /\ r \in Running /\ started
        /\ ControllerIndex(r.stack, r.channel) = c
        /\ UNCHANGED <<started, sequence, ingress>>
    BY QueuedIn DEF FlowOK, Placed, Turning, Finish, tickVars
  <1>3. /\ working'[c] = working[c] \ {r}
        /\ working' \in [Controllers -> SUBSET Requests]
        /\ \A d \in Controllers : d # c => working'[d] = working[d]
    BY <1>1 DEF FlowOK, FlowType
  <1>4. Running' = Running \ {r} /\ Queued' = Queued
    <2>1. ASSUME NEW d \in Controllers PROVE working'[d] = working[d] \ {r}
      <3>1. CASE d # c
        BY <1>2, <1>3, <3>1 DEF FlowOK, Placed
      <3>. QED BY <1>3, <3>1
    <2>. QED BY <1>2, <2>1 DEF Running, Queued
  <1>5. Placed' /\ FlowType' /\ (\A d \in Controllers : Distinct(finished'[d]))
        /\ Answered' = Answered \cup (IF r.type = "Maintenance" THEN {} ELSE {r})
    <2>1. CASE r.type = "Maintenance"
      <3>1. UNCHANGED finished
        BY <1>1, <2>1
      <3>2. Answered' = Answered
        BY <3>1 DEF Answered
      <3>3. FlowType'
        BY <1>2, <1>3, <3>1 DEF FlowOK, FlowType
      <3>4. Placed'
        BY <1>2, <1>3, <3>1 DEF FlowOK, Placed
      <3>. QED BY <2>1, <3>1, <3>2, <3>3, <3>4 DEF FlowOK, Apart
    <2>2. CASE r.type # "Maintenance"
      <3>. DEFINE t == Append(finished[c], r)
      <3>1. /\ finished' = [finished EXCEPT ![c] = t]
            /\ Len(finished[c]) < ControllerResponses
            /\ finished[c] \in Seq(Requests)
            /\ r \notin ToSet(finished[c]) /\ Distinct(finished[c])
        BY <1>1, <1>2, <2>2, QueuedIn DEF FlowOK, Apart
      <3>2. t \in Seq(Requests) /\ Len(t) = Len(finished[c]) + 1
        BY <1>2, <3>1
      <3>3. ToSet(t) = ToSet(finished[c]) \cup {r} /\ Distinct(t)
        BY <1>2, <3>1, AppendElements
      <3>. HIDE DEF t
      <3>4. /\ finished'[c] = t /\ finished' \in [Controllers -> Seq(Requests)]
            /\ \A d \in Controllers : d # c => finished'[d] = finished[d]
        BY <3>1, <3>2 DEF FlowOK, FlowType
      <3>5. Answered' = Answered \cup {r}
        <4>1. ASSUME NEW d \in Controllers
              PROVE  ToSet(finished'[d]) =
                       ToSet(finished[d]) \cup (IF d = c THEN {r} ELSE {})
          BY <3>3, <3>4
        <4>. QED BY <4>1 DEF Answered
      <3>6. FlowType'
        <4>1. ASSUME NEW d \in Controllers
              PROVE  Len(finished'[d]) <= ControllerResponses
          <5>1. CASE d = c
            BY <3>1, <3>2, <3>4, <5>1, Constants
          <5>. QED BY <3>4, <5>1 DEF FlowOK, FlowType
        <4>. QED BY <1>2, <1>3, <3>4, <4>1 DEF FlowOK, FlowType
      <3>7. Placed'
        <4>1. ASSUME NEW d \in Controllers,
                     NEW q \in working'[d] \cup ToSet(finished'[d])
              PROVE  ControllerIndex(q.stack, q.channel) = d
          BY <1>2, <1>3, <3>3, <3>4, <4>1 DEF FlowOK, Placed
        <4>. QED BY <1>2, <4>1 DEF FlowOK, Placed
      <3>8. \A d \in Controllers : Distinct(finished'[d])
        BY <3>3, <3>4 DEF FlowOK, Apart
      <3>. QED BY <2>2, <3>5, <3>6, <3>7, <3>8
    <2>. QED BY <2>1, <2>2
  <1>6. Apart'
    BY <1>2, <1>4, <1>5 DEF FlowOK, Apart
  <1>7. r.type = "Maintenance" \/ r.type = "Data"
    BY <1>2 DEF Requests
  <1>8. Typed' /\ Fresh'
    BY <1>2, <1>4, <1>5, <1>7 DEF FlowOK, Typed, Fresh, Everywhere
  <1>9. ASSUME NEW h \in Hosts PROVE Travelling(h)' = Travelling(h)
    <2>1. Travelling(h) = {q \in Everywhere : q.type = "Data" /\ q.host = h}
      BY InEverywhere
    <2>2. Travelling(h)' = {q \in Everywhere' : q.type = "Data" /\ q.host = h}
      BY DEF Travelling, Everywhere, Queued, Running, Answered
    <2>3. Everywhere' = IF r.type = "Maintenance" THEN Everywhere \ {r} ELSE Everywhere
      BY <1>2, <1>4, <1>5 DEF FlowOK, Apart, Everywhere
    <2>. QED BY <2>1, <2>2, <2>3
  <1>. QED BY <1>5, <1>6, <1>8, <1>9 DEF FlowOK

\* A collected response leaves.
LEMMA CollectFlow ==
  ASSUME FlowOK, Turning, Collect
  PROVE  LET r == Head(finished[turn]) IN
         /\ FlowOK' /\ started
         /\ r \in Requests /\ r \in Everywhere /\ r.type = "Data" /\ r.host \in Hosts
         /\ Everywhere' = Everywhere \ {r}
  <1>. DEFINE c == turn
              r == Head(finished[c])
              t == Tail(finished[c])
  <1>1. /\ c \in Controllers /\ finished[c] # <<>>
        /\ finished[c] \in Seq(Requests) /\ Distinct(finished[c])
        /\ ToSet(finished[c]) \subseteq Answered
        /\ finished' = [finished EXCEPT ![c] = t]
        /\ UNCHANGED <<started, sequence, ingress, working>>
    BY QueuedIn DEF Collect, tickVars, Turning, FlowOK, Apart
  <1>2. /\ r = finished[c][1] /\ 1 \in DOMAIN finished[c] /\ r \in Requests
        /\ t \in Seq(Requests) /\ Len(t) = Len(finished[c]) - 1
        /\ ToSet(t) = ToSet(finished[c]) \ {r} /\ Distinct(t)
    BY <1>1, TailElements
  <1>3. r \in ToSet(finished[c])
    BY <1>2 DEF ToSet
  <1>. HIDE DEF r, t
  <1>4. r \in Answered /\ ControllerIndex(r.stack, r.channel) = c
    BY <1>1, <1>3 DEF FlowOK, Placed
  <1>5. /\ finished'[c] = t /\ finished' \in [Controllers -> Seq(Requests)]
        /\ \A d \in Controllers : d # c => finished'[d] = finished[d]
    BY <1>1, <1>2 DEF FlowOK, FlowType
  <1>6. Answered' = Answered \ {r} /\ Queued' = Queued /\ Running' = Running
    <2>1. ASSUME NEW d \in Controllers
          PROVE  ToSet(finished'[d]) = ToSet(finished[d]) \ {r}
      <3>1. CASE d # c
        BY <1>4, <1>5, <3>1 DEF FlowOK, Placed
      <3>. QED BY <1>2, <1>5, <3>1
    <2>2. Answered' = Answered \ {r}
      BY <2>1 DEF Answered
    <2>. QED BY <1>1, <2>2 DEF Queued, Running
  <1>7. Everywhere' = Everywhere \ {r}
    BY <1>4, <1>6 DEF FlowOK, Apart, Everywhere
  <1>8. started /\ r \in Everywhere /\ r.type = "Data" /\ r.host \in Hosts
    BY <1>4 DEF FlowOK, Typed, Everywhere
  <1>9. FlowType'
    <2>1. ASSUME NEW d \in Controllers
          PROVE  Len(finished'[d]) <= ControllerResponses
      <3>1. Len(finished[d]) \in Nat /\ Len(finished[d]) <= ControllerResponses
        BY QueuedIn DEF FlowOK, FlowType
      <3>2. CASE d = c
        BY <1>2, <1>5, <3>1, <3>2, Constants
      <3>. QED BY <1>5, <3>1, <3>2
    <2>. QED BY <1>1, <1>5, <2>1 DEF FlowOK, FlowType
  <1>10. Placed'
    <2>1. ASSUME NEW d \in Controllers, NEW q \in ToSet(finished'[d])
          PROVE  q \in ToSet(finished[d])
      BY <1>2, <1>5, <2>1
    <2>. QED BY <1>1, <2>1 DEF FlowOK, Placed
  <1>11. Apart'
    <2>1. ASSUME NEW d \in Controllers PROVE Distinct(finished'[d])
      BY <1>2, <1>5 DEF FlowOK, Apart
    <2>. QED BY <1>1, <1>6, <2>1 DEF FlowOK, Apart
  <1>12. Typed' /\ Fresh'
    BY <1>1, <1>6, <1>7, <1>8 DEF FlowOK, Typed, Fresh
  <1>. QED BY <1>2, <1>7, <1>8, <1>9, <1>10, <1>11, <1>12 DEF FlowOK, r

-----------------------------------------------------------------------------
(* Counting *)

LEMMA IndexesCount ==
  ASSUME NEW n \in Nat, NEW D \in SUBSET Indexes(n)
  PROVE  /\ IsFiniteSet(D) /\ Cardinality(D) \in Nat /\ Cardinality(D) <= n
         /\ Cardinality(D) = n <=> D = Indexes(n)
  <1>1. IsFiniteSet(Indexes(n)) /\ Cardinality(Indexes(n)) = n
    BY FS_Interval DEF Indexes
  <1>2. /\ IsFiniteSet(D) /\ Cardinality(D) <= Cardinality(Indexes(n))
        /\ Cardinality(Indexes(n)) = Cardinality(D) => Indexes(n) = D
    BY <1>1, FS_Subset
  <1>3. Cardinality(D) \in Nat
    BY <1>2, FS_CardinalityType
  <1>. QED BY <1>1, <1>2, <1>3

\* As many parts as indexes.
LEMMA PartsCount ==
  ASSUME NEW h, NEW D, IsFiniteSet(D)
  PROVE  Cardinality(PartsOf(h, D)) = Cardinality(D)
  <1>. DEFINE f == [i \in D |-> [index |-> i, gen |-> generation[h]]]
  <1>1. f \in Bijection(D, PartsOf(h, D))
    BY DEF Bijection, Injection, Surjection, IsInjective, PartsOf
  <1>. QED BY <1>1, FS_Bijection DEF ExistsBijection

LEMMA PartsIndexes ==
  ASSUME NEW h, NEW D
  PROVE  /\ {p.index : p \in PartsOf(h, D)} = D
         /\ \A p \in PartsOf(h, D) : p.gen = generation[h]
  <1>. DEFINE part(i) == [index |-> i, gen |-> generation[h]]
  <1>1. \A i \in D : part(i) \in PartsOf(h, D) /\ part(i).index = i
    BY DEF PartsOf
  <1>2. \A p \in PartsOf(h, D) : p.index \in D /\ p.gen = generation[h]
    BY DEF PartsOf
  <1>. HIDE DEF part
  <1>. QED BY <1>1, <1>2

\* Requests of a host, one of each index.
LEMMA GoingCount ==
  ASSUME NEW h, IsFiniteSet(Going(h)),
         \A q, r \in Travelling(h) : q.index = r.index => q = r
  PROVE  Cardinality(Travelling(h)) = Cardinality(Going(h))
  <1>. DEFINE f == [r \in Travelling(h) |-> r.index]
  <1>1. f \in Injection(Travelling(h), Going(h)) /\ f \in Surjection(Travelling(h), Going(h))
    BY DEF Injection, Surjection, IsInjective, Going
  <1>. QED BY <1>1, FS_Injection

-----------------------------------------------------------------------------
(* The invariant of one host *)

\* Nothing a host's invariant looks at has changed.
LEMMA HostFrame ==
  ASSUME NEW h \in Hosts, HostInv(h),
         submissions'[h] = submissions[h], assemblies'[h] = assemblies[h],
         generation'[h] = generation[h], generation[h] <= sequence',
         Travelling(h)' = Travelling(h), Answers(h)' = Answers(h),
         started => started',
         \/ mode' = mode
         \/ h \notin Tagged
         \/ ~started /\ mode' # "Disabled"
  PROVE  HostInv(h)'
  <1>1. /\ Going(h)' = Going(h) /\ Done(h)' = Done(h)
        /\ (h \in Tagged)' <=> h \in Tagged
        /\ (h \in Assembling)' <=> h \in Assembling
    BY DEF Going, Done, Tagged, Assembling
  <1>2. \A D : PartsOf(h, D)' = PartsOf(h, D)
    BY DEF PartsOf
  <1>3. Fit(h)'
    BY <1>1 DEF HostInv, Fit
  <1>4. h \in Tagged => Counted(h)'
    BY <1>1 DEF HostInv, Counted
  <1>5. CASE h \notin Tagged
    BY <1>1, <1>3, <1>5 DEF HostInv, Modal
  <1>6. CASE h \in Tagged /\ mode' = mode
    <2>1. RetainsHost' = RetainsHost /\ WholeAnswer(h)' = WholeAnswer(h)
      BY <1>6, <1>2 DEF RetainsHost, WholeAnswer, HostResponse
    <2>2. Modal(h)'
      BY <1>1, <1>6, <2>1 DEF HostInv, Modal
    <2>3. Staged(h)'
      BY <1>1, <1>2, <1>6, <2>1 DEF HostInv, Staged, Unanswered, HasAnswer
    <2>. QED BY <1>1, <1>3, <1>4, <1>6, <2>2, <2>3 DEF HostInv
  <1>7. CASE h \in Tagged /\ ~started /\ mode' # "Disabled"
    <2>1. h \notin Assembling /\ Answers(h) = {} /\ Done(h) = {}
      BY <1>7 DEF HostInv, Modal
    <2>2. Modal(h)'
      BY <1>1, <1>7, <2>1 DEF Modal
    <2>3. Staged(h)'
      BY <1>1, <1>7, <2>1 DEF HostInv, Staged, Unanswered
    <2>. QED BY <1>1, <1>3, <1>4, <1>7, <2>2, <2>3 DEF HostInv
  <1>. QED BY <1>5, <1>6, <1>7

LEMMA TaggedType ==
  ASSUME HostType, NEW h \in Tagged
  PROVE  /\ h \in Hosts /\ submissions[h] \in Submissions
         /\ submissions[h].count \in 1 .. MaxCount
         /\ submissions[h].accepted \in SUBSET Indexes(MaxCount)
         /\ submissions[h].completed \in Nat
         /\ generation[h] \in 0 .. MaxAccepted
  <1>1. h \in Hosts /\ submissions[h] \in Submissions
    BY DEF HostType, Tagged
  <1>2. generation[h] \in 0 .. MaxAccepted
    BY <1>1 DEF HostType
  <1>. QED BY <1>1, <1>2 DEF Submissions

\* A transaction that is under way is not done.
LEMMA DoneFacts ==
  ASSUME HostType, NEW h \in Tagged, HostInv(h)
  PROVE  /\ Done(h) \in SUBSET Indexes(submissions[h].count)
         /\ submissions[h].count \in Nat
         /\ submissions[h].completed = Cardinality(Done(h))
         /\ Done(h) = Indexes(submissions[h].count) => Travelling(h) = {}
  <1>1. submissions[h].count \in Nat
    BY TaggedType, Constants
  <1>2. /\ submissions[h].accepted \subseteq Indexes(submissions[h].count)
        /\ submissions[h].completed = Cardinality(Done(h))
    BY DEF HostInv, Counted
  <1>3. \A r \in Travelling(h) : r.index \in submissions[h].accepted \ Done(h)
    BY DEF HostInv, Fit, Done, Going
  <1>. QED BY <1>1, <1>2, <1>3 DEF Done

\* try_submit() with room: index i joins the accepted ones and goes.
LEMMA SubmitHost ==
  ASSUME HostType, NEW h \in Hosts, HostInv(h), NEW i, NEW count \in 1 .. MaxCount,
         NEW r, r.index = i, r.count = count, r.gen = generation'[h],
         MaySubmit(h, i, count), Record(h, i, count),
         generation' = [generation EXCEPT ![h] =
                          generation[h] + (IF h \in Tagged THEN 0 ELSE 1)],
         generation'[h] <= sequence',
         Travelling(h)' = Travelling(h) \cup {r},
         assemblies'[h] = assemblies[h], Answers(h)' = Answers(h), started' = started,
         mode' = IF mode = "Disabled" THEN "HostOnly" ELSE mode
  PROVE  HostInv(h)'
  <1>1. CASE h \in Tagged
    <2>. DEFINE old == submissions[h]
    <2>1. /\ old \in Submissions /\ old.count = count /\ i \notin old.accepted
          /\ i \in Indexes(count) /\ count \in Nat
          /\ old.accepted \subseteq Indexes(count)
      BY <1>1, TaggedType, Constants DEF MaySubmit, HostInv, Counted
    <2>2. submissions'[h] = [old EXCEPT !.accepted = old.accepted \cup {i}]
      <3>. DEFINE new == [old EXCEPT !.accepted = old.accepted \cup {i}]
      <3>1. submissions' = [submissions EXCEPT ![h] = new]
        BY <1>1 DEF Record
      <3>. HIDE DEF new
      <3>2. submissions'[h] = new
        BY <3>1 DEF HostType
      <3>. QED BY <3>2 DEF new
    <2>3. /\ submissions'[h] \in Submissions
          /\ submissions'[h].count = count
          /\ submissions'[h].accepted = old.accepted \cup {i}
          /\ submissions'[h].completed = old.completed
      <3>1. i \in Indexes(MaxCount)
        BY <2>1, Constants DEF Indexes
      <3>. QED BY <2>1, <2>2, <3>1 DEF Submissions
    <2>4. (h \in Tagged)' /\ mode' = mode /\ generation'[h] = generation[h]
      <3>1. generation[h] \in Int
        BY Constants DEF HostType
      <3>2. mode # "Disabled"
        BY <1>1 DEF HostInv, Modal
      <3>3. generation'[h] = generation[h]
        BY <1>1, <3>1 DEF HostType
      <3>. QED BY <2>3, <3>2, <3>3, NoTagAssumption DEF Tagged
    <2>5. Going(h)' = Going(h) \cup {i} /\ Going(h) \subseteq old.accepted
      BY DEF Going, HostInv, Fit
    <2>6. Done(h)' = Done(h)
      BY <2>1, <2>3, <2>5 DEF Done
    <2>7. Fit(h)'
      <3>1. \A q \in Travelling(h) : q.index \in old.accepted /\ q.gen = generation[h] /\ q.count = count
        BY <2>1 DEF HostInv, Fit
      <3>2. \A q, z \in Travelling(h) : q.index = z.index => q = z
        BY DEF HostInv, Fit
      <3>3. \A q \in Travelling(h) : q.index # i
        BY <2>1, <3>1
      <3>4. \A q, z \in Travelling(h)' : q.index = z.index => q = z
        BY <3>2, <3>3
      <3>5. \A q \in Travelling(h)' :
              q.gen = generation'[h] /\ q.count = count /\ q.index \in old.accepted \cup {i}
        BY <2>4, <3>1
      <3>. QED BY <2>3, <2>4, <3>4, <3>5 DEF Fit
    <2>8. Counted(h)'
      BY <1>1, <2>1, <2>3, <2>6 DEF HostInv, Counted
    <2>9. (h \in Assembling)' <=> h \in Assembling
      BY DEF Assembling
    <2>10. Modal(h)'
      BY <1>1, <2>4, <2>6, <2>9 DEF HostInv, Modal, RetainsHost
    <2>11. /\ PartsOf(h, Done(h))' = PartsOf(h, Done(h))
           /\ PartsOf(h, Indexes(submissions[h].count))' = PartsOf(h, Indexes(submissions[h].count))
      BY <2>1, <2>3, <2>4, <2>6 DEF PartsOf
    <2>12. Staged(h)'
      BY <1>1, <2>1, <2>3, <2>4, <2>6, <2>9, <2>11
      DEF HostInv, Staged, Unanswered, HasAnswer, RetainsHost, WholeAnswer, HostResponse
    <2>. QED BY <2>4, <2>7, <2>8, <2>10, <2>12 DEF HostInv
  <1>2. CASE h \notin Tagged
    <2>1. i = 0 /\ i \in Indexes(count) /\ count \in Nat
      BY <1>2, Constants DEF MaySubmit
    <2>2. submissions'[h] = [count |-> count, accepted |-> {i}, completed |-> 0]
      BY <1>2 DEF Record, HostType
    <2>3. (h \in Tagged)' /\ h \notin Assembling /\ Answers(h) = {}
          /\ mode' # "Disabled" /\ Travelling(h) = {}
      <3>1. i \in Indexes(MaxCount)
        BY <2>1, Constants DEF Indexes
      <3>2. submissions'[h] \in Submissions
        BY <2>2, <3>1 DEF Submissions
      <3>. QED BY <1>2, <3>2, NoTagAssumption DEF HostInv, Modal, Fit, Tagged
    <2>4. Travelling(h)' = {r} /\ Going(h)' = {i} /\ Done(h)' = {}
      BY <2>2, <2>3 DEF Going, Done
    <2>5. Fit(h)'
      BY <2>2, <2>3, <2>4 DEF Fit
    <2>6. Counted(h)'
      BY <2>1, <2>2, <2>4, FS_EmptySet DEF Counted
    <2>7. (h \notin Assembling)'
      BY <2>3 DEF Assembling
    <2>8. Modal(h)'
      BY <2>3, <2>4, <2>7 DEF Modal
    <2>9. Staged(h)'
      BY <2>1, <2>2, <2>3, <2>4, <2>7 DEF Staged, Unanswered
    <2>. QED BY <2>3, <2>5, <2>6, <2>8, <2>9 DEF HostInv
  <1>. QED BY <1>1, <1>2

\* pop_response(): the tag whose only answer is taken is given back.
LEMMA PopHost ==
  ASSUME HostType, NEW h \in Hosts, HostInv(h), Answers(h) # {},
         generation'[h] = generation[h], generation[h] <= sequence',
         Travelling(h)' = Travelling(h), assemblies'[h] = assemblies[h],
         Answers(h)' = {}, submissions'[h] = NoTag
  PROVE  HostInv(h)' /\ submissions[h].completed >= submissions[h].count
  <1>1. h \in Tagged /\ h \notin Assembling
        /\ Done(h) = Indexes(submissions[h].count)
    BY DEF HostInv, Modal, Staged, HasAnswer
  <1>2. /\ Travelling(h) = {} /\ submissions[h].count \in Nat
        /\ submissions[h].completed = Cardinality(Done(h))
    BY <1>1, DoneFacts
  <1>3. submissions[h].completed = submissions[h].count
    BY <1>1, <1>2, IndexesCount
  <1>4. (h \notin Tagged)' /\ (h \notin Assembling)'
    BY <1>1 DEF Tagged, Assembling
  <1>. QED BY <1>2, <1>3, <1>4 DEF HostInv, Fit, Modal

\* What a collected response does to its host: completed is the number of
\* transactions done, and the assembly holds their parts.
LEMMA CollectEffect ==
  ASSUME HostType, NEW r \in Requests, NEW h \in Hosts, r.host = h,
         r \in Travelling(h), HostInv(h),
         Complete(h),
         IF RetainsHost THEN Aggregate(r) ELSE UNCHANGED <<assemblies, hostResponses>>
  PROVE  LET E == Done(h) \cup {r.index}
             n == submissions[h].count
         IN
         /\ h \in Tagged /\ Answers(h) = {}
         /\ r.index \notin Done(h) /\ E \in SUBSET Indexes(n)
         /\ r.index \in submissions[h].accepted
         /\ submissions' = [submissions EXCEPT ![h] =
              IF E = Indexes(n) /\ ~RetainsHost THEN NoTag
              ELSE [submissions[h] EXCEPT !.completed = Cardinality(E)]]
         /\ IF ~RetainsHost THEN UNCHANGED <<assemblies, hostResponses>>
            ELSE IF E = Indexes(n)
            THEN /\ hostResponses' = Append(hostResponses,
                                            HostResponse(h, n, PartsOf(h, E), TRUE))
                 /\ assemblies' = [assemblies EXCEPT ![h] = NoTag]
            ELSE /\ assemblies' = [assemblies EXCEPT ![h] =
                                     [count |-> n, parts |-> PartsOf(h, E)]]
                 /\ UNCHANGED hostResponses
  <1>. DEFINE D == Done(h)
              E == D \cup {r.index}
              n == submissions[h].count
  <1>1. /\ h \in Tagged /\ r.gen = generation[h] /\ r.count = n
        /\ r.index \in submissions[h].accepted /\ r.index \in Going(h)
    BY DEF HostInv, Fit, Going
  <1>2. /\ D \in SUBSET Indexes(n) /\ n \in Nat
        /\ submissions[h].completed = Cardinality(D)
        /\ D # Indexes(n)
    BY <1>1, DoneFacts
  <1>3. r.index \notin D /\ r.index \in Indexes(n)
    BY <1>1 DEF Done, HostInv, Counted
  <1>4. E \in SUBSET Indexes(n)
    BY <1>2, <1>3
  <1>5. Answers(h) = {} /\ Unanswered(h)
    BY <1>1, <1>2 DEF HostInv, Staged, HasAnswer
  <1>6. /\ IsFiniteSet(D) /\ IsFiniteSet(E) /\ Cardinality(E) \in Nat
        /\ Cardinality(D) \in Nat
        /\ Cardinality(E) = Cardinality(D) + 1
        /\ Cardinality(E) <= n /\ (Cardinality(E) = n <=> E = Indexes(n))
    <2>1. IsFiniteSet(D) /\ Cardinality(D) \in Nat
      <3>. HIDE DEF D
      <3>. QED BY <1>2, IndexesCount
    <2>2. Cardinality(E) = Cardinality(D) + 1
      <3>. HIDE DEF D
      <3>. QED BY <1>3, <2>1, FS_AddElement
    <2>3. /\ IsFiniteSet(E) /\ Cardinality(E) \in Nat /\ Cardinality(E) <= n
          /\ (Cardinality(E) = n <=> E = Indexes(n))
      <3>. HIDE DEF E
      <3>. QED BY <1>2, <1>4, IndexesCount
    <2>. QED BY <2>1, <2>2, <2>3
  <1>. HIDE DEF D, E
  <1>7. submissions' = [submissions EXCEPT ![h] =
          IF E = Indexes(n) /\ ~RetainsHost THEN NoTag
          ELSE [submissions[h] EXCEPT !.completed = Cardinality(E)]]
    <2>1. submissions[h].completed + 1 = Cardinality(E)
          /\ (Cardinality(E) >= n <=> E = Indexes(n))
      BY <1>2, <1>6
    <2>2. CASE E = Indexes(n) /\ ~RetainsHost
      BY <1>1, <2>1, <2>2 DEF Complete, FreeTag
    <2>3. CASE ~(E = Indexes(n) /\ ~RetainsHost)
      <3>1. submissions' = [submissions EXCEPT ![h].completed = Cardinality(E)]
        BY <1>1, <2>1, <2>3 DEF Complete
      <3>. QED BY <2>3, <3>1
    <2>. QED BY <2>2, <2>3
  <1>8. ASSUME RetainsHost
        PROVE  IF E = Indexes(n)
               THEN /\ hostResponses' = Append(hostResponses,
                                               HostResponse(h, n, PartsOf(h, E), TRUE))
                    /\ assemblies' = [assemblies EXCEPT ![h] = NoTag]
               ELSE /\ assemblies' = [assemblies EXCEPT ![h] =
                                        [count |-> n, parts |-> PartsOf(h, E)]]
                    /\ UNCHANGED hostResponses
    <2>. DEFINE old == IF h \notin Assembling THEN [count |-> r.count, parts |-> {}]
                       ELSE assemblies[h]
                parts == old.parts \cup {Part(r)}
    <2>1. old.count = n /\ old.parts = PartsOf(h, D)
      <3>1. CASE h \in Assembling
        BY <1>5, <3>1 DEF Unanswered, D
      <3>2. CASE h \notin Assembling
        BY <1>1, <1>5, <1>8, <3>2 DEF Unanswered, D, PartsOf
      <3>. QED BY <3>1, <3>2
    <2>2. Part(r) = [index |-> r.index, gen |-> generation[h]]
      BY <1>1 DEF Part
    <2>3. \A p \in old.parts : p.index # r.index
      BY <1>3, <2>1 DEF PartsOf
    <2>4. parts = PartsOf(h, E)
      BY <2>1, <2>2 DEF PartsOf, E
    <2>5. Cardinality(parts) = n <=> E = Indexes(n)
      BY <1>6, <2>4, PartsCount, ZenonT(60)
    <2>6. \/ /\ Cardinality(parts) = old.count
             /\ hostResponses' = Append(hostResponses,
                                        HostResponse(h, old.count, parts, TRUE))
             /\ assemblies' = [assemblies EXCEPT ![h] = NoTag]
          \/ /\ Cardinality(parts) # old.count
             /\ assemblies' = [assemblies EXCEPT ![h] =
                                 [count |-> old.count, parts |-> parts]]
             /\ UNCHANGED hostResponses
      <3>1. Aggregate(r) /\ old.count = r.count
        BY <1>1, <1>8, <2>1
      <3>. QED BY <2>3, <3>1 DEF Aggregate
    <2>. HIDE DEF old, parts
    <2>. QED BY <2>1, <2>4, <2>5, <2>6
  <1>. QED BY <1>1, <1>3, <1>4, <1>5, <1>7, <1>8 DEF E, D

-----------------------------------------------------------------------------
(* The steps *)

LEMMA TypeParts == IInv => TypeOK
  BY DEF IInv, TypeOK, ControlType, FlowOK, FlowType, HostType

LEMMA InitInv == Init => IInv
  <1>. SUFFICES ASSUME Init PROVE IInv
    OBVIOUS
  <1>1. ControlType /\ Turning
    BY SizesAssumption, Constants DEF Init, ControlType, Turning, Stacks, Modes
  <1>2. HostType
    BY Constants, NoTagAssumption DEF Init, HostType, Tagged
  <1>3. Queued = {} /\ Running = {} /\ Answered = {}
    BY DEF Init, Queued, Running, Answered, ToSet
  <1>4. FlowType
    <2>1. \A x \in Stacks : ingress[x] = <<>> /\ Len(ingress[x]) = 0
      BY DEF Init
    <2>2. \A c \in Controllers : finished[c] = <<>> /\ Len(finished[c]) = 0
      BY DEF Init
    <2>3. /\ ingress \in [Stacks -> Seq(Requests)]
          /\ finished \in [Controllers -> Seq(Requests)]
          /\ working \in [Controllers -> SUBSET Requests]
      BY DEF Init
    <2>4. started \in BOOLEAN /\ sequence \in 0 .. MaxAccepted
      <3>1. started = FALSE /\ sequence = 0
        BY DEF Init
      <3>2. sequence \in 0 .. MaxAccepted
        BY <3>1, Constants
      <3>3. started \in BOOLEAN
        BY <3>1
      <3>. QED BY <3>2, <3>3
    <2>. QED BY <2>1, <2>2, <2>3, <2>4, Constants DEF FlowType
  <1>5. FlowOK
    BY <1>3, <1>4 DEF Init, FlowOK, Placed, Apart, Typed, Fresh, Everywhere, ToSet, Distinct
  <1>6. ASSUME NEW h \in Hosts PROVE HostInv(h)
    <2>1. h \notin Tagged /\ h \notin Assembling
      BY DEF Init, Tagged, Assembling
    <2>2. Travelling(h) = {}
      BY <1>3, InEverywhere DEF Everywhere
    <2>3. Answers(h) = {}
      BY DEF Init, Answers, ToSet
    <2>. QED BY <2>1, <2>2, <2>3 DEF Init, HostInv, Fit, Modal
  <1>. QED BY <1>1, <1>2, <1>5, <1>6 DEF IInv, Init, Distinct

\* A step that moves no request.
LEMMA FlowFrame ==
  ASSUME FlowOK, UNCHANGED <<sequence, ingress, working, finished>>,
         started' \in BOOLEAN, started => started'
  PROVE  /\ FlowOK' /\ \A h \in Hosts : Travelling(h)' = Travelling(h)
         /\ sequence <= sequence' /\ sequence' \in Int
  <1>1. /\ Queued' = Queued /\ Running' = Running /\ Answered' = Answered
        /\ \A h \in Hosts : Travelling(h)' = Travelling(h)
    BY DEF Queued, Running, Answered, Travelling
  <1>2. FlowType' /\ Placed'
    BY DEF FlowOK, FlowType, Placed
  <1>3. Apart' /\ Typed' /\ Fresh'
    BY <1>1 DEF FlowOK, Apart, Typed, Fresh, Everywhere
  <1>4. sequence <= sequence' /\ sequence' \in Int
    BY Constants DEF FlowOK, FlowType
  <1>. QED BY <1>1, <1>2, <1>3, <1>4 DEF FlowOK

\* A step that leaves every host alone.
LEMMA OthersStep ==
  ASSUME IInv, ControlType', FlowOK', HostType', Turning',
         UNCHANGED <<submissions, assemblies, hostResponses, generation>>,
         sequence <= sequence', sequence' \in Int,
         \A h \in Hosts : Travelling(h)' = Travelling(h),
         started => started',
         \/ mode' = mode
         \/ Tagged = {}
         \/ ~started /\ mode' # "Disabled"
  PROVE  IInv'
  <1>1. ASSUME NEW h \in Hosts PROVE HostInv(h)'
    <2>1. Answers(h)' = Answers(h)
      BY DEF Answers
    <2>2. generation[h] <= sequence'
      <3>1. generation[h] \in Int /\ sequence \in Int /\ generation[h] <= sequence
        BY Constants DEF IInv, HostType, FlowOK, FlowType, HostInv
      <3>. QED BY <3>1
    <2>3. HostInv(h)
      BY DEF IInv
    <2>. QED BY <2>1, <2>2, <2>3, HostFrame
  <1>2. Distinct(hostResponses)'
    BY DEF IInv, Distinct
  <1>. QED BY <1>1, <1>2 DEF IInv

\* A step of tick() that moves no request.
LEMMA ControlStep ==
  ASSUME IInv, ControlType', Turning', started' \in BOOLEAN, started => started',
         UNCHANGED <<mode, sequence, ingress, working, finished, hostVars, generation>>
  PROVE  IInv'
  <1>1. HostType'
    BY DEF IInv, HostType, hostVars, Tagged
  <1>. QED BY <1>1, FlowFrame, OthersStep DEF IInv, hostVars

LEMMA TickSteps ==
  ASSUME IInv, \/ DrainAtEnd \/ StartTick \/ DispatchRefused \/ DispatchDone
               \/ WorkDone \/ CollectBlocked \/ CollectNext
  PROVE  IInv'
  <1>0. /\ phase \in {"idle", "dispatch", "work", "collect"}
        /\ started \in BOOLEAN /\ mode \in Modes
        /\ turn \in Stacks \cup Controllers /\ slots \in 0 .. DispatchWidth
        /\ phase = "dispatch" => turn \in Stacks
        /\ phase = "collect" => turn \in Controllers
        /\ phase \in {"dispatch", "work"} => started
        /\ 0 \in Stacks /\ 0 \in Controllers /\ 0 \in 0 .. DispatchWidth
    <2>1. 0 \in Stacks /\ 0 \in Channels
      BY Constants DEF Stacks, Channels
    <2>2. ControllerIndex(0, 0) = 0 /\ 0 \in 0 .. DispatchWidth
      BY Constants DEF ControllerIndex
    <2>3. 0 \in Controllers
      BY <2>1, <2>2, ControllerInRange
    <2>. QED BY <2>1, <2>2, <2>3 DEF IInv, ControlType, FlowOK, FlowType, Turning
  <1>1. CASE DrainAtEnd
    <2>1. ControlType' /\ Turning' /\ started' = started
      BY <1>0, <1>1 DEF DrainAtEnd, ControlType, Turning
    <2>. QED BY <1>0, <1>1, <2>1, ControlStep DEF DrainAtEnd
  <1>2. CASE StartTick
    <2>1. ControlType' /\ Turning' /\ started' = TRUE
      BY <1>0, <1>2 DEF StartTick, ControlType, Turning
    <2>. QED BY <1>0, <1>2, <2>1, ControlStep DEF StartTick
  <1>3. CASE DispatchRefused \/ DispatchDone
    <2>1. NextStack /\ phase = "dispatch"
          /\ UNCHANGED <<mode, sequence, ingress, working, finished, hostVars, generation>>
      BY <1>3 DEF DispatchRefused, DispatchDone
    <2>2. ControlType' /\ Turning' /\ started' = started
      BY <1>0, <2>1 DEF NextStack, ControlType, Turning
    <2>. QED BY <1>0, <2>1, <2>2, ControlStep
  <1>4. CASE WorkDone
    <2>1. ControlType' /\ Turning' /\ started' = started
      BY <1>0, <1>4 DEF WorkDone, ControlType, Turning
    <2>. QED BY <1>0, <1>4, <2>1, ControlStep DEF WorkDone
  <1>5. CASE CollectBlocked
    <2>1. ControlType' /\ Turning' /\ started' = started
      BY <1>0, <1>5 DEF CollectBlocked, EndTick, ControlType, Turning
    <2>. QED BY <1>0, <1>5, <2>1, ControlStep DEF CollectBlocked
  <1>6. CASE CollectNext
    <2>1. ControlType' /\ Turning' /\ started' = started
      BY <1>0, <1>6 DEF CollectNext, EndTick, ControlType, Turning
    <2>. QED BY <1>0, <1>6, <2>1, ControlStep DEF CollectNext
  <1>. QED BY <1>1, <1>2, <1>3, <1>4, <1>5, <1>6

LEMMA ModeSteps ==
  ASSUME IInv, "Disabled" \notin SetModes, NEW m \in SetModes, SetMode(m)
  PROVE  IInv'
  <1>1. /\ UNCHANGED <<tickVars, sequence, ingress, working, finished, hostVars, generation>>
        /\ mode' = m /\ m \in Modes /\ m # "Disabled"
        /\ ~started \/ Tagged = {}
    BY SizesAssumption DEF SetMode, Quiescent
  <1>2. ControlType' /\ Turning'
    BY <1>1 DEF IInv, ControlType, Turning, tickVars
  <1>3. HostType'
    BY <1>1 DEF IInv, HostType, hostVars, Tagged
  <1>4. /\ FlowOK' /\ \A h \in Hosts : Travelling(h)' = Travelling(h)
        /\ sequence <= sequence' /\ sequence' \in Int
    BY <1>1, FlowFrame DEF IInv, FlowOK, FlowType, tickVars
  <1>. QED BY <1>1, <1>2, <1>3, <1>4, OthersStep DEF hostVars, tickVars

LEMMA MaintenanceStep ==
  ASSUME IInv, NEW stack \in Stacks, NEW channel \in Channels,
         SubmitMaintenance(stack, channel)
  PROVE  IInv'
  <1>. DEFINE r == Request("Maintenance", NoTag, 0, 1, 0, stack, channel, 0)
  <1>1. /\ r \in Requests /\ r.seq = sequence /\ r.type = "Maintenance"
        /\ r.stack = stack
    <2>1. /\ 0 \in Indexes(MaxCount) /\ 1 \in 1 .. MaxCount
          /\ 0 \in 0 .. MaxAccepted /\ sequence \in 0 .. MaxAccepted - 1
      BY Constants DEF Indexes, SubmitMaintenance, HasRoom, IInv, FlowOK, FlowType
    <2>. QED BY <2>1 DEF Request, Requests
  <1>2. /\ HasRoom(stack) /\ Accept(r)
        /\ UNCHANGED <<tickVars, mode, working, finished, hostVars, generation>>
    BY DEF SubmitMaintenance
  <1>. HIDE DEF r
  <1>3. /\ FlowOK' /\ Everywhere' = Everywhere \cup {r} /\ sequence' = sequence + 1
    BY <1>1, <1>2, AcceptFlow DEF IInv, tickVars
  <1>4. \A h \in Hosts : Travelling(h)' = Travelling(h)
    <2>1. TAKE h \in Hosts
    <2>2. Travelling(h) = {q \in Everywhere : q.type = "Data" /\ q.host = h}
      BY InEverywhere
    <2>3. Travelling(h)' = {q \in Everywhere' : q.type = "Data" /\ q.host = h}
      BY DEF Travelling, Everywhere, Queued, Running, Answered
    <2>. QED BY <1>1, <1>3, <2>2, <2>3
  <1>5. ControlType' /\ Turning' /\ HostType'
    BY <1>2 DEF IInv, ControlType, Turning, HostType, tickVars, hostVars, Tagged
  <1>6. sequence <= sequence' /\ sequence' \in Int
    BY <1>3, Constants DEF IInv, FlowOK, FlowType
  <1>. QED BY <1>2, <1>3, <1>4, <1>5, <1>6, OthersStep DEF hostVars, tickVars

LEMMA DispatchStep ==
  ASSUME IInv, Dispatch
  PROVE  IInv'
  <1>1. FlowOK' /\ Everywhere' = Everywhere
    BY DispatchFlow DEF IInv
  <1>2. /\ slots < DispatchWidth /\ slots' = slots + 1
        /\ UNCHANGED <<phase, started, turn, mode, sequence, finished, hostVars, generation>>
    BY DEF Dispatch
  <1>3. \A h \in Hosts : Travelling(h)' = Travelling(h)
    <2>1. TAKE h \in Hosts
    <2>2. Travelling(h) = {q \in Everywhere : q.type = "Data" /\ q.host = h}
      BY InEverywhere
    <2>3. Travelling(h)' = {q \in Everywhere' : q.type = "Data" /\ q.host = h}
      BY DEF Travelling, Everywhere, Queued, Running, Answered
    <2>. QED BY <1>1, <2>2, <2>3
  <1>4. ControlType' /\ Turning' /\ HostType'
    <2>1. slots' \in 0 .. DispatchWidth
      BY <1>2, Constants DEF IInv, ControlType
    <2>. QED
      BY <1>2, <2>1 DEF IInv, ControlType, Turning, HostType, hostVars, Tagged
  <1>5. sequence <= sequence' /\ sequence' \in Int
    BY <1>2, Constants DEF IInv, FlowOK, FlowType
  <1>. QED BY <1>1, <1>2, <1>3, <1>4, <1>5, OthersStep DEF hostVars

LEMMA FinishStep ==
  ASSUME IInv, NEW c \in Controllers, Finish(c)
  PROVE  IInv'
  <1>1. FlowOK' /\ \A h \in Hosts : Travelling(h)' = Travelling(h)
    BY FinishFlow DEF IInv
  <1>2. UNCHANGED <<tickVars, mode, sequence, ingress, hostVars, generation>>
    BY DEF Finish
  <1>3. ControlType' /\ Turning' /\ HostType'
    BY <1>2 DEF IInv, ControlType, Turning, HostType, tickVars, hostVars, Tagged
  <1>4. sequence <= sequence' /\ sequence' \in Int
    BY <1>2, Constants DEF IInv, FlowOK, FlowType
  <1>. QED BY <1>1, <1>2, <1>3, <1>4, OthersStep DEF hostVars, tickVars

LEMMA PopTransactionStep ==
  ASSUME IInv, PopTransactionResponse
  PROVE  IInv'
  <1>1. /\ transactionResponses # <<>>
        /\ transactionResponses' = Tail(transactionResponses)
        /\ UNCHANGED <<tickVars, mode, sequence, ingress, working, finished,
                       submissions, assemblies, hostResponses, generation>>
    BY DEF PopTransactionResponse
  <1>2. transactionResponses' \in Seq(Requests)
    BY <1>1 DEF IInv, HostType
  <1>3. ControlType' /\ Turning' /\ HostType'
    BY <1>1, <1>2 DEF IInv, ControlType, Turning, HostType, tickVars, Tagged
  <1>4. /\ FlowOK' /\ \A h \in Hosts : Travelling(h)' = Travelling(h)
        /\ sequence <= sequence' /\ sequence' \in Int
    BY <1>1, FlowFrame DEF IInv, FlowOK, FlowType, tickVars
  <1>. QED BY <1>1, <1>3, <1>4, OthersStep DEF tickVars

\* try_submit() without room may still turn host responses on.
LEMMA SubmitRefused ==
  ASSUME IInv, NEW h \in Hosts, NEW count \in 1 .. MaxCount, NEW i,
         NEW stack \in Stacks, NEW channel \in Channels, NEW class \in Classes,
         TrySubmit(h, i, count, stack, channel, class), ~HasRoom(stack)
  PROVE  IInv'
  <1>1. /\ mode' = IF mode = "Disabled" THEN "HostOnly" ELSE mode
        /\ UNCHANGED <<ingress, sequence, submissions, generation, tickVars, working,
                       finished, assemblies, transactionResponses, hostResponses>>
    BY DEF TrySubmit
  <1>2. ControlType' /\ Turning'
    BY <1>1 DEF IInv, ControlType, Turning, tickVars, Modes
  <1>3. HostType'
    BY <1>1 DEF IInv, HostType, Tagged
  <1>4. mode = "Disabled" => Tagged = {}
    BY DEF IInv, HostInv, Modal, Tagged
  <1>5. /\ FlowOK' /\ \A g \in Hosts : Travelling(g)' = Travelling(g)
        /\ sequence <= sequence' /\ sequence' \in Int
    BY <1>1, FlowFrame DEF IInv, FlowOK, FlowType, tickVars
  <1>. QED BY <1>1, <1>2, <1>3, <1>4, <1>5, OthersStep DEF tickVars

LEMMA SubmitAccepted ==
  ASSUME IInv, NEW h \in Hosts, NEW count \in 1 .. MaxCount, NEW i \in Indexes(MaxCount),
         NEW stack \in Stacks, NEW channel \in Channels, NEW class \in Classes,
         TrySubmit(h, i, count, stack, channel, class), HasRoom(stack)
  PROVE  IInv'
  <1>. DEFINE gen == generation[h] + (IF h \in Tagged THEN 0 ELSE 1)
              r == Request("Data", h, i, count, gen, stack, channel, class)
  <1>1. /\ MaySubmit(h, i, count) /\ Accept(r) /\ Record(h, i, count)
        /\ mode' = IF mode = "Disabled" THEN "HostOnly" ELSE mode
        /\ generation' = [generation EXCEPT ![h] = gen]
        /\ UNCHANGED <<tickVars, working, finished, assemblies,
                       transactionResponses, hostResponses>>
    BY DEF TrySubmit
  <1>2. /\ sequence \in 0 .. MaxAccepted - 1 /\ generation[h] \in 0 .. MaxAccepted
        /\ generation[h] <= sequence /\ gen \in 0 .. MaxAccepted /\ gen <= sequence + 1
        /\ generation[h] <= gen
    <2>1. /\ sequence \in 0 .. MaxAccepted /\ sequence < MaxAccepted
          /\ generation[h] \in 0 .. MaxAccepted /\ generation[h] <= sequence
      BY DEF IInv, FlowOK, FlowType, HasRoom, HostType, HostInv
    <2>. QED BY <2>1, Constants
  <1>3. /\ r \in Requests /\ r.seq = sequence /\ r.type = "Data" /\ r.host = h
        /\ r.stack = stack /\ r.index = i /\ r.count = count /\ r.gen = gen
    BY <1>2 DEF Request, Requests
  <1>. HIDE DEF gen, r
  <1>4. /\ FlowOK' /\ Everywhere' = Everywhere \cup {r} /\ sequence' = sequence + 1
    BY <1>1, <1>3, AcceptFlow DEF IInv, tickVars
  <1>5. \A g \in Hosts : Travelling(g)' =
          Travelling(g) \cup (IF g = h THEN {r} ELSE {})
    <2>1. TAKE g \in Hosts
    <2>2. Travelling(g) = {q \in Everywhere : q.type = "Data" /\ q.host = g}
      BY InEverywhere
    <2>3. Travelling(g)' = {q \in Everywhere' : q.type = "Data" /\ q.host = g}
      BY DEF Travelling, Everywhere, Queued, Running, Answered
    <2>. QED BY <1>3, <1>4, <2>2, <2>3
  <1>6. generation'[h] = gen /\ generation' \in [Hosts -> 0 .. MaxAccepted]
        /\ \A g \in Hosts : g # h => generation'[g] = generation[g]
    BY <1>1, <1>2 DEF IInv, HostType
  <1>7. \A g \in Hosts : g # h => submissions'[g] = submissions[g]
    BY <1>1 DEF Record, IInv, HostType
  <1>8. /\ submissions'[h] \in Submissions /\ submissions'[h].completed <= MaxCount
        /\ submissions' \in [Hosts -> Submissions \cup {NoTag}]
    <2>1. CASE h \in Tagged
      <3>. DEFINE old == submissions[h]
                  new == [old EXCEPT !.accepted = old.accepted \cup {i}]
      <3>1. old \in Submissions /\ old.completed <= MaxCount
        BY <2>1, TaggedType DEF IInv, HostType
      <3>2. new \in Submissions /\ new.completed = old.completed
        BY <3>1 DEF Submissions
      <3>3. submissions' = [submissions EXCEPT ![h] = new]
        BY <1>1, <2>1 DEF Record
      <3>. HIDE DEF new
      <3>. QED BY <3>1, <3>2, <3>3 DEF IInv, HostType
    <2>2. CASE h \notin Tagged
      <3>. DEFINE new == [count |-> count, accepted |-> {i}, completed |-> 0]
      <3>1. new \in Submissions /\ new.completed = 0
        BY DEF Submissions
      <3>2. submissions' = [submissions EXCEPT ![h] = new]
        BY <1>1, <2>2 DEF Record
      <3>. HIDE DEF new
      <3>. QED BY <3>1, <3>2, Constants DEF IInv, HostType
    <2>. QED BY <2>1, <2>2
  <1>9. HostType'
    <2>1. \A g \in Tagged' : submissions'[g].completed <= MaxCount
      BY <1>7, <1>8 DEF IInv, HostType, Tagged
    <2>. QED BY <1>1, <1>6, <1>8, <2>1 DEF IInv, HostType
  <1>10. ControlType' /\ Turning'
    BY <1>1 DEF IInv, ControlType, Turning, tickVars, Modes
  <1>11. \A g \in Hosts : Answers(g)' = Answers(g)
    BY <1>1 DEF Answers
  <1>12. HostInv(h)'
    <2>1. generation' = [generation EXCEPT ![h] =
                           generation[h] + (IF h \in Tagged THEN 0 ELSE 1)]
      BY <1>1 DEF gen
    <2>2. /\ generation'[h] <= sequence' /\ r.gen = generation'[h]
          /\ Travelling(h)' = Travelling(h) \cup {r}
          /\ assemblies'[h] = assemblies[h] /\ started' = started
      BY <1>1, <1>2, <1>3, <1>4, <1>5, <1>6 DEF tickVars
    <2>3. HostType /\ HostInv(h)
      BY DEF IInv
    <2>. QED BY <1>1, <1>3, <1>11, <2>1, <2>2, <2>3, SubmitHost
  <1>13. ASSUME NEW g \in Hosts, g # h PROVE HostInv(g)'
    <2>1. generation[g] <= sequence'
      <3>1. generation[g] \in Int /\ generation[g] <= sequence
        BY DEF IInv, HostType, HostInv
      <3>. QED BY <1>2, <1>4, <3>1
    <2>2. /\ submissions'[g] = submissions[g] /\ assemblies'[g] = assemblies[g]
          /\ generation'[g] = generation[g] /\ Travelling(g)' = Travelling(g)
          /\ started' = started
      BY <1>1, <1>5, <1>6, <1>7, <1>13 DEF tickVars
    <2>3. HostInv(g)
      BY DEF IInv
    <2>4. mode' = mode \/ g \notin Tagged
      BY <1>1, <2>3 DEF HostInv, Modal
    <2>. QED BY <1>11, <2>1, <2>2, <2>3, <2>4, HostFrame
  <1>14. Distinct(hostResponses)'
    BY <1>1 DEF IInv, Distinct
  <1>. QED BY <1>4, <1>9, <1>10, <1>12, <1>13, <1>14 DEF IInv

LEMMA PopStep ==
  ASSUME IInv, PopResponse
  PROVE  IInv'
  <1>0. PICK a, h : a = Head(hostResponses) /\ h = a.host
    OBVIOUS
  <1>1. /\ hostResponses # <<>> /\ hostResponses' = Tail(hostResponses)
        /\ UNCHANGED <<tickVars, mode, sequence, ingress, working, finished,
                       assemblies, transactionResponses, generation>>
        /\ IF h \in Tagged /\ submissions[h].completed >= submissions[h].count
           THEN FreeTag(h) ELSE UNCHANGED submissions
    BY <1>0 DEF PopResponse
  <1>2. /\ a \in HostResponseType /\ a = hostResponses[1] /\ 1 \in DOMAIN hostResponses
        /\ hostResponses' \in Seq(HostResponseType)
        /\ ToSet(hostResponses') = ToSet(hostResponses) \ {a}
        /\ Distinct(hostResponses')
    BY <1>0, <1>1, TailElements DEF IInv, HostType
  <1>3. h \in Hosts /\ a \in Answers(h) /\ a.host = h
    BY <1>0, <1>2 DEF HostResponseType, Answers, ToSet
  <1>4. HostInv(h) /\ HostType
    BY <1>3 DEF IInv
  <1>5. h \in Tagged /\ Answers(h) = {a}
    BY <1>3, <1>4 DEF HostInv, Modal, Staged, HasAnswer
  <1>6. /\ FlowOK' /\ \A g \in Hosts : Travelling(g)' = Travelling(g)
        /\ sequence <= sequence' /\ sequence' \in Int /\ sequence' = sequence
    BY <1>1, FlowFrame DEF IInv, FlowOK, FlowType, tickVars
  <1>7. \A g \in Hosts : generation[g] <= sequence'
    BY <1>6 DEF IInv, HostInv
  <1>8. Answers(h)' = {} /\ \A g \in Hosts : g # h => Answers(g)' = Answers(g)
    <2>1. ASSUME NEW g \in Hosts
          PROVE  Answers(g)' = Answers(g) \ {a}
      BY <1>2 DEF Answers
    <2>2. ASSUME NEW g \in Hosts, g # h PROVE a \notin Answers(g)
      BY <1>3, <2>2 DEF Answers
    <2>. QED BY <1>3, <1>5, <2>1, <2>2
  <1>9. submissions[h].completed >= submissions[h].count
    <2>1. Done(h) = Indexes(submissions[h].count)
      BY <1>4, <1>5 DEF HostInv, Staged, HasAnswer
    <2>. QED BY <1>4, <1>5, <2>1, DoneFacts, IndexesCount
  <1>10. submissions' = [submissions EXCEPT ![h] = NoTag]
    BY <1>1, <1>5, <1>9 DEF FreeTag
  <1>11. /\ submissions' \in [Hosts -> Submissions \cup {NoTag}]
         /\ submissions'[h] = NoTag
         /\ \A g \in Hosts : g # h => submissions'[g] = submissions[g]
    BY <1>3, <1>4, <1>10 DEF HostType
  <1>12. HostType'
    <2>1. \A g \in Tagged' : submissions'[g].completed <= MaxCount
      BY <1>4, <1>11 DEF HostType, Tagged
    <2>. QED BY <1>1, <1>2, <1>4, <1>11, <2>1 DEF HostType
  <1>13. ControlType' /\ Turning'
    BY <1>1 DEF IInv, ControlType, Turning, tickVars
  <1>14. HostInv(h)'
    BY <1>1, <1>3, <1>4, <1>6, <1>7, <1>8, <1>11, PopHost
  <1>15. ASSUME NEW g \in Hosts, g # h PROVE HostInv(g)'
    <2>1. HostInv(g)
      BY DEF IInv
    <2>. QED
      BY <1>1, <1>6, <1>7, <1>8, <1>11, <1>15, <2>1, HostFrame DEF tickVars
  <1>. QED BY <1>2, <1>6, <1>12, <1>13, <1>14, <1>15 DEF IInv

LEMMA PartsType ==
  ASSUME HostType, NEW h \in Tagged,
         NEW D \in SUBSET Indexes(submissions[h].count)
  PROVE  /\ [count |-> submissions[h].count, parts |-> PartsOf(h, D)] \in Assemblies
         /\ HostResponse(h, submissions[h].count, PartsOf(h, D), TRUE)
              \in HostResponseType
  <1>1. /\ submissions[h].count \in 1 .. MaxCount /\ generation[h] \in 0 .. MaxAccepted
        /\ h \in Hosts
    BY TaggedType
  <1>2. Indexes(submissions[h].count) \subseteq Indexes(MaxCount)
    BY <1>1, Constants DEF Indexes
  <1>3. PartsOf(h, D) \in SUBSET Parts
    BY <1>1, <1>2 DEF PartsOf, Parts
  <1>. QED
    BY <1>1, <1>3 DEF Assemblies, HostResponse, HostResponseType

\* The invariant of the host whose response is collected.
LEMMA CollectHost ==
  ASSUME HostType, NEW r \in Requests, NEW h \in Hosts, r.host = h,
         r \in Travelling(h), HostInv(h), started, HostType',
         Complete(h),
         IF RetainsHost THEN Aggregate(r) ELSE UNCHANGED <<assemblies, hostResponses>>,
         Travelling(h)' = Travelling(h) \ {r}, generation' = generation,
         mode' = mode, started' = started, sequence' = sequence
  PROVE  HostInv(h)'
  <1>. DEFINE E == Done(h) \cup {r.index}
              n == submissions[h].count
  <1>1. /\ h \in Tagged /\ Answers(h) = {}
        /\ r.index \notin Done(h) /\ E \in SUBSET Indexes(n)
        /\ r.index \in submissions[h].accepted
        /\ submissions' = [submissions EXCEPT ![h] =
             IF E = Indexes(n) /\ ~RetainsHost THEN NoTag
             ELSE [submissions[h] EXCEPT !.completed = Cardinality(E)]]
        /\ IF ~RetainsHost THEN UNCHANGED <<assemblies, hostResponses>>
           ELSE IF E = Indexes(n)
           THEN /\ hostResponses' = Append(hostResponses,
                                           HostResponse(h, n, PartsOf(h, E), TRUE))
                /\ assemblies' = [assemblies EXCEPT ![h] = NoTag]
           ELSE /\ assemblies' = [assemblies EXCEPT ![h] =
                                    [count |-> n, parts |-> PartsOf(h, E)]]
                /\ UNCHANGED hostResponses
    BY CollectEffect
  <1>2. /\ submissions[h] \in Submissions /\ n \in Nat
        /\ submissions[h].accepted \subseteq Indexes(n)
    BY <1>1, TaggedType, Constants DEF HostInv, Counted
  <1>3. /\ Going(h)' = Going(h) \ {r.index} /\ Going(h) \subseteq submissions[h].accepted
        /\ submissions[h].accepted \ Going(h)' = E
    <2>1. \A q \in Travelling(h) : q.index = r.index => q = r
      BY DEF HostInv, Fit
    <2>2. Going(h)' = Going(h) \ {r.index}
      BY <2>1 DEF Going
    <2>3. Going(h) \subseteq submissions[h].accepted
      BY DEF Going, HostInv, Fit
    <2>. QED BY <1>1, <2>2, <2>3 DEF Done
  <1>4. RetainsHost' = RetainsHost
    BY DEF RetainsHost
  <1>5. CASE E = Indexes(n) /\ ~RetainsHost
    <2>1. submissions'[h] = NoTag /\ (h \notin Tagged)'
      BY <1>1, <1>5 DEF HostType, Tagged
    <2>2. Travelling(h)' = {}
      <3>1. Going(h)' = {}
        BY <1>2, <1>3, <1>5
      <3>. QED BY <3>1 DEF Going
    <2>3. (h \notin Assembling)' /\ Answers(h)' = {}
      BY <1>1, <1>5 DEF HostInv, Modal, Assembling, Answers
    <2>. QED BY <2>1, <2>2, <2>3 DEF HostInv, Fit, Modal
  <1>6. CASE ~(E = Indexes(n) /\ ~RetainsHost)
    <2>1. submissions'[h] = [submissions[h] EXCEPT !.completed = Cardinality(E)]
      <3>. DEFINE new == [submissions[h] EXCEPT !.completed = Cardinality(E)]
      <3>1. submissions' = [submissions EXCEPT ![h] = new]
        BY <1>1, <1>6
      <3>. HIDE DEF new
      <3>2. submissions'[h] = new
        BY <3>1 DEF HostType
      <3>. QED BY <3>2 DEF new
    <2>2. /\ submissions'[h].accepted = submissions[h].accepted
          /\ submissions'[h].count = n
          /\ submissions'[h].completed = Cardinality(E)
      BY <1>2, <2>1 DEF Submissions
    <2>3. (h \in Tagged)'
      <3>1. IsFiniteSet(E) /\ Cardinality(E) \in Nat
        <4>. HIDE DEF E
        <4>. QED BY <1>1, <1>2, IndexesCount
      <3>2. submissions'[h] \in Submissions
        <4>. HIDE DEF E
        <4>. QED BY <1>2, <2>1, <3>1 DEF Submissions
      <3>. QED BY <3>2, NoTagAssumption DEF Tagged
    <2>4. Done(h)' = E
      BY <1>3, <2>2 DEF Done
    <2>5. Fit(h)'
      BY <2>2, <2>3 DEF HostInv, Fit
    <2>6. Counted(h)'
      BY <1>2, <2>2, <2>4 DEF Counted
    <2>7. mode # "Disabled"
      BY <1>1 DEF HostInv, Modal
    <2>8. \A D : PartsOf(h, D)' = PartsOf(h, D)
      BY DEF PartsOf
    <2>9. CASE ~RetainsHost
      <3>1. (h \notin Assembling)' /\ Answers(h)' = {} /\ E # Indexes(n)
        BY <1>1, <1>6, <2>9 DEF HostInv, Modal, Assembling, Answers
      <3>2. Modal(h)' /\ Staged(h)'
        BY <1>4, <2>2, <2>4, <2>7, <2>9, <3>1 DEF Modal, Staged, Unanswered
      <3>. QED BY <2>3, <2>5, <2>6, <3>2 DEF HostInv
    <2>10. CASE RetainsHost /\ E # Indexes(n)
      <3>. DEFINE new == [count |-> n, parts |-> PartsOf(h, E)]
      <3>1. Answers(h)' = {} /\ assemblies' = [assemblies EXCEPT ![h] = new]
        BY <1>1, <2>10 DEF Answers
      <3>2. assemblies'[h] = new
        <4>. HIDE DEF new
        <4>. QED BY <3>1 DEF HostType
      <3>3. assemblies'[h].count = n /\ assemblies'[h].parts = PartsOf(h, E)
        BY <3>2
      <3>4. (h \in Assembling)'
        <4>1. new \in Assemblies
          <5>. HIDE DEF E
          <5>. QED BY <1>1, PartsType
        <4>. QED BY <3>2, <4>1, NoTagAssumption DEF Assembling
      <3>5. Staged(h)'
        BY <1>4, <2>2, <2>4, <2>8, <2>10, <3>1, <3>3, <3>4 DEF Staged, Unanswered
      <3>6. Modal(h)'
        BY <1>4, <2>3, <2>7, <2>10 DEF Modal
      <3>. QED BY <2>3, <2>5, <2>6, <3>5, <3>6 DEF HostInv
    <2>11. CASE RetainsHost /\ E = Indexes(n)
      <3>. DEFINE a == HostResponse(h, n, PartsOf(h, E), TRUE)
      <3>1. hostResponses' = Append(hostResponses, a) /\ assemblies'[h] = NoTag
        BY <1>1, <2>11, ZenonT(60) DEF HostType
      <3>2. hostResponses \in Seq(HostResponseType \cup {a}) /\ a.host = h
        BY DEF HostType, HostResponse
      <3>3. ToSet(hostResponses') = ToSet(hostResponses) \cup {a}
        <4>. HIDE DEF a
        <4>. QED BY <3>1, <3>2, AppendElements
      <3>4. Answers(h)' = {a}
        BY <1>1, <3>2, <3>3 DEF Answers
      <3>5. a = WholeAnswer(h)'
        BY <2>2, <2>8, <2>11 DEF WholeAnswer, HostResponse
      <3>6. (h \notin Assembling)'
        BY <3>1 DEF Assembling
      <3>7. Staged(h)'
        BY <2>2, <2>4, <2>11, <3>4, <3>5, <3>6 DEF Staged, HasAnswer
      <3>8. Modal(h)'
        BY <1>4, <2>3, <2>7, <2>11 DEF Modal
      <3>. QED BY <2>3, <2>5, <2>6, <3>7, <3>8 DEF HostInv
    <2>. QED BY <2>9, <2>10, <2>11
  <1>. QED BY <1>5, <1>6

LEMMA CollectStep ==
  ASSUME IInv, Collect
  PROVE  IInv'
  <1>0. PICK r, h : r = Head(finished[turn]) /\ h = r.host
    OBVIOUS
  <1>1. /\ FlowOK' /\ started /\ r \in Requests /\ r \in Everywhere
        /\ r.type = "Data" /\ h \in Hosts /\ r.host = h
        /\ Everywhere' = Everywhere \ {r}
    BY <1>0, CollectFlow DEF IInv
  <1>2. /\ Complete(h)
        /\ IF RetainsTransactions
           THEN transactionResponses' = Append(transactionResponses, r)
           ELSE UNCHANGED transactionResponses
        /\ IF RetainsHost THEN Aggregate(r)
           ELSE UNCHANGED <<assemblies, hostResponses>>
        /\ UNCHANGED <<tickVars, mode, sequence, ingress, working, generation>>
    BY <1>0 DEF Collect
  <1>3. \A g \in Hosts : Travelling(g)' =
          Travelling(g) \ (IF g = h THEN {r} ELSE {})
    <2>1. TAKE g \in Hosts
    <2>2. Travelling(g) = {q \in Everywhere : q.type = "Data" /\ q.host = g}
      BY InEverywhere
    <2>3. Travelling(g)' = {q \in Everywhere' : q.type = "Data" /\ q.host = g}
      BY DEF Travelling, Everywhere, Queued, Running, Answered
    <2>. QED BY <1>1, <2>2, <2>3
  <1>4. r \in Travelling(h)
    BY <1>1, InEverywhere
  <1>5. HostInv(h) /\ HostType
    BY <1>1 DEF IInv
  <1>. DEFINE E == Done(h) \cup {r.index}
              n == submissions[h].count
  <1>6. /\ h \in Tagged /\ Answers(h) = {} /\ E \in SUBSET Indexes(n)
        /\ submissions' = [submissions EXCEPT ![h] =
             IF E = Indexes(n) /\ ~RetainsHost THEN NoTag
             ELSE [submissions[h] EXCEPT !.completed = Cardinality(E)]]
        /\ IF ~RetainsHost THEN UNCHANGED <<assemblies, hostResponses>>
           ELSE IF E = Indexes(n)
           THEN /\ hostResponses' = Append(hostResponses,
                                           HostResponse(h, n, PartsOf(h, E), TRUE))
                /\ assemblies' = [assemblies EXCEPT ![h] = NoTag]
           ELSE /\ assemblies' = [assemblies EXCEPT ![h] =
                                    [count |-> n, parts |-> PartsOf(h, E)]]
                /\ UNCHANGED hostResponses
    BY <1>1, <1>2, <1>4, <1>5, CollectEffect
  <1>. HIDE DEF E
  <1>7. /\ submissions[h] \in Submissions /\ n \in Nat /\ n <= MaxCount
        /\ Cardinality(E) \in Nat /\ Cardinality(E) <= n
    <2>1. submissions[h] \in Submissions /\ n \in Nat /\ n <= MaxCount
      BY <1>5, <1>6, TaggedType, Constants
    <2>. QED BY <1>6, <2>1, IndexesCount
  <1>8. /\ [count |-> n, parts |-> PartsOf(h, E)] \in Assemblies
        /\ HostResponse(h, n, PartsOf(h, E), TRUE) \in HostResponseType
    BY <1>5, <1>6, PartsType
  <1>9. /\ submissions' \in [Hosts -> Submissions \cup {NoTag}]
        /\ \A g \in Tagged' : submissions'[g].completed <= MaxCount
        /\ \A g \in Hosts : g # h => submissions'[g] = submissions[g]
    <2>. DEFINE new == IF E = Indexes(n) /\ ~RetainsHost THEN NoTag
                       ELSE [submissions[h] EXCEPT !.completed = Cardinality(E)]
    <2>1. new = NoTag \/ (new \in Submissions /\ new.completed <= MaxCount)
      <3>. DEFINE m == Cardinality(E)
      <3>1. m \in Nat /\ m <= MaxCount
        BY <1>7, Constants
      <3>. HIDE DEF m
      <3>2. [submissions[h] EXCEPT !.completed = m] \in Submissions
            /\ [submissions[h] EXCEPT !.completed = m].completed = m
        BY <1>7, <3>1 DEF Submissions
      <3>. QED BY <3>1, <3>2 DEF m
    <2>2. submissions' = [submissions EXCEPT ![h] = new]
      BY <1>6
    <2>. HIDE DEF new
    <2>3. submissions' \in [Hosts -> Submissions \cup {NoTag}]
          /\ submissions'[h] = new
          /\ \A g \in Hosts : g # h => submissions'[g] = submissions[g]
      BY <1>1, <1>5, <2>1, <2>2 DEF HostType
    <2>. QED BY <1>5, <2>1, <2>3 DEF HostType, Tagged
  <1>10. /\ assemblies' \in [Hosts -> Assemblies \cup {NoTag}]
         /\ \A g \in Hosts : g # h => assemblies'[g] = assemblies[g]
    <2>. DEFINE new == [count |-> n, parts |-> PartsOf(h, E)]
    <2>1. new \in Assemblies
      BY <1>8
    <2>2. \/ UNCHANGED assemblies
          \/ assemblies' = [assemblies EXCEPT ![h] = NoTag]
          \/ assemblies' = [assemblies EXCEPT ![h] = new]
      BY <1>6
    <2>. HIDE DEF new
    <2>. QED BY <1>5, <2>1, <2>2 DEF HostType
  <1>11. /\ hostResponses' \in Seq(HostResponseType) /\ Distinct(hostResponses')
         /\ \A g \in Hosts : g # h => Answers(g)' = Answers(g)
    <2>. DEFINE a == HostResponse(h, n, PartsOf(h, E), TRUE)
    <2>1. a \in HostResponseType /\ a.host = h
      BY <1>8 DEF HostResponse
    <2>2. UNCHANGED hostResponses \/ hostResponses' = Append(hostResponses, a)
      BY <1>6
    <2>. HIDE DEF a
    <2>3. hostResponses \in Seq(HostResponseType) /\ Distinct(hostResponses)
          /\ a \notin ToSet(hostResponses)
      BY <1>5, <1>6, <2>1 DEF IInv, HostType, Answers
    <2>4. CASE UNCHANGED hostResponses
      BY <2>3, <2>4 DEF Answers
    <2>5. CASE hostResponses' = Append(hostResponses, a)
      <3>1. /\ hostResponses' \in Seq(HostResponseType) /\ Distinct(hostResponses')
            /\ ToSet(hostResponses') = ToSet(hostResponses) \cup {a}
        BY <2>1, <2>3, <2>5, AppendElements
      <3>. QED BY <2>1, <3>1 DEF Answers
    <2>. QED BY <2>2, <2>4, <2>5
  <1>12. HostType'
    <2>1. transactionResponses' \in Seq(Requests)
      <3>1. transactionResponses \in Seq(Requests)
        BY <1>5 DEF HostType
      <3>2. Append(transactionResponses, r) \in Seq(Requests)
        BY <1>1, <3>1
      <3>. QED BY <1>2, <3>1, <3>2
    <2>. QED BY <1>2, <1>5, <1>9, <1>10, <1>11, <2>1 DEF HostType
  <1>13. ControlType' /\ Turning'
    BY <1>2 DEF IInv, ControlType, Turning, tickVars
  <1>14. HostInv(h)'
    BY <1>1, <1>2, <1>3, <1>4, <1>5, <1>12, CollectHost DEF tickVars
  <1>15. ASSUME NEW g \in Hosts, g # h PROVE HostInv(g)'
    <2>1. HostInv(g) /\ generation[g] <= sequence'
      BY <1>2 DEF IInv, HostInv
    <2>. QED
      BY <1>1, <1>2, <1>3, <1>9, <1>10, <1>11, <1>15, <2>1, HostFrame DEF tickVars
  <1>. QED BY <1>1, <1>11, <1>12, <1>13, <1>14, <1>15 DEF IInv

LEMMA StepInv ==
  ASSUME ~BatchCalls, "Disabled" \notin SetModes, IInv, [Next]_vars
  PROVE  IInv'
  <1>1. ASSUME NEW h \in Hosts, NEW count \in 1 .. MaxCount,
               NEW i \in Indexes(MaxCount), NEW stack \in Stacks,
               NEW channel \in Channels, NEW class \in Classes,
               TrySubmit(h, i, count, stack, channel, class)
        PROVE  IInv'
    BY <1>1, SubmitAccepted, SubmitRefused
  <1>2. ASSUME NEW stack \in Stacks, NEW channel \in Channels,
               SubmitMaintenance(stack, channel)
        PROVE  IInv'
    BY <1>2, MaintenanceStep
  <1>3. ASSUME NEW h \in Hosts, NEW stack \in Stacks, NEW channel \in Channels,
               BatchSubmit(h, stack, channel)
        PROVE  IInv'
    BY <1>3 DEF BatchSubmit
  <1>4. ASSUME NEW m \in SetModes, SetMode(m) PROVE IInv'
    BY <1>4, ModeSteps
  <1>5. CASE PopResponse
    BY <1>5, PopStep
  <1>6. CASE PopTransactionResponse
    BY <1>6, PopTransactionStep
  <1>7. CASE \/ DrainAtEnd \/ StartTick \/ DispatchRefused \/ DispatchDone
             \/ WorkDone \/ CollectBlocked \/ CollectNext
    BY <1>7, TickSteps
  <1>8. CASE Dispatch
    BY <1>8, DispatchStep
  <1>9. CASE Collect
    BY <1>9, CollectStep
  <1>10. ASSUME NEW c \in Controllers, Finish(c) PROVE IInv'
    BY <1>10, FinishStep
  <1>11. CASE UNCHANGED vars
    <2>1. UNCHANGED <<phase, started, turn, slots, mode, sequence, ingress, working,
                      finished, hostVars, generation>>
      BY <1>11 DEF vars, tickVars
    <2>2. ControlType' /\ Turning' /\ started' \in BOOLEAN
      BY <2>1 DEF IInv, ControlType, Turning, FlowOK, FlowType
    <2>. QED BY <2>1, <2>2, ControlStep
  <1>. QED
    BY <1>1, <1>2, <1>3, <1>4, <1>5, <1>6, <1>7, <1>8, <1>9, <1>10, <1>11
    DEF Next, Frontend, Pop, Step

-----------------------------------------------------------------------------
(* Theorems *)

LEMMA TagOutlivesFromInv ==
  ASSUME IInv PROVE TagOutlivesItsTransactions
  <1>1. ASSUME NEW h \in Hosts, NEW r \in Travelling(h)
        PROVE  h \in Tagged /\ r.gen = generation[h]
    BY <1>1 DEF IInv, HostInv, Fit
  <1>2. ASSUME NEW h \in Hosts, h \in Assembling
        PROVE  h \in Tagged /\ \A p \in assemblies[h].parts : p.gen = generation[h]
    <2>1. h \in Tagged /\ HostInv(h)
      BY <1>2 DEF IInv, HostInv, Modal
    <2>2. assemblies[h].parts = PartsOf(h, Done(h))
      BY <1>2, <2>1 DEF HostInv, Staged, Unanswered, HasAnswer
    <2>. QED BY <2>1, <2>2 DEF PartsOf
  <1>3. ASSUME NEW h \in Hosts, NEW k \in DOMAIN hostResponses,
               hostResponses[k].host = h
        PROVE  h \in Tagged
    <2>1. Answers(h) # {}
      BY <1>3 DEF Answers, ToSet
    <2>. QED BY <2>1 DEF IInv, HostInv, Modal
  <1>. QED BY <1>1, <1>2, <1>3 DEF TagOutlivesItsTransactions

LEMMA AccountsFromInv ==
  ASSUME IInv PROVE SubmissionAccounts
  <1>. SUFFICES ASSUME NEW h \in Tagged
                PROVE  /\ submissions[h].completed + Cardinality(Travelling(h))
                            = Cardinality(submissions[h].accepted)
                       /\ Going(h) \subseteq submissions[h].accepted
                       /\ h \in Assembling =>
                            {p.index : p \in assemblies[h].parts} \cup Going(h)
                              = submissions[h].accepted
    BY DEF SubmissionAccounts, Going
  <1>1. h \in Hosts /\ HostInv(h) /\ HostType
    BY DEF IInv, Tagged
  <1>2. Going(h) \subseteq submissions[h].accepted
    BY <1>1 DEF HostInv, Fit, Going
  <1>3. submissions[h].completed + Cardinality(Travelling(h))
          = Cardinality(submissions[h].accepted)
    <2>. DEFINE A == submissions[h].accepted
                G == Going(h)
    <2>1. IsFiniteSet(A) /\ Cardinality(A) \in Nat
      BY <1>1, TaggedType, IndexesCount, Constants
    <2>2. G \subseteq A
      BY <1>2
    <2>. HIDE DEF A, G
    <2>3. IsFiniteSet(G) /\ Cardinality(G) \in Nat /\ A \cap G = G
      BY <2>1, <2>2, FS_Subset, FS_CardinalityType
    <2>4. Cardinality(A \ G) = Cardinality(A) - Cardinality(A \cap G)
      BY <2>1, FS_Difference
    <2>5. Cardinality(Travelling(h)) = Cardinality(G)
      BY <1>1, <2>3, GoingCount DEF HostInv, Fit, G
    <2>6. submissions[h].completed = Cardinality(A \ G)
      BY <1>1 DEF HostInv, Counted, Done, A, G
    <2>7. Cardinality(A \ G) + Cardinality(Travelling(h)) = Cardinality(A)
      BY <2>1, <2>3, <2>4, <2>5
    <2>. QED BY <2>6, <2>7 DEF A
  <1>4. ASSUME h \in Assembling
        PROVE  {p.index : p \in assemblies[h].parts} \cup Going(h)
                 = submissions[h].accepted
    <2>1. assemblies[h].parts = PartsOf(h, Done(h))
      BY <1>1, <1>4 DEF HostInv, Staged, Unanswered, HasAnswer
    <2>2. {p.index : p \in PartsOf(h, Done(h))} = Done(h)
      BY PartsIndexes
    <2>. QED BY <1>2, <2>1, <2>2 DEF Done
  <1>. QED BY <1>2, <1>3, <1>4

LEMMA AnswersFromInv ==
  ASSUME IInv PROVE AnswersAreWhole
  <1>1. ASSUME NEW k \in DOMAIN hostResponses
        PROVE  LET r == hostResponses[k] IN
               /\ r.host \in Tagged /\ Answers(r.host) = {r}
               /\ r = WholeAnswer(r.host)
    <2>. DEFINE r == hostResponses[k]
    <2>1. r \in HostResponseType
      BY DEF IInv, HostType
    <2>2. r.host \in Hosts /\ r \in Answers(r.host)
      BY <2>1 DEF HostResponseType, Answers, ToSet
    <2>3. HostInv(r.host)
      BY <2>2 DEF IInv
    <2>. QED BY <2>2, <2>3 DEF HostInv, Modal, Staged, HasAnswer
  <1>2. ASSUME NEW k \in DOMAIN hostResponses
        PROVE  LET r == hostResponses[k] IN
               /\ r.ok /\ {p.index : p \in r.parts} = Indexes(r.count)
               /\ Cardinality(r.parts) = r.count
               /\ \A p \in r.parts : p.gen = generation[r.host]
    <2>1. PICK h : h = hostResponses[k].host
      OBVIOUS
    <2>. DEFINE n == submissions[h].count
    <2>2. h \in Tagged /\ hostResponses[k] = WholeAnswer(h)
      BY <1>1, <2>1
    <2>3. n \in Nat
      BY <2>2, TaggedType, Constants DEF IInv
    <2>4. /\ hostResponses[k].ok /\ hostResponses[k].count = n
          /\ hostResponses[k].parts = PartsOf(h, Indexes(n))
      BY <2>2 DEF WholeAnswer, HostResponse
    <2>. HIDE DEF n
    <2>5. /\ {p.index : p \in PartsOf(h, Indexes(n))} = Indexes(n)
          /\ \A p \in PartsOf(h, Indexes(n)) : p.gen = generation[h]
      BY PartsIndexes
    <2>6. Cardinality(PartsOf(h, Indexes(n))) = n
      BY <2>3, IndexesCount, PartsCount
    <2>. QED BY <2>1, <2>4, <2>5, <2>6
  <1>3. ASSUME NEW j \in DOMAIN hostResponses, NEW k \in DOMAIN hostResponses,
               hostResponses[j].host = hostResponses[k].host
        PROVE  j = k
    <2>1. hostResponses[j] = hostResponses[k]
      BY <1>1, <1>3
    <2>. QED BY <2>1 DEF IInv, Distinct
  <1>. QED BY <1>2, <1>3 DEF AnswersAreWhole

LEMMA Invariance ==
  ASSUME ~BatchCalls, "Disabled" \notin SetModes
  PROVE  Spec => []IInv
  <1>1. IInv /\ [Next]_vars => IInv'
    BY StepInv
  <1>. QED BY InitInv, <1>1, PTL DEF Spec

\* Every queue, table and counter of MemorySystem keeps to its type and limit.
THEOREM HostInterfaceTypes ==
  ASSUME ~BatchCalls, "Disabled" \notin SetModes
  PROVE  Spec => []TypeOK
  BY Invariance, TypeParts, PTL

\* A tag is not given back while something of its submission is under way,
\* in any order in which transactions come back, with any queue sizes, as long
\* as run() is not called on the same system and the mode never goes back to
\* Disabled.
THEOREM TagsOutlive ==
  ASSUME ~BatchCalls, "Disabled" \notin SetModes
  PROVE  Spec => []TagOutlivesItsTransactions
  BY Invariance, TagOutlivesFromInv, PTL

\* Each accepted transaction is completed or under way, in one place.
THEOREM SubmissionsAccounted ==
  ASSUME ~BatchCalls, "Disabled" \notin SetModes
  PROVE  Spec => []SubmissionAccounts
  BY Invariance, AccountsFromInv, PTL

\* A host response is whole, and there is at most one of a submission.
THEOREM AnswersWhole ==
  ASSUME ~BatchCalls, "Disabled" \notin SetModes
  PROVE  Spec => []AnswersAreWhole
  BY Invariance, AnswersFromInv, PTL

-----------------------------------------------------------------------------
(* The queues, also when run() is called on the same system *)

\* An ingress queue is in the order of acceptance.
Ordered ==
  \A s \in Stacks : \A i, j \in DOMAIN ingress[s] :
    i < j => ingress[s][i].seq < ingress[s][j].seq

ResponsesOK ==
  /\ assemblies \in [Hosts -> Assemblies \cup {NoTag}]
  /\ hostResponses \in Seq(HostResponseType)
  /\ HostQueueHolds

GenerationsOK ==
  /\ generation \in [Hosts -> 0 .. MaxAccepted]
  /\ \A h \in Hosts : generation[h] <= sequence

QInv == FlowOK /\ Turning /\ Ordered /\ ResponsesOK /\ GenerationsOK

LEMMA AcceptOrdered ==
  ASSUME FlowOK, Ordered, NEW request \in Requests, request.seq = sequence,
         Accept(request)
  PROVE  Ordered'
  <1>. DEFINE s == request.stack
              t == Append(ingress[s], request)
  <1>1. s \in Stacks
    BY DEF Requests
  <1>2. /\ ingress[s] \in Seq(Requests) /\ ToSet(ingress[s]) \subseteq Queued
        /\ ingress' = [ingress EXCEPT ![s] = t]
    BY <1>1, QueuedIn DEF FlowOK, Accept
  <1>3. \A i \in DOMAIN ingress[s] : ingress[s][i].seq < request.seq
    <2>1. \A q \in Everywhere : q.seq < sequence
      BY DEF FlowOK, Fresh
    <2>. QED BY <1>2, <2>1 DEF Everywhere, ToSet
  <1>4. \A i, j \in DOMAIN t : i < j => t[i].seq < t[j].seq
    <2>1. /\ DOMAIN ingress[s] = 1 .. Len(ingress[s]) /\ Len(ingress[s]) \in Nat
          /\ DOMAIN t = 1 .. Len(ingress[s]) + 1
          /\ \A i \in 1 .. Len(ingress[s]) : t[i] = ingress[s][i]
          /\ t[Len(ingress[s]) + 1] = request
      BY <1>2
    <2>2. ASSUME NEW i \in DOMAIN t, NEW j \in DOMAIN t, i < j
          PROVE  t[i].seq < t[j].seq
      <3>1. i \in 1 .. Len(ingress[s])
        BY <2>1, <2>2
      <3>2. CASE j \in 1 .. Len(ingress[s])
        BY <1>1, <2>1, <2>2, <3>1, <3>2 DEF Ordered
      <3>3. CASE j = Len(ingress[s]) + 1
        BY <1>3, <2>1, <3>1, <3>3
      <3>. QED BY <2>1, <3>2, <3>3
    <2>. QED BY <2>2
  <1>. HIDE DEF t
  <1>5. ingress'[s] = t /\ \A z \in Stacks : z # s => ingress'[z] = ingress[z]
    BY <1>1, <1>2 DEF FlowOK, FlowType
  <1>. QED BY <1>4, <1>5 DEF Ordered

LEMMA DispatchOrdered ==
  ASSUME FlowOK, Turning, Ordered, Dispatch
  PROVE  Ordered'
  <1>. DEFINE s == turn
              k == Selected(ingress[s])
              t == RemoveAt(ingress[s], k)
  <1>1. /\ s \in Stacks /\ ingress[s] # <<>> /\ ingress[s] \in Seq(Requests)
        /\ ingress' = [ingress EXCEPT ![s] = t]
    BY QueuedIn DEF Dispatch, Turning, FlowOK
  <1>2. k \in DOMAIN ingress[s]
    BY <1>1, SelectedInQueue
  <1>. HIDE DEF k
  <1>3. /\ t \in Seq(Requests) /\ Len(t) = Len(ingress[s]) - 1
        /\ \A j \in 1 .. Len(ingress[s]) - 1 :
             t[j] = IF j < k THEN ingress[s][j] ELSE ingress[s][j + 1]
    BY <1>1, <1>2, RemoveAtElements
  <1>. HIDE DEF t
  <1>4. ASSUME NEW i \in DOMAIN t, NEW j \in DOMAIN t, i < j
        PROVE  t[i].seq < t[j].seq
    <2>. DEFINE f(n) == IF n < k THEN n ELSE n + 1
    <2>1. /\ DOMAIN t = 1 .. Len(ingress[s]) - 1 /\ Len(ingress[s]) \in Nat
          /\ DOMAIN ingress[s] = 1 .. Len(ingress[s]) /\ k \in Nat
      BY <1>1, <1>2, <1>3
    <2>2. f(i) \in DOMAIN ingress[s] /\ f(j) \in DOMAIN ingress[s] /\ f(i) < f(j)
      BY <1>4, <2>1
    <2>3. t[i] = ingress[s][f(i)] /\ t[j] = ingress[s][f(j)]
      BY <1>3, <2>1
    <2>. HIDE DEF f
    <2>. QED BY <1>1, <2>2, <2>3 DEF Ordered
  <1>5. ingress'[s] = t /\ \A z \in Stacks : z # s => ingress'[z] = ingress[z]
    BY <1>1, <1>3 DEF FlowOK, FlowType
  <1>6. ASSUME NEW z \in Stacks, NEW i \in DOMAIN ingress'[z],
               NEW j \in DOMAIN ingress'[z], i < j
        PROVE  ingress'[z][i].seq < ingress'[z][j].seq
    BY <1>4, <1>5, <1>6 DEF Ordered
  <1>. QED BY <1>6 DEF Ordered

\* Aggregate() leaves assemblies and answers of the right shape.
LEMMA AggregateTypes ==
  ASSUME ResponsesOK, NEW r \in Requests, r.host \in Hosts,
         Len(hostResponses) < HostCap, Aggregate(r)
  PROVE  ResponsesOK'
  <1>. DEFINE old == IF r.host \notin Assembling THEN [count |-> r.count, parts |-> {}]
                     ELSE assemblies[r.host]
              parts == old.parts \cup {Part(r)}
  <1>1. Part(r) \in Parts /\ r.count \in 1 .. MaxCount
    BY DEF Part, Parts, Requests
  <1>2. old \in Assemblies
    BY <1>1 DEF ResponsesOK, Assembling, Assemblies
  <1>. HIDE DEF old
  <1>3. old.count \in 1 .. MaxCount /\ parts \in SUBSET Parts
    BY <1>1, <1>2 DEF Assemblies
  <1>4. \E a \in {HostResponse(r.host, r.count, {Part(r)}, FALSE),
                  HostResponse(r.host, old.count, parts, TRUE)} :
          \/ /\ hostResponses' = Append(hostResponses, a)
             /\ assemblies' = [assemblies EXCEPT ![r.host] = NoTag]
          \/ /\ assemblies' = [assemblies EXCEPT ![r.host] =
                                 [count |-> old.count, parts |-> parts]]
             /\ UNCHANGED hostResponses
    BY DEF Aggregate, old
  <1>5. /\ HostResponse(r.host, r.count, {Part(r)}, FALSE) \in HostResponseType
        /\ HostResponse(r.host, old.count, parts, TRUE) \in HostResponseType
        /\ [count |-> old.count, parts |-> parts] \in Assemblies
    BY <1>1, <1>3 DEF HostResponse, HostResponseType, Assemblies
  <1>. HIDE DEF parts
  <1>6. PICK a \in HostResponseType, b \in Assemblies :
          \/ /\ hostResponses' = Append(hostResponses, a)
             /\ assemblies' = [assemblies EXCEPT ![r.host] = NoTag]
          \/ /\ assemblies' = [assemblies EXCEPT ![r.host] = b]
             /\ UNCHANGED hostResponses
    BY <1>4, <1>5
  <1>7. assemblies' \in [Hosts -> Assemblies \cup {NoTag}]
    BY <1>6 DEF ResponsesOK
  <1>8. hostResponses' \in Seq(HostResponseType) /\ HostQueueHolds'
    <2>1. /\ hostResponses \in Seq(HostResponseType)
          /\ Len(Append(hostResponses, a)) = Len(hostResponses) + 1
          /\ Append(hostResponses, a) \in Seq(HostResponseType)
          /\ Len(hostResponses) \in Nat
      BY DEF ResponsesOK
    <2>. QED BY <1>6, <2>1, Constants DEF HostQueueHolds
  <1>. QED BY <1>7, <1>8 DEF ResponsesOK

LEMMA DispatchSelects ==
  ASSUME FlowOK, Turning, Ordered, Dispatch,
         NEW z \in Stacks, NEW r \in ToSet(ingress[z]) \ ToSet(ingress'[z]),
         NEW q \in ToSet(ingress'[z]) \cap ToSet(ingress[z])
  PROVE  IF Strict THEN \/ r.class > q.class
                        \/ r.class = q.class /\ r.seq < q.seq
         ELSE r.seq < q.seq
  <1>. DEFINE s == turn
              k == Selected(ingress[s])
              t == RemoveAt(ingress[s], k)
  <1>1. /\ s \in Stacks /\ ingress[s] # <<>> /\ ingress[s] \in Seq(Requests)
        /\ ingress' = [ingress EXCEPT ![s] = t] /\ Distinct(ingress[s])
    BY QueuedIn DEF Dispatch, Turning, FlowOK, Apart
  <1>2. /\ k \in DOMAIN ingress[s]
        /\ Strict => \A j \in DOMAIN ingress[s] :
             \/ ingress[s][k].class > ingress[s][j].class
             \/ /\ ingress[s][k].class = ingress[s][j].class
                /\ ingress[s][k].seq <= ingress[s][j].seq
        /\ ~Strict => k = 1
    BY <1>1, SelectedInQueue
  <1>. HIDE DEF k
  <1>3. ToSet(t) = ToSet(ingress[s]) \ {ingress[s][k]} /\ t \in Seq(Requests)
    <2>1. ingress[s] \in Seq(Requests) /\ Distinct(ingress[s]) /\ k \in DOMAIN ingress[s]
      BY <1>1, <1>2
    <2>. QED BY <2>1, RemoveAtLeaves
  <1>. HIDE DEF t
  <1>4. ingress'[s] = t /\ \A y \in Stacks : y # s => ingress'[y] = ingress[y]
    BY <1>1, <1>3 DEF FlowOK, FlowType
  <1>5. z = s /\ r = ingress[s][k] /\ q # ingress[s][k] /\ q \in ToSet(ingress[s])
    BY <1>3, <1>4
  <1>6. PICK j \in DOMAIN ingress[s] : q = ingress[s][j] /\ j # k
    BY <1>5 DEF ToSet
  <1>7. /\ k \in Nat /\ j \in Nat /\ k >= 1 /\ j >= 1
        /\ ingress[s][k] \in Requests /\ ingress[s][j] \in Requests
    BY <1>1, <1>2, <1>6
  <1>8. /\ j < k => ingress[s][j].seq < ingress[s][k].seq
        /\ k < j => ingress[s][k].seq < ingress[s][j].seq
    BY <1>1, <1>2, <1>6 DEF Ordered
  <1>9. r.seq \in Int /\ q.seq \in Int
    <2>1. \A x \in Requests : x.seq \in 0 .. MaxAccepted - 1
      BY DEF Requests
    <2>. QED BY <1>5, <1>6, <1>7, <2>1
  <1>10. CASE Strict
    BY <1>2, <1>5, <1>6, <1>7, <1>8, <1>9, <1>10
  <1>11. CASE ~Strict
    BY <1>2, <1>5, <1>6, <1>7, <1>8, <1>11
  <1>. QED BY <1>10, <1>11

LEMMA InitQueues == Init => QInv
  <1>. SUFFICES ASSUME Init PROVE QInv
    OBVIOUS
  <1>1. FlowOK /\ Turning /\ HostType
    BY InitInv DEF IInv
  <1>2. Ordered
    BY DEF Init, Ordered
  <1>3. ResponsesOK /\ GenerationsOK
    <2>1. hostResponses = <<>> /\ \A h \in Hosts : generation[h] = 0 /\ sequence = 0
      BY DEF Init
    <2>. QED BY <1>1, <2>1, Constants DEF HostType, ResponsesOK, GenerationsOK, HostQueueHolds, FlowOK, FlowType
  <1>. QED BY <1>1, <1>2, <1>3 DEF QInv

\* A step that does not touch the queues.
LEMMA QueuesFrame ==
  ASSUME QInv, UNCHANGED <<sequence, ingress, working, finished, generation>>,
         started' \in BOOLEAN, started => started', Turning', ResponsesOK'
  PROVE  QInv'
  BY FlowFrame DEF QInv, Ordered, GenerationsOK

\* A step that accepts a request.
LEMMA QueuesAccept ==
  ASSUME QInv, NEW r \in Requests, r.seq = sequence, r.type = "Data" => r.host \in Hosts,
         HasRoom(r.stack), Accept(r), GenerationsOK',
         UNCHANGED <<tickVars, working, finished, assemblies, hostResponses>>
  PROVE  QInv'
  <1>1. FlowOK'
    BY AcceptFlow DEF QInv, tickVars
  <1>2. Ordered'
    BY AcceptOrdered DEF QInv
  <1>3. Turning' /\ ResponsesOK'
    BY DEF QInv, Turning, tickVars, ResponsesOK, HostQueueHolds
  <1>. QED BY <1>1, <1>2, <1>3 DEF QInv

\* Accepting keeps the counters of submissions within their bounds.
LEMMA AcceptCounts ==
  ASSUME QInv, sequence < MaxAccepted, sequence' = sequence + 1, NEW h \in Hosts,
         \/ generation' = generation
         \/ \E d \in {0, 1} : generation' = [generation EXCEPT ![h] = generation[h] + d]
  PROVE  GenerationsOK' /\ sequence \in 0 .. MaxAccepted - 1
  <1>1. sequence \in 0 .. MaxAccepted - 1 /\ sequence' = sequence + 1
    BY Constants DEF QInv, FlowOK, FlowType
  <1>2. \A g \in Hosts : generation[g] \in 0 .. MaxAccepted /\ generation[g] <= sequence
    BY DEF QInv, GenerationsOK
  <1>3. generation \in [Hosts -> 0 .. MaxAccepted]
    BY DEF QInv, GenerationsOK
  <1>4. CASE generation' = generation
    BY <1>1, <1>2, <1>3, <1>4, Constants DEF GenerationsOK
  <1>5. ASSUME NEW d \in {0, 1}, generation' = [generation EXCEPT ![h] = generation[h] + d]
        PROVE  GenerationsOK'
    <2>1. generation[h] + d \in 0 .. MaxAccepted /\ generation[h] + d <= sequence'
      BY <1>1, <1>2, Constants
    <2>2. generation' \in [Hosts -> 0 .. MaxAccepted]
      BY <1>3, <1>5, <2>1
    <2>3. ASSUME NEW g \in Hosts PROVE generation'[g] <= sequence'
      BY <1>1, <1>2, <1>3, <1>5, <2>1, Constants
    <2>. QED BY <2>2, <2>3 DEF GenerationsOK
  <1>. QED BY <1>1, <1>4, <1>5

LEMMA RequestType ==
  ASSUME NEW type \in {"Data", "Maintenance"}, NEW h \in Hosts \cup {NoTag},
         NEW i \in Indexes(MaxCount), NEW count \in 1 .. MaxCount,
         NEW gen \in 0 .. MaxAccepted, NEW stack \in Stacks, NEW channel \in Channels,
         NEW class \in Classes \cup {0}, sequence \in 0 .. MaxAccepted - 1
  PROVE  LET r == Request(type, h, i, count, gen, stack, channel, class) IN
         /\ r \in Requests /\ r.seq = sequence /\ r.stack = stack
         /\ r.type = type /\ r.host = h
  BY DEF Request, Requests

LEMMA QueuesStep ==
  ASSUME QInv, [Next]_vars
  PROVE  QInv'
  <1>0. /\ started \in BOOLEAN /\ 0 \in Stacks /\ 0 \in Controllers
        /\ 0 \in 0 .. MaxAccepted /\ 0 \in Indexes(MaxCount) /\ 1 \in 1 .. MaxCount
    <2>1. 0 \in Stacks /\ 0 \in Channels
      BY Constants DEF Stacks, Channels
    <2>2. ControllerIndex(0, 0) = 0
      BY Constants DEF ControllerIndex
    <2>3. 0 \in Controllers
      BY <2>1, <2>2, ControllerInRange
    <2>. QED BY <2>1, <2>3, Constants DEF QInv, FlowOK, FlowType, Indexes
  <1>1. ASSUME NEW h \in Hosts, NEW count \in 1 .. MaxCount,
               NEW i \in Indexes(MaxCount), NEW stack \in Stacks,
               NEW channel \in Channels, NEW class \in Classes,
               TrySubmit(h, i, count, stack, channel, class)
        PROVE  QInv'
    <2>. DEFINE gen == generation[h] + (IF h \in Tagged THEN 0 ELSE 1)
                r == Request("Data", h, i, count, gen, stack, channel, class)
    <2>1. UNCHANGED <<tickVars, working, finished, assemblies, hostResponses>>
      BY <1>1 DEF TrySubmit
    <2>2. CASE HasRoom(stack)
      <3>1. /\ Accept(r) /\ generation' = [generation EXCEPT ![h] = gen]
            /\ sequence < MaxAccepted /\ sequence' = sequence + 1
        BY <1>1, <2>2 DEF TrySubmit, Accept, HasRoom
      <3>2. \E d \in {0, 1} : generation' = [generation EXCEPT ![h] = generation[h] + d]
        BY <3>1
      <3>3. GenerationsOK' /\ sequence \in 0 .. MaxAccepted - 1
        BY <3>1, <3>2, AcceptCounts
      <3>4. gen \in 0 .. MaxAccepted
        BY <3>1, <3>3 DEF GenerationsOK, QInv
      <3>. HIDE DEF gen
      <3>5. /\ r \in Requests /\ r.seq = sequence /\ r.stack = stack
            /\ r.type = "Data" /\ r.host = h
        BY <3>3, <3>4, RequestType
      <3>. HIDE DEF r
      <3>. QED BY <2>1, <2>2, <3>1, <3>3, <3>5, QueuesAccept
    <2>3. CASE ~HasRoom(stack)
      <3>1. UNCHANGED <<sequence, ingress, generation>>
        BY <1>1, <2>3 DEF TrySubmit
      <3>2. Turning' /\ ResponsesOK'
        BY <2>1 DEF QInv, Turning, ResponsesOK, HostQueueHolds, tickVars
      <3>. QED BY <1>0, <2>1, <3>1, <3>2, QueuesFrame DEF tickVars
    <2>. QED BY <2>2, <2>3
  <1>2. ASSUME NEW stack \in Stacks, NEW channel \in Channels,
               SubmitMaintenance(stack, channel)
        PROVE  QInv'
    <2>. DEFINE r == Request("Maintenance", NoTag, 0, 1, 0, stack, channel, 0)
    <2>1. /\ UNCHANGED <<tickVars, working, finished, assemblies, hostResponses>>
          /\ Accept(r) /\ HasRoom(stack) /\ generation' = generation
          /\ sequence < MaxAccepted /\ sequence' = sequence + 1
      BY <1>2 DEF SubmitMaintenance, Accept, HasRoom, hostVars
    <2>2. /\ sequence \in 0 .. MaxAccepted - 1
          /\ generation' \in [Hosts -> 0 .. MaxAccepted]
          /\ \A h \in Hosts : generation'[h] <= sequence'
      BY <2>1, Constants DEF QInv, FlowOK, FlowType, GenerationsOK
    <2>3. GenerationsOK'
      BY <2>2 DEF GenerationsOK
    <2>4. r \in Requests /\ r.seq = sequence /\ r.stack = stack /\ r.type = "Maintenance"
      BY <1>0, <2>2, RequestType
    <2>. HIDE DEF r
    <2>. QED BY <2>1, <2>3, <2>4, QueuesAccept
  <1>3. ASSUME NEW h \in Hosts, NEW stack \in Stacks, NEW channel \in Channels,
               BatchSubmit(h, stack, channel)
        PROVE  QInv'
    <2>. DEFINE r == Request("Data", h, 0, 1, 0, stack, channel, 0)
    <2>1. /\ UNCHANGED <<tickVars, working, finished, assemblies, hostResponses>>
          /\ Accept(r) /\ HasRoom(stack) /\ generation' = generation
          /\ sequence < MaxAccepted /\ sequence' = sequence + 1
      BY <1>3 DEF BatchSubmit, Accept, HasRoom, hostVars
    <2>2. GenerationsOK' /\ sequence \in 0 .. MaxAccepted - 1
      BY <2>1, AcceptCounts
    <2>3. /\ r \in Requests /\ r.seq = sequence /\ r.stack = stack
          /\ r.type = "Data" /\ r.host = h
      BY <1>0, <2>2, RequestType
    <2>. HIDE DEF r
    <2>. QED BY <2>1, <2>2, <2>3, QueuesAccept
  <1>4. CASE \/ \E m \in SetModes : SetMode(m)
             \/ PopResponse \/ PopTransactionResponse \/ UNCHANGED vars
    <2>1. UNCHANGED <<tickVars, sequence, ingress, working, finished, generation, assemblies>>
      BY <1>4 DEF SetMode, PopResponse, PopTransactionResponse, vars, hostVars
    <2>2. \/ UNCHANGED hostResponses
          \/ hostResponses # <<>> /\ hostResponses' = Tail(hostResponses)
      BY <1>4 DEF SetMode, PopResponse, PopTransactionResponse, vars, hostVars
    <2>3. hostResponses' \in Seq(HostResponseType) /\ HostQueueHolds'
      <3>1. hostResponses \in Seq(HostResponseType) /\ Len(hostResponses) <= HostCap
            /\ Len(hostResponses) \in Nat
        BY DEF QInv, ResponsesOK, HostQueueHolds
      <3>2. hostResponses # <<>> => /\ Tail(hostResponses) \in Seq(HostResponseType)
                                    /\ Len(Tail(hostResponses)) = Len(hostResponses) - 1
        BY <3>1
      <3>. QED BY <2>2, <3>1, <3>2, Constants DEF HostQueueHolds
    <2>4. Turning' /\ ResponsesOK'
      BY <2>1, <2>3 DEF QInv, Turning, ResponsesOK, tickVars
    <2>. QED BY <1>0, <2>1, <2>4, QueuesFrame DEF tickVars
  <1>5. CASE \/ DrainAtEnd \/ StartTick \/ DispatchRefused \/ DispatchDone
             \/ WorkDone \/ CollectBlocked \/ CollectNext
    <2>1. UNCHANGED <<sequence, ingress, working, finished, generation, assemblies, hostResponses>>
      BY <1>5 DEF DrainAtEnd, StartTick, DispatchRefused, DispatchDone, WorkDone,
                  CollectBlocked, CollectNext, hostVars
    <2>2. Turning' /\ started' \in BOOLEAN /\ (started => started')
      <3>1. /\ phase = "dispatch" => turn \in Stacks /\ started
            /\ phase = "collect" => turn \in Controllers
            /\ phase = "work" => started
        BY DEF QInv, Turning
      <3>2. CASE DrainAtEnd
        BY <1>0, <3>1, <3>2 DEF DrainAtEnd, Turning
      <3>3. CASE StartTick
        BY <1>0, <3>1, <3>3 DEF StartTick, Turning
      <3>4. CASE DispatchRefused \/ DispatchDone
        BY <1>0, <3>1, <3>4 DEF DispatchRefused, DispatchDone, NextStack, Turning
      <3>5. CASE WorkDone
        BY <1>0, <3>1, <3>5 DEF WorkDone, Turning
      <3>6. CASE CollectBlocked \/ CollectNext
        BY <1>0, <3>1, <3>6 DEF CollectBlocked, CollectNext, EndTick, Turning
      <3>. QED BY <1>5, <3>2, <3>3, <3>4, <3>5, <3>6
    <2>3. ResponsesOK'
      BY <2>1 DEF QInv, ResponsesOK, HostQueueHolds
    <2>. QED BY <2>1, <2>2, <2>3, QueuesFrame
  <1>6. CASE Dispatch
    <2>1. UNCHANGED <<phase, started, turn, sequence, assemblies, hostResponses, generation>>
      BY <1>6 DEF Dispatch, hostVars
    <2>2. FlowOK' /\ Ordered'
      BY <1>6, DispatchFlow, DispatchOrdered DEF QInv
    <2>3. Turning' /\ ResponsesOK' /\ GenerationsOK'
      BY <2>1 DEF QInv, Turning, ResponsesOK, GenerationsOK, HostQueueHolds
    <2>. QED BY <2>2, <2>3 DEF QInv
  <1>7. ASSUME NEW c \in Controllers, Finish(c) PROVE QInv'
    <2>1. UNCHANGED <<tickVars, sequence, ingress, assemblies, hostResponses, generation>>
      BY <1>7 DEF Finish, hostVars
    <2>2. FlowOK'
      BY <1>7, FinishFlow DEF QInv
    <2>3. Turning' /\ ResponsesOK' /\ GenerationsOK' /\ Ordered'
      BY <2>1 DEF QInv, Turning, ResponsesOK, GenerationsOK, HostQueueHolds, Ordered, tickVars
    <2>. QED BY <2>2, <2>3 DEF QInv
  <1>8. CASE Collect
    <2>0. PICK r : r = Head(finished[turn])
      OBVIOUS
    <2>1. FlowOK' /\ r \in Requests /\ r.host \in Hosts
      BY <1>8, <2>0, CollectFlow DEF QInv
    <2>2. /\ ~Blocked /\ UNCHANGED <<tickVars, sequence, ingress, generation>>
          /\ IF RetainsHost THEN Aggregate(r) ELSE UNCHANGED <<assemblies, hostResponses>>
      BY <1>8, <2>0 DEF Collect
    <2>3. ResponsesOK'
      <3>1. CASE RetainsHost
        <4>1. Len(hostResponses) < HostCap
          <5>1. Len(hostResponses) \in Nat
            BY DEF QInv, ResponsesOK
          <5>. QED BY <2>2, <3>1, <5>1, Constants DEF Blocked
        <4>. QED BY <2>1, <2>2, <3>1, <4>1, AggregateTypes DEF QInv
      <3>2. CASE ~RetainsHost
        BY <2>2, <3>2 DEF QInv, ResponsesOK, HostQueueHolds
      <3>. QED BY <3>1, <3>2
    <2>4. Turning' /\ GenerationsOK' /\ Ordered'
      BY <2>2 DEF QInv, Turning, GenerationsOK, Ordered, tickVars
    <2>. QED BY <2>1, <2>3, <2>4 DEF QInv
  <1>. QED
    BY <1>1, <1>2, <1>3, <1>4, <1>5, <1>6, <1>7, <1>8
    DEF Next, Frontend, Pop, Step

LEMMA QueuesInvariance == Spec => []QInv
  BY InitQueues, QueuesStep, PTL DEF Spec

\* publish_host_response() finds room whenever a response is collected.
THEOREM HostQueueNeverOverflows == Spec => []HostQueueHolds
  <1>1. QInv => HostQueueHolds
    BY DEF QInv, ResponsesOK
  <1>. QED BY QueuesInvariance, <1>1, PTL

LEMMA OrderStep ==
  ASSUME QInv, [Next]_vars,
         NEW s \in Stacks, NEW r \in ToSet(ingress[s]) \ ToSet(ingress'[s]),
         NEW q \in ToSet(ingress'[s]) \cap ToSet(ingress[s])
  PROVE  IF Strict THEN \/ r.class > q.class
                        \/ r.class = q.class /\ r.seq < q.seq
         ELSE r.seq < q.seq
  <1>1. ASSUME NEW request, Accept(request) PROVE FALSE
    <2>1. ingress[s] \in Seq(Requests) /\ ingress \in [Stacks -> Seq(Requests)]
      BY DEF QInv, FlowOK, FlowType
    <2>2. ingress'[s] = ingress[s] \/ ingress'[s] = Append(ingress[s], request)
      BY <1>1, <2>1 DEF Accept
    <2>3. ToSet(ingress[s]) \subseteq ToSet(Append(ingress[s], request))
      <3>1. ingress[s] \in Seq(Requests \cup {request})
        BY <2>1
      <3>. QED BY <3>1, AppendElements
    <2>. QED BY <2>2, <2>3
  <1>2. CASE Dispatch
    BY <1>2, DispatchSelects DEF QInv
  <1>3. ingress' # ingress
    OBVIOUS
  <1>4. \A h, i, count, stack, channel, class :
          ~TrySubmit(h, i, count, stack, channel, class)
    BY <1>1, <1>3 DEF TrySubmit
  <1>5. \A h, stack, channel :
          ~SubmitMaintenance(stack, channel) /\ ~BatchSubmit(h, stack, channel)
    BY <1>1 DEF SubmitMaintenance, BatchSubmit
  <1>6. /\ \A m : ~SetMode(m)
        /\ \A c : ~Finish(c)
        /\ ~DrainAtEnd /\ ~PopResponse /\ ~PopTransactionResponse /\ ~StartTick
        /\ ~DispatchRefused /\ ~DispatchDone /\ ~WorkDone
        /\ ~Collect /\ ~CollectBlocked /\ ~CollectNext /\ ~UNCHANGED vars
    BY <1>3 DEF SetMode, Finish, DrainAtEnd, PopResponse, PopTransactionResponse,
                StartTick, DispatchRefused, DispatchDone, WorkDone, Collect,
                CollectBlocked, CollectNext, vars
  <1>. QED BY <1>2, <1>4, <1>5, <1>6 DEF Next, Frontend, Pop, Step

\* Requests leave an ingress queue by class and then age, or by age alone.
THEOREM DispatchesInOrder == Spec => DispatchInOrder
  <1>1. QInv /\ [Next]_vars =>
          [\A s \in Stacks :
             \A r \in ToSet(ingress[s]) \ ToSet(ingress'[s]) :
               \A q \in ToSet(ingress'[s]) \cap ToSet(ingress[s]) :
                 IF Strict THEN \/ r.class > q.class
                                \/ r.class = q.class /\ r.seq < q.seq
                 ELSE r.seq < q.seq]_ingress
    BY OrderStep
  <1>. QED BY QueuesInvariance, <1>1, PTL DEF Spec, DispatchInOrder

-----------------------------------------------------------------------------
(* The tag protocol *)

Ready == {r.host : r \in ToSet(hostResponses)}

\* What HostPort sees of a host.
LEMMA TagOf ==
  ASSUME IInv, NEW h \in Hosts
  PROVE  /\ h \in Tagged =>
              TagState[h] = [count |-> submissions[h].count,
                             accepted |-> submissions[h].accepted]
         /\ h \notin Tagged => TagState[h] = Port!Free
         /\ h \in Tagged => TagState[h] # Port!Free
         /\ h \in Ready <=> Answers(h) # {}
  <1>1. /\ h \in Tagged => TagState[h] = [count |-> submissions[h].count,
                                          accepted |-> submissions[h].accepted]
        /\ h \notin Tagged => TagState[h] = Port!Free
    BY DEF TagState, Port!Free
  <1>2. h \in Tagged => TagState[h] # Port!Free
    <2>1. ASSUME h \in Tagged PROVE submissions[h].count # 0
      BY <2>1, TaggedType, Constants DEF IInv
    <2>. QED BY <1>1, <2>1 DEF Port!Free
  <1>3. h \in Ready <=> Answers(h) # {}
    BY DEF Ready, Answers
  <1>. QED BY <1>1, <1>2, <1>3

\* HostPort does not see a step that leaves submissions and answers alone.
LEMMA PortStutter ==
  ASSUME UNCHANGED <<submissions, hostResponses>>
  PROVE  UNCHANGED Port!portVars
  BY DEF Port!portVars, TagState, Tagged

LEMMA PortSubmit ==
  ASSUME IInv, NEW h \in Hosts, NEW count \in 1 .. MaxCount, NEW i \in Indexes(MaxCount),
         MaySubmit(h, i, count), Record(h, i, count), UNCHANGED hostResponses
  PROVE  Port!PortNext
  <1>1. HostType
    BY DEF IInv
  <1>2. CASE h \in Tagged
    <2>. DEFINE old == submissions[h]
                new == [old EXCEPT !.accepted = old.accepted \cup {i}]
    <2>1. old \in Submissions /\ old.count = count /\ i \notin old.accepted
          /\ i \in Indexes(count)
      BY <1>1, <1>2, TaggedType DEF MaySubmit
    <2>2. submissions' = [submissions EXCEPT ![h] = new]
      BY <1>2 DEF Record
    <2>3. new \in Submissions /\ new.count = old.count
          /\ new.accepted = old.accepted \cup {i}
      BY <2>1 DEF Submissions
    <2>. HIDE DEF new
    <2>4. /\ submissions'[h] = new /\ (h \in Tagged)'
          /\ \A g \in Hosts : g # h => submissions'[g] = submissions[g]
      BY <1>1, <2>2, <2>3, NoTagAssumption DEF HostType, Tagged
    <2>5. TagState' = [TagState EXCEPT ![h].accepted = @ \cup {i}]
      <3>1. TagState[h] = [count |-> old.count, accepted |-> old.accepted]
        BY <1>2 DEF TagState
      <3>2. TagState'[h] = [count |-> old.count, accepted |-> old.accepted \cup {i}]
        BY <2>3, <2>4 DEF TagState
      <3>3. \A g \in Hosts : g # h => TagState'[g] = TagState[g]
        BY <2>4 DEF TagState, Tagged
      <3>. QED BY <3>1, <3>2, <3>3 DEF TagState
    <2>6. Port!Join(h, i)
      <3>1. TagState[h].count = count /\ TagState[h].accepted = old.accepted
        BY <1>2, <2>1 DEF TagState
      <3>. QED BY <2>1, <2>5, <3>1 DEF Port!Join, Port!Indexes, Indexes
    <2>. QED BY <2>6 DEF Port!PortNext, Port!Indexes, Indexes
  <1>3. CASE h \notin Tagged
    <2>. DEFINE new == [count |-> count, accepted |-> {i}, completed |-> 0]
    <2>1. i = 0 /\ new \in Submissions
      BY <1>3 DEF MaySubmit, Submissions
    <2>2. submissions' = [submissions EXCEPT ![h] = new]
      BY <1>3 DEF Record
    <2>. HIDE DEF new
    <2>3. /\ submissions'[h] = new /\ (h \in Tagged)'
          /\ \A g \in Hosts : g # h => submissions'[g] = submissions[g]
      BY <1>1, <2>1, <2>2, NoTagAssumption DEF HostType, Tagged
    <2>4. TagState' = [TagState EXCEPT ![h] = [count |-> count, accepted |-> {0}]]
      <3>1. TagState'[h] = [count |-> count, accepted |-> {0}]
        BY <2>1, <2>3 DEF TagState, new
      <3>2. \A g \in Hosts : g # h => TagState'[g] = TagState[g]
        BY <2>3 DEF TagState, Tagged
      <3>. QED BY <3>1, <3>2 DEF TagState
    <2>5. Port!Open(h, count)
      BY <1>3, <2>4, TagOf DEF Port!Open
    <2>. QED BY <2>5 DEF Port!PortNext
  <1>. QED BY <1>2, <1>3

LEMMA PortPop ==
  ASSUME IInv, IInv', PopResponse
  PROVE  Port!PortNext
  <1>0. PICK a, h : a = Head(hostResponses) /\ h = a.host
    OBVIOUS
  <1>1. /\ a \in HostResponseType /\ a \in ToSet(hostResponses)
        /\ ToSet(hostResponses') = ToSet(hostResponses) \ {a}
    <2>1. hostResponses # <<>> /\ hostResponses' = Tail(hostResponses)
          /\ hostResponses \in Seq(HostResponseType) /\ Distinct(hostResponses)
      BY DEF PopResponse, IInv, HostType
    <2>2. /\ a \in HostResponseType /\ a = hostResponses[1] /\ 1 \in DOMAIN hostResponses
          /\ ToSet(Tail(hostResponses)) = ToSet(hostResponses) \ {a}
      BY <1>0, <2>1, TailElements
    <2>. QED BY <2>1, <2>2 DEF ToSet
  <1>2. h \in Hosts /\ a \in Answers(h) /\ h \in Ready
    BY <1>0, <1>1 DEF HostResponseType, Answers, Ready
  <1>3. Answers(h) = {a} /\ h \in Tagged
    BY <1>2 DEF IInv, HostInv, Modal, Staged, HasAnswer
  <1>4. submissions[h].completed >= submissions[h].count
    <2>1. Done(h) = Indexes(submissions[h].count) /\ HostInv(h) /\ HostType
      BY <1>2, <1>3 DEF IInv, HostInv, Staged, HasAnswer
    <2>. QED BY <1>3, <2>1, DoneFacts, IndexesCount
  <1>5. submissions' = [submissions EXCEPT ![h] = NoTag]
    BY <1>0, <1>3, <1>4 DEF PopResponse, FreeTag
  <1>6. /\ (h \notin Tagged)'
        /\ \A g \in Hosts : g # h => submissions'[g] = submissions[g]
    BY <1>2, <1>5 DEF IInv, HostType, Tagged
  <1>7. TagState' = [TagState EXCEPT ![h] = Port!Free]
    <2>1. TagState'[h] = Port!Free
      BY <1>2, <1>6 DEF TagState, Port!Free
    <2>2. \A g \in Hosts : g # h => TagState'[g] = TagState[g]
      BY <1>6 DEF TagState, Tagged
    <2>. QED BY <2>1, <2>2 DEF TagState
  <1>8. Ready' = Ready \ {h}
    <2>1. \A b \in ToSet(hostResponses) : b.host = h <=> b = a
      BY <1>0, <1>3 DEF Answers
    <2>. QED BY <1>1, <2>1 DEF Ready
  <1>9. Port!Release(h)
    BY <1>2, <1>7, <1>8 DEF Port!Release, Ready
  <1>. QED BY <1>2, <1>9 DEF Port!PortNext

LEMMA PortCollect ==
  ASSUME IInv, Collect
  PROVE  [Port!PortNext]_(Port!portVars)
  <1>0. PICK r, h : r = Head(finished[turn]) /\ h = r.host
    OBVIOUS
  <1>1. /\ r \in Requests /\ r \in Everywhere /\ r.type = "Data"
        /\ h \in Hosts /\ r.host = h
    BY <1>0, CollectFlow DEF IInv
  <1>2. /\ Complete(h)
        /\ IF RetainsHost THEN Aggregate(r)
           ELSE UNCHANGED <<assemblies, hostResponses>>
        /\ HostInv(h) /\ HostType /\ r \in Travelling(h)
    BY <1>0, <1>1, InEverywhere DEF Collect, IInv
  <1>. DEFINE E == Done(h) \cup {r.index}
              n == submissions[h].count
              a == HostResponse(h, n, PartsOf(h, E), TRUE)
  <1>3. /\ h \in Tagged /\ Answers(h) = {} /\ E \in SUBSET Indexes(n)
        /\ r.index \in submissions[h].accepted
        /\ submissions' = [submissions EXCEPT ![h] =
             IF E = Indexes(n) /\ ~RetainsHost THEN NoTag
             ELSE [submissions[h] EXCEPT !.completed = Cardinality(E)]]
        /\ IF ~RetainsHost THEN UNCHANGED <<assemblies, hostResponses>>
           ELSE IF E = Indexes(n)
           THEN /\ hostResponses' = Append(hostResponses, a)
                /\ assemblies' = [assemblies EXCEPT ![h] = NoTag]
           ELSE /\ assemblies' = [assemblies EXCEPT ![h] =
                                    [count |-> n, parts |-> PartsOf(h, E)]]
                /\ UNCHANGED hostResponses
    BY <1>1, <1>2, CollectEffect
  <1>4. /\ E \subseteq submissions[h].accepted
        /\ submissions[h].accepted \subseteq Indexes(n)
    BY <1>2, <1>3 DEF Done, HostInv, Counted
  <1>5. /\ a \in HostResponseType /\ a.host = h /\ hostResponses \in Seq(HostResponseType)
    <2>. HIDE DEF E
    <2>1. a \in HostResponseType
      BY <1>2, <1>3, PartsType
    <2>. QED BY <1>2, <2>1 DEF HostType, HostResponse
  <1>. HIDE DEF E, a
  <1>6. ASSUME E = Indexes(n) PROVE Port!Complete(h)
    <2>1. TagState[h] = [count |-> n, accepted |-> submissions[h].accepted]
          /\ TagState[h] # Port!Free
      BY <1>1, <1>3, TagOf
    <2>2. submissions[h].accepted = Indexes(n)
      BY <1>4, <1>6
    <2>3. TagState[h].count = n /\ TagState[h].accepted = 0 .. n - 1
      BY <2>1, <2>2 DEF Indexes
    <2>. QED BY <2>1, <2>3 DEF Port!Complete, Port!Indexes
  <1>7. h \notin Ready
    BY <1>1, <1>3, TagOf
  <1>8. CASE E = Indexes(n) /\ ~RetainsHost
    <2>1. submissions' = [submissions EXCEPT ![h] = NoTag] /\ UNCHANGED hostResponses
      BY <1>3, <1>8
    <2>2. /\ (h \notin Tagged)'
          /\ \A g \in Hosts : g # h => submissions'[g] = submissions[g]
      BY <1>1, <1>2, <2>1 DEF HostType, Tagged
    <2>3. TagState' = [TagState EXCEPT ![h] = Port!Free]
      <3>1. TagState'[h] = Port!Free
        BY <1>1, <2>2 DEF TagState, Port!Free
      <3>2. \A g \in Hosts : g # h => TagState'[g] = TagState[g]
        BY <2>2 DEF TagState, Tagged
      <3>. QED BY <3>1, <3>2 DEF TagState
    <2>4. Port!Deliver(h)
      BY <1>6, <1>7, <1>8, <2>1, <2>3 DEF Port!Deliver, Ready
    <2>. QED BY <1>1, <2>4 DEF Port!PortNext
  <1>9. CASE ~(E = Indexes(n) /\ ~RetainsHost)
    <2>. DEFINE new == [submissions[h] EXCEPT !.completed = Cardinality(E)]
    <2>1. submissions' = [submissions EXCEPT ![h] = new]
      BY <1>3, <1>9
    <2>2. /\ submissions[h] \in Submissions /\ Cardinality(E) \in Nat
      <3>1. submissions[h] \in Submissions /\ n \in Nat
        BY <1>2, <1>3, TaggedType, Constants
      <3>. QED BY <1>3, <3>1, IndexesCount
    <2>3. new \in Submissions /\ new.count = n /\ new.accepted = submissions[h].accepted
      BY <2>2 DEF Submissions
    <2>. HIDE DEF new
    <2>4. /\ submissions'[h] = new /\ (h \in Tagged)'
          /\ \A g \in Hosts : g # h => submissions'[g] = submissions[g]
      BY <1>1, <1>2, <2>1, <2>3, NoTagAssumption DEF HostType, Tagged
    <2>5. TagState' = TagState
      <3>1. TagState'[h] = TagState[h]
        BY <1>1, <1>3, <2>3, <2>4 DEF TagState
      <3>2. \A g \in Hosts : g # h => TagState'[g] = TagState[g]
        BY <2>4 DEF TagState, Tagged
      <3>. QED BY <3>1, <3>2 DEF TagState
    <2>6. CASE UNCHANGED hostResponses
      BY <2>5, <2>6 DEF Port!portVars
    <2>7. CASE E = Indexes(n) /\ hostResponses' = Append(hostResponses, a)
      <3>1. ToSet(hostResponses') = ToSet(hostResponses) \cup {a}
        BY <1>5, <2>7, AppendElements
      <3>2. Ready' = Ready \cup {h}
        BY <1>5, <3>1 DEF Ready
      <3>3. Port!Answer(h)
        BY <1>6, <1>7, <2>5, <2>7, <3>2 DEF Port!Answer, Ready
      <3>. QED BY <1>1, <3>3 DEF Port!PortNext
    <2>. QED BY <1>3, <1>9, <2>6, <2>7
  <1>. QED BY <1>8, <1>9

\* What every step does to the port.
LEMMA PortStep ==
  ASSUME IInv, IInv', ~BatchCalls, [Next]_vars
  PROVE  [Port!PortNext]_(Port!portVars)
  <1>1. ASSUME NEW h \in Hosts, NEW count \in 1 .. MaxCount,
               NEW i \in Indexes(MaxCount), NEW stack \in Stacks,
               NEW channel \in Channels, NEW class \in Classes,
               TrySubmit(h, i, count, stack, channel, class)
        PROVE  [Port!PortNext]_(Port!portVars)
    <2>1. CASE HasRoom(stack)
      BY <1>1, <2>1, PortSubmit DEF TrySubmit
    <2>2. CASE ~HasRoom(stack)
      <3>1. UNCHANGED <<submissions, hostResponses>>
        BY <1>1, <2>2 DEF TrySubmit
      <3>. QED BY <3>1, PortStutter
    <2>. QED BY <2>1, <2>2
  <1>2. CASE PopResponse
    BY <1>2, PortPop
  <1>3. CASE Collect
    BY <1>3, PortCollect
  <1>4. CASE UNCHANGED <<submissions, hostResponses>>
    BY <1>4, PortStutter
  <1>5. \/ \E h \in Hosts, count \in 1 .. MaxCount, i \in Indexes(MaxCount),
              stack \in Stacks, channel \in Channels, class \in Classes :
             TrySubmit(h, i, count, stack, channel, class)
        \/ PopResponse \/ Collect
        \/ UNCHANGED <<submissions, hostResponses>>
    <2>1. \A stack, channel : SubmitMaintenance(stack, channel) =>
            UNCHANGED <<submissions, hostResponses>>
      BY DEF SubmitMaintenance, hostVars
    <2>2. \A h, stack, channel : ~BatchSubmit(h, stack, channel)
      BY DEF BatchSubmit
    <2>3. /\ \A m : SetMode(m) => UNCHANGED <<submissions, hostResponses>>
          /\ \A c : Finish(c) => UNCHANGED <<submissions, hostResponses>>
      BY DEF SetMode, Finish, hostVars
    <2>4. DrainAtEnd \/ PopTransactionResponse \/ StartTick \/ Dispatch
            \/ DispatchRefused \/ DispatchDone \/ WorkDone \/ CollectBlocked
            \/ CollectNext \/ UNCHANGED vars
            => UNCHANGED <<submissions, hostResponses>>
      BY DEF DrainAtEnd, PopTransactionResponse, StartTick, Dispatch, DispatchRefused,
             DispatchDone, WorkDone, CollectBlocked, CollectNext, vars, hostVars
    <2>. QED BY <2>1, <2>2, <2>3, <2>4 DEF Next, Frontend, Pop, Step
  <1>. QED BY <1>1, <1>2, <1>3, <1>4, <1>5

\* Every step of MemorySystem is a step of the tag protocol, or none.
THEOREM KeepsPortProtocol ==
  ASSUME ~BatchCalls, "Disabled" \notin SetModes
  PROVE  Spec => ImplementsHostPort
  <1>1. Init => Port!PortInit
    BY DEF Init, Port!PortInit, Port!Free, TagState, Tagged, ToSet
  <1>2. IInv /\ IInv' /\ [Next]_vars => [Port!PortNext]_(Port!portVars)
    BY PortStep
  <1>. QED BY Invariance, <1>1, <1>2, PTL DEF Spec, ImplementsHostPort, Port!PortSpec

=============================================================================
