------------------------- MODULE FrontendDataProofs -------------------------
(***************************************************************************)
(* What a read of a whole run returns, for every geometry, mapping order,  *)
(* channel count and trace.  BytesKept follows every byte of a stack on    *)
(* its way: a line in the open row of its bank or in the backend, then     *)
(* what the queue of its controller and the ingress queue of its stack     *)
(* leave of it, then the rest of the host line that is being handed out,   *)
(* which the memory of the stream is ahead by.  First what serving,        *)
(* sending and moving a transaction does to such a path; then the lines,   *)
(* their coordinates and their open rows; then the host lines and their    *)
(* transactions; then one lemma per step of the run.                       *)
(*                                                                         *)
(* And the DFI trace of a run: what the validator accepts is exactly the   *)
(* events of the commands, so that damage to one of them is seen; the      *)
(* commands of a run are told apart by their keys, as a controller issues  *)
(* a column and a row command in a cycle at most (TurnsKept); and what a   *)
(* read expects is what it is owed, from the trace line that asks for it   *)
(* to its command (Promised).                                              *)
(***************************************************************************)
EXTENDS FrontendProofs

-----------------------------------------------------------------------------
(* The way of a byte: what a read of it will return *)

\* The lines of a stack, the coordinates of each, and the bytes the storage of
\* the stack holds for it, in an open row or behind it.
Lines(u) == {l \in 0 .. u.map.capacity - 1 : l % u.org.transaction = 0}
Home(u, l) == Decode(u.org, l)
Back(u, lines, l) ==
  IF l \in DOMAIN lines THEN lines[l] ELSE Zeros(u.org.transaction)
InColumn(u, st, l) ==
  RowOpen(st, Home(u, l))
  /\ Home(u, l)["column"] \in DOMAIN st.rows[BankKey(Home(u, l))].columns
View(u, st, l) ==
  IF InColumn(u, st, l)
  THEN st.rows[BankKey(Home(u, l))].columns[Home(u, l)["column"]].bytes
  ELSE Back(u, st.lines, l)

\* Byte i of line l as the first n transactions of s leave it, when it is v before
\* them: that of the last write, if there is one.
Has(r, i) == i \in 1 .. r.size
Writes(r, l, i) == r.type = "write" /\ r.address = l /\ Has(r, i) /\ Enabled(r, i)
Leaves(s, n, l, i, v, w) ==
  \/ \E j \in 1 .. n : /\ Writes(s[j], l, i) /\ w = s[j].payload[i]
                       /\ \A m \in j + 1 .. n : ~Writes(s[m], l, i)
  \/ w = v /\ \A j \in 1 .. n : ~Writes(s[j], l, i)

\* A sequence that has lost element m, and one that has a new last element.
Without(t, s, m) ==
  /\ m \in 1 .. Len(s) /\ Len(t) = Len(s) - 1
  /\ \A j \in 1 .. Len(t) : t[j] = IF j < m THEN s[j] ELSE s[j + 1]
Extended(t, s, e) ==
  /\ Len(t) = Len(s) + 1 /\ t[Len(s) + 1] = e
  /\ \A j \in 1 .. Len(s) : t[j] = s[j]

\* Where the frontend sends a transaction before it is routed, and the system
\* address of byte i of a line.
TargetOf(u, r) == IF r.stack # None THEN r.stack ELSE StackDecode(u.map, r.address).stack
LocalOf(u, r) == IF r.explicit THEN r.address ELSE StackDecode(u.map, r.address).local
ByteAt(u, k, l, i) == StackEncode(u.map, [stack |-> k, local |-> l + (i - 1)])
Onto(u, r, k, l) == r.type # "control" /\ TargetOf(u, r) = k /\ LocalOf(u, r) = l
Covers(u, r, k, l, i) ==
  r.type = "write" /\ Onto(u, r, k, l) /\ Has(r, i) /\ Enabled(r, i)
Known(mem, a) == IF a \in DOMAIN mem THEN mem[a] ELSE ZeroByte

\* A read will return what it is owed once what is in front of it is served.
Owing(u, s, st, l) ==
  \A j \in 1 .. Len(s) : s[j].type = "read" /\ s[j].address = l =>
    \A i \in 1 .. u.org.transaction : Has(s[j], i) =>
      Leaves(s, j - 1, l, i, View(u, st, l)[i], s[j].owed[i])

\* The memory is what everything on its way leaves, w being still to come.
Settled(u, w, mem, s, st, k, l) ==
  \A i \in 1 .. u.org.transaction :
    /\ \A r \in w : Covers(u, r, k, l, i) => r.payload[i] = Known(mem, ByteAt(u, k, l, i))
    /\ (\A r \in w : ~Covers(u, r, k, l, i)) =>
         Leaves(s, Len(s), l, i, View(u, st, l)[i], Known(mem, ByteAt(u, k, l, i)))

-----------------------------------------------------------------------------

\* What a sequence leaves depends on its elements only.
LEMMA LeavesAgain ==
  ASSUME NEW n \in Nat, NEW s, NEW t, \A j \in 1 .. n : t[j] = s[j],
         NEW l, NEW i, NEW v, NEW w, Leaves(s, n, l, i, v, w)
  PROVE  Leaves(t, n, l, i, v, w)
<1>1. \A j \in 1 .. n : \A m \in j + 1 .. n : m \in 1 .. n
  OBVIOUS
<1> QED BY <1>1 DEF Leaves

\* A new last element is a write of the byte or leaves it alone.
LEMMA LeavesMore ==
  ASSUME NEW n \in Nat, NEW s, NEW t, \A j \in 1 .. n : t[j] = s[j],
         NEW l, NEW i, NEW v, NEW w, Leaves(s, n, l, i, v, w)
  PROVE  Leaves(t, n + 1, l, i, v, IF Writes(t[n + 1], l, i) THEN t[n + 1].payload[i] ELSE w)
<1>1. n + 1 \in 1 .. n + 1 /\ (n + 1) + 1 .. n + 1 = {}
      /\ \A j \in 1 .. n + 1 : j \in 1 .. n \/ j = n + 1
  OBVIOUS
<1>2. CASE Writes(t[n + 1], l, i)
  BY <1>1, <1>2 DEF Leaves
<1>3. CASE ~Writes(t[n + 1], l, i)
  <2>1. CASE \E j \in 1 .. n : /\ Writes(s[j], l, i) /\ w = s[j].payload[i]
                               /\ \A m \in j + 1 .. n : ~Writes(s[m], l, i)
    <3>1. PICK j \in 1 .. n : /\ Writes(s[j], l, i) /\ w = s[j].payload[i]
                              /\ \A m \in j + 1 .. n : ~Writes(s[m], l, i)
      BY <2>1
    <3>2. j \in 1 .. n + 1 /\ Writes(t[j], l, i) /\ w = t[j].payload[i]
      BY <3>1
    <3>3. \A m \in j + 1 .. n + 1 : ~Writes(t[m], l, i)
      <4>1. \A m \in j + 1 .. n + 1 : m = n + 1 \/ (m \in j + 1 .. n /\ m \in 1 .. n)
        OBVIOUS
      <4> QED BY <1>3, <3>1, <4>1
    <3> QED BY <1>3, <3>2, <3>3 DEF Leaves
  <2>2. CASE w = v /\ \A j \in 1 .. n : ~Writes(s[j], l, i)
    BY <1>1, <1>3, <2>2 DEF Leaves
  <2> QED BY <2>1, <2>2 DEF Leaves
<1> QED BY <1>2, <1>3

\* Serving a transaction: a write becomes what was there before the others.
LEMMA LeavesLess ==
  ASSUME NEW s, NEW t, Len(s) \in Nat, NEW m, Without(t, s, m), NEW n \in 0 .. Len(s),
         NEW l, NEW i, NEW v, NEW w, Leaves(s, n, l, i, v, w),
         NEW x, IF Writes(s[m], l, i) THEN x = s[m].payload[i] ELSE x = v,
         Writes(s[m], l, i) => m <= n /\ \A j \in 1 .. m - 1 : ~Writes(s[j], l, i)
  PROVE  Leaves(t, IF m <= n THEN n - 1 ELSE n, l, i, x, w)
<1> DEFINE k == IF m <= n THEN n - 1 ELSE n
           Old(j) == IF j < m THEN j ELSE j + 1
           New(j) == IF j < m THEN j ELSE j - 1
           P(j) == Writes(s[j], l, i)
           Q(j) == Writes(t[j], l, i)
<1>1. /\ m \in 1 .. Len(s) /\ Len(t) = Len(s) - 1 /\ m \in Nat /\ k \in Nat
      /\ \A j \in 1 .. Len(t) : t[j] = s[Old(j)]
  BY DEF Without
<1>2. \A j \in 1 .. k : Old(j) \in 1 .. n /\ t[j] = s[Old(j)]
  BY <1>1
<1>3. \A j \in 1 .. n : j # m => New(j) \in 1 .. k /\ t[New(j)] = s[j]
  BY <1>1
<1>4. CASE \E j \in 1 .. n : /\ P(j) /\ w = s[j].payload[i]
                             /\ \A q \in j + 1 .. n : ~P(q)
  <2>1. PICK j \in 1 .. n : P(j) /\ w = s[j].payload[i] /\ \A q \in j + 1 .. n : ~P(q)
    BY <1>4
  <2>2. CASE j # m
    <3>1. New(j) \in 1 .. k /\ t[New(j)] = s[j]
      BY <1>3, <2>2
    <3>2. \A q \in New(j) + 1 .. k : Old(q) \in j + 1 .. n \/ Old(q) = j
      BY <1>1, <2>2
    <3>3. \A q \in New(j) + 1 .. k : Old(q) \in j + 1 .. n
      BY <1>1, <2>2
    <3>4. \A q \in New(j) + 1 .. k : q \in 1 .. k
      BY <1>1, <2>2
    <3>5. \A q \in New(j) + 1 .. k : ~Q(q)
      BY <1>2, <2>1, <3>3, <3>4
    <3> HIDE DEF New, Old, k
    <3> QED BY <2>1, <3>1, <3>5 DEF Leaves, k
  <2>3. CASE j = m
    <3>1. x = w /\ \A q \in 1 .. m - 1 : ~P(q)
      BY <2>1, <2>3
    <3>2. \A q \in 1 .. k : Old(q) \in 1 .. m - 1 \/ Old(q) \in j + 1 .. n
      BY <1>1, <2>3
    <3>3. \A q \in 1 .. k : ~Q(q)
      BY <1>2, <2>1, <3>1, <3>2
    <3> QED BY <3>1, <3>3 DEF Leaves
  <2> QED BY <2>2, <2>3
<1>5. CASE w = v /\ \A j \in 1 .. n : ~P(j)
  <2>1. ~P(m)
    BY <1>1, <1>5
  <2>2. \A q \in 1 .. k : ~Q(q)
    BY <1>2, <1>5
  <2> QED BY <1>5, <2>1, <2>2 DEF Leaves
<1> QED BY <1>4, <1>5 DEF Leaves

\* What is known of a line: what is on its way to the controller that serves it
\* is s, the storage of its stack is st.
Truthful(u, w, mem, s, st, k, l) == Owing(u, s, st, l) /\ Settled(u, w, mem, s, st, k, l)

\* Serving transaction m leaves a line as it was, but for the bytes m writes,
\* and it overtakes none that is for the line it writes.
ServesWell(u, s, m, st, st2, l) ==
  /\ \A i \in 1 .. u.org.transaction :
       View(u, st2, l)[i] = IF Writes(s[m], l, i) THEN s[m].payload[i] ELSE View(u, st, l)[i]
  /\ s[m].type = "write" /\ s[m].address = l =>
       \A j \in 1 .. m - 1 : s[j].type = "control" \/ s[j].address # l

\* What is known of a line stays so when a transaction is served,
LEMMA TruthfulServed ==
  ASSUME NEW u, NEW w, NEW mem, NEW s, NEW t, Len(s) \in Nat, NEW m, Without(t, s, m),
         NEW st, NEW st2, NEW k, NEW l, ServesWell(u, s, m, st, st2, l),
         Truthful(u, w, mem, s, st, k, l)
  PROVE  Truthful(u, w, mem, t, st2, k, l)
<1>1. m \in 1 .. Len(s) /\ Len(t) = Len(s) - 1 /\ Len(t) \in Nat
  BY DEF Without
<1>2. ASSUME NEW n \in 0 .. Len(s), NEW i \in 1 .. u.org.transaction, NEW x,
             Leaves(s, n, l, i, View(u, st, l)[i], x), Writes(s[m], l, i) => m <= n
      PROVE  Leaves(t, IF m <= n THEN n - 1 ELSE n, l, i, View(u, st2, l)[i], x)
  <2>1. IF Writes(s[m], l, i) THEN View(u, st2, l)[i] = s[m].payload[i]
        ELSE View(u, st2, l)[i] = View(u, st, l)[i]
    BY DEF ServesWell
  <2>2. Writes(s[m], l, i) => \A j \in 1 .. m - 1 : ~Writes(s[j], l, i)
    BY DEF ServesWell, Writes
  <2> QED BY <1>2, <2>1, <2>2, LeavesLess
<1>3. Owing(u, t, st2, l)
  <2> SUFFICES ASSUME NEW j \in 1 .. Len(t), t[j].type = "read", t[j].address = l,
                      NEW i \in 1 .. u.org.transaction, Has(t[j], i)
               PROVE  Leaves(t, j - 1, l, i, View(u, st2, l)[i], t[j].owed[i])
    BY DEF Owing
  <2> DEFINE h == IF j < m THEN j ELSE j + 1
  <2>1. h \in 1 .. Len(s) /\ t[j] = s[h] /\ h - 1 \in 0 .. Len(s)
        /\ j - 1 = (IF m <= h - 1 THEN (h - 1) - 1 ELSE h - 1)
    BY <1>1 DEF Without
  <2>2. Leaves(s, h - 1, l, i, View(u, st, l)[i], s[h].owed[i])
    BY <2>1 DEF Truthful, Owing
  <2>3. Writes(s[m], l, i) => m <= h - 1
    <3>1. s[h].type = "read" /\ s[h].address = l
      BY <2>1
    <3>2. h # m \/ ~Writes(s[m], l, i)
      BY <3>1 DEF Writes
    <3>3. Writes(s[m], l, i) => ~(h \in 1 .. m - 1)
      BY <3>1 DEF Writes, ServesWell
    <3> HIDE DEF h
    <3> QED BY <1>1, <2>1, <3>2, <3>3
  <2> HIDE DEF h
  <2>4. Leaves(t, IF m <= h - 1 THEN (h - 1) - 1 ELSE h - 1, l, i, View(u, st2, l)[i],
               s[h].owed[i])
    BY <1>2, <2>1, <2>2, <2>3
  <2> QED BY <2>1, <2>4
<1>4. Settled(u, w, mem, t, st2, k, l)
  <2> SUFFICES ASSUME NEW i \in 1 .. u.org.transaction, \A r \in w : ~Covers(u, r, k, l, i)
               PROVE  Leaves(t, Len(t), l, i, View(u, st2, l)[i], Known(mem, ByteAt(u, k, l, i)))
    BY DEF Truthful, Settled
  <2>1. Leaves(s, Len(s), l, i, View(u, st, l)[i], Known(mem, ByteAt(u, k, l, i)))
    BY DEF Truthful, Settled
  <2>2. Len(s) \in 0 .. Len(s) /\ m <= Len(s) /\ Len(t) = Len(s) - 1
    BY <1>1
  <2> QED BY <1>2, <2>1, <2>2
<1> QED BY <1>3, <1>4 DEF Truthful

\* when a command moves the line between its row and the backend,
LEMMA TruthfulMoved ==
  ASSUME NEW u, NEW w, NEW mem, NEW s, NEW st, NEW st2, NEW k, NEW l,
         View(u, st2, l) = View(u, st, l), Truthful(u, w, mem, s, st, k, l)
  PROVE  Truthful(u, w, mem, s, st2, k, l)
BY DEF Truthful, Owing, Settled

\* Transaction e of w is sent: no other of w is for the bytes it writes, and it
\* carries what the memory holds.
Sends(u, w, w2, mem, e, k, l) ==
  /\ \A r \in w2 : r \in w
  /\ \A i \in 1 .. u.org.transaction :
       /\ e.type = "read" /\ e.address = l /\ Has(e, i) =>
            e.owed[i] = Known(mem, ByteAt(u, k, l, i)) /\ \A r \in w : ~Covers(u, r, k, l, i)
       /\ Writes(e, l, i) => e.payload[i] = Known(mem, ByteAt(u, k, l, i))
       /\ \A r \in w : Covers(u, r, k, l, i) => r \in w2 \/ Writes(e, l, i)
       /\ \A r \in w2 : ~(Writes(e, l, i) /\ Covers(u, r, k, l, i))

\* and when one is sent.
LEMMA TruthfulSent ==
  ASSUME NEW u, NEW w, NEW w2, NEW mem, NEW s, NEW t, Len(s) \in Nat, NEW e,
         Extended(t, s, e), NEW st, NEW k, NEW l, Sends(u, w, w2, mem, e, k, l),
         Truthful(u, w, mem, s, st, k, l)
  PROVE  Truthful(u, w2, mem, t, st, k, l)
<1>1. Len(t) = Len(s) + 1 /\ t[Len(s) + 1] = e /\ \A j \in 1 .. Len(s) : t[j] = s[j]
  BY DEF Extended
<1>2. Owing(u, t, st, l)
  <2> SUFFICES ASSUME NEW j \in 1 .. Len(t), t[j].type = "read", t[j].address = l,
                      NEW i \in 1 .. u.org.transaction, Has(t[j], i)
               PROVE  Leaves(t, j - 1, l, i, View(u, st, l)[i], t[j].owed[i])
    BY DEF Owing
  <2>1. j - 1 \in Nat /\ \A m \in 1 .. j - 1 : t[m] = s[m]
    BY <1>1
  <2>2. Leaves(s, j - 1, l, i, View(u, st, l)[i], t[j].owed[i])
    <3>1. CASE j \in 1 .. Len(s)
      <4>1. t[j] = s[j]
        BY <1>1, <3>1
      <4> QED BY <3>1, <4>1 DEF Truthful, Owing
    <3>2. CASE j = Len(s) + 1
      <4>1. j - 1 = Len(s) /\ t[j] = e
        BY <1>1, <3>2
      <4>2. /\ e.owed[i] = Known(mem, ByteAt(u, k, l, i))
            /\ \A r \in w : ~Covers(u, r, k, l, i)
        BY <4>1 DEF Sends
      <4> QED BY <4>1, <4>2 DEF Truthful, Settled
    <3> QED BY <1>1, <3>1, <3>2
  <2> QED BY <2>1, <2>2, LeavesAgain
<1>3. Settled(u, w2, mem, t, st, k, l)
  <2> SUFFICES ASSUME NEW i \in 1 .. u.org.transaction
               PROVE  /\ \A r \in w2 : Covers(u, r, k, l, i) =>
                                         r.payload[i] = Known(mem, ByteAt(u, k, l, i))
                      /\ (\A r \in w2 : ~Covers(u, r, k, l, i)) =>
                           Leaves(t, Len(t), l, i, View(u, st, l)[i],
                                  Known(mem, ByteAt(u, k, l, i)))
    BY DEF Settled
  <2> DEFINE v == View(u, st, l)[i]
             x == Known(mem, ByteAt(u, k, l, i))
  <2>1. \A r \in w2 : Covers(u, r, k, l, i) => r.payload[i] = x
    BY DEF Sends, Truthful, Settled
  <2>2. ASSUME \A r \in w2 : ~Covers(u, r, k, l, i)
        PROVE  Leaves(t, Len(s) + 1, l, i, v, x)
    <3>1. CASE Writes(e, l, i)
      <4>1. e.payload[i] = x
        BY <3>1 DEF Sends
      <4>2. Len(s) + 1 \in 1 .. Len(s) + 1 /\ (Len(s) + 1) + 1 .. Len(s) + 1 = {}
        OBVIOUS
      <4> HIDE DEF x
      <4> QED BY <1>1, <3>1, <4>1, <4>2 DEF Leaves
    <3>2. CASE ~Writes(e, l, i)
      <4>1. \A r \in w : ~Covers(u, r, k, l, i)
        BY <2>2, <3>2 DEF Sends
      <4>2. Leaves(s, Len(s), l, i, v, x)
        BY <4>1 DEF Truthful, Settled
      <4> HIDE DEF v, x
      <4>3. Leaves(t, Len(s) + 1, l, i, v,
                   IF Writes(t[Len(s) + 1], l, i) THEN t[Len(s) + 1].payload[i] ELSE x)
        BY <1>1, <4>2, LeavesMore
      <4> QED BY <1>1, <3>2, <4>3
    <3> QED BY <3>1, <3>2
  <2> QED BY <1>1, <2>1, <2>2
<1> QED BY <1>2, <1>3 DEF Truthful

\* The paths of the controllers: a request is taken from the queue, moves into it,
\* passes it, or joins at the end.
LEMMA PathServed ==
  ASSUME NEW S, NEW q \in Seq(S), NEW g \in Seq(S), NEW m \in DOMAIN q
  PROVE  /\ Without(RemoveAt(q, m) \o g, q \o g, m) /\ Len(q \o g) \in Nat
         /\ \A j \in 1 .. m : j \in DOMAIN q /\ (q \o g)[j] = q[j]
<1> DEFINE p == SubSeq(q, 1, m - 1)
           r == SubSeq(q, m + 1, Len(q))
           t == RemoveAt(q, m)
<1>1. Len(q) \in Nat /\ DOMAIN q = 1 .. Len(q) /\ Len(g) \in Nat
  BY LenProperties
<1>2. /\ p \in Seq(S) /\ Len(p) = m - 1 /\ \A j \in 1 .. m - 1 : p[j] = q[j]
  BY <1>1
<1>3. /\ r \in Seq(S) /\ Len(r) = Len(q) - m
      /\ \A j \in 1 .. Len(q) - m : r[j] = q[m + j]
  BY <1>1
<1>4. t = p \o r
  BY DEF RemoveAt
<1> HIDE DEF p, r, t
<1>5. /\ t \in Seq(S) /\ Len(t) = Len(p) + Len(r)
      /\ \A j \in 1 .. Len(p) + Len(r) : t[j] = IF j <= Len(p) THEN p[j] ELSE r[j - Len(p)]
  BY <1>2, <1>3, <1>4, ConcatProperties
<1>6. Len(t) = Len(q) - 1
      /\ \A j \in 1 .. Len(t) : t[j] = IF j < m THEN q[j] ELSE q[j + 1]
  <2>1. Len(t) = Len(q) - 1
    BY <1>1, <1>2, <1>3, <1>5
  <2>2. ASSUME NEW j \in 1 .. Len(t)
        PROVE  t[j] = IF j < m THEN q[j] ELSE q[j + 1]
    <3>1. CASE j < m
      <4>1. j \in 1 .. m - 1 /\ j <= Len(p) /\ j \in 1 .. Len(p) + Len(r)
        BY <1>1, <1>2, <1>3, <2>1, <3>1
      <4> QED BY <1>2, <1>5, <3>1, <4>1
    <3>2. CASE ~(j < m)
      <4>1. j - Len(p) \in 1 .. Len(q) - m /\ m + (j - Len(p)) = j + 1 /\ ~(j <= Len(p))
            /\ j \in 1 .. Len(p) + Len(r)
        BY <1>1, <1>2, <1>3, <2>1, <3>2, SMTT(60)
      <4> QED BY <1>3, <1>5, <3>2, <4>1
    <3> QED BY <3>1, <3>2
  <2> QED BY <2>1, <2>2
<1>7. /\ Len(q \o g) = Len(q) + Len(g)
      /\ \A j \in 1 .. Len(q) + Len(g) : (q \o g)[j] = IF j <= Len(q) THEN q[j] ELSE g[j - Len(q)]
  BY ConcatProperties
<1>8. /\ Len(t \o g) = Len(t) + Len(g)
      /\ \A j \in 1 .. Len(t) + Len(g) : (t \o g)[j] = IF j <= Len(t) THEN t[j] ELSE g[j - Len(t)]
  <2>1. t \in Seq(S)
    BY <1>5
  <2> QED BY <2>1, ConcatProperties
<1> DEFINE a == q \o g
           b == t \o g
<1> HIDE DEF a, b
<1>9. ASSUME NEW j \in 1 .. Len(b)
      PROVE  b[j] = IF j < m THEN a[j] ELSE a[j + 1]
  <2>1. j \in Nat /\ j >= 1 /\ j <= Len(t) + Len(g) /\ Len(t) = Len(q) - 1 /\ m \in 1 .. Len(q)
    BY <1>1, <1>6, <1>8 DEF b
  <2>2. CASE j <= Len(t)
    <3>1. b[j] = t[j] /\ j \in 1 .. Len(t)
      BY <1>1, <1>8, <2>1, <2>2 DEF b
    <3>2. a[j] = q[j] /\ a[j + 1] = q[j + 1]
      <4>1. j \in 1 .. Len(q) + Len(g) /\ j + 1 \in 1 .. Len(q) + Len(g) /\ j <= Len(q) /\ j + 1 <= Len(q)
        BY <1>1, <2>1, <2>2
      <4> QED BY <1>7, <4>1 DEF a
    <3> QED BY <1>6, <3>1, <3>2
  <2>3. CASE ~(j <= Len(t))
    <3>1. b[j] = g[j - Len(t)]
      BY <1>8, <2>1, <2>3 DEF b
    <3>2. a[j + 1] = g[j + 1 - Len(q)] /\ ~(j < m) /\ j + 1 - Len(q) = j - Len(t)
      <4>1. j + 1 \in 1 .. Len(q) + Len(g) /\ ~(j + 1 <= Len(q)) /\ ~(j < m)
            /\ j + 1 - Len(q) = j - Len(t)
        BY <1>1, <2>1, <2>3
      <4> QED BY <1>7, <4>1 DEF a
    <3> QED BY <3>1, <3>2
  <2> QED BY <2>2, <2>3
<1>10. m \in 1 .. Len(a) /\ Len(b) = Len(a) - 1 /\ Len(a) \in Nat
  BY <1>1, <1>6, <1>7, <1>8 DEF a, b
<1>11. \A j \in 1 .. m : j \in DOMAIN q /\ a[j] = q[j]
  <2>1. \A j \in 1 .. m : j \in 1 .. Len(q) /\ j \in 1 .. Len(q) + Len(g) /\ j <= Len(q)
    BY <1>1
  <2> QED BY <1>1, <1>7, <2>1 DEF a
<1> QED BY <1>9, <1>10, <1>11 DEF Without, a, b, t

\* A step of the system moves the oldest request of a stack into a queue, or past
\* the queues of the other channels.
LEMMA PathMoved ==
  ASSUME NEW S, NEW q \in Seq(S), NEW g \in Seq(S), g # <<>>
  PROVE  /\ Append(q, Head(g)) \o Tail(g) = q \o g
         /\ Without(q \o Tail(g), q \o g, Len(q) + 1) /\ Len(q \o g) \in Nat
         /\ (q \o g)[Len(q) + 1] = Head(g)
<1> DEFINE h == Head(g)
           r == Tail(g)
           p == Append(q, h)
<1>1. Len(q) \in Nat /\ Len(g) \in Nat \ {0} /\ DOMAIN q = 1 .. Len(q)
  BY EmptySeq, LenProperties
<1>2. /\ h \in S /\ r \in Seq(S) /\ Len(r) = Len(g) - 1 /\ h = g[1]
      /\ \A j \in 1 .. Len(r) : r[j] = g[j + 1]
  <2>1. h \in S /\ r \in Seq(S) /\ Len(r) = Len(g) - 1 /\ \A j \in 1 .. Len(r) : r[j] = g[j + 1]
    BY HeadTailProperties
  <2>2. h = g[1]
    OBVIOUS
  <2> QED BY <2>1, <2>2
<1> HIDE DEF h, r
<1>3. /\ p \in Seq(S) /\ Len(p) = Len(q) + 1 /\ p[Len(q) + 1] = h
      /\ \A j \in 1 .. Len(q) : p[j] = q[j]
  BY <1>2, AppendProperties
<1> HIDE DEF p
<1> DEFINE a == q \o g
           b == p \o r
           d == q \o r
<1>4. /\ a \in Seq(S) /\ Len(a) = Len(q) + Len(g)
      /\ \A j \in 1 .. Len(q) + Len(g) : a[j] = IF j <= Len(q) THEN q[j] ELSE g[j - Len(q)]
  BY ConcatProperties
<1>5. /\ b \in Seq(S) /\ Len(b) = Len(p) + Len(r)
      /\ \A j \in 1 .. Len(p) + Len(r) : b[j] = IF j <= Len(p) THEN p[j] ELSE r[j - Len(p)]
  <2>1. p \in Seq(S) /\ r \in Seq(S)
    BY <1>2, <1>3
  <2> QED BY <2>1, ConcatProperties
<1>6. /\ d \in Seq(S) /\ Len(d) = Len(q) + Len(r)
      /\ \A j \in 1 .. Len(q) + Len(r) : d[j] = IF j <= Len(q) THEN q[j] ELSE r[j - Len(q)]
  <2>1. r \in Seq(S)
    BY <1>2
  <2> QED BY <2>1, ConcatProperties
<1> HIDE DEF a, b, d
<1>7. b = a
  <2>1. Len(b) = Len(a)
    BY <1>1, <1>2, <1>3, <1>4, <1>5
  <2>2. ASSUME NEW j \in 1 .. Len(a)
        PROVE  b[j] = a[j]
    <3>1. CASE j <= Len(q)
      <4>1. j \in 1 .. Len(q) /\ j <= Len(p) /\ j \in 1 .. Len(p) + Len(r) /\ j \in 1 .. Len(q) + Len(g)
        BY <1>1, <1>2, <1>3, <1>4, <3>1
      <4> QED BY <1>3, <1>4, <1>5, <3>1, <4>1
    <3>2. CASE j = Len(q) + 1
      <4>1. /\ j <= Len(p) /\ j \in 1 .. Len(p) + Len(r) /\ j \in 1 .. Len(q) + Len(g)
            /\ ~(j <= Len(q)) /\ j - Len(q) = 1
        BY <1>1, <1>2, <1>3, <1>4, <3>2
      <4>2. b[j] = h
        BY <1>3, <1>5, <3>2, <4>1
      <4>3. a[j] = g[1]
        BY <1>4, <4>1
      <4> QED BY <1>2, <4>2, <4>3
    <3>3. CASE j > Len(q) + 1
      <4>1. /\ ~(j <= Len(p)) /\ j \in 1 .. Len(p) + Len(r) /\ j \in 1 .. Len(q) + Len(g)
            /\ ~(j <= Len(q)) /\ j - Len(p) \in 1 .. Len(r)
            /\ (j - Len(p)) + 1 = j - Len(q)
        BY <1>1, <1>2, <1>3, <1>4, <3>3
      <4>2. b[j] = r[j - Len(p)]
        BY <1>5, <4>1
      <4>3. a[j] = g[j - Len(q)]
        BY <1>4, <4>1
      <4> QED BY <1>2, <4>1, <4>2, <4>3
    <3>4. j \in Nat
      BY <1>4
    <3> QED BY <1>1, <3>1, <3>2, <3>3, <3>4
  <2> QED BY <1>4, <1>5, <2>1, <2>2, SeqEqual
<1>8. Without(d, a, Len(q) + 1)
  <2>1. Len(q) + 1 \in 1 .. Len(a) /\ Len(d) = Len(a) - 1
    BY <1>1, <1>2, <1>4, <1>6
  <2>2. ASSUME NEW j \in 1 .. Len(d)
        PROVE  d[j] = IF j < Len(q) + 1 THEN a[j] ELSE a[j + 1]
    <3>0. j \in Nat
      BY <1>6
    <3>1. CASE j < Len(q) + 1
      <4>1. j <= Len(q) /\ j \in 1 .. Len(q) + Len(r) /\ j \in 1 .. Len(q) + Len(g)
        BY <1>1, <1>2, <1>6, <3>0, <3>1
      <4> QED BY <1>4, <1>6, <3>1, <4>1
    <3>2. CASE ~(j < Len(q) + 1)
      <4>1. /\ ~(j <= Len(q)) /\ j \in 1 .. Len(q) + Len(r) /\ j + 1 \in 1 .. Len(q) + Len(g)
            /\ ~(j + 1 <= Len(q)) /\ j - Len(q) \in 1 .. Len(r)
            /\ (j - Len(q)) + 1 = (j + 1) - Len(q)
        BY <1>1, <1>2, <1>6, <3>0, <3>2
      <4>2. d[j] = r[j - Len(q)]
        BY <1>6, <4>1
      <4>3. a[j + 1] = g[(j + 1) - Len(q)]
        BY <1>4, <4>1
      <4> QED BY <1>2, <3>2, <4>1, <4>2, <4>3
    <3> QED BY <3>1, <3>2
  <2> QED BY <2>1, <2>2 DEF Without
<1>9. a[Len(q) + 1] = h /\ Len(a) \in Nat
  <2>1. /\ Len(q) + 1 \in 1 .. Len(q) + Len(g) /\ ~(Len(q) + 1 <= Len(q))
        /\ (Len(q) + 1) - Len(q) = 1
    BY <1>1
  <2>2. a[Len(q) + 1] = g[1]
    BY <1>4, <2>1
  <2>3. Len(a) \in Nat
    BY <1>1, <1>4
  <2> QED BY <1>2, <2>2, <2>3
<1> QED BY <1>7, <1>8, <1>9 DEF a, b, d, h, r, p

\* A routed transaction joins the path of every controller of its stack.
LEMMA PathExtended ==
  ASSUME NEW S, NEW q \in Seq(S), NEW g \in Seq(S), NEW e \in S
  PROVE  Extended(q \o Append(g, e), q \o g, e) /\ Len(q \o g) \in Nat
<1> DEFINE p == Append(g, e)
           a == q \o g
           b == q \o p
<1>1. Len(q) \in Nat /\ Len(g) \in Nat
  BY LenProperties
<1>2. /\ p \in Seq(S) /\ Len(p) = Len(g) + 1 /\ p[Len(g) + 1] = e
      /\ \A j \in 1 .. Len(g) : p[j] = g[j]
  BY AppendProperties
<1> HIDE DEF p
<1>3. /\ Len(a) = Len(q) + Len(g)
      /\ \A j \in 1 .. Len(q) + Len(g) : a[j] = IF j <= Len(q) THEN q[j] ELSE g[j - Len(q)]
  BY ConcatProperties
<1>4. /\ Len(b) = Len(q) + Len(p)
      /\ \A j \in 1 .. Len(q) + Len(p) : b[j] = IF j <= Len(q) THEN q[j] ELSE p[j - Len(q)]
  <2>1. p \in Seq(S)
    BY <1>2
  <2> QED BY <2>1, ConcatProperties
<1> HIDE DEF a, b
<1>5. Len(b) = Len(a) + 1 /\ Len(a) \in Nat
  BY <1>1, <1>2, <1>3, <1>4
<1>6. b[Len(a) + 1] = e
  <2>1. /\ Len(a) + 1 \in 1 .. Len(q) + Len(p) /\ ~(Len(a) + 1 <= Len(q))
        /\ (Len(a) + 1) - Len(q) = Len(g) + 1
    BY <1>1, <1>2, <1>3
  <2> QED BY <1>2, <1>4, <2>1
<1>7. ASSUME NEW j \in 1 .. Len(a)
      PROVE  b[j] = a[j]
  <2>1. j \in Nat /\ j \in 1 .. Len(q) + Len(p) /\ j \in 1 .. Len(q) + Len(g)
    BY <1>1, <1>2, <1>3
  <2>2. CASE j <= Len(q)
    BY <1>3, <1>4, <2>1, <2>2
  <2>3. CASE ~(j <= Len(q))
    <3>1. j - Len(q) \in 1 .. Len(g)
      BY <1>1, <1>3, <2>1, <2>3
    <3> QED BY <1>2, <1>3, <1>4, <2>1, <2>3, <3>1
  <2> QED BY <2>2, <2>3
<1> QED BY <1>5, <1>6, <1>7 DEF Extended, a, b, p

-----------------------------------------------------------------------------
(* Where the bytes of a transaction are *)

\* Multiples of a number, below and above one another.
LEMMA MultipleOf ==
  ASSUME NEW t \in Nat \ {0}, NEW a \in Nat
  PROVE  /\ a % t = 0 => a = (a \div t) * t
         /\ \A q \in Nat : a = q * t => a % t = 0 /\ a \div t = q
<1>1. a % t = 0 => a = (a \div t) * t
  <2>1. /\ a \div t \in Nat /\ a % t \in 0 .. t - 1 /\ a = (a \div t) * t + (a % t)
    BY Division
  <2>2. (a \div t) * t \in Nat
    BY <2>1, ProductNat
  <2> QED BY <2>1, <2>2
<1>2. ASSUME NEW q \in Nat, a = q * t
      PROVE  a % t = 0 /\ a \div t = q
  <2>1. (q * t + 0) \div t = q /\ (q * t + 0) % t = 0
    BY DivisionUnique
  <2>2. q * t \in Nat
    BY ProductNat
  <2> QED BY <1>2, <2>1, <2>2
<1> QED BY <1>1, <1>2

\* Two of them are at least that number apart, and add up to one.
LEMMA MultiplesApart ==
  ASSUME NEW t \in Nat \ {0}, NEW a \in Nat, NEW b \in Nat, a % t = 0, b % t = 0
  PROVE  /\ a < b => a + t <= b
         /\ (a + b) % t = 0
<1> DEFINE p == a \div t
           q == b \div t
<1>1. p \in Nat /\ q \in Nat /\ a = p * t /\ b = q * t
  BY MultipleOf, Division
<1> HIDE DEF p, q
<1>2. ASSUME a < b
      PROVE  a + t <= b
  <2>1. CASE p < q
    <3>1. q - (p + 1) \in Nat /\ (q - (p + 1)) * t \in Nat
      <4>1. q - (p + 1) \in Nat
        BY <1>1, <2>1
      <4> QED BY <4>1, ProductNat
    <3>2. q * t = p * t + t + (q - (p + 1)) * t
      BY <1>1
    <3>3. p * t \in Nat
      BY <1>1, ProductNat
    <3> QED BY <1>1, <3>1, <3>2, <3>3
  <2>2. CASE q <= p
    <3>1. p - q \in Nat /\ (p - q) * t \in Nat
      <4>1. p - q \in Nat
        BY <1>1, <2>2
      <4> QED BY <4>1, ProductNat
    <3>2. p * t = q * t + (p - q) * t
      BY <1>1
    <3>3. q * t \in Nat
      BY <1>1, ProductNat
    <3> QED BY <1>1, <1>2, <3>1, <3>2, <3>3
  <2> QED BY <1>1, <2>1, <2>2
<1>3. (a + b) % t = 0
  <2>1. a + b = (p + q) * t
    BY <1>1
  <2>2. p + q \in Nat /\ a + b \in Nat
    BY <1>1
  <2> QED BY <2>1, <2>2, MultipleOf
<1> QED BY <1>2, <1>3

\* So is the rest of one divided by another, and every multiple of one.
LEMMA MultiplesDivide ==
  ASSUME NEW t \in Nat \ {0}, NEW a \in Nat, NEW s \in Nat \ {0}, a % t = 0, s % t = 0
  PROVE  /\ (a % s) % t = 0
         /\ \A n \in Nat : (n * s) % t = 0
<1> DEFINE A == a \div t
           m == s \div t
<1>1. A \in Nat /\ m \in Nat /\ a = A * t /\ s = m * t
  BY MultipleOf, Division
<1> HIDE DEF A, m
<1>2. m # 0
  BY <1>1
<1> DEFINE q == A \div m
           r == A % m
<1>3. q \in Nat /\ r \in 0 .. m - 1 /\ A = q * m + r
  BY <1>1, <1>2, Division
<1> HIDE DEF q, r
<1>4. q * m \in Nat /\ r \in Nat /\ m - 1 - r \in Nat
  BY <1>1, <1>3, ProductNat
<1>5. a = (q * m) * t + r * t
  BY <1>1, <1>3, <1>4
<1>6. (q * m) * t = q * s
  BY <1>1, <1>3
<1>7. r * t \in Nat /\ (m - 1 - r) * t \in Nat
  BY <1>4, ProductNat
<1>8. m * t = r * t + (m - 1 - r) * t + t
  BY <1>1, <1>4
<1>9. r * t \in 0 .. s - 1
  BY <1>1, <1>7, <1>8
<1>10. a % s = r * t
  <2>1. (q * s + r * t) % s = r * t
    BY <1>3, <1>9, DivisionUnique
  <2> QED BY <1>5, <1>6, <2>1
<1>11. (a % s) % t = 0
  <2>1. a % s \in Nat
    BY <1>7, <1>10
  <2> QED BY <1>4, <1>10, <2>1, MultipleOf
<1>12. ASSUME NEW n \in Nat
       PROVE  (n * s) % t = 0
  <2>1. n * s = (n * m) * t
    BY <1>1
  <2>2. n * m \in Nat /\ n * s \in Nat
    BY <1>1, ProductNat
  <2> QED BY <2>1, <2>2, MultipleOf
<1> QED BY <1>11, <1>12

\* A host line, a stripe and a stack have whole transactions.
LEMMA WholeTransactions ==
  ASSUME NEW u, Legal(u)
  PROVE  /\ u.org.transaction \in Nat \ {0} /\ u.org.line \in Nat \ {0}
         /\ u.org.line % u.org.transaction = 0
         /\ u.map.capacity \in Nat \ {0} /\ u.map.capacity % u.org.transaction = 0
         /\ u.map.capacity = Volume(u.org) * u.org.transaction /\ Volume(u.org) \in Nat
         /\ u.map.interleave \in Nat \ {0}
         /\ u.map.kind = "interleaved" => u.map.interleave % u.org.transaction = 0
         /\ u.map \in StackMaps
<1> DEFINE t == u.org.transaction
           n == u.org.line
           c == u.map.capacity
           s == u.map.interleave
<1>1. t \in Nat \ {0} /\ n \in Nat \ {0} /\ u.map \in StackMaps /\ u.org \in Organizations
  BY LegalParts
<1>2. c \in Nat \ {0} /\ s \in Nat \ {0}
  BY <1>1 DEF StackMaps
<1>3. n % t = 0 /\ c = Volume(u.org) * t /\ (u.map.kind = "interleaved" => s % n = 0)
  BY DEF Legal, GeometryAllowed
<1>4. Volume(u.org) \in Nat
  <2>1. \A i \in 1 .. 8 : DigitSize(u.org, i) \in Nat
    <3> SUFFICES ASSUME NEW i \in 1 .. 8
                 PROVE  DigitSize(u.org, i) \in Nat
      OBVIOUS
    <3> DEFINE d == DigitOrder(u.org.template)
    <3>0. NamesDigits(d)
      BY <1>1, TemplateNamesDigits
    <3> HIDE DEF d
    <3>1. d \in Seq(Fields) /\ Len(d) = 8
      BY <3>0 DEF NamesDigits
    <3>2. d[i] \in Fields
      <4>1. DOMAIN d = 1 .. 8 /\ d \in [1 .. 8 -> Fields]
        BY <3>1, LenProperties
      <4> QED BY <4>1
    <3> QED BY <1>1, <3>2 DEF DigitSize, Organizations, d
  <2> DEFINE D(i) == DigitSize(u.org, i)
  <2>2. D(1) \in Nat /\ D(2) \in Nat /\ D(3) \in Nat /\ D(4) \in Nat /\ D(5) \in Nat
        /\ D(6) \in Nat /\ D(7) \in Nat /\ D(8) \in Nat
    BY <2>1
  <2> HIDE DEF D
  <2>3. D(7) * D(8) \in Nat
    BY <2>2, ProductNat
  <2>4. D(6) * (D(7) * D(8)) \in Nat
    BY <2>2, <2>3, ProductNat
  <2>5. D(5) * (D(6) * (D(7) * D(8))) \in Nat
    BY <2>2, <2>4, ProductNat
  <2>6. D(4) * (D(5) * (D(6) * (D(7) * D(8)))) \in Nat
    BY <2>2, <2>5, ProductNat
  <2>7. D(3) * (D(4) * (D(5) * (D(6) * (D(7) * D(8))))) \in Nat
    BY <2>2, <2>6, ProductNat
  <2>8. D(2) * (D(3) * (D(4) * (D(5) * (D(6) * (D(7) * D(8)))))) \in Nat
    BY <2>2, <2>7, ProductNat
  <2>9. D(1) * (D(2) * (D(3) * (D(4) * (D(5) * (D(6) * (D(7) * D(8))))))) \in Nat
    BY <2>2, <2>8, ProductNat
  <2> QED BY <2>9 DEF Volume, D
<1>5. c % t = 0
  BY <1>1, <1>2, <1>3, <1>4, MultipleOf
<1>6. u.map.kind = "interleaved" => s % t = 0
  <2> SUFFICES ASSUME u.map.kind = "interleaved"
               PROVE  s % t = 0
    OBVIOUS
  <2>1. s = (s \div n) * n /\ s \div n \in Nat
    BY <1>1, <1>2, <1>3, MultipleOf, Division
  <2>2. ((s \div n) * n) % t = 0
    <3> DEFINE q == s \div n
    <3>1. q \in Nat
      BY <2>1
    <3> HIDE DEF q
    <3>2. (q * n) % t = 0
      BY <1>1, <1>3, <3>1, MultiplesDivide
    <3> QED BY <3>2 DEF q
  <2> QED BY <2>1, <2>2
<1> QED BY <1>1, <1>2, <1>3, <1>4, <1>5, <1>6

\* The coordinates of a line are its own: no other line is at the same row and
\* column of the same bank.
LEMMA HomesDiffer ==
  ASSUME NEW u, Legal(u), ~u.org.efficiency, NEW l \in Lines(u)
  PROVE  /\ Home(u, l) \in Places(u.org) /\ l \in Nat
         /\ \A m \in Lines(u) :
              BankKey(Home(u, m)) = BankKey(Home(u, l))
              /\ Home(u, m)["row"] = Home(u, l)["row"]
              /\ Home(u, m)["column"] = Home(u, l)["column"] => m = l
<1> DEFINE t == u.org.transaction
           c == u.map.capacity
           v == Volume(u.org)
<1>1. /\ t \in Nat \ {0} /\ c \in Nat \ {0} /\ c = v * t /\ v \in Nat
      /\ u.org \in Organizations
  BY WholeTransactions, LegalParts
<1>2. \A m \in Lines(u) : m \in Nat /\ m < c /\ m % t = 0
  BY <1>1 DEF Lines
<1>3. \A m \in Lines(u) : Home(u, m) \in Places(u.org)
  BY <1>1, <1>2, DecodePlaces DEF Home
<1>4. ASSUME NEW m \in Lines(u), Home(u, m) = Home(u, l)
      PROVE  m = l
  <2>1. m \div t < v /\ l \div t < v
    <3>1. v * t = t * v
      BY <1>1
    <3> HIDE DEF t, c, v
    <3> QED BY <1>1, <1>2, <3>1, QuotientBound
  <2>2. m \div t = l \div t
    BY <1>1, <1>2, <1>4, <2>1, CoordinatesAreUnique DEF Home
  <2>3. m = (m \div t) * t /\ l = (l \div t) * t
    BY <1>1, <1>2, MultipleOf
  <2> HIDE DEF t
  <2> QED BY <2>2, <2>3
<1>5. ASSUME NEW m \in Lines(u), BankKey(Home(u, m)) = BankKey(Home(u, l)),
             Home(u, m)["row"] = Home(u, l)["row"],
             Home(u, m)["column"] = Home(u, l)["column"]
      PROVE  Home(u, m) = Home(u, l)
  <2> DEFINE a == Home(u, m)
             b == Home(u, l)
  <2>1. a \in [Fields -> Nat] /\ b \in [Fields -> Nat]
    BY <1>3 DEF Places
  <2> HIDE DEF a, b
  <2>2. ASSUME NEW f \in Fields
        PROVE  a[f] = b[f]
    <3>1. CASE f = "row" \/ f = "column"
      BY <1>5, <3>1 DEF a, b
    <3>2. CASE f # "row" /\ f # "column"
      <4>1. BankKey(a)[f] = a[f] /\ BankKey(b)[f] = b[f]
        BY <2>1, <3>2 DEF BankKey
      <4> QED BY <1>5, <4>1 DEF a, b
    <3> QED BY <3>1, <3>2
  <2>3. a = b
    BY <2>1, <2>2
  <2> QED BY <2>3 DEF a, b
<1>6. ASSUME NEW m \in Lines(u), BankKey(Home(u, m)) = BankKey(Home(u, l)),
             Home(u, m)["row"] = Home(u, l)["row"],
             Home(u, m)["column"] = Home(u, l)["column"]
      PROVE  m = l
  BY <1>4, <1>5, <1>6
<1> QED BY <1>2, <1>3, <1>6

\* Byte i of a line is a byte of the stack, and of the transaction of the line.
LEMMA LineBounds ==
  ASSUME NEW u, Legal(u), NEW l \in Lines(u), NEW i \in 1 .. u.org.transaction
  PROVE  l + (i - 1) \in Nat /\ l + (i - 1) < u.map.capacity /\ l \in Nat
<1> DEFINE t == u.org.transaction
           c == u.map.capacity
<1>1. t \in Nat \ {0} /\ c \in Nat \ {0} /\ c % t = 0
  BY WholeTransactions
<1>2. l \in Nat /\ l < c /\ l % t = 0
  BY <1>1 DEF Lines
<1> HIDE DEF t, c
<1>3. l + t <= c
  BY <1>1, <1>2, MultiplesApart
<1> QED BY <1>1, <1>2, <1>3 DEF t, c

\* No two bytes of the stacks have the same system address.
LEMMA BytesDiffer ==
  ASSUME NEW u, Legal(u), NEW k \in 0 .. u.map.stacks - 1, NEW k2 \in 0 .. u.map.stacks - 1,
         NEW l \in Lines(u), NEW l2 \in Lines(u),
         NEW i \in 1 .. u.org.transaction, NEW i2 \in 1 .. u.org.transaction,
         ByteAt(u, k, l, i) = ByteAt(u, k2, l2, i2)
  PROVE  k = k2 /\ l = l2 /\ i = i2
<1> DEFINE t == u.org.transaction
           m == u.map
           x == [stack |-> k, local |-> l + (i - 1)]
           y == [stack |-> k2, local |-> l2 + (i2 - 1)]
<1>1. t \in Nat \ {0} /\ m \in StackMaps
  BY WholeTransactions
<1>2. /\ l + (i - 1) \in Nat /\ l + (i - 1) < m.capacity /\ l \in Nat
      /\ l2 + (i2 - 1) \in Nat /\ l2 + (i2 - 1) < m.capacity /\ l2 \in Nat
  BY LineBounds
<1>3. k \in Nat /\ k2 \in Nat
  BY <1>1 DEF StackMaps
<1>4. x \in [stack : Nat, local : Nat] /\ InStacks(m, x)
  BY <1>2, <1>3 DEF InStacks
<1>5. y \in [stack : Nat, local : Nat] /\ InStacks(m, y)
  BY <1>2, <1>3 DEF InStacks
<1>6. x = y
  <2>1. StackDecode(m, StackEncode(m, x)) = x /\ StackDecode(m, StackEncode(m, y)) = y
    <3> HIDE DEF x, y
    <3> QED BY <1>1, <1>4, <1>5, DecodeUndoesEncode
  <2>2. StackEncode(m, x) = StackEncode(m, y)
    BY DEF ByteAt
  <2> QED BY <2>1, <2>2
<1>7. k = k2 /\ l + (i - 1) = l2 + (i2 - 1)
  BY <1>6
<1>8. l = l2
  <2>1. l % t = 0 /\ l2 % t = 0
    BY DEF Lines
  <2>2. l < l2 => l + t <= l2
    BY <1>1, <1>2, <2>1, MultiplesApart
  <2>3. l2 < l => l2 + t <= l
    BY <1>1, <1>2, <2>1, MultiplesApart
  <2>4. i \in 1 .. t /\ i2 \in 1 .. t
    OBVIOUS
  <2> HIDE DEF t
  <2> QED BY <1>1, <1>2, <1>7, <2>2, <2>3, <2>4
<1>9. i = i2
  <2>1. i \in 1 .. t /\ i2 \in 1 .. t
    OBVIOUS
  <2> HIDE DEF t
  <2> QED BY <1>1, <1>2, <1>7, <1>8, <2>1
<1> QED BY <1>7, <1>8, <1>9

\* The stripe of a transaction is not left by its bytes.
LEMMA StripeHolds ==
  ASSUME NEW u, Legal(u), NEW a \in Nat, a % u.org.transaction = 0,
         NEW d \in 0 .. u.org.transaction - 1
  PROVE  LET x == StackDecode(u.map, a)
         IN /\ StackEncode(u.map, [stack |-> x.stack, local |-> x.local + d]) = a + d
            /\ x.local \in Nat /\ x.local % u.org.transaction = 0
<1> DEFINE m == u.map
           t == u.org.transaction
           x == StackDecode(m, a)
           s == m.interleave
           c == m.capacity
           n == m.stacks
<1>1. /\ t \in Nat \ {0} /\ m \in StackMaps /\ s \in Nat \ {0} /\ c \in Nat \ {0}
      /\ c % t = 0 /\ (m.kind = "interleaved" => s % t = 0)
  BY WholeTransactions
<1>2. n \in Nat \ {0} /\ m.kind \in {"interleaved", "blocked"}
  BY <1>1 DEF StackMaps
<1>3. d \in Nat /\ d < t
  BY <1>1
<1>4. CASE n = 1
  BY <1>1, <1>3, <1>4 DEF StackDecode, StackEncode
<1>5. CASE n # 1 /\ m.kind = "blocked"
  <2>0. a = (a \div c) * c + (a % c) /\ a % c \in 0 .. c - 1 /\ a \div c \in Nat
    BY <1>1, Division
  <2>1. a = (a \div c) * c + (a % c) /\ a % c \in Nat /\ a \div c \in Nat
    BY <1>1, <2>0
  <2>2. x = [stack |-> a \div c, local |-> a % c]
    BY <1>5 DEF StackDecode
  <2>3. (a % c) % t = 0
    BY <1>1, MultiplesDivide
  <2>4. (a \div c) * c \in Nat
    BY <1>1, <2>1, ProductNat
  <2>5. StackEncode(m, [stack |-> x.stack, local |-> x.local + d]) = (a \div c) * c + ((a % c) + d)
    BY <1>5, <2>2 DEF StackEncode
  <2>6. (a \div c) * c + ((a % c) + d) = a + d
    BY <1>3, <2>1, <2>4
  <2> QED BY <2>1, <2>2, <2>3, <2>5, <2>6
<1>6. CASE n # 1 /\ m.kind = "interleaved"
  <2> DEFINE r == a % s
             q == (a \div s) \div n
  <2>0. r \in 0 .. s - 1 /\ a \div s \in Nat
    BY <1>1, Division
  <2>1. r \in 0 .. s - 1 /\ a \div s \in Nat /\ r \in Nat
    BY <1>1, <2>0
  <2>2. q \in Nat
    BY <1>2, <2>1, Division
  <2>3. r % t = 0 /\ (q * s) % t = 0 /\ q * s \in Nat
    <3>1. s \in Nat \ {0} /\ t \in Nat \ {0} /\ s % t = 0
      BY <1>1, <1>6
    <3>2. r % t = 0 /\ \A k \in Nat : (k * s) % t = 0
      BY <3>1, MultiplesDivide
    <3> HIDE DEF q
    <3>3. q * s \in Nat
      BY <2>2, <3>1, ProductNat
    <3> QED BY <2>2, <3>2, <3>3
  <2>4. x.local = q * s + r
    BY <1>6 DEF StackDecode
  <2> HIDE DEF r, q
  <2>5. x.local \in Nat /\ x.local % t = 0
    <3>1. (q * s + r) % t = 0
      BY <1>1, <2>1, <2>3, MultiplesApart
    <3>2. q * s + r \in Nat
      BY <2>1, <2>3
    <3> HIDE DEF x
    <3> QED BY <2>4, <3>1, <3>2
  <2>6. r + d < s
    <3>1. r + t <= s
      <4>1. r < s
        BY <1>1, <2>1
      <4> QED BY <1>1, <1>6, <2>1, <2>3, <4>1, MultiplesApart
    <3> QED BY <1>1, <1>3, <2>1, <3>1
  <2>7. StackDecode(m, a + d) = [stack |-> x.stack, local |-> x.local + d]
    BY <1>1, <1>3, <1>6, <2>6, StripesStayTogether DEF r
  <2>8. StackEncode(m, StackDecode(m, a + d)) = a + d
    <3>1. a + d \in Nat
      BY <1>3
    <3> QED BY <1>1, <3>1, EncodeUndoesDecode
  <2> QED BY <2>5, <2>7, <2>8
<1> QED BY <1>2, <1>4, <1>5, <1>6

\* A transaction that can be delivered is for one line of one stack.
LEMMA PlaceOf ==
  ASSUME NEW u, Legal(u), NEW r \in Incoming(u), r.type # "control",
         r.address % u.org.transaction = 0, Deliverable(u, r)
  PROVE  /\ TargetOf(u, r) \in 0 .. u.map.stacks - 1 /\ LocalOf(u, r) \in Lines(u)
         /\ \A d \in 0 .. u.org.transaction - 1 :
              (IF r.explicit THEN StackEncode(u.map, [stack |-> r.stack, local |-> r.address + d])
               ELSE r.address + d) = ByteAt(u, TargetOf(u, r), LocalOf(u, r), d + 1)
<1> DEFINE t == u.org.transaction
           a == r.address
           x == StackDecode(u.map, a)
<1>1. t \in Nat \ {0} /\ u.map.capacity \in Nat \ {0} /\ u.map \in StackMaps
  BY WholeTransactions
<1>2. a \in Nat
  BY DEF Incoming, Parts, PartRecords
<1>3. (r.explicit <=> r.stack # None) /\ Located(u, r.stack, a)
  BY DEF Deliverable
<1>4. \A d \in 0 .. t - 1 : (d + 1) - 1 = d
  BY <1>1
<1>5. CASE r.explicit
  <2>1. InStacks(u.map, [stack |-> r.stack, local |-> a])
    BY <1>3, <1>5 DEF Located
  <2>2. r.stack \in 0 .. u.map.stacks - 1 /\ a < u.map.capacity
    BY <2>1 DEF InStacks
  <2>3. TargetOf(u, r) = r.stack /\ LocalOf(u, r) = a
    BY <1>3, <1>5 DEF TargetOf, LocalOf
  <2>4. a \in Lines(u)
    BY <1>1, <1>2, <2>2 DEF Lines
  <2> QED BY <1>4, <1>5, <2>2, <2>3, <2>4 DEF ByteAt
<1>6. CASE ~r.explicit
  <2>1. InStacks(u.map, x)
    BY <1>3, <1>6 DEF Located
  <2>2. x.stack \in 0 .. u.map.stacks - 1 /\ x.local < u.map.capacity
    BY <2>1 DEF InStacks
  <2>3. TargetOf(u, r) = x.stack /\ LocalOf(u, r) = x.local
    BY <1>3, <1>6 DEF TargetOf, LocalOf
  <2>4. \A d \in 0 .. t - 1 :
          /\ StackEncode(u.map, [stack |-> x.stack, local |-> x.local + d]) = a + d
          /\ x.local \in Nat /\ x.local % t = 0
    BY <1>2, StripeHolds
  <2>5. 0 \in 0 .. t - 1
    BY <1>1
  <2> HIDE DEF x
  <2>6. x.local \in Lines(u)
    <3>1. x.local \in Nat /\ x.local % t = 0
      BY <2>4, <2>5
    <3> HIDE DEF t
    <3> QED BY <1>1, <2>2, <3>1 DEF Lines, t
  <2> QED BY <1>4, <1>6, <2>2, <2>3, <2>4, <2>6 DEF ByteAt
<1> QED BY <1>5, <1>6

\* Every column of an open row is there for the line it was loaded from, and holds
\* what the backend has when the row is not dirty.
Column(u, st, b, x) ==
  LET c == st.rows[b].columns[x]
  IN /\ c.base \in Lines(u) /\ BankKey(Home(u, c.base)) = b
     /\ Home(u, c.base)["row"] = st.rows[b].row /\ Home(u, c.base)["column"] = x
     /\ st.rows[b].dirty \/ c.bytes = Back(u, st.lines, c.base)
InPlace(u, st) ==
  \A b \in DOMAIN st.rows : \A x \in DOMAIN st.rows[b].columns : Column(u, st, b, x)

\* The block of line l in its open row is replaced.
Puts(u, st, st2, l, bytes, d) ==
  LET b == BankKey(Home(u, l))
  IN /\ DOMAIN st2.rows = DOMAIN st.rows
     /\ \A k \in DOMAIN st.rows : k # b => st2.rows[k] = st.rows[k]
     /\ st2.rows[b].row = st.rows[b].row
     /\ st2.rows[b].dirty <=> (st.rows[b].dirty \/ d)
     /\ st2.rows[b].columns = With(st.rows[b].columns, Home(u, l)["column"],
                                   [base |-> l, bytes |-> bytes])
     /\ \A m \in Lines(u) : Back(u, st2.lines, m) = Back(u, st.lines, m)

\* That is what the line holds then, and no other line is touched.
LEMMA PutsInPlace ==
  ASSUME NEW u, Legal(u), ~u.org.efficiency, NEW st, NEW st2, InPlace(u, st),
         NEW l \in Lines(u), NEW bytes, NEW d \in BOOLEAN, RowOpen(st, Home(u, l)),
         Puts(u, st, st2, l, bytes, d), d \/ bytes = View(u, st, l)
  PROVE  /\ InPlace(u, st2) /\ View(u, st2, l) = bytes
         /\ \A m \in Lines(u) : m # l => View(u, st2, m) = View(u, st, m)
<1> DEFINE b == BankKey(Home(u, l))
           x == Home(u, l)["column"]
           old == st.rows[b].columns
           blk == [base |-> l, bytes |-> bytes]
           new == With(old, x, blk)
<1>1. /\ b \in DOMAIN st.rows /\ st.rows[b].row = Home(u, l)["row"]
      /\ DOMAIN st2.rows = DOMAIN st.rows
      /\ st2.rows[b].row = st.rows[b].row /\ st2.rows[b].columns = new
      /\ st2.rows[b].dirty <=> (st.rows[b].dirty \/ d)
  BY DEF RowOpen, Puts
<1>2. \A k \in DOMAIN st.rows : k # b => st2.rows[k] = st.rows[k]
  BY DEF Puts
<1>3. DOMAIN new = DOMAIN old \cup {x} /\ new[x] = blk
      /\ \A y \in DOMAIN old : y # x => new[y] = old[y]
  BY DEF With
<1>4. \A m \in Lines(u) : Back(u, st2.lines, m) = Back(u, st.lines, m)
  BY DEF Puts
<1>5. blk.base = l /\ blk.bytes = bytes
  OBVIOUS
<1>6. \A m \in Lines(u) : BankKey(Home(u, m)) = b /\ Home(u, m)["row"] = Home(u, l)["row"]
                          /\ Home(u, m)["column"] = x => m = l
  BY HomesDiffer
<1>7. x \in DOMAIN old => old[x].base = l /\ View(u, st, l) = old[x].bytes
  <2>1. SUFFICES ASSUME x \in DOMAIN old
                 PROVE  old[x].base = l /\ View(u, st, l) = old[x].bytes
    OBVIOUS
  <2>2. Column(u, st, b, x)
    BY <1>1, <2>1 DEF InPlace
  <2>3. old[x].base = l
    BY <1>1, <1>6, <2>2 DEF Column
  <2>4. InColumn(u, st, l)
    BY <2>1 DEF InColumn
  <2> QED BY <2>3, <2>4 DEF View
<1>8. x \notin DOMAIN old => View(u, st, l) = Back(u, st.lines, l)
  BY DEF View, InColumn
<1> HIDE DEF blk, new
<1>9. View(u, st2, l) = bytes
  BY <1>1, <1>3, <1>5 DEF View, InColumn, RowOpen
<1>10. ASSUME NEW m \in Lines(u), m # l
       PROVE  View(u, st2, m) = View(u, st, m)
  <2> DEFINE h == Home(u, m)
  <2>1. CASE BankKey(h) # b
    BY <1>1, <1>2, <1>4, <2>1 DEF View, InColumn, RowOpen
  <2>2. CASE BankKey(h) = b /\ st.rows[b].row # h["row"]
    BY <1>1, <1>4, <2>2 DEF View, InColumn, RowOpen
  <2>3. CASE BankKey(h) = b /\ st.rows[b].row = h["row"]
    <3>1. h["column"] # x
      BY <1>1, <1>6, <1>10, <2>3
    <3>2. InColumn(u, st2, m) <=> InColumn(u, st, m)
      BY <1>1, <1>3, <2>3, <3>1 DEF InColumn, RowOpen
    <3>3. InColumn(u, st, m) => new[h["column"]] = old[h["column"]]
      BY <1>3, <2>3, <3>1 DEF InColumn
    <3> QED BY <1>1, <1>4, <2>3, <3>2, <3>3 DEF View
  <2> QED BY <2>1, <2>2, <2>3
<1>11. ASSUME NEW k \in DOMAIN st2.rows, NEW y \in DOMAIN st2.rows[k].columns
       PROVE  Column(u, st2, k, y)
  <2>1. CASE k # b
    <3>1. st2.rows[k] = st.rows[k] /\ k \in DOMAIN st.rows
      BY <1>1, <1>2, <2>1
    <3>2. Column(u, st, k, y)
      BY <1>11, <3>1 DEF InPlace
    <3> QED BY <1>4, <3>1, <3>2 DEF Column
  <2>2. CASE k = b /\ y # x
    <3>1. y \in DOMAIN old /\ new[y] = old[y]
      BY <1>1, <1>3, <1>11, <2>2
    <3>2. Column(u, st, b, y)
      BY <1>1, <3>1 DEF InPlace
    <3> QED BY <1>1, <1>4, <2>2, <3>1, <3>2 DEF Column
  <2>3. CASE k = b /\ y = x
    <3>1. st2.rows[b].dirty \/ bytes = Back(u, st2.lines, l)
      <4>1. CASE x \in DOMAIN old
        <5>1. Column(u, st, b, x)
          BY <1>1, <4>1 DEF InPlace
        <5> QED BY <1>1, <1>4, <1>7, <4>1, <5>1 DEF Column
      <4>2. CASE x \notin DOMAIN old
        BY <1>1, <1>4, <1>8, <4>2
      <4> QED BY <4>1, <4>2
    <3> QED BY <1>1, <1>3, <1>5, <2>3, <3>1 DEF Column
  <2> QED BY <2>1, <2>2, <2>3
<1> QED BY <1>9, <1>10, <1>11 DEF InPlace

\* A transaction that begins a line is for that line alone.
LEMMA OnePiece ==
  ASSUME Legal(setup), NEW r, r.address \in Lines(setup),
         r.size \in 1 .. setup.org.transaction
  PROVE  LET p == [base |-> r.address, offset |-> 0, from |-> 0, size |-> r.size, at |-> r.at]
         IN Pieces(r) = <<p>> /\ DOMAIN Pieces(r) = 1 .. 1 /\ Pieces(r)[1] = p
<1> DEFINE a == r.address
           t == setup.org.transaction
           n == r.size
           p == [base |-> a, offset |-> 0, from |-> 0, size |-> n, at |-> r.at]
<1>1. /\ t \in Nat \ {0} /\ a \in Nat /\ a % t = 0 /\ LineBytes = t
      /\ n \in Nat /\ n <= t
  BY WholeTransactions DEF Lines, LineBytes
<1>2. a - 0 = a /\ a - a = 0 /\ a + t - a = t /\ Min({n, t}) = n
  BY <1>1, MinPair
<1>3. Pieces(r) = <<p>> \o <<>>
  BY <1>1, <1>2 DEF Pieces
<1> HIDE DEF p
<1>4. <<p>> \o <<>> = <<p>>
  <2> DEFINE S == {p}
  <2>1. <<p>> \in Seq(S) /\ Len(<<p>>) = 1
    OBVIOUS
  <2> HIDE DEF S
  <2> QED BY <2>1, ConcatEmptySeq
<1> QED BY <1>3, <1>4 DEF p

\* A transaction that begins a line, and the part of the line it is for.
OfLine(u, r) ==
  r.address \in Lines(u) /\ r.size \in 1 .. u.org.transaction /\ r.at = Home(u, r.address)
PieceAt(u, l, n) ==
  [base |-> l, offset |-> 0, from |-> 0, size |-> n, at |-> Home(u, l)]

\* The block of an open row holds what is known of the line, and replacing it
\* replaces that.
LEMMA BlockOfLine ==
  ASSUME Legal(setup), ~setup.org.efficiency, NEW st \in Stored(setup),
         NEW l \in Lines(setup), RowOpen(st, Home(setup, l)),
         NEW n \in 1 .. setup.org.transaction
  PROVE  LET p == PieceAt(setup, l, n)
         IN /\ p \in PieceRecords(setup) /\ BankKey(p.at) \in DOMAIN st.rows
            /\ LineBlock(st, p) = [base |-> l, bytes |-> View(setup, st, l)]
            /\ View(setup, st, l) \in Bytes(setup.org.transaction)
            /\ \A b \in Bytes(setup.org.transaction) : \A d \in BOOLEAN :
                 Puts(setup, st, WithBlock(st, p, [base |-> l, bytes |-> b], d), l, b, d)
<1> DEFINE p == PieceAt(setup, l, n)
           T == setup.org.transaction
<1>1. /\ p.base = l /\ p.offset = 0 /\ p.from = 0 /\ p.size = n /\ p.at = Home(setup, l)
  BY DEF PieceAt
<1>2. Home(setup, l) \in Places(setup.org) /\ l \in Nat /\ T \in Nat
  BY HomesDiffer, WholeTransactions
<1>3. p \in PieceRecords(setup)
  BY <1>2 DEF PieceAt, PieceRecords
<1>4. BankKey(p.at) \in DOMAIN st.rows
  BY <1>1 DEF RowOpen
<1> HIDE DEF p
<1>5. LineBlock(st, p) = [base |-> l, bytes |-> View(setup, st, l)]
  <2>1. BackendLine(st, l) = Back(setup, st.lines, l)
    BY DEF BackendLine, Back, LineBytes
  <2>2. InColumn(setup, st, l)
          <=> Home(setup, l)["column"] \in DOMAIN st.rows[BankKey(Home(setup, l))].columns
    BY DEF InColumn
  <2> QED BY <1>1, <2>1, <2>2 DEF LineBlock, View
<1>6. View(setup, st, l) \in Bytes(T)
  <2>1. LineBlock(st, p) \in Blocks(setup)
    BY <1>3, <1>4, BlockTyped
  <2> QED BY <1>5, <2>1 DEF Blocks
<1>7. ASSUME NEW b \in Bytes(T), NEW d \in BOOLEAN
      PROVE  Puts(setup, st, WithBlock(st, p, [base |-> l, bytes |-> b], d), l, b, d)
  <2> DEFINE blk == [base |-> l, bytes |-> b]
             x == WithBlock(st, p, blk, d)
             k == BankKey(Home(setup, l))
             w == With(st.rows[k].columns, Home(setup, l)["column"], blk)
             e == st.rows[k].dirty \/ d
  <2>1. blk \in Blocks(setup)
    BY <1>2 DEF Blocks
  <2> HIDE DEF blk
  <2>2. /\ x.lines = st.lines /\ DOMAIN x.rows = DOMAIN st.rows
        /\ \A j \in DOMAIN st.rows : x.rows[j] =
             IF j = BankKey(p.at)
             THEN [row |-> st.rows[j].row, dirty |-> st.rows[j].dirty \/ d,
                   columns |-> With(st.rows[j].columns, p.at["column"], blk)]
             ELSE st.rows[j]
    BY <1>3, <1>4, <2>1, WithBlockTyped DEF KeepsRows
  <2> HIDE DEF x
  <2>3. x.rows[k] = [row |-> st.rows[k].row, dirty |-> e, columns |-> w]
    BY <1>1, <1>4, <2>2
  <2>4. \A j \in DOMAIN st.rows : j # k => x.rows[j] = st.rows[j]
    BY <1>1, <2>2
  <2> HIDE DEF w, e
  <2>5. x.rows[k].row = st.rows[k].row /\ x.rows[k].columns = w
    BY <2>3
  <2>6. x.rows[k].dirty <=> e
    BY <2>3
  <2> QED BY <2>2, <2>4, <2>5, <2>6 DEF Puts, x, w, e, blk
<1> QED BY <1>3, <1>4, <1>5, <1>6, <1>7 DEF p

\* The first n bytes of a sequence, put behind nothing.
LEMMA FirstBytes ==
  ASSUME NEW m \in Nat, NEW s \in Bytes(m), NEW n \in 1 .. m
  PROVE  /\ <<>> \o SubSeq(s, 0 + 1, 0 + n) \in Bytes(n)
         /\ \A i \in 1 .. n : (<<>> \o SubSeq(s, 0 + 1, 0 + n))[i] = s[i]
<1> DEFINE c == SubSeq(s, 1, n)
<1>1. s \in Seq(Byte) /\ Len(s) = m /\ n \in Nat /\ n <= m
  BY BytesAre
<1>2. c \in Seq(Byte) /\ Len(c) = n /\ \A i \in 1 .. n : c[i] = s[1 + i - 1]
  BY <1>1, SubSeqProperties
<1>3. \A i \in 1 .. n : 1 + i - 1 = i
  BY <1>1
<1> HIDE DEF c
<1>4. c \in Bytes(n) /\ \A i \in 1 .. n : c[i] = s[i]
  BY <1>2, <1>3 DEF Bytes
<1>5. <<>> \o c = c
  BY <1>2, ConcatEmptySeq
<1>6. 0 + 1 = 1 /\ 0 + n = n
  BY <1>1
<1> QED BY <1>4, <1>5, <1>6 DEF c

\* A read returns what is known of its line and changes nothing that is.
LEMMA ReadLine ==
  ASSUME Legal(setup), ~setup.org.efficiency, NEW st \in Stored(setup), InPlace(setup, st),
         NEW r, OfLine(setup, r), RowOpen(st, r.at)
  PROVE  LET got == FoldLeft(ReadPiece, [st |-> st, bytes |-> <<>>], Pieces(r))
         IN /\ got.bytes \in Bytes(r.size)
            /\ \A i \in 1 .. r.size : got.bytes[i] = View(setup, st, r.address)[i]
            /\ InPlace(setup, got.st)
            /\ \A m \in Lines(setup) : View(setup, got.st, m) = View(setup, st, m)
<1> DEFINE l == r.address
           T == setup.org.transaction
           n == r.size
           p == PieceAt(setup, l, n)
           q == Pieces(r)
           acc == [st |-> st, bytes |-> <<>>]
           v == View(setup, st, l)
           blk == [base |-> l, bytes |-> v]
           new == WithBlock(st, p, blk, FALSE)
           some == <<>> \o SubSeq(v, 0 + 1, 0 + n)
<1>1. l \in Lines(setup) /\ n \in 1 .. T /\ r.at = Home(setup, l)
  BY DEF OfLine
<1>2. DOMAIN q = 1 .. 1 /\ q[1] = p
  BY <1>1, OnePiece DEF PieceAt
<1>3. /\ BankKey(p.at) \in DOMAIN st.rows /\ LineBlock(st, p) = blk /\ v \in Bytes(T)
      /\ Puts(setup, st, new, l, v, FALSE)
  BY <1>1, BlockOfLine
<1>4. p.offset = 0 /\ p.size = n /\ p.at = Home(setup, l)
  BY DEF PieceAt
<1>5. FoldLeft(ReadPiece, acc, q) = ReadPiece(acc, p)
  <2>1. 1 \in {1, 2}
    OBVIOUS
  <2> HIDE DEF acc, q, p
  <2> QED BY <1>2, <2>1, ReadFold
<1>6. acc.st = st /\ acc.bytes = <<>> /\ blk.bytes = v
  OBVIOUS
<1> HIDE DEF acc, p, q, blk, v
<1>7. ReadPiece(acc, p) = [st |-> new, bytes |-> some]
  BY <1>1, <1>3, <1>4, <1>6 DEF ReadPiece
<1>8. some \in Bytes(n) /\ \A i \in 1 .. n : some[i] = v[i]
  <2>1. T \in Nat
    BY WholeTransactions
  <2> HIDE DEF n, T
  <2> QED BY <1>1, <1>3, <2>1, FirstBytes
<1> HIDE DEF new, some
<1>9. /\ InPlace(setup, new) /\ View(setup, new, l) = v
      /\ \A m \in Lines(setup) : m # l => View(setup, new, m) = View(setup, st, m)
  BY <1>1, <1>3, PutsInPlace, ZenonT(90) DEF v
<1>10. \A m \in Lines(setup) : View(setup, new, m) = View(setup, st, m)
  BY <1>9 DEF v
<1> DEFINE got == FoldLeft(ReadPiece, acc, q)
<1>11. got.st = new /\ got.bytes = some
  BY <1>5, <1>7
<1> HIDE DEF got
<1>12. got.bytes \in Bytes(n) /\ (\A i \in 1 .. n : got.bytes[i] = v[i]) /\ InPlace(setup, got.st)
       /\ \A m \in Lines(setup) : View(setup, got.st, m) = View(setup, st, m)
  BY <1>8, <1>9, <1>10, <1>11
<1> QED BY <1>12 DEF got, v, acc, q

\* A line that is allocated in the backend reads as it did.
LEMMA AllocatedLine ==
  ASSUME Legal(setup), NEW st \in Stored(setup), NEW l \in Lines(setup)
  PROVE  LET new == [st EXCEPT !.lines = With(st.lines, l, BackendLine(st, l))]
         IN /\ new \in Stored(setup) /\ new.rows = st.rows
            /\ \A m \in Lines(setup) : Back(setup, new.lines, m) = Back(setup, st.lines, m)
<1> DEFINE T == setup.org.transaction
           line == BackendLine(st, l)
           w == With(st.lines, l, line)
           new == [st EXCEPT !.lines = w]
<1>1. l \in Nat
  BY WholeTransactions DEF Lines
<1>2. line \in Bytes(T) /\ line = Back(setup, st.lines, l)
  BY <1>1, LinesTyped DEF BackendLine, Back, LineBytes
<1>3. st.lines \in Maps(Nat, Bytes(T))
  BY DEF Stored
<1>4. w \in Maps(Nat, Bytes(T))
  <2> HIDE DEF line
  <2> QED BY <1>1, <1>2, <1>3, MapsProperties
<1>5. \A m \in Lines(setup) : Back(setup, w, m) = Back(setup, st.lines, m)
  <2> HIDE DEF line
  <2> QED BY <1>2 DEF Back, With
<1> HIDE DEF w
<1>6. new \in Stored(setup) /\ new.rows = st.rows /\ new.lines = w
  BY <1>4 DEF Stored
<1> QED BY <1>5, <1>6 DEF w

\* A write puts its bytes in the line, those its mask enables, and changes no other.
LEMMA WriteLine ==
  ASSUME Legal(setup), ~setup.org.efficiency, NEW st \in Stored(setup), InPlace(setup, st),
         NEW r \in Parts(setup), r.type = "write", OfLine(setup, r), RowOpen(st, r.at)
  PROVE  LET x == FoldLeft(LAMBDA y, p : WritePiece(y, r, p), st, Pieces(r))
         IN /\ InPlace(setup, x)
            /\ \A i \in 1 .. setup.org.transaction :
                 View(setup, x, r.address)[i] =
                   IF Has(r, i) /\ Enabled(r, i) THEN r.payload[i] ELSE View(setup, st, r.address)[i]
            /\ \A m \in Lines(setup) : m # r.address => View(setup, x, m) = View(setup, st, m)
<1> DEFINE l == r.address
           T == setup.org.transaction
           n == r.size
           p == PieceAt(setup, l, n)
           q == Pieces(r)
           v == View(setup, st, l)
           over == Overwritten(v, r, p)
           blk == [base |-> l, bytes |-> v]
           alloc == [st EXCEPT !.lines = With(st.lines, l, BackendLine(st, l))]
           new == WithBlock(alloc, p, [base |-> l, bytes |-> over], TRUE)
<1>1. l \in Lines(setup) /\ n \in 1 .. T /\ r.at = Home(setup, l) /\ T \in Nat \ {0}
  BY WholeTransactions DEF OfLine
<1>2. DOMAIN q = 1 .. 1 /\ q[1] = p
  BY <1>1, OnePiece DEF PieceAt
<1>3. /\ p \in PieceRecords(setup) /\ LineBlock(st, p) = blk /\ v \in Bytes(T)
  BY <1>1, BlockOfLine
<1>4. p.offset = 0 /\ p.from = 0 /\ p.size = n /\ p.at = Home(setup, l) /\ p.base = l
  BY DEF PieceAt
<1>5. over \in Bytes(T)
  <2>1. PieceSound(setup, r, p)
    BY <1>1, <1>3, <1>4 DEF PieceSound
  <2> HIDE DEF p, v
  <2> QED BY <1>3, <2>1, OverwrittenTyped
<1>6. \A i \in 1 .. T : over[i] = IF Has(r, i) /\ Enabled(r, i) THEN r.payload[i] ELSE v[i]
  <2>1. DOMAIN v = 1 .. T
    BY <1>1, <1>3, BytesAre
  <2>2. \A i \in 1 .. T : i - 0 + 0 = i /\ i > 0 /\ (i <= 0 + n <=> Has(r, i))
    BY <1>1 DEF Has
  <2> HIDE DEF p, v
  <2> QED BY <1>4, <2>1, <2>2 DEF Overwritten
<1>7. /\ alloc \in Stored(setup) /\ alloc.rows = st.rows
      /\ \A m \in Lines(setup) : Back(setup, alloc.lines, m) = Back(setup, st.lines, m)
  BY <1>1, AllocatedLine
<1>8. FoldLeft(LAMBDA y, z : WritePiece(y, r, z), st, q) = WritePiece(st, r, p)
  <2>1. 1 \in {1, 2}
    OBVIOUS
  <2>2. FoldLeft(LAMBDA y, z : WritePiece(y, r, z), st, q) =
          IF 1 = 1 THEN WritePiece(st, r, q[1]) ELSE WritePiece(WritePiece(st, r, q[1]), r, q[2])
    <3> HIDE DEF q
    <3> QED BY <1>2, <2>1, WriteFold, Zenon
  <2> QED BY <1>2, <2>2
<1> HIDE DEF p, q, v, over, alloc
<1>9. WritePiece(st, r, p) = new
  <2>1. [blk EXCEPT !.bytes = Overwritten(blk.bytes, r, p)] = [base |-> l, bytes |-> over]
    BY DEF over
  <2> HIDE DEF blk
  <2> QED BY <1>1, <1>3, <1>4, <2>1 DEF WritePiece, alloc
<1>10. Puts(setup, alloc, new, l, over, TRUE)
  <2>1. RowOpen(alloc, Home(setup, l))
    BY <1>1, <1>7 DEF RowOpen
  <2> QED BY <1>1, <1>5, <1>7, <2>1, BlockOfLine DEF p
<1> HIDE DEF new
<1>11. Puts(setup, st, new, l, over, TRUE)
  BY <1>7, <1>10 DEF Puts
<1>12. /\ InPlace(setup, new) /\ View(setup, new, l) = over
       /\ \A m \in Lines(setup) : m # l => View(setup, new, m) = View(setup, st, m)
  <2>1. RowOpen(st, Home(setup, l))
    BY <1>1
  <2>2. ASSUME NEW d \in BOOLEAN, d, Puts(setup, st, new, l, over, d)
        PROVE  /\ InPlace(setup, new) /\ View(setup, new, l) = over
               /\ \A m \in Lines(setup) : m # l => View(setup, new, m) = View(setup, st, m)
    <3>1. d \/ over = View(setup, st, l)
      BY <2>2
    <3>2. Puts(setup, st, new, l, over, d) /\ l \in Lines(setup)
      BY <1>1, <2>2
    <3> HIDE DEF l
    <3>3. InPlace(setup, new)
      BY <2>1, <3>1, <3>2, PutsInPlace
    <3>4. View(setup, new, l) = over
      BY <2>1, <3>1, <3>2, PutsInPlace
    <3> QED BY <2>1, <3>1, <3>2, <3>3, <3>4, PutsInPlace
  <2> QED BY <1>11, <2>2, Zenon
<1> DEFINE x == FoldLeft(LAMBDA y, z : WritePiece(y, r, z), st, q)
<1>13. x = new
  BY <1>8, <1>9
<1> HIDE DEF x
<1>14. /\ InPlace(setup, x)
       /\ \A i \in 1 .. T : View(setup, x, l)[i] =
                              IF Has(r, i) /\ Enabled(r, i) THEN r.payload[i] ELSE v[i]
       /\ \A m \in Lines(setup) : m # l => View(setup, x, m) = View(setup, st, m)
  BY <1>6, <1>12, <1>13
<1> QED BY <1>14, Zenon DEF x, v, q

\* The bank b is opened, with no column in its row yet.
Opens(st, st2, b) ==
  /\ b \notin DOMAIN st.rows /\ DOMAIN st2.rows = DOMAIN st.rows \cup {b}
  /\ \A k \in DOMAIN st.rows : st2.rows[k] = st.rows[k]
  /\ DOMAIN st2.rows[b].columns = {} /\ st2.lines = st.lines

\* Opening a row changes no line: a closed bank holds none.
LEMMA OpenLine ==
  ASSUME NEW u, NEW st, NEW st2, NEW b, Opens(st, st2, b), InPlace(u, st)
  PROVE  InPlace(u, st2) /\ \A m : View(u, st2, m) = View(u, st, m)
<1>1. ASSUME NEW m
      PROVE  View(u, st2, m) = View(u, st, m)
  <2>1. CASE BankKey(Home(u, m)) = b
    BY <2>1 DEF View, InColumn, RowOpen, Opens
  <2>2. CASE BankKey(Home(u, m)) # b
    BY <2>2 DEF View, InColumn, RowOpen, Opens
  <2> QED BY <2>1, <2>2
<1>2. ASSUME NEW k \in DOMAIN st2.rows, NEW y \in DOMAIN st2.rows[k].columns
      PROVE  Column(u, st2, k, y)
  <2>1. k # b
    BY <1>2 DEF Opens
  <2>2. k \in DOMAIN st.rows /\ st2.rows[k] = st.rows[k] /\ st2.lines = st.lines
    BY <1>2, <2>1 DEF Opens
  <2>3. Column(u, st, k, y)
    BY <1>2, <2>2 DEF InPlace
  <2> QED BY <2>2, <2>3 DEF Column
<1> QED BY <1>1, <1>2 DEF InPlace

\* Writing a dirty row back puts its columns into their lines, and changes no other.
LEMMA WriteBackLine ==
  ASSUME NEW u, Legal(u), ~u.org.efficiency, NEW st, NEW b \in DOMAIN st.rows,
         InPlace(u, st), NEW lines, NEW m \in Lines(u)
  PROVE  Back(u, WriteBack(lines, st.rows[b]), m) =
           IF st.rows[b].dirty /\ InColumn(u, st, m) /\ BankKey(Home(u, m)) = b
           THEN View(u, st, m) ELSE Back(u, lines, m)
<1> DEFINE row == st.rows[b]
           c == row.columns
           S == {c[k].base : k \in DOMAIN c}
           f == [l \in S |-> c[CHOOSE k \in DOMAIN c : c[k].base = l].bytes]
           x == Home(u, m)["column"]
           at == InColumn(u, st, m) /\ BankKey(Home(u, m)) = b
<1>1. WriteBack(lines, row) = IF ~row.dirty THEN lines ELSE Over(f, lines)
  BY DEF WriteBack
<1>2. \A k \in DOMAIN c : Column(u, st, b, k)
  BY DEF InPlace
<1>3. \A k \in DOMAIN c : c[k].base = m => k = x /\ at
  BY <1>2 DEF Column, InColumn, RowOpen
<1>4. at => x \in DOMAIN c /\ c[x].base = m /\ View(u, st, m) = c[x].bytes
  <2> SUFFICES ASSUME at
               PROVE  x \in DOMAIN c /\ c[x].base = m /\ View(u, st, m) = c[x].bytes
    OBVIOUS
  <2>1. x \in DOMAIN c /\ row.row = Home(u, m)["row"]
    BY DEF InColumn, RowOpen
  <2>2. Column(u, st, b, x)
    BY <1>2, <2>1
  <2>3. c[x].base = m
    BY <2>1, <2>2, HomesDiffer DEF Column
  <2> QED BY <2>1, <2>3 DEF View
<1>5. DOMAIN f = S /\ \A l \in S : f[l] = c[CHOOSE k \in DOMAIN c : c[k].base = l].bytes
  OBVIOUS
<1>6. m \in S <=> at
  BY <1>3, <1>4
<1>7. at => (CHOOSE k \in DOMAIN c : c[k].base = m) = x
  <2> SUFFICES ASSUME at
               PROVE  (CHOOSE k \in DOMAIN c : c[k].base = m) = x
    OBVIOUS
  <2> HIDE DEF c, x, at
  <2>1. \E k \in DOMAIN c : c[k].base = m
    BY <1>4
  <2> QED BY <1>3, <2>1
<1> HIDE DEF c, x, at, f, S, row
<1>8. Back(u, Over(f, lines), m) = IF m \in S THEN f[m] ELSE Back(u, lines, m)
  BY <1>5 DEF Back, Over
<1>9. Back(u, WriteBack(lines, row), m) =
        IF row.dirty /\ at THEN View(u, st, m) ELSE Back(u, lines, m)
  <2>1. CASE ~row.dirty
    BY <1>1, <2>1
  <2>2. CASE row.dirty /\ at
    BY <1>1, <1>4, <1>5, <1>6, <1>7, <1>8, <2>2
  <2>3. CASE row.dirty /\ ~at
    BY <1>1, <1>6, <1>8, <2>3
  <2> QED BY <2>1, <2>2, <2>3
<1> QED BY <1>9 DEF row, at

\* Closing rows moves what they hold to the backend: every line stays as it was.
LEMMA FlushLine ==
  ASSUME NEW u, Legal(u), ~u.org.efficiency, NEW st, InPlace(u, st),
         NEW closed \in SUBSET DOMAIN st.rows, IsFiniteSet(closed),
         NEW iter, IsFlush(iter, st.rows, closed, st.lines), NEW m \in Lines(u)
  PROVE  Back(u, iter[closed], m) =
           IF BankKey(Home(u, m)) \in closed THEN View(u, st, m) ELSE Back(u, st.lines, m)
<1> DEFINE h == BankKey(Home(u, m))
           Good(s) == Back(u, iter[s], m) = IF h \in s THEN View(u, st, m)
                                            ELSE Back(u, st.lines, m)
           Small(n) == {s \in SUBSET closed : Cardinality(s) <= n}
           K == {n \in Nat : \A s \in Small(n) : Good(s)}
<1>0. /\ iter[{}] = st.lines
      /\ \A s \in SUBSET closed : s # {} =>
           \E j \in s : iter[s] = WriteBack(iter[s \ {j}], st.rows[j])
  BY DEF IsFlush
<1>1. \A s \in SUBSET closed : IsFiniteSet(s) /\ Cardinality(s) \in Nat
  BY FS_Subset, FS_CardinalityType
<1>2. 0 \in K
  <2>1. \A s \in Small(0) : s = {}
    BY <1>1, FS_EmptySet
  <2> QED BY <1>0, <2>1
<1>3. ASSUME NEW s \in SUBSET closed, NEW j \in s, Good(s \ {j}),
             iter[s] = WriteBack(iter[s \ {j}], st.rows[j])
      PROVE  Good(s)
  <2>1. j \in DOMAIN st.rows
    OBVIOUS
  <2>2. Back(u, iter[s], m) =
          IF st.rows[j].dirty /\ InColumn(u, st, m) /\ h = j
          THEN View(u, st, m) ELSE Back(u, iter[s \ {j}], m)
    BY <1>3, <2>1, WriteBackLine
  <2>3. CASE h # j
    BY <1>3, <2>2, <2>3
  <2>4. CASE h = j
    <3>1. h \in s /\ h \notin s \ {j} /\ Back(u, iter[s \ {j}], m) = Back(u, st.lines, m)
      BY <1>3, <2>4
    <3>2. ~InColumn(u, st, m) => View(u, st, m) = Back(u, st.lines, m)
      BY DEF View
    <3>3. InColumn(u, st, m) /\ ~st.rows[j].dirty => View(u, st, m) = Back(u, st.lines, m)
      <4> SUFFICES ASSUME InColumn(u, st, m), ~st.rows[j].dirty
                   PROVE  View(u, st, m) = Back(u, st.lines, m)
        OBVIOUS
      <4> DEFINE x == Home(u, m)["column"]
      <4>1. x \in DOMAIN st.rows[j].columns /\ st.rows[j].row = Home(u, m)["row"]
            /\ View(u, st, m) = st.rows[j].columns[x].bytes
        BY <2>4 DEF InColumn, RowOpen, View
      <4>2. Column(u, st, j, x)
        BY <2>1, <4>1 DEF InPlace
      <4>3. st.rows[j].columns[x].base = m
        BY <2>4, <4>1, <4>2, HomesDiffer DEF Column
      <4> QED BY <4>1, <4>2, <4>3 DEF Column
    <3> QED BY <2>2, <2>4, <3>1, <3>2, <3>3
  <2> QED BY <2>3, <2>4
<1> HIDE DEF Good
<1>4. ASSUME NEW n \in Nat, n \in K
      PROVE  n + 1 \in K
  <2> SUFFICES ASSUME NEW s \in Small(n + 1)
               PROVE  Good(s)
    OBVIOUS
  <2>1. CASE s = {}
    <3>1. s \in Small(0)
      BY <2>1, FS_EmptySet
    <3> QED BY <1>2, <3>1
  <2>2. CASE s # {}
    <3>1. PICK j \in s : iter[s] = WriteBack(iter[s \ {j}], st.rows[j])
      BY <1>0, <2>2
    <3>2. IsFiniteSet(s) /\ Cardinality(s) \in Nat /\ Cardinality(s) <= n + 1
      BY <1>1
    <3>3. Cardinality(s \ {j}) = Cardinality(s) - 1
      BY <3>2, FS_RemoveElement
    <3>4. s \ {j} \in Small(n)
      BY <3>2, <3>3
    <3>5. Good(s \ {j})
      BY <1>4, <3>4
    <3> QED BY <1>3, <3>1, <3>5
  <2> QED BY <2>1, <2>2
<1>5. \A n \in Nat : n \in K
  <2> HIDE DEF K
  <2> QED BY <1>2, <1>4, Counting
<1>6. Good(closed)
  <2>1. Cardinality(closed) \in Nat /\ closed \in Small(Cardinality(closed))
    BY <1>1
  <2> QED BY <1>5, <2>1
<1> QED BY <1>6 DEF Good

\* Some rows are closed, the others stay.
Closes(st, st2, closed) ==
  /\ closed \in SUBSET DOMAIN st.rows /\ DOMAIN st2.rows = DOMAIN st.rows \ closed
  /\ \A k \in DOMAIN st2.rows : st2.rows[k] = st.rows[k]

\* What is left open and what is written back together hold what they held.
LEMMA ClosedLine ==
  ASSUME NEW u, Legal(u), ~u.org.efficiency, NEW st, InPlace(u, st), NEW st2, NEW closed,
         IsFiniteSet(closed), Closes(st, st2, closed),
         Flushes(st.rows, closed, st.lines, st2.lines)
  PROVE  InPlace(u, st2) /\ \A m \in Lines(u) : View(u, st2, m) = View(u, st, m)
<1>1. closed \in SUBSET DOMAIN st.rows
  BY DEF Closes
<1>2. PICK iter : IsFlush(iter, st.rows, closed, st.lines) /\ st2.lines = iter[closed]
  BY DEF Flushes
<1>4. \A m \in Lines(u) : Back(u, st2.lines, m) =
        IF BankKey(Home(u, m)) \in closed THEN View(u, st, m) ELSE Back(u, st.lines, m)
  <2> TAKE m \in Lines(u)
  <2>1. Back(u, iter[closed], m) =
          IF BankKey(Home(u, m)) \in closed THEN View(u, st, m) ELSE Back(u, st.lines, m)
    <3>1. IsFlush(iter, st.rows, closed, st.lines)
      BY <1>2
    <3>2. Legal(u) /\ ~u.org.efficiency /\ InPlace(u, st) /\ IsFiniteSet(closed)
      OBVIOUS
    <3> QED BY ONLY <1>1, <3>1, <3>2, FlushLine
  <2> QED BY <1>2, <2>1
<1>5. ASSUME NEW m \in Lines(u)
      PROVE  View(u, st2, m) = View(u, st, m)
  <2>1. CASE BankKey(Home(u, m)) \in closed
    BY <1>4, <2>1 DEF View, InColumn, RowOpen, Closes
  <2>2. CASE BankKey(Home(u, m)) \notin closed
    BY <1>4, <2>2 DEF View, InColumn, RowOpen, Closes
  <2> QED BY <2>1, <2>2
<1>6. ASSUME NEW k \in DOMAIN st2.rows, NEW y \in DOMAIN st2.rows[k].columns
      PROVE  Column(u, st2, k, y)
  <2>1. k \in DOMAIN st.rows /\ k \notin closed /\ st2.rows[k] = st.rows[k]
    BY <1>6 DEF Closes
  <2>2. Column(u, st, k, y)
    BY <1>6, <2>1 DEF InPlace
  <2> QED BY <1>4, <2>1, <2>2 DEF Column
<1> QED BY <1>5, <1>6 DEF InPlace

\* A straight workload asks for addresses of transactions.
LEMMA HostAligned ==
  ASSUME NEW u, Legal(u), Straight(u), NEW s \in Streams(u), OnCourse(u, s),
         NEW y, Advances(u, s, y), y.host.type # "control"
  PROVE  y.host.address % u.org.transaction = 0
<1> DEFINE T == u.org.transaction
<1>1. T \in Nat \ {0} /\ u.org.line \in Nat \ {0} /\ u.org.line % T = 0
  BY WholeTransactions
<1>2. \A n \in Nat : (n * u.org.line) % T = 0 /\ n * u.org.line \in Nat
  <2>1. 0 \in Nat /\ 0 % T = 0
    BY <1>1
  <2> QED BY <1>1, <2>1, MultiplesDivide, ProductNat
<1>4. PICK z \in IF u.source = "trace" THEN TraceNext(u, s) ELSE SyntheticNext(u, s) :
        /\ Takes(u, s, z)
        /\ y.host = [z.host EXCEPT !.id = z.host.id + Controls(u),
                                   !.cycle = z.host.cycle + Shift(u)]
  BY Zenon DEF Advances
<1>5. z.host \in HostRecords
  BY <1>4 DEF Takes, Taken, Hosts
<1>6. \A n : \A m : [z.host EXCEPT !.id = n, !.cycle = m].address = z.host.address
  BY <1>5 DEF HostRecords
<1>7. y.host.address = z.host.address
  BY <1>4, <1>6
<1>10. z.host.type # "control"
  <2>1. \A n : \A m : [z.host EXCEPT !.id = n, !.cycle = m].type = z.host.type
    BY <1>5 DEF HostRecords
  <2> QED BY <1>4, <2>1
<1>8. CASE u.source = "trace"
  <2>1. z \in TraceNext(u, s) /\ InTrace(u, s)
    BY <1>4, <1>8 DEF OnCourse
  <2>2. PICK i \in DOMAIN u.trace : \E c \in Nat : \E n \in Nat : LineStep(u, s, z, i, c, n)
    BY <2>1, TraceSteps
  <2>3. PICK c \in Nat : \E n \in Nat : LineStep(u, s, z, i, c, n)
    BY <2>2
  <2>4. PICK n \in Nat : LineStep(u, s, z, i, c, n)
    BY <2>3
  <2>5. /\ z.host.address = u.trace[i].address + n * u.org.line
        /\ z.host.type = TypeOf(u.trace[i])
    BY <2>4 DEF LineStep, LineEmitted
  <2>6. u.trace[i].address % T = 0 /\ u.trace[i].address \in Nat
    <3> DEFINE t == u.trace[i]
    <3>1. t \in TraceLines /\ LineAllowed(u.org, t)
      BY LineOf
    <3>2. t.address % T = 0
      <4>1. t.op # "M"
        BY <1>10, <2>5 DEF TypeOf
      <4> QED BY <1>8, <4>1 DEF Straight
    <3> HIDE DEF t
    <3>3. t.address \in Nat
      BY <3>1 DEF TraceLines
    <3> QED BY <3>2, <3>3 DEF t
  <2> DEFINE a == u.trace[i].address
             b == n * u.org.line
  <2>7. a \in Nat /\ a % T = 0 /\ b \in Nat /\ b % T = 0 /\ y.host.address = a + b
    BY <1>2, <1>7, <2>5, <2>6
  <2> HIDE DEF a, b
  <2> QED BY <1>1, <2>7, MultiplesApart
<1>9. CASE u.source # "trace"
  <2>1. z \in SyntheticNext(u, s)
    BY <1>4, <1>9
  <2>2. s.nextId \in Nat /\ u.requests \in Nat /\ s.nextId < u.requests
    BY <2>1, LegalParts DEF Streams, SyntheticNext
  <2>3. PICK type \in TypesOf(u.readRatio), a \in SyntheticAddresses(u, s) :
          z = [host |-> [HostOf(s, type, a, s.nextId * u.interval, None) EXCEPT
                           !.payload = IF type = "write"
                                       THEN MakePayload(a, s.nextId, u.org.line)
                                       ELSE <<>>],
               next |-> Accounted(s)]
    BY <2>1, <2>2 DEF SyntheticNext
  <2>4. z.host.address = a
    BY <2>3 DEF HostOf
  <2>5. CASE u.source = "random"
    <3>1. PICK i \in 0 .. RandomStartCount(u) - 1 : a = i * u.org.line
      BY <2>5 DEF SyntheticAddresses
    <3>2. i \in Nat
      OBVIOUS
    <3> QED BY <1>2, <1>7, <2>4, <3>1, <3>2
  <2>6. CASE u.source # "random"
    <3>1. u.source = "stream" /\ a = s.nextId * u.stride
      BY <1>9, <2>6, LegalParts DEF SyntheticAddresses
    <3>2. s.nextId \in 0 .. u.requests - 1
      BY <2>2
    <3> QED BY <1>7, <2>4, <3>1, <3>2 DEF Straight
  <2> QED BY <2>5, <2>6
<1> QED BY <1>8, <1>9

\* A transaction that begins a line, as the frontend has it: before it is routed.
Aligned(u, r) ==
  r.type # "control" => /\ r.size \in 1 .. u.org.transaction
                        /\ r.address \in Nat /\ r.address % u.org.transaction = 0
                        /\ r.at = Decode(u.org, r.address)

Count(u, h) == PartCount(u, HostBytes(u, h))

\* A host line is cut into transactions, the last one shorter if need be; byte d of
\* transaction i is its byte i T + d.
LEMMA PartOfHost ==
  ASSUME NEW u, Legal(u), NEW h \in Hosts(u), h.type # "control",
         h.address % u.org.transaction = 0, NEW i \in 0 .. Count(u, h) - 1
  PROVE  LET p == PartOf(u, h, i)
             o == i * u.org.transaction
         IN /\ p \in Parts(u) /\ Aligned(u, p) /\ o \in Nat
            /\ p.size = PartSize(u, HostBytes(u, h), i)
            /\ p.type = h.type /\ p.stack = h.stack /\ p.explicit = h.explicit
            /\ p.address = h.address + o
            /\ \A d \in 1 .. p.size :
                 /\ o + d \in 1 .. HostBytes(u, h)
                 /\ h.type = "write" => p.payload[d] = h.payload[o + d]
                 /\ Enabled(p, d) <=> Enabled(h, o + d)
<1> DEFINE T == u.org.transaction
           L == HostBytes(u, h)
           p == PartOf(u, h, i)
           o == i * T
           n == p.size
<1>1. T \in Nat \ {0} /\ L \in Nat \ {0}
  BY WholeTransactions, HostLine
<1>2. /\ h.address \in Nat /\ h.payload \in Seq(Byte) /\ h.mask \in Seq(BOOLEAN)
      /\ h.type = "write" => h.payload # <<>> /\ Len(h.payload) = L
      /\ h.mask # <<>> => Len(h.mask) = L
  BY HostLine DEF Hosts, HostRecords, HostSound
<1>3. /\ p \in Parts(u) /\ p.type = h.type /\ n = PartSize(u, L, i)
      /\ o \in Nat /\ o + n <= L /\ p.address = h.address + o
      /\ p.at = Decode(u.org, p.address)
      /\ p.stack = h.stack /\ p.explicit = h.explicit
      /\ p.mask = Slice(h.mask, o, n) /\ p.payload = Slice(h.payload, o, n)
  BY PartTyped DEF Count
<1>7. n \in 1 .. T
  BY <1>3 DEF Parts, PartSound
<1> HIDE DEF p
<1>5. o % T = 0
  <2>1. i \in Nat
    OBVIOUS
  <2> HIDE DEF o
  <2> QED BY <1>1, <1>3, <2>1, MultipleOf DEF o
<1> HIDE DEF o, n, L
<1>6. n \in Nat \ {0} /\ n <= T
  BY <1>1, <1>7
<1>8. (h.address + o) % T = 0 /\ h.address + o \in Nat
  <2> DEFINE a == h.address
  <2>1. a % T = 0 /\ o % T = 0 /\ T \in Nat \ {0}
    BY <1>1, <1>5, Zenon
  <2>2. a \in Nat /\ o \in Nat
    BY <1>2, <1>3
  <2> HIDE DEF a, T
  <2>3. a + o \in Nat
    BY ONLY <2>2
  <2>4. (a + o) % T = 0
    BY ONLY <2>1, <2>2, MultiplesApart, Zenon
  <2> QED BY <2>3, <2>4 DEF a, T
<1>9. Aligned(u, p)
  BY <1>3, <1>7, <1>8 DEF Aligned, n
<1>10. ASSUME NEW d \in 1 .. n
       PROVE  /\ o + d \in 1 .. L
              /\ h.type = "write" => p.payload[d] = h.payload[o + d]
              /\ Enabled(p, d) <=> Enabled(h, o + d)
  <2>1. o + d \in 1 .. L
    BY <1>1, <1>3, <1>6
  <2>2. h.type = "write" => p.payload[d] = h.payload[o + d]
    <3> SUFFICES ASSUME h.type = "write"
                 PROVE  p.payload[d] = h.payload[o + d]
      OBVIOUS
    <3> DEFINE b == h.payload
    <3>2. b \in Seq(Byte) /\ b # <<>> /\ o \in Nat /\ o + n <= Len(b)
      BY <1>2, <1>3
    <3> HIDE DEF b
    <3>3. \A j \in 1 .. n : Slice(b, o, n)[j] = b[o + j]
      BY ONLY <1>6, <3>2, SliceOf
    <3> QED BY <1>3, <3>3 DEF b
  <2>3. CASE h.mask = <<>>
    <3>1. p.mask = <<>>
      BY <1>3, <1>6, <2>3, SliceOfNone
    <3> QED BY <2>1, <2>2, <2>3, <3>1 DEF Enabled
  <2>4. CASE h.mask # <<>>
    <3>1. Len(h.mask) = L
      BY <1>2, <2>4
    <3>2. /\ p.mask \in Seq(BOOLEAN) /\ Len(p.mask) = n
          /\ p.mask[d] = h.mask[o + d]
      BY <1>2, <1>3, <1>6, <2>4, <3>1, SliceOf, SMTT(60)
    <3>3. p.mask # <<>>
      BY <1>6, <3>2
    <3> QED BY <2>1, <2>2, <2>4, <3>2, <3>3 DEF Enabled
  <2> QED BY <2>3, <2>4
<1> QED BY <1>3, <1>9, <1>10 DEF p, o, n, L

\* Every byte of a host line is a byte of one of its transactions.
LEMMA ByteOfPart ==
  ASSUME NEW u, Legal(u), NEW h \in Hosts(u), h.type # "control",
         NEW x \in 1 .. HostBytes(u, h)
  PROVE  \E i \in 0 .. Count(u, h) - 1 : \E d \in 1 .. PartSize(u, HostBytes(u, h), i) :
           x = i * u.org.transaction + d /\ d \in 1 .. u.org.transaction
<1> DEFINE T == u.org.transaction
           L == HostBytes(u, h)
           q == (L - 1) \div T
           i == (x - 1) \div T
           d == ((x - 1) % T) + 1
<1>1. T \in Nat \ {0} /\ L \in Nat \ {0} /\ x \in Nat /\ x >= 1 /\ x <= L
  BY WholeTransactions, HostLine
<1>2. Count(u, h) = 1 + q
  BY DEF Count, PartCount
<1>3. PartSize(u, L, i) = IF T <= L - i * T THEN T ELSE L - i * T
  BY DEF PartSize
<1> HIDE DEF T, L
<1>4. /\ q \in Nat /\ (L - 1) % T \in 0 .. T - 1 /\ L - 1 = q * T + ((L - 1) % T)
      /\ q * T \in Nat
  <2>1. L - 1 \in Nat
    BY <1>1
  <2>2. q \in Nat
    BY <1>1, <2>1, Division
  <2> QED BY <1>1, <2>1, <2>2, Division, ProductNat
<1>5. x - 1 < T * (q + 1)
  <2>1. T * (q + 1) = q * T + T
    BY <1>1, <1>4
  <2> DEFINE a == q * T
             r == (L - 1) % T
  <2> HIDE DEF a, r
  <2>2. a \in Nat /\ r \in 0 .. T - 1 /\ L - 1 = a + r /\ T * (q + 1) = a + T
    BY <1>4, <2>1 DEF a, r
  <2> HIDE DEF q
  <2> QED BY <1>1, <2>2
<1>6. i \in Nat /\ i < q + 1
  <2> DEFINE m == x - 1
             e == q + 1
  <2>1. m \in Nat /\ e \in Nat /\ m < T * e
    BY <1>1, <1>4, <1>5
  <2> HIDE DEF m, e
  <2>2. m \div T \in Nat /\ m \div T < e
    BY ONLY <1>1, <2>1, QuotientBound, Division
  <2> QED BY <2>2 DEF m, e
<1>7. i \in 0 .. Count(u, h) - 1
  BY <1>2, <1>4, <1>6
<1>8. (x - 1) % T \in 0 .. T - 1 /\ x - 1 = i * T + ((x - 1) % T) /\ i * T \in Nat
  <2>1. x - 1 \in Nat
    BY <1>1
  <2> QED BY <1>1, <1>6, <2>1, Division, ProductNat
<1> HIDE DEF q, i
<1>9. d \in 1 .. T /\ x = i * T + d /\ d <= L - i * T
  <2> DEFINE m == (x - 1) % T
             n == i * T
  <2>1. m \in 0 .. T - 1 /\ x - 1 = n + m /\ n \in Nat /\ d = m + 1
    BY <1>8
  <2> HIDE DEF m, n, d
  <2>2. d \in 1 .. T /\ x = n + d /\ d <= L - n
    BY <1>1, <2>1
  <2> QED BY <2>2 DEF n
<1> HIDE DEF d
<1>10. d \in 1 .. PartSize(u, L, i)
  <2>1. i * T \in Nat
    BY <1>1, <1>8
  <2> QED BY <1>1, <1>3, <1>9, <2>1
<1> QED BY <1>7, <1>9, <1>10 DEF T, L

SamePlace(u, r, q) ==
  r.type # "control" /\ TargetOf(u, r) = TargetOf(u, q) /\ LocalOf(u, r) = LocalOf(u, q)

\* A host line that can be split and delivered, and the system address of its byte x.
Proper(u, h) ==
  /\ h \in Hosts(u) /\ h.type # "control" /\ h.address % u.org.transaction = 0
  /\ h.explicit <=> h.stack # None
  /\ Reaches(u, h.stack, h.address, Count(u, h))
AddressOf(u, h, x) ==
  IF h.explicit THEN StackEncode(u.map, [stack |-> h.stack, local |-> h.address + (x - 1)])
  ELSE h.address + (x - 1)

\* A transaction of a host line has a line of a stack for itself,
LEMMA PlaceOfPart ==
  ASSUME NEW u, Legal(u), NEW h, Proper(u, h), NEW i \in 0 .. Count(u, h) - 1
  PROVE  LET p == PartOf(u, h, i)
         IN /\ p \in Incoming(u) /\ Deliverable(u, p)
            /\ TargetOf(u, p) \in 0 .. u.map.stacks - 1 /\ LocalOf(u, p) \in Lines(u)
            /\ \A d \in 1 .. u.org.transaction :
                 AddressOf(u, h, i * u.org.transaction + d)
                   = ByteAt(u, TargetOf(u, p), LocalOf(u, p), d)
<1> DEFINE T == u.org.transaction
           p == PartOf(u, h, i)
           o == i * T
           k == TargetOf(u, p)
           l == LocalOf(u, p)
<1>1. /\ h \in Hosts(u) /\ h.type # "control" /\ h.address % T = 0
      /\ h.explicit <=> h.stack # None
      /\ Reaches(u, h.stack, h.address, Count(u, h)) /\ h.address \in Nat
  BY DEF Proper, Hosts, HostRecords
<1>2. T \in Nat \ {0}
  BY WholeTransactions
<1>3. /\ p \in Parts(u) /\ Aligned(u, p) /\ o \in Nat
      /\ p.type = h.type /\ p.stack = h.stack /\ p.explicit = h.explicit
      /\ p.address = h.address + o
  BY <1>1, PartOfHost
<1>4. Located(u, h.stack, h.address + o)
  BY <1>1 DEF Reaches
<1> HIDE DEF p, o
<1>5. p \in Incoming(u)
  BY <1>1, <1>3 DEF Incoming, Fresh
<1>6. Deliverable(u, p)
  <2>1. p.stack = h.stack /\ p.address = h.address + o /\ (p.explicit <=> p.stack # None)
    BY <1>1, <1>3
  <2> QED BY <1>4, <2>1 DEF Deliverable
<1>7. p.type # "control" /\ p.address % T = 0
  BY <1>1, <1>3 DEF Aligned
<1>8. /\ k \in 0 .. u.map.stacks - 1 /\ l \in Lines(u)
      /\ \A d \in 0 .. T - 1 :
           (IF p.explicit THEN StackEncode(u.map, [stack |-> p.stack, local |-> p.address + d])
            ELSE p.address + d) = ByteAt(u, k, l, d + 1)
  BY <1>5, <1>6, <1>7, PlaceOf
<1> HIDE DEF k, l
<1>9. ASSUME NEW d \in 1 .. T
      PROVE  AddressOf(u, h, o + d) = ByteAt(u, k, l, d)
  <2>1. d - 1 \in 0 .. T - 1 /\ (d - 1) + 1 = d
    BY <1>2
  <2>2. h.address + ((o + d) - 1) = p.address + (d - 1)
    BY <1>1, <1>2, <1>3
  <2>3. AddressOf(u, h, o + d) =
          IF p.explicit THEN StackEncode(u.map, [stack |-> p.stack, local |-> p.address + (d - 1)])
          ELSE p.address + (d - 1)
    BY <1>3, <2>2 DEF AddressOf
  <2> QED BY <1>8, <2>1, <2>3
<1> QED BY <1>5, <1>6, <1>8, <1>9 DEF p, o, k, l

\* no other has it,
LEMMA PartsApart ==
  ASSUME NEW u, Legal(u), NEW h, Proper(u, h), NEW i \in 0 .. Count(u, h) - 1,
         NEW j \in 0 .. Count(u, h) - 1, i # j
  PROVE  ~SamePlace(u, PartOf(u, h, i), PartOf(u, h, j))
<1> DEFINE T == u.org.transaction
           p == PartOf(u, h, i)
           q == PartOf(u, h, j)
<1>1. h \in Hosts(u) /\ h.type # "control" /\ h.address % T = 0 /\ h.address \in Nat
  BY DEF Proper, Hosts, HostRecords
<1>2. T \in Nat \ {0} /\ 1 \in 1 .. T /\ i \in Nat /\ j \in Nat
  BY WholeTransactions
<1>3. /\ i * T \in Nat /\ p.address = h.address + i * T /\ p.explicit = h.explicit
      /\ p.stack = h.stack
  BY <1>1, PartOfHost
<1>4. /\ j * T \in Nat /\ q.address = h.address + j * T /\ q.explicit = h.explicit
      /\ q.stack = h.stack
  BY <1>1, PartOfHost
<1>5. AddressOf(u, h, i * T + 1) = ByteAt(u, TargetOf(u, p), LocalOf(u, p), 1)
  BY <1>2, PlaceOfPart
<1>6. AddressOf(u, h, j * T + 1) = ByteAt(u, TargetOf(u, q), LocalOf(u, q), 1)
  BY <1>2, PlaceOfPart
<1> HIDE DEF p, q
<1> SUFFICES ASSUME TargetOf(u, p) = TargetOf(u, q), LocalOf(u, p) = LocalOf(u, q)
             PROVE  FALSE
  BY DEF SamePlace, p, q
<1>7. i * T = j * T
  <2>1. CASE h.explicit
    BY <1>1, <1>3, <1>4, <2>1 DEF LocalOf
  <2>2. CASE ~h.explicit
    BY <1>1, <1>3, <1>4, <1>5, <1>6, <2>2 DEF AddressOf
  <2> QED BY <2>1, <2>2
<1>8. (i * T) \div T = i /\ (j * T) \div T = j
  <2> DEFINE a == i * T
             b == j * T
  <2>1. a \in Nat /\ b \in Nat
    BY <1>3, <1>4
  <2>2. a \div T = i
    BY <1>2, <2>1, MultipleOf
  <2>3. b \div T = j
    BY <1>2, <2>1, MultipleOf
  <2> QED BY <2>2, <2>3
<1> QED BY <1>7, <1>8

\* and no byte of the host line has the address of another.
LEMMA AddressesApart ==
  ASSUME NEW u, Legal(u), NEW h, Proper(u, h), NEW x \in 1 .. HostBytes(u, h),
         NEW y \in 1 .. HostBytes(u, h), AddressOf(u, h, x) = AddressOf(u, h, y)
  PROVE  x = y
<1> DEFINE T == u.org.transaction
<1>0. h \in Hosts(u) /\ h.type # "control"
  BY DEF Proper
<1>1. PICK i \in 0 .. Count(u, h) - 1 : \E d \in 1 .. T : x = i * T + d
  BY <1>0, ByteOfPart
<1>2. PICK d \in 1 .. T : x = i * T + d
  BY <1>1
<1>3. PICK j \in 0 .. Count(u, h) - 1 : \E d2 \in 1 .. T : y = j * T + d2
  BY <1>0, ByteOfPart
<1>4. PICK e \in 1 .. T : y = j * T + e
  BY <1>3
<1> DEFINE p == PartOf(u, h, i)
           q == PartOf(u, h, j)
<1>5. /\ TargetOf(u, p) \in 0 .. u.map.stacks - 1 /\ LocalOf(u, p) \in Lines(u)
      /\ AddressOf(u, h, i * T + d) = ByteAt(u, TargetOf(u, p), LocalOf(u, p), d)
  BY PlaceOfPart
<1>6. /\ TargetOf(u, q) \in 0 .. u.map.stacks - 1 /\ LocalOf(u, q) \in Lines(u)
      /\ AddressOf(u, h, j * T + e) = ByteAt(u, TargetOf(u, q), LocalOf(u, q), e)
  BY PlaceOfPart
<1>7. /\ TargetOf(u, p) = TargetOf(u, q) /\ LocalOf(u, p) = LocalOf(u, q) /\ d = e
  <2> HIDE DEF p, q
  <2>1. ByteAt(u, TargetOf(u, p), LocalOf(u, p), d) = ByteAt(u, TargetOf(u, q), LocalOf(u, q), e)
    BY <1>2, <1>4, <1>5, <1>6
  <2> QED BY <1>5, <1>6, <2>1, BytesDiffer
<1>8. p.type # "control"
  <2>1. h \in Hosts(u) /\ h.type # "control" /\ h.address % T = 0
    BY DEF Proper
  <2> QED BY <2>1, PartOfHost
<1>9. i = j
  BY <1>7, <1>8, PartsApart DEF SamePlace
<1> QED BY <1>2, <1>4, <1>7, <1>9

\* A request without bytes changes nothing in the memory.
LEMMA NothingRemembered ==
  ASSUME NEW h, h.payload = <<>>, NEW a
  PROVE  Known(MemoryAfter(h), a) = Known(memory, a)
<1> DEFINE written == {SystemAddress(h, i - 1) : i \in {j \in DOMAIN h.payload : Enabled(h, j)}}
           f == [x \in written |-> h.payload[CHOOSE i \in DOMAIN h.payload :
                                               SystemAddress(h, i - 1) = x]]
<1>1. MemoryAfter(h) = Over(f, memory)
  BY DEF MemoryAfter
<1>2. DOMAIN f = {}
  OBVIOUS
<1> HIDE DEF f
<1> QED BY <1>1, <1>2 DEF Known, Over

\* The memory after a host line: its bytes at their addresses, the others as before.
LEMMA MemoryOfHost ==
  ASSUME Legal(setup), NEW h, Proper(setup, h)
  PROVE  /\ \A x \in 1 .. HostBytes(setup, h) : h.type = "write" /\ Enabled(h, x) =>
              Known(MemoryAfter(h), AddressOf(setup, h, x)) = h.payload[x]
         /\ \A a : (\A x \in 1 .. HostBytes(setup, h) :
                      h.type = "write" /\ Enabled(h, x) => AddressOf(setup, h, x) # a)
                   => Known(MemoryAfter(h), a) = Known(memory, a)
<1> DEFINE L == HostBytes(setup, h)
           A(x) == AddressOf(setup, h, x)
           written == {SystemAddress(h, i - 1) : i \in {j \in DOMAIN h.payload : Enabled(h, j)}}
           f == [a \in written |-> h.payload[CHOOSE i \in DOMAIN h.payload :
                                               SystemAddress(h, i - 1) = a]]
<1>1. MemoryAfter(h) = Over(f, memory)
  BY DEF MemoryAfter
<1>2. /\ h \in Hosts(setup) /\ h.type # "control" /\ h.payload \in Seq(Byte)
      /\ h.payload # <<>> <=> h.type = "write"
  BY DEF Proper, Hosts, HostRecords, HostSound
<1>3. DOMAIN h.payload = IF h.type = "write" THEN 1 .. L ELSE {}
  <2>1. CASE h.type = "write"
    <3>1. L = Len(h.payload)
      BY <1>2, <2>1, HostLine
    <3> HIDE DEF L
    <3> QED BY <1>2, <2>1, <3>1, LenProperties
  <2>2. CASE h.type # "write"
    BY <1>2, <2>2
  <2> QED BY <2>1, <2>2
<1>4. \A x : SystemAddress(h, x - 1) = A(x)
  BY DEF SystemAddress, AddressOf
<1>5. \A x \in 1 .. L : \A y \in 1 .. L : A(x) = A(y) => x = y
  BY AddressesApart
<1> HIDE DEF A
<1>6. ASSUME NEW x \in 1 .. L, h.type = "write"
      PROVE  (CHOOSE i \in DOMAIN h.payload : SystemAddress(h, i - 1) = A(x)) = x
  <2>1. x \in DOMAIN h.payload /\ SystemAddress(h, x - 1) = A(x)
    BY <1>3, <1>4, <1>6
  <2>2. \A i \in DOMAIN h.payload : SystemAddress(h, i - 1) = A(x) => i = x
    BY <1>3, <1>4, <1>5, <1>6
  <2> QED BY <2>1, <2>2
<1>7. ASSUME NEW x \in 1 .. L, h.type = "write", Enabled(h, x)
      PROVE  Known(MemoryAfter(h), A(x)) = h.payload[x]
  <2>1. A(x) \in written
    BY <1>3, <1>4, <1>7
  <2>2. f[A(x)] = h.payload[CHOOSE i \in DOMAIN h.payload : SystemAddress(h, i - 1) = A(x)]
    BY <2>1
  <2>3. f[A(x)] = h.payload[x]
    BY <1>6, <1>7, <2>2
  <2>4. A(x) \in DOMAIN f
    BY <2>1
  <2> HIDE DEF f
  <2> QED BY <1>1, <2>3, <2>4 DEF Known, Over
<1>8. ASSUME NEW a, \A x \in 1 .. L : h.type = "write" /\ Enabled(h, x) => A(x) # a
      PROVE  Known(MemoryAfter(h), a) = Known(memory, a)
  <2>1. a \notin written
    BY <1>3, <1>4, <1>8
  <2>2. a \notin DOMAIN f
    BY <2>1
  <2> HIDE DEF f
  <2> QED BY <1>1, <2>2 DEF Known, Over
<1> QED BY <1>7, <1>8 DEF A

\* Transactions that differ in their number only.
Alike(q, r) ==
  /\ r.type = q.type /\ r.stack = q.stack /\ (r.explicit <=> q.explicit)
  /\ r.address = q.address /\ r.size = q.size
  /\ r.payload = q.payload /\ r.mask = q.mask

\* They are for the same bytes,
LEMMA AlikeCovers ==
  ASSUME NEW u, NEW q, NEW r, Alike(q, r), NEW k, NEW l, NEW i
  PROVE  (Covers(u, r, k, l, i) <=> Covers(u, q, k, l, i)) /\ r.payload = q.payload
         /\ TargetOf(u, r) = TargetOf(u, q) /\ LocalOf(u, r) = LocalOf(u, q)
BY DEF Alike, Covers, Onto, TargetOf, LocalOf, Enabled, Has

\* Every transaction of one set is in the other, as far as what it writes goes.
AlikeSets(v, w) ==
  /\ \A r \in w : \E q \in v : Alike(q, r)
  /\ \A q \in v : \E r \in w : Alike(q, r)

\* so one set may take the place of the other.
LEMMA SettledAlike ==
  ASSUME NEW u, NEW v, NEW w, AlikeSets(v, w), NEW mem, NEW s, NEW st, NEW k, NEW l,
         Settled(u, v, mem, s, st, k, l)
  PROVE  Settled(u, w, mem, s, st, k, l)
<1> SUFFICES ASSUME NEW i \in 1 .. u.org.transaction
             PROVE  /\ \A r \in w : Covers(u, r, k, l, i) =>
                         r.payload[i] = Known(mem, ByteAt(u, k, l, i))
                    /\ (\A r \in w : ~Covers(u, r, k, l, i)) =>
                         Leaves(s, Len(s), l, i, View(u, st, l)[i], Known(mem, ByteAt(u, k, l, i)))
  BY DEF Settled
<1>1. /\ \A r \in v : Covers(u, r, k, l, i) =>
           r.payload[i] = Known(mem, ByteAt(u, k, l, i))
      /\ (\A r \in v : ~Covers(u, r, k, l, i)) =>
           Leaves(s, Len(s), l, i, View(u, st, l)[i], Known(mem, ByteAt(u, k, l, i)))
  BY DEF Settled
<1>2. ASSUME NEW r \in w, Covers(u, r, k, l, i)
      PROVE  r.payload[i] = Known(mem, ByteAt(u, k, l, i))
  <2>1. PICK q \in v : Alike(q, r)
    BY DEF AlikeSets
  <2>2. Covers(u, q, k, l, i) /\ r.payload = q.payload
    BY <1>2, <2>1, AlikeCovers
  <2> QED BY <1>1, <2>2
<1>3. ASSUME \A r \in w : ~Covers(u, r, k, l, i), NEW q \in v
      PROVE  ~Covers(u, q, k, l, i)
  <2>1. PICK r \in w : Alike(q, r)
    BY DEF AlikeSets
  <2> QED BY <1>3, <2>1, AlikeCovers
<1> QED BY <1>1, <1>2, <1>3

\* The transactions of a host line, taken from the source: the memory holds what
\* they will write.
LEMMA SettledFilled ==
  ASSUME Legal(setup), NEW h, Proper(setup, h), NEW s, NEW st,
         NEW k \in 0 .. setup.map.stacks - 1, NEW l \in Lines(setup),
         Settled(setup, {}, memory, s, st, k, l)
  PROVE  Settled(setup, {PartOf(setup, h, i) : i \in 0 .. Count(setup, h) - 1}, MemoryAfter(h),
                 s, st, k, l)
<1> DEFINE u == setup
           T == setup.org.transaction
           w == {PartOf(u, h, i) : i \in 0 .. Count(u, h) - 1}
           mem == MemoryAfter(h)
<1>1. h \in Hosts(u) /\ h.type # "control" /\ h.address % T = 0
  BY DEF Proper
<1> SUFFICES ASSUME NEW b \in 1 .. T
             PROVE  /\ \A r \in w : Covers(u, r, k, l, b) =>
                         r.payload[b] = Known(mem, ByteAt(u, k, l, b))
                    /\ (\A r \in w : ~Covers(u, r, k, l, b)) =>
                         Leaves(s, Len(s), l, b, View(u, st, l)[b], Known(mem, ByteAt(u, k, l, b)))
  BY DEF Settled
<1>2. Leaves(s, Len(s), l, b, View(u, st, l)[b], Known(memory, ByteAt(u, k, l, b)))
  BY DEF Settled
<1>3. ASSUME NEW i \in 0 .. Count(u, h) - 1, NEW d, Has(PartOf(u, h, i), d)
      PROVE  LET p == PartOf(u, h, i)
                 x == i * T + d
             IN /\ x \in 1 .. HostBytes(u, h) /\ p.type = h.type
                /\ h.type = "write" => p.payload[d] = h.payload[x]
                /\ Enabled(p, d) <=> Enabled(h, x)
  BY <1>1, <1>3, PartOfHost DEF Has
<1>4. ASSUME NEW i \in 0 .. Count(u, h) - 1, Covers(u, PartOf(u, h, i), k, l, b)
      PROVE  PartOf(u, h, i).payload[b] = Known(mem, ByteAt(u, k, l, b))
  <2> DEFINE p == PartOf(u, h, i)
             x == i * T + b
  <2>1. /\ x \in 1 .. HostBytes(u, h) /\ p.type = h.type
        /\ h.type = "write" => p.payload[b] = h.payload[x]
        /\ Enabled(p, b) <=> Enabled(h, x)
    BY <1>3, <1>4 DEF Covers
  <2>2. AddressOf(u, h, x) = ByteAt(u, TargetOf(u, p), LocalOf(u, p), b)
    BY PlaceOfPart
  <2> HIDE DEF p, x
  <2>3. p.type = "write" /\ TargetOf(u, p) = k /\ LocalOf(u, p) = l /\ Enabled(p, b)
    BY <1>4 DEF Covers, Onto, p
  <2>4. Known(mem, AddressOf(u, h, x)) = h.payload[x]
    BY <2>1, <2>3, MemoryOfHost
  <2> QED BY <2>1, <2>2, <2>3, <2>4 DEF p
<1>5. ASSUME \A r \in w : ~Covers(u, r, k, l, b)
      PROVE  Known(mem, ByteAt(u, k, l, b)) = Known(memory, ByteAt(u, k, l, b))
  <2>1. ASSUME NEW x \in 1 .. HostBytes(u, h), h.type = "write", Enabled(h, x),
               AddressOf(u, h, x) = ByteAt(u, k, l, b)
        PROVE  FALSE
    <3>1. PICK i \in 0 .. Count(u, h) - 1 :
            \E d \in 1 .. PartSize(u, HostBytes(u, h), i) : x = i * T + d /\ d \in 1 .. T
      BY <1>1, ByteOfPart
    <3>2. PICK d \in 1 .. PartSize(u, HostBytes(u, h), i) : x = i * T + d /\ d \in 1 .. T
      BY <3>1
    <3> DEFINE p == PartOf(u, h, i)
    <3>9. Has(p, d)
      BY <1>1, PartOfHost DEF Has
    <3>3. p.type = h.type /\ (Enabled(p, d) <=> Enabled(h, x))
      BY <1>3, <3>2, <3>9
    <3>4. /\ TargetOf(u, p) \in 0 .. u.map.stacks - 1 /\ LocalOf(u, p) \in Lines(u)
          /\ AddressOf(u, h, x) = ByteAt(u, TargetOf(u, p), LocalOf(u, p), d)
      BY <3>2, PlaceOfPart
    <3>5. p \in w
      OBVIOUS
    <3> HIDE DEF p
    <3>6. ByteAt(u, TargetOf(u, p), LocalOf(u, p), d) = ByteAt(u, k, l, b)
      BY <2>1, <3>4
    <3>10. d \in 1 .. T
      BY <3>2
    <3>7. TargetOf(u, p) = k /\ LocalOf(u, p) = l /\ d = b
      BY <3>4, <3>6, <3>10, BytesDiffer
    <3>8. Covers(u, p, k, l, b)
      BY <2>1, <3>3, <3>7, <3>9 DEF Covers, Onto
    <3> QED BY <1>5, <3>5, <3>8
  <2> QED BY <2>1, MemoryOfHost
<1> QED BY <1>2, <1>4, <1>5

-----------------------------------------------------------------------------
(* The bytes of a run *)

\* What the source has handed out and enqueue() has not taken, and what is on its
\* way to a controller, in the order it will come to it.
Waiting == held \cup {stream.pending[j] : j \in DOMAIN stream.pending}
Path(c) == queues[c] \o ingress[StackOf(c)]
Owns(c, l) == Home(setup, l)["channel"] = ChannelOf(c)
Companions(u, r, q) == r.type = q.type /\ ~SamePlace(u, r, q)

\* What waits is of one host line.
OneHost ==
  /\ \A i \in DOMAIN stream.pending : \A j \in DOMAIN stream.pending :
       i # j => Companions(setup, stream.pending[i], stream.pending[j])
  /\ \A r \in held : \A j \in DOMAIN stream.pending :
       Companions(setup, r, stream.pending[j])
  /\ \A r \in Waiting : Aligned(setup, r)

\* What is routed is for one line, and a read knows what it is owed.
Routed(u, r) ==
  r.type # "control" =>
    OfLine(u, r) /\ (r.type = "read" => r.owed \in Bytes(r.size))
AllRouted ==
  /\ \A k \in Stacks : \A i \in DOMAIN ingress[k] : Routed(setup, ingress[k][i])
  /\ \A c \in Controllers : \A i \in DOMAIN queues[c] : Routed(setup, queues[c][i])

AllInPlace == \A k \in Stacks : InPlace(setup, store[k])
LineTruthful(c, l) ==
  Truthful(setup, Waiting, memory, Path(c), store[StackOf(c)], StackOf(c), l)
AllTruthful ==
  \A c \in Controllers : \A l \in Lines(setup) : Owns(c, l) => LineTruthful(c, l)

\* Every byte is where it is looked for.
BytesKept == OneHost /\ AllRouted /\ AllInPlace /\ AllTruthful /\ ReadsReturnLastWrite

\* A transaction that writes nothing of a line may go.
LEMMA TruthfulDropped ==
  ASSUME NEW u, NEW w, NEW w2, NEW mem, NEW s, NEW st, NEW k, NEW l,
         \A r \in w2 : r \in w,
         \A r \in w : \A i \in 1 .. u.org.transaction : Covers(u, r, k, l, i) => r \in w2,
         Truthful(u, w, mem, s, st, k, l)
  PROVE  Truthful(u, w2, mem, s, st, k, l)
BY DEF Truthful, Settled

\* What a turn of controller c has to leave: its own lines as they should be, and
\* those of the other channels as they were.
Settles(c, st) ==
  /\ InPlace(setup, st)
  /\ \A l \in Lines(setup) :
       IF Owns(c, l)
       THEN Truthful(setup, Waiting, memory, queues'[c] \o ingress[StackOf(c)], st,
                     StackOf(c), l)
       ELSE View(setup, st, l) = View(setup, store[StackOf(c)], l)
Notes(c, e) ==
  /\ e \in Entries(setup) /\ (e.cmd = "RD" => e.payload = e.owed)
  /\ log' = [log EXCEPT ![c] = Append(log[c], e)]

\* A turn that leaves the lines of its stack as they should be, and notes of a read
\* what it was owed, leaves every byte where it is looked for.
LEMMA TurnBytes ==
  ASSUME FrontendTyped, BytesKept, NEW c \in Controllers, NEW st,
         UNCHANGED <<setup, stream, held, memory, ingress>>,
         store' = [store EXCEPT ![StackOf(c)] = st],
         queues' = queues \/ \E i : Serves(c, i),
         log' = log \/ \E e : Notes(c, e), Settles(c, st)
  PROVE  BytesKept'
<1>1. /\ setup' = setup /\ stream' = stream /\ held' = held /\ memory' = memory
      /\ ingress' = ingress
  OBVIOUS
<1>2. Stacks' = Stacks /\ Controllers' = Controllers /\ Waiting' = Waiting
      /\ \A d : StackOf(d)' = StackOf(d) /\ ChannelOf(d)' = ChannelOf(d)
  BY <1>1 DEF Stacks, Controllers, Channels, StackOf, ChannelOf, Waiting
<1>3. OneHost'
  BY <1>1, <1>2 DEF BytesKept, OneHost
<1>4. \A d \in Controllers : StackOf(d) \in Stacks /\ queues[d] \in Seq(Parts(setup))
  BY ControllersTyped, StoreOf DEF FrontendTyped, QueuesTyped
<1>5. /\ \A d \in Controllers : d # c => queues'[d] = queues[d]
      /\ \A i \in DOMAIN queues'[c] : \E m \in DOMAIN queues[c] : queues'[c][i] = queues[c][m]
  <2>1. CASE queues' = queues
    BY <2>1
  <2>2. CASE \E i : Serves(c, i)
    <3>1. PICK i : Serves(c, i)
      BY <2>2
    <3> DEFINE q == RemoveAt(queues[c], i)
    <3>2. i \in DOMAIN queues[c] /\ queues' = [queues EXCEPT ![c] = q]
      BY <3>1 DEF Serves
    <3>3. \A j \in DOMAIN q : \E m \in DOMAIN queues[c] : q[j] = queues[c][m]
      BY <1>4, <3>2, Removes
    <3> HIDE DEF q
    <3>4. queues \in [Controllers -> Seq(Parts(setup))]
      BY DEF FrontendTyped, QueuesTyped
    <3> QED BY <3>2, <3>3, <3>4
  <2> QED BY <2>1, <2>2
<1>6. AllRouted'
  <2>1. ASSUME NEW d \in Controllers, NEW i \in DOMAIN queues'[d]
        PROVE  Routed(setup, queues'[d][i])
    <3>1. \E m \in DOMAIN queues[d] : queues'[d][i] = queues[d][m]
      BY <1>5, <2>1
    <3> QED BY <3>1 DEF BytesKept, AllRouted
  <2> QED BY <1>1, <1>2, <2>1 DEF BytesKept, AllRouted
<1>7. store \in [Stacks -> Stored(setup)]
  BY DEF FrontendTyped, StoresTyped
<1>8. \A k \in Stacks : store'[k] = IF k = StackOf(c) THEN st ELSE store[k]
  BY <1>4, <1>7
<1>9. AllInPlace'
  BY <1>1, <1>2, <1>8 DEF BytesKept, AllInPlace, Settles
<1>10. AllTruthful'
  <2>1. ASSUME NEW d \in Controllers, NEW l \in Lines(setup), Owns(d, l)
        PROVE  Truthful(setup, Waiting, memory, queues'[d] \o ingress[StackOf(d)],
                        store'[StackOf(d)], StackOf(d), l)
    <3>1. Truthful(setup, Waiting, memory, queues[d] \o ingress[StackOf(d)],
                   store[StackOf(d)], StackOf(d), l)
      BY <2>1 DEF BytesKept, AllTruthful, LineTruthful, Path
    <3>2. CASE d = c
      BY <1>4, <1>8, <2>1, <3>2 DEF Settles
    <3>3. CASE d # c /\ StackOf(d) = StackOf(c)
      <4>1. ~Owns(c, l)
        <5>1. ChannelOf(d) # ChannelOf(c)
          BY <3>3, ControllersTyped, StoreOf
        <5> QED BY <2>1, <5>1 DEF Owns
      <4>2. View(setup, st, l) = View(setup, store[StackOf(c)], l)
        BY <4>1 DEF Settles
      <4> QED BY <1>4, <1>5, <1>8, <3>1, <3>3, <4>2, TruthfulMoved
    <3>4. CASE StackOf(d) # StackOf(c)
      BY <1>4, <1>5, <1>8, <3>1, <3>4
    <3> QED BY <3>2, <3>3, <3>4
  <2>2. \A d : \A l : Owns(d, l)' <=> Owns(d, l)
    BY <1>1, <1>2 DEF Owns
  <2>3. \A d : StackOf(d)' = StackOf(d)
    BY <1>2
  <2> QED BY <1>1, <1>2, <2>1, <2>2, <2>3 DEF AllTruthful, LineTruthful, Path
<1>11. ReadsReturnLastWrite'
  <2>1. \A d \in Controllers : \A i \in DOMAIN log[d] :
          log[d][i].cmd = "RD" => log[d][i].payload = log[d][i].owed
    BY DEF BytesKept, ReadsReturnLastWrite
  <2>2. CASE log' = log
    BY <1>2, <2>1, <2>2 DEF ReadsReturnLastWrite
  <2>3. CASE \E e : Notes(c, e)
    <3>1. PICK e : Notes(c, e)
      BY <2>3
    <3> DEFINE s == Append(log[c], e)
    <3>2. e \in Entries(setup) /\ log \in [Controllers -> Seq(Entries(setup))]
      BY <3>1 DEF Notes, FrontendTyped, LogTyped
    <3>3. \A j \in DOMAIN s : (j \in DOMAIN log[c] /\ s[j] = log[c][j]) \/ s[j] = e
      BY <3>2, Appends
    <3>4. (e.cmd = "RD" => e.payload = e.owed) /\ log' = [log EXCEPT ![c] = s]
      BY <3>1 DEF Notes
    <3> HIDE DEF s
    <3>5. \A d \in Controllers : log'[d] = IF d = c THEN s ELSE log[d]
      BY <3>2, <3>4
    <3> QED BY <1>2, <2>1, <3>3, <3>4, <3>5 DEF ReadsReturnLastWrite
  <2> QED BY <2>2, <2>3
<1> QED BY <1>3, <1>6, <1>9, <1>10, <1>11 DEF BytesKept

\* Serving a transaction in the way ServesWell() says settles a turn.
LEMMA ServeSettles ==
  ASSUME FrontendTyped, BytesKept, NEW c \in Controllers, NEW i, Serves(c, i), NEW st,
         InPlace(setup, st),
         \A l \in Lines(setup) :
           IF Owns(c, l) THEN ServesWell(setup, Path(c), i, store[StackOf(c)], st, l)
           ELSE View(setup, st, l) = View(setup, store[StackOf(c)], l)
  PROVE  Settles(c, st)
<1> DEFINE q == queues[c]
           g == ingress[StackOf(c)]
<1>1. /\ q \in Seq(Parts(setup)) /\ g \in Seq(Parts(setup)) /\ i \in DOMAIN q
      /\ queues'[c] = RemoveAt(q, i)
  BY StoreOf DEF FrontendTyped, QueuesTyped, Serves
<1>2. Path(c) = q \o g
  BY DEF Path
<1> HIDE DEF q, g
<1>3. Without(RemoveAt(q, i) \o g, q \o g, i) /\ Len(q \o g) \in Nat
  BY <1>1, PathServed
<1>4. ASSUME NEW l \in Lines(setup), Owns(c, l)
      PROVE  Truthful(setup, Waiting, memory, RemoveAt(q, i) \o g, st, StackOf(c), l)
  <2>1. Truthful(setup, Waiting, memory, q \o g, store[StackOf(c)], StackOf(c), l)
    BY <1>2, <1>4 DEF BytesKept, AllTruthful, LineTruthful
  <2>2. ServesWell(setup, q \o g, i, store[StackOf(c)], st, l)
    BY <1>2, <1>4
  <2> QED BY <1>3, <2>1, <2>2, TruthfulServed
<1> QED BY <1>1, <1>4 DEF Settles, g

\* A request of a queue is the same on its path.
LEMMA PathHas ==
  ASSUME FrontendTyped, NEW c \in Controllers, NEW i \in DOMAIN queues[c]
  PROVE  /\ Path(c)[i] = queues[c][i] /\ i \in 1 .. Len(Path(c)) /\ i \in Nat
         /\ \A j \in 1 .. i - 1 : j \in DOMAIN queues[c] /\ Path(c)[j] = queues[c][j]
<1> DEFINE q == queues[c]
           g == ingress[StackOf(c)]
<1>1. q \in Seq(Parts(setup)) /\ g \in Seq(Parts(setup)) /\ i \in DOMAIN q
  BY StoreOf DEF FrontendTyped, QueuesTyped
<1>2. Path(c) = q \o g
  BY DEF Path
<1> HIDE DEF q, g
<1>3. /\ Without(RemoveAt(q, i) \o g, q \o g, i)
      /\ \A j \in 1 .. i : j \in DOMAIN q /\ (q \o g)[j] = q[j]
  BY <1>1, PathServed
<1>4. i \in Nat /\ i >= 1 /\ DOMAIN q = 1 .. Len(q)
  BY <1>1
<1>5. i \in 1 .. i /\ \A j \in 1 .. i - 1 : j \in 1 .. i
  BY <1>4
<1> QED BY <1>2, <1>3, <1>4, <1>5 DEF q, Without

\* No request that a controller may serve comes after another for its line.
LEMMA NoneEarlier ==
  ASSUME FrontendTyped, BytesKept, NEW c \in Controllers, NEW i \in Unordered(c),
         queues[c][i].type # "control"
  PROVE  /\ i \in DOMAIN queues[c] /\ OfLine(setup, queues[c][i])
         /\ \A j \in 1 .. i - 1 :
              Path(c)[j].type = "control" \/ Path(c)[j].address # queues[c][i].address
<1>1. /\ i \in DOMAIN queues[c]
      /\ \A j \in 1 .. i - 1 : queues[c][j].type = "control"
                               \/ ~Overlap(queues[c][j], queues[c][i])
  BY DEF Unordered
<1>2. \A j \in DOMAIN queues[c] : queues[c][j].type # "control" => OfLine(setup, queues[c][j])
  BY DEF BytesKept, AllRouted, Routed
<1>3. setup.org.transaction \in Nat \ {0}
  BY StoreOf, LegalParts
<1>4. ASSUME NEW j \in 1 .. i - 1, queues[c][j].type # "control",
             queues[c][j].address = queues[c][i].address
      PROVE  FALSE
  <2>1. j \in DOMAIN queues[c]
    BY <1>1, PathHas
  <2>2. OfLine(setup, queues[c][j]) /\ queues[c][i].address \in Nat
    BY <1>1, <1>2, <1>4, <2>1, QueuedParts
  <2> DEFINE m == queues[c][j].size
             n == queues[c][i].size
             a == queues[c][i].address
  <2>3. m \in 1 .. setup.org.transaction /\ n \in 1 .. setup.org.transaction
    BY <1>1, <1>2, <2>2 DEF OfLine
  <2>4. ~(a < a + n /\ a < a + m)
    BY <1>1, <1>4 DEF Overlap
  <2> HIDE DEF m, n, a
  <2>5. m \in Nat \ {0} /\ n \in Nat \ {0}
    BY <1>3, <2>3
  <2>6. a \in Nat
    BY <2>2 DEF a
  <2> QED BY <2>4, <2>5, <2>6
<1> QED BY <1>1, <1>2, <1>4, PathHas

\* A request in a queue is for a line of its controller.
LEMMA QueuedOwned ==
  ASSUME FrontendTyped, NEW c \in Controllers, NEW i \in DOMAIN queues[c],
         OfLine(setup, queues[c][i])
  PROVE  Owns(c, queues[c][i].address)
BY QueuedParts DEF Owns, OfLine

\* A read, which returns what it is owed,
LEMMA ReadBytes ==
  ASSUME FrontendTyped, BytesKept, ~setup.org.efficiency, NEW c \in Controllers,
         ReadColumn(c), UNCHANGED <<setup, stream, held, memory, ingress>>
  PROVE  BytesKept'
<1>1. PICK i \in ReadyColumns(c) : \E r \in {queues[c][i]} :
        /\ r.type = "read"
        /\ \E got \in {FoldLeft(ReadPiece, [st |-> store[StackOf(c)], bytes |-> <<>>],
                                Pieces(r))} :
             /\ store' = [store EXCEPT ![StackOf(c)] = got.st]
             /\ log' = [log EXCEPT ![c] =
                          Append(log[c], Entry(c, r, "RD", r.id, got.bytes))]
        /\ queues' = [queues EXCEPT ![c] = RemoveAt(queues[c], i)]
        /\ UNCHANGED <<maintenance, idle>>
  BY DEF ReadColumn
<1> DEFINE r == queues[c][i]
           old == store[StackOf(c)]
           got == FoldLeft(ReadPiece, [st |-> old, bytes |-> <<>>], Pieces(r))
           e == Entry(c, r, "RD", r.id, got.bytes)
           l == r.address
           T == setup.org.transaction
           n == r.size
<1>2. i \in DOMAIN queues[c] /\ RowOpen(old, r.at) /\ i \in Unordered(c)
  BY DEF ReadyColumns, Unordered
<1>3. /\ r.type = "read" /\ store' = [store EXCEPT ![StackOf(c)] = got.st]
      /\ log' = [log EXCEPT ![c] = Append(log[c], e)]
      /\ queues' = [queues EXCEPT ![c] = RemoveAt(queues[c], i)]
  BY <1>1
<1>4. /\ r \in Parts(setup) /\ r.at \in Places(setup.org) /\ r.address \in Nat
      /\ r.system \in Nat /\ r.expected \in Seq(Byte) /\ r.owed \in Seq(Byte)
      /\ r.id \in Nat
  BY <1>2, QueuedParts
<1>5. Legal(setup) /\ old \in Stored(setup) /\ clk \in Nat /\ InPlace(setup, old)
  BY StoreOf DEF BytesKept, AllInPlace
<1>6. /\ OfLine(setup, r) /\ Path(c)[i] = r /\ i \in 1 .. Len(Path(c)) /\ i \in Nat
      /\ \A j \in 1 .. i - 1 : Path(c)[j].type = "control" \/ Path(c)[j].address # l
  BY <1>2, <1>3, NoneEarlier, PathHas
<1>7. r.owed \in Bytes(n) /\ n \in 1 .. T /\ Owns(c, l) /\ l \in Lines(setup) /\ r.at = Home(setup, l)
  BY <1>2, <1>3, <1>6, QueuedOwned DEF BytesKept, AllRouted, Routed, OfLine
<1>8. Serves(c, i)
  BY <1>2, <1>3 DEF Serves
<1> HIDE DEF r, old
<1>9. /\ got.bytes \in Bytes(n) /\ \A b \in 1 .. n : got.bytes[b] = View(setup, old, l)[b]
      /\ InPlace(setup, got.st)
      /\ \A m \in Lines(setup) : View(setup, got.st, m) = View(setup, old, m)
  BY <1>2, <1>5, <1>6, ReadLine
<1> HIDE DEF got
<1>11. got.bytes = r.owed
  <2>1. Owing(setup, Path(c), old, l)
    BY <1>7 DEF BytesKept, AllTruthful, LineTruthful, Truthful, old
  <2>0. \A b \in 1 .. n : b \in 1 .. T /\ Has(r, b)
    <3> HIDE DEF n, T
    <3>1. T \in Nat
      BY <1>5, LegalParts DEF T
    <3>2. \A b \in 1 .. n : b \in 1 .. T
      BY <1>7, <3>1
    <3> QED BY <3>2 DEF Has, n
  <2>2. \A b \in 1 .. n : Leaves(Path(c), i - 1, l, b, View(setup, old, l)[b], r.owed[b])
    BY <1>3, <1>6, <2>0, <2>1 DEF Owing
  <2>3. \A b : \A j \in 1 .. i - 1 : ~Writes(Path(c)[j], l, b)
    BY <1>6 DEF Writes
  <2>4. \A b \in 1 .. n : r.owed[b] = View(setup, old, l)[b]
    BY <2>2, <2>3 DEF Leaves
  <2> DEFINE x == got.bytes
             y == r.owed
  <2>5. x \in Bytes(n) /\ y \in Bytes(n) /\ \A b \in 1 .. n : x[b] = y[b]
    BY <1>7, <1>9, <2>4
  <2> HIDE DEF x, y, n
  <2>6. x \in Seq(Byte) /\ y \in Seq(Byte) /\ Len(x) = n /\ Len(y) = n
    BY <2>5 DEF Bytes
  <2> QED BY ONLY <2>5, <2>6, SeqEqual DEF x, y
<1>12. got.bytes \in Seq(Byte)
  BY <1>9 DEF Bytes
<1>13. e \in Entries(setup) /\ e.payload = e.owed
  <2>1. e \in Entries(setup)
    BY <1>4, <1>5, <1>12, EntryTyped DEF Commands
  <2> QED BY <1>9, <1>11, <2>1 DEF Entry
<1> HIDE DEF e
<1>14. Notes(c, e)
  BY <1>3, <1>13 DEF Notes
<1>15. Settles(c, got.st)
  <2>1. \A m \in Lines(setup) : ServesWell(setup, Path(c), i, old, got.st, m)
    BY <1>3, <1>6, <1>9 DEF ServesWell, Writes
  <2> QED BY <1>8, <1>9, <2>1, ServeSettles DEF old
<1> QED BY <1>3, <1>8, <1>14, <1>15, TurnBytes

\* a write, which overtakes none for its line,
LEMMA WriteBytes ==
  ASSUME FrontendTyped, BytesKept, ~setup.org.efficiency, NEW c \in Controllers,
         WriteColumn(c), UNCHANGED <<setup, stream, held, memory, ingress>>
  PROVE  BytesKept'
<1> DEFINE old == store[StackOf(c)]
           New(r) == FoldLeft(LAMBDA st, p : WritePiece(st, r, p), old, Pieces(r))
<1>0. \E i \in ReadyColumns(c) : \E r \in {queues[c][i]} :
        /\ r.type = "write"
        /\ store' = [store EXCEPT ![StackOf(c)] = New(r)]
        /\ log' = [log EXCEPT ![c] = Append(log[c], Entry(c, r, "WR", r.id, r.payload))]
        /\ queues' = [queues EXCEPT ![c] = RemoveAt(queues[c], i)]
        /\ UNCHANGED <<maintenance, idle>>
  BY Zenon DEF WriteColumn
<1>12. \A r \in Parts(setup) :
         Legal(setup) /\ ~setup.org.efficiency /\ old \in Stored(setup) /\ InPlace(setup, old)
         /\ r.type = "write" /\ OfLine(setup, r) /\ RowOpen(old, r.at) =>
           /\ InPlace(setup, New(r))
           /\ \A b \in 1 .. setup.org.transaction :
                View(setup, New(r), r.address)[b] =
                  IF Has(r, b) /\ Enabled(r, b) THEN r.payload[b] ELSE View(setup, old, r.address)[b]
           /\ \A m \in Lines(setup) : m # r.address =>
                View(setup, New(r), m) = View(setup, old, m)
  BY WriteLine
<1> HIDE DEF New
<1>1. PICK i \in ReadyColumns(c) : \E r \in {queues[c][i]} :
        /\ r.type = "write"
        /\ store' = [store EXCEPT ![StackOf(c)] = New(r)]
        /\ log' = [log EXCEPT ![c] = Append(log[c], Entry(c, r, "WR", r.id, r.payload))]
        /\ queues' = [queues EXCEPT ![c] = RemoveAt(queues[c], i)]
        /\ UNCHANGED <<maintenance, idle>>
  BY <1>0
<1> DEFINE r == queues[c][i]
           new == New(r)
           e == Entry(c, r, "WR", r.id, r.payload)
           l == r.address
<1>2. i \in DOMAIN queues[c] /\ RowOpen(old, r.at) /\ i \in Unordered(c)
  BY DEF ReadyColumns, Unordered
<1>3. /\ r.type = "write" /\ store' = [store EXCEPT ![StackOf(c)] = new]
      /\ log' = [log EXCEPT ![c] = Append(log[c], e)]
      /\ queues' = [queues EXCEPT ![c] = RemoveAt(queues[c], i)]
  BY <1>1
<1>4. /\ r \in Parts(setup) /\ r.at \in Places(setup.org) /\ r.address \in Nat
      /\ r.system \in Nat /\ r.expected \in Seq(Byte) /\ r.owed \in Seq(Byte)
      /\ r.id \in Nat /\ r.payload \in Seq(Byte)
  BY <1>2, QueuedParts
<1>5. Legal(setup) /\ old \in Stored(setup) /\ clk \in Nat /\ InPlace(setup, old)
  BY StoreOf DEF BytesKept, AllInPlace
<1>6. /\ OfLine(setup, r) /\ Path(c)[i] = r
      /\ \A j \in 1 .. i - 1 : Path(c)[j].type = "control" \/ Path(c)[j].address # l
  BY <1>2, <1>3, NoneEarlier, PathHas
<1>7. Owns(c, l) /\ Serves(c, i)
  BY <1>2, <1>3, <1>6, QueuedOwned DEF Serves
<1> HIDE DEF r, old
<1>8. /\ InPlace(setup, new)
      /\ \A b \in 1 .. setup.org.transaction :
           View(setup, new, l)[b] =
             IF Has(r, b) /\ Enabled(r, b) THEN r.payload[b] ELSE View(setup, old, l)[b]
      /\ \A m \in Lines(setup) : m # l => View(setup, new, m) = View(setup, old, m)
  BY <1>2, <1>3, <1>4, <1>5, <1>6, <1>12
<1> HIDE DEF new
<1>9. Notes(c, e)
  <2>1. e \in Entries(setup) /\ e.cmd = "WR"
    BY <1>4, <1>5, EntryTyped DEF Commands
  <2> HIDE DEF e
  <2> QED BY <1>3, <2>1 DEF Notes
<1>10. Settles(c, new)
  <2>1. ASSUME NEW m \in Lines(setup)
        PROVE  ServesWell(setup, Path(c), i, old, new, m)
    <3>1. CASE m = l
      BY <1>3, <1>6, <1>8, <3>1 DEF ServesWell, Writes
    <3>2. CASE m # l
      BY <1>6, <1>8, <3>2 DEF ServesWell, Writes
    <3> QED BY <3>1, <3>2
  <2>2. \A m \in Lines(setup) : ~Owns(c, m) => View(setup, new, m) = View(setup, old, m)
    BY <1>7, <1>8
  <2> QED BY <1>7, <1>8, <2>1, <2>2, ServeSettles DEF old
<1> HIDE DEF e
<1> QED BY <1>3, <1>7, <1>9, <1>10, TurnBytes

\* Storage that holds the same lines settles a turn that serves nothing.
LEMMA StaySettles ==
  ASSUME FrontendTyped, BytesKept, NEW c \in Controllers, queues' = queues, NEW st,
         InPlace(setup, st),
         \A l \in Lines(setup) : View(setup, st, l) = View(setup, store[StackOf(c)], l)
  PROVE  Settles(c, st)
<1>1. ASSUME NEW l \in Lines(setup), Owns(c, l)
      PROVE  Truthful(setup, Waiting, memory, queues'[c] \o ingress[StackOf(c)], st,
                      StackOf(c), l)
  <2>1. Truthful(setup, Waiting, memory, queues[c] \o ingress[StackOf(c)],
                 store[StackOf(c)], StackOf(c), l)
    BY <1>1 DEF BytesKept, AllTruthful, LineTruthful, Path
  <2>2. View(setup, st, l) = View(setup, store[StackOf(c)], l)
    BY <1>1
  <2> QED BY <2>1, <2>2, TruthfulMoved
<1> QED BY <1>1 DEF Settles

\* So does that of a turn that serves a control command.
LEMMA ControlSettles ==
  ASSUME FrontendTyped, BytesKept, NEW c \in Controllers, NEW i, Serves(c, i),
         queues[c][i].type = "control", NEW st, InPlace(setup, st),
         \A l \in Lines(setup) : View(setup, st, l) = View(setup, store[StackOf(c)], l)
  PROVE  Settles(c, st)
<1>1. Path(c)[i] = queues[c][i]
  BY PathHas DEF Serves
<1>2. \A l \in Lines(setup) : ServesWell(setup, Path(c), i, store[StackOf(c)], st, l)
  BY <1>1 DEF ServesWell, Writes
<1> QED BY <1>2, ServeSettles

\* a control command,
LEMMA ControlBytes ==
  ASSUME FrontendTyped, BytesKept, NEW c \in Controllers, ControlCommand(c),
         UNCHANGED <<setup, stream, held, memory, ingress>>
  PROVE  BytesKept'
<1>1. PICK i \in ReadyControls(c) : \E r \in {queues[c][i]} :
        /\ log' = [log EXCEPT ![c] = Append(log[c], Entry(c, r, r.cmd, r.id, <<>>))]
        /\ queues' = [queues EXCEPT ![c] = RemoveAt(queues[c], i)]
        /\ UNCHANGED <<store, maintenance, idle>>
  BY DEF ControlCommand
<1> DEFINE r == queues[c][i]
           old == store[StackOf(c)]
           e == Entry(c, r, r.cmd, r.id, <<>>)
<1>2. i \in DOMAIN queues[c] /\ r.type = "control"
  BY DEF ReadyControls, HeadControls
<1>3. /\ store' = store /\ log' = [log EXCEPT ![c] = Append(log[c], e)]
      /\ queues' = [queues EXCEPT ![c] = RemoveAt(queues[c], i)]
  BY <1>1
<1>4. /\ r \in Parts(setup) /\ r.at \in Places(setup.org) /\ r.address \in Nat
      /\ r.system \in Nat /\ r.expected \in Seq(Byte) /\ r.owed \in Seq(Byte)
      /\ r.id \in Nat /\ r.cmd \in ControlNames
  BY <1>2, QueuedParts
<1>5. Legal(setup) /\ clk \in Nat /\ InPlace(setup, old) /\ StackOf(c) \in Stacks
  BY StoreOf DEF BytesKept, AllInPlace
<1>6. store' = [store EXCEPT ![StackOf(c)] = old]
  <2>1. DOMAIN store = Stacks /\ store = [k \in Stacks |-> store[k]]
    BY DEF FrontendTyped, StoresTyped
  <2> QED BY <1>3, <1>5, <2>1
<1>7. Serves(c, i)
  BY <1>2, <1>3 DEF Serves
<1>11. Settles(c, old)
  BY <1>2, <1>5, <1>7, ControlSettles
<1> HIDE DEF r, old
<1>8. <<>> \in Seq(Byte) /\ r.cmd \in Commands /\ r.cmd # "RD"
  BY <1>4, EmptySeq DEF Commands, ControlNames, TraceCommands
<1>9. e \in Entries(setup) /\ e.cmd = r.cmd
  <2>1. \A x \in Seq(Byte) : \A m \in Commands :
          LET y == Entry(c, r, m, r.id, x)
          IN y \in Entries(setup) /\ y.cmd = m
    BY <1>4, <1>5, EntryTyped
  <2> QED BY <1>8, <2>1
<1> HIDE DEF e
<1>10. Notes(c, e)
  BY <1>3, <1>8, <1>9 DEF Notes
<1> QED BY <1>6, <1>7, <1>10, <1>11, TurnBytes

\* an ACT, of a bank that was closed,
LEMMA ActivateBytes ==
  ASSUME FrontendTyped, BytesKept, NEW c \in Controllers, Activate(c),
         UNCHANGED <<setup, stream, held, memory, ingress>>
  PROVE  BytesKept'
<1> DEFINE old == store[StackOf(c)]
           Row(r) == [row |-> r.at["row"], dirty |-> FALSE, columns |-> [k \in {} |-> 0]]
<1>1. PICK i \in NeedsRow(c) : \E r \in {queues[c][i]} :
        /\ store' = [store EXCEPT ![StackOf(c)].rows =
                       With(old.rows, BankKey(r.at), Row(r))]
        /\ log' = [log EXCEPT ![c] = Append(log[c], Entry(c, r, "ACT", r.id, <<>>))]
        /\ UNCHANGED <<queues, maintenance, idle>>
  BY DEF Activate
<1> DEFINE r == queues[c][i]
           e == Entry(c, r, "ACT", r.id, <<>>)
           row == Row(r)
           b == BankKey(r.at)
           rows == With(old.rows, b, row)
           new == [old EXCEPT !.rows = rows]
<1>2. i \in DOMAIN queues[c] /\ b \notin RowsOf(c)
  BY DEF NeedsRow
<1>3. /\ store' = [store EXCEPT ![StackOf(c)] = new]
      /\ log' = [log EXCEPT ![c] = Append(log[c], e)] /\ queues' = queues
  BY <1>1
<1>4. /\ r \in Parts(setup) /\ r.at \in Places(setup.org) /\ r.address \in Nat
      /\ r.system \in Nat /\ r.expected \in Seq(Byte) /\ r.owed \in Seq(Byte)
      /\ r.id \in Nat /\ r.at["channel"] = ChannelOf(c)
  BY <1>2, QueuedParts
<1>5. Legal(setup) /\ old \in Stored(setup) /\ clk \in Nat /\ setup.org \in Organizations
      /\ InPlace(setup, old)
  BY StoreOf DEF BytesKept, AllInPlace
<1> HIDE DEF r
<1>6. DOMAIN row.columns = {}
  OBVIOUS
<1>7. b["channel"] = ChannelOf(c)
  BY <1>4, <1>5, SameBank
<1>8. b \notin DOMAIN old.rows
  BY <1>2, <1>7 DEF RowsOf
<1> HIDE DEF row, b, old
<1>9. Opens(old, new, b)
  <2>1. new.rows = rows /\ new.lines = old.lines
    BY <1>5 DEF Stored
  <2>2. DOMAIN rows = DOMAIN old.rows \cup {b} /\ rows[b] = row
        /\ \A k \in DOMAIN old.rows : rows[k] = old.rows[k]
    BY <1>8 DEF With
  <2> HIDE DEF rows, new
  <2> QED BY <1>6, <1>8, <2>1, <2>2 DEF Opens
<1> HIDE DEF rows, new
<1>10. InPlace(setup, new) /\ \A m : View(setup, new, m) = View(setup, old, m)
  BY <1>5, <1>9, OpenLine
<1>11. e \in Entries(setup) /\ e.cmd = "ACT"
  <2>1. <<>> \in Seq(Byte) /\ "ACT" \in Commands
    BY EmptySeq DEF Commands
  <2>2. \A x \in Seq(Byte) : \A m \in Commands :
          LET y == Entry(c, r, m, r.id, x)
          IN y \in Entries(setup) /\ y.cmd = m
    BY <1>4, <1>5, EntryTyped
  <2> QED BY <2>1, <2>2
<1> HIDE DEF e
<1>12. Notes(c, e)
  BY <1>3, <1>11 DEF Notes
<1>13. Settles(c, new)
  BY <1>3, <1>10, StaySettles DEF old
<1> QED BY <1>3, <1>12, <1>13, TurnBytes

\* Rows that are closed are written back.
LEMMA ClosedBytes ==
  ASSUME FrontendTyped, BytesKept, ~setup.org.efficiency, NEW c \in Controllers,
         NEW closed, closed \subseteq RowsOf(c), CloseRows(c, closed)
  PROVE  \E st : /\ store' = [store EXCEPT ![StackOf(c)] = st] /\ InPlace(setup, st)
                 /\ \A l \in Lines(setup) :
                      View(setup, st, l) = View(setup, store[StackOf(c)], l)
<1> DEFINE old == store[StackOf(c)]
           rows == [j \in DOMAIN old.rows \ closed |-> old.rows[j]]
           lines == FoldSet(LAMBDA j, lines : WriteBack(lines, old.rows[j]), old.lines, closed)
           new == [rows |-> rows, lines |-> lines]
<1>2. store' = [store EXCEPT ![StackOf(c)] = new]
  BY DEF CloseRows
<1>3. Legal(setup) /\ old \in Stored(setup) /\ IsFiniteSet(DOMAIN old.rows)
      /\ setup.org \in Organizations /\ old.rows \in Maps(Places(setup.org), OpenRows(setup))
      /\ old.lines \in LineMaps(setup) /\ DOMAIN old.rows \subseteq Places(setup.org)
      /\ InPlace(setup, old)
  BY StoreOf DEF BytesKept, AllInPlace
<1>4. RowsOf(c) \subseteq DOMAIN old.rows
  BY DEF RowsOf
<1> HIDE DEF old
<1>5. closed \in SUBSET DOMAIN old.rows /\ IsFiniteSet(closed)
  BY <1>3, <1>4, FS_Subset
<1>6. Flushes(old.rows, closed, old.lines, lines)
  BY <1>3, <1>5, FlushFold
<1> HIDE DEF lines
<1>7. Closes(old, new, closed)
  <2>1. DOMAIN rows = DOMAIN old.rows \ closed /\ \A j \in DOMAIN rows : rows[j] = old.rows[j]
    OBVIOUS
  <2> HIDE DEF rows
  <2> QED BY <1>5, <2>1 DEF Closes
<1>8. new.lines = lines
  OBVIOUS
<1> HIDE DEF rows, new
<1>9. Flushes(old.rows, closed, old.lines, new.lines)
  BY <1>6, <1>8
<1>10. InPlace(setup, new) /\ \A m \in Lines(setup) : View(setup, new, m) = View(setup, old, m)
  BY <1>3, <1>5, <1>7, <1>9, ClosedLine
<1> QED BY <1>2, <1>10 DEF old

\* What a command without bytes leaves in the trace.
LEMMA ClosingNoted ==
  ASSUME FrontendTyped, NEW c \in Controllers, NEW cmd \in {"PREAB", "PREPB"}, NEW r,
         r.at \in Places(setup.org), r.address \in Nat, r.system \in Nat,
         r.expected \in Seq(Byte), r.owed \in Seq(Byte), NEW n \in Nat,
         log' = [log EXCEPT ![c] = Append(log[c], Entry(c, r, cmd, n, <<>>))]
  PROVE  \E e : Notes(c, e)
<1> DEFINE e == Entry(c, r, cmd, n, <<>>)
<1>1. Legal(setup) /\ clk \in Nat
  BY StoreOf
<1>2. <<>> \in Seq(Byte) /\ cmd \in Commands
  BY EmptySeq DEF Commands, ControlNames, TraceCommands
<1>3. \A x \in Seq(Byte) :
        LET y == Entry(c, r, cmd, n, x)
        IN y \in Entries(setup) /\ y.cmd = cmd
  BY <1>1, <1>2, EntryTyped
<1>4. e \in Entries(setup) /\ e.cmd = cmd
  BY <1>2, <1>3
<1>5. log' = [log EXCEPT ![c] = Append(log[c], e)]
  OBVIOUS
<1> HIDE DEF e
<1> QED BY <1>4, <1>5 DEF Notes

\* a PREAB, which writes its rows back,
LEMMA PrechargeBytes ==
  ASSUME FrontendTyped, BytesKept, ~setup.org.efficiency, NEW c \in Controllers,
         PrechargeAll(c), UNCHANGED <<setup, stream, held, memory, ingress>>
  PROVE  BytesKept'
<1> DEFINE Part(k) == [at |-> k, address |-> 0, system |-> 0, expected |-> <<>>, owed |-> <<>>]
           n == maintenance[c]
<1>1. PICK k \in RowsOf(c) :
        /\ CloseRows(c, RankRows(c, k)) /\ queues' = queues
        /\ log' = [log EXCEPT ![c] = Append(log[c], Entry(c, Part(k), "PREAB", n, <<>>))]
  BY DEF PrechargeAll
<1>2. k \in Places(setup.org) /\ n \in Nat
  BY StoreOf DEF FrontendTyped, QueuesTyped, RowsOf
<1> DEFINE r == Part(k)
<1>3. /\ r.at = k /\ r.address \in Nat /\ r.system \in Nat
      /\ r.expected \in Seq(Byte) /\ r.owed \in Seq(Byte)
  BY EmptySeq
<1>4. log' = [log EXCEPT ![c] = Append(log[c], Entry(c, r, "PREAB", n, <<>>))]
  BY <1>1
<1> HIDE DEF r, n, Part
<1>5. \E e : Notes(c, e)
  BY <1>2, <1>3, <1>4, ClosingNoted
<1>6. PICK st : /\ store' = [store EXCEPT ![StackOf(c)] = st] /\ InPlace(setup, st)
                /\ \A l \in Lines(setup) :
                     View(setup, st, l) = View(setup, store[StackOf(c)], l)
  BY <1>1, ClosedBytes DEF RankRows
<1>7. Settles(c, st)
  BY <1>1, <1>6, StaySettles
<1> QED BY <1>1, <1>5, <1>6, <1>7, TurnBytes

\* one for a control command,
LEMMA ControlPrechargeBytes ==
  ASSUME FrontendTyped, BytesKept, ~setup.org.efficiency, NEW c \in Controllers,
         PrechargeForControl(c), UNCHANGED <<setup, stream, held, memory, ingress>>
  PROVE  BytesKept'
<1>1. PICK i \in ClosingControls(c) : \E cmd \in PrechargesFor(c, queues[c][i]) :
        /\ CloseRows(c, RowsClosed(c, cmd, queues[c][i].at))
        /\ log' = [log EXCEPT ![c] =
             Append(log[c], Entry(c, queues[c][i], cmd, queues[c][i].id, <<>>))]
        /\ queues' = IF queues[c][i].cmd = cmd
                     THEN [queues EXCEPT ![c] = RemoveAt(queues[c], i)] ELSE queues
        /\ UNCHANGED <<maintenance, idle>>
  BY DEF PrechargeForControl
<1> DEFINE r == queues[c][i]
<1>2. i \in DOMAIN queues[c] /\ r.type = "control"
  BY DEF ClosingControls, HeadControls
<1>3. /\ r.at \in Places(setup.org) /\ r.address \in Nat /\ r.system \in Nat
      /\ r.expected \in Seq(Byte) /\ r.owed \in Seq(Byte) /\ r.id \in Nat
  BY <1>2, QueuedParts
<1>4. PICK cmd \in {"PREAB", "PREPB"} :
        /\ CloseRows(c, RowsClosed(c, cmd, r.at))
        /\ log' = [log EXCEPT ![c] = Append(log[c], Entry(c, r, cmd, r.id, <<>>))]
        /\ queues' = queues \/ queues' = [queues EXCEPT ![c] = RemoveAt(queues[c], i)]
  BY <1>1 DEF PrechargesFor
<1>5. \E e : Notes(c, e)
  <2> HIDE DEF r
  <2> QED BY <1>3, <1>4, ClosingNoted
<1>6. RowsClosed(c, cmd, r.at) \subseteq RowsOf(c)
  BY DEF RowsClosed, RankRows, BankRows
<1>7. PICK st : /\ store' = [store EXCEPT ![StackOf(c)] = st] /\ InPlace(setup, st)
                /\ \A l \in Lines(setup) :
                     View(setup, st, l) = View(setup, store[StackOf(c)], l)
  BY <1>4, <1>6, ClosedBytes
<1>8. queues' = queues \/ Serves(c, i)
  BY <1>2, <1>4 DEF Serves
<1>9. Settles(c, st)
  BY <1>2, <1>7, <1>8, StaySettles, ControlSettles
<1> QED BY <1>5, <1>7, <1>8, <1>9, TurnBytes

\* a precharge that is dropped,
LEMMA DropBytes ==
  ASSUME FrontendTyped, BytesKept, NEW c \in Controllers, DropPrecharge(c),
         UNCHANGED <<setup, stream, held, memory, ingress>>
  PROVE  BytesKept'
<1>1. PICK i \in HeadControls(c) : /\ queues' = [queues EXCEPT ![c] = RemoveAt(queues[c], i)]
                                   /\ store' = store /\ log' = log
  BY DEF DropPrecharge
<1>2. Serves(c, i) /\ queues[c][i].type = "control"
  BY <1>1 DEF Serves, HeadControls
<1>3. InPlace(setup, store[StackOf(c)]) /\ StackOf(c) \in Stacks
  BY StoreOf DEF BytesKept, AllInPlace
<1>4. store' = [store EXCEPT ![StackOf(c)] = store[StackOf(c)]]
  <2>1. DOMAIN store = Stacks /\ store = [k \in Stacks |-> store[k]]
    BY DEF FrontendTyped, StoresTyped
  <2> QED BY <1>1, <1>3, <2>1
<1>5. Settles(c, store[StackOf(c)])
  BY <1>2, <1>3, ControlSettles
<1> QED BY <1>1, <1>2, <1>4, <1>5, TurnBytes

\* What only changes the cycle or the source leaves the bytes alone.
LEMMA BytesStay ==
  ASSUME BytesKept, UNCHANGED <<setup, stream, held, memory, ingress, queues, store, log>>
  PROVE  BytesKept'
<1>1. setup' = setup /\ Waiting' = Waiting /\ stream' = stream /\ held' = held
      /\ memory' = memory /\ ingress' = ingress /\ queues' = queues /\ store' = store
      /\ log' = log
  BY DEF Waiting
<1>2. Stacks' = Stacks /\ Controllers' = Controllers
      /\ \A d : StackOf(d)' = StackOf(d) /\ ChannelOf(d)' = ChannelOf(d) /\ Path(d)' = Path(d)
  BY <1>1 DEF Stacks, Controllers, Channels, StackOf, ChannelOf, Path
<1>3. \A d, l : (Owns(d, l)' <=> Owns(d, l)) /\ (LineTruthful(d, l)' <=> LineTruthful(d, l))
  BY <1>1, <1>2 DEF Owns, LineTruthful
<1>4. AllTruthful'
  BY <1>1, <1>2, <1>3 DEF BytesKept, AllTruthful
<1>5. OneHost' /\ AllRouted'
  BY <1>1, <1>2 DEF BytesKept, OneHost, AllRouted
<1>6. AllInPlace' /\ ReadsReturnLastWrite'
  BY <1>1, <1>2 DEF BytesKept, AllInPlace, ReadsReturnLastWrite
<1> QED BY <1>4, <1>5, <1>6 DEF BytesKept

\* and a turn in which nothing is issued leave every byte where it is looked for.
LEMMA TurnsKeepBytes ==
  ASSUME FrontendTyped, BytesKept, ~setup.org.efficiency, NEW c \in Controllers,
         ControllerStep(c)
  PROVE  BytesKept'
<1>1. UNCHANGED <<setup, stream, held, memory, ingress>>
  BY TurnEffect
<1>2. ASSUME NEW ready, HeldBack(ready)
      PROVE  BytesKept'
  <2>1. queues' = queues /\ store' = store /\ log' = log
    BY <1>2 DEF HeldBack
  <2> QED BY <1>1, <2>1, BytesStay
<1>3. \/ ReadColumn(c) \/ WriteColumn(c) \/ ControlCommand(c) \/ PrechargeForControl(c)
      \/ Activate(c) \/ PrechargeAll(c) \/ DropPrecharge(c) \/ HeldBack(ReadyColumns(c))
      \/ HeldBack(ReadyControls(c) \cup ClosingControls(c) \cup NeedsRow(c))
  BY DEF ControllerStep, ColumnTurn, RowTurn
<1> QED BY <1>1, <1>2, <1>3, ReadBytes, WriteBytes, ControlBytes, ActivateBytes, PrechargeBytes,
           ControlPrechargeBytes, DropBytes

\* A step of the system: the oldest request of a stack goes to its controller, and
\* is of no concern to the others.
LEMMA StepBytes ==
  ASSUME FrontendTyped, BytesKept, StepBegins
  PROVE  BytesKept'
<1>1. /\ setup' = setup /\ stream' = stream /\ held' = held /\ memory' = memory
      /\ store' = store /\ log' = log
      /\ queues' = [c \in Controllers |->
           IF ingress[StackOf(c)] # <<>> /\ Head(ingress[StackOf(c)]).at["channel"] = ChannelOf(c)
           THEN Append(queues[c], Head(ingress[StackOf(c)])) ELSE queues[c]]
      /\ ingress' = [k \in Stacks |-> IF ingress[k] = <<>> THEN <<>> ELSE Tail(ingress[k])]
  BY DEF StepBegins
<1>2. Stacks' = Stacks /\ Controllers' = Controllers /\ Waiting' = Waiting
      /\ \A d : StackOf(d)' = StackOf(d) /\ ChannelOf(d)' = ChannelOf(d)
  BY <1>1 DEF Stacks, Controllers, Channels, StackOf, ChannelOf, Waiting
<1>3. OneHost' /\ AllInPlace' /\ ReadsReturnLastWrite'
  BY <1>1, <1>2 DEF BytesKept, OneHost, AllInPlace, ReadsReturnLastWrite
<1>4. /\ \A k \in Stacks : ingress[k] \in Seq(Parts(setup))
      /\ \A d \in Controllers : StackOf(d) \in Stacks /\ queues[d] \in Seq(Parts(setup))
  BY StoreOf DEF FrontendTyped, QueuesTyped
<1>5. \A k \in Stacks : ingress[k] # <<>> =>
        /\ Head(ingress[k]) \in Parts(setup) /\ Routed(setup, Head(ingress[k]))
        /\ \A j \in DOMAIN Tail(ingress[k]) : Routed(setup, Tail(ingress[k])[j])
  BY <1>4, Tails DEF BytesKept, AllRouted
<1>6. AllRouted'
  <2>1. ASSUME NEW k \in Stacks, NEW i \in DOMAIN ingress'[k]
        PROVE  Routed(setup, ingress'[k][i])
    BY <1>1, <1>5, <2>1
  <2>2. ASSUME NEW d \in Controllers, NEW i \in DOMAIN queues'[d]
        PROVE  Routed(setup, queues'[d][i])
    <3> DEFINE g == ingress[StackOf(d)]
    <3>1. CASE g # <<>> /\ Head(g).at["channel"] = ChannelOf(d)
      <4>1. queues'[d] = Append(queues[d], Head(g))
        BY <1>1, <3>1
      <4>2. (i \in DOMAIN queues[d] /\ queues'[d][i] = queues[d][i]) \/ queues'[d][i] = Head(g)
        BY <1>4, <1>5, <2>2, <3>1, <4>1, Appends
      <4> QED BY <1>4, <1>5, <3>1, <4>2 DEF BytesKept, AllRouted
    <3>2. CASE ~(g # <<>> /\ Head(g).at["channel"] = ChannelOf(d))
      <4>1. queues'[d] = queues[d]
        BY <1>1, <3>2
      <4> QED BY <2>2, <4>1 DEF BytesKept, AllRouted
    <3> QED BY <3>1, <3>2
  <2> QED BY <1>1, <1>2, <2>1, <2>2 DEF AllRouted
<1>7. AllTruthful'
  <2>1. ASSUME NEW d \in Controllers, NEW l \in Lines(setup), Owns(d, l)
        PROVE  Truthful(setup, Waiting, memory, queues'[d] \o ingress'[StackOf(d)],
                        store[StackOf(d)], StackOf(d), l)
    <3> DEFINE g == ingress[StackOf(d)]
               q == queues[d]
               T(s) == Truthful(setup, Waiting, memory, s, store[StackOf(d)], StackOf(d), l)
    <3>1. T(q \o g)
      BY <2>1 DEF BytesKept, AllTruthful, LineTruthful, Path
    <3>2. q \in Seq(Parts(setup)) /\ g \in Seq(Parts(setup))
      BY <1>4
    <3>3. CASE g = <<>>
      BY <1>1, <1>4, <3>1, <3>3
    <3>4. CASE g # <<>> /\ Head(g).at["channel"] = ChannelOf(d)
      <4>1. queues'[d] = Append(q, Head(g)) /\ ingress'[StackOf(d)] = Tail(g)
        BY <1>1, <1>4, <3>4
      <4> HIDE DEF q, g
      <4>2. Append(q, Head(g)) \o Tail(g) = q \o g
        BY <3>2, <3>4, PathMoved
      <4> QED BY <3>1, <4>1, <4>2
    <3>5. CASE g # <<>> /\ Head(g).at["channel"] # ChannelOf(d)
      <4>1. queues'[d] = q /\ ingress'[StackOf(d)] = Tail(g)
        BY <1>1, <1>4, <3>5
      <4>2. Routed(setup, Head(g))
        BY <1>4, <1>5, <3>5
      <4>3. Head(g).type # "control" => Head(g).address # l
        BY <2>1, <3>5, <4>2 DEF Routed, OfLine, Owns
      <4> DEFINE s == q \o g
                 m == Len(q) + 1
      <4> HIDE DEF q, g
      <4>4. Without(q \o Tail(g), s, m) /\ Len(s) \in Nat /\ s[m] = Head(g)
        BY <3>2, <3>5, PathMoved
      <4> HIDE DEF s, m
      <4>5. ServesWell(setup, s, m, store[StackOf(d)], store[StackOf(d)], l)
        BY <4>3, <4>4 DEF ServesWell, Writes
      <4>6. T(q \o Tail(g))
        BY <3>1, <4>4, <4>5, TruthfulServed DEF s
      <4> QED BY <4>1, <4>6
    <3> QED BY <3>3, <3>4, <3>5
  <2>2. \A d : \A l : Owns(d, l)' <=> Owns(d, l)
    BY <1>1, <1>2 DEF Owns
  <2>3. \A d : StackOf(d)' = StackOf(d)
    BY <1>2
  <2> QED BY <1>1, <1>2, <2>1, <2>2, <2>3 DEF AllTruthful, LineTruthful, Path
<1> QED BY <1>3, <1>6, <1>7 DEF BytesKept

\* The transactions of a host line.
OneLine(u, s) ==
  /\ s \in Seq(Incoming(u)) /\ s # <<>>
  /\ \A i \in DOMAIN s : Aligned(u, s[i])
  /\ \A i \in DOMAIN s : \A j \in DOMAIN s : i # j => Companions(u, s[i], s[j])

\* The first is held, with its number, the others stay in pending_.
LEMMA TakenFrom ==
  ASSUME FrontendTyped, NEW s, OneLine(setup, s), NEW n \in Nat, setup' = setup,
         held' = {[Head(s) EXCEPT !.id = n]}, stream'.pending = Tail(s)
  PROVE  OneHost' /\ AlikeSets({s[j] : j \in DOMAIN s}, Waiting')
<1> DEFINE e == [Head(s) EXCEPT !.id = n]
           t == Tail(s)
<1>1. /\ Head(s) \in Incoming(setup) /\ 1 \in DOMAIN s /\ Head(s) = s[1]
      /\ \A j \in DOMAIN t : j + 1 \in DOMAIN s /\ t[j] = s[j + 1] /\ j \in Nat /\ j # 0
      /\ \A i \in DOMAIN s : i = 1 \/ (i - 1 \in DOMAIN t /\ s[i] = t[i - 1])
  <2>1. s \in Seq(Incoming(setup)) /\ s # <<>>
    BY DEF OneLine
  <2>2. /\ Head(s) \in Incoming(setup) /\ 1 \in DOMAIN s /\ Head(s) = s[1] /\ t \in Seq(Incoming(setup))
        /\ \A j \in DOMAIN t : j + 1 \in DOMAIN s /\ t[j] = s[j + 1]
    BY <2>1, Tails
  <2>3. \A i \in DOMAIN s : i = 1 \/ i - 1 \in DOMAIN t
    BY <2>1
  <2>4. \A j \in DOMAIN t : j \in Nat /\ j # 0
    BY <2>2
  <2>5. \A i \in DOMAIN s : i \in Nat /\ (i - 1) + 1 = i
    BY <2>1
  <2> HIDE DEF t
  <2> QED BY <2>2, <2>3, <2>4, <2>5
<1>2. /\ Alike(Head(s), e) /\ e.size = Head(s).size /\ e.at = Head(s).at
  BY <1>1 DEF Alike, Incoming, Parts, PartRecords
<1>3. Waiting' = {e} \cup {t[j] : j \in DOMAIN t}
  BY DEF Waiting
<1> HIDE DEF e, t
<1>4. \A q : Companions(setup, Head(s), q) => Companions(setup, e, q)
  BY <1>2, AlikeCovers DEF Companions, SamePlace, Alike
<1>5. \A r \in Waiting' : Aligned(setup, r)
  <2>1. Aligned(setup, e)
    BY <1>1, <1>2 DEF Aligned, Alike, OneLine
  <2> QED BY <1>1, <1>3, <2>1 DEF OneLine
<1>6. \A i \in DOMAIN t : \A j \in DOMAIN t : i # j => Companions(setup, t[i], t[j])
  <2>1. ASSUME NEW i \in DOMAIN t, NEW j \in DOMAIN t, i # j
        PROVE  Companions(setup, t[i], t[j])
    <3>1. i + 1 # j + 1
      BY <1>1, <2>1
    <3> QED BY <1>1, <2>1, <3>1 DEF OneLine
  <2> QED BY <2>1
<1>7. \A j \in DOMAIN t : Companions(setup, e, t[j])
  <2>1. \A j \in DOMAIN t : 1 # j + 1
    BY <1>1
  <2> QED BY <1>1, <1>4, <2>1 DEF OneLine
<1>8. OneHost'
  <2>1. held' = {e} /\ stream'.pending = t
    BY DEF e, t
  <2> QED BY <1>5, <1>6, <1>7, <2>1 DEF OneHost
<1>9. AlikeSets({s[j] : j \in DOMAIN s}, Waiting')
  <2>1. \A r : Alike(r, r)
    BY DEF Alike
  <2>2. \A r \in Waiting' : \E q \in {s[j] : j \in DOMAIN s} : Alike(q, r)
    BY <1>1, <1>2, <1>3, <2>1
  <2>3. \A q \in {s[j] : j \in DOMAIN s} : \E r \in Waiting' : Alike(q, r)
    BY <1>1, <1>2, <1>3, <2>1
  <2> QED BY <2>2, <2>3 DEF AlikeSets
<1> QED BY <1>8, <1>9

\* A host line is split into such transactions.
LEMMA SplitOneLine ==
  ASSUME NEW u, Legal(u), NEW h \in Hosts(u), h.type # "control" => Proper(u, h)
  PROVE  /\ OneLine(u, SplitHost(u, h))
         /\ h.type # "control" => {SplitHost(u, h)[j] : j \in DOMAIN SplitHost(u, h)}
                                    = {PartOf(u, h, i) : i \in 0 .. Count(u, h) - 1}
<1> DEFINE s == SplitHost(u, h)
<1>1. /\ s \in Seq(Incoming(u)) /\ Len(s) = SplitSize(u, h) /\ SplitSize(u, h) \in Nat \ {0}
      /\ h.type = "control" => s[1] = ControlPart(u, h)
      /\ h.type # "control" => \A i \in 1 .. SplitSize(u, h) : s[i] = PartOf(u, h, i - 1)
  BY SplitTyped
<1> HIDE DEF s
<1>2. s # <<>> /\ DOMAIN s = 1 .. SplitSize(u, h)
  BY <1>1
<1>3. CASE h.type = "control"
  <2>1. DOMAIN s = 1 .. 1 /\ s[1].type = "control"
    BY <1>1, <1>2, <1>3, ControlPartTyped DEF SplitSize
  <2>2. \A i \in DOMAIN s : i = 1
    BY <2>1
  <2>3. OneLine(u, s)
    BY <1>1, <1>2, <2>1, <2>2 DEF OneLine, Aligned
  <2> QED BY <1>3, <2>3 DEF s
<1>4. CASE h.type # "control"
  <2>1. /\ SplitSize(u, h) = Count(u, h) /\ Count(u, h) \in Nat
        /\ \A j \in DOMAIN s : j - 1 \in 0 .. Count(u, h) - 1 /\ s[j] = PartOf(u, h, j - 1)
    BY <1>1, <1>2, <1>4 DEF SplitSize, Count
  <2>2. \A j \in 0 .. Count(u, h) - 1 : j + 1 \in DOMAIN s /\ s[j + 1] = PartOf(u, h, j)
    BY <1>1, <1>2, <1>4, <2>1
  <2>3. Proper(u, h) /\ h.address % u.org.transaction = 0
    BY <1>4 DEF Proper
  <2>4. \A i \in 0 .. Count(u, h) - 1 : Aligned(u, PartOf(u, h, i)) /\ PartOf(u, h, i).type = h.type
    BY <1>4, <2>3, PartOfHost
  <2>5. ASSUME NEW i \in DOMAIN s, NEW j \in DOMAIN s, i # j
        PROVE  Companions(u, s[i], s[j])
    <3>1. i - 1 # j - 1 /\ i - 1 \in 0 .. Count(u, h) - 1 /\ j - 1 \in 0 .. Count(u, h) - 1
      BY <1>2, <2>1, <2>5
    <3>2. ~SamePlace(u, PartOf(u, h, i - 1), PartOf(u, h, j - 1))
      BY <2>3, <3>1, PartsApart
    <3> QED BY <2>1, <2>4, <3>1, <3>2 DEF Companions
  <2>6. OneLine(u, s)
    BY <1>1, <1>2, <2>1, <2>4, <2>5 DEF OneLine
  <2>7. {s[j] : j \in DOMAIN s} = {PartOf(u, h, i) : i \in 0 .. Count(u, h) - 1}
    BY <2>1, <2>2
  <2> QED BY <2>6, <2>7 DEF s
<1> QED BY <1>3, <1>4

\* What stays when only the source, the memory and what waits change.
LEMMA SourceBytes ==
  ASSUME BytesKept, UNCHANGED <<setup, ingress, queues, store, log>>, OneHost',
         \A c \in Controllers : \A l \in Lines(setup) : Owns(c, l) =>
           Settled(setup, Waiting', memory', Path(c), store[StackOf(c)], StackOf(c), l)
  PROVE  BytesKept'
<1>1. setup' = setup /\ ingress' = ingress /\ queues' = queues /\ store' = store /\ log' = log
  OBVIOUS
<1>2. Stacks' = Stacks /\ Controllers' = Controllers
      /\ \A d : StackOf(d)' = StackOf(d) /\ ChannelOf(d)' = ChannelOf(d) /\ Path(d)' = Path(d)
  BY <1>1 DEF Stacks, Controllers, Channels, StackOf, ChannelOf, Path
<1>3. \A d, l : Owns(d, l)' <=> Owns(d, l)
  BY <1>1, <1>2 DEF Owns
<1>4. AllTruthful'
  <2>1. \A c \in Controllers : \A l \in Lines(setup) : Owns(c, l) =>
          Owing(setup, Path(c), store[StackOf(c)], l)
    BY DEF BytesKept, AllTruthful, LineTruthful, Truthful
  <2> QED BY <1>1, <1>2, <1>3, <2>1 DEF AllTruthful, LineTruthful, Truthful
<1>5. AllRouted' /\ AllInPlace' /\ ReadsReturnLastWrite'
  BY <1>1, <1>2 DEF BytesKept, AllRouted, AllInPlace, ReadsReturnLastWrite
<1> QED BY <1>4, <1>5 DEF BytesKept

AllStraight == \A u \in Setups : SoundWorkload(u) /\ Straight(u)

\* Taking a transaction from the source: the memory is ahead of what is on its
\* way by the writes that wait.
LEMMA FetchBytes ==
  ASSUME AllStraight, FrontendTyped, Smooth, BytesKept, Fetch
  PROVE  BytesKept'
<1>1. PICK x \in StreamNext(setup, stream) :
        /\ stream' = x.next /\ held' = {x.part}
        /\ memory' = IF x.hosts = {} THEN memory ELSE MemoryAfter(CHOOSE h \in x.hosts : TRUE)
  BY DEF Fetch
<1>2. held = {} /\ UNCHANGED <<setup, ingress, queues, store, log>>
  BY DEF Fetch
<1>3. /\ Legal(setup) /\ stream \in Streams(setup) /\ SoundWorkload(setup) /\ Straight(setup)
      /\ lastCycle \in Nat
  BY SetupsAreLegal DEF FrontendTyped, SourceTyped, AllStraight
<1>4. FromPending(setup, stream, x) \/ FromSource(setup, stream, x)
  BY <1>3, StreamTyped
<1>5. stream.transactions \in Nat /\ stream.pending \in Seq(Incoming(setup))
  BY <1>3 DEF Streams
<1>6. \A c \in Controllers : \A l \in Lines(setup) : Owns(c, l) =>
        Settled(setup, Waiting, memory, Path(c), store[StackOf(c)], StackOf(c), l)
  BY DEF BytesKept, AllTruthful, LineTruthful, Truthful
<1>7. CASE FromPending(setup, stream, x)
  <2> DEFINE s == stream.pending
  <2>1. /\ s # <<>> /\ memory' = memory
        /\ held' = {[Head(s) EXCEPT !.id = stream.transactions]}
        /\ stream'.pending = Tail(s)
    BY <1>1, <1>3, <1>7 DEF FromPending, Streams
  <2>2. Waiting = {s[j] : j \in DOMAIN s}
    BY <1>2 DEF Waiting
  <2>3. OneLine(setup, s)
    BY <1>5, <2>1, <2>2 DEF OneLine, BytesKept, OneHost
  <2> HIDE DEF s
  <2>4. OneHost' /\ AlikeSets(Waiting, Waiting')
    BY <1>2, <1>5, <2>1, <2>2, <2>3, TakenFrom
  <2>5. ASSUME NEW c \in Controllers, NEW l \in Lines(setup), Owns(c, l)
        PROVE  Settled(setup, Waiting', memory', Path(c), store[StackOf(c)], StackOf(c), l)
    <3>1. Settled(setup, Waiting, memory, Path(c), store[StackOf(c)], StackOf(c), l)
      BY <1>6, <2>5
    <3>2. Settled(setup, Waiting', memory, Path(c), store[StackOf(c)], StackOf(c), l)
      BY ONLY <2>4, <3>1, SettledAlike
    <3> QED BY <2>1, <3>2
  <2> QED BY <1>2, <2>4, <2>5, SourceBytes
<1>8. CASE FromSource(setup, stream, x)
  <2>1. PICK y \in HostNext(setup, stream) :
          /\ Advances(setup, stream, y) /\ x.hosts = {y.host}
          /\ x.part = [Head(SplitHost(setup, y.host)) EXCEPT !.id = stream.transactions]
          /\ x.next = [y.next EXCEPT !.pending = Tail(SplitHost(setup, y.host)),
                                     !.transactions = stream.transactions + 1]
    BY <1>8 DEF FromSource
  <2> DEFINE h == y.host
             s == SplitHost(setup, h)
  <2>2. /\ h \in Hosts(setup) /\ y.next \in Streams(setup) /\ stream.pending = <<>>
    BY <1>8, <2>1 DEF FromSource, Advances, Taken
  <2>3. /\ held' = {[Head(s) EXCEPT !.id = stream.transactions]} /\ stream'.pending = Tail(s)
        /\ memory' = MemoryAfter(h)
    BY <1>1, <2>1, <2>2 DEF Streams
  <2>4. Waiting = {}
    BY <1>2, <2>2 DEF Waiting
  <2>5. Follows(setup, stream, lastCycle, y.next, h, h.cycle)
    BY <1>3, <2>1, HostOnTime DEF Smooth
  <2>6. h.type # "control" => Proper(setup, h)
    <3>1. h.type # "control" => h.address % setup.org.transaction = 0
      BY <1>3, <2>1, HostAligned DEF Smooth
    <3> QED BY <2>2, <2>5, <3>1 DEF Follows, Aims, SplitSize, Count, Proper
  <2> HIDE DEF h
  <2>7. /\ OneLine(setup, s)
        /\ h.type # "control" => {s[j] : j \in DOMAIN s}
                                   = {PartOf(setup, h, i) : i \in 0 .. Count(setup, h) - 1}
    BY <1>3, <2>2, <2>6, SplitOneLine
  <2> DEFINE v == {s[j] : j \in DOMAIN s}
  <2>8. CASE h.type = "control"
    <3>1. \A r \in v : r.type = "control"
      <4>1. Len(s) = 1 /\ s[1].type = "control" /\ s \in Seq(Incoming(setup))
        BY <1>3, <2>2, <2>8, SplitTyped, ControlPartTyped DEF SplitSize
      <4> HIDE DEF s
      <4> QED BY <4>1
    <3> HIDE DEF s
    <3>2. OneHost' /\ AlikeSets(v, Waiting')
      BY <1>2, <1>5, <2>3, <2>7, TakenFrom
    <3>3. h.payload = <<>>
      BY <2>2, <2>8 DEF Hosts, HostSound, Bytes
    <3>4. \A a : Known(memory', a) = Known(memory, a)
      BY <2>3, <3>3, NothingRemembered
    <3>5. \A r \in Waiting' : r.type = "control"
      BY <3>1, <3>2 DEF AlikeSets, Alike
    <3>6. ASSUME NEW c \in Controllers, NEW l \in Lines(setup), Owns(c, l)
          PROVE  Settled(setup, Waiting', memory', Path(c), store[StackOf(c)], StackOf(c), l)
      <4>1. Settled(setup, {}, memory, Path(c), store[StackOf(c)], StackOf(c), l)
        BY <1>6, <2>4, <3>6
      <4> QED BY <3>4, <3>5, <4>1 DEF Settled, Covers
    <3> QED BY <1>2, <3>2, <3>6, SourceBytes
  <2>9. CASE h.type # "control"
    <3> HIDE DEF s
    <3>1. OneHost' /\ AlikeSets(v, Waiting')
      BY <1>2, <1>5, <2>3, <2>7, TakenFrom
    <3>2. ASSUME NEW c \in Controllers, NEW l \in Lines(setup), Owns(c, l)
          PROVE  Settled(setup, Waiting', memory', Path(c), store[StackOf(c)], StackOf(c), l)
      <4>1. Settled(setup, {}, memory, Path(c), store[StackOf(c)], StackOf(c), l)
        BY <1>6, <2>4, <3>2
      <4>2. StackOf(c) \in 0 .. setup.map.stacks - 1 /\ Proper(setup, h)
        BY <2>6, <2>9, StoreOf DEF Stacks
      <4>3. Settled(setup, v, memory', Path(c), store[StackOf(c)], StackOf(c), l)
        BY <1>3, <2>3, <2>7, <2>9, <4>1, <4>2, SettledFilled
      <4> HIDE DEF v
      <4> QED BY ONLY <3>1, <4>3, SettledAlike
    <3> QED BY <1>2, <3>1, <3>2, SourceBytes
  <2> QED BY <2>8, <2>9
<1> QED BY <1>4, <1>7, <1>8

\* Transaction e is what enqueue() makes of transaction r: for the line r is for,
\* and with what the memory holds when it is a read.
Becomes(r, e) ==
  /\ e \in Parts(setup) /\ e.stack = TargetOf(setup, r) /\ e.type = r.type
  /\ Routed(setup, e)
  /\ r.type # "control" =>
       /\ e.address = LocalOf(setup, r) /\ e.payload = r.payload /\ e.mask = r.mask
       /\ e.size = r.size
       /\ r.type = "read" => \A i \in 1 .. r.size :
            e.owed[i] = Known(memory, ByteAt(setup, TargetOf(setup, r), LocalOf(setup, r), i))

\* Routing makes that of it.
LEMMA BecomesRouted ==
  ASSUME Legal(setup), Straight(setup), memory \in Maps(Nat, Byte), cursor \in [Stacks -> Nat],
         NEW r \in Incoming(setup), Deliverable(setup, r), Aligned(setup, r)
  PROVE  LET k == TargetStack(r)
             q == Localized([r EXCEPT !.owed = Owed(r)], k)
         IN /\ k \in Stacks /\ k = TargetOf(setup, r)
            /\ Becomes(r, ToChannel(q, k, TargetChannel(q, k)))
<1> DEFINE k == TargetStack(r)
           o == [r EXCEPT !.owed = Owed(r)]
           q == Localized(o, k)
           ch == TargetChannel(q, k)
           e == ToChannel(q, k, ch)
           T == setup.org.transaction
           l == LocalOf(setup, r)
<1>1. k = TargetOf(setup, r)
  BY DEF TargetStack, TargetOf
<1>2. Routable(r)
  BY DeliverableRoutable
<1>3. k \in Stacks /\ k \in Nat
  BY <1>2, TargetTyped
<1>4. e \in Parts(setup) /\ e.stack = k
  BY <1>2, RoutedTyped
<1>5. r \in Parts(setup) /\ r \in PartRecords(setup) /\ r.at \in Places(setup.org)
  BY DEF Incoming, Parts, PartRecords
<1>7. /\ q.type = r.type /\ q.owed = Owed(r) /\ q.payload = r.payload /\ q.mask = r.mask
      /\ q.size = r.size
      /\ r.type # "control" =>
           /\ q.address = l
           /\ q.at = IF setup.map.stacks > 1 THEN Decode(setup.org, l) ELSE r.at
  BY <1>5 DEF Localized, PartRecords, LocalOf
<1>8. /\ e.type = q.type /\ e.owed = q.owed /\ e.payload = q.payload /\ e.mask = q.mask
      /\ e.address = q.address /\ e.size = q.size
      /\ e.at = [q.at EXCEPT !["channel"] = ch]
  BY <1>5 DEF ToChannel, Localized, PartRecords
<1> HIDE DEF e, q, ch, o, k, l
<1>9. ASSUME r.type = "control"
      PROVE  Becomes(r, e)
  BY <1>1, <1>3, <1>4, <1>7, <1>8, <1>9 DEF Becomes, Routed
<1>10. ASSUME r.type # "control"
       PROVE  Becomes(r, e)
  <2>1. /\ r.address \in Nat /\ r.address % T = 0 /\ r.at = Decode(setup.org, r.address)
        /\ r.size \in 1 .. T
    BY <1>10 DEF Aligned
  <2>2. /\ l \in Lines(setup)
        /\ \A d \in 0 .. T - 1 : SystemAddress(r, d) = ByteAt(setup, TargetOf(setup, r), l, d + 1)
    BY <1>10, <2>1, PlaceOf DEF SystemAddress, l
  <2>3. l \in Nat /\ setup.org \in Organizations /\ T \in Nat \ {0} /\ setup.map.stacks \in Nat \ {0}
    BY <2>2, LegalParts, HomesDiffer DEF Straight, StackMaps
  <2>4. q.at = Home(setup, l)
    <3>1. CASE setup.map.stacks > 1
      BY <1>7, <1>10, <3>1 DEF Home
    <3>2. CASE ~(setup.map.stacks > 1)
      <4>1. setup.map.stacks = 1
        BY <2>3, <3>2
      <4>2. l = r.address
        BY <4>1 DEF LocalOf, StackDecode, l
      <4> QED BY <1>7, <1>10, <2>1, <3>2, <4>2 DEF Home
    <3> QED BY <3>1, <3>2
  <2>5. Home(setup, l) \in Places(setup.org)
    BY <2>3, DecodePlaces DEF Home
  <2>6. ch = q.at["channel"]
    <3>1. CASE setup.mapper = "decoded"
      BY <3>1 DEF TargetChannel, ch
    <3>2. CASE setup.org.size["channel"] = 1
      <4>1. e.at \in Places(setup.org)
        BY <1>4 DEF Parts, PartRecords
      <4>2. e.at["channel"] \in Nat /\ e.at["channel"] < 1
            /\ q.at["channel"] \in Nat /\ q.at["channel"] < 1
        BY <2>4, <2>5, <3>2, <4>1 DEF Places, Fields
      <4>3. "channel" \in DOMAIN q.at
        BY <2>4, <2>5 DEF Places, Fields
      <4>4. e.at["channel"] = ch
        BY <1>8, <4>3
      <4> QED BY <4>2, <4>4
    <3> QED BY <3>1, <3>2 DEF Straight
  <2>7. e.at = Home(setup, l)
    <3>1. q.at \in [Fields -> Nat]
      BY <2>4, <2>5 DEF Places
    <3> QED BY <1>8, <2>4, <2>6, <3>1
  <2>8. e.address = l /\ e.size = r.size /\ e.type = r.type
    BY <1>7, <1>8, <1>10, <2>1
  <2>9. r.type = "read" => e.owed = Owed(r) /\ Owed(r) \in Bytes(r.size)
    BY <1>5, <1>7, <1>8, <2>1, OwedTyped
  <2>10. \A i \in 1 .. r.size : r.type = "read" =>
           Owed(r)[i] = Known(memory, ByteAt(setup, TargetOf(setup, r), l, i))
    <3> SUFFICES ASSUME NEW i \in 1 .. r.size, r.type = "read"
                 PROVE  Owed(r)[i] = Known(memory, ByteAt(setup, TargetOf(setup, r), l, i))
      OBVIOUS
    <3>1. i - 1 \in 0 .. T - 1 /\ (i - 1) + 1 = i
      BY <2>1, <2>3
    <3>2. SystemAddress(r, i - 1) = ByteAt(setup, TargetOf(setup, r), l, i)
      BY <2>2, <3>1
    <3>3. Owed(r)[i] = Remembered(SystemAddress(r, i - 1))
      BY <2>1 DEF Owed
    <3> QED BY <3>2, <3>3 DEF Remembered, Known
  <2>11. Routed(setup, e)
    BY <2>1, <2>2, <2>7, <2>8, <2>9 DEF Routed, OfLine
  <2>12. Becomes(r, e)
    BY <1>1, <1>4, <1>7, <1>8, <2>8, <2>9, <2>10, <2>11 DEF Becomes, l
  <2> QED BY <2>12
<1> QED BY <1>1, <1>3, <1>9, <1>10 DEF e, q, ch, o, k

\* Sending it is what the paths of its stack expect.
LEMMA PartSent ==
  ASSUME FrontendTyped, BytesKept, NEW r \in held, NEW e, Becomes(r, e),
         NEW w2, w2 = {stream.pending[j] : j \in DOMAIN stream.pending},
         NEW c \in Controllers, NEW l \in Lines(setup), Owns(c, l),
         StackOf(c) = TargetOf(setup, r)
  PROVE  Sends(setup, Waiting, w2, memory, e, StackOf(c), l)
<1>1. /\ \A q \in Waiting : q = r \/ q \in w2
      /\ w2 \subseteq Waiting /\ r \in Waiting
  BY DEF Waiting, FrontendTyped, SourceTyped
<1>2. \A q \in w2 : r.type = q.type /\ ~SamePlace(setup, r, q)
  BY DEF BytesKept, OneHost, Companions
<1>3. Settled(setup, Waiting, memory, Path(c), store[StackOf(c)], StackOf(c), l)
  BY DEF BytesKept, AllTruthful, LineTruthful, Truthful
<1> SUFFICES ASSUME NEW i \in 1 .. setup.org.transaction
             PROVE  /\ e.type = "read" /\ e.address = l /\ Has(e, i) =>
                         /\ e.owed[i] = Known(memory, ByteAt(setup, StackOf(c), l, i))
                         /\ \A q \in Waiting : ~Covers(setup, q, StackOf(c), l, i)
                    /\ Writes(e, l, i) =>
                         e.payload[i] = Known(memory, ByteAt(setup, StackOf(c), l, i))
                    /\ \A q \in Waiting : Covers(setup, q, StackOf(c), l, i) =>
                         q \in w2 \/ Writes(e, l, i)
                    /\ \A q \in w2 : ~(Writes(e, l, i) /\ Covers(setup, q, StackOf(c), l, i))
  BY <1>1 DEF Sends
<1>4. e.type = r.type /\ (r.type # "control" => e.address = LocalOf(setup, r))
  BY DEF Becomes
<1>5. Writes(e, l, i) <=> Covers(setup, r, StackOf(c), l, i)
  BY <1>4 DEF Becomes, Writes, Has, Covers, Onto, Enabled
<1>6. Writes(e, l, i) => e.payload[i] = Known(memory, ByteAt(setup, StackOf(c), l, i))
  BY <1>1, <1>3, <1>5 DEF Settled, Becomes, Covers
<1>7. e.type = "read" /\ e.address = l /\ Has(e, i) =>
        /\ e.owed[i] = Known(memory, ByteAt(setup, StackOf(c), l, i))
        /\ \A q \in Waiting : ~Covers(setup, q, StackOf(c), l, i)
  <2> SUFFICES ASSUME e.type = "read", e.address = l, Has(e, i)
               PROVE  /\ e.owed[i] = Known(memory, ByteAt(setup, StackOf(c), l, i))
                      /\ \A q \in Waiting : ~Covers(setup, q, StackOf(c), l, i)
    OBVIOUS
  <2>1. LocalOf(setup, r) = l /\ r.type = "read"
    BY <1>4
  <2> QED BY <1>1, <1>2, <2>1 DEF Becomes, Covers, Has
<1>8. \A q \in w2 : ~(Writes(e, l, i) /\ Covers(setup, q, StackOf(c), l, i))
  BY <1>2, <1>5 DEF Covers, Onto, SamePlace
<1> QED BY <1>1, <1>5, <1>6, <1>7, <1>8

\* enqueue(): every path of the stack gets the transaction, and the memory is no
\* longer ahead by it.
LEMMA EnqueueBytes ==
  ASSUME AllStraight, FrontendTyped, Smooth, BytesKept, Enqueue
  PROVE  BytesKept'
<1>1. PICK r \in Due :
       IF ~Routable(r)
       THEN /\ status' = "threw"
            /\ UNCHANGED <<held, ingress, cursor>>
       ELSE /\ ~Refused(r)
            /\ \E stack \in {TargetStack(r)} :
               \E routed \in {Localized([r EXCEPT !.owed = Owed(r)], stack)} :
                 /\ ingress' = [ingress EXCEPT ![stack] =
                      Append(ingress[stack], ToChannel(routed, stack,
                                                       TargetChannel(routed, stack)))]
                 /\ cursor' = IF setup.mapper = "round_robin" /\ Channels > 1
                                 /\ r.type # "control"
                              THEN [cursor EXCEPT ![stack] = cursor[stack] + 1] ELSE cursor
            /\ held' = {}
            /\ UNCHANGED status
  BY DEF Enqueue
<1>2. /\ setup' = setup /\ stream' = stream /\ queues' = queues /\ store' = store
      /\ log' = log /\ memory' = memory
  BY DEF Enqueue
<1>3. /\ setup \in Setups /\ Legal(setup) /\ Straight(setup) /\ r \in held /\ r \in Waiting
      /\ r \in Incoming(setup) /\ Deliverable(setup, r) /\ Aligned(setup, r)
      /\ cursor \in [Stacks -> Nat] /\ memory \in Maps(Nat, Byte)
      /\ ingress \in [Stacks -> Seq(Parts(setup))]
  BY SetupsAreLegal DEF Due, FrontendTyped, SourceTyped, QueuesTyped, StoresTyped, AllStraight,
     Smooth, BytesKept, OneHost, Waiting
<1>4. Routable(r)
  BY <1>3, DeliverableRoutable
<1> DEFINE k == TargetStack(r)
           q == Localized([r EXCEPT !.owed = Owed(r)], k)
           e == ToChannel(q, k, TargetChannel(q, k))
           w2 == {stream.pending[j] : j \in DOMAIN stream.pending}
<1>5. ingress' = [ingress EXCEPT ![k] = Append(ingress[k], e)] /\ held' = {}
  BY <1>1, <1>4
<1>6. k \in Stacks /\ k = TargetOf(setup, r) /\ Becomes(r, e)
  BY <1>3, BecomesRouted
<1>7. /\ Stacks' = Stacks /\ Controllers' = Controllers /\ Waiting' = w2
      /\ \A d : StackOf(d)' = StackOf(d) /\ ChannelOf(d)' = ChannelOf(d)
  BY <1>2, <1>5 DEF Stacks, Controllers, Channels, StackOf, ChannelOf, Waiting
<1> HIDE DEF k, q, e, w2
<1>8. e \in Parts(setup) /\ Routed(setup, e)
  BY <1>6 DEF Becomes
<1>9. \A d \in Controllers : StackOf(d) \in Stacks /\ queues[d] \in Seq(Parts(setup))
  BY StoreOf DEF FrontendTyped, QueuesTyped
<1>10. OneHost'
  <2>1. w2 \subseteq Waiting
    BY DEF w2, Waiting
  <2> QED BY <1>2, <1>5, <1>7, <2>1 DEF BytesKept, OneHost
<1> DEFINE a == Append(ingress[k], e)
<1>11. /\ a \in Seq(Parts(setup))
       /\ \A j \in DOMAIN a : (j \in DOMAIN ingress[k] /\ a[j] = ingress[k][j]) \/ a[j] = e
  BY <1>3, <1>6, <1>8, Appends
<1>12. \A m \in Stacks : ingress'[m] = IF m = k THEN a ELSE ingress[m]
  BY <1>3, <1>5, <1>6
<1>13. AllRouted'
  <2> HIDE DEF a
  <2>1. ASSUME NEW m \in Stacks, NEW i \in DOMAIN ingress'[m]
        PROVE  Routed(setup, ingress'[m][i])
    <3>1. CASE m = k
      BY <1>6, <1>8, <1>11, <1>12, <3>1 DEF BytesKept, AllRouted
    <3>2. CASE m # k
      BY <1>12, <3>2 DEF BytesKept, AllRouted
    <3> QED BY <3>1, <3>2
  <2> QED BY <1>2, <1>7, <2>1 DEF BytesKept, AllRouted
<1>14. AllTruthful'
  <2>1. ASSUME NEW d \in Controllers, NEW l \in Lines(setup), Owns(d, l)
        PROVE  Truthful(setup, w2, memory, queues[d] \o ingress'[StackOf(d)],
                        store[StackOf(d)], StackOf(d), l)
    <3> DEFINE g == ingress[StackOf(d)]
               s == queues[d]
    <3>1. Truthful(setup, Waiting, memory, s \o g, store[StackOf(d)], StackOf(d), l)
      BY <2>1 DEF BytesKept, AllTruthful, LineTruthful, Path
    <3>2. CASE StackOf(d) = k
      <4>1. Sends(setup, Waiting, w2, memory, e, StackOf(d), l)
        BY <1>3, <1>6, <2>1, <3>2, PartSent DEF w2
      <4>2. s \in Seq(Parts(setup)) /\ g \in Seq(Parts(setup))
        BY <1>3, <1>9
      <4>3. ingress'[StackOf(d)] = Append(g, e)
        BY <1>6, <1>12, <3>2
      <4> HIDE DEF g, s
      <4>4. Extended(s \o Append(g, e), s \o g, e) /\ Len(s \o g) \in Nat
        BY <1>8, <4>2, PathExtended
      <4>5. Truthful(setup, w2, memory, s \o Append(g, e), store[StackOf(d)], StackOf(d), l)
        BY <3>1, <4>1, <4>4, TruthfulSent
      <4> QED BY <4>3, <4>5 DEF s
    <3>3. CASE StackOf(d) # k
      <4>1. ingress'[StackOf(d)] = g
        BY <1>9, <1>12, <3>3
      <4>2. \A x \in w2 : x \in Waiting
        BY DEF w2, Waiting
      <4>3. \A x \in Waiting : x = r \/ x \in w2
        BY <1>3 DEF w2, Waiting, FrontendTyped, SourceTyped
      <4>4. \A i : ~Covers(setup, r, StackOf(d), l, i)
        BY <1>6, <3>3 DEF Covers, Onto
      <4> HIDE DEF g
      <4>5. Truthful(setup, w2, memory, s \o g, store[StackOf(d)], StackOf(d), l)
        BY <3>1, <4>2, <4>3, <4>4, TruthfulDropped
      <4> QED BY <4>1, <4>5
    <3> QED BY <3>2, <3>3
  <2>2. \A d : \A l : Owns(d, l)' <=> Owns(d, l)
    BY <1>2, <1>7 DEF Owns
  <2>3. \A d : StackOf(d)' = StackOf(d)
    BY <1>7
  <2> QED BY <1>2, <1>7, <2>1, <2>2, <2>3 DEF AllTruthful, LineTruthful, Path
<1>15. AllInPlace' /\ ReadsReturnLastWrite'
  BY <1>2, <1>7 DEF BytesKept, AllInPlace, ReadsReturnLastWrite
<1> QED BY <1>10, <1>13, <1>14, <1>15 DEF BytesKept

\* Nothing is on its way at first, and all bytes are zero.
LEMMA BytesStart == Init => BytesKept
<1> SUFFICES ASSUME Init
             PROVE  BytesKept
  OBVIOUS
<1>1. FrontendTyped /\ setup \in Setups /\ Legal(setup)
  BY InitTyped, SetupsAreLegal DEF Init
<1>2. DOMAIN <<>> = {} /\ <<>> \in Seq(Nat) /\ Len(<<>>) = 0 /\ <<>> \o <<>> = <<>>
  BY EmptySeq
<1>3. \A c \in Controllers : StackOf(c) \in Stacks
  BY <1>1, ControllersTyped
<1> DEFINE st == [rows |-> [b \in {} |-> 0], lines |-> [l \in {} |-> <<>>]]
<1>4. /\ held = {} /\ stream.pending = <<>>
      /\ \A k \in Stacks : ingress[k] = <<>> /\ store[k] = st
      /\ \A c \in Controllers : queues[c] = <<>> /\ log[c] = <<>>
  BY DEF Init, InitialStream
<1>5. DOMAIN memory = {} /\ DOMAIN st.rows = {} /\ DOMAIN st.lines = {}
  BY DEF Init
<1> HIDE DEF st
<1>6. Waiting = {}
  BY <1>2, <1>4 DEF Waiting
<1>7. OneHost
  BY <1>2, <1>4, <1>6 DEF OneHost
<1>8. AllRouted /\ ReadsReturnLastWrite
  BY <1>2, <1>4 DEF AllRouted, ReadsReturnLastWrite
<1>9. AllInPlace
  BY <1>4, <1>5 DEF AllInPlace, InPlace
<1>10. ASSUME NEW c \in Controllers, NEW l \in Lines(setup)
       PROVE  LineTruthful(c, l)
  <2>1. Path(c) = <<>> /\ store[StackOf(c)] = st
    BY <1>2, <1>3, <1>4 DEF Path
  <2>2. View(setup, st, l) = Zeros(setup.org.transaction)
    BY <1>5 DEF View, InColumn, RowOpen, Back
  <2>3. \A i \in 1 .. setup.org.transaction : View(setup, st, l)[i] = ZeroByte
    BY <2>2 DEF Zeros
  <2>4. \A a : Known(memory, a) = ZeroByte
    BY <1>5 DEF Known
  <2>5. \A i, v : Leaves(<<>>, Len(<<>>), l, i, v, v)
    BY <1>2 DEF Leaves
  <2>6. Settled(setup, {}, memory, <<>>, st, StackOf(c), l)
    BY <2>3, <2>4, <2>5 DEF Settled
  <2>7. Owing(setup, <<>>, st, l)
    BY <1>2 DEF Owing
  <2> QED BY <1>6, <2>1, <2>6, <2>7 DEF LineTruthful, Truthful
<1> QED BY <1>7, <1>8, <1>9, <1>10 DEF BytesKept, AllTruthful

\* And stay where they are looked for.
LEMMA BytesStayKept ==
  ASSUME AllStraight
  PROVE  FrontendTyped /\ Smooth /\ BytesKept /\ [Next]_vars => BytesKept'
<1> SUFFICES ASSUME FrontendTyped, Smooth, BytesKept, [Next]_vars
             PROVE  BytesKept'
  OBVIOUS
<1>1. ~setup.org.efficiency
  BY DEF FrontendTyped, SourceTyped, AllStraight, Straight
<1>2. CASE Fetch
  BY <1>2, FetchBytes
<1>3. CASE SourceEnds \/ Finish \/ UNCHANGED vars
  <2>1. UNCHANGED <<setup, stream, held, memory, ingress, queues, store, log>>
    BY <1>3 DEF SourceEnds, Finish, vars
  <2> QED BY <2>1, BytesStay
<1>4. CASE Enqueue
  BY <1>4, EnqueueBytes
<1>5. CASE StepBegins
  BY <1>5, StepBytes
<1>6. CASE \E c \in Controllers : ControllerStep(c)
  BY <1>1, <1>6, TurnsKeepBytes
<1> QED BY <1>2, <1>3, <1>4, <1>5, <1>6 DEF Next, ControllerStep

\* A read returns what the writes before it in the stream left, whatever stack,
\* channel and row its bytes were sent to.  It holds for workloads that run
\* well, whose addresses are those of transactions and whose organization has
\* no two transactions with the same coordinates, which the code does not check
\* (target_stack(), target_channel(), AddressMapper::decode(), MemoryImage).
THEOREM ReadsGetLastWrite ==
  ASSUME AllStraight
  PROVE  Spec => []ReadsReturnLastWrite
<1>1. AllSound
  BY DEF AllStraight, AllSound
<1>2. Init => FrontendTyped /\ Smooth /\ BytesKept
  BY InitTyped, SmoothStarts, BytesStart
<1>3. FrontendTyped /\ Smooth /\ BytesKept /\ [Next]_vars
        => FrontendTyped' /\ Smooth' /\ BytesKept'
  BY <1>1, NextTyped, SmoothStays, BytesStayKept
<1>4. BytesKept => ReadsReturnLastWrite
  BY DEF BytesKept
<1> QED BY <1>2, <1>3, <1>4, PTL DEF Spec

-----------------------------------------------------------------------------
(* Sequences that are put together: FlattenSeq *)

\* off counts the elements of the first sequences of ss.
Sums(off, ss) ==
  /\ off \in [0 .. Len(ss) -> Nat] /\ off[0] = 0
  /\ \A i \in DOMAIN ss : off[i] = off[i - 1] + Len(ss[i])

\* f has the elements of the first n sequences of ss, one after the other.
Flat(f, ss, off, n) ==
  /\ Len(f) = off[n]
  /\ \A i \in 1 .. n : \A j \in 1 .. Len(ss[i]) : f[off[i - 1] + j] = ss[i][j]

\* g is the recursion of FlattenSeq for the first n sequences of ss.
Flattens(g, ss, n) ==
  g = [i \in 1 .. n |-> IF i = 1 THEN ss[i] ELSE g[i - 1] \o ss[i]]

\* The elements of a list of sequences can be counted.
LEMMA SumsExist ==
  ASSUME NEW X, NEW ss \in Seq(Seq(X))
  PROVE  \E off : Sums(off, ss)
<1> DEFINE Upto(off, n) ==
             /\ off \in [0 .. n -> Nat] /\ off[0] = 0
             /\ \A i \in 1 .. n : off[i] = off[i - 1] + Len(ss[i])
           S == {n \in Nat : n <= Len(ss) => \E off : Upto(off, n)}
<1>1. 0 \in S
  <2>1. Upto([i \in 0 .. 0 |-> 0], 0)
    OBVIOUS
  <2> HIDE DEF Upto
  <2> QED BY <2>1
<1>2. ASSUME NEW n \in Nat, n \in S
      PROVE  n + 1 \in S
  <2> SUFFICES ASSUME n + 1 <= Len(ss)
               PROVE  \E off : Upto(off, n + 1)
    <3> HIDE DEF Upto
    <3> QED OBVIOUS
  <2>1. PICK off : Upto(off, n)
    <3>1. n <= Len(ss)
      OBVIOUS
    <3> HIDE DEF Upto
    <3> QED BY <1>2, <3>1
  <2> DEFINE last == off[n] + Len(ss[n + 1])
             more == [i \in 0 .. n + 1 |-> IF i <= n THEN off[i] ELSE last]
  <2>2. last \in Nat
    BY <2>1
  <2>3. more[n + 1] = last /\ (\A i \in 0 .. n : more[i] = off[i])
    <3> HIDE DEF last
    <3> QED OBVIOUS
  <2>4. more \in [0 .. n + 1 -> Nat]
    BY <2>1, <2>2
  <2>5. Upto(more, n + 1)
    <3> HIDE DEF more
    <3>1. more[0] = 0
      BY <2>1, <2>3
    <3>2. ASSUME NEW i \in 1 .. n + 1
          PROVE  more[i] = more[i - 1] + Len(ss[i])
      <4>1. CASE i = n + 1
        BY <2>3, <4>1
      <4>2. CASE i # n + 1
        <5>1. i \in 1 .. n /\ i - 1 \in 0 .. n /\ i \in 0 .. n
          BY <4>2
        <5> QED BY <2>1, <2>3, <5>1
      <4> QED BY <4>1, <4>2
    <3> QED BY <2>4, <3>1, <3>2
  <2> HIDE DEF Upto
  <2> QED BY <2>5
<1>3. Len(ss) \in S
  <2> HIDE DEF S
  <2>1. \A n \in Nat : n \in S
    BY <1>1, <1>2, Counting
  <2> QED BY <2>1
<1>4. PICK off : Upto(off, Len(ss))
  <2> HIDE DEF Upto
  <2> QED BY <1>3
<1>5. Sums(off, ss)
  BY <1>4 DEF Sums
<1> QED BY <1>5

\* A number of one of the last parts of a sum.
LEMMA WithinSum ==
  ASSUME NEW a \in Nat, NEW n \in Nat, NEW j \in 1 .. n, NEW b \in Nat, a + n <= b
  PROVE  a + j \in 1 .. b
OBVIOUS

\* What is counted at one sequence.
LEMMA SumsAt ==
  ASSUME NEW X, NEW ss \in Seq(Seq(X)), NEW off, Sums(off, ss), NEW i \in 1 .. Len(ss)
  PROVE  /\ off[i] = off[i - 1] + Len(ss[i])
         /\ off[i] \in Nat /\ off[i - 1] \in Nat
         /\ i \in DOMAIN ss /\ ss[i] \in Seq(X) /\ Len(ss[i]) \in Nat
<1>1. i \in DOMAIN ss /\ ss[i] \in Seq(X)
  OBVIOUS
<1>2. Len(ss[i]) \in Nat
  BY <1>1
<1>3. i \in 0 .. Len(ss) /\ i - 1 \in 0 .. Len(ss)
  OBVIOUS
<1>4. off \in [0 .. Len(ss) -> Nat]
  BY DEF Sums
<1>5. off[i] = off[i - 1] + Len(ss[i])
  BY <1>1 DEF Sums
<1> QED BY <1>1, <1>2, <1>3, <1>4, <1>5

\* An earlier sequence ends before a later one begins.
LEMMA SumsGrow ==
  ASSUME NEW X, NEW ss \in Seq(Seq(X)), NEW off, Sums(off, ss)
  PROVE  \A n \in 0 .. Len(ss) : \A i \in 0 .. n : off[i] <= off[n]
<1> DEFINE S == {n \in Nat : n <= Len(ss) => \A i \in 0 .. n : off[i] <= off[n]}
<1>1. 0 \in S
  BY DEF Sums
<1>2. ASSUME NEW n \in Nat, n \in S
      PROVE  n + 1 \in S
  <2> SUFFICES ASSUME n + 1 <= Len(ss), NEW i \in 0 .. n + 1
               PROVE  off[i] <= off[n + 1]
    BY DEF S
  <2>1. off[n + 1] = off[n] + Len(ss[n + 1]) /\ Len(ss[n + 1]) \in Nat
    <3>1. n + 1 \in 1 .. Len(ss) /\ (n + 1) - 1 = n
      OBVIOUS
    <3> QED BY <3>1, SumsAt
  <2>2. off[n] \in Nat /\ off[i] \in Nat /\ off[n + 1] \in Nat
    <3>1. n \in 0 .. Len(ss) /\ i \in 0 .. Len(ss) /\ n + 1 \in 0 .. Len(ss)
      OBVIOUS
    <3>2. off \in [0 .. Len(ss) -> Nat]
      BY DEF Sums
    <3> QED BY <3>1, <3>2
  <2>3. CASE i = n + 1
    BY <2>2, <2>3
  <2>4. CASE i # n + 1
    <3>1. off[i] <= off[n]
      BY <1>2, <2>4
    <3> QED BY <2>1, <2>2, <3>1
  <2> QED BY <2>3, <2>4
<1>3. \A n \in Nat : n \in S
  <2> HIDE DEF S
  <2> QED BY <1>1, <1>2, Counting
<1> QED BY <1>3

\* Every place among them lies in one of the sequences.
LEMMA PlacesFound ==
  ASSUME NEW X, NEW ss \in Seq(Seq(X)), NEW off, Sums(off, ss)
  PROVE  \A k \in 1 .. off[Len(ss)] :
           \E i \in DOMAIN ss : \E j \in 1 .. Len(ss[i]) : k = off[i - 1] + j
<1> DEFINE Found(k, n) == \E i \in 1 .. n : \E j \in 1 .. Len(ss[i]) : k = off[i - 1] + j
           S == {n \in Nat : n <= Len(ss) => \A k \in 1 .. off[n] : Found(k, n)}
<1>1. 0 \in S
  BY DEF Sums
<1>2. ASSUME NEW n \in Nat, n \in S
      PROVE  n + 1 \in S
  <2> SUFFICES ASSUME n + 1 <= Len(ss), NEW k \in 1 .. off[n + 1]
               PROVE  Found(k, n + 1)
    <3> HIDE DEF Found
    <3> QED OBVIOUS
  <2>1. off[n + 1] = off[n] + Len(ss[n + 1]) /\ Len(ss[n + 1]) \in Nat /\ off[n] \in Nat
    <3>1. n + 1 \in 1 .. Len(ss) /\ (n + 1) - 1 = n
      OBVIOUS
    <3> QED BY <3>1, SumsAt
  <2>2. CASE k <= off[n]
    <3>1. k \in 1 .. off[n]
      BY <2>1, <2>2
    <3>2. Found(k, n)
      <4> HIDE DEF Found
      <4> QED BY <1>2, <3>1
    <3> QED BY <3>2
  <2>3. CASE off[n] < k
    <3>1. k - off[n] \in 1 .. Len(ss[n + 1]) /\ k = off[(n + 1) - 1] + (k - off[n])
      BY <2>1, <2>3
    <3>2. n + 1 \in 1 .. n + 1
      OBVIOUS
    <3> QED BY <3>1, <3>2
  <2> QED BY <2>1, <2>2, <2>3
<1>3. \A n \in Nat : n \in S
  <2> HIDE DEF S
  <2> QED BY <1>1, <1>2, Counting
<1>4. Len(ss) \in Nat /\ Len(ss) <= Len(ss) /\ DOMAIN ss = 1 .. Len(ss)
  OBVIOUS
<1>5. \A k \in 1 .. off[Len(ss)] : Found(k, Len(ss))
  <2> HIDE DEF Found
  <2> QED BY <1>3, <1>4
<1> QED BY <1>4, <1>5

\* The elements of two sequences, one after the other.
LEMMA BothInOrder ==
  ASSUME NEW X, NEW s \in Seq(X), NEW t \in Seq(X)
  PROVE  /\ s \o t \in Seq(X) /\ Len(s \o t) = Len(s) + Len(t)
         /\ \A k \in 1 .. Len(s) : (s \o t)[k] = s[k]
         /\ \A j \in 1 .. Len(t) : (s \o t)[Len(s) + j] = t[j]
OBVIOUS

\* The recursion of FlattenSeq has a solution.
LEMMA FlattensExist ==
  ASSUME NEW X, NEW ss \in Seq(Seq(X))
  PROVE  \E g : Flattens(g, ss, Len(ss))
<1> DEFINE Solved(g, n) == g \in [1 .. n -> Seq(X)] /\ Flattens(g, ss, n)
           S == {n \in Nat : n <= Len(ss) => \E g : Solved(g, n)}
<1>1. 0 \in S
  <2>1. Solved([i \in 1 .. 0 |-> <<>>], 0)
    BY DEF Flattens
  <2> HIDE DEF Solved
  <2> QED BY <2>1
<1>2. ASSUME NEW n \in Nat, n \in S
      PROVE  n + 1 \in S
  <2> SUFFICES ASSUME n + 1 <= Len(ss)
               PROVE  \E g : Solved(g, n + 1)
    <3> HIDE DEF Solved
    <3> QED OBVIOUS
  <2>1. PICK g : Solved(g, n)
    <3>1. n <= Len(ss)
      OBVIOUS
    <3> HIDE DEF Solved
    <3> QED BY <1>2, <3>1
  <2> DEFINE last == IF n = 0 THEN ss[n + 1] ELSE g[n] \o ss[n + 1]
             h == [i \in 1 .. n + 1 |-> IF i <= n THEN g[i] ELSE last]
  <2>2. last \in Seq(X)
    <3>1. ss[n + 1] \in Seq(X)
      OBVIOUS
    <3>2. n # 0 => g[n] \in Seq(X)
      BY <2>1
    <3> QED BY <3>1, <3>2
  <2>3. h[n + 1] = last /\ (\A i \in 1 .. n : h[i] = g[i])
    <3> HIDE DEF last
    <3> QED OBVIOUS
  <2>4. h \in [1 .. n + 1 -> Seq(X)]
    BY <2>1, <2>2
  <2>5. ASSUME NEW i \in 1 .. n + 1
        PROVE  h[i] = IF i = 1 THEN ss[i] ELSE h[i - 1] \o ss[i]
    <3> HIDE DEF h
    <3>1. CASE i = n + 1
      <4>1. n # 0 => n \in 1 .. n /\ (n + 1) - 1 = n /\ n + 1 # 1
        OBVIOUS
      <4> QED BY <2>3, <3>1, <4>1
    <3>2. CASE i # n + 1
      <4>1. i \in 1 .. n /\ (i # 1 => i - 1 \in 1 .. n)
        BY <3>2
      <4>2. g[i] = IF i = 1 THEN ss[i] ELSE g[i - 1] \o ss[i]
        BY <2>1, <4>1 DEF Flattens
      <4> QED BY <2>3, <4>1, <4>2
    <3> QED BY <3>1, <3>2
  <2>6. Flattens(h, ss, n + 1)
    <3>1. h = [i \in 1 .. n + 1 |-> h[i]]
      BY <2>4
    <3> HIDE DEF h
    <3> QED BY <2>5, <3>1 DEF Flattens
  <2> HIDE DEF h
  <2> QED BY <2>4, <2>6
<1>3. \A n \in Nat : n \in S
  <2> HIDE DEF S
  <2> QED BY <1>1, <1>2, Counting
<1>4. PICK g : Solved(g, Len(ss))
  <2>1. Len(ss) \in Nat /\ Len(ss) <= Len(ss)
    OBVIOUS
  <2> HIDE DEF Solved
  <2> QED BY <1>3, <2>1
<1> QED BY <1>4

\* FlattenSeq puts the elements of all the sequences one after the other.
LEMMA FlattenSeqIsFlat ==
  ASSUME NEW X, NEW ss \in Seq(Seq(X)), NEW off, Sums(off, ss)
  PROVE  FlattenSeq(ss) \in Seq(X) /\ Flat(FlattenSeq(ss), ss, off, Len(ss))
<1>1. CASE Len(ss) = 0
  <2>1. FlattenSeq(ss) = ss /\ ss = <<>>
    BY <1>1 DEF FlattenSeq
  <2>2. off[0] = 0
    BY DEF Sums
  <2> QED BY <1>1, <2>1, <2>2 DEF Flat
<1>2. CASE Len(ss) # 0
  <2> DEFINE g == CHOOSE g : Flattens(g, ss, Len(ss))
  <2>1. FlattenSeq(ss) = g[Len(ss)]
    BY <1>2 DEF FlattenSeq, Flattens
  <2>2. Flattens(g, ss, Len(ss))
    BY FlattensExist
  <2> HIDE DEF g
  <2> DEFINE Done(n) == g[n] \in Seq(X) /\ Flat(g[n], ss, off, n)
             S == {n \in Nat : n \in 1 .. Len(ss) => Done(n)}
  <2>3. 0 \in S
    OBVIOUS
  <2>4. ASSUME NEW n \in Nat, n \in S
        PROVE  n + 1 \in S
    <3> SUFFICES ASSUME n + 1 \in 1 .. Len(ss)
                 PROVE  Done(n + 1)
      <4> HIDE DEF Done
      <4> QED OBVIOUS
    <3>1. /\ off[n + 1] = off[n] + Len(ss[n + 1]) /\ off[n] \in Nat
          /\ ss[n + 1] \in Seq(X)
      <4>1. (n + 1) - 1 = n
        OBVIOUS
      <4> QED BY <4>1, SumsAt
    <3>2. g[n + 1] = IF n = 0 THEN ss[n + 1] ELSE g[n] \o ss[n + 1]
      <4>1. g[n + 1] = IF n + 1 = 1 THEN ss[n + 1] ELSE g[(n + 1) - 1] \o ss[n + 1]
        BY <2>2 DEF Flattens
      <4> QED BY <4>1
    <3>3. CASE n = 0
      <4>1. g[1] = ss[1] /\ off[0] = 0 /\ off[1] = Len(ss[1]) /\ Len(ss[1]) \in Nat
        BY <3>1, <3>2, <3>3 DEF Sums
      <4>2. ss[1] \in Seq(X)
        BY <3>1, <3>3
      <4>3. \A i \in 1 .. 1 : \A j \in 1 .. Len(ss[i]) : g[1][off[i - 1] + j] = ss[i][j]
        BY <4>1
      <4> QED BY <3>3, <4>1, <4>2, <4>3 DEF Flat
    <3>4. CASE n # 0
      <4>1. Done(n) /\ g[n + 1] = g[n] \o ss[n + 1]
        <5>1. n \in 1 .. Len(ss)
          BY <3>4
        <5> HIDE DEF Done
        <5> QED BY <2>4, <3>2, <3>4, <5>1
      <4>2. /\ Len(g[n]) = off[n] /\ g[n + 1] \in Seq(X)
            /\ Len(g[n + 1]) = off[n] + Len(ss[n + 1])
            /\ \A k \in 1 .. off[n] : g[n + 1][k] = g[n][k]
            /\ \A j \in 1 .. Len(ss[n + 1]) : g[n + 1][off[n] + j] = ss[n + 1][j]
        <5>1. Len(g[n]) = off[n] /\ g[n] \in Seq(X)
          BY <4>1 DEF Flat
        <5> DEFINE s == g[n]
                   t == ss[n + 1]
        <5>2. s \in Seq(X) /\ t \in Seq(X)
          BY <3>1, <5>1
        <5>3. g[n + 1] = s \o t /\ Len(s) = off[n]
          BY <4>1, <5>1
        <5> HIDE DEF s, t
        <5>4. /\ s \o t \in Seq(X) /\ Len(s \o t) = Len(s) + Len(t)
              /\ \A k \in 1 .. Len(s) : (s \o t)[k] = s[k]
              /\ \A j \in 1 .. Len(t) : (s \o t)[Len(s) + j] = t[j]
          BY <5>2, BothInOrder
        <5> QED BY <5>3, <5>4 DEF s, t
      <4>3. ASSUME NEW i \in 1 .. n + 1, NEW j \in 1 .. Len(ss[i])
            PROVE  g[n + 1][off[i - 1] + j] = ss[i][j]
        <5>1. i \in 1 .. Len(ss) /\ i \in DOMAIN ss
          OBVIOUS
        <5>2. /\ off[i] = off[i - 1] + Len(ss[i]) /\ off[i - 1] \in Nat
              /\ Len(ss[i]) \in Nat
          BY <5>1, SumsAt
        <5>3. CASE i = n + 1
          <6>1. i - 1 = n
            BY <5>3
          <6> QED BY <4>2, <5>3, <6>1
        <5>4. CASE i # n + 1
          <6>1. i \in 1 .. n
            BY <5>4
          <6>2. off[i] <= off[n]
            <7>1. n \in 0 .. Len(ss) /\ i \in 0 .. n
              BY <6>1
            <7> QED BY <7>1, SumsGrow
          <6>3. off[i - 1] + j \in 1 .. off[n]
            <7>1. off[i] \in Nat /\ off[n] \in Nat
              BY <3>1, <5>1, SumsAt
            <7>2. off[i - 1] + Len(ss[i]) <= off[n]
              BY <5>2, <6>2
            <7> QED BY <5>2, <7>1, <7>2, WithinSum
          <6>4. g[n][off[i - 1] + j] = ss[i][j]
            BY <4>1, <6>1 DEF Flat
          <6> QED BY <4>2, <6>3, <6>4
        <5> QED BY <5>3, <5>4
      <4> QED BY <3>1, <4>2, <4>3 DEF Flat
    <3> QED BY <3>3, <3>4
  <2>5. \A n \in Nat : n \in S
    <3> HIDE DEF S
    <3> QED BY <2>3, <2>4, Counting
  <2>6. Done(Len(ss))
    <3>1. Len(ss) \in Nat /\ Len(ss) \in 1 .. Len(ss)
      BY <1>2
    <3> HIDE DEF Done
    <3> QED BY <2>5, <3>1
  <2> QED BY <2>1, <2>6
<1> QED BY <1>1, <1>2

-----------------------------------------------------------------------------
(* What a valid trace is: the events of its commands, each of them once *)

\* Commands and events of the merged trace.
TracedCommands ==
  [cycle : Nat, cmd : Commands, id : Nat, at : [Fields -> Int], data : Nat, stack : Int,
   position : Nat \X Nat, address : Int, system : Int, payload : Seq(Byte),
   expected : Seq(Byte), owed : Seq(Byte)]

TraceEvents ==
  [kind : {"command", "read", "write"}, cycle : Int, issued : Int, id : Int,
   cmd : Commands, stack : Int, at : [Fields -> Int], phase : Int, address : Int,
   system : Int, beat : Int, beats : Int, payload : Seq(Byte)]

DfiOptions == [phases : Nat \ {0}, beatBytes : Nat \ {0}, tick : Nat \ {0}, latency : Nat]

\* What the validator looks at in an event: the command event of a command has no
\* beat of its own, and what it says of one is not read.
LookedAt(e) ==
  IF e.kind = "command" THEN [e EXCEPT !.beat = 0, !.beats = 0, !.payload = <<>>] ELSE e

\* An event that build_dfi_trace() makes of the commands.
Beat(d, c, e) ==
  c.cmd \in DataCommands /\ \E b \in 0 .. Beats(d, c) - 1 : e = DataEvent(d, c, b)
Expects(d, commands, e) ==
  \E m \in DOMAIN commands : \/ e = CommandEvent(d, commands[m])
                             \/ Beat(d, commands[m], e)

\* Events stay of their kind and key, and only a command event changes.
LEMMA LookedAtFields ==
  ASSUME NEW e \in TraceEvents
  PROVE  /\ LookedAt(e) \in TraceEvents /\ LookedAt(e).kind = e.kind
         /\ EventKey(LookedAt(e)) = EventKey(e)
         /\ e.kind # "command" => LookedAt(e) = e
         /\ LookedAt(e).cycle = e.cycle /\ LookedAt(e).at = e.at /\ LookedAt(e).id = e.id
<1> DEFINE x == [e EXCEPT !.beat = 0, !.beats = 0, !.payload = <<>>]
<1>0. e = [kind |-> e.kind, cycle |-> e.cycle, issued |-> e.issued, id |-> e.id,
           cmd |-> e.cmd, stack |-> e.stack, at |-> e.at, phase |-> e.phase,
           address |-> e.address, system |-> e.system, beat |-> e.beat, beats |-> e.beats,
           payload |-> e.payload]
  BY DEF TraceEvents
<1>e. x = [e EXCEPT !.beat = 0, !.beats = 0, !.payload = <<>>]
  OBVIOUS
<1> HIDE DEF x
<1>1. x = [kind |-> e.kind, cycle |-> e.cycle, issued |-> e.issued, id |-> e.id,
           cmd |-> e.cmd, stack |-> e.stack, at |-> e.at, phase |-> e.phase,
           address |-> e.address, system |-> e.system, beat |-> 0, beats |-> 0,
           payload |-> <<>>]
  BY <1>0, <1>e, ZenonT(60)
<1>2. <<>> \in Seq(Byte)
  OBVIOUS
<1>3. x \in TraceEvents
  BY <1>1, <1>2 DEF TraceEvents
<1>4. /\ x.kind = e.kind /\ x.cycle = e.cycle /\ x.issued = e.issued /\ x.id = e.id
      /\ x.cmd = e.cmd /\ x.stack = e.stack /\ x.at = e.at
  BY <1>1
<1>5. EventKey(x) = EventKey(e)
  BY <1>4 DEF EventKey
<1>6. LookedAt(e) = IF e.kind = "command" THEN x ELSE e
  BY DEF LookedAt, x
<1> QED BY <1>3, <1>4, <1>5, <1>6

\* A command event with the key and the snapshot of a command is its event, in
\* what is looked at.
LEMMA SnapshotEnough ==
  ASSUME NEW d \in DfiOptions, NEW c \in TracedCommands, NEW e \in TraceEvents,
         e.kind = "command", EventKey(e) = CommandKey(c), EventSound(d, e),
         Snapshot(e) = Snapshot(CommandEvent(d, c))
  PROVE  LookedAt(e) = CommandEvent(d, c)
<1>1. CommandEvent(d, c) =
        [kind |-> "command", cycle |-> c.cycle, issued |-> c.cycle, id |-> c.id,
         cmd |-> c.cmd, stack |-> c.stack, at |-> c.at, phase |-> c.cycle % d.phases,
         address |-> c.address, system |-> c.system, beat |-> 0, beats |-> 0,
         payload |-> <<>>]
  BY DEF CommandEvent, EventOf
<1>2. LookedAt(e) =
        [kind |-> e.kind, cycle |-> e.cycle, issued |-> e.issued, id |-> e.id,
         cmd |-> e.cmd, stack |-> e.stack, at |-> e.at, phase |-> e.phase,
         address |-> e.address, system |-> e.system, beat |-> 0, beats |-> 0,
         payload |-> <<>>]
  <2>1. e = [kind |-> e.kind, cycle |-> e.cycle, issued |-> e.issued, id |-> e.id,
             cmd |-> e.cmd, stack |-> e.stack, at |-> e.at, phase |-> e.phase,
             address |-> e.address, system |-> e.system, beat |-> e.beat,
             beats |-> e.beats, payload |-> e.payload]
    BY DEF TraceEvents
  <2>2. LookedAt(e) = [e EXCEPT !.beat = 0, !.beats = 0, !.payload = <<>>]
    BY DEF LookedAt
  <2> QED BY <2>1, <2>2, ZenonT(60)
<1>3. e.id = c.id /\ e.cmd = c.cmd /\ e.cycle = c.cycle
  BY DEF EventKey, CommandKey, TraceKey
<1>4. /\ e.issued = c.cycle /\ e.address = c.address /\ e.system = c.system
      /\ e.stack = c.stack /\ e.at = c.at
  <2> DEFINE x == CommandEvent(d, c)
  <2>1. /\ x.issued = c.cycle /\ x.address = c.address /\ x.system = c.system
        /\ x.stack = c.stack /\ x.at = c.at
    BY <1>1
  <2> HIDE DEF x
  <2>2. /\ e.issued = x.issued /\ e.address = x.address /\ e.system = x.system
        /\ e.stack = x.stack /\ e.at = x.at
    BY DEF Snapshot, x
  <2> QED BY <2>1, <2>2
<1>5. e.phase = e.cycle % d.phases
  BY DEF EventSound
<1> QED BY <1>1, <1>2, <1>3, <1>4, <1>5

\* F is n places in ev, and n different events x are found there.
FoundAt(ev, F, n, x) ==
  /\ IsFiniteSet(F) /\ n \in Nat /\ Cardinality(F) = n
  /\ \A k \in 1 .. n : \E i \in F : ev[i] = x[k]
  /\ \A k \in 1 .. n : \A l \in 1 .. n : x[k] = x[l] => k = l

\* Then nothing else is there, and each of them once.
LEMMA FoundOnce ==
  ASSUME NEW ev, NEW F, NEW n, NEW x, FoundAt(ev, F, n, x)
  PROVE  /\ \A i \in F : \E k \in 1 .. n : ev[i] = x[k]
         /\ \A i \in F : \A j \in F : ev[i] = ev[j] => i = j
<1>0. /\ IsFiniteSet(F) /\ n \in Nat /\ Cardinality(F) = n
      /\ \A k \in 1 .. n : \E i \in F : ev[i] = x[k]
      /\ \A k \in 1 .. n : \A l \in 1 .. n : x[k] = x[l] => k = l
  BY DEF FoundAt
<1> DEFINE g == [k \in 1 .. n |-> CHOOSE i \in F : ev[i] = x[k]]
<1>1. \A k \in 1 .. n : g[k] \in F /\ ev[g[k]] = x[k]
  BY <1>0
<1>2. g = [k \in 1 .. n |-> g[k]]
  OBVIOUS
<1> HIDE DEF g
<1>3. \A k \in 1 .. n : \A l \in 1 .. n : g[k] = g[l] => k = l
  BY <1>0, <1>1
<1>4. ASSUME NEW i \in F
      PROVE  \E k \in 1 .. n : i = g[k]
  <2> SUFFICES ASSUME \A k \in 1 .. n : i # g[k]
               PROVE  FALSE
    OBVIOUS
  <2>1. g \in [1 .. n -> F \ {i}]
    BY <1>1, <1>2
  <2>2. IsFiniteSet(F \ {i}) /\ Cardinality(F \ {i}) = n - 1
    BY <1>0, FS_RemoveElement
  <2>3. IsFiniteSet(1 .. n) /\ Cardinality(1 .. n) = n
    <3>1. 1 \in Int /\ n \in Int /\ n \in Nat
      BY <1>0
    <3>2. IsFiniteSet(1 .. n) /\ Cardinality(1 .. n) = IF 1 > n THEN 0 ELSE n - 1 + 1
      BY <3>1, FS_Interval
    <3> QED BY <3>1, <3>2
  <2>4. Cardinality(F \ {i}) < Cardinality(1 .. n)
    BY <1>0, <2>2, <2>3
  <2>5. \E k \in 1 .. n : \E l \in 1 .. n : k # l /\ g[k] = g[l]
    BY <1>0, <2>1, <2>2, <2>3, <2>4, FS_PigeonHole
  <2> QED BY <1>3, <2>5
<1> QED BY <1>0, <1>1, <1>4

\* A command has a natural number of beats.
LEMMA BeatsNat ==
  ASSUME NEW d \in DfiOptions, NEW c \in TracedCommands
  PROVE  Beats(d, c) \in Nat
<1>1. d.beatBytes \in Nat \ {0} /\ c.payload \in Seq(Byte)
  BY DEF DfiOptions, TracedCommands
<1>2. Len(c.payload) + d.beatBytes - 1 \in Nat
  BY <1>1, LenProperties
<1> QED BY <1>1, <1>2, Division DEF Beats

\* What identifies an event of a command.
LEMMA EventFields ==
  ASSUME NEW d, NEW c, NEW b
  PROVE  /\ CommandEvent(d, c).kind = "command"
         /\ EventKey(CommandEvent(d, c)) = CommandKey(c)
         /\ DataEvent(d, c, b).kind \in {"read", "write"}
         /\ EventKey(DataEvent(d, c, b)) = CommandKey(c)
         /\ DataEvent(d, c, b).beat = b /\ DataEvent(d, c, b).beats = Beats(d, c)
<1>1. /\ CommandEvent(d, c).kind = "command" /\ CommandEvent(d, c).stack = c.stack
      /\ CommandEvent(d, c).at = c.at /\ CommandEvent(d, c).id = c.id
      /\ CommandEvent(d, c).cmd = c.cmd /\ CommandEvent(d, c).cycle = c.cycle
  BY DEF CommandEvent, EventOf
<1>2. /\ DataEvent(d, c, b).kind \in {"read", "write"} /\ DataEvent(d, c, b).stack = c.stack
      /\ DataEvent(d, c, b).at = c.at /\ DataEvent(d, c, b).id = c.id
      /\ DataEvent(d, c, b).cmd = c.cmd /\ DataEvent(d, c, b).issued = c.cycle
      /\ DataEvent(d, c, b).beat = b /\ DataEvent(d, c, b).beats = Beats(d, c)
  BY DEF DataEvent, EventOf
<1> QED BY <1>1, <1>2 DEF EventKey, CommandKey

\* Events are found in a finite set of places.
LEMMA FoundFinite ==
  ASSUME NEW ev \in Seq(TraceEvents), NEW c, NEW kinds
  PROVE  /\ EventsOf(ev, c, kinds) \subseteq DOMAIN ev
         /\ IsFiniteSet(EventsOf(ev, c, kinds))
<1>1. DOMAIN ev = 1 .. Len(ev) /\ Len(ev) \in Nat
  BY LenProperties
<1>2. IsFiniteSet(1 .. Len(ev))
  <2>1. 1 \in Int /\ Len(ev) \in Int
    BY <1>1
  <2> QED BY <2>1, FS_Interval
<1>3. EventsOf(ev, c, kinds) \in SUBSET (1 .. Len(ev))
  BY <1>1 DEF EventsOf
<1> QED BY <1>1, <1>2, <1>3, FS_Subset

\* The events a valid trace has for one of its commands.
LEMMA ValidCommand ==
  ASSUME NEW d \in DfiOptions, NEW commands \in Seq(TracedCommands),
         NEW ev \in Seq(TraceEvents), ValidTrace(d, commands, ev),
         NEW m \in DOMAIN commands
  PROVE  LET c == commands[m]
             one == EventsOf(ev, c, {"command"})
             all == EventsOf(ev, c, {"read", "write"})
         IN /\ \E i \in one : LookedAt(ev[i]) = CommandEvent(d, c)
            /\ \A i \in one : LookedAt(ev[i]) = CommandEvent(d, c) /\ \A j \in one : i = j
            /\ c.cmd \in DataCommands =>
                 /\ \A b \in 0 .. Beats(d, c) - 1 : \E i \in all : ev[i] = DataEvent(d, c, b)
                 /\ \A i \in all : Beat(d, c, ev[i])
                 /\ \A i \in all : \A j \in all : ev[i] = ev[j] => i = j
<1> DEFINE c == commands[m]
           one == EventsOf(ev, c, {"command"})
           all == EventsOf(ev, c, {"read", "write"})
<1>1. c \in TracedCommands
  BY ElementOfSeq, LenProperties
<1>2. Cardinality(one) = 1 /\ (\A i \in one : LookedAt(ev[i]) = CommandEvent(d, c))
  <2>1. /\ Cardinality(one) = 1
        /\ \A i \in one : Snapshot(ev[i]) = Snapshot(CommandEvent(d, c))
    BY DEF ValidTrace, CommandSeen
  <2>2. ASSUME NEW i \in one
        PROVE  LookedAt(ev[i]) = CommandEvent(d, c)
    <3>1. i \in DOMAIN ev /\ ev[i].kind = "command" /\ EventKey(ev[i]) = CommandKey(c)
      BY <2>2 DEF EventsOf
    <3>2. ev[i] \in TraceEvents /\ EventSound(d, ev[i])
      BY <3>1, ElementOfSeq, LenProperties DEF ValidTrace
    <3> HIDE DEF c
    <3> QED BY <1>1, <2>1, <2>2, <3>1, <3>2, SnapshotEnough
  <2> QED BY <2>1, <2>2
<1>3. IsFiniteSet(one) /\ IsFiniteSet(all)
  BY FoundFinite
<1> HIDE DEF c, one, all
<1>4. PICK i \in one : one = {i}
  BY <1>2, <1>3, FS_Singleton
<1>5. ASSUME c.cmd \in DataCommands
      PROVE  /\ \A b \in 0 .. Beats(d, c) - 1 : \E j \in all : ev[j] = DataEvent(d, c, b)
             /\ \A j \in all : Beat(d, c, ev[j])
             /\ \A j \in all : \A k \in all : ev[j] = ev[k] => j = k
  <2>1. /\ Cardinality(all) = Beats(d, c)
        /\ \A b \in 0 .. Beats(d, c) - 1 : \E j \in all : ev[j] = DataEvent(d, c, b)
    BY <1>5 DEF ValidTrace, BeatsSeen, c, all
  <2> DEFINE n == Beats(d, c)
             x == [k \in 1 .. n |-> DataEvent(d, c, k - 1)]
  <2>2. n \in Nat
    BY <1>1, BeatsNat
  <2>3. \A k \in 1 .. n : x[k] = DataEvent(d, c, k - 1) /\ k - 1 \in 0 .. n - 1
    BY <2>2
  <2>4. \A k \in 1 .. n : \E j \in all : ev[j] = x[k]
    BY <2>1, <2>3
  <2>5. \A k \in 1 .. n : \A l \in 1 .. n : x[k] = x[l] => k = l
    <3>1. \A k \in 1 .. n : x[k].beat = k - 1
      BY <2>3, EventFields
    <3> HIDE DEF x
    <3> QED BY <2>2, <3>1
  <2>6. Cardinality(all) = n
    BY <2>1
  <2> HIDE DEF n, x
  <2>7. /\ \A j \in all : \E k \in 1 .. n : ev[j] = x[k]
        /\ \A j \in all : \A k \in all : ev[j] = ev[k] => j = k
    <3>1. FoundAt(ev, all, n, x)
      BY <1>3, <2>2, <2>4, <2>5, <2>6 DEF FoundAt
    <3> QED BY <3>1, FoundOnce
  <2>8. \A j \in all : Beat(d, c, ev[j])
    BY <1>5, <2>3, <2>7 DEF Beat, n
  <2> QED BY <2>1, <2>7, <2>8
<1> QED BY <1>2, <1>4, <1>5 DEF c, one, all

\* Where an event of a valid trace is looked for.
LEMMA FoundWhere ==
  ASSUME NEW d \in DfiOptions, NEW commands \in Seq(TracedCommands),
         NEW ev \in Seq(TraceEvents), ValidTrace(d, commands, ev), NEW i \in DOMAIN ev
  PROVE  \E m \in DOMAIN commands : \E kinds \in {{"command"}, {"read", "write"}} :
           /\ kinds # {"command"} => commands[m].cmd \in DataCommands
           /\ \A j \in DOMAIN ev : LookedAt(ev[j]) = LookedAt(ev[i])
                => j \in EventsOf(ev, commands[m], kinds)
<1>1. \A j \in DOMAIN ev : ev[j] \in TraceEvents
  BY ElementOfSeq, LenProperties
<1>2. ev[i].kind \in {"command", "read", "write"}
  BY <1>1 DEF TraceEvents
<1>3. PICK m \in DOMAIN commands :
        /\ CommandKey(commands[m]) = EventKey(ev[i])
        /\ ev[i].kind = "command" \/ commands[m].cmd \in DataCommands
  BY DEF ValidTrace, Orphan
<1>4. \A j \in DOMAIN ev : LookedAt(ev[j]) = LookedAt(ev[i])
        => ev[j].kind = ev[i].kind /\ EventKey(ev[j]) = CommandKey(commands[m])
  BY <1>1, <1>3, LookedAtFields
<1>5. CASE ev[i].kind = "command"
  <2>1. \A j \in DOMAIN ev : LookedAt(ev[j]) = LookedAt(ev[i])
          => j \in EventsOf(ev, commands[m], {"command"})
    BY <1>4, <1>5 DEF EventsOf
  <2> QED BY <2>1
<1>6. CASE ev[i].kind # "command"
  <2>1. \A j \in DOMAIN ev : LookedAt(ev[j]) = LookedAt(ev[i])
          => j \in EventsOf(ev, commands[m], {"read", "write"})
    BY <1>2, <1>4, <1>6 DEF EventsOf
  <2> QED BY <1>3, <1>6, <2>1
<1> QED BY <1>5, <1>6

\* A trace that the validator accepts has the events of its commands, each of them
\* once, and no other; of a command event all but the data is meant, of a beat its
\* bytes too (validate_dfi_trace()).
THEOREM ValidTracesAreComplete ==
  ASSUME NEW d \in DfiOptions, NEW commands \in Seq(TracedCommands),
         NEW ev \in Seq(TraceEvents), ValidTrace(d, commands, ev)
  PROVE  /\ \A i \in DOMAIN ev : Expects(d, commands, LookedAt(ev[i]))
         /\ \A e : Expects(d, commands, e) => \E i \in DOMAIN ev : LookedAt(ev[i]) = e
         /\ \A i \in DOMAIN ev : \A j \in DOMAIN ev : LookedAt(ev[i]) = LookedAt(ev[j]) => i = j
<1>0. \A j \in DOMAIN ev : ev[j] \in TraceEvents
  BY ElementOfSeq, LenProperties
<1>1. ASSUME NEW i \in DOMAIN ev
      PROVE  /\ Expects(d, commands, LookedAt(ev[i]))
             /\ \A j \in DOMAIN ev : LookedAt(ev[j]) = LookedAt(ev[i]) => j = i
  <2>1. PICK m \in DOMAIN commands, kinds \in {{"command"}, {"read", "write"}} :
           /\ kinds # {"command"} => commands[m].cmd \in DataCommands
           /\ \A j \in DOMAIN ev : LookedAt(ev[j]) = LookedAt(ev[i])
                => j \in EventsOf(ev, commands[m], kinds)
    BY FoundWhere
  <2> DEFINE c == commands[m]
             one == EventsOf(ev, c, {"command"})
             all == EventsOf(ev, c, {"read", "write"})
  <2>2. /\ \A k \in one : LookedAt(ev[k]) = CommandEvent(d, c) /\ \A j \in one : k = j
        /\ c.cmd \in DataCommands =>
             /\ \A k \in all : Beat(d, c, ev[k])
             /\ \A k \in all : \A j \in all : ev[k] = ev[j] => k = j
    BY ValidCommand
  <2>3. CASE kinds = {"command"}
    <3>1. \A j \in DOMAIN ev : LookedAt(ev[j]) = LookedAt(ev[i]) => j \in one
      BY <2>1, <2>3
    <3> HIDE DEF one
    <3>2. LookedAt(ev[i]) = CommandEvent(d, c) /\ \A j \in one : i = j
      BY <2>2, <3>1
    <3> QED BY <3>1, <3>2 DEF Expects
  <2>4. CASE kinds = {"read", "write"}
    <3>1. \A j \in DOMAIN ev : LookedAt(ev[j]) = LookedAt(ev[i]) => j \in all
      BY <2>1, <2>4
    <3>2. kinds # {"command"}
      <4>1. "read" \in kinds /\ "read" \notin {"command"}
        BY <2>4
      <4> QED BY <4>1
    <3>3. \A j \in all : ev[j].kind \in {"read", "write"}
      BY DEF EventsOf
    <3>4. all \subseteq DOMAIN ev
      BY FoundFinite
    <3> HIDE DEF all
    <3>5. \A j \in all : LookedAt(ev[j]) = ev[j]
      BY <1>0, <3>3, <3>4, LookedAtFields
    <3>6. i \in all /\ Beat(d, c, ev[i]) /\ \A j \in all : ev[i] = ev[j] => i = j
      BY <2>1, <2>2, <3>1, <3>2
    <3> QED BY <3>1, <3>5, <3>6 DEF Expects
  <2> QED BY <2>1, <2>3, <2>4
<1>2. ASSUME NEW e, Expects(d, commands, e)
      PROVE  \E i \in DOMAIN ev : LookedAt(ev[i]) = e
  <2>1. PICK m \in DOMAIN commands :
           e = CommandEvent(d, commands[m]) \/ Beat(d, commands[m], e)
    BY <1>2 DEF Expects
  <2> DEFINE c == commands[m]
             one == EventsOf(ev, c, {"command"})
             all == EventsOf(ev, c, {"read", "write"})
  <2>2. /\ \E i \in one : LookedAt(ev[i]) = CommandEvent(d, c)
        /\ c.cmd \in DataCommands =>
             \A b \in 0 .. Beats(d, c) - 1 : \E i \in all : ev[i] = DataEvent(d, c, b)
    BY ValidCommand
  <2>3. one \subseteq DOMAIN ev /\ all \subseteq DOMAIN ev
    BY FoundFinite
  <2>4. \A j \in all : ev[j].kind \in {"read", "write"}
    BY DEF EventsOf
  <2> HIDE DEF one, all
  <2>5. \A j \in all : LookedAt(ev[j]) = ev[j]
    BY <1>0, <2>3, <2>4, LookedAtFields
  <2>6. CASE e = CommandEvent(d, c)
    BY <2>2, <2>3, <2>6
  <2>7. CASE Beat(d, c, e)
    BY <2>2, <2>3, <2>5, <2>7 DEF Beat
  <2> QED BY <2>1, <2>6, <2>7
<1> QED BY <1>1, <1>2

\* What is damaged are events.
LEMMA DamagedTyped ==
  ASSUME NEW d \in DfiOptions, NEW ev \in Seq(TraceEvents), NEW i \in DOMAIN ev,
         NEW bad \in Damaged(d, ev, i)
  PROVE  bad \in Seq(TraceEvents)
<1> DEFINE e == ev[i]
<1>1. /\ i \in 1 .. Len(ev) /\ Len(ev) \in Nat /\ e \in TraceEvents
      /\ d.phases \in Nat \ {0}
  BY ElementOfSeq, LenProperties DEF DfiOptions
<1>2. \A x \in TraceEvents : Replaced(ev, i, x) \in Seq(TraceEvents)
  BY <1>1 DEF Replaced
<1>3. \A x \in TraceEvents : Append(ev, x) \in Seq(TraceEvents)
  BY AppendProperties
<1>4. RemoveAt(ev, i) \in Seq(TraceEvents)
  <2>1. SubSeq(ev, 1, i - 1) \in Seq(TraceEvents) /\ SubSeq(ev, i + 1, Len(ev)) \in Seq(TraceEvents)
    BY <1>1, SubSeqProperties
  <2> QED BY <2>1, ConcatProperties DEF RemoveAt
<1> HIDE DEF e
<1>5. /\ e.cycle \in Int /\ e.payload \in Seq(Byte) /\ e.at \in [Fields -> Int] /\ e.id \in Int
      /\ "channel" \in Fields
  BY <1>1 DEF TraceEvents, Fields
<1>6. Later(d, e) \in TraceEvents
  <2>1. e.cycle + 1 \in Int /\ (e.cycle + 1) % d.phases \in Int
    BY <1>1, <1>5
  <2> QED BY <1>1, <2>1 DEF Later, TraceEvents
<1>7. [e EXCEPT !.payload = <<ZeroByte>> \o @] \in TraceEvents
  <2>1. ZeroByte \in Byte
    BY DEF ZeroByte, Byte, Marks, None
  <2>2. <<ZeroByte>> \in Seq(Byte)
    BY <2>1
  <2>3. <<ZeroByte>> \o e.payload \in Seq(Byte)
    BY <1>5, <2>2, ConcatProperties
  <2> QED BY <1>1, <2>3 DEF TraceEvents
<1>8. [e EXCEPT !.at["channel"] = 1 - @] \in TraceEvents
  <2>1. [e.at EXCEPT !["channel"] = 1 - e.at["channel"]] \in [Fields -> Int]
    BY <1>5
  <2> QED BY <1>1, <2>1 DEF TraceEvents
<1>9. [e EXCEPT !.id = @ + 100] \in TraceEvents
  <2>1. e.id + 100 \in Int
    BY <1>5
  <2> QED BY <1>1, <2>1 DEF TraceEvents
<1>10. bad \in {RemoveAt(ev, i), Append(ev, e), Replaced(ev, i, Later(d, e)),
                Replaced(ev, i, [e EXCEPT !.payload = <<ZeroByte>> \o @]),
                Replaced(ev, i, [e EXCEPT !.at["channel"] = 1 - @]),
                Append(ev, [e EXCEPT !.id = @ + 100])}
  BY DEF Damaged, e
<1> QED BY <1>1, <1>2, <1>3, <1>4, <1>6, <1>7, <1>8, <1>9, <1>10

\* No damage to an event of a valid trace is accepted.
LEMMA DamageSeen ==
  ASSUME NEW d \in DfiOptions, NEW commands \in Seq(TracedCommands),
         NEW ev \in Seq(TraceEvents), ValidTrace(d, commands, ev), NEW i \in DOMAIN ev,
         NEW bad \in Damaged(d, ev, i)
  PROVE  ~ValidTrace(d, commands, bad)
<1> SUFFICES ASSUME ValidTrace(d, commands, bad)
             PROVE  FALSE
  OBVIOUS
<1> DEFINE e == ev[i]
           n == Len(ev)
<1>1. n \in Nat /\ DOMAIN ev = 1 .. n /\ i \in 1 .. n /\ e \in TraceEvents
  BY ElementOfSeq, LenProperties
<1>2. /\ \A j \in 1 .. n : Expects(d, commands, LookedAt(ev[j]))
      /\ \A x : Expects(d, commands, x) => \E j \in 1 .. n : LookedAt(ev[j]) = x
      /\ \A j \in 1 .. n : \A k \in 1 .. n : LookedAt(ev[j]) = LookedAt(ev[k]) => j = k
  BY <1>1, ValidTracesAreComplete
<1>3. bad \in Seq(TraceEvents)
  BY DamagedTyped
<1>4. /\ \A j \in DOMAIN bad : Expects(d, commands, LookedAt(bad[j]))
      /\ \A x : Expects(d, commands, x) => \E j \in DOMAIN bad : LookedAt(bad[j]) = x
      /\ \A j \in DOMAIN bad : \A k \in DOMAIN bad : LookedAt(bad[j]) = LookedAt(bad[k]) => j = k
  BY <1>3, ValidTracesAreComplete
<1>5. Expects(d, commands, LookedAt(e))
  BY <1>1, <1>2
<1>6. PICK j \in DOMAIN bad : LookedAt(bad[j]) = LookedAt(e)
  BY <1>4, <1>5
<1>7. ASSUME bad = RemoveAt(ev, i)
      PROVE  FALSE
  <2> DEFINE s == SubSeq(ev, 1, i - 1)
             t == SubSeq(ev, i + 1, n)
  <2>1. /\ s \in Seq(TraceEvents) /\ Len(s) = i - 1
        /\ \A k \in 1 .. i - 1 : s[k] = ev[k]
        /\ t \in Seq(TraceEvents) /\ Len(t) = n - i
        /\ \A k \in 1 .. n - i : t[k] = ev[i + k]
    BY <1>1, SMTT(30)
  <2>2. bad = s \o t
    BY <1>7 DEF RemoveAt
  <2> HIDE DEF s, t
  <2>3. /\ DOMAIN bad = 1 .. Len(s) + Len(t)
        /\ \A k \in 1 .. Len(s) + Len(t) :
             bad[k] = IF k <= Len(s) THEN s[k] ELSE t[k - Len(s)]
    BY <2>1, <2>2, ConcatProperties, LenProperties, SMTT(30)
  <2>4. j \in 1 .. n - 1 /\ bad[j] = IF j < i THEN ev[j] ELSE ev[j + 1]
    <3>1. j \in 1 .. (i - 1) + (n - i)
      BY <1>6, <2>1, <2>3
    <3>2. j \in 1 .. n - 1
      BY <1>1, <3>1
    <3>3. bad[j] = IF j <= i - 1 THEN s[j] ELSE t[j - (i - 1)]
      BY <2>1, <2>3, <3>1
    <3>4. CASE j < i
      <4>1. j \in 1 .. i - 1 /\ j <= i - 1
        BY <1>1, <3>2, <3>4
      <4> QED BY <2>1, <3>2, <3>3, <3>4, <4>1
    <3>5. CASE ~(j < i)
      <4>1. j - (i - 1) \in 1 .. n - i /\ ~(j <= i - 1) /\ i + (j - (i - 1)) = j + 1
        BY <1>1, <3>2, <3>5
      <4> QED BY <2>1, <3>2, <3>3, <3>5, <4>1
    <3> QED BY <3>4, <3>5
  <2>5. CASE j < i
    <3>1. j \in 1 .. n /\ LookedAt(ev[j]) = LookedAt(ev[i])
      BY <1>1, <1>6, <2>4, <2>5
    <3> QED BY <1>1, <1>2, <2>5, <3>1
  <2>6. CASE ~(j < i)
    <3>1. j + 1 \in 1 .. n /\ LookedAt(ev[j + 1]) = LookedAt(ev[i])
      BY <1>1, <1>6, <2>4, <2>6
    <3>2. j + 1 = i
      BY <1>1, <1>2, <3>1
    <3> QED BY <1>1, <2>4, <2>6, <3>2
  <2> QED BY <2>5, <2>6
<1>8. ASSUME NEW x \in TraceEvents, bad = Append(ev, x)
      PROVE  FALSE
  <2>1. /\ DOMAIN bad = 1 .. n + 1 /\ bad[n + 1] = x
        /\ \A k \in 1 .. n : bad[k] = ev[k]
    BY <1>1, <1>8, AppendProperties, LenProperties
  <2>2. Expects(d, commands, LookedAt(x)) /\ n + 1 \in 1 .. n + 1
    BY <1>1, <1>4, <2>1
  <2>3. PICK k \in 1 .. n : LookedAt(ev[k]) = LookedAt(x)
    BY <1>2, <2>2
  <2>4. k \in 1 .. n + 1 /\ LookedAt(bad[k]) = LookedAt(bad[n + 1])
    BY <1>1, <2>1, <2>3
  <2>5. k = n + 1
    BY <1>4, <2>1, <2>2, <2>4
  <2> QED BY <1>1, <2>3, <2>5
<1>9. ASSUME NEW x, LookedAt(x) # LookedAt(e), bad = Replaced(ev, i, x)
      PROVE  FALSE
  <2>1. DOMAIN bad = 1 .. n /\ bad[i] = x /\ \A k \in 1 .. n : k # i => bad[k] = ev[k]
    BY <1>1, <1>9 DEF Replaced
  <2>2. j # i /\ j \in 1 .. n /\ LookedAt(ev[j]) = LookedAt(ev[i])
    BY <1>6, <1>9, <2>1
  <2> QED BY <1>1, <1>2, <2>2
<1> HIDE DEF e
<1>10. /\ e.cycle \in Int /\ e.payload \in Seq(Byte) /\ e.at \in [Fields -> Int] /\ e.id \in Int
       /\ "channel" \in Fields
  BY <1>1 DEF TraceEvents, Fields
<1>11. LookedAt(Later(d, e)) # LookedAt(e)
  <2> DEFINE x == Later(d, e)
  <2>1. x \in TraceEvents /\ x.cycle = e.cycle + 1
    <3>1. e.cycle + 1 \in Int /\ (e.cycle + 1) % d.phases \in Int /\ d.phases \in Nat \ {0}
      BY <1>10 DEF DfiOptions
    <3> QED BY <1>1, <3>1 DEF Later, TraceEvents
  <2> HIDE DEF x
  <2>2. LookedAt(x).cycle = x.cycle /\ LookedAt(e).cycle = e.cycle
    BY <1>1, <2>1, LookedAtFields
  <2> QED BY <1>10, <2>1, <2>2 DEF x
<1>12. e.kind # "command" => LookedAt([e EXCEPT !.payload = <<ZeroByte>> \o @]) # LookedAt(e)
  <2> DEFINE longer == <<ZeroByte>> \o e.payload
             x == [e EXCEPT !.payload = longer]
  <2>1. longer \in Seq(Byte) /\ Len(longer) = 1 + Len(e.payload) /\ Len(e.payload) \in Nat
    <3>1. ZeroByte \in Byte
      BY DEF ZeroByte, Byte, Marks, None
    <3>2. <<ZeroByte>> \in Seq(Byte) /\ Len(<<ZeroByte>>) = 1
      BY <3>1
    <3> QED BY <1>10, <3>2, ConcatProperties, LenProperties
  <2>2. [e EXCEPT !.payload = <<ZeroByte>> \o @] = x
    OBVIOUS
  <2> HIDE DEF longer
  <2>3. longer # e.payload
    BY <2>1
  <2>4. x \in TraceEvents /\ x.payload = longer /\ x.kind = e.kind
    BY <1>1, <2>1 DEF TraceEvents
  <2> HIDE DEF x
  <2>5. e.kind # "command" => LookedAt(x) = x /\ LookedAt(e) = e
    BY <1>1, <2>4, LookedAtFields
  <2> QED BY <2>2, <2>3, <2>4, <2>5
<1>13. LookedAt([e EXCEPT !.at["channel"] = 1 - @]) # LookedAt(e)
  <2> DEFINE at == [e.at EXCEPT !["channel"] = 1 - e.at["channel"]]
             x == [e EXCEPT !.at = at]
  <2>1. [e EXCEPT !.at["channel"] = 1 - @] = x
    BY <1>1 DEF TraceEvents
  <2>2. at \in [Fields -> Int] /\ at["channel"] = 1 - e.at["channel"] /\ e.at["channel"] \in Int
    BY <1>10
  <2>3. at["channel"] # e.at["channel"]
    BY <2>2
  <2> HIDE DEF at
  <2>4. x \in TraceEvents /\ x.at = at
    BY <1>1, <2>2 DEF TraceEvents
  <2> HIDE DEF x
  <2>5. LookedAt(x).at = x.at /\ LookedAt(e).at = e.at
    BY <1>1, <2>4, LookedAtFields
  <2> QED BY <2>1, <2>3, <2>4, <2>5
<1>14. [e EXCEPT !.id = @ + 100] \in TraceEvents
  <2>1. e.id + 100 \in Int
    BY <1>10
  <2> QED BY <1>1, <2>1 DEF TraceEvents
<1>15. \/ bad \in {RemoveAt(ev, i), Append(ev, e), Replaced(ev, i, Later(d, e)),
                   Replaced(ev, i, [e EXCEPT !.at["channel"] = 1 - @]),
                   Append(ev, [e EXCEPT !.id = @ + 100])}
       \/ e.kind # "command" /\ bad = Replaced(ev, i, [e EXCEPT !.payload = <<ZeroByte>> \o @])
  BY DEF Damaged, e
<1> QED BY <1>1, <1>7, <1>8, <1>9, <1>11, <1>12, <1>13, <1>14, <1>15

-----------------------------------------------------------------------------
(* The trace that is built *)

\* Bytes b * n + 1 to (b + 1) * n of a payload, as many as there are.
LEMMA BeatRange ==
  ASSUME NEW len \in Nat, NEW n \in Nat \ {0}, NEW b \in Nat
  PROVE  /\ b * n \in Nat /\ (b + 1) * n = b * n + n
         /\ b < (len + n - 1) \div n => b * n < len
<1>1. b * n \in Nat /\ (b + 1) * n = b * n + n
  BY ProductNat
<1>2. ASSUME b < (len + n - 1) \div n
      PROVE  b * n < len
  <2> DEFINE q == (len + n - 1) \div n
  <2>1. len + n - 1 \in Nat
    OBVIOUS
  <2>2. q \in Nat /\ (len + n - 1) % n \in 0 .. n - 1
        /\ len + n - 1 = q * n + ((len + n - 1) % n)
    BY <2>1, Division
  <2>3. q \in Nat /\ b + 1 <= q
    BY <1>2, <2>2
  <2> HIDE DEF q
  <2>4. q * n \in Nat /\ (b + 1) * n <= q * n
    <3>1. q - (b + 1) \in Nat
      BY <2>3
    <3>2. (q - (b + 1)) * n \in Nat
      BY <3>1, ProductNat
    <3>3. q * n = (b + 1) * n + (q - (b + 1)) * n
      BY <2>3
    <3>4. (b + 1) * n \in Nat
      BY <1>1
    <3> QED BY <3>2, <3>3, <3>4
  <2> QED BY <1>1, <2>2, <2>4
<1> QED BY <1>1, <1>2

\* The bytes of a beat.
LEMMA BeatBytesTyped ==
  ASSUME NEW d \in DfiOptions, NEW c \in TracedCommands, NEW b \in Nat
  PROVE  /\ BeatBytes(d, c, b) \in Seq(Byte)
         /\ b < Beats(d, c) => Len(BeatBytes(d, c, b)) \in 1 .. d.beatBytes
<1> DEFINE n == d.beatBytes
           p == c.payload
           len == Len(p)
<1>1. n \in Nat \ {0} /\ p \in Seq(Byte) /\ len \in Nat
  BY LenProperties DEF DfiOptions, TracedCommands
<1> HIDE DEF n, p, len
<1> DEFINE from == b * n + 1
           to == Min({len, (b + 1) * n})
<1>2. /\ b * n \in Nat /\ (b + 1) * n = b * n + n
      /\ b < (len + n - 1) \div n => b * n < len
  BY <1>1, BeatRange
<1>3. to = IF len <= (b + 1) * n THEN len ELSE (b + 1) * n
  BY <1>1, <1>2, MinPair
<1>4. from \in Nat /\ to \in Nat /\ 1 <= from /\ to <= len /\ to <= b * n + n
  BY <1>1, <1>2, <1>3
<1>5. BeatBytes(d, c, b) = SubSeq(p, from, to) /\ Beats(d, c) = (len + n - 1) \div n
  BY DEF BeatBytes, Beats, n, p, len
<1>6. b * n < len => b * n < to
  BY <1>1, <1>2, <1>3
<1> HIDE DEF from, to
<1>7. SubSeq(p, from, to) \in Seq(Byte)
      /\ Len(SubSeq(p, from, to)) = IF from <= to THEN to - from + 1 ELSE 0
  <2>1. \A k \in from .. to : k \in 1 .. Len(p)
    BY <1>1, <1>4 DEF len
  <2>2. \A k \in 1 .. Len(p) : p[k] \in Byte
    BY <1>1, ElementOfSeq
  <2> QED BY <1>1, <1>4, <2>1, <2>2
<1>8. b * n < to => from <= to /\ to - from + 1 \in 1 .. n
  BY <1>1, <1>2, <1>4 DEF from
<1>9. b < Beats(d, c) => Len(BeatBytes(d, c, b)) \in 1 .. n
  BY <1>2, <1>5, <1>6, <1>7, <1>8
<1> QED BY <1>5, <1>7, <1>9 DEF n

\* The events of a command.
LEMMA EventsTyped ==
  ASSUME NEW d \in DfiOptions, NEW c \in TracedCommands
  PROVE  /\ CommandEvent(d, c) \in TraceEvents /\ EventSound(d, CommandEvent(d, c))
         /\ \A b \in Nat : DataEvent(d, c, b) \in TraceEvents
         /\ \A b \in 0 .. Beats(d, c) - 1 : EventSound(d, DataEvent(d, c, b))
<1>1. /\ d.phases \in Nat \ {0} /\ d.beatBytes \in Nat \ {0} /\ d.tick \in Nat /\ d.latency \in Nat
      /\ c.cycle \in Nat /\ c.data \in Nat /\ c.address \in Int /\ c.system \in Int
      /\ c.id \in Nat /\ c.cmd \in Commands /\ c.stack \in Int /\ c.at \in [Fields -> Int]
  BY DEF DfiOptions, TracedCommands
<1>2. \A t \in Int : t % d.phases \in Int
  BY <1>1
<1>3. CommandEvent(d, c) \in TraceEvents
  <2>1. c.cycle % d.phases \in Int /\ c.cycle \in Int /\ c.id \in Int /\ <<>> \in Seq(Byte)
    BY <1>1, <1>2
  <2> QED BY <1>1, <2>1 DEF CommandEvent, EventOf, TraceEvents
<1>4. EventSound(d, CommandEvent(d, c))
  BY DEF EventSound, CommandEvent, EventOf
<1>5. FirstDataCycle(d, c) \in Int
  <2>1. d.latency * d.tick \in Nat
    BY <1>1, ProductNat
  <2> QED BY <1>1, <2>1 DEF FirstDataCycle
<1>6. Beats(d, c) \in Nat
  BY BeatsNat
<1>7. ASSUME NEW b \in Nat
      PROVE  /\ DataEvent(d, c, b) \in TraceEvents
             /\ b < Beats(d, c) => EventSound(d, DataEvent(d, c, b))
  <2> DEFINE kind == IF c.cmd \in ReadCommands THEN "read" ELSE "write"
             t == FirstDataCycle(d, c) + b * d.tick
             a == c.address + b * d.beatBytes
             s == c.system + b * d.beatBytes
             p == BeatBytes(d, c, b)
  <2>1. b * d.tick \in Nat /\ b * d.beatBytes \in Nat
    BY <1>1, ProductNat
  <2>2. t \in Int /\ a \in Int /\ s \in Int /\ kind \in {"read", "write"} /\ t % d.phases \in Int
    BY <1>1, <1>2, <1>5, <2>1
  <2>3. p \in Seq(Byte) /\ (b < Beats(d, c) => Len(p) \in 1 .. d.beatBytes)
    BY BeatBytesTyped
  <2>4. DataEvent(d, c, b) =
          [kind |-> kind, cycle |-> t, issued |-> c.cycle, id |-> c.id, cmd |-> c.cmd,
           stack |-> c.stack, at |-> c.at, phase |-> t % d.phases, address |-> a, system |-> s,
           beat |-> b, beats |-> Beats(d, c), payload |-> p]
    <3> DEFINE base == EventOf(d, c, kind, t)
    <3>1. DataEvent(d, c, b) =
            [base EXCEPT !.beat = b, !.beats = Beats(d, c),
              !.address = base.address + b * d.beatBytes,
              !.system = base.system + b * d.beatBytes, !.payload = p]
      BY DEF DataEvent
    <3>2. base =
            [kind |-> kind, cycle |-> t, issued |-> c.cycle, id |-> c.id, cmd |-> c.cmd,
             stack |-> c.stack, at |-> c.at, phase |-> t % d.phases, address |-> c.address,
             system |-> c.system, beat |-> 0, beats |-> 0, payload |-> <<>>]
      <4> HIDE DEF kind, t
      <4> QED BY DEF EventOf
    <3> DEFINE phase0 == t % d.phases
    <3> HIDE DEF base, kind, t, p, phase0
    <3>3. base =
            [kind |-> kind, cycle |-> t, issued |-> c.cycle, id |-> c.id, cmd |-> c.cmd,
             stack |-> c.stack, at |-> c.at, phase |-> phase0, address |-> c.address,
             system |-> c.system, beat |-> 0, beats |-> 0, payload |-> <<>>]
      BY <3>2 DEF phase0
    <3>4. base.address = c.address /\ base.system = c.system
      BY <3>3
    <3>5. DataEvent(d, c, b) =
            [base EXCEPT !.beat = b, !.beats = Beats(d, c), !.address = a, !.system = s,
                         !.payload = p]
      BY <3>1, <3>4
    <3> HIDE DEF a, s
    <3>6. DataEvent(d, c, b) =
            [kind |-> kind, cycle |-> t, issued |-> c.cycle, id |-> c.id, cmd |-> c.cmd,
             stack |-> c.stack, at |-> c.at, phase |-> phase0, address |-> a, system |-> s,
             beat |-> b, beats |-> Beats(d, c), payload |-> p]
      BY <3>3, <3>5, ZenonT(60)
    <3> QED BY <3>6 DEF phase0
  <2> HIDE DEF kind, t, a, s, p
  <2>5. DataEvent(d, c, b) \in TraceEvents
    <3>1. c.cycle \in Int /\ c.id \in Int /\ b \in Int /\ Beats(d, c) \in Int
      BY <1>1, <1>6
    <3> QED BY <1>1, <2>2, <2>3, <2>4, <3>1, SMTT(30) DEF TraceEvents
  <2>6. b < Beats(d, c) => EventSound(d, DataEvent(d, c, b))
    BY <2>2, <2>3, <2>4 DEF EventSound
  <2> QED BY <2>5, <2>6
<1>8. \A b \in 0 .. Beats(d, c) - 1 : b \in Nat /\ b < Beats(d, c)
  BY <1>6
<1> QED BY <1>3, <1>4, <1>7, <1>8

\* The beats of a command, and the events that are made of it.
BeatCount(d, c) == IF c.cmd \in DataCommands THEN Beats(d, c) ELSE 0
Group(d, c) == <<CommandEvent(d, c)>> \o DataEvents(d, c)

\* The events of command m follow off[m - 1] others.
PlacedIn(d, commands, ev, off) ==
  /\ ev \in Seq(TraceEvents)
  /\ \A m \in DOMAIN commands :
       /\ off[m - 1] \in Nat
       /\ off[m - 1] + 1 + BeatCount(d, commands[m]) <= Len(ev)
       /\ ev[off[m - 1] + 1] = CommandEvent(d, commands[m])
       /\ \A b \in 1 .. BeatCount(d, commands[m]) :
            ev[off[m - 1] + 1 + b] = DataEvent(d, commands[m], b - 1)
  /\ \A k \in DOMAIN ev : \E m \in DOMAIN commands :
       \E b \in 0 .. BeatCount(d, commands[m]) : k = off[m - 1] + 1 + b

\* The events that are made of a command.
LEMMA GroupIs ==
  ASSUME NEW d \in DfiOptions, NEW c \in TracedCommands
  PROVE  /\ Group(d, c) \in Seq(TraceEvents) /\ BeatCount(d, c) \in Nat
         /\ Len(Group(d, c)) = 1 + BeatCount(d, c)
         /\ Group(d, c)[1] = CommandEvent(d, c)
         /\ \A b \in 1 .. BeatCount(d, c) : Group(d, c)[1 + b] = DataEvent(d, c, b - 1)
<1> DEFINE n == BeatCount(d, c)
           s == <<CommandEvent(d, c)>>
           t == DataEvents(d, c)
<1>1. n \in Nat
  BY BeatsNat DEF BeatCount
<1>2. /\ CommandEvent(d, c) \in TraceEvents
      /\ \A b \in Nat : DataEvent(d, c, b) \in TraceEvents
  BY EventsTyped
<1>3. t \in Seq(TraceEvents) /\ Len(t) = n /\ \A b \in 1 .. n : t[b] = DataEvent(d, c, b - 1)
  <2>1. CASE c.cmd \in DataCommands
    <3>1. t = [i \in 1 .. n |-> DataEvent(d, c, i - 1)]
      BY <2>1 DEF DataEvents, BeatCount
    <3> HIDE DEF n, t
    <3>2. \A i \in 1 .. n : DataEvent(d, c, i - 1) \in TraceEvents
      <4>1. \A i \in 1 .. n : i - 1 \in Nat
        BY <1>1
      <4> QED BY <1>2, <4>1
    <3>3. t \in [1 .. n -> TraceEvents]
      BY <3>1, <3>2
    <3>4. t \in Seq(TraceEvents) /\ Len(t) = n
      BY <1>1, <3>3, LenProperties, SeqDef
    <3> QED BY <3>1, <3>4
  <2>2. CASE c.cmd \notin DataCommands
    <3>1. t = <<>> /\ n = 0
      BY <2>2 DEF DataEvents, BeatCount
    <3> HIDE DEF n, t
    <3> QED BY <3>1
  <2> QED BY <2>1, <2>2
<1>4. s \in Seq(TraceEvents) /\ Len(s) = 1 /\ s[1] = CommandEvent(d, c)
  BY <1>2
<1>5. Group(d, c) = s \o t
  BY DEF Group
<1> HIDE DEF n, s, t
<1>6. /\ s \o t \in Seq(TraceEvents) /\ Len(s \o t) = Len(s) + Len(t)
      /\ \A k \in 1 .. Len(s) : (s \o t)[k] = s[k]
      /\ \A j \in 1 .. Len(t) : (s \o t)[Len(s) + j] = t[j]
  <2>1. s \in Seq(TraceEvents) /\ t \in Seq(TraceEvents)
    BY <1>3, <1>4
  <2> QED BY <2>1, BothInOrder
<1> QED BY <1>1, <1>3, <1>4, <1>5, <1>6 DEF n

\* The events of the commands, command by command.
LEMMA TraceBuilt ==
  ASSUME NEW d \in DfiOptions, NEW commands \in Seq(TracedCommands)
  PROVE  \E off : PlacedIn(d, commands, BuildTrace(d, commands), off)
<1> DEFINE ss == [i \in DOMAIN commands |-> Group(d, commands[i])]
           ev == BuildTrace(d, commands)
<1>1. /\ Len(commands) \in Nat /\ DOMAIN commands = 1 .. Len(commands)
      /\ \A m \in DOMAIN commands : commands[m] \in TracedCommands
  BY ElementOfSeq, LenProperties
<1>2. \A m \in DOMAIN commands :
        /\ Group(d, commands[m]) \in Seq(TraceEvents)
        /\ BeatCount(d, commands[m]) \in Nat
        /\ Len(Group(d, commands[m])) = 1 + BeatCount(d, commands[m])
        /\ Group(d, commands[m])[1] = CommandEvent(d, commands[m])
        /\ \A b \in 1 .. BeatCount(d, commands[m]) :
             Group(d, commands[m])[1 + b] = DataEvent(d, commands[m], b - 1)
  BY <1>1, GroupIs
<1>3. ev = FlattenSeq(ss)
  BY DEF BuildTrace, Group
<1>4. /\ ss \in [1 .. Len(commands) -> Seq(TraceEvents)]
      /\ \A m \in DOMAIN commands : ss[m] = Group(d, commands[m])
  BY <1>1, <1>2
<1> HIDE DEF ss, ev
<1>5. ss \in Seq(Seq(TraceEvents)) /\ Len(ss) = Len(commands) /\ DOMAIN ss = DOMAIN commands
  BY <1>1, <1>4, SeqDef, LenProperties
<1>6. PICK off : Sums(off, ss)
  BY <1>5, SumsExist
<1>7. ev \in Seq(TraceEvents) /\ Flat(ev, ss, off, Len(commands))
  BY <1>3, <1>5, <1>6, FlattenSeqIsFlat
<1>8. /\ Len(ev) = off[Len(commands)]
      /\ \A m \in DOMAIN commands : \A j \in 1 .. Len(ss[m]) : ev[off[m - 1] + j] = ss[m][j]
  BY <1>1, <1>7 DEF Flat
<1>9. ASSUME NEW m \in DOMAIN commands
      PROVE  /\ off[m - 1] \in Nat
             /\ off[m - 1] + 1 + BeatCount(d, commands[m]) <= Len(ev)
             /\ ev[off[m - 1] + 1] = CommandEvent(d, commands[m])
             /\ \A b \in 1 .. BeatCount(d, commands[m]) :
                  ev[off[m - 1] + 1 + b] = DataEvent(d, commands[m], b - 1)
  <2> DEFINE n == BeatCount(d, commands[m])
             o == off[m - 1]
  <2>1. m \in 1 .. Len(ss)
    BY <1>1, <1>5
  <2>2. off[m] = o + Len(ss[m]) /\ off[m] \in Nat /\ o \in Nat
    BY <1>5, <1>6, <2>1, SumsAt
  <2>3. n \in Nat /\ Len(ss[m]) = 1 + n
    BY <1>2, <1>4
  <2>4. off[m] <= off[Len(ss)]
    <3>1. Len(ss) \in 0 .. Len(ss) /\ m \in 0 .. Len(ss)
      BY <1>1, <1>5, <2>1
    <3> QED BY <1>5, <1>6, <3>1, SumsGrow
  <2>5. off[Len(ss)] = Len(ev) /\ Len(ev) \in Nat
    BY <1>5, <1>7, <1>8, LenProperties
  <2>6. ev[o + 1] = ss[m][1]
    <3>1. 1 \in 1 .. Len(ss[m])
      BY <2>3
    <3> QED BY <1>8, <3>1
  <2>7. ASSUME NEW b \in 1 .. n
        PROVE  ev[o + 1 + b] = ss[m][1 + b]
    <3> HIDE DEF n, o
    <3>1. 1 + b \in 1 .. Len(ss[m]) /\ o + (1 + b) = o + 1 + b
      BY <2>2, <2>3
    <3> USE DEF n, o
    <3> QED BY <1>8, <3>1
  <2>8. o + 1 + n <= Len(ev)
    <3> HIDE DEF o, n
    <3> QED BY <2>2, <2>3, <2>4, <2>5
  <2> QED BY <1>2, <1>4, <2>2, <2>6, <2>7, <2>8
<1>10. ASSUME NEW k \in DOMAIN ev
       PROVE  \E m \in DOMAIN commands :
                \E b \in 0 .. BeatCount(d, commands[m]) : k = off[m - 1] + 1 + b
  <2>1. k \in 1 .. off[Len(ss)]
    BY <1>5, <1>7, <1>8, LenProperties
  <2>2. PICK m \in DOMAIN ss : \E j \in 1 .. Len(ss[m]) : k = off[m - 1] + j
    <3>1. ss \in Seq(Seq(TraceEvents)) /\ Sums(off, ss)
      BY <1>5, <1>6
    <3>2. \A x \in 1 .. off[Len(ss)] :
            \E m \in DOMAIN ss : \E j \in 1 .. Len(ss[m]) : x = off[m - 1] + j
      BY <3>1, PlacesFound
    <3> QED BY <2>1, <3>2
  <2>3. PICK j \in 1 .. Len(ss[m]) : k = off[m - 1] + j
    BY <2>2
  <2>4. m \in DOMAIN commands /\ Len(ss[m]) = 1 + BeatCount(d, commands[m])
        /\ BeatCount(d, commands[m]) \in Nat /\ off[m - 1] \in Nat
    BY <1>2, <1>4, <1>5, <1>9
  <2>5. j - 1 \in 0 .. BeatCount(d, commands[m]) /\ k = off[m - 1] + 1 + (j - 1)
    BY <2>3, <2>4
  <2> QED BY <2>4, <2>5
<1>11. PlacedIn(d, commands, ev, off)
  BY <1>7, <1>9, <1>10 DEF PlacedIn
<1> QED BY <1>11 DEF ev

\* A command is told from the others by its key.
DistinctKeys(commands) ==
  \A m \in DOMAIN commands : \A k \in DOMAIN commands :
    CommandKey(commands[m]) = CommandKey(commands[k]) => m = k

\* The trace that is built of commands with keys of their own is accepted when the
\* reads have the bytes they expect (build_dfi_trace(), validate_dfi_trace()).
THEOREM BuiltTracesAreValid ==
  ASSUME NEW d \in DfiOptions, NEW commands \in Seq(TracedCommands), DistinctKeys(commands),
         \A m \in DOMAIN commands :
           commands[m].cmd \in DataCommands => ExpectationMet(commands[m])
  PROVE  ValidTrace(d, commands, BuildTrace(d, commands))
<1> DEFINE ev == BuildTrace(d, commands)
           n(m) == BeatCount(d, commands[m])
<1>1. PICK off : PlacedIn(d, commands, ev, off)
  BY TraceBuilt
<1> HIDE DEF ev
<1>2. /\ ev \in Seq(TraceEvents) /\ Len(ev) \in Nat /\ DOMAIN ev = 1 .. Len(ev)
      /\ \A m \in DOMAIN commands : commands[m] \in TracedCommands
  BY <1>1, ElementOfSeq, LenProperties DEF PlacedIn
<1>3. \A m \in DOMAIN commands : n(m) \in Nat /\ (commands[m].cmd \in DataCommands => n(m) = Beats(d, commands[m]))
  BY <1>2, GroupIs DEF BeatCount
\* What is at each place.
<1>4. ASSUME NEW m \in DOMAIN commands
      PROVE  /\ off[m - 1] \in Nat /\ off[m - 1] + 1 \in DOMAIN ev
             /\ ev[off[m - 1] + 1] = CommandEvent(d, commands[m])
             /\ \A b \in 1 .. n(m) : /\ off[m - 1] + 1 + b \in DOMAIN ev
                                     /\ ev[off[m - 1] + 1 + b] = DataEvent(d, commands[m], b - 1)
  <2>1. /\ off[m - 1] \in Nat /\ off[m - 1] + 1 + n(m) <= Len(ev)
        /\ ev[off[m - 1] + 1] = CommandEvent(d, commands[m])
        /\ \A b \in 1 .. n(m) : ev[off[m - 1] + 1 + b] = DataEvent(d, commands[m], b - 1)
    BY <1>1 DEF PlacedIn
  <2>2. n(m) \in Nat
    BY <1>3
  <2> HIDE DEF n
  <2>3. off[m - 1] + 1 \in 1 .. Len(ev) /\ \A b \in 1 .. n(m) : off[m - 1] + 1 + b \in 1 .. Len(ev)
    BY <1>2, <2>1, <2>2, SMTT(30)
  <2> QED BY <1>2, <2>1, <2>3
<1>5. ASSUME NEW k \in DOMAIN ev
      PROVE  \E m \in DOMAIN commands :
               \/ /\ k = off[m - 1] + 1 /\ ev[k] = CommandEvent(d, commands[m])
               \/ /\ commands[m].cmd \in DataCommands
                  /\ \E b \in 1 .. n(m) : /\ k = off[m - 1] + 1 + b
                                          /\ ev[k] = DataEvent(d, commands[m], b - 1)
  <2>1. PICK m \in DOMAIN commands : \E b \in 0 .. n(m) : k = off[m - 1] + 1 + b
    BY <1>1 DEF PlacedIn
  <2>2. PICK b \in 0 .. n(m) : k = off[m - 1] + 1 + b
    BY <2>1
  <2>3. n(m) \in Nat /\ off[m - 1] \in Nat
    BY <1>3, <1>4
  <2>4. CASE b = 0
    <3>1. k = off[m - 1] + 1
      BY <2>2, <2>3, <2>4
    <3> QED BY <1>4, <3>1
  <2>5. CASE b # 0
    <3>1. b \in 1 .. n(m)
      BY <2>3, <2>5
    <3>2. commands[m].cmd \in DataCommands
      BY <3>1 DEF BeatCount
    <3> HIDE DEF n
    <3> QED BY <1>4, <2>2, <3>1, <3>2
  <2> QED BY <2>4, <2>5
\* Every event is sound and of a command.
<1>6. ASSUME NEW k \in DOMAIN ev
      PROVE  EventSound(d, ev[k]) /\ ~Orphan(commands, ev[k])
  <2>1. PICK m \in DOMAIN commands :
           \/ /\ k = off[m - 1] + 1 /\ ev[k] = CommandEvent(d, commands[m])
           \/ /\ commands[m].cmd \in DataCommands
              /\ \E b \in 1 .. n(m) : /\ k = off[m - 1] + 1 + b
                                      /\ ev[k] = DataEvent(d, commands[m], b - 1)
    BY <1>5
  <2> DEFINE c == commands[m]
  <2>2. c \in TracedCommands
    BY <1>2
  <2> HIDE DEF c
  <2>3. CASE ev[k] = CommandEvent(d, c)
    <3>1. EventSound(d, CommandEvent(d, c))
      BY <2>2, EventsTyped
    <3>2. CommandEvent(d, c).kind = "command" /\ EventKey(CommandEvent(d, c)) = CommandKey(c)
      BY EventFields
    <3>3. ~Orphan(commands, ev[k])
      BY <2>3, <3>2 DEF Orphan, c
    <3> QED BY <2>3, <3>1, <3>3
  <2>4. CASE c.cmd \in DataCommands /\ \E b \in 1 .. n(m) : ev[k] = DataEvent(d, c, b - 1)
    <3>1. PICK b \in 1 .. n(m) : ev[k] = DataEvent(d, c, b - 1)
      BY <2>4
    <3>2. b - 1 \in 0 .. Beats(d, c) - 1
      <4>1. n(m) \in Nat /\ n(m) = Beats(d, c)
        BY <1>3, <2>4 DEF c
      <4> HIDE DEF n
      <4> QED BY <4>1
    <3>3. EventSound(d, ev[k])
      BY <2>2, <3>1, <3>2, EventsTyped
    <3>4. EventKey(DataEvent(d, c, b - 1)) = CommandKey(c)
      BY EventFields
    <3>5. ~Orphan(commands, ev[k])
      BY <2>4, <3>1, <3>4 DEF Orphan, c
    <3> QED BY <3>3, <3>5
  <2> QED BY <2>1, <2>3, <2>4 DEF c
\* Where the events of a command are found.
<1>7. ASSUME NEW m \in DOMAIN commands
      PROVE  /\ EventsOf(ev, commands[m], {"command"}) = {off[m - 1] + 1}
             /\ commands[m].cmd \in DataCommands =>
                  EventsOf(ev, commands[m], {"read", "write"}) = off[m - 1] + 2 .. off[m - 1] + 1 + n(m)
  <2> DEFINE c == commands[m]
             o == off[m - 1]
  <2>1. ASSUME NEW k \in DOMAIN ev, EventKey(ev[k]) = CommandKey(c)
        PROVE  \/ k = o + 1 /\ ev[k].kind = "command"
               \/ /\ ev[k].kind \in {"read", "write"}
                  /\ \E b \in 1 .. n(m) : k = o + 1 + b
    <3>1. PICK p \in DOMAIN commands :
           \/ /\ k = off[p - 1] + 1 /\ ev[k] = CommandEvent(d, commands[p])
           \/ /\ commands[p].cmd \in DataCommands
              /\ \E b \in 1 .. n(p) : /\ k = off[p - 1] + 1 + b
                                      /\ ev[k] = DataEvent(d, commands[p], b - 1)
      BY <1>5
    <3>2. /\ CommandEvent(d, commands[p]).kind = "command"
          /\ EventKey(CommandEvent(d, commands[p])) = CommandKey(commands[p])
          /\ \A b : DataEvent(d, commands[p], b).kind \in {"read", "write"}
          /\ \A b : EventKey(DataEvent(d, commands[p], b)) = CommandKey(commands[p])
      BY EventFields
    <3>3. CommandKey(commands[p]) = CommandKey(commands[m])
      <4> HIDE DEF n
      <4> QED BY <2>1, <3>1, <3>2
    <3>4. p = m
      BY <3>3 DEF DistinctKeys
    <3> HIDE DEF n
    <3> QED BY <3>1, <3>2, <3>4
  <2>2. /\ o \in Nat /\ o + 1 \in DOMAIN ev /\ ev[o + 1].kind = "command"
        /\ EventKey(ev[o + 1]) = CommandKey(c)
    BY <1>4, EventFields
  <2>3. \A b \in 1 .. n(m) :
          /\ o + 1 + b \in DOMAIN ev /\ ev[o + 1 + b].kind \in {"read", "write"}
          /\ EventKey(ev[o + 1 + b]) = CommandKey(c)
    <3>1. \A b \in 1 .. n(m) :
            o + 1 + b \in DOMAIN ev /\ ev[o + 1 + b] = DataEvent(d, c, b - 1)
      BY <1>4
    <3>2. \A b : /\ DataEvent(d, c, b).kind \in {"read", "write"}
                 /\ EventKey(DataEvent(d, c, b)) = CommandKey(c)
      BY EventFields
    <3> HIDE DEF n, c
    <3> QED BY <3>1, <3>2
  <2>4. n(m) \in Nat
    BY <1>3
  <2> HIDE DEF c, o, n
  <2>5. EventsOf(ev, c, {"command"}) = {o + 1}
    <3>1. ASSUME NEW k \in EventsOf(ev, c, {"command"})
          PROVE  k = o + 1
      <4>1. k \in DOMAIN ev /\ ev[k].kind = "command" /\ EventKey(ev[k]) = CommandKey(c)
        BY DEF EventsOf
      <4> QED BY <2>1, <4>1
    <3>2. o + 1 \in EventsOf(ev, c, {"command"})
      BY <2>2 DEF EventsOf
    <3> QED BY <3>1, <3>2
  <2>6. EventsOf(ev, c, {"read", "write"}) = o + 2 .. o + 1 + n(m)
    <3>1. ASSUME NEW k \in EventsOf(ev, c, {"read", "write"})
          PROVE  k \in o + 2 .. o + 1 + n(m)
      <4>1. k \in DOMAIN ev /\ ev[k].kind \in {"read", "write"} /\ EventKey(ev[k]) = CommandKey(c)
        BY DEF EventsOf
      <4>2. \E b \in 1 .. n(m) : k = o + 1 + b
        BY <2>1, <4>1
      <4> QED BY <2>2, <2>4, <4>2
    <3>2. ASSUME NEW k \in o + 2 .. o + 1 + n(m)
          PROVE  k \in EventsOf(ev, c, {"read", "write"})
      <4>1. k - (o + 1) \in 1 .. n(m) /\ k = o + 1 + (k - (o + 1))
        BY <2>2, <2>4
      <4>2. k \in DOMAIN ev /\ ev[k].kind \in {"read", "write"} /\ EventKey(ev[k]) = CommandKey(c)
        BY <2>3, <4>1
      <4> QED BY <4>2 DEF EventsOf
    <3> QED BY <3>1, <3>2
  <2> QED BY <2>5, <2>6 DEF c, o
\* So every command is seen.
<1>8. ASSUME NEW m \in DOMAIN commands
      PROVE  /\ CommandSeen(d, ev, commands[m])
             /\ commands[m].cmd \in DataCommands => BeatsSeen(d, ev, commands[m])
  <2> DEFINE c == commands[m]
             o == off[m - 1]
  <2>1. /\ o \in Nat /\ ev[o + 1] = CommandEvent(d, c)
        /\ \A b \in 1 .. n(m) : ev[o + 1 + b] = DataEvent(d, c, b - 1)
    BY <1>4
  <2>2. n(m) \in Nat /\ (c.cmd \in DataCommands => n(m) = Beats(d, c))
    BY <1>3
  <2>3. /\ EventsOf(ev, c, {"command"}) = {o + 1}
        /\ c.cmd \in DataCommands => EventsOf(ev, c, {"read", "write"}) = o + 2 .. o + 1 + n(m)
    BY <1>7
  <2> HIDE DEF c, o, n
  <2>4. CommandSeen(d, ev, c)
    <3>1. Cardinality({o + 1}) = 1
      BY FS_Singleton
    <3> QED BY <2>1, <2>3, <3>1 DEF CommandSeen
  <2>5. ASSUME c.cmd \in DataCommands
        PROVE  BeatsSeen(d, ev, c)
    <3> DEFINE all == o + 2 .. o + 1 + n(m)
    <3>1. Cardinality(all) = n(m)
      <4> DEFINE a == o + 2
                 z == o + 1 + n(m)
      <4>1. a \in Int /\ z \in Int
        BY <2>1, <2>2
      <4>2. all = a .. z /\ z - a + 1 = n(m) /\ (a > z => n(m) = 0)
        BY <2>1, <2>2
      <4> HIDE DEF all, a, z
      <4>3. Cardinality(a .. z) = IF a > z THEN 0 ELSE z - a + 1
        BY <4>1, FS_Interval
      <4> QED BY <4>2, <4>3
    <3>2. ASSUME NEW b \in 0 .. Beats(d, c) - 1
          PROVE  \E i \in all : ev[i] = DataEvent(d, c, b)
      <4>1. b + 1 \in 1 .. n(m) /\ (b + 1) - 1 = b /\ o + 1 + (b + 1) \in all
        BY <2>1, <2>2, <2>5
      <4> HIDE DEF all
      <4> QED BY <2>1, <4>1
    <3> HIDE DEF all
    <3>3. EventsOf(ev, c, {"read", "write"}) = all
      BY <2>3, <2>5 DEF all
    <3> QED BY <2>2, <2>5, <3>1, <3>2, <3>3 DEF BeatsSeen
  <2> QED BY <2>4, <2>5 DEF c
<1>9. ValidTrace(d, commands, ev)
  BY <1>6, <1>8 DEF ValidTrace
<1> QED BY <1>9 DEF ev

-----------------------------------------------------------------------------
(* The commands of a run, merged *)

\* A finite set has finite images.
LEMMA ImagesFinite ==
  ASSUME NEW S, IsFiniteSet(S), NEW f
  PROVE  IsFiniteSet({f[x] : x \in S})
<1> DEFINE T == {f[x] : x \in S}
           g == [x \in S |-> f[x]]
<1>1. g \in [S -> T]
  OBVIOUS
<1>2. \A y \in T : \E x \in S : g[x] = y
  OBVIOUS
<1> HIDE DEF g, T
<1>3. g \in Surjection(S, T)
  BY <1>1, <1>2 DEF Surjection
<1>4. IsFiniteSet(T)
  BY <1>3, FS_Surjection
<1> QED BY <1>4 DEF T

\* A command of the merged trace, and the place it has in its controller.
LEMMA MergedFrom ==
  ASSUME FrontendTyped
  PROVE  /\ \A e \in Merged : \E c \in Controllers : \E i \in 1 .. Len(log[c]) : e = Restored(c, i)
         /\ \A c \in Controllers : \A i \in 1 .. Len(log[c]) :
              /\ Restored(c, i) \in Merged /\ Restored(c, i) \in TracedCommands
              /\ Restored(c, i).position = <<c, i>> /\ Restored(c, i).stack = StackOf(c)
              /\ Restored(c, i).at["channel"] = ChannelOf(c)
              /\ Restored(c, i).cmd = log[c][i].cmd /\ Restored(c, i).cycle = log[c][i].cycle
              /\ Restored(c, i).payload = log[c][i].payload
              /\ Restored(c, i).expected = log[c][i].expected
<1>1. \A c \in Controllers : log[c] \in Seq(Entries(setup)) /\ DOMAIN log[c] = 1 .. Len(log[c])
  BY LenProperties DEF FrontendTyped, LogTyped
<1>2. \A e \in Merged : \E c \in Controllers : \E i \in 1 .. Len(log[c]) : e = Restored(c, i)
  BY <1>1 DEF Merged
<1>3. ASSUME NEW c \in Controllers, NEW i \in 1 .. Len(log[c])
      PROVE  /\ Restored(c, i) \in Merged /\ Restored(c, i) \in TracedCommands
             /\ Restored(c, i).position = <<c, i>> /\ Restored(c, i).stack = StackOf(c)
             /\ Restored(c, i).at["channel"] = ChannelOf(c)
             /\ Restored(c, i).cmd = log[c][i].cmd /\ Restored(c, i).cycle = log[c][i].cycle
             /\ Restored(c, i).payload = log[c][i].payload
             /\ Restored(c, i).expected = log[c][i].expected
  <2> DEFINE e == log[c][i]
             at == [e.at EXCEPT !["channel"] = ChannelOf(c)]
  <2>1. e \in Entries(setup) /\ i \in DOMAIN log[c]
    BY <1>1, ElementOfSeq
  <2>2. Restored(c, i) \in Merged
    BY <2>1 DEF Merged
  <2>3. Legal(setup)
    BY SetupsAreLegal DEF FrontendTyped, SourceTyped
  <2>4. StackOf(c) \in Nat /\ ChannelOf(c) \in Nat /\ c \in Nat /\ i \in Nat
    BY <2>3, ControllersTyped DEF Stacks, Controllers
  <2>5. e.at \in [Fields -> Nat] /\ "channel" \in Fields
    BY <2>1 DEF Entries, Places, Fields
  <2>6. Restored(c, i) = [e EXCEPT !.at = at, !.stack = StackOf(c), !.position = <<c, i>>]
    BY DEF Restored
  <2>7. at \in [Fields -> Int] /\ at["channel"] = ChannelOf(c)
    BY <2>4, <2>5
  <2> HIDE DEF at, e
  <2> DEFINE place == <<c, i>>
  <2>8. Restored(c, i) \in TracedCommands
    <3>1. Restored(c, i) =
            [cycle |-> e.cycle, cmd |-> e.cmd, id |-> e.id, at |-> at, data |-> e.data,
             stack |-> StackOf(c), position |-> place, address |-> e.address,
             system |-> e.system, payload |-> e.payload, expected |-> e.expected,
             owed |-> e.owed]
      BY <2>1, <2>6 DEF Entries
    <3>2. place \in Nat \X Nat
      BY <2>4
    <3>3. StackOf(c) \in Int /\ e.address \in Int /\ e.system \in Int
      BY <2>1, <2>4 DEF Entries
    <3> HIDE DEF place
    <3> QED BY <2>1, <2>7, <3>1, <3>2, <3>3 DEF Entries, TracedCommands
  <2> QED BY <2>1, <2>2, <2>6, <2>7, <2>8 DEF Entries, e
<1> QED BY <1>2, <1>3

\* A controller is known by its stack and its channel.
LEMMA ControllerKnown ==
  ASSUME Legal(setup), NEW c \in Controllers, NEW b \in Controllers,
         StackOf(c) = StackOf(b), ChannelOf(c) = ChannelOf(b)
  PROVE  c = b
<1>1. /\ c = StackOf(c) * Channels + ChannelOf(c) + 1
      /\ b = StackOf(b) * Channels + ChannelOf(b) + 1
  BY ControllersTyped
<1> QED BY <1>1

\* There are finitely many of them.
LEMMA MergedFinite ==
  ASSUME FrontendTyped
  PROVE  IsFiniteSet(Merged)
<1> DEFINE f == [c \in Controllers |-> {Restored(c, i) : i \in DOMAIN log[c]}]
           T == {f[c] : c \in Controllers}
<1>1. IsFiniteSet(Controllers)
  <2>1. Legal(setup)
    BY SetupsAreLegal DEF FrontendTyped, SourceTyped
  <2>2. Channels \in Nat /\ setup.map.stacks \in Nat
    BY <2>1, ControllersTyped
  <2>3. 1 \in Int /\ setup.map.stacks * Channels \in Int
    BY <2>2, ProductNat
  <2> QED BY <2>3, FS_Interval DEF Controllers
<1>2. ASSUME NEW c \in Controllers
      PROVE  IsFiniteSet(f[c])
  <2> DEFINE g == [i \in DOMAIN log[c] |-> Restored(c, i)]
  <2>1. DOMAIN log[c] = 1 .. Len(log[c]) /\ Len(log[c]) \in Nat
    BY LenProperties DEF FrontendTyped, LogTyped
  <2>2. IsFiniteSet(DOMAIN log[c])
    <3>1. 1 \in Int /\ Len(log[c]) \in Int
      BY <2>1
    <3> QED BY <2>1, <3>1, FS_Interval
  <2>3. f[c] = {g[i] : i \in DOMAIN log[c]}
    OBVIOUS
  <2> HIDE DEF g, f
  <2> QED BY <2>2, <2>3, ImagesFinite
<1>3. Merged = UNION T
  BY DEF Merged
<1> HIDE DEF f
<1>4. IsFiniteSet(T)
  BY <1>1, ImagesFinite
<1>5. \A s \in T : IsFiniteSet(s)
  BY <1>2
<1> HIDE DEF T
<1> QED BY <1>3, <1>4, <1>5, FS_UNION

\* They are ordered.
LEMMA MergedOrdered ==
  ASSUME FrontendTyped
  PROVE  /\ \A a \in Merged : ~MergedBefore(a, a)
         /\ \A a \in Merged : \A b \in Merged : a # b => MergedBefore(a, b) \/ MergedBefore(b, a)
         /\ \A a \in Merged : \A b \in Merged : \A c \in Merged :
              MergedBefore(a, b) /\ MergedBefore(b, c) => MergedBefore(a, c)
<1>1. \A e \in Merged : /\ e.cycle \in Nat /\ e.position[1] \in Nat /\ e.position[2] \in Nat
  <2> TAKE e \in Merged
  <2>1. PICK c \in Controllers : \E i \in 1 .. Len(log[c]) : e = Restored(c, i)
    BY MergedFrom
  <2>2. PICK i \in 1 .. Len(log[c]) : e = Restored(c, i)
    BY <2>1
  <2>3. e \in TracedCommands
    BY <2>2, MergedFrom
  <2>4. e.cycle \in Nat /\ e.position \in Nat \X Nat
    BY <2>3 DEF TracedCommands
  <2> QED BY <2>4
<1>2. ASSUME NEW a \in Merged, NEW b \in Merged,
             a.position[1] = b.position[1], a.position[2] = b.position[2]
      PROVE  a = b
  <2>1. PICK c \in Controllers : \E i \in 1 .. Len(log[c]) : a = Restored(c, i)
    BY MergedFrom
  <2>2. PICK i \in 1 .. Len(log[c]) : a = Restored(c, i)
    BY <2>1
  <2>3. PICK d \in Controllers : \E j \in 1 .. Len(log[d]) : b = Restored(d, j)
    BY MergedFrom
  <2>4. PICK j \in 1 .. Len(log[d]) : b = Restored(d, j)
    BY <2>3
  <2>5. a.position = <<c, i>> /\ b.position = <<d, j>>
    BY <2>2, <2>4, MergedFrom
  <2>6. c = d /\ i = j
    BY <1>2, <2>5
  <2> QED BY <2>2, <2>4, <2>6
<1>3. \A a \in Merged : ~MergedBefore(a, a)
  BY <1>1 DEF MergedBefore
<1>4. \A a \in Merged : \A b \in Merged : a # b => MergedBefore(a, b) \/ MergedBefore(b, a)
  BY <1>1, <1>2 DEF MergedBefore
<1>5. \A a \in Merged : \A b \in Merged : \A c \in Merged :
        MergedBefore(a, b) /\ MergedBefore(b, c) => MergedBefore(a, c)
  BY <1>1 DEF MergedBefore
<1> QED BY <1>3, <1>4, <1>5

\* How many commands come before it.
Rank(e) == Cardinality({a \in Merged : MergedBefore(a, e)})

\* Every command has its place among them, and every place its command.
LEMMA RanksAreAll ==
  ASSUME FrontendTyped
  PROVE  /\ Cardinality(Merged) \in Nat
         /\ \A a \in Merged : Rank(a) \in 0 .. Cardinality(Merged) - 1
         /\ \A a \in Merged : \A b \in Merged : Rank(a) = Rank(b) => a = b
         /\ \A r \in 0 .. Cardinality(Merged) - 1 : \E a \in Merged : Rank(a) = r
<1> DEFINE n == Cardinality(Merged)
           Below(e) == {a \in Merged : MergedBefore(a, e)}
<1>1. IsFiniteSet(Merged) /\ n \in Nat
  BY MergedFinite, FS_CardinalityType
<1>2. ASSUME NEW e \in Merged
      PROVE  IsFiniteSet(Below(e)) /\ Rank(e) \in 0 .. n - 1
  <2>1. Below(e) \in SUBSET Merged /\ Below(e) # Merged
    BY MergedOrdered
  <2>2. IsFiniteSet(Below(e)) /\ Cardinality(Below(e)) <= n
        /\ (n = Cardinality(Below(e)) => Merged = Below(e))
    BY <1>1, <2>1, FS_Subset
  <2>3. Cardinality(Below(e)) \in Nat
    BY <2>2, FS_CardinalityType
  <2>4. Rank(e) = Cardinality(Below(e))
    BY DEF Rank
  <2> HIDE DEF Below, n
  <2> QED BY <1>1, <2>1, <2>2, <2>3, <2>4
<1>3. ASSUME NEW a \in Merged, NEW b \in Merged, MergedBefore(a, b)
      PROVE  Rank(a) # Rank(b)
  <2>1. Below(a) \in SUBSET Below(b) /\ a \in Below(b) /\ a \notin Below(a)
    BY <1>3, MergedOrdered
  <2>2. IsFiniteSet(Below(b))
    BY <1>2
  <2>3. Cardinality(Below(b)) = Cardinality(Below(a)) => Below(b) = Below(a)
    BY <2>1, <2>2, FS_Subset
  <2>4. Rank(a) = Cardinality(Below(a)) /\ Rank(b) = Cardinality(Below(b))
    BY DEF Rank
  <2> HIDE DEF Below
  <2> QED BY <2>1, <2>3, <2>4
<1>4. \A a \in Merged : \A b \in Merged : Rank(a) = Rank(b) => a = b
  BY <1>3, MergedOrdered
<1> DEFINE f == [a \in Merged |-> Rank(a)]
           T == 0 .. n - 1
<1>5. IsFiniteSet(T) /\ Cardinality(T) = n
  <2> DEFINE z == n - 1
  <2>1. 0 \in Int /\ z \in Int /\ T = 0 .. z
    BY <1>1
  <2>2. z - 0 + 1 = n /\ (0 > z => n = 0)
    BY <1>1
  <2> HIDE DEF T, z, n
  <2>3. IsFiniteSet(0 .. z) /\ Cardinality(0 .. z) = IF 0 > z THEN 0 ELSE z - 0 + 1
    BY <2>1, FS_Interval
  <2> QED BY <2>1, <2>2, <2>3
<1>6. f \in [Merged -> T]
  BY <1>2
<1>7. \A a \in Merged : f[a] = Rank(a)
  OBVIOUS
<1> HIDE DEF f, T
<1>8. f \in Injection(Merged, T)
  BY <1>4, <1>6, <1>7 DEF Injection, IsInjective
<1>9. f \in Surjection(Merged, T)
  BY <1>5, <1>8, FS_Injection
<1>10. \A r \in T : \E a \in Merged : f[a] = r
  BY <1>9 DEF Surjection
<1> QED BY <1>1, <1>2, <1>4, <1>7, <1>10 DEF T

\* collect_issued_commands() returns every command once.
LEMMA IssuedAreMerged ==
  ASSUME FrontendTyped
  PROVE  /\ IssuedCommands \in Seq(TracedCommands)
         /\ \A n \in DOMAIN IssuedCommands : IssuedCommands[n] \in Merged
         /\ \A e \in Merged : \E n \in DOMAIN IssuedCommands : IssuedCommands[n] = e
         /\ \A n \in DOMAIN IssuedCommands : \A m \in DOMAIN IssuedCommands :
              IssuedCommands[n] = IssuedCommands[m] => n = m
<1> DEFINE t == IssuedCommands
           z == Cardinality(Merged)
<1>1. /\ z \in Nat
      /\ \A a \in Merged : Rank(a) \in 0 .. z - 1
      /\ \A a \in Merged : \A b \in Merged : Rank(a) = Rank(b) => a = b
      /\ \A r \in 0 .. z - 1 : \E a \in Merged : Rank(a) = r
  BY RanksAreAll
<1>2. t = [n \in 1 .. z |-> CHOOSE e \in Merged : Rank(e) = n - 1]
  BY DEF IssuedCommands, Rank
<1> HIDE DEF t, z
<1>3. \A n \in 1 .. z : t[n] \in Merged /\ Rank(t[n]) = n - 1
  <2> TAKE n \in 1 .. z
  <2>1. n - 1 \in 0 .. z - 1
    BY <1>1
  <2>2. PICK a \in Merged : Rank(a) = n - 1
    BY <1>1, <2>1
  <2>3. t[n] = CHOOSE e \in Merged : Rank(e) = n - 1
    BY <1>2
  <2> QED BY <2>2, <2>3
<1>4. DOMAIN t = 1 .. z
  BY <1>2
<1>5. \A e \in Merged : e \in TracedCommands
  <2> TAKE e \in Merged
  <2>1. PICK c \in Controllers : \E i \in 1 .. Len(log[c]) : e = Restored(c, i)
    BY MergedFrom
  <2> QED BY <2>1, MergedFrom
<1>6. t \in Seq(TracedCommands)
  <2>1. t \in [1 .. z -> TracedCommands]
    BY <1>2, <1>3, <1>5
  <2> QED BY <1>1, <2>1, SeqDef
<1>7. ASSUME NEW e \in Merged
      PROVE  \E n \in 1 .. z : t[n] = e
  <2>1. Rank(e) \in 0 .. z - 1
    BY <1>1
  <2>2. Rank(e) + 1 \in 1 .. z /\ Rank(t[Rank(e) + 1]) = Rank(e)
    BY <1>1, <1>3, <2>1
  <2>3. t[Rank(e) + 1] \in Merged
    BY <1>3, <2>2
  <2> QED BY <1>1, <2>2, <2>3
<1>8. \A n \in 1 .. z : \A m \in 1 .. z : t[n] = t[m] => n = m
  BY <1>1, <1>3
<1> QED BY <1>3, <1>4, <1>6, <1>7, <1>8 DEF t

\* No damage to one event of the trace of a run passes the validator, whatever the
\* stacks, the channels and the bytes of a beat: an event lost, repeated, late, of
\* another channel or of a request never sent, or a beat with other bytes
\* (validate_dfi_trace()).
THEOREM DamageIsSeen == Spec => []DfiFaultsSeen
<1>1. Init => FrontendTyped
  BY InitTyped
<1>2. FrontendTyped /\ [Next]_vars => FrontendTyped'
  BY NextTyped
<1>3. FrontendTyped => DfiFaultsSeen
  <2> SUFFICES ASSUME FrontendTyped
               PROVE  DfiFaultsSeen
    OBVIOUS
  <2> DEFINE d == setup.dfi
             t == IssuedCommands
             ev == BuildTrace(d, t)
  <2>1. d \in DfiOptions
    <3>1. Legal(setup)
      BY SetupsAreLegal DEF FrontendTyped, SourceTyped
    <3> QED BY <3>1 DEF Legal, Options, DfiOptions
  <2>2. t \in Seq(TracedCommands)
    BY IssuedAreMerged
  <2> HIDE DEF d, t
  <2>3. ev \in Seq(TraceEvents)
    BY <2>1, <2>2, TraceBuilt DEF PlacedIn
  <2> HIDE DEF ev
  <2>4. ASSUME ValidTrace(d, t, ev), NEW i \in DOMAIN ev, NEW bad \in Damaged(d, ev, i)
        PROVE  ~ValidTrace(d, t, bad)
    BY <2>1, <2>2, <2>3, <2>4, DamageSeen
  <2> QED BY <2>4 DEF DfiFaultsSeen, d, t, ev
<1> QED BY <1>1, <1>2, <1>3, PTL DEF Spec

-----------------------------------------------------------------------------
(* A controller issues one column and one row command in a cycle *)

IsColumn(e) == e.cmd \in {"RD", "WR"}

\* The commands of controller c before phase p of cycle t: of those of this cycle
\* the turn is over, and two of one cycle are a column and a row command.
Paced(c, s, t, p) ==
  /\ \A j \in 1 .. Len(s) :
       /\ s[j].cycle <= t
       /\ s[j].cycle = t => p > (IF IsColumn(s[j]) THEN 2 * c - 1 ELSE 2 * c)
  /\ \A i \in 1 .. Len(s) : \A j \in 1 .. Len(s) : i < j =>
       \/ s[i].cycle < s[j].cycle
       \/ s[i].cycle = s[j].cycle /\ IsColumn(s[i]) /\ ~IsColumn(s[j])

TurnsKept == \A c \in Controllers : Paced(c, log[c], clk, phase)

\* What a turn adds to the log of its controller.
Adds(c, e) ==
  e \in Entries(setup) /\ e.cycle = clk /\ log' = [log EXCEPT ![c] = Append(log[c], e)]
AddsColumn(c) == log' = log \/ \E e : IsColumn(e) /\ Adds(c, e)
AddsOther(c) == log' = log \/ \E e : ~IsColumn(e) /\ Adds(c, e)

\* An entry that is added is one that the turn describes.
LEMMA AddsThis ==
  ASSUME FrontendTyped, NEW c \in Controllers, ColumnTurn(c) \/ RowTurn(c),
         NEW x, log' = [log EXCEPT ![c] = Append(log[c], x)]
  PROVE  log' = log \/ Adds(c, x)
<1>1. Effect(c)
  BY TurnEffect DEF ControllerStep
<1>2. CASE \E e : \E st : Acts(c, e, st)
  <2>1. PICK e, st : Acts(c, e, st)
    BY <1>2
  <2>2. e \in Entries(setup) /\ e.cycle = clk /\ log' = [log EXCEPT ![c] = Append(log[c], e)]
    BY <2>1 DEF Acts, Issues
  <2>3. log \in [Controllers -> Seq(Entries(setup))]
    BY DEF FrontendTyped, LogTyped
  <2>4. Append(log[c], x) = Append(log[c], e) /\ log[c] \in Seq(Entries(setup))
    BY <2>2, <2>3
  <2>5. Append(log[c], x)[Len(log[c]) + 1] = x /\ Append(log[c], e)[Len(log[c]) + 1] = e
    BY <2>4
  <2>6. x = e
    BY <2>4, <2>5
  <2> QED BY <2>2, <2>6 DEF Adds
<1>3. CASE log' = log /\ store' = store
  BY <1>3
<1> QED BY <1>1, <1>2, <1>3 DEF Effect

\* A column turn adds a column command, a row turn another one.
LEMMA TurnAdds ==
  ASSUME FrontendTyped, NEW c \in Controllers
  PROVE  /\ ColumnTurn(c) => phase = 2 * c - 1 /\ AddsColumn(c)
         /\ RowTurn(c) => phase = 2 * c /\ AddsOther(c)
<1>1. ASSUME ColumnTurn(c)
      PROVE  phase = 2 * c - 1 /\ AddsColumn(c)
  <2>1. phase = 2 * c - 1
    BY <1>1 DEF ColumnTurn, Turn
  <2>2. \/ log' = log
        \/ \E x : IsColumn(x) /\ log' = [log EXCEPT ![c] = Append(log[c], x)]
    <3>1. CASE ReadColumn(c)
      <4>1. PICK i \in ReadyColumns(c) :
              \E got \in {FoldLeft(ReadPiece, [st |-> store[StackOf(c)], bytes |-> <<>>],
                                   Pieces(queues[c][i]))} :
                log' = [log EXCEPT ![c] =
                          Append(@, Entry(c, queues[c][i], "RD", queues[c][i].id, got.bytes))]
        BY <3>1 DEF ReadColumn
      <4>2. PICK p : log' = [log EXCEPT ![c] =
                               Append(@, Entry(c, queues[c][i], "RD", queues[c][i].id, p))]
        BY <4>1
      <4> DEFINE x == Entry(c, queues[c][i], "RD", queues[c][i].id, p)
      <4>3. IsColumn(x)
        BY DEF IsColumn, Entry
      <4> HIDE DEF x
      <4>4. log' = [log EXCEPT ![c] = Append(log[c], x)]
        BY <4>2 DEF x
      <4> QED BY <4>3, <4>4
    <3>2. CASE WriteColumn(c)
      <4>1. PICK i \in ReadyColumns(c) :
              log' = [log EXCEPT ![c] =
                        Append(@, Entry(c, queues[c][i], "WR", queues[c][i].id,
                                        queues[c][i].payload))]
        BY <3>2, Zenon DEF WriteColumn
      <4> DEFINE x == Entry(c, queues[c][i], "WR", queues[c][i].id, queues[c][i].payload)
      <4>2. IsColumn(x)
        BY DEF IsColumn, Entry
      <4> HIDE DEF x
      <4>3. log' = [log EXCEPT ![c] = Append(log[c], x)]
        BY <4>1 DEF x
      <4> QED BY <4>2, <4>3
    <3>3. CASE HeldBack(ReadyColumns(c))
      BY <3>3 DEF HeldBack
    <3> QED BY <1>1, <3>1, <3>2, <3>3 DEF ColumnTurn
  <2>3. CASE \E x : IsColumn(x) /\ log' = [log EXCEPT ![c] = Append(log[c], x)]
    <3>1. PICK x : IsColumn(x) /\ log' = [log EXCEPT ![c] = Append(log[c], x)]
      BY <2>3
    <3>2. log' = log \/ Adds(c, x)
      BY <1>1, <3>1, AddsThis
    <3> QED BY <2>1, <3>1, <3>2 DEF AddsColumn
  <2> QED BY <2>1, <2>2, <2>3 DEF AddsColumn, AddsOther
<1>2. ASSUME RowTurn(c)
      PROVE  phase = 2 * c /\ AddsOther(c)
  <2>1. phase = 2 * c
    BY <1>2 DEF RowTurn, Turn
  <2>2. \/ log' = log
        \/ \E x : ~IsColumn(x) /\ log' = [log EXCEPT ![c] = Append(log[c], x)]
    <3>1. CASE ControlCommand(c)
      <4>1. PICK i \in ReadyControls(c) :
              log' = [log EXCEPT ![c] =
                        Append(@, Entry(c, queues[c][i], queues[c][i].cmd, queues[c][i].id, <<>>))]
        BY <3>1 DEF ControlCommand
      <4>2. queues[c][i] \in Parts(setup) /\ queues[c][i].type = "control"
        <5>1. i \in DOMAIN queues[c] /\ queues[c][i].type = "control"
          BY DEF ReadyControls, HeadControls
        <5>2. queues[c] \in Seq(Parts(setup))
          BY DEF FrontendTyped, QueuesTyped
        <5> QED BY <5>1, <5>2, ElementOfSeq, LenProperties
      <4>3. queues[c][i].cmd \in ControlNames
        BY <4>2 DEF Parts, PartSound
      <4> DEFINE x == Entry(c, queues[c][i], queues[c][i].cmd, queues[c][i].id, <<>>)
      <4>4. x.cmd = queues[c][i].cmd
        BY DEF Entry
      <4>5. ~IsColumn(x)
        <5> HIDE DEF x
        <5> QED BY <4>3, <4>4 DEF IsColumn, ControlNames, TraceCommands
      <4> HIDE DEF x
      <4>6. log' = [log EXCEPT ![c] = Append(log[c], x)]
        BY <4>1 DEF x
      <4> QED BY <4>5, <4>6
    <3>2. CASE Activate(c)
      <4>1. PICK i \in NeedsRow(c) :
              log' = [log EXCEPT ![c] =
                        Append(@, Entry(c, queues[c][i], "ACT", queues[c][i].id, <<>>))]
        BY <3>2 DEF Activate
      <4> DEFINE x == Entry(c, queues[c][i], "ACT", queues[c][i].id, <<>>)
      <4>2. ~IsColumn(x)
        BY DEF IsColumn, Entry
      <4> HIDE DEF x
      <4>3. log' = [log EXCEPT ![c] = Append(log[c], x)]
        BY <4>1 DEF x
      <4> QED BY <4>2, <4>3
    <3>3. CASE PrechargeAll(c)
      <4>1. PICK k \in RowsOf(c) :
              log' = [log EXCEPT ![c] =
                 Append(@, Entry(c, [at |-> k, address |-> 0, system |-> 0,
                                     expected |-> <<>>, owed |-> <<>>],
                                 "PREAB", maintenance[c], <<>>))]
        BY <3>3 DEF PrechargeAll
      <4> DEFINE x == Entry(c, [at |-> k, address |-> 0, system |-> 0,
                                expected |-> <<>>, owed |-> <<>>], "PREAB", maintenance[c], <<>>)
      <4>2. ~IsColumn(x)
        BY DEF IsColumn, Entry
      <4> HIDE DEF x
      <4>3. log' = [log EXCEPT ![c] = Append(log[c], x)]
        BY <4>1 DEF x
      <4> QED BY <4>2, <4>3
    <3>4. CASE PrechargeForControl(c)
      <4>1. PICK i \in ClosingControls(c) : \E cmd \in PrechargesFor(c, queues[c][i]) :
              log' = [log EXCEPT ![c] =
                        Append(@, Entry(c, queues[c][i], cmd, queues[c][i].id, <<>>))]
        BY <3>4 DEF PrechargeForControl
      <4>2. PICK cmd \in {"PREAB", "PREPB"} :
              log' = [log EXCEPT ![c] =
                        Append(@, Entry(c, queues[c][i], cmd, queues[c][i].id, <<>>))]
        BY <4>1 DEF PrechargesFor
      <4> DEFINE x == Entry(c, queues[c][i], cmd, queues[c][i].id, <<>>)
      <4>3. ~IsColumn(x)
        BY <4>2 DEF IsColumn, Entry
      <4> HIDE DEF x
      <4>4. log' = [log EXCEPT ![c] = Append(log[c], x)]
        BY <4>2 DEF x
      <4> QED BY <4>3, <4>4
    <3>5. CASE HeldBack(ReadyControls(c) \cup ClosingControls(c) \cup NeedsRow(c))
      BY <3>5 DEF HeldBack
    <3> QED BY <1>2, <3>1, <3>2, <3>3, <3>4, <3>5 DEF RowTurn
  <2>3. CASE \E x : ~IsColumn(x) /\ log' = [log EXCEPT ![c] = Append(log[c], x)]
    <3>1. PICK x : ~IsColumn(x) /\ log' = [log EXCEPT ![c] = Append(log[c], x)]
      BY <2>3
    <3>2. log' = log \/ Adds(c, x)
      BY <1>2, <3>1, AddsThis
    <3> QED BY <2>1, <3>1, <3>2 DEF AddsOther
  <2> QED BY <2>1, <2>2, <2>3 DEF AddsColumn, AddsOther
<1> QED BY <1>1, <1>2

\* The turn of one controller in a cycle keeps the order of its own commands, and
\* the commands of the others are not touched.
LEMMA TurnKeepsTurns ==
  ASSUME FrontendTyped, TurnsKept, NEW c \in Controllers, ColumnTurn(c) \/ RowTurn(c)
  PROVE  TurnsKept'
<1>1. /\ (phase' = 0 /\ clk' = clk + 1) \/ (phase' = phase + 1 /\ clk' = clk)
      /\ setup' = setup
  BY DEF ColumnTurn, RowTurn, Turn, TurnEnds
<1>2. log \in [Controllers -> Seq(Entries(setup))] /\ clk \in Nat /\ phase \in Nat
      /\ Controllers \subseteq Nat
  BY DEF FrontendTyped, LogTyped, SourceTyped, Controllers
<1>3. \A e \in Entries(setup) : e.cycle \in Nat
  BY DEF Entries
<1>4. Controllers' = Controllers
  BY <1>1 DEF Controllers, Channels
<1>5. ASSUME NEW k \in Controllers, log'[k] = log[k]
      PROVE  Paced(k, log'[k], clk', phase')
  <2>1. \A j \in 1 .. Len(log[k]) : log[k][j].cycle \in Nat
    BY <1>2, <1>3
  <2>2. Paced(k, log[k], clk, phase) /\ k \in Nat
    BY <1>2 DEF TurnsKept
  <2>3. \A j \in 1 .. Len(log[k]) :
          /\ log[k][j].cycle <= clk'
          /\ log[k][j].cycle = clk' =>
               phase' > (IF IsColumn(log[k][j]) THEN 2 * k - 1 ELSE 2 * k)
    <3> SUFFICES ASSUME NEW j \in 1 .. Len(log[k])
                 PROVE  /\ log[k][j].cycle <= clk'
                        /\ log[k][j].cycle = clk' =>
                             phase' > (IF IsColumn(log[k][j]) THEN 2 * k - 1 ELSE 2 * k)
      OBVIOUS
    <3> DEFINE n == IF IsColumn(log[k][j]) THEN 2 * k - 1 ELSE 2 * k
    <3>1. n \in Int
      BY <2>2
    <3>2. log[k][j].cycle <= clk /\ (log[k][j].cycle = clk => phase > n)
      BY <2>2 DEF Paced
    <3> HIDE DEF n
    <3>3. log[k][j].cycle <= clk' /\ (log[k][j].cycle = clk' => phase' > n)
      BY <1>1, <1>2, <2>1, <3>1, <3>2
    <3> QED BY <3>3 DEF n
  <2> QED BY <1>5, <2>2, <2>3 DEF Paced
<1>6. ASSUME NEW e, Adds(c, e), IsColumn(e) => phase = 2 * c - 1,
             ~IsColumn(e) => phase = 2 * c
      PROVE  Paced(c, log'[c], clk', phase')
  <2> DEFINE s == log[c]
             n == Len(log[c])
  <2>1. s \in Seq(Entries(setup)) /\ n \in Nat /\ c \in Nat
    BY <1>2
  <2>2. log'[c] = Append(s, e) /\ e \in Entries(setup) /\ e.cycle = clk
    BY <1>2, <1>6 DEF Adds
  <2>3. Paced(c, s, clk, phase)
    BY DEF TurnsKept
  <2>4. \A j \in 1 .. n : s[j].cycle \in Nat
    BY <1>3, <2>1
  <2> HIDE DEF s
  <2>5. Len(Append(s, e)) = n + 1 /\ Append(s, e)[n + 1] = e
        /\ \A j \in 1 .. n : Append(s, e)[j] = s[j]
    BY <2>1, <2>2 DEF s
  <2> DEFINE t == Append(s, e)
  <2> HIDE DEF t, n
  <2>6. Len(t) = n + 1 /\ t[n + 1] = e /\ \A j \in 1 .. n : t[j] = s[j]
    BY <2>5 DEF t
  <2>7. \A j \in 1 .. n + 1 : j \in 1 .. n \/ j = n + 1
    BY <2>1
  <2>8. ASSUME NEW j \in 1 .. n
        PROVE  /\ s[j].cycle <= clk
               /\ s[j].cycle = clk => phase > (IF IsColumn(s[j]) THEN 2 * c - 1 ELSE 2 * c)
    BY <2>3 DEF Paced, s, n
  <2>9. ASSUME NEW j \in 1 .. n + 1
        PROVE  /\ t[j].cycle <= clk'
               /\ t[j].cycle = clk' =>
                    phase' > (IF IsColumn(t[j]) THEN 2 * c - 1 ELSE 2 * c)
    <3> DEFINE m == IF IsColumn(t[j]) THEN 2 * c - 1 ELSE 2 * c
    <3>1. m \in Int
      BY <2>1
    <3>2. t[j].cycle <= clk /\ t[j].cycle \in Nat /\ (t[j].cycle = clk => phase >= m)
      <4>1. CASE j = n + 1
        <5>1. t[j] = e /\ phase = m
          BY <1>6, <2>6, <4>1
        <5> QED BY <1>2, <2>2, <5>1
      <4>2. CASE j \in 1 .. n
        <5>1. t[j] = s[j]
          BY <2>6, <4>2
        <5>2. t[j].cycle <= clk /\ t[j].cycle \in Nat /\ (t[j].cycle = clk => phase > m)
          BY <2>4, <2>8, <4>2, <5>1
        <5> HIDE DEF m
        <5> QED BY <1>2, <3>1, <5>2
      <4> QED BY <2>7, <4>1, <4>2
    <3> HIDE DEF m
    <3>3. t[j].cycle <= clk' /\ (t[j].cycle = clk' => phase' > m)
      BY <1>1, <1>2, <3>1, <3>2
    <3> QED BY <3>3 DEF m
  <2>10. ASSUME NEW i \in 1 .. n + 1, NEW j \in 1 .. n + 1, i < j
         PROVE  \/ t[i].cycle < t[j].cycle
                \/ t[i].cycle = t[j].cycle /\ IsColumn(t[i]) /\ ~IsColumn(t[j])
    <3>1. i \in 1 .. n
      BY <2>1, <2>10
    <3>2. CASE j \in 1 .. n
      <4>1. t[i] = s[i] /\ t[j] = s[j]
        BY <2>6, <3>1, <3>2
      <4>2. \/ s[i].cycle < s[j].cycle
            \/ s[i].cycle = s[j].cycle /\ IsColumn(s[i]) /\ ~IsColumn(s[j])
        <5>1. \A m \in 1 .. n : i < m =>
                \/ s[i].cycle < s[m].cycle
                \/ s[i].cycle = s[m].cycle /\ IsColumn(s[i]) /\ ~IsColumn(s[m])
          BY <2>3, <3>1 DEF Paced, n, s
        <5> QED BY <2>10, <3>2, <5>1
      <4> QED BY <4>1, <4>2
    <3>3. CASE j = n + 1
      <4>1. t[i] = s[i] /\ t[j] = e
        BY <2>6, <3>1, <3>3
      <4>2. s[i].cycle \in Nat /\ s[i].cycle <= clk
            /\ (s[i].cycle = clk =>
                  phase > (IF IsColumn(s[i]) THEN 2 * c - 1 ELSE 2 * c))
        BY <2>4, <2>8, <3>1
      <4>3. CASE s[i].cycle < clk
        BY <2>2, <4>1, <4>3
      <4>4. CASE s[i].cycle = clk
        <5>1. phase > (IF IsColumn(s[i]) THEN 2 * c - 1 ELSE 2 * c)
          BY <4>2, <4>4
        <5>2. phase = 2 * c - 1 \/ phase = 2 * c
          BY <1>6
        <5>3. IsColumn(s[i]) /\ phase = 2 * c
          BY <2>1, <5>1, <5>2
        <5>4. 2 * c # 2 * c - 1
          BY <2>1
        <5>5. ~IsColumn(e)
          BY <1>6, <5>3, <5>4
        <5> QED BY <2>2, <4>1, <4>4, <5>3, <5>5
      <4> QED BY <1>2, <4>2, <4>3, <4>4
    <3> QED BY <2>7, <3>2, <3>3
  <2>11. Paced(c, t, clk', phase')
    BY <2>6, <2>9, <2>10 DEF Paced
  <2> QED BY <2>2, <2>11 DEF t, s
<1>7. CASE log' = log
  <2>1. \A k \in Controllers : Paced(k, log'[k], clk', phase')
    BY <1>5, <1>7
  <2> QED BY <1>4, <2>1 DEF TurnsKept
<1>8. ASSUME NEW e, Adds(c, e), IsColumn(e) => phase = 2 * c - 1,
             ~IsColumn(e) => phase = 2 * c
      PROVE  TurnsKept'
  <2>1. Paced(c, log'[c], clk', phase')
    BY <1>6, <1>8
  <2>2. \A k \in Controllers : k # c => log'[k] = log[k]
    BY <1>2, <1>8 DEF Adds
  <2>3. \A k \in Controllers : Paced(k, log'[k], clk', phase')
    BY <1>5, <2>1, <2>2
  <2> QED BY <1>4, <2>3 DEF TurnsKept
<1>9. CASE ColumnTurn(c)
  <2>1. phase = 2 * c - 1 /\ AddsColumn(c)
    BY <1>9, TurnAdds
  <2> QED BY <1>7, <1>8, <2>1 DEF AddsColumn
<1>10. CASE RowTurn(c)
  <2>1. phase = 2 * c /\ AddsOther(c)
    BY <1>10, TurnAdds
  <2> QED BY <1>7, <1>8, <2>1 DEF AddsOther
<1> QED BY <1>9, <1>10

\* The other steps issue nothing and end no turn.
LEMMA TurnsStay ==
  ASSUME FrontendTyped, TurnsKept, [Next]_vars
  PROVE  TurnsKept'
<1>1. CASE \E c \in Controllers : ColumnTurn(c) \/ RowTurn(c)
  BY <1>1, TurnKeepsTurns
<1>2. CASE \/ Fetch \/ SourceEnds \/ Enqueue \/ Finish \/ UNCHANGED vars
            \/ \E c \in Controllers : DropPrecharge(c)
  <2>1. setup' = setup /\ clk' = clk /\ phase' = phase /\ log' = log
    BY <1>2 DEF Fetch, SourceEnds, Enqueue, Finish, DropPrecharge, vars
  <2>2. Controllers' = Controllers
    BY <2>1 DEF Controllers, Channels
  <2> QED BY <2>1, <2>2 DEF TurnsKept
<1>3. CASE StepBegins
  <2>1. setup' = setup /\ clk' = clk /\ phase' = 1 /\ phase = 0 /\ log' = log
    BY <1>3 DEF StepBegins
  <2>2. Controllers' = Controllers /\ Controllers \subseteq Nat \ {0}
    BY <2>1 DEF Controllers, Channels
  <2>3. ASSUME NEW c \in Controllers
        PROVE  Paced(c, log[c], clk, 1)
    <3>1. Paced(c, log[c], clk, 0) /\ c \in Nat \ {0}
      BY <2>1, <2>2 DEF TurnsKept
    <3>2. ASSUME NEW j \in 1 .. Len(log[c])
          PROVE  log[c][j].cycle # clk
      <4>1. ASSUME log[c][j].cycle = clk
            PROVE  0 > (IF IsColumn(log[c][j]) THEN 2 * c - 1 ELSE 2 * c)
        BY <3>1, <4>1 DEF Paced
      <4> QED BY <3>1, <4>1
    <3> QED BY <3>1, <3>2 DEF Paced
  <2> QED BY <2>1, <2>2, <2>3 DEF TurnsKept
<1> QED BY <1>1, <1>2, <1>3 DEF Next

\* The keys of two entries are those of two controllers, two commands or two cycles.
LEMMA KeysApart ==
  ASSUME FrontendTyped, TurnsKept
  PROVE  \A a \in Merged : \A b \in Merged :
           a.stack = b.stack /\ a.at["channel"] = b.at["channel"] /\ a.cmd = b.cmd
             /\ a.cycle = b.cycle => a = b
<1> SUFFICES ASSUME NEW a \in Merged, NEW b \in Merged,
                    a.stack = b.stack, a.at["channel"] = b.at["channel"], a.cmd = b.cmd,
                    a.cycle = b.cycle
             PROVE  a = b
  OBVIOUS
<1>1. PICK c \in Controllers : \E i \in 1 .. Len(log[c]) : a = Restored(c, i)
  BY MergedFrom
<1>2. PICK i \in 1 .. Len(log[c]) : a = Restored(c, i)
  BY <1>1
<1>3. PICK d \in Controllers : \E j \in 1 .. Len(log[d]) : b = Restored(d, j)
  BY MergedFrom
<1>4. PICK j \in 1 .. Len(log[d]) : b = Restored(d, j)
  BY <1>3
<1>5. /\ a.stack = StackOf(c) /\ a.at["channel"] = ChannelOf(c)
      /\ a.cmd = log[c][i].cmd /\ a.cycle = log[c][i].cycle
  BY <1>2, MergedFrom
<1>6. /\ b.stack = StackOf(d) /\ b.at["channel"] = ChannelOf(d)
      /\ b.cmd = log[d][j].cmd /\ b.cycle = log[d][j].cycle
  BY <1>4, MergedFrom
<1>7. c = d
  <2>1. Legal(setup)
    BY SetupsAreLegal DEF FrontendTyped, SourceTyped
  <2> QED BY <1>5, <1>6, <2>1, ControllerKnown
<1>8. i = j
  <2>1. log[c] \in Seq(Entries(setup)) /\ Len(log[c]) \in Nat
    BY LenProperties DEF FrontendTyped, LogTyped
  <2>2. log[c][i].cycle \in Nat /\ log[c][j].cycle \in Nat
    <3>1. i \in DOMAIN log[c] /\ j \in DOMAIN log[c]
      BY <1>7, <2>1, LenProperties
    <3>2. log[c][i] \in Entries(setup) /\ log[c][j] \in Entries(setup)
      BY <2>1, <3>1, ElementOfSeq
    <3> QED BY <3>2 DEF Entries
  <2>3. Paced(c, log[c], clk, phase)
    BY DEF TurnsKept
  <2>4. log[c][i].cmd = log[c][j].cmd /\ log[c][i].cycle = log[c][j].cycle
    BY <1>5, <1>6, <1>7
  <2>5. ~(i < j)
    BY <1>7, <2>2, <2>3, <2>4 DEF Paced, IsColumn
  <2>6. ~(j < i)
    BY <1>7, <2>2, <2>3, <2>4 DEF Paced, IsColumn
  <2> QED BY <1>7, <2>1, <2>5, <2>6
<1> QED BY <1>2, <1>4, <1>7, <1>8

\* No two commands of a run are taken for one another by the validator
\* (DfiEventKey, DfiDataKey).
LEMMA IssuedKeysApart ==
  ASSUME FrontendTyped, TurnsKept
  PROVE  DistinctKeys(IssuedCommands)
<1>1. ASSUME NEW m \in DOMAIN IssuedCommands, NEW k \in DOMAIN IssuedCommands,
             CommandKey(IssuedCommands[m]) = CommandKey(IssuedCommands[k])
      PROVE  m = k
  <2> DEFINE a == IssuedCommands[m]
             b == IssuedCommands[k]
  <2>1. a \in Merged /\ b \in Merged
    BY IssuedAreMerged
  <2>2. /\ a.stack = b.stack /\ a.at["channel"] = b.at["channel"]
        /\ a.cmd = b.cmd /\ a.cycle = b.cycle
    BY <1>1 DEF CommandKey, TraceKey
  <2>3. a = b
    BY <2>1, <2>2, KeysApart
  <2> QED BY <2>3, IssuedAreMerged
<1> QED BY <1>1 DEF DistinctKeys

-----------------------------------------------------------------------------
(* What a read expects is what it is owed *)

\* Host line m of line j was handed out.
Emitted(s, j, m) ==
  j < s.line - 1 \/ (j = s.line - 1 /\ (s.burst.active => m < s.burst.line))

\* The bytes a read of the memory mem at the addresses of r returns.
AddressIn(u, r, x) ==
  IF r.explicit THEN StackEncode(u.map, [stack |-> r.stack, local |-> r.address + (x - 1)])
  ELSE r.address + (x - 1)
Owes(u, mem, r) == [x \in 1 .. r.size |-> Known(mem, AddressIn(u, r, x))]

\* What a read to come will expect is in the memory already.
Backed(u, s, mem) ==
  u.source = "trace" =>
    \A i \in DOMAIN u.trace : \A n \in HostSteps(u.trace[i]) :
    \A j \in DOMAIN u.trace : \A m \in HostSteps(u.trace[j]) :
      /\ u.trace[i].check \in {"last_write", "auto"} /\ ReadsBack(u, i, n, j, m)
      /\ Emitted(s, j, m) /\ ~Emitted(s, i, n)
      => /\ LineKey(u, i, n) \in DOMAIN s.lastWrites
         /\ Len(s.lastWrites[LineKey(u, i, n)]) = u.trace[j].size
         /\ \A x \in 1 .. u.trace[j].size :
              s.lastWrites[LineKey(u, i, n)][x] = Known(mem, SystemByte(u, i, n, x))

\* A read whose bytes are checked, of the source and of the queues.
Checked(r) == r.type = "read" /\ r.expected # <<>>
Right(r) == Checked(r) => r.expected = r.owed

\* What a read expects is what it is owed, wherever it is: still with the source,
\* on its way, or issued.
AwaitedRight == \A r \in Waiting : Checked(r) => r.expected = Owes(setup, memory, r)
QueuedRight ==
  /\ \A k \in Stacks : \A i \in DOMAIN ingress[k] : Right(ingress[k][i])
  /\ \A c \in Controllers : \A i \in DOMAIN queues[c] : Right(queues[c][i])
IssuedRight ==
  \A c \in Controllers : \A i \in DOMAIN log[c] :
    log[c][i].cmd = "RD" /\ log[c][i].expected # <<>> => log[c][i].expected = log[c][i].owed
Promised == Backed(setup, stream, memory) /\ AwaitedRight /\ QueuedRight /\ IssuedRight

-----------------------------------------------------------------------------
(* The bytes of a host line of a trace *)

\* The mask of a write, and what a read expects when w are the last writes.
Carries(y, t, w) ==
  /\ TypeOf(t) = "write" => y.host.mask = t.mask
  /\ TypeOf(t) = "read" =>
       /\ t.check = "none" => y.host.expected = <<>>
       /\ /\ t.check = "last_write" \/ (t.check = "auto" /\ IsBurst(t))
          /\ AddressKey(y.host) \in DOMAIN w
          => y.host.expected = w[AddressKey(y.host)]

\* The fields a host request is given.
LEMMA FieldsOf ==
  ASSUME NEW s, NEW type, NEW a, NEW c, NEW k, NEW p, NEW m,
         NEW h, h = HostOf(s, type, a, c, k)
  PROVE  /\ h.mask = <<>> /\ [h EXCEPT !.payload = p].mask = <<>>
         /\ [h EXCEPT !.payload = p, !.mask = m].mask = m
         /\ [h EXCEPT !.expected = p].expected = p
<1>1. h.mask = <<>>
  BY DEF HostOf
<1>2. [h EXCEPT !.payload = p].mask = <<>>
  BY DEF HostOf
<1>3. [h EXCEPT !.payload = p, !.mask = m].mask = m
  BY DEF HostOf
<1>4. [h EXCEPT !.expected = p].expected = p
  BY DEF HostOf
<1> QED BY <1>1, <1>2, <1>3, <1>4

\* What a read of a trace expects.
LEMMA ExpectedOf ==
  ASSUME NEW s, NEW r, NEW check, NEW burst \in BOOLEAN, NEW n
  PROVE  LET e == ExpectedPayload(s, r, check, burst, n)
         IN /\ check = "none" => e = <<>>
            /\ /\ check = "last_write" \/ (check = "auto" /\ burst)
               /\ AddressKey(r) \in DOMAIN s.lastWrites
               => e = s.lastWrites[AddressKey(r)]
<1>1. CASE check = "none"
  BY <1>1 DEF ExpectedPayload
<1>2. CASE check = "last_write"
  BY <1>2 DEF ExpectedPayload
<1>3. CASE check = "auto"
  BY <1>3 DEF ExpectedPayload, HasLastWrite
<1> QED BY <1>1, <1>2, <1>3

\* emit_burst()
LEMMA BurstCarries ==
  ASSUME NEW u, Legal(u), NEW z \in Streams(u), NEW t \in TraceLines,
         LineAllowed(u.org, t), IsBurst(t), NEW c \in Nat, NEW n \in Nat,
         z.burst = BurstAt(t, c, n), ~EmitBurst(u, z).next.failed
  PROVE  Carries(EmitBurst(u, z), t, z.lastWrites)
<1> DEFINE a == t.address + n * u.org.line
           rest == [z EXCEPT !.burst = BurstAdvanced(z.burst)]
           r == BurstHost(u, z)
           y == EmitBurst(u, z)
<1>1. /\ z.burst.type = TypeOf(t) /\ z.burst.address = t.address
      /\ z.burst.cycle = c /\ z.burst.line = n /\ z.burst.data = t.data
      /\ z.burst.check = t.check /\ z.burst.stack = t.stack
  <2>1. z.burst.type = TypeOf(t)
    BY BurstAtTyped
  <2> QED BY <2>1 DEF BurstAt
<1>2. r = HostOf(z, TypeOf(t), a, c, t.stack)
  BY <1>1 DEF BurstHost
<1>3. y = IF z.burst.type = "write"
          THEN Emit(u, rest, [r EXCEPT !.payload =
                                DataValue(z.burst.data, r.address, 0, u.org.line)])
          ELSE IF MissingLastWrite(z, r, z.burst.check)
          THEN [host |-> r, next |-> Failed(z)]
          ELSE Emit(u, rest, [r EXCEPT
                      !.expected = ExpectedPayload(z, r, z.burst.check, TRUE, u.org.line)])
  BY DEF EmitBurst
<1>4. t.mask = <<>>
  BY DEF LineAllowed, IsBurst
<1>5. ~y.next.failed
  OBVIOUS
<1> HIDE DEF rest, y, a
<1>6. ASSUME NEW p
      PROVE  /\ [r EXCEPT !.payload = p].mask = <<>>
             /\ [r EXCEPT !.expected = p].expected = p
             /\ AddressKey([r EXCEPT !.expected = p]) = AddressKey(r)
  <2> HIDE DEF r
  <2>1. SameKey(r, z, TypeOf(t), a, c, t.stack)
        /\ SameKey([r EXCEPT !.expected = p], z, TypeOf(t), a, c, t.stack)
    BY <1>2, KeyOf
  <2> QED BY <1>2, <2>1, FieldsOf DEF SameKey
<1> HIDE DEF r
<1>7. CASE TypeOf(t) = "write"
  <2> DEFINE p == DataValue(z.burst.data, r.address, 0, u.org.line)
             h == [r EXCEPT !.payload = p]
  <2>1. y = Emit(u, rest, h)
    BY <1>1, <1>3, <1>7
  <2>2. h.mask = <<>>
    BY <1>6
  <2> HIDE DEF h
  <2>3. y.host = h
    BY <2>1 DEF Emit
  <2> QED BY <1>4, <1>7, <2>2, <2>3 DEF Carries, y
<1>8. CASE TypeOf(t) = "read"
  <2>1. CASE MissingLastWrite(z, r, z.burst.check)
    <3>1. y = [host |-> r, next |-> Failed(z)]
      BY <1>1, <1>3, <1>8, <2>1
    <3>2. y.next = Failed(z)
      BY <3>1
    <3>3. Failed(z).failed
      BY DEF Failed, Streams
    <3> QED BY <1>5, <3>2, <3>3
  <2>2. CASE ~MissingLastWrite(z, r, z.burst.check)
    <3> DEFINE p == ExpectedPayload(z, r, z.burst.check, TRUE, u.org.line)
               h == [r EXCEPT !.expected = p]
    <3>1. y = Emit(u, rest, h)
      BY <1>1, <1>3, <1>8, <2>2
    <3>2. h.expected = p /\ AddressKey(h) = AddressKey(r)
      BY <1>6
    <3>3. /\ t.check = "none" => p = <<>>
          /\ /\ t.check = "last_write" \/ (t.check = "auto" /\ TRUE)
             /\ AddressKey(r) \in DOMAIN z.lastWrites
             => p = z.lastWrites[AddressKey(r)]
      BY <1>1, ExpectedOf, ZenonT(60)
    <3> HIDE DEF h, p
    <3>4. y.host = h
      BY <3>1 DEF Emit
    <3> QED BY <1>8, <3>2, <3>3, <3>4 DEF Carries, y
  <2> QED BY <2>1, <2>2
<1>9. TypeOf(t) = "write" \/ TypeOf(t) = "read"
  BY DEF TypeOf, IsBurst
<1> QED BY <1>7, <1>8, <1>9

\* parse_trace_line(), a single request.
LEMMA SingleCarries ==
  ASSUME NEW u, Legal(u), NEW z \in Streams(u), NEW t \in TraceLines,
         LineAllowed(u.org, t), ~IsBurst(t), TypeOf(t) # "control",
         ~EmitSingle(u, z, t).next.failed
  PROVE  Carries(EmitSingle(u, z, t), t, z.lastWrites)
<1> DEFINE c == InjectCycle(u, z, t)
           a == t.address
           r == HostOf(z, TypeOf(t), a, c, t.stack)
           y == EmitSingle(u, z, t)
<1>1. TypeOf(t) = IF t.op = "W" THEN "write" ELSE "read"
  <2>1. t.op \in {"R", "W", "BR", "BW", "M"}
    BY LineTyped
  <2> QED BY <2>1 DEF TypeOf, IsBurst
<1> DEFINE p == DataValue(t.data, a, r.id, t.size)
           q == ExpectedPayload(z, r, t.check, FALSE, t.size)
           missing == MissingLastWrite(z, r, t.check)
<1>2. y = IF t.op = "W" THEN Emit(u, z, [r EXCEPT !.payload = p, !.mask = t.mask])
          ELSE IF missing THEN [host |-> r, next |-> Failed(z)]
          ELSE Emit(u, z, [r EXCEPT !.expected = q])
  BY <1>1 DEF EmitSingle
<1>3. ~y.next.failed
  OBVIOUS
<1>4. /\ t.check = "none" => q = <<>>
      /\ t.check = "last_write" /\ AddressKey(r) \in DOMAIN z.lastWrites
         => q = z.lastWrites[AddressKey(r)]
  BY ExpectedOf
<1> HIDE DEF p, q, missing, y, a, c
<1>5. ASSUME NEW v
      PROVE  /\ [r EXCEPT !.payload = v, !.mask = t.mask].mask = t.mask
             /\ [r EXCEPT !.expected = v].expected = v
             /\ AddressKey([r EXCEPT !.expected = v]) = AddressKey(r)
  <2>1. SameKey(r, z, TypeOf(t), a, c, t.stack)
        /\ SameKey([r EXCEPT !.expected = v], z, TypeOf(t), a, c, t.stack)
    <3> HIDE DEF r
    <3> QED BY KeyOf DEF r
  <2>2. [r EXCEPT !.payload = v, !.mask = t.mask].mask = t.mask
        /\ [r EXCEPT !.expected = v].expected = v
    <3> HIDE DEF r
    <3> QED BY FieldsOf DEF r
  <2> QED BY <2>1, <2>2 DEF SameKey
<1> HIDE DEF r
<1>6. CASE t.op = "W"
  <2> DEFINE h == [r EXCEPT !.payload = p, !.mask = t.mask]
  <2>1. y = Emit(u, z, h)
    BY <1>2, <1>6
  <2>2. h.mask = t.mask
    BY <1>5
  <2> HIDE DEF h
  <2>3. y.host = h
    BY <2>1 DEF Emit
  <2> QED BY <1>1, <1>6, <2>2, <2>3 DEF Carries, y
<1>7. CASE t.op # "W" /\ missing
  <2>1. y = [host |-> r, next |-> Failed(z)]
    BY <1>2, <1>7
  <2>2. y.next = Failed(z)
    BY <2>1
  <2>3. Failed(z).failed
    BY DEF Failed, Streams
  <2> QED BY <1>3, <2>2, <2>3
<1>8. CASE t.op # "W" /\ ~missing
  <2> DEFINE h == [r EXCEPT !.expected = q]
  <2>1. y = Emit(u, z, h)
    BY <1>2, <1>8
  <2>2. h.expected = q /\ AddressKey(h) = AddressKey(r)
    BY <1>5
  <2> HIDE DEF h
  <2>3. y.host = h
    BY <2>1 DEF Emit
  <2> QED BY <1>1, <1>4, <1>8, <2>2, <2>3 DEF Carries, y
<1> QED BY <1>6, <1>7, <1>8

\* TraceTrafficStream::next()
LEMMA TraceCarries ==
  ASSUME NEW u, Legal(u), NEW s \in Streams(u), InTrace(u, s),
         NEW x \in TraceNext(u, s), ~x.next.failed,
         NEW i, NEW c, NEW n, LineStep(u, s, x, i, c, n)
  PROVE  Carries(x, u.trace[i], s.lastWrites)
<1>1. ~LimitReached(u, s)
  BY DEF TraceNext
<1>2. CASE s.burst.active
  <2>1. i = s.line - 1 /\ i \in DOMAIN u.trace /\ c \in Nat /\ n \in Nat
        /\ s.burst = BurstAt(u.trace[i], c, n)
    BY <1>2 DEF LineStep
  <2>2. IsBurst(u.trace[i])
    BY <1>2, <2>1 DEF InTrace
  <2>3. x = EmitBurst(u, s)
    BY <1>1, <1>2 DEF TraceNext
  <2>4. u.trace[i] \in TraceLines /\ LineAllowed(u.org, u.trace[i])
    BY <2>1, LineOf
  <2> QED BY <2>1, <2>2, <2>3, <2>4, BurstCarries
<1>3. CASE ~s.burst.active
  <2> DEFINE t == u.trace[i]
             read == [s EXCEPT !.line = s.line + 1]
  <2>1. i = s.line /\ i \in DOMAIN u.trace /\ c = InjectCycle(u, s, t)
    BY <1>3 DEF LineStep
  <2>2. s.line \in Nat /\ ~(s.line > Len(u.trace))
    BY <1>1, <1>3 DEF TraceNext, Streams, Positive
  <2>3. x = IF t.op \in {"BR", "BW"}
            THEN EmitBurst(u, [read EXCEPT !.burst = BurstOf(u, read, t)])
            ELSE IF t.op = "M" THEN EmitControl(u, read, t)
            ELSE EmitSingle(u, read, t)
    BY <1>1, <1>3, <2>1, <2>2 DEF TraceNext
  <2>4. t \in TraceLines /\ LineAllowed(u.org, t)
    BY <2>1, LineOf
  <2>5. /\ read \in Streams(u) /\ read.lastWrites = s.lastWrites
        /\ read.nextId = s.nextId
    <3>1. s.line + 1 \in Positive
      BY <2>2 DEF Positive
    <3>2. \A m \in Positive : LET y == [s EXCEPT !.line = m]
            IN y \in Streams(u) /\ y.lastWrites = s.lastWrites /\ y.nextId = s.nextId
      BY DEF Streams
    <3> QED BY <3>1, <3>2
  <2> HIDE DEF read, t
  <2>6. c \in Nat /\ c = InjectCycle(u, read, t)
    BY <2>1, <2>4, <2>5, InjectCycleNat DEF InjectCycle
  <2>7. CASE IsBurst(t)
    <3> DEFINE b == BurstOf(u, read, t)
               open == [read EXCEPT !.burst = b]
    <3>1. b = BurstAt(t, c, 0)
      <4>1. TypeOf(t) = IF t.op = "BW" THEN "write" ELSE "read"
        BY <2>7 DEF TypeOf, IsBurst
      <4>2. BurstOf(u, read, t) =
              [active |-> TRUE, type |-> IF t.op = "BW" THEN "write" ELSE "read",
               address |-> t.address, cycle |-> c, count |-> t.length,
               line |-> 0, data |-> t.data, check |-> t.check, stack |-> t.stack]
        BY <2>6, Zenon DEF BurstOf
      <4>3. BurstAt(t, c, 0) =
              [active |-> TRUE, type |-> IF t.op = "BW" THEN "write" ELSE "read",
               address |-> t.address, cycle |-> c, count |-> t.length,
               line |-> 0, data |-> t.data, check |-> t.check, stack |-> t.stack]
        BY <4>1, Zenon DEF BurstAt
      <4> QED BY <4>2, <4>3
    <3>2. b \in Bursts
      <4>1. 0 \in Nat
        OBVIOUS
      <4> QED BY <2>4, <2>6, <2>7, <3>1, <4>1, BurstAtTyped
    <3> HIDE DEF b
    <3>3. \A z \in Bursts : LET y == [read EXCEPT !.burst = z]
            IN y \in Streams(u) /\ y.burst = z /\ y.lastWrites = read.lastWrites
      BY <2>5 DEF Streams
    <3>4. open \in Streams(u) /\ open.burst = b /\ open.lastWrites = s.lastWrites
      BY <2>5, <3>2, <3>3
    <3>5. x = EmitBurst(u, open)
      BY <2>3, <2>7 DEF b, IsBurst
    <3> HIDE DEF open
    <3>6. 0 \in Nat
      OBVIOUS
    <3>7. Carries(EmitBurst(u, open), t, open.lastWrites)
      BY <2>4, <2>6, <2>7, <3>1, <3>4, <3>5, <3>6, BurstCarries
    <3> QED BY <3>4, <3>5, <3>7 DEF t
  <2>8. CASE TypeOf(t) = "control"
    BY <2>8 DEF Carries, t
  <2>9. CASE ~IsBurst(t) /\ TypeOf(t) # "control"
    <3>1. x = EmitSingle(u, read, t)
      BY <2>3, <2>9 DEF IsBurst, TypeOf
    <3>2. Carries(EmitSingle(u, read, t), t, read.lastWrites)
      BY <2>4, <2>5, <2>9, <3>1, SingleCarries
    <3> QED BY <2>5, <3>1, <3>2 DEF t
  <2> QED BY <2>7, <2>8, <2>9
<1> QED BY <1>2, <1>3

\* The steps of a line of a trace, counted from 0.
LEMMA StepsOf ==
  ASSUME NEW u, Legal(u), NEW i \in DOMAIN u.trace
  PROVE  /\ HostLines(u.trace[i]) \in Nat \ {0} /\ i \in Nat
         /\ \A m : m \in HostSteps(u.trace[i]) <=> m \in Nat /\ m < HostLines(u.trace[i])
<1>1. HostLines(u.trace[i]) \in Nat \ {0}
  BY LineOf
<1>2. i \in Nat
  BY LegalParts, LenProperties
<1> DEFINE h == HostLines(u.trace[i])
<1>3. HostSteps(u.trace[i]) = 0 .. h - 1
  BY DEF HostSteps
<1> HIDE DEF h
<1>4. h \in Nat \ {0} => \A m : m \in 0 .. h - 1 <=> m \in Nat /\ m < h
  OBVIOUS
<1> QED BY <1>1, <1>2, <1>3, <1>4 DEF h

\* What was handed out is what comes before the request handed out next.
LEMMA EmittedBefore ==
  ASSUME NEW u, Legal(u), NEW s \in Streams(u),
         NEW x, NEW i, NEW c, NEW n, LineStep(u, s, x, i, c, n),
         NEW j \in DOMAIN u.trace, NEW m \in HostSteps(u.trace[j])
  PROVE  Emitted(s, j, m) <=> j < i \/ (j = i /\ m < n)
<1>1. /\ i \in DOMAIN u.trace /\ n \in Nat /\ n < HostLines(u.trace[i])
      /\ s.burst.active => i = s.line - 1 /\ s.burst = BurstAt(u.trace[i], c, n)
      /\ ~s.burst.active => i = s.line /\ n = 0
  BY DEF LineStep
<1>2. s.line \in Nat /\ i \in Nat /\ j \in Nat /\ m \in Nat
  BY <1>1, StepsOf DEF Streams, Positive
<1>3. CASE s.burst.active
  <2>1. s.burst.line = n /\ i = s.line - 1
    BY <1>1, <1>3 DEF BurstAt
  <2> QED BY <1>3, <2>1 DEF Emitted
<1>4. CASE ~s.burst.active
  <2>1. i = s.line /\ n = 0
    BY <1>1, <1>4
  <2> QED BY <1>2, <1>4, <2>1 DEF Emitted
<1> QED BY <1>3, <1>4

\* Handing out one adds it.
LEMMA EmittedThen ==
  ASSUME NEW u, Legal(u), NEW s \in Streams(u),
         NEW x, ~x.next.failed, NEW i, NEW c, NEW n, LineStep(u, s, x, i, c, n),
         NEW j \in DOMAIN u.trace, NEW m \in HostSteps(u.trace[j])
  PROVE  Emitted(x.next, j, m) <=> j < i \/ (j = i /\ m <= n)
<1> DEFINE h == HostLines(u.trace[i])
           b == x.next.burst
<1>1. /\ i \in DOMAIN u.trace /\ n \in Nat /\ n < h /\ x.next.line = i + 1
      /\ b = IF n + 1 < h THEN BurstAt(u.trace[i], c, n + 1) ELSE NoBurst
  BY DEF LineStep
<1>2. h \in Nat /\ i \in Nat /\ j \in Nat /\ m \in Nat /\ (j = i => m < h)
  BY <1>1, StepsOf
<1>3. x.next.line - 1 = i
  BY <1>1, <1>2
<1>4. Emitted(x.next, j, m) <=> j < i \/ (j = i /\ (b.active => m < b.line))
  BY <1>3 DEF Emitted
<1> HIDE DEF h, b
<1>5. CASE n + 1 < h
  <2>1. b.active /\ b.line = n + 1
    BY <1>1, <1>5 DEF BurstAt
  <2> QED BY <1>1, <1>2, <1>4, <2>1
<1>6. CASE ~(n + 1 < h)
  <2>1. ~b.active
    BY <1>1, <1>6 DEF NoBurst
  <2> QED BY <1>1, <1>2, <1>4, <1>6, <2>1
<1> QED BY <1>5, <1>6

\* Host lines of one key have the same addresses.
LEMMA SameKeySameBytes ==
  ASSUME NEW u, Legal(u), NEW i \in DOMAIN u.trace, NEW n \in Nat,
         NEW j \in DOMAIN u.trace, NEW m \in Nat, LineKey(u, j, m) = LineKey(u, i, n)
  PROVE  \A x : SystemByte(u, j, m, x) = SystemByte(u, i, n, x)
<1>1. /\ u.trace[j].address + m * u.org.line = u.trace[i].address + n * u.org.line
      /\ u.trace[j].stack = u.trace[i].stack
  BY DEF LineKey
<1> QED BY <1>1 DEF SystemByte

\* Only reads of a trace are checked.
LEMMA CheckedReads ==
  ASSUME NEW u, Legal(u), NEW i \in DOMAIN u.trace, u.trace[i].check # "none"
  PROVE  TypeOf(u.trace[i]) = "read"
<1>1. u.trace[i] \in TraceLines /\ LineAllowed(u.org, u.trace[i])
  BY LineOf
<1> QED BY <1>1, LineTyped

\* The memory after host line n of line i of the trace.
Wrote(u, h, i, n, mem, mem2) ==
  /\ \A x \in 1 .. u.trace[i].size : h.type = "write" /\ Enabled(h, x) =>
       Known(mem2, SystemByte(u, i, n, x)) = h.payload[x]
  /\ \A a : (h.type = "write" => a \notin Touches(u, i, n)) => Known(mem2, a) = Known(mem, a)

\* A write of a trace has the bytes its line spells out.
LEMMA WrittenSize ==
  ASSUME NEW u, Legal(u), NEW s, NEW x, x.host \in Hosts(u), ~x.next.failed,
         NEW t, NEW c, NEW n, LineEmitted(u, s, x, t, c, n), x.host.type = "write"
  PROVE  HostBytes(u, x.host) = t.size /\ Len(x.host.payload) = t.size
<1>1. HostBytes(u, x.host) = t.size
  BY DEF LineEmitted, SizeGiven
<1>2. x.host.payload # <<>>
  BY DEF Hosts, HostSound
<1> QED BY <1>1, <1>2, HostLine

\* What reads to come will expect stays in the memory, or is put there.
LEMMA StaysBacked ==
  ASSUME NEW u, Legal(u), u.source = "trace", NEW s \in Streams(u), InTrace(u, s),
         NEW x \in TraceNext(u, s), x.host \in Hosts(u), ~x.next.failed,
         NEW i, NEW c, NEW n, LineStep(u, s, x, i, c, n),
         NEW mem, NEW mem2, Wrote(u, x.host, i, n, mem, mem2), Backed(u, s, mem)
  PROVE  Backed(u, x.next, mem2)
<1> SUFFICES ASSUME NEW i2 \in DOMAIN u.trace, NEW n2 \in HostSteps(u.trace[i2]),
                    NEW j \in DOMAIN u.trace, NEW m \in HostSteps(u.trace[j]),
                    u.trace[i2].check \in {"last_write", "auto"}, ReadsBack(u, i2, n2, j, m),
                    Emitted(x.next, j, m), ~Emitted(x.next, i2, n2)
             PROVE  /\ LineKey(u, i2, n2) \in DOMAIN x.next.lastWrites
                    /\ Len(x.next.lastWrites[LineKey(u, i2, n2)]) = u.trace[j].size
                    /\ \A y \in 1 .. u.trace[j].size :
                         x.next.lastWrites[LineKey(u, i2, n2)][y]
                           = Known(mem2, SystemByte(u, i2, n2, y))
  BY DEF Backed
<1> DEFINE t == u.trace[i]
           K == LineKey(u, i2, n2)
           w == s.lastWrites
           w2 == x.next.lastWrites
<1>1. /\ LineEmitted(u, s, x, t, c, n) /\ i \in DOMAIN u.trace /\ n \in Nat
      /\ n < HostLines(t)
  BY DEF LineStep
<1>2. /\ w2 = RememberWrite(u, s, x.host) /\ x.host.type = TypeOf(t)
      /\ AddressKey(x.host) = LineKey(u, i, n)
  <2>1. AddressKey(x.host) = LineKey(u, i, n)
    BY <1>1, KeyOfLine DEF LineKey
  <2> QED BY <1>1, <2>1 DEF LineEmitted
<1>3. TracksLastWrites(u)
  BY DEF TracksLastWrites
<1>4. w2 = IF x.host.type = "write" THEN With(w, LineKey(u, i, n), x.host.payload) ELSE w
  BY <1>2, <1>3 DEF RememberWrite
<1>5. /\ i \in Nat /\ i2 \in Nat /\ j \in Nat /\ m \in Nat /\ n2 \in Nat
      /\ n \in HostSteps(t)
  BY <1>1, StepsOf
<1>6. /\ Emitted(s, j, m) <=> j < i \/ (j = i /\ m < n)
      /\ j < i \/ (j = i /\ m <= n)
      /\ ~(i2 < i \/ (i2 = i /\ n2 <= n))
      /\ ~Emitted(s, i2, n2)
  <2>1. Emitted(s, j, m) <=> j < i \/ (j = i /\ m < n)
    BY EmittedBefore
  <2>2. j < i \/ (j = i /\ m <= n)
    BY EmittedThen
  <2>3. ~(i2 < i \/ (i2 = i /\ n2 <= n))
    BY EmittedThen
  <2>4. Emitted(s, i2, n2) <=> i2 < i \/ (i2 = i /\ n2 < n)
    BY EmittedBefore
  <2> QED BY <1>1, <1>5, <2>1, <2>2, <2>3, <2>4
<1>7. TypeOf(u.trace[i2]) = "read"
  BY CheckedReads
<1>8. /\ j < i2 /\ TypeOf(u.trace[j]) = "write" /\ u.trace[j].mask = <<>>
      /\ LineKey(u, j, m) = K
      /\ \A k \in j .. i2 - 1 : \A o \in HostSteps(u.trace[k]) :
           TypeOf(u.trace[k]) = "write" /\ (k > j \/ o > m) =>
             Touches(u, k, o) \cap Touches(u, j, m) = {}
  BY DEF ReadsBack
<1>9. CASE j = i /\ m = n
  <2>1. x.host.type = "write" /\ LineKey(u, i, n) = K
    BY <1>2, <1>8, <1>9
  <2>2. K \in DOMAIN w2 /\ w2[K] = x.host.payload
    BY <1>4, <2>1 DEF With
  <2>3. x.host.mask = <<>>
    <3>1. Carries(x, t, w)
      BY TraceCarries
    <3> QED BY <1>2, <1>8, <1>9, <2>1, <3>1 DEF Carries
  <2>4. \A y \in 1 .. t.size :
          Known(mem2, SystemByte(u, i, n, y)) = x.host.payload[y]
    BY <2>1, <2>3 DEF Wrote, Enabled
  <2>5. \A y : SystemByte(u, i, n, y) = SystemByte(u, i2, n2, y)
    BY <1>1, <1>5, <2>1, SameKeySameBytes
  <2>6. Len(x.host.payload) = t.size
    BY <1>1, <2>1, WrittenSize
  <2> QED BY <1>9, <2>2, <2>4, <2>5, <2>6
<1>10. CASE ~(j = i /\ m = n)
  <2>1. Emitted(s, j, m)
    BY <1>1, <1>5, <1>6, <1>10
  <2>2. /\ K \in DOMAIN w /\ Len(w[K]) = u.trace[j].size
        /\ \A y \in 1 .. u.trace[j].size : w[K][y] = Known(mem, SystemByte(u, i2, n2, y))
    BY <1>6, <2>1 DEF Backed
  <2>3. CASE x.host.type # "write"
    <3>1. \A a : Known(mem2, a) = Known(mem, a)
      BY <2>3 DEF Wrote
    <3> QED BY <1>4, <2>2, <2>3, <3>1
  <2>4. CASE x.host.type = "write"
    <3>1. i \in j .. i2 - 1 /\ (i > j \/ n > m)
      <4>1. i # i2
        BY <1>2, <1>7, <2>4
      <4> QED BY <1>1, <1>5, <1>6, <1>10, <4>1
    <3>2. Touches(u, i, n) \cap Touches(u, j, m) = {}
      BY <1>2, <1>5, <1>8, <2>4, <3>1
    <3>3. \A y \in 1 .. u.trace[j].size : SystemByte(u, i2, n2, y) \in Touches(u, j, m)
      <4>1. \A y : SystemByte(u, j, m, y) = SystemByte(u, i2, n2, y)
        BY <1>5, <1>8, SameKeySameBytes
      <4> QED BY <4>1 DEF Touches
    <3>4. \A y \in 1 .. u.trace[j].size :
            Known(mem2, SystemByte(u, i2, n2, y)) = Known(mem, SystemByte(u, i2, n2, y))
      BY <3>2, <3>3 DEF Wrote
    <3>5. LineKey(u, i, n) # K
      <4> SUFFICES ASSUME LineKey(u, i, n) = K
                   PROVE  FALSE
        OBVIOUS
      <4>1. \A y : SystemByte(u, i, n, y) = SystemByte(u, i2, n2, y)
        BY <1>1, <1>5, SameKeySameBytes
      <4>2. 1 \in 1 .. t.size /\ 1 \in 1 .. u.trace[j].size
        <5>1. t.size \in Nat \ {0} /\ u.trace[j].size \in Nat \ {0}
          BY <1>1, LineOf, LineTyped
        <5> QED BY <5>1
      <4>3. SystemByte(u, i, n, 1) \in Touches(u, i, n)
        BY <4>2 DEF Touches
      <4> QED BY <3>2, <3>3, <4>1, <4>2, <4>3
    <3>6. K \in DOMAIN w2 /\ w2[K] = w[K]
      <4> HIDE DEF K
      <4> QED BY <1>4, <2>2, <2>4, <3>5 DEF With
    <3> QED BY <2>2, <3>4, <3>6
  <2> QED BY <2>3, <2>4
<1> QED BY <1>9, <1>10

\* A read expects what the memory holds.
LEMMA ReadBacked ==
  ASSUME NEW u, Legal(u), u.source = "trace", ChecksHold(u),
         NEW s \in Streams(u), InTrace(u, s),
         NEW x \in TraceNext(u, s), ~x.next.failed,
         NEW i, NEW c, NEW n, LineStep(u, s, x, i, c, n),
         NEW mem, Backed(u, s, mem), x.host.type = "read", x.host.expected # <<>>
  PROVE  \A y \in 1 .. Len(x.host.expected) :
           x.host.expected[y] = Known(mem, SystemByte(u, i, n, y))
<1> DEFINE t == u.trace[i]
           w == s.lastWrites
<1>1. /\ LineEmitted(u, s, x, t, c, n) /\ i \in DOMAIN u.trace /\ n \in Nat
      /\ n < HostLines(t)
  BY DEF LineStep
<1>2. x.host.type = TypeOf(t) /\ AddressKey(x.host) = LineKey(u, i, n)
  <2>1. AddressKey(x.host) = LineKey(u, i, n)
    BY <1>1, KeyOfLine DEF LineKey
  <2> QED BY <1>1, <2>1 DEF LineEmitted
<1>3. Carries(x, t, w)
  BY TraceCarries
<1>4. t.check # "none"
  BY <1>2, <1>3 DEF Carries
<1>5. n \in HostSteps(t) /\ i \in Nat
  BY <1>1, StepsOf
<1>6. /\ t.check = "last_write" \/ (t.check = "auto" /\ IsBurst(t))
      /\ \E j \in DOMAIN u.trace : \E m \in HostSteps(u.trace[j]) : ReadsBack(u, i, n, j, m)
  BY <1>1, <1>4, <1>5 DEF ChecksHold
<1>7. PICK j \in DOMAIN u.trace : \E m \in HostSteps(u.trace[j]) : ReadsBack(u, i, n, j, m)
  BY <1>6
<1>8. PICK m \in HostSteps(u.trace[j]) : ReadsBack(u, i, n, j, m)
  BY <1>7
<1>9. Emitted(s, j, m) /\ ~Emitted(s, i, n)
  <2>1. j < i
    BY <1>8 DEF ReadsBack
  <2>2. Emitted(s, j, m) <=> j < i \/ (j = i /\ m < n)
    BY EmittedBefore
  <2>3. Emitted(s, i, n) <=> i < i \/ (i = i /\ n < n)
    BY <1>1, <1>5, EmittedBefore
  <2> QED BY <1>1, <1>5, <2>1, <2>2, <2>3
<1>10. /\ LineKey(u, i, n) \in DOMAIN w
       /\ Len(w[LineKey(u, i, n)]) = u.trace[j].size
       /\ \A y \in 1 .. u.trace[j].size :
            w[LineKey(u, i, n)][y] = Known(mem, SystemByte(u, i, n, y))
  BY <1>1, <1>5, <1>6, <1>8, <1>9 DEF Backed
<1>11. x.host.expected = w[LineKey(u, i, n)]
  BY <1>2, <1>3, <1>6, <1>10 DEF Carries
<1> QED BY <1>10, <1>11

-----------------------------------------------------------------------------
(* What a transaction of the source expects *)

\* What a transaction expects and where it goes.
Asks(r, q) ==
  /\ r.type = q.type /\ r.stack = q.stack /\ (r.explicit <=> q.explicit)
  /\ r.address = q.address /\ r.size = q.size /\ r.expected = q.expected

\* The same is promised to both.
LEMMA AsksSame ==
  ASSUME NEW u, NEW mem, NEW q, NEW r, Asks(r, q)
  PROVE  (Checked(r) <=> Checked(q)) /\ Owes(u, mem, r) = Owes(u, mem, q)
<1>1. \A x : AddressIn(u, r, x) = AddressIn(u, q, x)
  BY DEF Asks, AddressIn
<1> QED BY <1>1 DEF Asks, Checked, Owes

\* A memory with the same bytes owes the same.
LEMMA OwesSame ==
  ASSUME NEW u, NEW mem, NEW mem2, \A a : Known(mem2, a) = Known(mem, a), NEW r
  PROVE  Owes(u, mem2, r) = Owes(u, mem, r)
BY DEF Owes

\* The number a transaction is given does not matter.
LEMMA WaitingAsks ==
  ASSUME NEW s, s \in Seq(Incoming(setup)), s # <<>>, NEW n,
         held' = {[Head(s) EXCEPT !.id = n]}, stream'.pending = Tail(s)
  PROVE  \A r \in Waiting' : \E j \in DOMAIN s : Asks(r, s[j])
<1> DEFINE e == [Head(s) EXCEPT !.id = n]
           t == Tail(s)
<1>1. /\ Head(s) \in Incoming(setup) /\ 1 \in DOMAIN s /\ Head(s) = s[1]
      /\ \A j \in DOMAIN t : j + 1 \in DOMAIN s /\ t[j] = s[j + 1]
  BY Tails
<1>2. Asks(e, Head(s))
  BY <1>1 DEF Asks, Incoming, Parts, PartRecords
<1>3. Waiting' = {e} \cup {t[j] : j \in DOMAIN t}
  BY DEF Waiting
<1>4. \A r : Asks(r, r)
  BY DEF Asks
<1> HIDE DEF e, t
<1> QED BY <1>1, <1>2, <1>3, <1>4

\* What the memory becomes when a host line is handed out.
LEMMA HostWrites ==
  ASSUME Legal(setup), NEW h, Proper(setup, h),
         NEW i, NEW n, \A x : AddressOf(setup, h, x) = SystemByte(setup, i, n, x),
         h.type = "write" => HostBytes(setup, h) = setup.trace[i].size
  PROVE  Wrote(setup, h, i, n, memory, MemoryAfter(h))
<1>1. \A x \in 1 .. setup.trace[i].size : h.type = "write" /\ Enabled(h, x) =>
        Known(MemoryAfter(h), SystemByte(setup, i, n, x)) = h.payload[x]
  BY MemoryOfHost
<1>2. ASSUME NEW a, h.type = "write" => a \notin Touches(setup, i, n)
      PROVE  Known(MemoryAfter(h), a) = Known(memory, a)
  <2>1. \A x \in 1 .. HostBytes(setup, h) : h.type = "write" => AddressOf(setup, h, x) # a
    BY <1>2 DEF Touches
  <2> QED BY <2>1, MemoryOfHost
<1> QED BY <1>1, <1>2 DEF Wrote

\* Host lines that differ in their number and their cycle only.
SameBytes(h, z) ==
  /\ h.type = z.type /\ h.address = z.address /\ h.stack = z.stack
  /\ h.explicit = z.explicit /\ h.expected = z.expected
  /\ h.payload = z.payload /\ h.mask = z.mask

\* They write the same.
LEMMA WritesSame ==
  ASSUME NEW u, NEW h, NEW z, SameBytes(h, z), NEW i, NEW n, NEW mem, NEW mem2,
         Wrote(u, h, i, n, mem, mem2)
  PROVE  Wrote(u, z, i, n, mem, mem2)
<1>1. \A x : Enabled(h, x) <=> Enabled(z, x)
  BY DEF Enabled, SameBytes
<1> QED BY <1>1 DEF Wrote, SameBytes

\* What the next host line expects is in the memory, and so is what those after it
\* will expect.
LEMMA HostPromised ==
  ASSUME Legal(setup), ChecksHold(setup), stream \in Streams(setup), OnCourse(setup, stream),
         NEW y, Advances(setup, stream, y), ~y.next.failed,
         y.host.type # "control" => Proper(setup, y.host), Backed(setup, stream, memory)
  PROVE  /\ Backed(setup, y.next, MemoryAfter(y.host))
         /\ y.host.type = "read" /\ y.host.expected # <<>> =>
              \A x \in 1 .. Len(y.host.expected) :
                y.host.expected[x] = Known(memory, AddressOf(setup, y.host, x))
<1> DEFINE u == setup
           s == stream
<1>1. CASE /\ s.control < Controls(u) /\ y.host.type = "control"
           /\ y.next = [s EXCEPT !.control = s.control + 1]
  <2>1. /\ y.next.line = s.line /\ y.next.burst = s.burst
        /\ y.next.lastWrites = s.lastWrites
    BY <1>1 DEF Streams
  <2>2. y.host \in Hosts(u)
    BY DEF Advances, Taken
  <2>3. y.host.payload = <<>>
    BY <1>1, <2>2 DEF Hosts, HostSound, Bytes
  <2>4. \A a : Known(MemoryAfter(y.host), a) = Known(memory, a)
    BY <2>3, NothingRemembered
  <2> QED BY <1>1, <2>1, <2>4 DEF Backed, Emitted
<1>2. CASE \E z \in IF u.source = "trace" THEN TraceNext(u, s) ELSE SyntheticNext(u, s) :
             /\ Takes(u, s, z) /\ y.next = z.next
             /\ y.host = [z.host EXCEPT !.id = z.host.id + Controls(u),
                                        !.cycle = z.host.cycle + Shift(u)]
  <2>1. PICK z \in IF u.source = "trace" THEN TraceNext(u, s) ELSE SyntheticNext(u, s) :
          /\ Takes(u, s, z) /\ y.next = z.next
          /\ y.host = [z.host EXCEPT !.id = z.host.id + Controls(u),
                                     !.cycle = z.host.cycle + Shift(u)]
    BY <1>2
  <2>2. z.host \in HostRecords
    BY <2>1 DEF Takes, Taken, Hosts
  <2>3. SameBytes(y.host, z.host)
    <3>1. \A k : \A c : LET g == [z.host EXCEPT !.id = k, !.cycle = c]
            IN /\ g.type = z.host.type /\ g.stack = z.host.stack
               /\ g.explicit = z.host.explicit /\ g.address = z.host.address
               /\ g.expected = z.host.expected /\ g.payload = z.host.payload
               /\ g.mask = z.host.mask
      BY <2>2 DEF HostRecords
    <3>2. /\ y.host.type = z.host.type /\ y.host.stack = z.host.stack
          /\ y.host.explicit = z.host.explicit /\ y.host.address = z.host.address
          /\ y.host.expected = z.host.expected /\ y.host.payload = z.host.payload
          /\ y.host.mask = z.host.mask
      BY <2>1, <3>1
    <3> QED BY <3>2 DEF SameBytes
  <2>4. CASE u.source = "trace"
    <3>1. z \in TraceNext(u, s) /\ InTrace(u, s)
      BY <2>1, <2>4 DEF OnCourse
    <3>2. PICK i \in DOMAIN u.trace : \E c \in Nat : \E n \in Nat : LineStep(u, s, z, i, c, n)
      BY <3>1, TraceSteps
    <3>3. PICK c \in Nat : \E n \in Nat : LineStep(u, s, z, i, c, n)
      BY <3>2
    <3>4. PICK n \in Nat : LineStep(u, s, z, i, c, n)
      BY <3>3
    <3>5. LineEmitted(u, s, z, u.trace[i], c, n)
      BY <3>4 DEF LineStep
    <3>6. /\ y.host.address = u.trace[i].address + n * u.org.line
          /\ y.host.stack = u.trace[i].stack
          /\ (y.host.explicit <=> u.trace[i].stack # None)
      BY <2>3, <3>5 DEF LineEmitted, SameBytes
    <3>7. \A x : AddressOf(u, y.host, x) = SystemByte(u, i, n, x)
      BY <3>6 DEF AddressOf, SystemByte
    <3>10. ~z.next.failed /\ z.host \in Hosts(u)
      BY <2>1 DEF Takes, Taken
    <3>13. y.host.type = "write" => HostBytes(u, y.host) = u.trace[i].size
      <4>1. HostBytes(u, y.host) = HostBytes(u, z.host) /\ y.host.type = z.host.type
        BY <2>3, HostBytesOf DEF SameBytes
      <4> QED BY <3>5, <3>10, <4>1, WrittenSize
    <3>8. Wrote(u, y.host, i, n, memory, MemoryAfter(y.host))
      <4>1. CASE y.host.type # "control"
        BY <3>7, <3>13, <4>1, HostWrites
      <4>2. CASE y.host.type = "control"
        <5>1. y.host \in Hosts(u)
          BY DEF Advances, Taken
        <5>2. y.host.payload = <<>>
          BY <4>2, <5>1 DEF Hosts, HostSound, Bytes
        <5>3. \A a : Known(MemoryAfter(y.host), a) = Known(memory, a)
          BY <5>2, NothingRemembered
        <5> QED BY <4>2, <5>3 DEF Wrote
      <4> QED BY <4>1, <4>2
    <3>9. Wrote(u, z.host, i, n, memory, MemoryAfter(y.host))
      BY <2>3, <3>8, WritesSame
    <3>11. Backed(u, z.next, MemoryAfter(y.host))
      BY <2>4, <3>1, <3>4, <3>9, <3>10, StaysBacked
    <3>12. z.host.type = "read" /\ z.host.expected # <<>> =>
             \A x \in 1 .. Len(z.host.expected) :
               z.host.expected[x] = Known(memory, SystemByte(u, i, n, x))
      BY <2>4, <3>1, <3>4, <3>10, ReadBacked
    <3> QED BY <2>1, <2>3, <3>7, <3>11, <3>12 DEF SameBytes
  <2>5. CASE u.source # "trace"
    <3>1. Backed(u, y.next, MemoryAfter(y.host))
      BY <2>5 DEF Backed
    <3>2. z \in SyntheticNext(u, s)
      BY <2>1, <2>5
    <3>3. z.host.expected = <<>>
      <4>1. s.nextId < u.requests
        BY <3>2, LegalParts DEF Streams, SyntheticNext
      <4>2. PICK type \in TypesOf(u.readRatio), a \in SyntheticAddresses(u, s) :
              z = [host |-> [HostOf(s, type, a, s.nextId * u.interval, None) EXCEPT
                               !.payload = IF type = "write"
                                           THEN MakePayload(a, s.nextId, u.org.line)
                                           ELSE <<>>],
                   next |-> Accounted(s)]
        BY <3>2, <4>1, LegalParts DEF Streams, SyntheticNext
      <4> QED BY <4>2 DEF HostOf
    <3> QED BY <2>3, <3>1, <3>3 DEF SameBytes
  <2> QED BY <2>4, <2>5
<1> QED BY <1>1, <1>2 DEF Advances

\* A transaction expects its slice of what its host line expects.
LEMMA PartPromised ==
  ASSUME NEW u, Legal(u), NEW h \in Hosts(u), h.type # "control",
         h.address % u.org.transaction = 0, NEW i \in 0 .. Count(u, h) - 1, NEW mem,
         h.type = "read" /\ h.expected # <<>> =>
           \A x \in 1 .. Len(h.expected) : h.expected[x] = Known(mem, AddressOf(u, h, x)),
         Checked(PartOf(u, h, i))
  PROVE  PartOf(u, h, i).expected = Owes(u, mem, PartOf(u, h, i))
<1> DEFINE p == PartOf(u, h, i)
           T == p.size
           L == HostBytes(u, h)
           o == i * u.org.transaction
<1>1. /\ p \in Parts(u) /\ o \in Nat /\ Aligned(u, p)
      /\ p.type = h.type /\ p.stack = h.stack /\ p.explicit = h.explicit
      /\ p.address = h.address + o
      /\ \A d \in 1 .. T : o + d \in 1 .. L
  BY PartOfHost
<1>2. T \in Nat \ {0} /\ L \in Nat \ {0} /\ o + T <= L
  <2>1. p.type # "control"
    BY <1>1
  <2>2. T \in Nat \ {0}
    BY <1>1, <2>1, LegalParts DEF Aligned
  <2>3. L \in Nat \ {0}
    BY HostLine
  <2> HIDE DEF T, L, o, p
  <2> QED BY <1>1, <2>2, <2>3
<1>3. /\ h.address \in Nat /\ h.expected \in Seq(Byte)
      /\ h.expected = <<>> \/ Len(h.expected) = L
  BY HostLine DEF Hosts, HostRecords
<1>4. p.expected = Slice(h.expected, o, T)
  <2> DEFINE n == Min({u.org.transaction, HostBytes(u, h) - o})
  <2>1. p.expected = Slice(h.expected, o, n) /\ p.size = n
    BY DEF PartOf
  <2> HIDE DEF n
  <2> QED BY <2>1
<1>5. p.type = "read" /\ p.expected # <<>>
  BY DEF Checked
<1>6. /\ h.expected # <<>> => Len(p.expected) = T
      /\ h.expected = <<>> => p.expected = <<>>
      /\ h.expected # <<>> => \A d \in 1 .. T : p.expected[d] = h.expected[o + d]
      /\ p.expected \in Seq(Byte)
  <2> DEFINE g == h.expected
  <2>1. g = <<>> \/ o + T <= Len(g)
    BY <1>2, <1>3
  <2>2. g \in Seq(Byte)
    BY <1>3
  <2>4. o \in Nat
    BY <1>1, <1>2
  <2>5. T \in Nat \ {0}
    BY <1>2
  <2>3. p.expected = Slice(g, o, T)
    BY <1>4
  <2> SUFFICES /\ g # <<>> => Len(Slice(g, o, T)) = T
               /\ g = <<>> => Slice(g, o, T) = <<>>
               /\ g # <<>> => \A d \in 1 .. T : Slice(g, o, T)[d] = g[o + d]
               /\ Slice(g, o, T) \in Seq(Byte)
    BY <2>3
  <2> HIDE DEF o, T, p, g
  <2>6. /\ Slice(g, o, T) \in Seq(Byte)
        /\ g = <<>> => Slice(g, o, T) = <<>>
        /\ g # <<>> => /\ Len(Slice(g, o, T)) = T
                       /\ \A d \in 1 .. T : Slice(g, o, T)[d] = g[o + d]
    BY ONLY <2>1, <2>2, <2>4, <2>5, SliceOf
  <2> QED BY ONLY <2>6
<1>7. h.expected # <<>> /\ h.type = "read"
  BY <1>1, <1>5, <1>6
<1>8. ASSUME NEW d \in 1 .. T
      PROVE  p.expected[d] = Known(mem, AddressIn(u, p, d))
  <2>1. p.expected[d] = h.expected[o + d] /\ o + d \in 1 .. L
    BY <1>1, <1>6, <1>7
  <2>2. h.expected[o + d] = Known(mem, AddressOf(u, h, o + d))
    <3>1. o + d \in 1 .. Len(h.expected)
      BY <1>3, <1>7, <2>1
    <3> HIDE DEF o
    <3> QED BY <1>7, <3>1
  <2>3. p.address + (d - 1) = h.address + ((o + d) - 1)
    <3> HIDE DEF o, p
    <3> QED BY <1>1, <1>2, <1>3
  <2>4. AddressIn(u, p, d) = AddressOf(u, h, o + d)
    <3> HIDE DEF o, p
    <3> QED BY <1>1, <2>3 DEF AddressIn, AddressOf
  <2> QED BY <2>1, <2>2, <2>4
<1> DEFINE e == p.expected
<1>9. e \in [1 .. T -> Byte]
  <2>1. e \in Seq(Byte) /\ Len(e) = T
    BY <1>6, <1>7
  <2> HIDE DEF e
  <2> QED BY <2>1, LenProperties
<1>10. e = [d \in 1 .. T |-> e[d]]
  <2> HIDE DEF e
  <2> QED BY <1>9
<1>11. Owes(u, mem, p) = [d \in 1 .. T |-> Known(mem, AddressIn(u, p, d))]
  BY <1>2 DEF Owes
<1> HIDE DEF p, e
<1> QED BY <1>8, <1>10, <1>11 DEF e, p

-----------------------------------------------------------------------------
(* It stays what it is owed *)

AllChecked == \A u \in Setups : ChecksHold(u)

\* Taking a transaction from the source.
LEMMA FetchPromised ==
  ASSUME AllStraight, AllChecked, FrontendTyped, Smooth, BytesKept, Promised, Fetch
  PROVE  Promised'
<1>1. PICK x \in StreamNext(setup, stream) :
        /\ stream' = x.next /\ held' = {x.part}
        /\ memory' = IF x.hosts = {} THEN memory ELSE MemoryAfter(CHOOSE h \in x.hosts : TRUE)
  BY DEF Fetch
<1>2. held = {} /\ UNCHANGED <<setup, ingress, queues, store, log>>
  BY DEF Fetch
<1>3. /\ Legal(setup) /\ stream \in Streams(setup) /\ SoundWorkload(setup) /\ Straight(setup)
      /\ ChecksHold(setup) /\ lastCycle \in Nat
  BY SetupsAreLegal DEF FrontendTyped, SourceTyped, AllStraight, AllChecked
<1>4. FromPending(setup, stream, x) \/ FromSource(setup, stream, x)
  BY <1>3, StreamTyped
<1>5. stream.transactions \in Nat /\ stream.pending \in Seq(Incoming(setup))
  BY <1>3 DEF Streams
<1>6. QueuedRight' /\ IssuedRight'
  <2>1. Stacks' = Stacks /\ Controllers' = Controllers
    BY <1>2 DEF Stacks, Controllers, Channels
  <2> QED BY <1>2, <2>1 DEF Promised, QueuedRight, IssuedRight
<1>7. CASE FromPending(setup, stream, x)
  <2> DEFINE s == stream.pending
  <2>1. /\ s # <<>> /\ memory' = memory
        /\ held' = {[Head(s) EXCEPT !.id = stream.transactions]}
        /\ stream'.pending = Tail(s)
        /\ stream'.line = stream.line /\ stream'.burst = stream.burst
        /\ stream'.lastWrites = stream.lastWrites
    BY <1>1, <1>3, <1>7 DEF FromPending, Streams
  <2>2. \A j \in DOMAIN s : Checked(s[j]) => s[j].expected = Owes(setup, memory, s[j])
    BY DEF Promised, AwaitedRight, Waiting
  <2>3. \A r \in Waiting' : \E j \in DOMAIN s : Asks(r, s[j])
    <3> HIDE DEF s
    <3> QED BY <1>5, <2>1, WaitingAsks DEF s
  <2>4. ASSUME NEW r \in Waiting', Checked(r)
        PROVE  r.expected = Owes(setup, memory, r)
    <3>1. PICK j \in DOMAIN s : Asks(r, s[j])
      BY <2>3
    <3> DEFINE q == s[j]
    <3>2. Asks(r, q) /\ (Checked(q) => q.expected = Owes(setup, memory, q))
      BY <2>2, <3>1
    <3> HIDE DEF q
    <3>3. (Checked(r) <=> Checked(q)) /\ Owes(setup, memory, r) = Owes(setup, memory, q)
      BY <3>2, AsksSame
    <3> QED BY <2>4, <3>2, <3>3 DEF Asks
  <2>5. AwaitedRight'
    BY <1>2, <2>1, <2>4 DEF AwaitedRight
  <2>6. Backed(setup, stream', memory)
    BY <2>1 DEF Promised, Backed, Emitted
  <2> QED BY <1>2, <1>6, <2>1, <2>5, <2>6 DEF Promised
<1>8. CASE FromSource(setup, stream, x)
  <2>1. PICK y \in HostNext(setup, stream) :
          /\ Advances(setup, stream, y) /\ x.hosts = {y.host}
          /\ x.part = [Head(SplitHost(setup, y.host)) EXCEPT !.id = stream.transactions]
          /\ x.next = [y.next EXCEPT !.pending = Tail(SplitHost(setup, y.host)),
                                     !.transactions = stream.transactions + 1]
    BY <1>8 DEF FromSource
  <2> DEFINE h == y.host
             s == SplitHost(setup, h)
  <2>2. /\ h \in Hosts(setup) /\ y.next \in Streams(setup) /\ stream.pending = <<>>
    BY <1>8, <2>1 DEF FromSource, Advances, Taken
  <2>3. /\ held' = {[Head(s) EXCEPT !.id = stream.transactions]} /\ stream'.pending = Tail(s)
        /\ memory' = MemoryAfter(h)
        /\ stream'.line = y.next.line /\ stream'.burst = y.next.burst
        /\ stream'.lastWrites = y.next.lastWrites
    BY <1>1, <2>1, <2>2 DEF Streams
  <2>4. Follows(setup, stream, lastCycle, y.next, h, h.cycle)
    BY <1>3, <2>1, HostOnTime DEF Smooth
  <2>5. ~y.next.failed /\ (h.type # "control" => Proper(setup, h))
    <3>1. h.type # "control" => h.address % setup.org.transaction = 0
      BY <1>3, <2>1, HostAligned DEF Smooth
    <3> QED BY <2>2, <2>4, <3>1 DEF Follows, Aims, SplitSize, Count, Proper
  <2>6. /\ Backed(setup, y.next, MemoryAfter(h))
        /\ h.type = "read" /\ h.expected # <<>> =>
             \A b \in 1 .. Len(h.expected) :
               h.expected[b] = Known(memory, AddressOf(setup, h, b))
    BY <1>3, <2>1, <2>5, HostPromised DEF Promised, Smooth
  <2>7. Backed(setup, stream', memory')
    BY <2>3, <2>6 DEF Backed, Emitted
  <2> HIDE DEF h
  <2>8. /\ s \in Seq(Incoming(setup)) /\ s # <<>>
        /\ h.type # "control" => {s[j] : j \in DOMAIN s}
                                   = {PartOf(setup, h, i) : i \in 0 .. Count(setup, h) - 1}
    BY <1>3, <2>2, <2>5, SplitOneLine DEF OneLine
  <2>9. ASSUME NEW j \in DOMAIN s, Checked(s[j])
        PROVE  s[j].expected = Owes(setup, memory', s[j])
    <3>1. h.type = "read"
      <4>1. CASE h.type = "control"
        <5>1. Len(s) = 1 /\ s[1].type = "control" /\ s \in Seq(Incoming(setup))
          BY <1>3, <2>2, <4>1, SplitTyped, ControlPartTyped DEF SplitSize
        <5> HIDE DEF s
        <5>2. j = 1
          BY <2>9, <5>1
        <5> QED BY <2>9, <5>1, <5>2 DEF Checked
      <4>2. CASE h.type # "control"
        <5>1. PICK i \in 0 .. Count(setup, h) - 1 : s[j] = PartOf(setup, h, i)
          BY <2>8, <4>2
        <5>2. PartOf(setup, h, i).type = h.type
          BY DEF PartOf
        <5> QED BY <2>9, <5>1, <5>2 DEF Checked
      <4> QED BY <4>1, <4>2
    <3>2. h.payload = <<>>
      BY <2>2, <3>1 DEF Hosts, HostSound, Bytes
    <3>3. \A a : Known(memory', a) = Known(memory, a)
      BY <2>3, <3>2, NothingRemembered
    <3>4. PICK i \in 0 .. Count(setup, h) - 1 : s[j] = PartOf(setup, h, i)
      BY <2>8, <3>1
    <3>5. h.type # "control" /\ h.address % setup.org.transaction = 0
      BY <2>5, <3>1 DEF Proper
    <3>6. Checked(PartOf(setup, h, i))
      BY <2>9, <3>4
    <3>7. PartOf(setup, h, i).expected = Owes(setup, memory, PartOf(setup, h, i))
      <4>1. h.type = "read" /\ h.expected # <<>> =>
              \A b \in 1 .. Len(h.expected) :
                h.expected[b] = Known(memory, AddressOf(setup, h, b))
        BY <2>6 DEF h
      <4> QED BY <1>3, <2>2, <3>5, <3>6, <4>1, PartPromised
    <3>8. Owes(setup, memory', s[j]) = Owes(setup, memory, s[j])
      BY <3>3, OwesSame
    <3> QED BY <3>4, <3>7, <3>8
  <2> HIDE DEF s
  <2>10. \A r \in Waiting' : \E j \in DOMAIN s : Asks(r, s[j])
    BY <2>3, <2>8, WaitingAsks
  <2>11. ASSUME NEW r \in Waiting', Checked(r)
         PROVE  r.expected = Owes(setup, memory', r)
    <3>1. PICK j \in DOMAIN s : Asks(r, s[j])
      BY <2>10
    <3> DEFINE q == s[j]
    <3>2. Asks(r, q) /\ (Checked(q) => q.expected = Owes(setup, memory', q))
      BY <2>9, <3>1
    <3> HIDE DEF q
    <3>3. (Checked(r) <=> Checked(q)) /\ Owes(setup, memory', r) = Owes(setup, memory', q)
      BY <3>2, AsksSame
    <3> QED BY <2>11, <3>2, <3>3 DEF Asks
  <2>12. AwaitedRight'
    BY <1>2, <2>11 DEF AwaitedRight
  <2> QED BY <1>2, <1>6, <2>7, <2>12 DEF Promised
<1> QED BY <1>4, <1>7, <1>8

\* enqueue(): what it is owed is noted.
LEMMA EnqueuePromised ==
  ASSUME AllStraight, FrontendTyped, Smooth, Promised, Enqueue
  PROVE  Promised'
<1>1. PICK r \in Due :
       IF ~Routable(r)
       THEN /\ status' = "threw"
            /\ UNCHANGED <<held, ingress, cursor>>
       ELSE /\ ~Refused(r)
            /\ \E stack \in {TargetStack(r)} :
               \E routed \in {Localized([r EXCEPT !.owed = Owed(r)], stack)} :
                 /\ ingress' = [ingress EXCEPT ![stack] =
                      Append(ingress[stack], ToChannel(routed, stack,
                                                       TargetChannel(routed, stack)))]
                 /\ cursor' = IF setup.mapper = "round_robin" /\ Channels > 1
                                 /\ r.type # "control"
                              THEN [cursor EXCEPT ![stack] = cursor[stack] + 1] ELSE cursor
            /\ held' = {}
            /\ UNCHANGED status
  BY DEF Enqueue
<1>2. /\ setup' = setup /\ stream' = stream /\ queues' = queues /\ store' = store
      /\ log' = log /\ memory' = memory
  BY DEF Enqueue
<1>3. /\ setup \in Setups /\ Legal(setup) /\ r \in held /\ r \in Waiting
      /\ r \in Incoming(setup) /\ Deliverable(setup, r)
      /\ cursor \in [Stacks -> Nat] /\ memory \in Maps(Nat, Byte)
      /\ ingress \in [Stacks -> Seq(Parts(setup))]
  BY SetupsAreLegal DEF Due, FrontendTyped, SourceTyped, QueuesTyped, StoresTyped,
     Smooth, Waiting
<1>4. Routable(r)
  BY <1>3, DeliverableRoutable
<1> DEFINE k == TargetStack(r)
           o == [r EXCEPT !.owed = Owed(r)]
           q == Localized(o, k)
           e == ToChannel(q, k, TargetChannel(q, k))
<1>5. ingress' = [ingress EXCEPT ![k] = Append(ingress[k], e)] /\ held' = {}
  BY <1>1, <1>4
<1>6. k \in Stacks
  BY <1>3, <1>4, TargetTyped
<1>7. e \in Parts(setup)
  BY <1>3, <1>4, RoutedTyped
<1>8. r \in PartRecords(setup)
  BY <1>3 DEF Incoming, Parts
<1>9. e.type = r.type /\ e.expected = r.expected /\ e.owed = Owed(r)
  <2>1. q.type = r.type /\ q.expected = r.expected /\ q.owed = Owed(r)
    BY <1>8 DEF Localized, PartRecords
  <2>2. e.type = q.type /\ e.expected = q.expected /\ e.owed = q.owed
    BY <1>8 DEF ToChannel, Localized, PartRecords
  <2> QED BY <2>1, <2>2
<1> HIDE DEF k, o, q, e
<1>10. Right(e)
  <2> SUFFICES ASSUME Checked(e)
               PROVE  e.expected = e.owed
    BY DEF Right
  <2>1. Checked(r) /\ r.type = "read"
    BY <1>9 DEF Checked
  <2>2. r.expected = Owes(setup, memory, r)
    BY <1>3, <2>1 DEF Promised, AwaitedRight
  <2>3. \A x : Remembered(SystemAddress(r, x - 1)) = Known(memory, AddressIn(setup, r, x))
    BY DEF Remembered, SystemAddress, Known, AddressIn
  <2>4. Owed(r) = Owes(setup, memory, r)
    BY <2>1, <2>3 DEF Owed, Owes
  <2> QED BY <1>9, <2>2, <2>4
<1>11. Stacks' = Stacks /\ Controllers' = Controllers /\ Waiting' \subseteq Waiting
  BY <1>2, <1>5 DEF Stacks, Controllers, Channels, Waiting
<1> DEFINE a == Append(ingress[k], e)
<1>12. /\ \A j \in DOMAIN a : (j \in DOMAIN ingress[k] /\ a[j] = ingress[k][j]) \/ a[j] = e
  BY <1>3, <1>6, <1>7, Appends
<1>13. \A m \in Stacks : ingress'[m] = IF m = k THEN a ELSE ingress[m]
  BY <1>3, <1>5, <1>6
<1> HIDE DEF a
<1>14. QueuedRight'
  <2>1. ASSUME NEW m \in Stacks, NEW i \in DOMAIN ingress'[m]
        PROVE  Right(ingress'[m][i])
    <3>1. CASE m = k
      BY <1>6, <1>10, <1>12, <1>13, <3>1 DEF Promised, QueuedRight
    <3>2. CASE m # k
      BY <1>13, <3>2 DEF Promised, QueuedRight
    <3> QED BY <3>1, <3>2
  <2> QED BY <1>2, <1>11, <2>1 DEF Promised, QueuedRight
<1>15. AwaitedRight'
  BY <1>2, <1>11 DEF Promised, AwaitedRight
<1>16. IssuedRight' /\ Backed(setup, stream, memory)
  BY <1>2, <1>11 DEF Promised, IssuedRight
<1> QED BY <1>2, <1>14, <1>15, <1>16 DEF Promised

\* The step of the system moves transactions from queue to queue.
LEMMA StepPromised ==
  ASSUME FrontendTyped, Promised, StepBegins
  PROVE  Promised'
<1>1. /\ setup' = setup /\ stream' = stream /\ held' = held /\ memory' = memory
      /\ log' = log
      /\ queues' = [c \in Controllers |->
           IF ingress[StackOf(c)] # <<>> /\ Head(ingress[StackOf(c)]).at["channel"] = ChannelOf(c)
           THEN Append(queues[c], Head(ingress[StackOf(c)])) ELSE queues[c]]
      /\ ingress' = [k \in Stacks |-> IF ingress[k] = <<>> THEN <<>> ELSE Tail(ingress[k])]
  BY DEF StepBegins
<1>2. Stacks' = Stacks /\ Controllers' = Controllers /\ Waiting' = Waiting
  BY <1>1 DEF Stacks, Controllers, Channels, Waiting
<1>3. /\ \A k \in Stacks : ingress[k] \in Seq(Parts(setup))
      /\ \A d \in Controllers : StackOf(d) \in Stacks /\ queues[d] \in Seq(Parts(setup))
  BY SetupsAreLegal, StoreOf DEF FrontendTyped, QueuesTyped
<1>4. \A k \in Stacks : ingress[k] # <<>> =>
        /\ Head(ingress[k]) \in Parts(setup) /\ Right(Head(ingress[k]))
        /\ \A j \in DOMAIN Tail(ingress[k]) : Right(Tail(ingress[k])[j])
  BY <1>3, Tails DEF Promised, QueuedRight
<1>5. QueuedRight'
  <2>1. ASSUME NEW k \in Stacks, NEW i \in DOMAIN ingress'[k]
        PROVE  Right(ingress'[k][i])
    BY <1>1, <1>4, <2>1
  <2>2. ASSUME NEW d \in Controllers, NEW i \in DOMAIN queues'[d]
        PROVE  Right(queues'[d][i])
    <3> DEFINE g == ingress[StackOf(d)]
    <3>1. CASE g # <<>> /\ Head(g).at["channel"] = ChannelOf(d)
      <4>1. queues'[d] = Append(queues[d], Head(g))
        BY <1>1, <3>1
      <4>2. (i \in DOMAIN queues[d] /\ queues'[d][i] = queues[d][i]) \/ queues'[d][i] = Head(g)
        BY <1>3, <1>4, <2>2, <3>1, <4>1, Appends
      <4> QED BY <1>3, <1>4, <3>1, <4>2 DEF Promised, QueuedRight
    <3>2. CASE ~(g # <<>> /\ Head(g).at["channel"] = ChannelOf(d))
      <4>1. queues'[d] = queues[d]
        BY <1>1, <3>2
      <4> QED BY <2>2, <4>1 DEF Promised, QueuedRight
    <3> QED BY <3>1, <3>2
  <2> QED BY <1>1, <1>2, <2>1, <2>2 DEF QueuedRight
<1>6. AwaitedRight' /\ IssuedRight'
  BY <1>1, <1>2 DEF Promised, AwaitedRight, IssuedRight
<1> QED BY <1>1, <1>5, <1>6 DEF Promised

\* An RD takes what it expects and what it is owed from its request.
LEMMA TurnAnswers ==
  ASSUME FrontendTyped, NEW c \in Controllers, ControllerStep(c)
  PROVE  \/ log' = log
         \/ \E e : /\ e \in Entries(setup) /\ log' = [log EXCEPT ![c] = Append(log[c], e)]
                   /\ e.cmd = "RD" => \E i \in DOMAIN queues[c] :
                        /\ queues[c][i].type = "read"
                        /\ e.expected = queues[c][i].expected /\ e.owed = queues[c][i].owed
<1> DEFINE Answers(e) ==
      e.cmd = "RD" => \E i \in DOMAIN queues[c] :
        /\ queues[c][i].type = "read"
        /\ e.expected = queues[c][i].expected /\ e.owed = queues[c][i].owed
<1>1. CASE RowTurn(c)
  <2>1. AddsOther(c)
    BY <1>1, TurnAdds
  <2>2. \A e : ~IsColumn(e) => Answers(e)
    BY DEF IsColumn
  <2> HIDE DEF Answers
  <2>3. log' = log \/ \E e : /\ e \in Entries(setup)
                             /\ log' = [log EXCEPT ![c] = Append(log[c], e)] /\ Answers(e)
    BY <2>1, <2>2 DEF AddsOther, Adds
  <2> QED BY <2>3 DEF Answers
<1>2. CASE ColumnTurn(c)
  <2>1. CASE ReadColumn(c)
    <3>1. PICK i \in ReadyColumns(c) : \E r \in {queues[c][i]} :
            /\ r.type = "read"
            /\ \E got \in {FoldLeft(ReadPiece, [st |-> store[StackOf(c)], bytes |-> <<>>],
                                    Pieces(r))} :
                 log' = [log EXCEPT ![c] = Append(log[c], Entry(c, r, "RD", r.id, got.bytes))]
      BY <2>1 DEF ReadColumn
    <3>2. queues[c][i].type = "read" /\ i \in DOMAIN queues[c]
      BY <3>1 DEF ReadyColumns, Unordered
    <3>3. PICK p : log' = [log EXCEPT ![c] = Append(log[c], Entry(c, queues[c][i], "RD",
                                                                 queues[c][i].id, p))]
      BY <3>1
    <3> DEFINE e == Entry(c, queues[c][i], "RD", queues[c][i].id, p)
    <3>4. e.expected = queues[c][i].expected /\ e.owed = queues[c][i].owed
      BY DEF Entry
    <3>5. log' = [log EXCEPT ![c] = Append(log[c], e)]
      BY <3>3
    <3> HIDE DEF e
    <3>6. Answers(e)
      BY <3>2, <3>4
    <3>7. log' = log \/ e \in Entries(setup)
      BY <1>2, <3>5, AddsThis DEF Adds
    <3> HIDE DEF Answers
    <3>8. log' = log \/ \E x : /\ x \in Entries(setup)
                               /\ log' = [log EXCEPT ![c] = Append(log[c], x)] /\ Answers(x)
      BY <3>5, <3>6, <3>7
    <3> QED BY <3>8 DEF Answers
  <2>2. CASE WriteColumn(c)
    <3>1. PICK i \in ReadyColumns(c) :
            log' = [log EXCEPT ![c] =
                      Append(log[c], Entry(c, queues[c][i], "WR", queues[c][i].id,
                                           queues[c][i].payload))]
      BY <2>2, Zenon DEF WriteColumn
    <3> DEFINE e == Entry(c, queues[c][i], "WR", queues[c][i].id, queues[c][i].payload)
    <3>2. e.cmd # "RD"
      BY DEF Entry
    <3>3. log' = [log EXCEPT ![c] = Append(log[c], e)]
      BY <3>1
    <3> HIDE DEF e
    <3>4. Answers(e)
      BY <3>2
    <3>5. log' = log \/ e \in Entries(setup)
      BY <1>2, <3>3, AddsThis DEF Adds
    <3> HIDE DEF Answers
    <3>6. log' = log \/ \E x : /\ x \in Entries(setup)
                               /\ log' = [log EXCEPT ![c] = Append(log[c], x)] /\ Answers(x)
      BY <3>3, <3>4, <3>5
    <3> QED BY <3>6 DEF Answers
  <2>3. CASE HeldBack(ReadyColumns(c))
    BY <2>3 DEF HeldBack
  <2> QED BY <1>2, <2>1, <2>2, <2>3 DEF ColumnTurn
<1>3. CASE DropPrecharge(c)
  BY <1>3 DEF DropPrecharge
<1> QED BY <1>1, <1>2, <1>3 DEF ControllerStep

\* The step of a controller.
LEMMA TurnPromised ==
  ASSUME FrontendTyped, Promised, NEW c \in Controllers, ControllerStep(c)
  PROVE  Promised'
<1>1. UNCHANGED <<setup, stream, held, ingress, memory>> /\ Effect(c)
  BY TurnEffect
<1>2. Stacks' = Stacks /\ Controllers' = Controllers /\ Waiting' = Waiting
  BY <1>1 DEF Stacks, Controllers, Channels, Waiting
<1>3. queues \in [Controllers -> Seq(Parts(setup))] /\ log \in [Controllers -> Seq(Entries(setup))]
  BY DEF FrontendTyped, QueuesTyped, LogTyped
<1>4. QueuedRight'
  <2>1. \A d \in Controllers : \A i \in DOMAIN queues'[d] :
          \E m \in DOMAIN queues[d] : queues'[d][i] = queues[d][m]
    <3>1. CASE queues' = queues
      BY <3>1
    <3>2. CASE \E i : Serves(c, i)
      <4>1. PICK i : Serves(c, i)
        BY <3>2
      <4> DEFINE q == RemoveAt(queues[c], i)
      <4>2. i \in DOMAIN queues[c] /\ queues' = [queues EXCEPT ![c] = q]
        BY <4>1 DEF Serves
      <4>3. \A j \in DOMAIN q : \E m \in DOMAIN queues[c] : q[j] = queues[c][m]
        BY <1>3, <4>2, Removes
      <4> HIDE DEF q
      <4> QED BY <1>3, <4>2, <4>3
    <3> QED BY <1>1, <3>1, <3>2 DEF Effect
  <2>2. \A d \in Controllers : \A i \in DOMAIN queues'[d] : Right(queues'[d][i])
    BY <2>1 DEF Promised, QueuedRight
  <2> QED BY <1>1, <1>2, <2>2 DEF Promised, QueuedRight
<1>5. IssuedRight'
  <2> DEFINE Sound(e) == e.cmd = "RD" /\ e.expected # <<>> => e.expected = e.owed
  <2>1. \A d \in Controllers : \A i \in DOMAIN log[d] : Sound(log[d][i])
    BY DEF Promised, IssuedRight
  <2>2. \A d \in Controllers : \A i \in DOMAIN log'[d] : Sound(log'[d][i])
    <3>1. CASE log' = log
      BY <2>1, <3>1
    <3>2. CASE \E e : /\ e \in Entries(setup) /\ log' = [log EXCEPT ![c] = Append(log[c], e)]
                      /\ e.cmd = "RD" => \E i \in DOMAIN queues[c] :
                           /\ queues[c][i].type = "read"
                           /\ e.expected = queues[c][i].expected /\ e.owed = queues[c][i].owed
      <4>1. PICK e : /\ e \in Entries(setup) /\ log' = [log EXCEPT ![c] = Append(log[c], e)]
                     /\ e.cmd = "RD" => \E i \in DOMAIN queues[c] :
                          /\ queues[c][i].type = "read"
                          /\ e.expected = queues[c][i].expected /\ e.owed = queues[c][i].owed
        BY <3>2
      <4>2. Sound(e)
        BY <4>1 DEF Promised, QueuedRight, Right, Checked
      <4> DEFINE a == Append(log[c], e)
      <4>3. \A j \in DOMAIN a : (j \in DOMAIN log[c] /\ a[j] = log[c][j]) \/ a[j] = e
        BY <1>3, <4>1, Appends
      <4>4. \A d \in Controllers : log'[d] = IF d = c THEN a ELSE log[d]
        BY <1>3, <4>1
      <4> HIDE DEF a, Sound
      <4>5. ASSUME NEW d \in Controllers, NEW i \in DOMAIN log'[d]
            PROVE  Sound(log'[d][i])
        <5>1. CASE d = c
          BY <2>1, <4>2, <4>3, <4>4, <4>5, <5>1
        <5>2. CASE d # c
          BY <2>1, <4>4, <4>5, <5>2
        <5> QED BY <5>1, <5>2
      <4> QED BY <4>5
    <3> HIDE DEF Sound
    <3> QED BY <3>1, <3>2, TurnAnswers
  <2> QED BY <1>2, <2>2 DEF IssuedRight
<1>6. AwaitedRight' /\ Backed(setup, stream, memory)
  BY <1>1, <1>2 DEF Promised, AwaitedRight
<1> QED BY <1>1, <1>4, <1>5, <1>6 DEF Promised

\* Nothing is expected before anything is asked for.
LEMMA PromisedAtFirst == Init => Promised
<1> SUFFICES ASSUME Init
             PROVE  Promised
  OBVIOUS
<1>1. FrontendTyped /\ setup \in Setups /\ Legal(setup)
  BY InitTyped, SetupsAreLegal DEF Init
<1>2. DOMAIN <<>> = {}
  BY EmptySeq
<1>3. /\ held = {} /\ stream.pending = <<>> /\ stream.line = 1 /\ stream.burst = NoBurst
      /\ \A k \in Stacks : ingress[k] = <<>>
      /\ \A c \in Controllers : queues[c] = <<>> /\ log[c] = <<>>
  BY DEF Init, InitialStream
<1>4. Waiting = {}
  BY <1>2, <1>3 DEF Waiting
<1>5. AwaitedRight /\ QueuedRight /\ IssuedRight
  BY <1>2, <1>3, <1>4 DEF AwaitedRight, QueuedRight, IssuedRight
<1>6. Backed(setup, stream, memory)
  <2> SUFFICES ASSUME NEW j \in DOMAIN setup.trace, NEW m \in HostSteps(setup.trace[j]),
                      NEW i \in DOMAIN setup.trace, NEW n, ReadsBack(setup, i, n, j, m),
                      Emitted(stream, j, m), ~Emitted(stream, i, n)
               PROVE  FALSE
    BY DEF Backed
  <2>1. j \in Nat \ {0} /\ i \in Nat \ {0}
    BY <1>1, LegalParts, LenProperties
  <2>2. j < i /\ ~NoBurst.active
    BY DEF ReadsBack, NoBurst
  <2> QED BY <1>3, <2>1, <2>2 DEF Emitted
<1> QED BY <1>5, <1>6 DEF Promised

\* What a read expects is what it is owed, in every step.
LEMMA PromisesStay ==
  ASSUME AllStraight, AllChecked
  PROVE  FrontendTyped /\ Smooth /\ BytesKept /\ Promised /\ [Next]_vars => Promised'
<1> SUFFICES ASSUME FrontendTyped, Smooth, BytesKept, Promised, [Next]_vars
             PROVE  Promised'
  OBVIOUS
<1>1. CASE Fetch
  BY <1>1, FetchPromised
<1>2. CASE SourceEnds \/ Finish \/ UNCHANGED vars
  <2>1. UNCHANGED <<setup, stream, held, memory, ingress, queues, log>>
    BY <1>2 DEF SourceEnds, Finish, vars
  <2>2. Stacks' = Stacks /\ Controllers' = Controllers /\ Waiting' = Waiting
    BY <2>1 DEF Stacks, Controllers, Channels, Waiting
  <2> QED BY <2>1, <2>2 DEF Promised, AwaitedRight, QueuedRight, IssuedRight
<1>3. CASE Enqueue
  BY <1>3, EnqueuePromised
<1>4. CASE StepBegins
  BY <1>4, StepPromised
<1>5. CASE \E c \in Controllers : ControllerStep(c)
  BY <1>5, TurnPromised
<1> QED BY <1>1, <1>2, <1>3, <1>4, <1>5 DEF Next, ControllerStep

\* A read command of a run has the bytes it expects.
LEMMA ReadsMeet ==
  ASSUME FrontendTyped, BytesKept, Promised, NEW e \in Merged
  PROVE  ExpectationMet(e)
<1>1. PICK c \in Controllers : \E i \in 1 .. Len(log[c]) : e = Restored(c, i)
  BY MergedFrom
<1>2. PICK i \in 1 .. Len(log[c]) : e = Restored(c, i)
  BY <1>1
<1>3. e.cmd = log[c][i].cmd /\ e.payload = log[c][i].payload /\ e.expected = log[c][i].expected
  BY <1>2, MergedFrom
<1>4. log[c] \in Seq(Entries(setup)) /\ i \in DOMAIN log[c]
  <2>1. log[c] \in Seq(Entries(setup))
    BY DEF FrontendTyped, LogTyped
  <2> QED BY <2>1, LenProperties
<1>5. log[c][i].cmd \in Commands
  <2>1. log[c][i] \in Entries(setup)
    BY <1>4, ElementOfSeq
  <2> QED BY <2>1 DEF Entries
<1> SUFFICES ASSUME e.cmd \in ReadCommands, e.expected # <<>>
             PROVE  e.payload = e.expected
  BY DEF ExpectationMet
<1>6. log[c][i].cmd = "RD"
  BY <1>3, <1>5 DEF ReadCommands, Commands, ControlNames, TraceCommands
<1>7. log[c][i].payload = log[c][i].owed
  BY <1>4, <1>6 DEF BytesKept, ReadsReturnLastWrite
<1>8. log[c][i].expected = log[c][i].owed
  BY <1>3, <1>4, <1>6 DEF Promised, IssuedRight
<1> QED BY <1>3, <1>7, <1>8

\* The DFI trace of a run is accepted by its own validator.  It holds for workloads
\* that run well, whose transactions have a line of their own, and that expect of a
\* read what the last write to its bytes wrote: of every cycle and every command,
\* whatever number it has, the trace has exactly its events, and a read returns the
\* bytes its trace line asked for (build_dfi_trace(), validate_dfi_trace()).
THEOREM TracesAreAccepted ==
  ASSUME AllStraight, AllChecked
  PROVE  Spec => []DfiAccepts
<1>1. AllSound
  BY DEF AllStraight, AllSound
<1>2. Init => FrontendTyped /\ Smooth /\ BytesKept /\ TurnsKept /\ Promised
  <2> SUFFICES ASSUME Init
               PROVE  TurnsKept
    BY InitTyped, SmoothStarts, BytesStart, PromisedAtFirst
  <2>1. \A c \in Controllers : log[c] = <<>>
    BY DEF Init
  <2>2. Len(<<>>) = 0 /\ 1 .. 0 = {}
    BY EmptySeq
  <2>3. \A c : \A t : \A p : Paced(c, <<>>, t, p)
    BY <2>2 DEF Paced
  <2> QED BY <2>1, <2>3 DEF TurnsKept
<1>3. FrontendTyped /\ Smooth /\ BytesKept /\ TurnsKept /\ Promised /\ [Next]_vars
        => FrontendTyped' /\ Smooth' /\ BytesKept' /\ TurnsKept' /\ Promised'
  BY <1>1, NextTyped, SmoothStays, BytesStayKept, TurnsStay, PromisesStay
<1>4. FrontendTyped /\ BytesKept /\ TurnsKept /\ Promised => DfiAccepts
  <2> SUFFICES ASSUME FrontendTyped, BytesKept, TurnsKept, Promised
               PROVE  DfiAccepts
    OBVIOUS
  <2> DEFINE d == setup.dfi
             t == IssuedCommands
  <2>1. d \in DfiOptions
    <3>1. Legal(setup)
      BY SetupsAreLegal DEF FrontendTyped, SourceTyped
    <3> QED BY <3>1 DEF Legal, Options, DfiOptions
  <2>2. t \in Seq(TracedCommands) /\ \A m \in DOMAIN t : t[m] \in Merged
    BY IssuedAreMerged
  <2>3. DistinctKeys(t)
    BY IssuedKeysApart
  <2> HIDE DEF d, t
  <2>4. \A m \in DOMAIN t : t[m].cmd \in DataCommands => ExpectationMet(t[m])
    BY <2>2, ReadsMeet
  <2>5. ValidTrace(d, t, BuildTrace(d, t))
    BY <2>1, <2>2, <2>3, <2>4, BuiltTracesAreValid
  <2> QED BY <2>5 DEF DfiAccepts, d, t
<1> QED BY <1>2, <1>3, <1>4, PTL DEF Spec
=============================================================================
