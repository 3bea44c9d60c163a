--------------------------- MODULE FrontendProofs ---------------------------
(***************************************************************************)
(* The frontend and the addresses it makes, for every geometry, mapping    *)
(* order, channel count and trace.  First the arithmetic: decode() and     *)
(* encode() of the stack mapper are inverse to each other, and two         *)
(* addresses with the same coordinates are one transaction.  Then the      *)
(* types, bottom up: the mapper's coordinates lie in the organization, the *)
(* folds of the model exist and stay in their range, and every step of the *)
(* generator, the trace reader, the dispatcher and the controllers keeps   *)
(* FrontendTyped.  From ChannelsLegal, the invariant of each controller's  *)
(* command history, the merged command trace is legal.  Last a whole       *)
(* workload: Counted, from which the transactions left and passed on add   *)
(* up, and Smooth, from which no request makes the run throw.              *)
(***************************************************************************)
EXTENDS FrontendRun, Workloads, FiniteSetTheorems, SequenceTheorems,
        WellFoundedInduction, TLAPS

\* Division with remainder, for the divisions of the address maps.
LEMMA Division ==
  ASSUME NEW a \in Nat, NEW n \in Nat \ {0}
  PROVE  /\ a \div n \in Nat
         /\ a % n \in 0 .. n - 1
         /\ a = (a \div n) * n + (a % n)
BY SMT

\* The quotient and the remainder are the only ones.
LEMMA DivisionUnique ==
  ASSUME NEW q \in Nat, NEW n \in Nat \ {0}, NEW r \in 0 .. n - 1
  PROVE  /\ (q * n + r) \div n = q
         /\ (q * n + r) % n = r
BY SMT

\* Products stay natural.
LEMMA ProductNat ==
  ASSUME NEW q \in Nat, NEW n \in Nat
  PROVE  q * n \in Nat
BY SMT

-----------------------------------------------------------------------------

\* encode() undoes decode(): the stack-local address localize_request() keeps
\* for a transaction still names the system address it came from.
THEOREM EncodeUndoesDecode ==
  ASSUME NEW m \in StackMaps, NEW a \in Nat
  PROVE  StackEncode(m, StackDecode(m, a)) = a
<1> DEFINE n == m.stacks
           s == m.interleave
           c == m.capacity
<1>1. n \in Nat \ {0} /\ s \in Nat \ {0} /\ c \in Nat \ {0}
  BY DEF StackMaps
<1>2. CASE n = 1
  BY <1>2 DEF StackDecode, StackEncode
<1>3. CASE n # 1 /\ m.kind = "blocked"
  <2>1. a = (a \div c) * c + (a % c)
    BY <1>1, Division
  <2> QED BY <1>3, <2>1 DEF StackDecode, StackEncode
<1>4. CASE n # 1 /\ m.kind # "blocked"
  <2> DEFINE stripe == a \div s
             q == stripe \div n
             r == a % s
  <2>1. stripe \in Nat /\ r \in 0 .. s - 1 /\ a = stripe * s + r
    BY <1>1, Division
  <2>2. q \in Nat /\ stripe = q * n + (stripe % n)
    BY <1>1, <2>1, Division
  <2>3. (q * s + r) \div s = q /\ (q * s + r) % s = r
    BY <1>1, <2>1, <2>2, DivisionUnique
  <2>4. StackDecode(m, a) = [stack |-> stripe % n, local |-> q * s + r]
    BY <1>4 DEF StackDecode
  <2>5. StackEncode(m, StackDecode(m, a)) = (q * n + (stripe % n)) * s + r
    BY <1>4, <2>3, <2>4 DEF StackEncode
  <2> QED BY <2>1, <2>2, <2>5
<1> QED BY <1>2, <1>3, <1>4

\* decode() undoes encode(): the address that a trace line gives within a named
\* stack is routed to that stack and to that place (has_explicit_stack).
THEOREM DecodeUndoesEncode ==
  ASSUME NEW m \in StackMaps, NEW at \in [stack : Nat, local : Nat],
         InStacks(m, at)
  PROVE  StackDecode(m, StackEncode(m, at)) = at
<1> DEFINE n == m.stacks
           s == m.interleave
           c == m.capacity
           k == at.stack
           l == at.local
<1>1. n \in Nat \ {0} /\ s \in Nat \ {0} /\ c \in Nat \ {0}
  BY DEF StackMaps
<1>2. k \in 0 .. n - 1 /\ l \in Nat /\ l < c /\ at = [stack |-> k, local |-> l]
  BY DEF InStacks
<1>3. CASE n = 1
  <2>1. k = 0
    BY <1>2, <1>3
  <2> QED BY <1>2, <1>3, <2>1 DEF StackDecode, StackEncode
<1>4. CASE n # 1 /\ m.kind = "blocked"
  <2>1. l \in 0 .. c - 1 /\ k \in Nat
    BY <1>1, <1>2
  <2>2. (k * c + l) \div c = k /\ (k * c + l) % c = l
    BY <1>1, <2>1, DivisionUnique
  <2> QED BY <1>2, <1>4, <2>2 DEF StackDecode, StackEncode
<1>5. CASE n # 1 /\ m.kind # "blocked"
  <2> DEFINE q == l \div s
             r == l % s
             stripe == q * n + k
  <2>1. q \in Nat /\ r \in 0 .. s - 1 /\ l = q * s + r
    BY <1>1, <1>2, Division
  <2>2. stripe \in Nat /\ stripe \div n = q /\ stripe % n = k
    <3>1. q * n \in Nat
      BY <1>1, <2>1, ProductNat
    <3>2. stripe \div n = q /\ stripe % n = k
      BY <1>1, <1>2, <2>1, DivisionUnique
    <3> QED BY <1>2, <3>1, <3>2
  <2>3. (stripe * s + r) \div s = stripe /\ (stripe * s + r) % s = r
    BY <1>1, <2>1, <2>2, DivisionUnique
  <2>4. StackEncode(m, at) = stripe * s + r
    BY <1>5 DEF StackEncode
  <2>5. StackDecode(m, StackEncode(m, at)) = [stack |-> k, local |-> q * s + r]
    BY <1>5, <2>2, <2>3, <2>4 DEF StackDecode
  <2> QED BY <1>2, <2>1, <2>5
<1> QED BY <1>3, <1>4, <1>5

\* Two system addresses never share a byte of a stack.
THEOREM StacksDoNotAlias ==
  ASSUME NEW m \in StackMaps, NEW a \in Nat, NEW b \in Nat,
         StackDecode(m, a) = StackDecode(m, b)
  PROVE  a = b
<1>1. StackEncode(m, StackDecode(m, a)) = a
  BY EncodeUndoesDecode
<1>2. StackEncode(m, StackDecode(m, b)) = b
  BY EncodeUndoesDecode
<1> QED BY <1>1, <1>2

\* Bytes of one stripe stay together: a transaction that does not leave its
\* stripe lies in one stack, at consecutive local addresses.  (One that does is
\* not put together again by localize_request().)
THEOREM StripesStayTogether ==
  ASSUME NEW m \in StackMaps, m.stacks # 1, m.kind = "interleaved",
         NEW a \in Nat, NEW d \in Nat, (a % m.interleave) + d < m.interleave
  PROVE  LET x == StackDecode(m, a)
         IN StackDecode(m, a + d) = [stack |-> x.stack, local |-> x.local + d]
<1> DEFINE s == m.interleave
           stripe == a \div s
           r == a % s
<1>1. s \in Nat \ {0} /\ m.stacks \in Nat \ {0}
  BY DEF StackMaps
<1>2. stripe \in Nat /\ r \in 0 .. s - 1 /\ a = stripe * s + r
  BY <1>1, Division
<1>3. r + d \in 0 .. s - 1
  BY <1>1, <1>2, SMTT(60)
<1>4. (stripe * s + (r + d)) \div s = stripe /\ (stripe * s + (r + d)) % s = r + d
  BY <1>1, <1>2, <1>3, DivisionUnique, ZenonT(60)
<1>5. stripe * s \in Nat
  BY <1>1, <1>2, ProductNat
<1>6. a + d = stripe * s + (r + d)
  BY <1>2, <1>3, <1>5
<1>7. (a + d) \div s = stripe /\ (a + d) % s = r + d
  BY <1>4, <1>6
<1>8. (stripe \div m.stacks) * s \in Nat
  <2>1. stripe \div m.stacks \in Nat
    BY <1>1, <1>2, Division
  <2> QED BY <1>1, <2>1, ProductNat
<1>9. StackDecode(m, a) = [stack |-> stripe % m.stacks,
                          local |-> (stripe \div m.stacks) * s + r]
  BY DEF StackDecode
<1>10. StackDecode(m, a + d) = [stack |-> stripe % m.stacks,
                               local |-> (stripe \div m.stacks) * s + (r + d)]
  BY <1>7 DEF StackDecode
<1> QED BY <1>2, <1>3, <1>8, <1>9, <1>10

\* A bounded set of numbers has a greatest one.
LEMMA MaxExists ==
  ASSUME NEW S, S \subseteq Nat, S # {}, NEW top \in Nat, \A x \in S : x <= top
  PROVE  Max(S) \in S /\ \A x \in S : Max(S) >= x
<1> DEFINE Gaps == {top - x : x \in S}
<1>1. Gaps \subseteq Nat /\ Gaps # {}
  <2>1. \A x \in S : top - x \in Nat
    OBVIOUS
  <2>2. PICK x \in S : TRUE
    OBVIOUS
  <2>3. top - x \in Gaps
    BY <2>2
  <2> QED BY <2>1, <2>3
<1>2. PICK g \in Gaps : \A h \in Gaps : ~(<<h, g>> \in OpToRel(<, Nat))
  <2> HIDE DEF Gaps
  <2> QED BY <1>1, WFMin, NatLessThanWellFounded
<1>3. PICK m \in S : g = top - m
  BY <1>2
<1>4. \A x \in S : m >= x
  <2> SUFFICES ASSUME NEW x \in S, ~(m >= x)
               PROVE  FALSE
    OBVIOUS
  <2>1. top - x \in Gaps /\ top - x \in Nat /\ g \in Nat /\ top - x < g
    BY <1>1, <1>3
  <2> QED BY <2>1, <1>2 DEF OpToRel
<1> QED BY <1>4 DEF Max

\* The function by which a fold is defined: ch chooses the element that f adds
\* last.
IsFold(iter, S, base, f, ch) ==
  iter = [s \in SUBSET S |->
            IF s = {} THEN base ELSE f[ch[s]][iter[s \ {ch[s]}]]]

HasFold(S, A, base, f, ch) ==
  \E iter \in [SUBSET S -> A] : IsFold(iter, S, base, f, ch)

\* It exists, and its values stay where f keeps them.
LEMMA FoldExists ==
  ASSUME NEW S, IsFiniteSet(S), NEW A, NEW base \in A, NEW f \in [S -> [A -> A]],
         NEW ch, \A s \in SUBSET S : s # {} => ch[s] \in s
  PROVE  HasFold(S, A, base, f, ch)
<1> DEFINE Small(n) == {s \in SUBSET S : Cardinality(s) <= n}
           After(g, s) == IF s = {} THEN base ELSE f[ch[s]][g[s \ {ch[s]}]]
           Good(g, n) == /\ g \in [Small(n) -> A]
                         /\ \A s \in Small(n) : g[s] = After(g, s)
           Reached == {n \in Nat : \E g : Good(g, n)}
<1>1. \A s \in SUBSET S : IsFiniteSet(s) /\ Cardinality(s) \in Nat
  BY FS_Subset, FS_CardinalityType
<1>2. \A s \in SUBSET S : s # {} =>
        /\ s \ {ch[s]} \in SUBSET S /\ Cardinality(s \ {ch[s]}) = Cardinality(s) - 1
        /\ ch[s] \in S
  BY <1>1, FS_RemoveElement
<1>3. \A s \in SUBSET S : Cardinality(s) = 0 <=> s = {}
  BY <1>1, FS_EmptySet
<1>4. 0 \in Reached
  <2> DEFINE g == [s \in Small(0) |-> base]
  <2>1. \A s \in Small(0) : s = {}
    BY <1>1, <1>3
  <2>2. Good(g, 0)
    BY <2>1
  <2> QED BY <2>2
<1>5. ASSUME NEW n \in Reached
      PROVE  n + 1 \in Reached
  <2>1. PICK g : Good(g, n)
    OBVIOUS
  <2> DEFINE h == [s \in Small(n + 1) |-> After(g, s)]
  <2>2. \A s \in Small(n + 1) : s # {} => s \ {ch[s]} \in Small(n)
    BY <1>1, <1>2
  <2>3. \A s \in Small(n + 1) : After(g, s) \in A
    BY <1>2, <2>1, <2>2
  <2>4. \A s \in Small(n) : s \in Small(n + 1)
    BY <1>1
  <2>5. \A s \in Small(n) : h[s] = g[s]
    BY <2>1, <2>4
  <2>6. ASSUME NEW s \in Small(n + 1)
        PROVE  After(h, s) = After(g, s)
    <3>1. s # {} => h[s \ {ch[s]}] = g[s \ {ch[s]}]
      BY <2>2, <2>5
    <3> HIDE DEF h
    <3> QED BY <3>1
  <2>7. \A s \in Small(n + 1) : h[s] = After(g, s)
    OBVIOUS
  <2>8. h \in [Small(n + 1) -> A]
    BY <2>3
  <2> HIDE DEF h
  <2>9. Good(h, n + 1)
    BY <2>6, <2>7, <2>8
  <2>10. n + 1 \in Nat
    OBVIOUS
  <2> QED BY <2>9, <2>10
<1>6. \A n \in Nat : n \in Reached
  <2> DEFINE Missed == Nat \ Reached
  <2> SUFFICES ASSUME Missed # {}
               PROVE  FALSE
    OBVIOUS
  <2>1. Missed \subseteq Nat
    OBVIOUS
  <2> HIDE DEF Reached
  <2>2. PICK n \in Missed : \A m \in Missed : ~(<<m, n>> \in OpToRel(<, Nat))
    <3> HIDE DEF Missed
    <3> QED BY <2>1, WFMin, NatLessThanWellFounded
  <2>3. n \in Nat /\ n \notin Reached
    BY <2>2
  <2>4. ~(<<n - 1, n>> \in OpToRel(<, Nat)) \/ n - 1 \notin Missed
    BY <2>2
  <2>5. n # 0
    BY <1>4, <2>3
  <2>6. n - 1 \in Nat /\ n - 1 < n /\ (n - 1) + 1 = n
    BY <2>3, <2>5
  <2>7. <<n - 1, n>> \in OpToRel(<, Nat)
    BY <2>3, <2>6 DEF OpToRel
  <2>8. n - 1 \in Reached
    BY <2>4, <2>6, <2>7
  <2>9. (n - 1) + 1 \in Reached
    BY <1>5, <2>8
  <2> QED BY <2>3, <2>6, <2>9
<1>7. PICK g : Good(g, Cardinality(S))
  BY <1>1, <1>6
<1>8. Small(Cardinality(S)) = SUBSET S
  BY FS_Subset
<1>9. g \in [SUBSET S -> A] /\ \A s \in SUBSET S : g[s] = After(g, s)
  BY <1>7, <1>8
<1>10. g = [s \in SUBSET S |-> After(g, s)]
  <2> HIDE DEF After
  <2> QED BY <1>9
<1> QED BY <1>9, <1>10 DEF IsFold, HasFold

\* The index FoldLeft() takes last.
LEMMA LastIndex ==
  ASSUME NEW n \in Nat
  PROVE  /\ \A s \in SUBSET (1 .. n) : s # {} => Max(s) \in s
         /\ \A i \in 1 .. n : Max(1 .. i) = i /\ (1 .. i) \ {i} = 1 .. i - 1
<1>1. ASSUME NEW s \in SUBSET (1 .. n), s # {}
      PROVE  Max(s) \in s
  <2>1. s \subseteq Nat /\ \A x \in s : x <= n
    OBVIOUS
  <2> QED BY <1>1, <2>1, MaxExists
<1>2. ASSUME NEW i \in 1 .. n
      PROVE  Max(1 .. i) = i /\ (1 .. i) \ {i} = 1 .. i - 1
  <2>1. Max(1 .. i) \in 1 .. i /\ \A x \in 1 .. i : Max(1 .. i) >= x
    BY MaxExists
  <2> QED BY <2>1
<1> QED BY <1>1, <1>2

IsLeftFold(iter, n, base, f) ==
  iter = [s \in SUBSET (1 .. n) |->
            IF s = {} THEN base ELSE f[Max(s)][iter[s \ {Max(s)}]]]

\* A fold over n elements is a function on their sets.
LEMMA LeftFoldExists ==
  ASSUME NEW n \in Nat, NEW A, NEW base \in A, NEW f \in [1 .. n -> [A -> A]]
  PROVE  \E iter \in [SUBSET (1 .. n) -> A] : IsLeftFold(iter, n, base, f)
<1> DEFINE S == 1 .. n
           ch == [s \in SUBSET S |-> Max(s)]
<1>1. IsFiniteSet(S)
  BY FS_Interval
<1>2. \A s \in SUBSET S : ch[s] = Max(s) /\ (s # {} => ch[s] \in s)
  BY LastIndex
<1> HIDE DEF ch
<1>3. HasFold(S, A, base, f, ch)
  BY <1>1, <1>2, FoldExists
<1>4. PICK iter \in [SUBSET S -> A] : IsFold(iter, S, base, f, ch)
  BY <1>3 DEF HasFold
<1>5. IsLeftFold(iter, n, base, f)
  BY <1>2, <1>4 DEF IsFold, IsLeftFold
<1> QED BY <1>4, <1>5

\* The tuples of a template put together.
Joined(a, b, c) == (a \o b) \o c

Joins(d, a, b, c, S) ==
  /\ d \in Seq(S) /\ Len(d) = Len(a) + Len(b) + Len(c)
  /\ \A i \in 1 .. Len(a) : d[i] = a[i]
  /\ \A i \in 1 .. Len(b) : d[Len(a) + i] = b[i]
  /\ \A i \in 1 .. Len(c) : d[Len(a) + Len(b) + i] = c[i]

\* What each place of three sequences joined holds.
LEMMA JoinedElements ==
  ASSUME NEW S, NEW a \in Seq(S), NEW b \in Seq(S), NEW c \in Seq(S)
  PROVE  Joins(Joined(a, b, c), a, b, c, S)
<1>1. a \o b \in Seq(S) /\ Len(a \o b) = Len(a) + Len(b)
  BY ConcatProperties
<1>2. \A i \in 1 .. Len(a) + Len(b) :
        (a \o b)[i] = IF i <= Len(a) THEN a[i] ELSE b[i - Len(a)]
  BY ConcatProperties
<1>3. Joined(a, b, c) \in Seq(S) /\ Len(Joined(a, b, c)) = Len(a \o b) + Len(c)
  BY <1>1, ConcatProperties DEF Joined
<1>4. \A i \in 1 .. Len(a \o b) + Len(c) : Joined(a, b, c)[i] =
        IF i <= Len(a \o b) THEN (a \o b)[i] ELSE c[i - Len(a \o b)]
  BY <1>1, ConcatProperties DEF Joined
<1>5. Len(a) \in Nat /\ Len(b) \in Nat /\ Len(c) \in Nat
  BY LenProperties
<1> DEFINE d == Joined(a, b, c)
<1> HIDE DEF d
<1>6. \A i \in 1 .. Len(a) : d[i] = a[i]
  BY <1>1, <1>2, <1>4, <1>5 DEF d
<1>7. ASSUME NEW i \in 1 .. Len(b)
      PROVE  d[Len(a) + i] = b[i]
  <2>1. Len(a) + i \in 1 .. Len(a) + Len(b) /\ ~(Len(a) + i <= Len(a))
        /\ Len(a) + i - Len(a) = i
    BY <1>5
  <2> QED BY <1>1, <1>2, <1>4, <1>5, <2>1 DEF d
<1>8. ASSUME NEW i \in 1 .. Len(c)
      PROVE  d[Len(a) + Len(b) + i] = c[i]
  <2> DEFINE j == Len(a) + Len(b) + i
  <2>1. j \in 1 .. Len(a \o b) + Len(c) /\ ~(j <= Len(a \o b)) /\ j - Len(a \o b) = i
    BY <1>1, <1>5
  <2> QED BY <1>4, <2>1 DEF d
<1> QED BY <1>1, <1>3, <1>6, <1>7, <1>8 DEF d, Joins

\* A template names every digit once.
NamesDigits(d) ==
  /\ d \in Seq(Fields) /\ Len(d) = 8
  /\ \A i \in 1 .. 8 : \A j \in 1 .. 8 : d[i] = d[j] => i = j

\* Each template of addr_map.cpp names each field of the address once.
LEMMA TemplateNamesDigits ==
  ASSUME NEW org \in Organizations
  PROVE  NamesDigits(DigitOrder(org.template))
<1> DEFINE t == org.template
           d == DigitOrder(t)
           b == BankComposite
<1>1. t \in {"default", "RoBaRaCoCh", "ChRaBaRoCo", "RoCoRaBaCh"}
  BY DEF Organizations
<1>2. b \in Seq(Fields) /\ Len(b) = 4
      /\ b[1] = "bank" /\ b[2] = "bank_group" /\ b[3] = "pseudo_channel"
      /\ b[4] = "sid"
  BY DEF BankComposite, Fields
<1> SUFFICES NamesDigits(d)
  OBVIOUS
<1> HIDE DEF t
<1>3. CASE t = "default"
  <2> DEFINE a == <<"column">>
             c == <<"rank", "channel", "row">>
  <2>1. a \in Seq(Fields) /\ Len(a) = 1 /\ a[1] = "column"
    BY DEF Fields
  <2>2. c \in Seq(Fields) /\ Len(c) = 3 /\ c[1] = "rank" /\ c[2] = "channel" /\ c[3] = "row"
    BY DEF Fields
  <2>3. d = Joined(a, b, c)
    BY <1>3, ConcatAssociative, <1>2, <2>1, <2>2 DEF DigitOrder, Joined
  <2> HIDE DEF a, b, c, d
  <2>4. Joins(d, a, b, c, Fields)
    <3>1. Joins(Joined(a, b, c), a, b, c, Fields)
      BY <1>2, <2>1, <2>2, JoinedElements
    <3> QED BY <2>3, <3>1
  <2>5. d \in Seq(Fields) /\ Len(d) = 8
    BY <1>2, <2>1, <2>2, <2>4 DEF Joins
  <2>6. /\ d[1] = "column" /\ d[2] = "bank" /\ d[3] = "bank_group" /\ d[4] = "pseudo_channel"
        /\ d[5] = "sid" /\ d[6] = "rank" /\ d[7] = "channel" /\ d[8] = "row"
    BY <1>2, <2>1, <2>2, <2>4 DEF Joins
  <2>7. \A i \in 1 .. 8 : i \in {1, 2, 3, 4, 5, 6, 7, 8}
    OBVIOUS
  <2> QED BY <2>5, <2>6, <2>7 DEF NamesDigits
<1>4. CASE t = "RoBaRaCoCh"
  <2> DEFINE a == <<"channel", "column", "rank">>
             c == <<"row">>
  <2>1. a \in Seq(Fields) /\ Len(a) = 3 /\ a[1] = "channel" /\ a[2] = "column" /\ a[3] = "rank"
    BY DEF Fields
  <2>2. c \in Seq(Fields) /\ Len(c) = 1 /\ c[1] = "row"
    BY DEF Fields
  <2>3. d = Joined(a, b, c)
    BY <1>4, ConcatAssociative, <1>2, <2>1, <2>2 DEF DigitOrder, Joined
  <2> HIDE DEF a, b, c, d
  <2>4. Joins(d, a, b, c, Fields)
    <3>1. Joins(Joined(a, b, c), a, b, c, Fields)
      BY <1>2, <2>1, <2>2, JoinedElements
    <3> QED BY <2>3, <3>1
  <2>5. d \in Seq(Fields) /\ Len(d) = 8
    BY <1>2, <2>1, <2>2, <2>4 DEF Joins
  <2>6. /\ d[1] = "channel" /\ d[2] = "column" /\ d[3] = "rank" /\ d[4] = "bank"
        /\ d[5] = "bank_group" /\ d[6] = "pseudo_channel" /\ d[7] = "sid" /\ d[8] = "row"
    BY <1>2, <2>1, <2>2, <2>4 DEF Joins
  <2>7. \A i \in 1 .. 8 : i \in {1, 2, 3, 4, 5, 6, 7, 8}
    OBVIOUS
  <2> QED BY <2>5, <2>6, <2>7 DEF NamesDigits
<1>5. CASE t = "ChRaBaRoCo"
  <2> DEFINE a == <<"column", "row">>
             c == <<"rank", "channel">>
  <2>1. a \in Seq(Fields) /\ Len(a) = 2 /\ a[1] = "column" /\ a[2] = "row"
    BY DEF Fields
  <2>2. c \in Seq(Fields) /\ Len(c) = 2 /\ c[1] = "rank" /\ c[2] = "channel"
    BY DEF Fields
  <2>3. d = Joined(a, b, c)
    BY <1>5, ConcatAssociative, <1>2, <2>1, <2>2 DEF DigitOrder, Joined
  <2> HIDE DEF a, b, c, d
  <2>4. Joins(d, a, b, c, Fields)
    <3>1. Joins(Joined(a, b, c), a, b, c, Fields)
      BY <1>2, <2>1, <2>2, JoinedElements
    <3> QED BY <2>3, <3>1
  <2>5. d \in Seq(Fields) /\ Len(d) = 8
    BY <1>2, <2>1, <2>2, <2>4 DEF Joins
  <2>6. /\ d[1] = "column" /\ d[2] = "row" /\ d[3] = "bank" /\ d[4] = "bank_group"
        /\ d[5] = "pseudo_channel" /\ d[6] = "sid" /\ d[7] = "rank" /\ d[8] = "channel"
    BY <1>2, <2>1, <2>2, <2>4 DEF Joins
  <2>7. \A i \in 1 .. 8 : i \in {1, 2, 3, 4, 5, 6, 7, 8}
    OBVIOUS
  <2> QED BY <2>5, <2>6, <2>7 DEF NamesDigits
<1>6. CASE t = "RoCoRaBaCh"
  <2> DEFINE a == <<"channel">>
             c == <<"rank", "column", "row">>
  <2>1. a \in Seq(Fields) /\ Len(a) = 1 /\ a[1] = "channel"
    BY DEF Fields
  <2>2. c \in Seq(Fields) /\ Len(c) = 3 /\ c[1] = "rank" /\ c[2] = "column" /\ c[3] = "row"
    BY DEF Fields
  <2>3. d = Joined(a, b, c)
    BY <1>6, ConcatAssociative, <1>2, <2>1, <2>2 DEF DigitOrder, Joined
  <2> HIDE DEF a, b, c, d
  <2>4. Joins(d, a, b, c, Fields)
    <3>1. Joins(Joined(a, b, c), a, b, c, Fields)
      BY <1>2, <2>1, <2>2, JoinedElements
    <3> QED BY <2>3, <3>1
  <2>5. d \in Seq(Fields) /\ Len(d) = 8
    BY <1>2, <2>1, <2>2, <2>4 DEF Joins
  <2>6. /\ d[1] = "channel" /\ d[2] = "bank" /\ d[3] = "bank_group" /\ d[4] = "pseudo_channel"
        /\ d[5] = "sid" /\ d[6] = "rank" /\ d[7] = "column" /\ d[8] = "row"
    BY <1>2, <2>1, <2>2, <2>4 DEF Joins
  <2>7. \A i \in 1 .. 8 : i \in {1, 2, 3, 4, 5, 6, 7, 8}
    OBVIOUS
  <2> QED BY <2>5, <2>6, <2>7 DEF NamesDigits
<1> QED BY <1>1, <1>3, <1>4, <1>5, <1>6

\* Coordinates within an organization.
Places(org) == {g \in [Fields -> Nat] : \A f \in Fields : g[f] < org.size[f]}
Digested(org) == [value : Nat, at : Places(org)]

\* Taking a digit leaves the value and the digits natural.
LEMMA TakeModDigests ==
  ASSUME NEW org \in Organizations, NEW x \in Digested(org), NEW f \in Fields
  PROVE  TakeMod(x, f, org.size[f]) \in Digested(org)
<1>1. org.size[f] \in Nat \ {0} /\ x.value \in Nat /\ x.at \in Places(org)
  BY DEF Organizations, Digested
<1> DEFINE n == org.size[f]
           v == x.value
<1>0. v \div n \in Nat /\ v % n \in 0 .. n - 1
  <2> HIDE DEF n, v
  <2>1. v \in Nat /\ n \in Nat \ {0}
    BY <1>1 DEF n, v
  <2> QED BY <2>1, Division
<1>2. x.value \div org.size[f] \in Nat /\ x.value % org.size[f] \in Nat
      /\ x.value % org.size[f] < org.size[f]
  BY <1>0, <1>1
<1>3. [x.at EXCEPT ![f] = x.value % org.size[f]] \in Places(org)
  BY <1>1, <1>2 DEF Places
<1> QED BY <1>2, <1>3 DEF TakeMod, Digested

\* The digits of a transaction, one after the other.
Digests(org, a, acc) ==
  /\ acc \in [0 .. 8 -> Digested(org)]
  /\ acc[0] = [value |-> a \div org.transaction, at |-> Origin]
  /\ \A i \in 1 .. 8 : LET d == DigitOrder(org.template)[i]
                       IN acc[i] = TakeMod(acc[i - 1], d, org.size[d])

DecodeSum(org, a) == \E acc : Digests(org, a, acc)
                              /\ Decode(org, a) = ApplyEfficiency(org, acc[8].at)

\* decode() takes the eight digits in the order of the template.
LEMMA DecodeDigests ==
  ASSUME NEW org \in Organizations, NEW a \in Nat
  PROVE  DecodeSum(org, a)
<1> DEFINE d == DigitOrder(org.template)
           base == [value |-> a \div org.transaction, at |-> Origin]
           A == Digested(org)
           f == [i \in 1 .. 8 |-> [x \in A |-> TakeMod(x, d[i], org.size[d[i]])]]
           R(it) == it = [s \in SUBSET (DOMAIN d) |->
                      IF s = {} THEN base
                      ELSE LET x == Max(s)
                           IN TakeMod(it[s \ {x}], d[x], org.size[d[x]])]
           iter == CHOOSE it : R(it)
<1>1. d \in Seq(Fields) /\ Len(d) = 8 /\ \A i \in 1 .. 8 : d[i] \in Fields
  <2>1. d \in Seq(Fields) /\ Len(d) = 8
    BY TemplateNamesDigits DEF NamesDigits
  <2> QED BY <2>1, ElementOfSeq
<1>2. base \in A
  <2>1. a \div org.transaction \in Nat
    BY Division DEF Organizations
  <2>2. Origin \in Places(org)
    BY DEF Origin, Places, Organizations
  <2> QED BY <2>1, <2>2 DEF Digested
<1>3. f \in [1 .. 8 -> [A -> A]]
  <2> HIDE DEF d, A
  <2>1. \A i \in 1 .. 8 : \A x \in A : TakeMod(x, d[i], org.size[d[i]]) \in A
    BY <1>1, TakeModDigests DEF A
  <2> QED BY <2>1
<1>4. Decode(org, a) = ApplyEfficiency(org, iter[DOMAIN d].at)
  BY DEF Decode, FoldLeft, MapThenFoldSet
<1>11. DOMAIN d = 1 .. 8
  BY <1>1, LenProperties
<1> HIDE DEF base, A
<1>5. ASSUME NEW it \in [SUBSET (1 .. 8) -> A], IsLeftFold(it, 8, base, f)
      PROVE  R(it)
  <2>1. ASSUME NEW s \in SUBSET (1 .. 8), s # {}
        PROVE  f[Max(s)][it[s \ {Max(s)}]] =
                 TakeMod(it[s \ {Max(s)}], d[Max(s)], org.size[d[Max(s)]])
    <3>1. Max(s) \in 1 .. 8 /\ it[s \ {Max(s)}] \in A
      BY <2>1, LastIndex
    <3> HIDE DEF d
    <3> QED BY <3>1
  <2> HIDE DEF d, f
  <2> QED BY <1>5, <1>11, <2>1 DEF IsLeftFold
<1>6. R(iter)
  <2>1. PICK it \in [SUBSET (1 .. 8) -> A] : IsLeftFold(it, 8, base, f)
    <3> HIDE DEF f
    <3> QED BY <1>2, <1>3, LeftFoldExists
  <2>2. R(it)
    BY <1>5, <2>1
  <2> HIDE DEF R
  <2> QED BY <2>2
<1> DEFINE acc == [i \in 0 .. 8 |-> iter[1 .. i]]
<1> HIDE DEF iter, d
<1>7. acc[0] = base
  <2>1. 1 .. 0 = {}
    OBVIOUS
  <2> QED BY <1>6, <1>11, <2>1
<1>8. ASSUME NEW i \in 1 .. 8
      PROVE  acc[i] = TakeMod(acc[i - 1], d[i], org.size[d[i]])
  <2>1. 1 .. i \in SUBSET (1 .. 8) /\ 1 .. i # {} /\ i \in 0 .. 8 /\ i - 1 \in 0 .. 8
    OBVIOUS
  <2>2. Max(1 .. i) = i /\ (1 .. i) \ {i} = 1 .. i - 1
    BY LastIndex
  <2>3. iter[1 .. i] = TakeMod(iter[(1 .. i) \ {Max(1 .. i)}], d[Max(1 .. i)],
                               org.size[d[Max(1 .. i)]])
    BY <1>6, <1>11, <2>1
  <2> QED BY <2>1, <2>2, <2>3
<1>9. \A i \in 0 .. 8 : acc[i] \in A
  <2> DEFINE K == {i \in 0 .. 8 : acc[i] \in A}
  <2>1. 0 \in K
    BY <1>2, <1>7
  <2>2. \A i \in 1 .. 8 : acc[i - 1] \in A => acc[i] \in A
    BY <1>1, <1>8, TakeModDigests, ZenonT(60) DEF A
  <2> HIDE DEF acc
  <2>3. 1 \in K /\ 2 \in K
    BY <2>1, <2>2
  <2>4. 3 \in K /\ 4 \in K
    BY <2>2, <2>3
  <2>5. 5 \in K /\ 6 \in K
    BY <2>2, <2>4
  <2>6. 7 \in K /\ 8 \in K
    BY <2>2, <2>5
  <2> QED BY <2>1, <2>3, <2>4, <2>5, <2>6
<1>10. acc \in [0 .. 8 -> A]
  BY <1>9
<1>13. acc[8] = iter[DOMAIN d]
  BY <1>11
<1>12. Digests(org, a, acc)
  <2> HIDE DEF acc
  <2> QED BY <1>7, <1>8, <1>10 DEF Digests, d, base, A
<1> HIDE DEF acc
<1> QED BY <1>4, <1>13, <1>12 DEF DecodeSum

\* The coordinates of an address lie in the organization.
LEMMA DecodePlaces ==
  ASSUME NEW org \in Organizations, NEW a \in Nat
  PROVE  Decode(org, a) \in Places(org)
<1>1. PICK acc : Digests(org, a, acc)
                 /\ Decode(org, a) = ApplyEfficiency(org, acc[8].at)
  BY DecodeDigests DEF DecodeSum
<1>2. acc[8].at \in Places(org)
  BY <1>1 DEF Digests, Digested
<1>3. [acc[8].at EXCEPT !["pseudo_channel"] = 0] \in Places(org)
  BY <1>2 DEF Places, Organizations, Fields
<1> QED BY <1>1, <1>2, <1>3 DEF ApplyEfficiency

\* The quotient of a number below n * m is below m.
LEMMA QuotientBound ==
  ASSUME NEW x \in Nat, NEW n \in Nat \ {0}, NEW m \in Nat, x < n * m
  PROVE  x \div n < m
<1>1. x \div n \in Nat /\ x = (x \div n) * n + (x % n) /\ x % n \in 0 .. n - 1
  BY Division
<1> SUFFICES ASSUME x \div n >= m
             PROVE  FALSE
  BY <1>1
<1>2. ASSUME NEW q \in Nat, q >= m
      PROVE  q * n >= n * m
  <2>1. PICK k \in Nat : q = m + k
    <3>1. q - m \in Nat /\ q = m + (q - m)
      BY <1>2
    <3> QED BY <3>1
  <2>2. q * n = m * n + k * n /\ k * n \in Nat /\ m * n \in Nat
    BY <2>1, ProductNat
  <2> QED BY <2>2
<1>3. (x \div n) * n >= n * m
  BY <1>1, <1>2
<1>4. (x \div n) * n \in Nat /\ n * m \in Nat
  BY <1>1, ProductNat
<1> QED BY <1>1, <1>3, <1>4

\* Below the volume, the digits are all there is.
DigitsLeft(org, acc) ==
  /\ acc[8].value = 0
  /\ \A i \in 1 .. 8 :
       /\ acc[i].value \in Nat /\ DigitSize(org, i) \in Nat \ {0}
       /\ acc[8].at[DigitOrder(org.template)[i]] = acc[i - 1].value % DigitSize(org, i)
       /\ acc[i - 1].value =
            acc[i].value * DigitSize(org, i) + (acc[i - 1].value % DigitSize(org, i))

\* What remains of an address below the volume fits the digits still to take.
LEMMA DigitsAreLeft ==
  ASSUME NEW org \in Organizations, NEW a \in Nat, a \div org.transaction < Volume(org),
         NEW acc, Digests(org, a, acc)
  PROVE  DigitsLeft(org, acc)
<1> DEFINE d == DigitOrder(org.template)
           v(i) == acc[i].value
           n(i) == DigitSize(org, i)
<1>1. /\ \A i \in 1 .. 8 : d[i] \in Fields
      /\ \A i \in 1 .. 8 : \A j \in 1 .. 8 : d[i] = d[j] => i = j
  <2>1. NamesDigits(d)
    BY TemplateNamesDigits
  <2> HIDE DEF d
  <2> QED BY <2>1, ElementOfSeq DEF NamesDigits
<1>2. \A i \in 0 .. 8 : acc[i] \in Digested(org)
  BY DEF Digests
<1>3. \A i \in 0 .. 8 : v(i) \in Nat /\ acc[i].at \in [Fields -> Nat]
  BY <1>2 DEF Digested, Places
<1>4. \A i \in 1 .. 8 : n(i) \in Nat \ {0}
  <2> HIDE DEF d
  <2> QED BY <1>1 DEF DigitSize, Organizations, d
<1>5. \A i \in 1 .. 8 : acc[i] = TakeMod(acc[i - 1], d[i], n(i))
  BY DEF Digests, DigitSize
<1> HIDE DEF d, n
<1>6. \A i \in 1 .. 8 : /\ v(i) = v(i - 1) \div n(i)
                        /\ acc[i].at = [acc[i - 1].at EXCEPT ![d[i]] = v(i - 1) % n(i)]
  BY <1>5, SMTT(60) DEF TakeMod
<1>7. \A i \in 1 .. 8 : acc[i].at[d[i]] = v(i - 1) % n(i)
  <2>1. \A i \in 1 .. 8 : i - 1 \in 0 .. 8
    OBVIOUS
  <2> QED BY <1>1, <1>3, <1>6, <2>1
<1>8. ASSUME NEW i \in 1 .. 8
      PROVE  acc[8].at[d[i]] = v(i - 1) % n(i)
  <2> DEFINE K(j) == j >= i => acc[j].at[d[i]] = v(i - 1) % n(i)
  <2>1. ASSUME NEW j \in 1 .. 8, K(j - 1)
        PROVE  K(j)
    <3>1. CASE j <= i
      BY <3>1, <1>7
    <3>2. CASE j > i
      <4>1. d[j] # d[i] /\ j - 1 >= i /\ j - 1 \in 0 .. 8
        BY <3>2, <1>1
      <4>2. acc[j].at[d[i]] = acc[j - 1].at[d[i]]
        BY <1>1, <1>3, <1>6, <4>1, SMTT(60)
      <4> QED BY <2>1, <4>1, <4>2
    <3> QED BY <3>1, <3>2
  <2>2. K(0)
    OBVIOUS
  <2> HIDE DEF K
  <2>3. K(1)
    BY <2>1, <2>2
  <2>4. K(2)
    BY <2>1, <2>3
  <2>5. K(3)
    BY <2>1, <2>4
  <2>6. K(4)
    BY <2>1, <2>5
  <2>7. K(5)
    BY <2>1, <2>6
  <2>8. K(6)
    BY <2>1, <2>7
  <2>9. K(7)
    BY <2>1, <2>8
  <2>10. K(8)
    BY <2>1, <2>9
  <2> QED BY <2>10 DEF K
<1>9. \A i \in 1 .. 8 : v(i - 1) = v(i) * n(i) + (v(i - 1) % n(i))
  <2> SUFFICES ASSUME NEW i \in 1 .. 8
               PROVE  v(i - 1) = v(i) * n(i) + (v(i - 1) % n(i))
    OBVIOUS
  <2>1. v(i - 1) \in Nat /\ n(i) \in Nat \ {0} /\ v(i) = v(i - 1) \div n(i)
    BY <1>3, <1>4, <1>6
  <2> HIDE DEF v
  <2> QED BY <2>1, Division
<1>10. v(0) < Volume(org)
  BY DEF Digests
<1> HIDE DEF v
<1>11. ASSUME NEW i \in 1 .. 8, NEW m \in Nat, v(i - 1) < n(i) * m
       PROVE  v(i) < m
  <2>1. v(i - 1) \in Nat /\ i - 1 \in 0 .. 8
    BY <1>3 DEF v
  <2>2. v(i) = v(i - 1) \div n(i)
    BY <1>6
  <2> QED BY <1>4, <1>11, <2>1, <2>2, QuotientBound
<1> DEFINE r7 == n(8) * 1
           r6 == n(7) * r7
           r5 == n(6) * r6
           r4 == n(5) * r5
           r3 == n(4) * r4
           r2 == n(3) * r3
           r1 == n(2) * r2
<1>12. r7 \in Nat
  BY <1>4
<1>13. r6 \in Nat
  <2> HIDE DEF r7
  <2> QED BY <1>12, <1>4, ProductNat
<1>14. r5 \in Nat
  <2> HIDE DEF r6
  <2> QED BY <1>13, <1>4, ProductNat
<1>15. r4 \in Nat
  <2> HIDE DEF r5
  <2> QED BY <1>14, <1>4, ProductNat
<1>16. r3 \in Nat
  <2> HIDE DEF r4
  <2> QED BY <1>15, <1>4, ProductNat
<1>17. r2 \in Nat
  <2> HIDE DEF r3
  <2> QED BY <1>16, <1>4, ProductNat
<1>18. r1 \in Nat
  <2> HIDE DEF r2
  <2> QED BY <1>17, <1>4, ProductNat
<1>19. v(0) < n(1) * r1
  <2>1. n(8) * 1 = n(8)
    BY <1>4
  <2> QED BY <1>10, <2>1 DEF Volume, n
<1> HIDE DEF r1
<1>20. v(1) < r1
  <2>1. v(1 - 1) < n(1) * r1
    BY <1>19
  <2> QED BY <1>18, <2>1, <1>11
<1> HIDE DEF r2
<1>21. v(2) < r2
  <2>1. v(2 - 1) < n(2) * r2
    BY <1>20 DEF r1
  <2> QED BY <1>17, <2>1, <1>11
<1> HIDE DEF r3
<1>22. v(3) < r3
  <2>1. v(3 - 1) < n(3) * r3
    BY <1>21 DEF r2
  <2> QED BY <1>16, <2>1, <1>11
<1> HIDE DEF r4
<1>23. v(4) < r4
  <2>1. v(4 - 1) < n(4) * r4
    BY <1>22 DEF r3
  <2> QED BY <1>15, <2>1, <1>11
<1> HIDE DEF r5
<1>24. v(5) < r5
  <2>1. v(5 - 1) < n(5) * r5
    BY <1>23 DEF r4
  <2> QED BY <1>14, <2>1, <1>11
<1> HIDE DEF r6
<1>25. v(6) < r6
  <2>1. v(6 - 1) < n(6) * r6
    BY <1>24 DEF r5
  <2> QED BY <1>13, <2>1, <1>11
<1> HIDE DEF r7
<1>26. v(7) < r7
  <2>1. v(7 - 1) < n(7) * r7
    BY <1>25 DEF r6
  <2> QED BY <1>12, <2>1, <1>11
<1>27. v(8) < 1
  <2>1. v(8 - 1) < n(8) * 1
    BY <1>26 DEF r7
  <2> QED BY <2>1, <1>11
<1>28. v(8) = 0
  BY <1>3, <1>27 DEF v
<1> QED BY <1>3, <1>4, <1>8, <1>9, <1>28 DEF DigitsLeft, v, n, d

\* decode() gives every transaction of a stack coordinates of its own, under
\* every template, when the stack is no larger than its organization.
THEOREM CoordinatesAreUnique ==
  ASSUME NEW org \in Organizations, ~org.efficiency, NEW a \in Nat, NEW b \in Nat,
         a \div org.transaction < Volume(org), b \div org.transaction < Volume(org),
         Decode(org, a) = Decode(org, b)
  PROVE  a \div org.transaction = b \div org.transaction
<1>1. PICK x : Digests(org, a, x) /\ Decode(org, a) = ApplyEfficiency(org, x[8].at)
  BY DecodeDigests DEF DecodeSum
<1>2. PICK y : Digests(org, b, y) /\ Decode(org, b) = ApplyEfficiency(org, y[8].at)
  BY DecodeDigests DEF DecodeSum
<1>3. x[8].at = y[8].at
  BY <1>1, <1>2 DEF ApplyEfficiency
<1>4. DigitsLeft(org, x) /\ DigitsLeft(org, y)
  BY <1>1, <1>2, DigitsAreLeft
<1>5. \A i \in 1 .. 8 : x[i].value = y[i].value => x[i - 1].value = y[i - 1].value
  BY <1>3, <1>4 DEF DigitsLeft
<1> DEFINE E(i) == x[i].value = y[i].value
<1> HIDE DEF E
<1>6. E(8)
  BY <1>4 DEF DigitsLeft, E
<1>7. \A i \in 1 .. 8 : E(i) => E(i - 1)
  BY <1>5 DEF E
<1>8. E(7)
  <2>0. 8 \in 1 .. 8
    OBVIOUS
  <2>1. E(8) => E(8 - 1)
    BY <1>7, <2>0
  <2>2. 8 - 1 = 7
    OBVIOUS
  <2>3. E(8) => E(7)
    BY <2>1, <2>2
  <2> QED BY <1>6, <2>3
<1>9. E(6)
  <2>1. E(7 - 1)
    BY <1>7, <1>8
  <2> QED BY <2>1
<1>10. E(5)
  <2>1. E(6 - 1)
    BY <1>7, <1>9
  <2> QED BY <2>1
<1>11. E(4)
  <2>1. E(5 - 1)
    BY <1>7, <1>10
  <2> QED BY <2>1
<1>12. E(3)
  <2>1. E(4 - 1)
    BY <1>7, <1>11
  <2> QED BY <2>1
<1>13. E(2)
  <2>1. E(3 - 1)
    BY <1>7, <1>12
  <2> QED BY <2>1
<1>14. E(1)
  <2>1. E(2 - 1)
    BY <1>7, <1>13
  <2> QED BY <2>1
<1>15. E(0)
  <2>1. E(1 - 1)
    BY <1>7, <1>14
  <2> QED BY <2>1
<1> QED BY <1>1, <1>2, <1>15 DEF E, Digests

\* The options of a run, as SetupAssumption has them.
Legal(u) ==
  /\ u \in Options /\ Compatible(u) /\ GeometryAllowed(u)
  /\ u.source # "trace" => SpaceAllowed(u)
  /\ \A i \in DOMAIN u.trace : LineAllowed(u.org, u.trace[i])

\* Sequences of n bytes, and functions on a part of D.
Marks == Nat \cup STRING \cup {"zero"}
Byte == Int \X Marks \X Nat
Bytes(n) == {s \in Seq(Byte) : Len(s) = n}
Maps(D, R) == UNION {[S -> R] : S \in SUBSET D}

StackIds == Nat \cup {None}
ControlNames == TraceCommands \cup {"PDE", "PDX", "SREFEN", "SREFEX"}

\* The bytes of a write, or those a read expects.
Payloads == Seq(Byte) \ {<<>>}

\* The requests of a stream.
HostRecords ==
  [id : Nat, type : {"read", "write", "control"}, cmd : ControlNames \cup {"none"},
   address : Nat, cycle : Nat, stack : StackIds, explicit : BOOLEAN,
   payload : Seq(Byte), expected : Seq(Byte), mask : Seq(BOOLEAN)]
HostSound(h) ==
  /\ h.explicit => h.stack \in Nat
  /\ h.type # "control" => (h.explicit <=> h.stack # None)
  /\ h.payload # <<>> <=> h.type = "write"
  /\ h.expected # <<>> => h.type = "read"
  /\ h.mask # <<>> => h.type = "write" /\ Len(h.mask) = Len(h.payload)
  /\ h.type = "control" => h.cmd \in ControlNames
Hosts(u) == {h \in HostRecords : HostSound(h)}

\* The transactions.
PartRecords(u) ==
  [id : Nat, system : Nat, owed : Seq(Byte), host : Nat, index : Nat, count : Nat,
   size : Nat, type : {"read", "write", "control"}, cmd : ControlNames \cup {"none"},
   cycle : Nat, stack : StackIds, explicit : BOOLEAN, address : Nat, at : Places(u.org),
   payload : Seq(Byte), expected : Seq(Byte), mask : Seq(BOOLEAN)]
PartSound(u, p) ==
  /\ p.explicit => p.stack \in Nat
  /\ p.type = "control" => p.size = 0
  /\ p.type = "control" => p.cmd \in ControlNames
  /\ p.type # "control" => p.size \in 1 .. u.org.transaction
  /\ p.payload \in Bytes(IF p.type = "write" THEN p.size ELSE 0)
  /\ p.mask # <<>> => p.type = "write" /\ Len(p.mask) = p.size
Parts(u) == {p \in PartRecords(u) : PartSound(u, p)}

\* Before a transaction is routed, it has a stack only when its line named one.
Fresh(p) == p.type # "control" => (p.explicit <=> p.stack # None)
Incoming(u) == {p \in Parts(u) : Fresh(p)}

Bursts ==
  [active : {TRUE}, type : {"read", "write"}, address : Nat, cycle : Nat, count : Nat,
   line : Nat, data : STRING, check : STRING, stack : StackIds] \cup {NoBurst}

Histories == Maps(Nat \X StackIds, Payloads)
Positive == Nat \ {0}
Streams(u) ==
  [line : Positive, nextId : Nat, emitted : Nat, burst : Bursts,
   lastWrites : Histories, control : Nat,
   pending : Seq(Incoming(u)), transactions : Nat, failed : BOOLEAN]

-----------------------------------------------------------------------------
(* Operators *)

\* The assumption on the setups, unfolded.
LEMMA SetupsAreLegal == \A u \in Setups : Legal(u)
BY SetupAssumption DEF Legal

\* Partial maps from D to R: what they hold, and what adding one pair gives.
LEMMA MapsProperties ==
  ASSUME NEW D, NEW R, NEW m \in Maps(D, R)
  PROVE  /\ DOMAIN m \subseteq D
         /\ m = [x \in DOMAIN m |-> m[x]]
         /\ \A x \in DOMAIN m : m[x] \in R
         /\ \A x \in D : \A y \in R : With(m, x, y) \in Maps(D, R)
<1>1. PICK S \in SUBSET D : m \in [S -> R]
  BY DEF Maps
<1>2. ASSUME NEW x \in D, NEW y \in R
      PROVE  With(m, x, y) \in Maps(D, R)
  <2>1. S \cup {x} \in SUBSET D /\ With(m, x, y) \in [S \cup {x} -> R]
    BY <1>1 DEF With
  <2> QED BY <2>1 DEF Maps
<1> QED BY <1>1, <1>2

\* A function on part of D is one.
LEMMA MapsIntro ==
  ASSUME NEW D, NEW R, NEW S \in SUBSET D, NEW m \in [S -> R]
  PROVE  m \in Maps(D, R)
BY DEF Maps

\* So is one map over another.
LEMMA OverMaps ==
  ASSUME NEW D, NEW R, NEW f \in Maps(D, R), NEW g \in Maps(D, R)
  PROVE  Over(f, g) \in Maps(D, R)
<1>1. PICK S \in SUBSET D : f \in [S -> R]
  BY DEF Maps
<1>2. PICK T \in SUBSET D : g \in [T -> R]
  BY DEF Maps
<1>3. S \cup T \in SUBSET D /\ Over(f, g) \in [S \cup T -> R]
  BY <1>1, <1>2 DEF Over
<1> QED BY <1>3 DEF Maps

\* A function on 1 .. n is a sequence of n bytes.
LEMMA BytesMade ==
  ASSUME NEW n \in Nat, NEW s \in [1 .. n -> Byte]
  PROVE  s \in Bytes(n)
<1>1. s \in Seq(Byte) /\ Len(s) = n
  OBVIOUS
<1> QED BY <1>1 DEF Bytes

\* What a sequence of n bytes is.
LEMMA BytesAre ==
  ASSUME NEW n \in Nat, NEW s \in Bytes(n)
  PROVE  s \in Seq(Byte) /\ Len(s) = n /\ DOMAIN s = 1 .. n /\ \A i \in 1 .. n : s[i] \in Byte
BY DEF Bytes

\* The -1 of the code is no natural number.
LEMMA NoneIsInt == None \in Int /\ None \notin Nat
BY DEF None

\* The byte the storage starts with is a byte.
LEMMA ZeroByteIsByte == ZeroByte \in Byte
<1>1. "zero" \in Marks
  BY DEF Marks
<1> QED BY <1>1, NoneIsInt DEF ZeroByte, Byte

\* So are n of them.
LEMMA ZerosAreBytes ==
  ASSUME NEW n \in Nat
  PROVE  Zeros(n) \in Bytes(n)
<1>1. Zeros(n) \in [1 .. n -> Byte]
  BY ZeroByteIsByte DEF Zeros
<1> QED BY <1>1, BytesMade

\* A byte spelled out in hexadecimal is a byte.
LEMMA MarkedByte ==
  ASSUME NEW v \in Marks, NEW i \in Nat
  PROVE  <<None, v, i>> \in Byte
BY NoneIsInt DEF Byte

\* Some bytes are a payload.
LEMMA BytesArePayloads ==
  ASSUME NEW n \in Nat \ {0}, NEW b \in Bytes(n)
  PROVE  b \in Payloads
<1>1. Len(<<>>) = 0
  OBVIOUS
<1> QED BY <1>1 DEF Bytes, Payloads

\* Every value a line of the trace may name stands for the bytes asked for.
LEMMA DataValueIsBytes ==
  ASSUME NEW value \in STRING, NEW address \in Nat, NEW id \in Nat, NEW n \in Nat
  PROVE  DataValue(value, address, id, n) \in Bytes(n)
<1>2. MakePayload(address, id, n) \in Bytes(n)
  <2>1. \A i \in 1 .. n : <<address, id, i>> \in Byte
    <3>1. id \in Marks
      BY DEF Marks
    <3> QED BY <3>1 DEF Byte
  <2>2. MakePayload(address, id, n) \in [1 .. n -> Byte]
    BY <2>1 DEF MakePayload
  <2> QED BY <2>2, BytesMade
<1>3. Hex(value, n) \in Bytes(n)
  <2>1. \A i \in 1 .. n : <<None, value, i>> \in Byte
    <3>1. value \in Marks
      BY DEF Marks
    <3>2. 1 .. n \subseteq Nat
      OBVIOUS
    <3> QED BY <3>1, <3>2, MarkedByte, Zenon
  <2>2. Hex(value, n) \in [1 .. n -> Byte]
    BY <2>1 DEF Hex
  <2> QED BY <2>2, BytesMade
<1> QED BY <1>2, <1>3, ZerosAreBytes DEF DataValue

\* A request with the stream after it.
Taken(u) == [host : Hosts(u), next : Streams(u)]

\* The types of the options of a setup.
LEMMA LegalParts ==
  ASSUME NEW u, Legal(u)
  PROVE  /\ u.org \in Organizations /\ u.map \in StackMaps
         /\ u.org.line \in Nat \ {0} /\ u.org.transaction \in Nat \ {0}
         /\ \A f \in Fields : u.org.size[f] \in Nat \ {0}
         /\ u.trace \in Seq(TraceLines)
         /\ u.requests \in Nat /\ u.interval \in Nat /\ u.stride \in Nat
         /\ u.space \in Nat /\ u.controlInterval \in Nat
         /\ u.source \in {"trace", "random", "stream"}
BY DEF Legal, Options, Organizations

\* A host request before its payload is set.
LEMMA HostOfRecord ==
  ASSUME NEW s, s.nextId \in Nat, NEW type \in {"read", "write", "control"},
         NEW address \in Nat, NEW cycle \in Nat, NEW stack \in StackIds
  PROVE  LET h == HostOf(s, type, address, cycle, stack)
         IN /\ h \in HostRecords
            /\ h.id = s.nextId /\ h.type = type /\ h.address = address
            /\ h.cycle = cycle /\ h.stack = stack /\ (h.explicit <=> stack # None)
            /\ h.payload = <<>> /\ h.expected = <<>> /\ h.mask = <<>>
<1> DEFINE h == HostOf(s, type, address, cycle, stack)
<1>1. /\ h.id = s.nextId /\ h.type = type /\ h.address = address
      /\ h.cycle = cycle /\ h.stack = stack /\ (h.explicit <=> stack # None)
      /\ h.payload = <<>> /\ h.expected = <<>> /\ h.mask = <<>>
  BY DEF HostOf
<1>2. h \in HostRecords
  <2>1. (stack # None) \in BOOLEAN
    OBVIOUS
  <2>2. <<>> \in Seq(Byte) /\ <<>> \in Seq(BOOLEAN)
    OBVIOUS
  <2> QED BY <2>1, <2>2 DEF HostOf, HostRecords
<1> QED BY <1>1, <1>2

\* The payload, the mask and the expected bytes of a request.
LEMMA HostWithData ==
  ASSUME NEW u, Legal(u), NEW h \in HostRecords, h.explicit => h.stack \in Nat,
         h.explicit <=> h.stack # None,
         h.payload = <<>>, h.expected = <<>>, h.mask = <<>>, h.type # "control"
  PROVE  /\ h.type = "read" => h \in Hosts(u)
         /\ \A b \in Payloads :
              h.type = "read" => [h EXCEPT !.expected = b] \in Hosts(u)
         /\ h.type = "read" => [h EXCEPT !.expected = <<>>] \in Hosts(u)
         /\ \A b \in Payloads :
              h.type = "write" => [h EXCEPT !.payload = b] \in Hosts(u)
         /\ \A b \in Payloads : \A m \in Seq(BOOLEAN) :
              h.type = "write" /\ (m # <<>> => Len(m) = Len(b)) =>
                [h EXCEPT !.payload = b, !.mask = m] \in Hosts(u)
<1>1. <<>> \in Bytes(0) /\ <<>> \in Seq(Byte)
  BY DEF Bytes
<1>2. \A b \in Payloads : b \in Seq(Byte) /\ b # <<>>
  BY DEF Payloads
<1>3. h.type = "read" => h \in Hosts(u)
  BY <1>1 DEF Hosts, HostSound
<1>4. ASSUME NEW b \in Payloads, h.type = "read"
      PROVE  [h EXCEPT !.expected = b] \in Hosts(u)
  <2>1. [h EXCEPT !.expected = b] \in HostRecords
    BY <1>2 DEF HostRecords
  <2> QED BY <1>1, <1>4, <2>1 DEF Hosts, HostSound, HostRecords
<1>5. ASSUME h.type = "read"
      PROVE  [h EXCEPT !.expected = <<>>] \in Hosts(u)
  <2>1. [h EXCEPT !.expected = <<>>] \in HostRecords
    BY <1>1 DEF HostRecords
  <2> QED BY <1>1, <1>5, <2>1 DEF Hosts, HostSound, HostRecords
<1>6. ASSUME NEW b \in Payloads, h.type = "write"
      PROVE  [h EXCEPT !.payload = b] \in Hosts(u)
  <2>1. [h EXCEPT !.payload = b] \in HostRecords
    BY <1>2 DEF HostRecords
  <2> QED BY <1>2, <1>6, <2>1 DEF Hosts, HostSound, HostRecords
<1>7. ASSUME NEW b \in Payloads, NEW m \in Seq(BOOLEAN),
             h.type = "write", m # <<>> => Len(m) = Len(b)
      PROVE  [h EXCEPT !.payload = b, !.mask = m] \in Hosts(u)
  <2>1. [h EXCEPT !.payload = b, !.mask = m] \in HostRecords
    BY <1>2 DEF HostRecords
  <2> QED BY <1>2, <1>7, <2>1 DEF Hosts, HostSound, HostRecords
<1> QED BY <1>3, <1>4, <1>5, <1>6, <1>7

\* Emitting a request moves the counters by one and keeps the stream typed.
LEMMA EmitTyped ==
  ASSUME NEW u, Legal(u), NEW s \in Streams(u), NEW h \in Hosts(u)
  PROVE  /\ Emit(u, s, h) \in Taken(u) /\ Emit(u, s, h).host = h
         /\ Emit(u, s, h).next.failed = s.failed
         /\ Emit(u, s, h).next.emitted = s.emitted + 1
         /\ Emit(u, s, h).next.nextId = s.nextId + 1
         /\ Emit(u, s, h).next.control = s.control
         /\ Emit(u, s, h).next.pending = s.pending
         /\ Emit(u, s, h).next.transactions = s.transactions
<1>1. AddressKey(h) \in Nat \X StackIds
  BY DEF AddressKey, Hosts, HostRecords, StackIds
<1>2. h.type = "write" => h.payload \in Payloads
  BY DEF Hosts, HostSound, HostRecords, Payloads
<1>3. RememberWrite(u, s, h) \in Histories
  <2>1. s.lastWrites \in Histories
    BY DEF Streams
  <2> QED BY <1>1, <1>2, <2>1, MapsProperties DEF RememberWrite, Histories
<1> DEFINE w == RememberWrite(u, s, h)
           y == Accounted(s)
           e == Emit(u, s, h)
<1>4. y = [s EXCEPT !.nextId = s.nextId + 1, !.emitted = s.emitted + 1]
  BY DEF Accounted
<1>5. e = [host |-> h, next |-> [y EXCEPT !.lastWrites = w]]
  BY DEF Emit
<1> HIDE DEF w, y, e
<1>6. y \in Streams(u)
  <2>1. s.nextId + 1 \in Nat /\ s.emitted + 1 \in Nat
    BY DEF Streams
  <2>2. \A n \in Nat : \A m \in Nat :
          [s EXCEPT !.nextId = n, !.emitted = m] \in Streams(u)
    BY DEF Streams
  <2> QED BY <1>4, <2>1, <2>2
<1>7. /\ y.failed = s.failed /\ y.emitted = s.emitted + 1
      /\ y.nextId = s.nextId + 1 /\ y.control = s.control
      /\ y.pending = s.pending /\ y.transactions = s.transactions
  BY <1>4 DEF Streams
<1> DEFINE z == [y EXCEPT !.lastWrites = w]
<1>8. z \in Streams(u)
  BY <1>3, <1>6 DEF Streams, w
<1>9. /\ z.failed = s.failed /\ z.emitted = s.emitted + 1
      /\ z.nextId = s.nextId + 1 /\ z.control = s.control
      /\ z.pending = s.pending /\ z.transactions = s.transactions
  BY <1>6, <1>7 DEF Streams
<1> HIDE DEF z
<1>10. e = [host |-> h, next |-> z]
  BY <1>5 DEF z
<1> QED BY <1>8, <1>9, <1>10 DEF Taken, e

\* What taking a request does to the counters of a stream.
Moves(s, x) ==
  /\ x.next.pending = s.pending /\ x.next.transactions = s.transactions
  /\ x.next.failed \/ (x.next.failed = s.failed /\ x.next.emitted = s.emitted + 1
                       /\ x.next.control = s.control /\ x.next.nextId = s.nextId + 1)

Takes(u, s, x) == x \in Taken(u) /\ Moves(s, x)

\* The bytes a read expects.
LEMMA ExpectedIsBytes ==
  ASSUME NEW u, Legal(u), NEW s \in Streams(u), NEW r \in HostRecords,
         NEW check \in STRING, NEW burst \in BOOLEAN, NEW n \in Nat \ {0},
         ~MissingLastWrite(s, r, check)
  PROVE  \/ ExpectedPayload(s, r, check, burst, n) = <<>>
         \/ ExpectedPayload(s, r, check, burst, n) \in Payloads
<1>1. HasLastWrite(s, r) => s.lastWrites[AddressKey(r)] \in Payloads
  <2>1. s.lastWrites \in Maps(Nat \X StackIds, Payloads)
    BY DEF Streams, Histories
  <2> QED BY <2>1, MapsProperties DEF HasLastWrite
<1>2. r.id \in Nat /\ r.address \in Nat
  BY DEF HostRecords
<1>3. \A id \in Nat : DataValue(check, r.address, id, n) \in Payloads
  BY <1>2, DataValueIsBytes, BytesArePayloads
<1>4. DataValue(check, r.address, IF burst THEN 0 ELSE r.id, n) \in Payloads
  BY <1>2, <1>3
<1> HIDE <1>3
<1>5. CASE check = "none"
  BY <1>5 DEF ExpectedPayload
<1>6. CASE check # "none" /\ check = "last_write"
  BY <1>1, <1>6 DEF ExpectedPayload, MissingLastWrite
<1>7. CASE check # "none" /\ check # "last_write"
  BY <1>1, <1>4, <1>7 DEF ExpectedPayload
<1> QED BY <1>5, <1>6, <1>7

\* A request before its bytes.
Bare(h, type) ==
  /\ h \in HostRecords /\ (h.explicit => h.stack \in Nat) /\ h.type = type
  /\ (h.explicit <=> h.stack # None)
  /\ h.payload = <<>> /\ h.expected = <<>> /\ h.mask = <<>>

\* A request just made has no payload, no mask and expects nothing.
LEMMA BareHosts ==
  ASSUME NEW s, s.nextId \in Nat, NEW address \in Nat, NEW cycle \in Nat,
         NEW stack \in StackIds
  PROVE  /\ Bare(HostOf(s, "read", address, cycle, stack), "read")
         /\ Bare(HostOf(s, "write", address, cycle, stack), "write")
<1>1. ASSUME NEW type \in {"read", "write", "control"}
      PROVE  Bare(HostOf(s, type, address, cycle, stack), type)
  <2> DEFINE r == HostOf(s, type, address, cycle, stack)
  <2>1. /\ r \in HostRecords /\ (r.explicit <=> stack # None) /\ r.stack = stack
        /\ r.type = type /\ r.payload = <<>> /\ r.expected = <<>> /\ r.mask = <<>>
    BY HostOfRecord
  <2> HIDE DEF r
  <2>2. Bare(r, type)
    BY <2>1 DEF StackIds, Bare
  <2> QED BY <2>2 DEF r
<1> QED BY <1>1

\* A read or a write with its bytes is a request.
LEMMA ReadTaken ==
  ASSUME NEW u, Legal(u), NEW s \in Streams(u), NEW rest \in Streams(u),
         rest.pending = s.pending, rest.transactions = s.transactions,
         rest.failed = s.failed, rest.emitted = s.emitted,
         rest.control = s.control, rest.nextId = s.nextId,
         NEW address \in Nat, NEW cycle \in Nat, NEW stack \in StackIds,
         NEW check \in STRING, NEW burst \in BOOLEAN, NEW n \in Nat \ {0}
  PROVE  LET r == HostOf(s, "read", address, cycle, stack)
         IN IF MissingLastWrite(s, r, check)
            THEN Takes(u, s, [host |-> r, next |-> Failed(rest)])
            ELSE Takes(u, s, Emit(u, rest,
                   [r EXCEPT !.expected = ExpectedPayload(s, r, check, burst, n)]))
<1> DEFINE r == HostOf(s, "read", address, cycle, stack)
           b == ExpectedPayload(s, r, check, burst, n)
           h == [r EXCEPT !.expected = b]
<1>1. s.nextId \in Nat
  BY DEF Streams
<1>2. /\ r \in HostRecords /\ (r.explicit => r.stack \in Nat) /\ (r.explicit <=> r.stack # None) /\ r.type = "read"
      /\ r.payload = <<>> /\ r.expected = <<>> /\ r.mask = <<>>
  BY <1>1, BareHosts DEF Bare
<1> HIDE DEF r
<1>3. CASE MissingLastWrite(s, r, check)
  <2>1. Failed(rest) \in Streams(u) /\ Failed(rest).failed
        /\ Failed(rest).pending = s.pending /\ Failed(rest).transactions = s.transactions
    BY DEF Failed, Streams
  <2>2. r \in Hosts(u)
    BY <1>2, HostWithData
  <2>4. Takes(u, s, [host |-> r, next |-> Failed(rest)])
    BY <2>1, <2>2 DEF Takes, Taken, Moves
  <2> QED BY <1>3, <2>4 DEF r
<1>4. CASE ~MissingLastWrite(s, r, check)
  <2>1. b = <<>> \/ b \in Payloads
    BY <1>2, <1>4, ExpectedIsBytes
  <2> HIDE DEF b
  <2>2. h \in Hosts(u)
    <3>1. h.type = r.type
      BY <1>2 DEF HostRecords
    <3> QED BY <1>2, <2>1, <3>1, HostWithData
  <2> HIDE DEF h
  <2>3. Takes(u, s, Emit(u, rest, h))
    BY <2>2, EmitTyped DEF Takes, Moves
  <2> QED BY <1>4, <2>3 DEF h, b, r
<1> QED BY <1>3, <1>4 DEF r

\* A write that is emitted carries some bytes.
LEMMA WriteTaken ==
  ASSUME NEW u, Legal(u), NEW s \in Streams(u), NEW rest \in Streams(u),
         rest.pending = s.pending, rest.transactions = s.transactions,
         rest.failed = s.failed, rest.emitted = s.emitted,
         rest.control = s.control, rest.nextId = s.nextId,
         NEW address \in Nat, NEW cycle \in Nat, NEW stack \in StackIds,
         NEW b \in Payloads, NEW m \in Seq(BOOLEAN),
         m # <<>> => Len(m) = Len(b)
  PROVE  LET r == HostOf(s, "write", address, cycle, stack)
         IN /\ Takes(u, s, Emit(u, rest, [r EXCEPT !.payload = b]))
            /\ Takes(u, s, Emit(u, rest, [r EXCEPT !.payload = b, !.mask = m]))
<1> DEFINE r == HostOf(s, "write", address, cycle, stack)
           g == [r EXCEPT !.payload = b]
           h == [r EXCEPT !.payload = b, !.mask = m]
<1>1. s.nextId \in Nat
  BY DEF Streams
<1>a. Bare(r, "write")
  BY <1>1, BareHosts
<1>2. /\ r \in HostRecords /\ (r.explicit => r.stack \in Nat)
      /\ (r.explicit <=> r.stack # None) /\ r.type = "write"
      /\ r.payload = <<>> /\ r.expected = <<>> /\ r.mask = <<>>
  <2> HIDE DEF r
  <2> QED BY <1>a DEF Bare
<1> HIDE DEF r
<1>3. g \in Hosts(u) /\ h \in Hosts(u)
  BY <1>2, HostWithData
<1> HIDE DEF g, h
<1>4. Takes(u, s, Emit(u, rest, g)) /\ Takes(u, s, Emit(u, rest, h))
  BY <1>3, EmitTyped DEF Takes, Moves
<1> QED BY <1>4 DEF g, h, r

\* The mask that is not given is a sequence of Booleans.
LEMMA EmptyMask == <<>> \in Seq(BOOLEAN)
OBVIOUS

\* emit_burst() hands out a request.
LEMMA BurstTaken ==
  ASSUME NEW u, Legal(u), NEW s \in Streams(u), s.burst.active
  PROVE  Takes(u, s, EmitBurst(u, s))
<1> DEFINE b == s.burst
           rest == [s EXCEPT !.burst = BurstAdvanced(b)]
           a == b.address + b.line * u.org.line
<1>1. b \in Bursts /\ b # NoBurst
  <2>1. b \in Bursts
    BY DEF Streams
  <2>2. NoBurst.active = FALSE
    BY DEF NoBurst
  <2> QED BY <2>1, <2>2
<1>2. /\ b.type \in {"read", "write"} /\ b.address \in Nat /\ b.cycle \in Nat
      /\ b.line \in Nat /\ b.data \in STRING /\ b.check \in STRING /\ b.stack \in StackIds
  <2> HIDE DEF b
  <2> QED BY <1>1 DEF Bursts
<1>3. a \in Nat
  <2>1. b.line * u.org.line \in Nat
    BY <1>2, LegalParts, ProductNat
  <2> QED BY <1>2, <2>1
<1>4. BurstAdvanced(b) \in Bursts
  <2> HIDE DEF b
  <2>1. [b EXCEPT !.line = @ + 1] \in Bursts
    <3>1. b.line + 1 \in Nat
      BY <1>2
    <3>2. \A n \in Nat : [b EXCEPT !.line = n] \in Bursts
      BY <1>1 DEF Bursts
    <3> QED BY <3>1, <3>2
  <2>2. NoBurst \in Bursts
    BY DEF Bursts
  <2> QED BY <2>1, <2>2 DEF BurstAdvanced
<1> DEFINE nb == BurstAdvanced(b)
<1>5. /\ rest \in Streams(u) /\ rest.pending = s.pending
      /\ rest.transactions = s.transactions /\ rest.failed = s.failed
      /\ rest.emitted = s.emitted /\ rest.control = s.control /\ rest.nextId = s.nextId
  <2> HIDE DEF nb
  <2>1. nb \in Bursts
    BY <1>4 DEF nb
  <2>2. \A x \in Bursts : LET y == [s EXCEPT !.burst = x]
          IN /\ y \in Streams(u) /\ y.pending = s.pending
             /\ y.transactions = s.transactions /\ y.failed = s.failed
             /\ y.emitted = s.emitted /\ y.control = s.control /\ y.nextId = s.nextId
    BY DEF Streams
  <2> QED BY <2>1, <2>2 DEF nb
<1> DEFINE r == BurstHost(u, s)
<1>6. r = HostOf(s, b.type, a, b.cycle, b.stack)
  BY DEF BurstHost
<1>7. CASE b.type = "write"
  <2> DEFINE p == DataValue(b.data, a, 0, u.org.line)
  <2>1. p \in Payloads
    BY <1>2, <1>3, LegalParts, DataValueIsBytes, BytesArePayloads
  <2>2. Takes(u, s, Emit(u, rest, [HostOf(s, "write", a, b.cycle, b.stack)
                                   EXCEPT !.payload = p]))
    <3> HIDE DEF b, a, p, rest
    <3> QED BY <1>2, <1>3, <1>5, <2>1, WriteTaken, EmptyMask
  <2>3. HostOf(s, "write", a, b.cycle, b.stack).address = a
    BY DEF HostOf
  <2>4. EmitBurst(u, s) = Emit(u, rest, [HostOf(s, "write", a, b.cycle, b.stack)
                                         EXCEPT !.payload = p])
    BY <1>6, <1>7, <2>3 DEF EmitBurst
  <2> QED BY <2>2, <2>4
<1>8. CASE b.type = "read"
  <2> DEFINE h == HostOf(s, "read", a, b.cycle, b.stack)
  <2>1. r = h
    BY <1>6, <1>8
  <2>2. IF MissingLastWrite(s, h, b.check)
        THEN Takes(u, s, [host |-> h, next |-> Failed(rest)])
        ELSE Takes(u, s, Emit(u, rest,
               [h EXCEPT !.expected = ExpectedPayload(s, h, b.check, TRUE, u.org.line)]))
    <3> HIDE DEF b, a, rest
    <3> QED BY <1>2, <1>3, <1>5, LegalParts, ReadTaken
  <2>3. EmitBurst(u, s) = IF MissingLastWrite(s, h, b.check)
                          THEN [host |-> h, next |-> Failed(s)]
                          ELSE Emit(u, rest,
               [h EXCEPT !.expected = ExpectedPayload(s, h, b.check, TRUE, u.org.line)])
    BY <1>8, <2>1 DEF EmitBurst
  <2>4. Takes(u, s, [host |-> h, next |-> Failed(rest)]) =>
          Takes(u, s, [host |-> h, next |-> Failed(s)])
    <3>1. Failed(s) \in Streams(u) /\ Failed(s).failed
          /\ Failed(s).pending = s.pending /\ Failed(s).transactions = s.transactions
      BY DEF Failed, Streams
    <3> HIDE DEF h, rest
    <3> QED BY <3>1 DEF Takes, Taken, Moves
  <2> QED BY <2>2, <2>3, <2>4
<1> QED BY <1>2, <1>7, <1>8

\* The inject cycle of a line.
LEMMA InjectCycleNat ==
  ASSUME NEW u, Legal(u), NEW s \in Streams(u), NEW t \in TraceLines
  PROVE  InjectCycle(u, s, t) \in Nat
<1>1. s.nextId \in Nat /\ u.interval \in Nat
  BY LegalParts DEF Streams
<1>2. s.nextId * u.interval \in Nat
  BY <1>1, ProductNat
<1> QED BY <1>2 DEF InjectCycle, TraceLines

\* parse_trace_line() hands out a request.
LEMMA SingleTaken ==
  ASSUME NEW u, Legal(u), NEW s \in Streams(u), NEW t \in TraceLines,
         LineAllowed(u.org, t)
  PROVE  Takes(u, s, EmitSingle(u, s, t))
<1> DEFINE c == InjectCycle(u, s, t)
<1>1. /\ t.address \in Nat /\ t.stack \in StackIds /\ t.data \in STRING
      /\ t.check \in STRING /\ t.mask \in Seq(BOOLEAN)
      /\ (t.mask # <<>> => Len(t.mask) = t.size) /\ t.size \in Nat \ {0}
  BY DEF TraceLines, StackIds, LineAllowed
<1>2. c \in Nat
  BY InjectCycleNat
<1>3. CASE t.op = "W"
  <2> DEFINE h == HostOf(s, "write", t.address, c, t.stack)
             p == DataValue(t.data, t.address, h.id, t.size)
  <2>1. h.id = s.nextId
    BY DEF HostOf
  <2>2. p \in Payloads /\ Len(p) = t.size
    <3>1. h.id \in Nat
      BY <2>1 DEF Streams
    <3>2. p \in Bytes(t.size)
      <4> HIDE DEF h
      <4> QED BY <1>1, <3>1, DataValueIsBytes
    <3> HIDE DEF h, p
    <3>3. Len(p) = t.size
      BY <3>2 DEF Bytes
    <3> QED BY <1>1, <3>2, <3>3, BytesArePayloads
  <2>3. EmitSingle(u, s, t) = Emit(u, s, [h EXCEPT !.payload = p, !.mask = t.mask])
    BY <1>3 DEF EmitSingle
  <2> HIDE DEF p, c
  <2>4. Takes(u, s, Emit(u, s, [h EXCEPT !.payload = p, !.mask = t.mask]))
    BY <1>1, <1>2, <2>2, WriteTaken
  <2> QED BY <2>3, <2>4
<1>4. CASE t.op # "W"
  <2> DEFINE h == HostOf(s, "read", t.address, c, t.stack)
  <2>1. EmitSingle(u, s, t) = IF MissingLastWrite(s, h, t.check)
                              THEN [host |-> h, next |-> Failed(s)]
                              ELSE Emit(u, s,
              [h EXCEPT !.expected = ExpectedPayload(s, h, t.check, FALSE, t.size)])
    BY <1>4 DEF EmitSingle
  <2> HIDE DEF c
  <2>2. IF MissingLastWrite(s, h, t.check)
        THEN Takes(u, s, [host |-> h, next |-> Failed(s)])
        ELSE Takes(u, s, Emit(u, s,
               [h EXCEPT !.expected = ExpectedPayload(s, h, t.check, FALSE, t.size)]))
    BY <1>1, <1>2, ReadTaken
  <2> QED BY <2>1, <2>2
<1> QED BY <1>3, <1>4

\* A maintenance line hands out a control command.
LEMMA CommandTaken ==
  ASSUME NEW u, Legal(u), NEW s \in Streams(u), NEW t \in TraceLines,
         LineAllowed(u.org, t), t.op = "M"
  PROVE  Takes(u, s, EmitControl(u, s, t))
<1> DEFINE c == InjectCycle(u, s, t)
           r == HostOf(s, "control", t.address, c, t.stack)
           h == [r EXCEPT !.cmd = t.cmd]
<1>1. /\ t.address \in Nat /\ t.stack \in StackIds /\ t.cmd \in ControlNames
  BY DEF TraceLines, StackIds, LineAllowed, ControlNames
<1>2. c \in Nat /\ s.nextId \in Nat
  BY InjectCycleNat DEF Streams
<1>3. /\ r \in HostRecords /\ r.type = "control" /\ r.stack = t.stack
      /\ (r.explicit <=> t.stack # None)
      /\ r.payload = <<>> /\ r.expected = <<>> /\ r.mask = <<>>
  <2> HIDE DEF c
  <2> QED BY <1>1, <1>2, HostOfRecord
<1> HIDE DEF r, c
<1>4. /\ h \in HostRecords /\ h.type = "control" /\ h.stack = t.stack /\ h.cmd = t.cmd
      /\ (h.explicit <=> t.stack # None)
      /\ h.payload = <<>> /\ h.expected = <<>> /\ h.mask = <<>>
  BY <1>1, <1>3 DEF HostRecords
<1> HIDE DEF h
<1>5. h \in Hosts(u)
  BY <1>1, <1>4 DEF Hosts, HostSound, StackIds
<1>6. EmitControl(u, s, t) = Emit(u, s, h)
  BY DEF EmitControl, h, r, c
<1>7. Takes(u, s, Emit(u, s, h))
  BY <1>5, EmitTyped DEF Takes, Moves
<1> QED BY <1>6, <1>7

\* The next request of a trace.
LEMMA TraceTaken ==
  ASSUME NEW u, Legal(u), NEW s \in Streams(u), NEW x \in TraceNext(u, s)
  PROVE  Takes(u, s, x) /\ ~LimitReached(u, s)
<1>1. ~LimitReached(u, s)
  BY DEF TraceNext
<1>2. CASE s.burst.active
  BY <1>1, <1>2, BurstTaken DEF TraceNext
<1>3. CASE ~s.burst.active
  <2> DEFINE t == u.trace[s.line]
             read == [s EXCEPT !.line = @ + 1]
             open == [read EXCEPT !.burst = BurstOf(u, read, t)]
  <2>1. s.line \in 1 .. Len(u.trace)
    <3>1. s.line \in Nat \ {0} /\ ~(s.line > Len(u.trace))
      BY <1>1, <1>3 DEF TraceNext, Streams, Positive
    <3>2. Len(u.trace) \in Nat
      BY LegalParts, LenProperties
    <3> QED BY <3>1, <3>2
  <2>2. t \in TraceLines /\ LineAllowed(u.org, t)
    <3>1. u.trace \in Seq(TraceLines)
      BY LegalParts
    <3> QED BY <2>1, <3>1, ElementOfSeq, LenProperties DEF Legal
  <2>3. x = IF t.op \in {"BR", "BW"} THEN EmitBurst(u, open)
            ELSE IF t.op = "M" THEN EmitControl(u, read, t) ELSE EmitSingle(u, read, t)
    <3>1. s.line \in Nat /\ ~(s.line > Len(u.trace))
      BY <2>1, LegalParts, LenProperties
    <3> QED BY <1>1, <1>3, <3>1 DEF TraceNext
  <2>4. /\ read \in Streams(u) /\ read.pending = s.pending
        /\ read.transactions = s.transactions /\ read.failed = s.failed
        /\ read.emitted = s.emitted /\ read.control = s.control /\ read.nextId = s.nextId
    <3>1. s.line + 1 \in Positive
      BY <2>1 DEF Positive
    <3>2. \A n \in Positive : LET y == [s EXCEPT !.line = n]
            IN /\ y \in Streams(u) /\ y.pending = s.pending
               /\ y.transactions = s.transactions /\ y.failed = s.failed
               /\ y.emitted = s.emitted /\ y.control = s.control /\ y.nextId = s.nextId
      BY DEF Streams
    <3> QED BY <3>1, <3>2
  <2> HIDE DEF read
  <2>5. CASE t.op \in {"BR", "BW"}
    <3> DEFINE c == InjectCycle(u, read, t)
               b == BurstOf(u, read, t)
    <3>1. c \in Nat
      <4> HIDE DEF t
      <4> QED BY <2>2, <2>4, InjectCycleNat
    <3>2. b \in Bursts /\ b.active
      <4> HIDE DEF t, c
      <4>1. b = [active |-> TRUE, type |-> IF t.op = "BW" THEN "write" ELSE "read",
                 address |-> t.address, cycle |-> c, count |-> t.length,
                 line |-> 0, data |-> t.data, check |-> t.check, stack |-> t.stack]
        BY DEF BurstOf, c
      <4>2. /\ t.address \in Nat /\ t.length \in Nat /\ t.data \in STRING
            /\ t.check \in STRING /\ t.stack \in StackIds
        BY <2>2 DEF TraceLines, StackIds
      <4>3. (IF t.op = "BW" THEN "write" ELSE "read") \in {"read", "write"}
        OBVIOUS
      <4> QED BY <3>1, <4>1, <4>2, <4>3 DEF Bursts
    <3> HIDE DEF b
    <3>3. \A z \in Bursts : LET y == [read EXCEPT !.burst = z]
            IN /\ y \in Streams(u) /\ y.burst = z /\ y.pending = read.pending
               /\ y.transactions = read.transactions /\ y.failed = read.failed
               /\ y.emitted = read.emitted /\ y.control = read.control
               /\ y.nextId = read.nextId
      BY <2>4 DEF Streams
    <3>4. /\ open \in Streams(u) /\ open.burst.active /\ open.pending = s.pending
          /\ open.transactions = s.transactions /\ open.failed = s.failed
          /\ open.emitted = s.emitted /\ open.control = s.control
          /\ open.nextId = s.nextId
      BY <2>4, <3>2, <3>3 DEF b
    <3> HIDE DEF open, t
    <3>5. Takes(u, open, x)
      BY <2>3, <2>5, <3>4, BurstTaken
    <3> QED BY <1>1, <3>4, <3>5 DEF Takes, Moves
  <2>6. CASE t.op \notin {"BR", "BW"}
    <3> HIDE DEF t, open
    <3>1. Takes(u, read, x)
      BY <2>2, <2>3, <2>4, <2>6, SingleTaken, CommandTaken
    <3> QED BY <1>1, <2>4, <3>1 DEF Takes, Moves
  <2> QED BY <2>5, <2>6
<1> QED BY <1>2, <1>3

\* The next synthetic request.
LEMMA SyntheticTaken ==
  ASSUME NEW u, Legal(u), NEW s \in Streams(u), NEW x \in SyntheticNext(u, s)
  PROVE  Takes(u, s, x) /\ s.nextId < u.requests /\ x.next.failed = s.failed
<1>1. s.nextId \in Nat /\ u.requests \in Nat /\ s.nextId < u.requests
  BY LegalParts DEF SyntheticNext, Streams
<1>2. PICK type \in TypesOf(u.readRatio), a \in SyntheticAddresses(u, s) :
        x = [host |-> [HostOf(s, type, a, s.nextId * u.interval, None) EXCEPT
                         !.payload = IF type = "write"
                                     THEN MakePayload(a, s.nextId, u.org.line)
                                     ELSE <<>>],
             next |-> Accounted(s)]
  BY <1>1 DEF SyntheticNext
<1>3. a \in Nat
  <2>1. CASE u.source = "random"
    <3>1. PICK i \in 0 .. RandomStartCount(u) - 1 : a = i * u.org.line
      BY <2>1 DEF SyntheticAddresses
    <3>2. i \in Nat /\ u.org.line \in Nat
      BY LegalParts
    <3> QED BY <3>1, <3>2, ProductNat
  <2>2. CASE u.source # "random"
    <3>1. a = s.nextId * u.stride
      BY <2>2 DEF SyntheticAddresses
    <3> QED BY <1>1, <3>1, LegalParts, ProductNat
  <2> QED BY <2>1, <2>2
<1>4. type \in {"read", "write"}
  BY DEF TypesOf
<1>5. s.nextId * u.interval \in Nat
  BY <1>1, LegalParts, ProductNat
<1> DEFINE c == s.nextId * u.interval
           h == HostOf(s, type, a, c, None)
           p == MakePayload(a, s.nextId, u.org.line)
           g == [h EXCEPT !.payload = IF type = "write" THEN p ELSE <<>>]
<1> HIDE DEF c
<1>6. Bare(h, type)
  <2>1. None \in StackIds
    BY DEF StackIds
  <2> HIDE DEF h
  <2> QED BY <1>1, <1>3, <1>4, <1>5, <2>1, BareHosts DEF h, c
<1>7. p \in Payloads
  <2>2. p \in [1 .. u.org.line -> Byte]
    <3>1. \A i \in 1 .. u.org.line : <<a, s.nextId, i>> \in Byte
      <4>1. s.nextId \in Marks
        BY <1>1 DEF Marks
      <4> QED BY <1>3, <4>1 DEF Byte
    <3> QED BY <3>1 DEF MakePayload
  <2> HIDE DEF p
  <2> QED BY <2>2, LegalParts, BytesMade, BytesArePayloads
<1>8. g \in Hosts(u)
  <2> HIDE DEF h, p
  <2>1. CASE type = "write"
    <3>1. g = [h EXCEPT !.payload = p]
      BY <2>1
    <3>2. /\ h \in HostRecords /\ (h.explicit => h.stack \in Nat) /\ h.type = "write"
          /\ (h.explicit <=> h.stack # None)
          /\ h.payload = <<>> /\ h.expected = <<>> /\ h.mask = <<>>
      BY <1>6, <2>1 DEF Bare
    <3>3. \A b \in Payloads : [h EXCEPT !.payload = b] \in Hosts(u)
      BY <3>2, HostWithData
    <3> HIDE DEF g
    <3> QED BY <1>7, <3>1, <3>3
  <2>2. CASE type = "read"
    <3>1. g = h
      <4>1. h.payload = <<>> /\ h \in HostRecords
        BY <1>6 DEF Bare
      <4>2. g = [h EXCEPT !.payload = <<>>]
        BY <2>2
      <4> HIDE DEF g
      <4> QED BY <4>1, <4>2 DEF HostRecords
    <3> HIDE DEF g
    <3> QED BY <1>6, <2>2, <3>1, HostWithData DEF Bare
  <2> QED BY <1>4, <2>1, <2>2
<1>9. x = [host |-> g, next |-> Accounted(s)]
  BY <1>2 DEF c
<1> HIDE DEF g
<1>10. Emit(u, s, g).next = [Accounted(s) EXCEPT !.lastWrites = RememberWrite(u, s, g)]
  BY DEF Emit
<1>11. Takes(u, s, Emit(u, s, g)) /\ Emit(u, s, g).next.failed = s.failed
  BY <1>8, EmitTyped DEF Takes, Moves
<1>12. /\ Accounted(s) \in Streams(u) /\ Accounted(s).pending = s.pending
       /\ Accounted(s).transactions = s.transactions /\ Accounted(s).failed = s.failed
       /\ Accounted(s).emitted = s.emitted + 1 /\ Accounted(s).control = s.control
       /\ Accounted(s).nextId = s.nextId + 1
  <2>1. s.nextId + 1 \in Nat /\ s.emitted + 1 \in Nat
    BY DEF Streams
  <2>2. \A n \in Nat : \A m \in Nat :
          LET y == [s EXCEPT !.nextId = n, !.emitted = m]
          IN /\ y \in Streams(u) /\ y.pending = s.pending
             /\ y.transactions = s.transactions /\ y.failed = s.failed
             /\ y.emitted = m /\ y.control = s.control /\ y.nextId = n
    BY DEF Streams
  <2>3. Accounted(s) = [s EXCEPT !.nextId = s.nextId + 1, !.emitted = s.emitted + 1]
    BY DEF Accounted
  <2> HIDE DEF h, p
  <2>4. LET y == [s EXCEPT !.nextId = s.nextId + 1, !.emitted = s.emitted + 1]
        IN /\ y \in Streams(u) /\ y.pending = s.pending
           /\ y.transactions = s.transactions /\ y.failed = s.failed
           /\ y.emitted = s.emitted + 1 /\ y.control = s.control
           /\ y.nextId = s.nextId + 1
    BY <2>1, <2>2
  <2> QED BY <2>3, <2>4
<1> QED BY <1>1, <1>8, <1>9, <1>12 DEF Takes, Taken, Moves

\* generate_control_sequence()
LEMMA CommandsOfChannel ==
  ASSUME NEW u
  PROVE  /\ ChannelCommands(u) \in Seq(ControlNames) /\ Len(ChannelCommands(u)) \in Nat \ {0}
         /\ \A i \in 1 .. Len(ChannelCommands(u)) : ChannelCommands(u)[i] \in ControlNames
<1> DEFINE On(feature, cmd) == IF feature \in u.features THEN <<cmd>> ELSE <<>>
           head == <<"MRW", "MRR">>
           lp == head \o On("dvfs", "DVFS") \o On("wck", "WCKTRAIN")
                 \o On("link_ecc", "ECCSCRUB") \o On("link_protection", "RASERR")
           full == <<"PDE", "PDX", "SREFEN", "SREFEX">>
<1>1. head \in Seq(ControlNames) /\ Len(head) = 2
  <2>1. "MRW" \in ControlNames /\ "MRR" \in ControlNames
    BY DEF ControlNames, TraceCommands
  <2> QED BY <2>1
<1>2. ASSUME NEW s \in Seq(ControlNames), Len(s) >= 2, NEW t \in Seq(ControlNames)
      PROVE  s \o t \in Seq(ControlNames) /\ Len(s \o t) >= 2
  <2>1. s \o t \in Seq(ControlNames) /\ Len(s \o t) = Len(s) + Len(t)
    BY ConcatProperties
  <2>2. Len(s) \in Nat /\ Len(t) \in Nat
    BY LenProperties
  <2> QED BY <1>2, <2>1, <2>2
<1>3. ASSUME NEW feature, NEW cmd \in ControlNames
      PROVE  On(feature, cmd) \in Seq(ControlNames)
  <2>1. <<cmd>> \in Seq(ControlNames) /\ <<>> \in Seq(ControlNames)
    OBVIOUS
  <2> QED BY <2>1
<1>4. {"ECCSCRUB", "RASERR", "DVFS", "WCKTRAIN"} \subseteq ControlNames
  BY DEF ControlNames, TraceCommands
<1> HIDE DEF On, head
<1>5. head \o On("ecc", "ECCSCRUB") \o On("ras", "RASERR") \in Seq(ControlNames)
      /\ Len(head \o On("ecc", "ECCSCRUB") \o On("ras", "RASERR")) >= 2
  <2>1. head \o On("ecc", "ECCSCRUB") \in Seq(ControlNames)
        /\ Len(head \o On("ecc", "ECCSCRUB")) >= 2
    <3>1. On("ecc", "ECCSCRUB") \in Seq(ControlNames) /\ Len(head) >= 2
      BY <1>1, <1>3, <1>4
    <3> QED BY <1>1, <1>2, <3>1
  <2>2. On("ras", "RASERR") \in Seq(ControlNames)
    BY <1>3, <1>4
  <2> QED BY <1>2, <2>1, <2>2
<1>6. lp \in Seq(ControlNames) /\ Len(lp) >= 2
  <2> DEFINE a == On("dvfs", "DVFS")
             b == On("wck", "WCKTRAIN")
             c == On("link_ecc", "ECCSCRUB")
             d == On("link_protection", "RASERR")
  <2>1. a \in Seq(ControlNames) /\ b \in Seq(ControlNames)
        /\ c \in Seq(ControlNames) /\ d \in Seq(ControlNames)
    BY <1>3, <1>4
  <2> HIDE DEF a, b, c, d
  <2>2. head \o a \in Seq(ControlNames) /\ Len(head \o a) >= 2
    <3>1. Len(head) >= 2
      BY <1>1
    <3> QED BY <1>1, <1>2, <2>1, <3>1
  <2>3. head \o a \o b \in Seq(ControlNames) /\ Len(head \o a \o b) >= 2
    BY <1>2, <2>1, <2>2
  <2>4. head \o a \o b \o c \in Seq(ControlNames) /\ Len(head \o a \o b \o c) >= 2
    BY <1>2, <2>1, <2>3
  <2>5. head \o a \o b \o c \o d \in Seq(ControlNames)
        /\ Len(head \o a \o b \o c \o d) >= 2
    BY <1>2, <2>1, <2>4
  <2> QED BY <2>5 DEF a, b, c, d
<1>7. full \in Seq(ControlNames) /\ <<>> \in Seq(ControlNames)
  BY DEF ControlNames
<1> HIDE DEF lp, full
<1>8. lp \o full \in Seq(ControlNames) /\ Len(lp \o full) >= 2
      /\ lp \o <<>> \in Seq(ControlNames) /\ Len(lp \o <<>>) >= 2
  BY <1>2, <1>6, <1>7
<1>9. ChannelCommands(u) =
        IF "lpddr" \notin u.features
        THEN head \o On("ecc", "ECCSCRUB") \o On("ras", "RASERR")
        ELSE lp \o (IF u.sequence = "lpddr6_full" THEN full ELSE <<>>)
  BY DEF ChannelCommands, On, head, lp, full
<1>10. ChannelCommands(u) \in Seq(ControlNames) /\ Len(ChannelCommands(u)) >= 2
  BY <1>5, <1>8, <1>9
<1> QED BY <1>10, LenProperties, ElementOfSeq

\* The control commands are for the channels of the stacks.
LEMMA ControlsNat ==
  ASSUME NEW u, Legal(u)
  PROVE  /\ Controls(u) \in Nat /\ Shift(u) \in Nat
         /\ \A i \in Nat : i < Controls(u) =>
              LET c == i \div Len(ChannelCommands(u))
              IN /\ c \in Nat /\ c \div u.org.size["channel"] \in Nat
                 /\ c \div u.org.size["channel"] < u.map.stacks
                 /\ c % u.org.size["channel"] \in 0 .. u.org.size["channel"] - 1
<1> DEFINE n == Len(ChannelCommands(u))
           a == u.org.size["channel"]
           b == u.map.stacks
<1>1. n \in Nat \ {0} /\ a \in Nat \ {0} /\ b \in Nat \ {0}
  BY CommandsOfChannel, LegalParts DEF Fields, StackMaps
<1>2. Controls(u) = IF u.sequence = "none" THEN 0 ELSE (n * a) * b
  BY DEF Controls
<1>3. u.controlInterval \in Nat
  BY LegalParts
<1>4. (Controls(u) \in Nat => Shift(u) \in Nat)
  <2> SUFFICES ASSUME Controls(u) \in Nat PROVE Shift(u) \in Nat
    OBVIOUS
  <2>1. (Controls(u) + 1) * u.controlInterval \in Nat
    BY <1>3, ProductNat
  <2> QED BY <2>1 DEF Shift
<1> HIDE DEF n, a, b
<1>5. Controls(u) \in Nat
  BY <1>1, <1>2, ProductNat
<1>6. ASSUME NEW i \in Nat, i < Controls(u)
      PROVE  LET c == i \div n
             IN /\ c \in Nat /\ c \div a \in Nat /\ c \div a < b /\ c % a \in 0 .. a - 1
  <2>1. (n * a) * b = n * (a * b) /\ a * b \in Nat
    BY <1>1, ProductNat
  <2>2. i < n * (a * b)
    BY <1>2, <1>6, <2>1
  <2>3. i \div n < a * b /\ i \div n \in Nat
    BY <1>1, <2>1, <2>2, QuotientBound, Division
  <2> DEFINE c == i \div n
  <2> HIDE DEF c
  <2>4. c \in Nat /\ c < a * b
    BY <2>3 DEF c
  <2>5. c \div a \in Nat /\ c % a \in 0 .. a - 1 /\ c \div a < b
    BY <1>1, <2>4, QuotientBound, Division
  <2> QED BY <2>4, <2>5 DEF c
<1> QED BY <1>4, <1>5, <1>6 DEF n, a, b

\* append_control()
LEMMA ControlTaken ==
  ASSUME NEW u, Legal(u), NEW i \in Nat, i < Controls(u)
  PROVE  /\ ControlAt(u, i + 1) \in Hosts(u) /\ ControlAt(u, i + 1).type = "control"
         /\ ControlAt(u, i + 1).stack \in Nat /\ ControlAt(u, i + 1).stack < u.map.stacks
         /\ ControlAt(u, i + 1).id = i
         /\ ControlAt(u, i + 1).cycle = i * u.controlInterval
         /\ ControlAt(u, i + 1).cmd \in ControlNames
<1> DEFINE n == Len(ChannelCommands(u))
           c == i \div n
           k == c \div u.org.size["channel"]
           cmd == ChannelCommands(u)[(i % n) + 1]
           t == i * u.controlInterval
           h == [id |-> i, type |-> "control", cmd |-> cmd, address |-> 0,
                 cycle |-> t, stack |-> k, explicit |-> FALSE,
                 payload |-> <<>>, expected |-> <<>>, mask |-> <<>>]
<1>1. (i + 1) - 1 = i
  OBVIOUS
<1>2. ControlAt(u, i + 1) = h
  <2>1. ControlAt(u, i + 1) =
          [HostOf([nextId |-> i], "control", 0, t, k)
           EXCEPT !.cmd = cmd, !.explicit = FALSE]
    BY <1>1 DEF ControlAt
  <2> HIDE DEF n, c, k, cmd, t
  <2> QED BY <2>1 DEF HostOf
<1>3. k \in Nat /\ k < u.map.stacks
  BY ControlsNat
<1>4. cmd \in ControlNames
  <2>1. i % n \in 0 .. n - 1 /\ n \in Nat \ {0}
    BY CommandsOfChannel, Division
  <2>2. (i % n) + 1 \in 1 .. n
    <3> HIDE DEF n
    <3> QED BY <2>1
  <2> QED BY <2>2, CommandsOfChannel
<1>5. t \in Nat
  BY LegalParts, ProductNat
<1> HIDE DEF k, cmd, t, n, c
<1>6. h \in HostRecords
  <2>1. <<>> \in Seq(Byte) /\ <<>> \in Seq(BOOLEAN)
    OBVIOUS
  <2> QED BY <1>3, <1>4, <1>5, <2>1 DEF HostRecords, StackIds
<1>7. HostSound(h)
  BY <1>3, <1>4 DEF HostSound
<1>8. /\ h.type = "control" /\ h.stack = k /\ h.id = i /\ h.cycle = t /\ h.cmd = cmd
  OBVIOUS
<1> HIDE DEF h
<1> QED BY <1>2, <1>3, <1>4, <1>6, <1>7, <1>8 DEF Hosts, t

\* What the source and the control sequence in front of it hand out.
Advances(u, s, x) ==
  /\ x \in Taken(u)
  /\ x.next.pending = s.pending /\ x.next.transactions = s.transactions
  /\ \/ /\ s.control < Controls(u) /\ x.host.type = "control"
        /\ x.host = ControlAt(u, s.control + 1)
        /\ x.next = [s EXCEPT !.control = s.control + 1]
     \/ /\ s.control >= Controls(u)
        /\ \E y \in IF u.source = "trace" THEN TraceNext(u, s) ELSE SyntheticNext(u, s) :
             /\ Takes(u, s, y) /\ x.next = y.next
             /\ x.host = [y.host EXCEPT !.id = y.host.id + Controls(u),
                                        !.cycle = y.host.cycle + Shift(u)]

\* A step of ControlPrefixedTrafficStream moves each counter as it should.
LEMMA HostTaken ==
  ASSUME NEW u, Legal(u), NEW s \in Streams(u), NEW x \in HostNext(u, s)
  PROVE  Advances(u, s, x)
<1>0. Controls(u) \in Nat /\ Shift(u) \in Nat /\ s.control \in Nat
  BY ControlsNat DEF Streams
<1>1. CASE s.control < Controls(u)
  <2>1. x = [host |-> ControlAt(u, s.control + 1),
             next |-> [s EXCEPT !.control = s.control + 1]]
    BY <1>1 DEF HostNext
  <2>2. /\ ControlAt(u, s.control + 1) \in Hosts(u)
        /\ ControlAt(u, s.control + 1).type = "control"
    BY <1>0, <1>1, ControlTaken
  <2>3. /\ [s EXCEPT !.control = s.control + 1] \in Streams(u)
        /\ [s EXCEPT !.control = s.control + 1].pending = s.pending
        /\ [s EXCEPT !.control = s.control + 1].transactions = s.transactions
    <3>1. s.control + 1 \in Nat
      BY <1>0
    <3>2. \A n \in Nat : LET y == [s EXCEPT !.control = n]
            IN y \in Streams(u) /\ y.pending = s.pending /\ y.transactions = s.transactions
      BY DEF Streams
    <3> QED BY <3>1, <3>2
  <2> QED BY <1>1, <2>1, <2>2, <2>3 DEF Advances, Taken
<1>2. CASE ~(s.control < Controls(u))
  <2>1. PICK y \in IF u.source = "trace" THEN TraceNext(u, s) ELSE SyntheticNext(u, s) :
          x = [y EXCEPT !.host.id = @ + Controls(u), !.host.cycle = @ + Shift(u)]
    BY <1>2 DEF HostNext
  <2>2. Takes(u, s, y)
    BY <2>1, TraceTaken, SyntheticTaken
  <2>3. y \in Taken(u) /\ y.host \in Hosts(u) /\ y.next \in Streams(u)
    BY <2>2 DEF Takes, Taken
  <2> DEFINE h == [y.host EXCEPT !.id = y.host.id + Controls(u),
                                 !.cycle = y.host.cycle + Shift(u)]
  <2>4. x = [host |-> h, next |-> y.next]
    BY <2>1, <2>3 DEF Taken
  <2>5. h \in Hosts(u)
    <3>1. y.host \in HostRecords /\ HostSound(y.host)
      BY <2>2, <2>3 DEF Hosts, Takes, Moves
    <3>2. y.host.id + Controls(u) \in Nat /\ y.host.cycle + Shift(u) \in Nat
      BY <1>0, <3>1 DEF HostRecords
    <3>3. \A n \in Nat : \A m \in Nat :
            LET g == [y.host EXCEPT !.id = n, !.cycle = m]
            IN /\ g \in HostRecords /\ g.type = y.host.type /\ g.stack = y.host.stack
               /\ g.explicit = y.host.explicit /\ g.payload = y.host.payload
               /\ g.expected = y.host.expected /\ g.mask = y.host.mask
               /\ g.cmd = y.host.cmd
      BY <3>1 DEF HostRecords
    <3>4. /\ h \in HostRecords /\ h.type = y.host.type /\ h.stack = y.host.stack
          /\ h.explicit = y.host.explicit /\ h.payload = y.host.payload
          /\ h.expected = y.host.expected /\ h.mask = y.host.mask /\ h.cmd = y.host.cmd
      BY <3>2, <3>3
    <3> HIDE DEF h
    <3> QED BY <3>1, <3>4 DEF Hosts, HostSound
  <2> HIDE DEF h
  <2>6. x \in Taken(u) /\ x.host = h /\ x.next = y.next
    BY <2>3, <2>4, <2>5 DEF Taken
  <2>7. x.next.pending = s.pending /\ x.next.transactions = s.transactions
    BY <2>2, <2>6 DEF Takes, Moves
  <2>8. s.control >= Controls(u)
    BY <1>0, <1>2
  <2>9. x.host = [y.host EXCEPT !.id = y.host.id + Controls(u),
                                !.cycle = y.host.cycle + Shift(u)]
    BY <2>6 DEF h
  <2> QED BY <2>1, <2>2, <2>6, <2>7, <2>8, <2>9 DEF Advances
<1> QED BY <1>1, <1>2

-----------------------------------------------------------------------------

\* The bytes of a read or a write are those it carries or expects, and those of a
\* host line when there are none.
LEMMA HostLine ==
  ASSUME NEW u, Legal(u), NEW h \in Hosts(u), h.type # "control"
  PROVE  /\ HostBytes(u, h) \in Nat \ {0}
         /\ h.payload # <<>> => HostBytes(u, h) = Len(h.payload)
         /\ h.expected # <<>> => HostBytes(u, h) = Len(h.expected)
         /\ h.mask # <<>> => HostBytes(u, h) = Len(h.mask)
         /\ h.payload = <<>> /\ h.expected = <<>> => HostBytes(u, h) = u.org.line
<1> DEFINE a == Len(h.payload)
           b == Len(h.expected)
           c == Len(h.mask)
           S == {a, b, c}
           n == u.org.line
           m == Max(S)
<1>1. n \in Nat \ {0}
  BY LegalParts
<1>2. /\ h.payload \in Seq(Byte) /\ h.expected \in Seq(Byte) /\ h.mask \in Seq(BOOLEAN)
      /\ HostSound(h)
  BY DEF Hosts, HostRecords
<1>3. /\ a \in Nat /\ (a = 0 <=> h.payload = <<>>) /\ b \in Nat /\ (b = 0 <=> h.expected = <<>>)
      /\ c \in Nat /\ (c = 0 <=> h.mask = <<>>)
  <2>1. \A T : \A q \in Seq(T) : Len(q) \in Nat /\ (Len(q) = 0 <=> q = <<>>)
    BY EmptySeq, LenProperties
  <2> QED BY <1>2, <2>1
<1>4. (a = 0 \/ b = 0) /\ (c = 0 \/ c = a)
  BY <1>2, <1>3 DEF HostSound
<1>5. m \in S /\ \A x \in S : m >= x
  <2> HIDE DEF a, b, c
  <2>1. S \subseteq Nat /\ S # {} /\ \A x \in S : x <= a + b + c
    BY <1>3
  <2>2. a + b + c \in Nat
    BY <1>3
  <2> HIDE DEF S
  <2> QED BY <2>1, <2>2, MaxExists
<1>6. HostBytes(u, h) = IF m = 0 THEN n ELSE m
  BY DEF HostBytes
<1>7. m \in Nat /\ (m = a \/ m = b \/ m = c) /\ m >= a /\ m >= b /\ m >= c
  BY <1>3, <1>5
<1> HIDE DEF a, b, c, m, n, S
<1>8. m = (IF a = 0 THEN b ELSE a)
  BY <1>3, <1>4, <1>7
<1>9. /\ (a # 0 => m = a /\ m # 0) /\ (b # 0 => m = b /\ m # 0)
      /\ (c # 0 => m = c /\ m # 0) /\ (a = 0 /\ b = 0 => m = 0)
  BY <1>3, <1>4, <1>8
<1>10. /\ h.payload # <<>> => HostBytes(u, h) = a
       /\ h.expected # <<>> => HostBytes(u, h) = b
       /\ h.mask # <<>> => HostBytes(u, h) = c
       /\ h.payload = <<>> /\ h.expected = <<>> => HostBytes(u, h) = n
       /\ HostBytes(u, h) \in Nat \ {0}
  BY <1>1, <1>3, <1>6, <1>7, <1>9
<1> QED BY <1>10 DEF a, b, c, n

\* Some bytes split into transactions that start among them.
LEMMA PartCountNat ==
  ASSUME NEW u, Legal(u), NEW n \in Nat \ {0}
  PROVE  /\ PartCount(u, n) \in Nat \ {0}
         /\ \A i \in 0 .. PartCount(u, n) - 1 :
              i * u.org.transaction \in Nat /\ i * u.org.transaction < n
<1> DEFINE t == u.org.transaction
           q == (n - 1) \div t
<1>1. t \in Nat \ {0}
  BY LegalParts
<1> HIDE DEF t
<1>2. q \in Nat /\ n - 1 = q * t + ((n - 1) % t) /\ (n - 1) % t \in 0 .. t - 1
  <2>1. n - 1 \in Nat
    OBVIOUS
  <2> QED BY <1>1, <2>1, Division
<1>3. PartCount(u, n) = 1 + q
  BY DEF PartCount, t
<1> HIDE DEF q
<1>4. ASSUME NEW i \in 0 .. (1 + q) - 1
      PROVE  i * t \in Nat /\ i * t < n
  <2>1. i \in Nat /\ q - i \in Nat
    BY <1>2
  <2>2. i * t \in Nat /\ (q - i) * t \in Nat
    BY <1>1, <2>1, ProductNat
  <2>3. q * t = i * t + (q - i) * t
    BY <1>1, <1>2, <2>1
  <2> DEFINE a == i * t
             b == (q - i) * t
             c == q * t
             d == (n - 1) % t
  <2>4. c = a + b /\ a \in Nat /\ b \in Nat /\ n - 1 = c + d /\ d \in 0 .. t - 1
    BY <1>2, <2>2, <2>3
  <2> HIDE DEF a, b, c, d
  <2>5. a \in Nat /\ a < n
    BY <1>1, <2>4
  <2> QED BY <2>5 DEF a
<1> QED BY <1>2, <1>3, <1>4 DEF t

\* The smaller of two numbers.
LEMMA MinPair ==
  ASSUME NEW a \in Nat, NEW b \in Nat
  PROVE  Min({a, b}) = IF a <= b THEN a ELSE b
<1> DEFINE m == IF a <= b THEN a ELSE b
<1>1. m \in {a, b} /\ \A x \in {a, b} : m <= x
  OBVIOUS
<1>2. \A y \in {a, b} : (\A x \in {a, b} : y <= x) => y = m
  OBVIOUS
<1> QED BY <1>1, <1>2 DEF Min

\* No slice of an empty sequence holds anything.
LEMMA SliceOfNone ==
  ASSUME NEW offset \in Nat, NEW n \in Nat
  PROVE  Slice(<<>>, offset, n) = <<>>
<1>1. Len(<<>>) = 0
  OBVIOUS
<1>2. Min({0, offset + n}) = 0
  BY MinPair
<1>3. Slice(<<>>, offset, n) = SubSeq(<<>>, offset + 1, 0)
  BY <1>1, <1>2 DEF Slice
<1>4. SubSeq(<<>>, offset + 1, 0) = <<>>
  OBVIOUS
<1> QED BY <1>3, <1>4

\* slice_bytes(): nothing of nothing, and n bytes of enough.
LEMMA SliceOf ==
  ASSUME NEW S, NEW seq \in Seq(S), NEW offset \in Nat, NEW n \in Nat \ {0},
         seq = <<>> \/ offset + n <= Len(seq)
  PROVE  /\ Slice(seq, offset, n) \in Seq(S)
         /\ seq = <<>> => Slice(seq, offset, n) = <<>>
         /\ seq # <<>> => /\ Len(Slice(seq, offset, n)) = n
                          /\ \A i \in 1 .. n : Slice(seq, offset, n)[i] = seq[offset + i]
<1>1. CASE seq = <<>>
  <2>1. Min({Len(seq), offset + n}) = 0
    BY <1>1, MinPair
  <2>2. Slice(seq, offset, n) = SubSeq(seq, offset + 1, 0)
    BY <2>1 DEF Slice
  <2>3. SubSeq(seq, offset + 1, 0) = <<>>
    OBVIOUS
  <2>4. <<>> \in Seq(S)
    OBVIOUS
  <2> QED BY <1>1, <2>2, <2>3, <2>4
<1>2. CASE seq # <<>>
  <2> DEFINE m == Len(seq)
  <2>1. m \in Nat /\ offset + n <= m
    BY <1>2, LenProperties
  <2>2. Min({m, offset + n}) = offset + n
    <3> HIDE DEF m
    <3> QED BY <2>1, MinPair
  <2>3. Slice(seq, offset, n) = SubSeq(seq, offset + 1, offset + n)
    BY <2>2 DEF Slice
  <2> DEFINE t == SubSeq(seq, offset + 1, offset + n)
  <2>4. t \in Seq(S) /\ Len(t) = n /\ \A i \in 1 .. n : t[i] = seq[offset + i]
    BY <2>1
  <2> HIDE DEF t
  <2> QED BY <1>2, <2>3, <2>4 DEF t
<1> QED BY <1>1, <1>2

\* The bytes of one transaction.
PartSize(u, n, i) ==
  LET left == n - i * u.org.transaction
  IN IF u.org.transaction <= left THEN u.org.transaction ELSE left

\* split_host_request() makes a transaction of its slice of the bytes.
LEMMA PartTyped ==
  ASSUME NEW u, Legal(u), NEW h \in Hosts(u), h.type # "control",
         NEW i \in 0 .. PartCount(u, HostBytes(u, h)) - 1
  PROVE  LET p == PartOf(u, h, i)
             offset == i * u.org.transaction
         IN /\ p \in Parts(u) /\ p.type = h.type
            /\ p.size = PartSize(u, HostBytes(u, h), i)
            /\ offset \in Nat /\ offset + p.size <= HostBytes(u, h)
            /\ p.address = h.address + offset
            /\ p.at = Decode(u.org, p.address)
            /\ p.stack = h.stack /\ p.explicit = h.explicit
            /\ p.host = h.id /\ p.cycle = h.cycle
            /\ p.mask = Slice(h.mask, offset, p.size)
            /\ p.payload = Slice(h.payload, offset, p.size)
<1> DEFINE n == HostBytes(u, h)
           t == u.org.transaction
           c == PartCount(u, n)
           o == i * t
           m == PartSize(u, n, i)
           a == h.address + o
           p == PartOf(u, h, i)
<1>1. n \in Nat \ {0} /\ t \in Nat \ {0} /\ i \in Nat /\ o \in Nat /\ o < n /\ c \in Nat
  <2>1. n \in Nat \ {0}
    BY HostLine
  <2> HIDE DEF n
  <2> QED BY <2>1, LegalParts, PartCountNat DEF n
<1>2. m = (IF t <= n - o THEN t ELSE n - o) /\ Min({t, n - o}) = m
  <2>1. t \in Nat /\ n - o \in Nat
    BY <1>1
  <2> HIDE DEF o, n, t
  <2> QED BY <2>1, MinPair DEF PartSize, o, t
<1>3. /\ h.payload # <<>> => Len(h.payload) = n
      /\ h.expected # <<>> => Len(h.expected) = n
      /\ h.mask # <<>> => Len(h.mask) = n
  BY HostLine
<1> HIDE DEF n, t, c, o, m
<1>4. m \in 1 .. t /\ m \in Nat \ {0} /\ o + m <= n
  BY <1>1, <1>2
<1>5. /\ h \in HostRecords /\ HostSound(h) /\ h.type \in {"read", "write"}
      /\ h.address \in Nat /\ a \in Nat
  <2>1. h \in HostRecords /\ HostSound(h)
    BY DEF Hosts
  <2> QED BY <1>1, <2>1 DEF HostRecords
<1>6. Decode(u.org, a) \in Places(u.org)
  BY <1>5, LegalParts, DecodePlaces
<1> HIDE DEF a
<1> DEFINE x == Slice(h.payload, o, m)
           y == Slice(h.expected, o, m)
           z == Slice(h.mask, o, m)
           at == Decode(u.org, a)
           r == [id |-> 0, system |-> 0, owed |-> <<>>,
                 host |-> h.id, index |-> i, count |-> c, size |-> m,
                 type |-> h.type, cmd |-> "none", cycle |-> h.cycle,
                 stack |-> h.stack, explicit |-> h.explicit,
                 address |-> a, at |-> at, payload |-> x, expected |-> y, mask |-> z]
<1>7. p = r
  BY <1>2 DEF PartOf, n, t, c, o, a
<1>8. /\ x \in Seq(Byte) /\ (h.type = "write" => Len(x) = m)
      /\ (h.type # "write" => x = <<>>)
  <2>1. h.payload \in Seq(Byte)
    BY <1>5 DEF HostRecords
  <2>2. CASE h.type = "write"
    <3>1. h.payload # <<>> /\ o + m <= Len(h.payload)
      BY <1>1, <1>3, <1>4, <1>5, <2>2 DEF HostSound
    <3>2. x \in Seq(Byte) /\ Len(x) = m
      BY <1>1, <1>4, <2>1, <3>1, SliceOf
    <3> QED BY <2>2, <3>2
  <2>3. CASE h.type # "write"
    <3>1. h.payload = <<>>
      BY <1>5, <2>3 DEF HostSound
    <3>2. o \in Nat /\ m \in Nat
      BY <1>1, <1>4
    <3>3. x = <<>> /\ <<>> \in Seq(Byte)
      BY <3>1, <3>2, SliceOfNone, EmptySeq DEF x
    <3> QED BY <2>3, <3>3
  <2> QED BY <2>2, <2>3
<1>9. y \in Seq(Byte)
  <2>1. h.expected \in Seq(Byte) /\ (h.expected = <<>> \/ o + m <= Len(h.expected))
    BY <1>3, <1>4, <1>5 DEF HostRecords
  <2> QED BY <1>1, <1>4, <2>1, SliceOf
<1>10. z \in Seq(BOOLEAN) /\ (z # <<>> => h.type = "write" /\ Len(z) = m)
  <2>1. h.mask \in Seq(BOOLEAN)
        /\ (h.mask = <<>> \/ (h.type = "write" /\ o + m <= Len(h.mask)))
    BY <1>3, <1>4, <1>5 DEF HostRecords, HostSound
  <2> QED BY <1>1, <1>4, <2>1, SliceOf
<1>11. /\ h.id \in Nat /\ h.cycle \in Nat /\ h.stack \in StackIds /\ h.explicit \in BOOLEAN
       /\ (h.explicit => h.stack \in Nat)
  BY <1>5 DEF HostRecords, HostSound
<1> HIDE DEF x, y, z, at
<1>12. r \in PartRecords(u)
  <2>1. <<>> \in Seq(Byte) /\ at \in Places(u.org)
    BY <1>6 DEF at
  <2> HIDE DEF p
  <2> QED BY <1>1, <1>4, <1>5, <1>8, <1>9, <1>10, <1>11, <2>1 DEF PartRecords, a
<1>13. PartSound(u, r)
  <2>1. <<>> \in Bytes(0) /\ (h.type = "write" => x \in Bytes(m))
    BY <1>8 DEF Bytes
  <2> QED BY <1>4, <1>5, <1>8, <1>10, <1>11, <2>1 DEF PartSound, t
<1>14. p \in Parts(u)
  BY <1>7, <1>12, <1>13 DEF Parts
<1>15. /\ p.type = h.type /\ p.size = m /\ p.address = a /\ p.at = at /\ p.stack = h.stack
       /\ p.explicit = h.explicit /\ p.host = h.id /\ p.cycle = h.cycle
       /\ p.mask = z /\ p.payload = x
  <2> HIDE DEF p
  <2> QED BY <1>7
<1> HIDE DEF p
<1> QED BY <1>1, <1>4, <1>14, <1>15 DEF a, at, z, x, m, o, t, n, p

\* A control command is one transaction, for a channel that exists.
LEMMA ControlPartTyped ==
  ASSUME NEW u, Legal(u), NEW h \in Hosts(u), h.type = "control"
  PROVE  /\ ControlPart(u, h) \in Incoming(u) /\ ControlPart(u, h).type = "control"
         /\ ControlPart(u, h).cycle = h.cycle /\ ControlPart(u, h).stack = h.stack
<1> DEFINE k == ControlChannel(u, h.id + 1)
           first == [Origin EXCEPT !["channel"] = k]
           at == IF h.id < Controls(u) THEN first ELSE Decode(u.org, h.address)
           p == ControlPart(u, h)
<1>1. h \in HostRecords /\ HostSound(h)
  BY DEF Hosts
<1>2. k \in Nat /\ k < u.org.size["channel"]
  <2> DEFINE n == Len(ChannelCommands(u))
             a == u.org.size["channel"]
  <2>1. h.id \in Nat /\ (h.id + 1) - 1 = h.id
    BY <1>1 DEF HostRecords
  <2>2. n \in Nat \ {0} /\ a \in Nat \ {0}
    BY CommandsOfChannel, LegalParts DEF Fields
  <2>3. k = (h.id \div n) % a
    BY <2>1 DEF ControlChannel
  <2> HIDE DEF n, a, k
  <2>4. h.id \div n \in Nat
    BY <2>1, <2>2, Division
  <2>5. (h.id \div n) % a \in 0 .. a - 1
    BY <2>2, <2>4, Division
  <2>6. k \in Nat /\ k < a
    BY <2>2, <2>3, <2>5
  <2> QED BY <2>6 DEF a
<1> HIDE DEF k
<1>3. first \in Places(u.org)
  <2>1. \A f \in Fields : u.org.size[f] \in Nat \ {0}
    BY LegalParts
  <2>2. Origin \in [Fields -> Nat] /\ \A f \in Fields : Origin[f] = 0
    BY DEF Origin
  <2>3. /\ first \in [Fields -> Nat]
        /\ \A f \in Fields : first[f] = IF f = "channel" THEN k ELSE 0
    BY <1>2, <2>2
  <2> HIDE DEF first
  <2> QED BY <1>2, <2>1, <2>3 DEF Places
<1> HIDE DEF first
<1>3a. at \in Places(u.org)
  <2>1. Decode(u.org, h.address) \in Places(u.org)
    BY <1>1, LegalParts, DecodePlaces DEF HostRecords
  <2> QED BY <1>3, <2>1
<1> HIDE DEF at
<1> DEFINE r == [id |-> 0, system |-> 0, owed |-> <<>>,
                 host |-> h.id, index |-> 0, count |-> 1, size |-> 0,
                 type |-> "control", cmd |-> h.cmd, cycle |-> h.cycle,
                 stack |-> h.stack, explicit |-> h.explicit, address |-> h.address,
                 at |-> at, payload |-> <<>>, expected |-> <<>>, mask |-> <<>>]
<1>4. p = r
  BY DEF ControlPart, at, first, k
<1>5. <<>> \in Seq(Byte) /\ <<>> \in Seq(BOOLEAN) /\ <<>> \in Bytes(0)
  BY DEF Bytes
<1>6. r \in PartRecords(u)
  BY <1>1, <1>3a, <1>5 DEF HostRecords, PartRecords
<1>7. PartSound(u, r)
  BY <1>1, <1>5 DEF HostSound, PartSound
<1>8. Fresh(r)
  BY DEF Fresh
<1> QED BY <1>4, <1>6, <1>7, <1>8 DEF Parts, Incoming

\* split_host_request()
SplitSize(u, h) == IF h.type = "control" THEN 1 ELSE PartCount(u, HostBytes(u, h))

\* split_host_request() makes at least one transaction, each of them typed.
LEMMA SplitTyped ==
  ASSUME NEW u, Legal(u), NEW h \in Hosts(u)
  PROVE  /\ SplitHost(u, h) \in Seq(Incoming(u)) /\ Len(SplitHost(u, h)) = SplitSize(u, h)
         /\ SplitSize(u, h) \in Nat \ {0}
         /\ h.type = "control" => SplitHost(u, h)[1] = ControlPart(u, h)
         /\ h.type # "control" =>
              \A i \in 1 .. SplitSize(u, h) : SplitHost(u, h)[i] = PartOf(u, h, i - 1)
<1>1. CASE h.type = "control"
  <2>1. ControlPart(u, h) \in Incoming(u)
    BY <1>1, ControlPartTyped
  <2>2. SplitHost(u, h) = <<ControlPart(u, h)>>
    BY <1>1 DEF SplitHost
  <2> DEFINE p == ControlPart(u, h)
  <2> HIDE DEF p
  <2>3. p \in Incoming(u) /\ SplitHost(u, h) = <<p>>
    BY <2>1, <2>2 DEF p
  <2>4. <<p>> \in Seq(Incoming(u)) /\ Len(<<p>>) = 1 /\ <<p>>[1] = p
    BY <2>3
  <2> QED BY <1>1, <2>3, <2>4 DEF SplitSize, p
<1>2. CASE h.type # "control"
  <2> DEFINE c == PartCount(u, HostBytes(u, h))
             q == [i \in 1 .. c |-> PartOf(u, h, i - 1)]
  <2>1. SplitHost(u, h) = q
    BY <1>2 DEF SplitHost
  <2>2. c \in Nat \ {0}
    BY <1>2, HostLine, PartCountNat
  <2>3. \A i \in 0 .. c - 1 : PartOf(u, h, i) \in Incoming(u)
    <3> SUFFICES ASSUME NEW i \in 0 .. c - 1
                 PROVE  PartOf(u, h, i) \in Incoming(u)
      OBVIOUS
    <3> DEFINE p == PartOf(u, h, i)
    <3>1. p \in Parts(u) /\ p.type = h.type /\ p.stack = h.stack /\ p.explicit = h.explicit
      BY <1>2, PartTyped
    <3> HIDE DEF p, c
    <3>2. Fresh(p)
      BY <1>2, <3>1 DEF Fresh, Hosts, HostSound
    <3> QED BY <3>1, <3>2 DEF Incoming, p
  <2>4. \A i \in 1 .. c : PartOf(u, h, i - 1) \in Incoming(u)
    <3>1. \A i \in 1 .. c : i - 1 \in 0 .. c - 1
      <4> HIDE DEF c
      <4> QED BY <2>2
    <3> HIDE DEF c
    <3> QED BY <2>3, <3>1
  <2> HIDE DEF c
  <2>5. q \in Seq(Incoming(u)) /\ Len(q) = c
    BY <2>2, <2>4
  <2>6. \A i \in 1 .. c : q[i] = PartOf(u, h, i - 1)
    OBVIOUS
  <2> HIDE DEF q
  <2> QED BY <1>2, <2>1, <2>2, <2>5, <2>6 DEF SplitSize, c
<1> QED BY <1>1, <1>2

\* A transaction of a stream, the request it came from if that was just taken,
\* and the transactions left.
FromPending(u, s, x) ==
  /\ s.pending # <<>> /\ x.hosts = {}
  /\ x.part = [Head(s.pending) EXCEPT !.id = s.transactions]
  /\ x.next = [s EXCEPT !.pending = Tail(s.pending),
                        !.transactions = s.transactions + 1]

FromSource(u, s, x) ==
  /\ s.pending = <<>>
  /\ \E y \in HostNext(u, s) :
       /\ Advances(u, s, y) /\ x.hosts = {y.host}
       /\ x.part = [Head(SplitHost(u, y.host)) EXCEPT !.id = s.transactions]
       /\ x.next = [y.next EXCEPT !.pending = Tail(SplitHost(u, y.host)),
                                  !.transactions = s.transactions + 1]

\* TransactionSplitTrafficStream::next() keeps the stream typed.
LEMMA StreamTyped ==
  ASSUME NEW u, Legal(u), NEW s \in Streams(u), NEW x \in StreamNext(u, s)
  PROVE  /\ x.part \in Incoming(u) /\ x.next \in Streams(u)
         /\ FromPending(u, s, x) \/ FromSource(u, s, x)
<1> DEFINE Parted(hosts, z) ==
             [part |-> [Head(z.pending) EXCEPT !.id = s.transactions],
              hosts |-> hosts,
              next |-> [z EXCEPT !.pending = Tail(z.pending),
                                 !.transactions = z.transactions + 1]]
<1>1. s.transactions \in Nat /\ s.pending \in Seq(Incoming(u))
  BY DEF Streams
<1>2. ASSUME NEW z \in Streams(u), z.pending # <<>>
      PROVE  /\ [Head(z.pending) EXCEPT !.id = s.transactions] \in Incoming(u)
             /\ [z EXCEPT !.pending = Tail(z.pending),
                          !.transactions = z.transactions + 1] \in Streams(u)
  <2>1. z.pending \in Seq(Incoming(u)) /\ z.transactions + 1 \in Nat
    BY DEF Streams
  <2>2. Head(z.pending) \in Incoming(u) /\ Tail(z.pending) \in Seq(Incoming(u))
    BY <1>2, <2>1
  <2>3. \A p \in Incoming(u) : [p EXCEPT !.id = s.transactions] \in Incoming(u)
    BY <1>1, ZenonT(60) DEF Incoming, Fresh, Parts, PartRecords, PartSound
  <2>4. \A q \in Seq(Incoming(u)) : \A n \in Nat :
          [z EXCEPT !.pending = q, !.transactions = n] \in Streams(u)
    BY DEF Streams
  <2> QED BY <2>1, <2>2, <2>3, <2>4
<1> DEFINE W == IF s.pending # <<>> THEN {[hosts |-> {}, next |-> s]}
                ELSE {[hosts |-> {y.host},
                       next |-> [y.next EXCEPT !.pending = SplitHost(u, y.host)]] :
                      y \in HostNext(u, s)}
<1>0. PICK w \in W :
        x = [part |-> [Head(w.next.pending) EXCEPT !.id = s.transactions],
             hosts |-> w.hosts,
             next |-> [w.next EXCEPT !.pending = Tail(@), !.transactions = @ + 1]]
  BY DEF StreamNext
<1>00. x = Parted(w.hosts, w.next)
  BY <1>0
<1>3. CASE s.pending # <<>>
  <2>1. x = Parted({}, s)
    <3>1. w = [hosts |-> {}, next |-> s]
      BY <1>3
    <3>2. w.hosts = {} /\ w.next = s
      BY <3>1
    <3> HIDE DEF Parted, W
    <3> QED BY <1>00, <3>2
  <2>2. FromPending(u, s, x)
    BY <1>3, <2>1 DEF FromPending
  <2> QED BY <1>2, <1>3, <2>1, <2>2
<1>4. CASE s.pending = <<>>
  <2>1. PICK y \in HostNext(u, s) :
          x = Parted({y.host}, [y.next EXCEPT !.pending = SplitHost(u, y.host)])
    <3> DEFINE P(y) == [y.next EXCEPT !.pending = SplitHost(u, y.host)]
    <3>1. PICK y \in HostNext(u, s) : w = [hosts |-> {y.host}, next |-> P(y)]
      BY <1>4
    <3>2. w.hosts = {y.host} /\ w.next = P(y)
      BY <3>1
    <3> HIDE DEF Parted, W
    <3> QED BY <1>00, <3>2
  <2>2. Advances(u, s, y)
    BY HostTaken
  <2>3. y.host \in Hosts(u) /\ y.next \in Streams(u) /\ y.next.transactions = s.transactions
    BY <2>2 DEF Advances, Taken
  <2> DEFINE q == SplitHost(u, y.host)
             z == [y.next EXCEPT !.pending = q]
  <2>4. q \in Seq(Incoming(u)) /\ q # <<>>
    BY <2>3, SplitTyped, EmptySeq
  <2> HIDE DEF q
  <2>5. /\ z \in Streams(u) /\ z.pending = q /\ z.transactions = s.transactions
        /\ \A t : \A n : [z EXCEPT !.pending = t, !.transactions = n] =
                         [y.next EXCEPT !.pending = t, !.transactions = n]
    BY <2>3, <2>4 DEF Streams
  <2> HIDE DEF z
  <2>6. x = Parted({y.host}, z)
    BY <2>1 DEF z, q
  <2>7. x.part \in Incoming(u) /\ x.next \in Streams(u)
    BY <1>2, <2>4, <2>5, <2>6
  <2>8. /\ x.hosts = {y.host} /\ x.part = [Head(q) EXCEPT !.id = s.transactions]
        /\ x.next = [y.next EXCEPT !.pending = Tail(q), !.transactions = s.transactions + 1]
    BY <2>5, <2>6
  <2>9. FromSource(u, s, x)
    BY <1>4, <2>2, <2>8 DEF FromSource, q
  <2> QED BY <2>7, <2>9
<1> QED BY <1>3, <1>4

\* A set that has 0 and is closed under the successor has every number.
LEMMA Counting ==
  ASSUME NEW S, 0 \in S, \A n \in Nat : n \in S => n + 1 \in S
  PROVE  \A n \in Nat : n \in S
<1> DEFINE Missed == Nat \ S
<1> SUFFICES ASSUME Missed # {}
             PROVE  FALSE
  OBVIOUS
<1>1. Missed \subseteq Nat
  OBVIOUS
<1>2. PICK n \in Missed : \A m \in Missed : ~(<<m, n>> \in OpToRel(<, Nat))
  <2> HIDE DEF Missed
  <2> QED BY <1>1, WFMin, NatLessThanWellFounded
<1>3. n \in Nat /\ n \notin S /\ n # 0
  BY <1>2
<1>4. n - 1 \in Nat /\ n - 1 < n /\ (n - 1) + 1 = n
  BY <1>3
<1>5. <<n - 1, n>> \in OpToRel(<, Nat)
  BY <1>3, <1>4 DEF OpToRel
<1>6. n - 1 \in S
  BY <1>2, <1>4, <1>5
<1> QED BY <1>3, <1>4, <1>6

XorStep(g, p) ==
  IF p[1] = 0 \/ p[2] = 0 THEN p[1] + p[2]
  ELSE 2 * g[<<p[1] \div 2, p[2] \div 2>>] + ((p[1] + p[2]) % 2)

\* g computes the exclusive or of numbers up to n with any number.
Xors(g, n) ==
  /\ g \in [(0 .. n) \X Nat -> Nat]
  /\ \A p \in (0 .. n) \X Nat : g[p] = XorStep(g, p)

\* Halving a number makes it smaller.
LEMMA HalfLess ==
  ASSUME NEW a \in Nat
  PROVE  a \div 2 \in Nat /\ (a # 0 => a \div 2 < a /\ a \div 2 <= a - 1)
OBVIOUS

\* Exclusive or up to n and up to m agree where both are defined.
LEMMA XorsAgree ==
  ASSUME NEW n \in Nat, NEW m \in Nat, NEW g, Xors(g, n), NEW h, Xors(h, m)
  PROVE  \A p \in (0 .. n) \X Nat : p \in (0 .. m) \X Nat => g[p] = h[p]
<1> DEFINE Same(k) == \A a \in 0 .. k : \A b \in Nat :
                        a \in 0 .. n /\ a \in 0 .. m => g[<<a, b>>] = h[<<a, b>>]
           S == {k \in Nat : Same(k)}
<1>1. ASSUME NEW a \in 0 .. n, a \in 0 .. m, NEW b \in Nat,
             a # 0 => g[<<a \div 2, b \div 2>>] = h[<<a \div 2, b \div 2>>]
      PROVE  g[<<a, b>>] = h[<<a, b>>]
  <2>1. <<a, b>> \in (0 .. n) \X Nat /\ <<a, b>> \in (0 .. m) \X Nat
    BY <1>1
  <2>2. g[<<a, b>>] = XorStep(g, <<a, b>>) /\ h[<<a, b>>] = XorStep(h, <<a, b>>)
    BY <2>1 DEF Xors
  <2> QED BY <1>1, <2>2 DEF XorStep
<1>2. 0 \in S
  <2>1. \A a \in 0 .. 0 : a = 0
    OBVIOUS
  <2> QED BY <1>1, <2>1
<1>3. ASSUME NEW k \in Nat, k \in S
      PROVE  k + 1 \in S
  <2> SUFFICES ASSUME NEW a \in 0 .. k + 1, NEW b \in Nat, a \in 0 .. n, a \in 0 .. m
               PROVE  g[<<a, b>>] = h[<<a, b>>]
    BY <1>3
  <2>1. a # 0 => a \div 2 \in 0 .. k /\ a \div 2 \in 0 .. n /\ a \div 2 \in 0 .. m
    BY HalfLess
  <2>2. b \div 2 \in Nat
    BY HalfLess
  <2>3. a # 0 => g[<<a \div 2, b \div 2>>] = h[<<a \div 2, b \div 2>>]
    BY <1>3, <2>1, <2>2
  <2> QED BY <1>1, <2>3
<1>4. \A k \in Nat : k \in S
  <2> HIDE DEF S
  <2> QED BY <1>2, <1>3, Counting
<1>5. Same(n)
  BY <1>4
<1> SUFFICES ASSUME NEW p \in (0 .. n) \X Nat, p \in (0 .. m) \X Nat
             PROVE  g[p] = h[p]
  OBVIOUS
<1>6. PICK a \in 0 .. n, b \in Nat : p = <<a, b>>
  OBVIOUS
<1> QED BY <1>5, <1>6

\* By induction on n: there is an exclusive or for numbers up to n.
LEMMA XorsExist == \A n \in Nat : \E g : Xors(g, n)
<1> DEFINE S == {n \in Nat : \E g : Xors(g, n)}
<1>1. 0 \in S
  <2> DEFINE g == [p \in (0 .. 0) \X Nat |-> p[1] + p[2]]
  <2>1. \A p \in (0 .. 0) \X Nat : p[1] = 0 /\ p[2] \in Nat
    OBVIOUS
  <2>2. Xors(g, 0)
    BY <2>1 DEF Xors, XorStep
  <2> QED BY <2>2
<1>2. ASSUME NEW n \in Nat, n \in S
      PROVE  n + 1 \in S
  <2>1. PICK g : Xors(g, n)
    BY <1>2
  <2> DEFINE h == [p \in (0 .. n + 1) \X Nat |-> XorStep(g, p)]
  <2>2. ASSUME NEW a \in 0 .. n + 1, NEW b \in Nat
        PROVE  /\ a # 0 => g[<<a \div 2, b \div 2>>] \in Nat
               /\ a # 0 => g[<<a \div 2, b \div 2>>] = h[<<a \div 2, b \div 2>>]
    <3>1. b \div 2 \in Nat /\ (a # 0 => a \div 2 \in 0 .. n)
      BY HalfLess
    <3>2. \A c \in 0 .. n : \A d \in Nat :
            g[<<c, d>>] \in Nat /\ g[<<c, d>>] = XorStep(g, <<c, d>>)
      BY <2>1 DEF Xors
    <3>3. \A c \in 0 .. n : \A d \in Nat : h[<<c, d>>] = XorStep(g, <<c, d>>)
      OBVIOUS
    <3> HIDE DEF h
    <3> QED BY <3>1, <3>2, <3>3
  <2>3. ASSUME NEW a \in 0 .. n + 1, NEW b \in Nat
        PROVE  /\ XorStep(g, <<a, b>>) \in Nat
               /\ XorStep(g, <<a, b>>) = XorStep(h, <<a, b>>)
    <3> DEFINE z == g[<<a \div 2, b \div 2>>]
    <3>1. a \in Nat /\ (a # 0 => z \in Nat /\ z = h[<<a \div 2, b \div 2>>])
      <4>1. a \in Nat
        OBVIOUS
      <4> HIDE DEF h
      <4> QED BY <2>2, <4>1
    <3>2. (a + b) % 2 \in Nat
      OBVIOUS
    <3>3. XorStep(g, <<a, b>>) = IF a = 0 \/ b = 0 THEN a + b ELSE 2 * z + ((a + b) % 2)
      BY DEF XorStep
    <3>4. XorStep(h, <<a, b>>) = IF a = 0 \/ b = 0 THEN a + b
            ELSE 2 * h[<<a \div 2, b \div 2>>] + ((a + b) % 2)
      BY DEF XorStep
    <3> HIDE DEF z, h
    <3> QED BY <3>1, <3>2, <3>3, <3>4
  <2>4. h \in [(0 .. n + 1) \X Nat -> Nat]
    <3>1. ASSUME NEW p \in (0 .. n + 1) \X Nat
          PROVE  XorStep(g, p) \in Nat
      <4>1. PICK a \in 0 .. n + 1, b \in Nat : p = <<a, b>>
        OBVIOUS
      <4>2. XorStep(g, <<a, b>>) \in Nat
        BY <2>3
      <4> QED BY <4>1, <4>2
    <3> QED BY <3>1
  <2>5. \A p \in (0 .. n + 1) \X Nat : h[p] = XorStep(h, p)
    <3>1. \A p \in (0 .. n + 1) \X Nat : h[p] = XorStep(g, p)
      OBVIOUS
    <3> HIDE DEF h
    <3>2. ASSUME NEW p \in (0 .. n + 1) \X Nat
          PROVE  XorStep(g, p) = XorStep(h, p)
      <4>1. PICK a \in 0 .. n + 1, b \in Nat : p = <<a, b>>
        OBVIOUS
      <4>2. XorStep(g, <<a, b>>) = XorStep(h, <<a, b>>)
        BY <2>3
      <4> QED BY <4>1, <4>2
    <3> QED BY <3>1, <3>2
  <2> HIDE DEF h
  <2>6. Xors(h, n + 1)
    BY <2>4, <2>5 DEF Xors
  <2> QED BY <2>6
<1> HIDE DEF S
<1>3. \A n \in Nat : n \in S
  BY <1>1, <1>2, Counting
<1> QED BY <1>3 DEF S

\* The channel hash is a number.
LEMMA XorNat == \A a \in Nat : \A b \in Nat : Xor[<<a, b>>] \in Nat
<1> DEFINE F == [n \in Nat |-> CHOOSE g : Xors(g, n)]
           x == [p \in Nat \X Nat |-> F[p[1]][p]]
<1>1. \A n \in Nat : Xors(F[n], n)
  BY XorsExist
<1> HIDE DEF F
<1>2. ASSUME NEW a \in Nat, NEW b \in Nat
      PROVE  x[<<a, b>>] \in Nat /\ x[<<a, b>>] = XorStep(x, <<a, b>>)
  <2>1. <<a, b>> \in (0 .. a) \X Nat
    OBVIOUS
  <2>2. x[<<a, b>>] = F[a][<<a, b>>]
    OBVIOUS
  <2>3. F[a][<<a, b>>] \in Nat /\ F[a][<<a, b>>] = XorStep(F[a], <<a, b>>)
    BY <1>1, <2>1 DEF Xors
  <2>4. a # 0 => F[a][<<a \div 2, b \div 2>>] = x[<<a \div 2, b \div 2>>]
    <3>1. a \div 2 \in Nat /\ b \div 2 \in Nat /\ a \div 2 <= a
      BY HalfLess
    <3>2. <<a \div 2, b \div 2>> \in (0 .. a) \X Nat
          /\ <<a \div 2, b \div 2>> \in (0 .. a \div 2) \X Nat
      BY <3>1
    <3>3. F[a][<<a \div 2, b \div 2>>] = F[a \div 2][<<a \div 2, b \div 2>>]
      BY <1>1, <3>1, <3>2, XorsAgree
    <3>4. x[<<a \div 2, b \div 2>>] = F[a \div 2][<<a \div 2, b \div 2>>]
      BY <3>1
    <3> QED BY <3>3, <3>4
  <2> HIDE DEF x
  <2> QED BY <2>2, <2>3, <2>4 DEF XorStep
<1>3. x = [p \in Nat \X Nat |-> XorStep(x, p)]
  <2>1. \A p \in Nat \X Nat : x[p] = XorStep(x, p)
    BY <1>2
  <2>2. x = [p \in Nat \X Nat |-> x[p]]
    OBVIOUS
  <2> HIDE DEF x
  <2> QED BY <2>1, <2>2
<1> HIDE DEF x
<1> DEFINE Is(z) == z = [p \in Nat \X Nat |->
                      IF p[1] = 0 \/ p[2] = 0 THEN p[1] + p[2]
                      ELSE 2 * z[<<p[1] \div 2, p[2] \div 2>>] + ((p[1] + p[2]) % 2)]
<1>4. Is(x)
  BY <1>3 DEF XorStep
<1>5. Xor = CHOOSE z : Is(z)
  BY DEF Xor
<1>6. Is(Xor)
  <2> HIDE DEF Is
  <2> QED BY <1>4, <1>5
<1>7. Xor = [p \in Nat \X Nat |-> XorStep(Xor, p)]
  BY <1>6 DEF XorStep
<1>8. \A a \in Nat : \A b \in Nat : Xor[<<a, b>>] = XorStep(Xor, <<a, b>>)
  BY <1>7
<1> DEFINE S == {n \in Nat : \A a \in 0 .. n : \A b \in Nat : Xor[<<a, b>>] \in Nat}
<1>9. ASSUME NEW a \in Nat, NEW b \in Nat,
             a # 0 => Xor[<<a \div 2, b \div 2>>] \in Nat
      PROVE  Xor[<<a, b>>] \in Nat
  <2> DEFINE z == Xor[<<a \div 2, b \div 2>>]
  <2>1. Xor[<<a, b>>] = IF a = 0 \/ b = 0 THEN a + b ELSE 2 * z + ((a + b) % 2)
    BY <1>8 DEF XorStep
  <2>2. (a + b) % 2 \in Nat
    OBVIOUS
  <2> HIDE DEF z
  <2>3. a # 0 => z \in Nat
    BY <1>9 DEF z
  <2> QED BY <2>1, <2>2, <2>3
<1>10. 0 \in S
  <2>1. \A a \in 0 .. 0 : a = 0
    OBVIOUS
  <2> QED BY <1>9, <2>1
<1>11. ASSUME NEW n \in Nat, n \in S
       PROVE  n + 1 \in S
  <2> SUFFICES ASSUME NEW a \in 0 .. n + 1, NEW b \in Nat
               PROVE  Xor[<<a, b>>] \in Nat
    OBVIOUS
  <2>1. b \div 2 \in Nat /\ (a # 0 => a \div 2 \in 0 .. n)
    BY HalfLess
  <2>2. \A c \in 0 .. n : \A d \in Nat : Xor[<<c, d>>] \in Nat
    BY <1>11
  <2>3. a # 0 => Xor[<<a \div 2, b \div 2>>] \in Nat
    BY <2>1, <2>2
  <2>4. a \in Nat
    OBVIOUS
  <2> QED BY <1>9, <2>3, <2>4
<1>12. \A n \in Nat : n \in S
  <2> HIDE DEF S
  <2> QED BY <1>10, <1>11, Counting
<1> SUFFICES ASSUME NEW a \in Nat, NEW b \in Nat
             PROVE  Xor[<<a, b>>] \in Nat
  OBVIOUS
<1>13. a \in S /\ a \in 0 .. a
  BY <1>12
<1> QED BY <1>13

\* The subsets of a burst of one or two lines, told apart.
LEMMA SmallSets ==
  /\ {1} \ {1} = {} /\ {2} \ {2} = {} /\ {1, 2} \ {2} = {1}
  /\ {1} # {2} /\ {1, 2} # {1} /\ {1, 2} # {2} /\ {1} # {} /\ {2} # {} /\ {1, 2} # {}
  /\ \A n \in {1, 2} : \A s \in SUBSET (1 .. n) :
       s = {} \/ s = {1} \/ (n = 2 /\ (s = {2} \/ s = {1, 2}))
<1>1. {1} \ {1} = {} /\ {2} \ {2} = {}
  OBVIOUS
<1>2. {1, 2} \ {2} = {1}
  <2>1. \A x : x \in {1, 2} \ {2} <=> x \in {1}
    OBVIOUS
  <2> QED BY <2>1
<1>3. /\ {1} # {2} /\ {1, 2} # {1} /\ {1, 2} # {2} /\ {1} # {} /\ {2} # {} /\ {1, 2} # {}
  <2>1. 1 \in {1, 2} /\ 2 \in {1, 2} /\ 1 \notin {2} /\ 2 \notin {1} /\ 1 \in {1} /\ 2 \in {2}
    OBVIOUS
  <2> QED BY <2>1
<1>4. ASSUME NEW n \in {1, 2}, NEW s \in SUBSET (1 .. n)
      PROVE  s = {} \/ s = {1} \/ (n = 2 /\ (s = {2} \/ s = {1, 2}))
  <2>1. \A y \in s : y = 1 \/ (n = 2 /\ y = 2)
    OBVIOUS
  <2>2. CASE 1 \in s /\ 2 \in s
    BY <2>1, <2>2
  <2>3. CASE 1 \in s /\ 2 \notin s
    BY <2>1, <2>3
  <2>4. CASE 1 \notin s /\ 2 \in s
    BY <2>1, <2>4
  <2>5. CASE 1 \notin s /\ 2 \notin s
    BY <2>1, <2>5
  <2> QED BY <2>2, <2>3, <2>4, <2>5
<1> QED BY <1>1, <1>2, <1>3, <1>4

\* A read goes over one or two lines.
LEMMA ReadFold ==
  ASSUME NEW x, NEW q, NEW n \in {1, 2}, DOMAIN q = 1 .. n
  PROVE  FoldLeft(ReadPiece, x, q) =
           IF n = 1 THEN ReadPiece(x, q[1]) ELSE ReadPiece(ReadPiece(x, q[1]), q[2])
<1> DEFINE Body(it, s) == LET m == Max(s) IN ReadPiece(it[s \ {m}], q[m])
           R(it) == it = [s \in SUBSET (DOMAIN q) |-> IF s = {} THEN x ELSE Body(it, s)]
           iter == CHOOSE it : R(it)
           a == ReadPiece(x, q[1])
           b == ReadPiece(x, q[2])
           c == ReadPiece(ReadPiece(x, q[1]), q[2])
           it == [s \in SUBSET (1 .. n) |-> IF s = {} THEN x ELSE IF s = {1} THEN a
                                           ELSE IF s = {2} THEN b ELSE c]
<1>1. FoldLeft(ReadPiece, x, q) = iter[DOMAIN q]
  BY DEF FoldLeft, MapThenFoldSet
<1>2. Max({1}) = 1 /\ Max({2}) = 2 /\ Max({1, 2}) = 2
  BY DEF Max
<1>3. /\ {1} \ {1} = {} /\ {2} \ {2} = {} /\ {1, 2} \ {2} = {1}
      /\ {1} # {2} /\ {1, 2} # {1} /\ {1, 2} # {2} /\ {1} # {} /\ {2} # {} /\ {1, 2} # {}
  BY SmallSets
<1>4. \A s \in SUBSET (1 .. n) : s = {} \/ s = {1} \/ (n = 2 /\ (s = {2} \/ s = {1, 2}))
  BY SmallSets
<1>5. {} \in SUBSET (1 .. n) /\ {1} \in SUBSET (1 .. n)
  OBVIOUS
<1> HIDE DEF a, b, c
<1>6. it[{}] = x /\ it[{1}] = a /\ (n = 2 => it[{2}] = b /\ it[{1, 2}] = c)
  <2>1. n = 2 => {2} \in SUBSET (1 .. n) /\ {1, 2} \in SUBSET (1 .. n)
    OBVIOUS
  <2> QED BY <1>3, <1>5, <2>1
<1>7. ASSUME NEW s \in SUBSET (1 .. n)
      PROVE  it[s] = IF s = {} THEN x ELSE Body(it, s)
  <2> HIDE DEF it
  <2>1. Body(it, {1}) = a
    BY <1>2, <1>3, <1>6 DEF a
  <2>2. n = 2 => Body(it, {2}) = b /\ Body(it, {1, 2}) = c
    BY <1>2, <1>3, <1>6 DEF b, c, a
  <2> HIDE DEF Body
  <2> QED BY <1>3, <1>4, <1>6, <2>1, <2>2
<1>8. R(it)
  <2>1. it = [s \in SUBSET (1 .. n) |-> it[s]]
    OBVIOUS
  <2> HIDE DEF it, Body
  <2> QED BY <1>7, <2>1
<1>9. R(iter)
  <2> HIDE DEF R, it
  <2> QED BY <1>8
<1> HIDE DEF iter, it
<1>10. \A s \in SUBSET (1 .. n) : iter[s] = IF s = {} THEN x ELSE Body(iter, s)
  <2> HIDE DEF Body
  <2> QED BY <1>9
<1>11. iter[{}] = x
  BY <1>5, <1>10
<1>12. iter[{1}] = a
  <2>1. iter[{1}] = Body(iter, {1})
    <3> HIDE DEF Body
    <3> QED BY <1>3, <1>5, <1>10
  <2>2. Body(iter, {1}) = a
    BY <1>2, <1>3, <1>11 DEF a
  <2> QED BY <2>1, <2>2
<1>13. n = 2 => iter[{1, 2}] = c
  <2> SUFFICES ASSUME n = 2
               PROVE  iter[{1, 2}] = c
    OBVIOUS
  <2>1. iter[{1, 2}] = Body(iter, {1, 2})
    <3>1. {1, 2} \in SUBSET (1 .. n)
      OBVIOUS
    <3> HIDE DEF Body
    <3> QED BY <1>3, <1>10, <3>1
  <2>2. Body(iter, {1, 2}) = c
    BY <1>2, <1>3, <1>12 DEF a, c
  <2> QED BY <2>1, <2>2
<1>14. n = 1 => DOMAIN q = {1}
  OBVIOUS
<1>15. n = 2 => DOMAIN q = {1, 2}
  OBVIOUS
<1> QED BY <1>1, <1>12, <1>13, <1>14, <1>15 DEF a, c

\* A write goes over one or two lines.
LEMMA WriteFold ==
  ASSUME NEW r, NEW x, NEW q, NEW n \in {1, 2}, DOMAIN q = 1 .. n
  PROVE  FoldLeft(LAMBDA st, p : WritePiece(st, r, p), x, q) =
           IF n = 1 THEN WritePiece(x, r, q[1]) ELSE WritePiece(WritePiece(x, r, q[1]), r, q[2])
<1> DEFINE Body(it, s) == LET m == Max(s) IN WritePiece(it[s \ {m}], r, q[m])
           R(it) == it = [s \in SUBSET (DOMAIN q) |-> IF s = {} THEN x ELSE Body(it, s)]
           iter == CHOOSE it : R(it)
           a == WritePiece(x, r, q[1])
           b == WritePiece(x, r, q[2])
           c == WritePiece(WritePiece(x, r, q[1]), r, q[2])
           it == [s \in SUBSET (1 .. n) |-> IF s = {} THEN x ELSE IF s = {1} THEN a
                                           ELSE IF s = {2} THEN b ELSE c]
<1>1. FoldLeft(LAMBDA st, p : WritePiece(st, r, p), x, q) = iter[DOMAIN q]
  BY DEF FoldLeft, MapThenFoldSet
<1>2. Max({1}) = 1 /\ Max({2}) = 2 /\ Max({1, 2}) = 2
  BY DEF Max
<1>3. /\ {1} \ {1} = {} /\ {2} \ {2} = {} /\ {1, 2} \ {2} = {1}
      /\ {1} # {2} /\ {1, 2} # {1} /\ {1, 2} # {2} /\ {1} # {} /\ {2} # {} /\ {1, 2} # {}
  BY SmallSets
<1>4. \A s \in SUBSET (1 .. n) : s = {} \/ s = {1} \/ (n = 2 /\ (s = {2} \/ s = {1, 2}))
  BY SmallSets
<1>5. {} \in SUBSET (1 .. n) /\ {1} \in SUBSET (1 .. n)
  OBVIOUS
<1> HIDE DEF a, b, c
<1>6. it[{}] = x /\ it[{1}] = a /\ (n = 2 => it[{2}] = b /\ it[{1, 2}] = c)
  <2>1. n = 2 => {2} \in SUBSET (1 .. n) /\ {1, 2} \in SUBSET (1 .. n)
    OBVIOUS
  <2> QED BY <1>3, <1>5, <2>1
<1>7. ASSUME NEW s \in SUBSET (1 .. n)
      PROVE  it[s] = IF s = {} THEN x ELSE Body(it, s)
  <2> HIDE DEF it
  <2>1. Body(it, {1}) = a
    BY <1>2, <1>3, <1>6 DEF a
  <2>2. n = 2 => Body(it, {2}) = b /\ Body(it, {1, 2}) = c
    BY <1>2, <1>3, <1>6 DEF b, c, a
  <2> HIDE DEF Body
  <2> QED BY <1>3, <1>4, <1>6, <2>1, <2>2
<1>8. R(it)
  <2>1. it = [s \in SUBSET (1 .. n) |-> it[s]]
    OBVIOUS
  <2> HIDE DEF it, Body
  <2> QED BY <1>7, <2>1
<1>9. R(iter)
  <2> HIDE DEF R, it
  <2> QED BY <1>8
<1> HIDE DEF iter, it
<1>10. \A s \in SUBSET (1 .. n) : iter[s] = IF s = {} THEN x ELSE Body(iter, s)
  <2> HIDE DEF Body
  <2> QED BY <1>9
<1>11. iter[{}] = x
  BY <1>5, <1>10
<1>12. iter[{1}] = a
  <2>1. iter[{1}] = Body(iter, {1})
    <3> HIDE DEF Body
    <3> QED BY <1>3, <1>5, <1>10
  <2>2. Body(iter, {1}) = a
    BY <1>2, <1>3, <1>11 DEF a
  <2> QED BY <2>1, <2>2
<1>13. n = 2 => iter[{1, 2}] = c
  <2> SUFFICES ASSUME n = 2
               PROVE  iter[{1, 2}] = c
    OBVIOUS
  <2>1. iter[{1, 2}] = Body(iter, {1, 2})
    <3>1. {1, 2} \in SUBSET (1 .. n)
      OBVIOUS
    <3> HIDE DEF Body
    <3> QED BY <1>3, <1>10, <3>1
  <2>2. Body(iter, {1, 2}) = c
    BY <1>2, <1>3, <1>12 DEF a, c
  <2> QED BY <2>1, <2>2
<1>14. n = 1 => DOMAIN q = {1}
  OBVIOUS
<1>15. n = 2 => DOMAIN q = {1, 2}
  OBVIOUS
<1> QED BY <1>1, <1>12, <1>13, <1>14, <1>15 DEF a, c

\* The storage of a stack.
Blocks(u) == [base : Nat, bytes : Bytes(u.org.transaction)]
OpenRows(u) == [row : Nat, dirty : BOOLEAN, columns : Maps(Nat, Blocks(u))]
Stored(u) == [rows : Maps(Places(u.org), OpenRows(u)),
              lines : Maps(Nat, Bytes(u.org.transaction))]

\* A part of transaction r in one line.
PieceRecords(u) == [base : Nat, offset : Nat, from : Nat, size : Nat, at : Places(u.org)]
PieceSound(u, r, p) ==
  /\ p \in PieceRecords(u) /\ p.offset + p.size <= u.org.transaction
  /\ p.from + p.size <= r.size

KeepsRows(st, x) ==
  /\ DOMAIN x.rows = DOMAIN st.rows
  /\ \A k \in DOMAIN st.rows : x.rows[k].row = st.rows[k].row

\* The bank of a place is a place, in the same channel.
LEMMA BankKeyTyped ==
  ASSUME NEW org \in Organizations, NEW at \in Places(org)
  PROVE  BankKey(at) \in Places(org) /\ at["row"] \in Nat /\ at["column"] \in Nat
         /\ at["channel"] \in Nat /\ at["channel"] < org.size["channel"]
<1>1. {"row", "column", "channel"} \subseteq Fields
  BY DEF Fields
<1>2. \A f \in Fields : org.size[f] \in Nat \ {0}
  BY DEF Organizations
<1> QED BY <1>1, <1>2 DEF BankKey, Places

\* Two sequences of one element, joined.
LEMMA PairJoined ==
  ASSUME NEW a, NEW b
  PROVE  <<a>> \o <<b>> = <<a, b>>
<1> DEFINE S == {a, b}
           s == <<a>> \o <<b>>
           t == <<a, b>>
<1>1. a \in S /\ b \in S
  OBVIOUS
<1> HIDE DEF S
<1>2. <<a>> \in Seq(S) /\ <<b>> \in Seq(S) /\ Len(<<a>>) = 1 /\ Len(<<b>>) = 1
      /\ t \in Seq(S) /\ Len(t) = 2 /\ t[1] = a /\ t[2] = b
  BY <1>1
<1>3. /\ s \in Seq(S) /\ Len(s) = Len(<<a>>) + Len(<<b>>)
      /\ \A i \in 1 .. Len(<<a>>) + Len(<<b>>) :
           s[i] = IF i <= Len(<<a>>) THEN <<a>>[i] ELSE <<b>>[i - Len(<<a>>)]
  BY <1>2, ConcatProperties
<1> HIDE DEF s, t
<1>4. Len(s) = 2 /\ s[1] = a /\ s[2] = b
  <2>1. 1 \in 1 .. 2 /\ 2 \in 1 .. 2 /\ 2 - 1 = 1 /\ 1 + 1 = 2
    OBVIOUS
  <2>2. <<a>>[1] = a /\ <<b>>[1] = b
    OBVIOUS
  <2> QED BY <1>2, <1>3, <2>1, <2>2
<1>5. \A i \in 1 .. 2 : s[i] = t[i]
  BY <1>2, <1>4
<1> QED BY <1>2, <1>3, <1>4, <1>5, SeqEqual DEF s, t

\* The lines of a transaction: one, or two when it crosses a boundary.
LEMMA PiecesTyped ==
  ASSUME Legal(setup), NEW r \in Parts(setup), r.type # "control"
  PROVE  \E n \in {1, 2} :
           /\ DOMAIN Pieces(r) = 1 .. n
           /\ \A i \in 1 .. n : PieceSound(setup, r, Pieces(r)[i])
           /\ Pieces(r)[1].at = r.at
<1> DEFINE t == setup.org.transaction
           a == r.address
           s == r.size
           off == a % t
           base == a - off
           first == Min({s, base + t - a})
           at2 == Decode(setup.org, base + t)
           p1 == [base |-> base, offset |-> a - base, from |-> 0, size |-> first,
                  at |-> r.at]
           p2 == [base |-> base + t, offset |-> 0, from |-> first, size |-> s - first,
                  at |-> at2]
<1>1. r \in PartRecords(setup) /\ PartSound(setup, r)
  BY DEF Parts
<1>2. a \in Nat /\ s \in 1 .. t /\ t \in Nat \ {0} /\ r.at \in Places(setup.org)
  BY <1>1, LegalParts DEF PartRecords, PartSound
<1>3. Pieces(r) = <<p1>> \o (IF first = s THEN <<>> ELSE <<p2>>)
  BY DEF Pieces, LineBytes
<1>4. off \in 0 .. t - 1 /\ base \in Nat /\ a - base = off /\ base + t - a = t - off
  <2>1. off \in 0 .. t - 1 /\ a \div t \in Nat /\ a = (a \div t) * t + off
    BY <1>2, Division
  <2>2. (a \div t) * t \in Nat
    BY <1>2, <2>1, ProductNat
  <2> DEFINE m == (a \div t) * t
  <2>3. m \in Nat /\ a = m + off
    BY <2>1, <2>2
  <2> HIDE DEF off, m, a
  <2>4. a - off = m
    BY <1>2, <2>1, <2>3
  <2> QED BY <1>2, <2>1, <2>3, <2>4, SMTT(60)
<1>5. first = IF s <= t - off THEN s ELSE t - off
  <2>1. t - off \in Nat /\ s \in Nat
    BY <1>2, <1>4
  <2>2. Min({s, t - off}) = IF s <= t - off THEN s ELSE t - off
    <3> HIDE DEF t, off, s
    <3> QED BY <2>1, MinPair
  <2>3. first = Min({s, t - off})
    <3>1. base + t - a = t - off
      BY <1>4
    <3> HIDE DEF base, off, a
    <3> QED BY <3>1
  <2> QED BY <2>2, <2>3
<1>6. at2 \in Places(setup.org)
  <2>1. base + t \in Nat
    BY <1>2, <1>4
  <2> QED BY <2>1, LegalParts, DecodePlaces
<1> HIDE DEF first, at2, base, off, t, a, s
<1>7. first \in Nat /\ first >= 1 /\ first <= s /\ off + first <= t /\ s - first <= t
  BY <1>2, <1>4, <1>5
<1>8. PieceSound(setup, r, p1)
  BY <1>2, <1>4, <1>7 DEF PieceSound, PieceRecords, s, t
<1>9. PieceSound(setup, r, p2)
  <2>1. base + t \in Nat /\ s - first \in Nat /\ first + (s - first) = s
    BY <1>2, <1>4, <1>7
  <2> QED BY <1>2, <1>6, <1>7, <2>1 DEF PieceSound, PieceRecords, s, t
<1> DEFINE x1 == p1
           x2 == p2
<1>10. x1.at = r.at
  OBVIOUS
<1> HIDE DEF x1, x2
<1>11. CASE first = s
  <2>1. Pieces(r) = <<x1>>
    <3>1. <<x1>> \o <<>> = <<x1>>
      <4> DEFINE S == {x1}
      <4>1. x1 \in S
        OBVIOUS
      <4> HIDE DEF S
      <4>2. <<x1>> \in Seq(S)
        BY <4>1
      <4> QED BY <4>2, ConcatEmptySeq
    <3>2. Pieces(r) = <<x1>> \o <<>>
      BY <1>3, <1>11 DEF x1
    <3> QED BY <3>1, <3>2
  <2>2. DOMAIN <<x1>> = 1 .. 1 /\ <<x1>>[1] = x1
    OBVIOUS
  <2> QED BY <1>8, <1>10, <2>1, <2>2 DEF x1
<1>12. CASE first # s
  <2>1. Pieces(r) = <<x1, x2>>
    <3>1. <<x1>> \o <<x2>> = <<x1, x2>>
      BY PairJoined
    <3>2. Pieces(r) = <<x1>> \o <<x2>>
      BY <1>3, <1>12 DEF x1, x2
    <3> QED BY <3>1, <3>2
  <2>2. DOMAIN <<x1, x2>> = 1 .. 2 /\ <<x1, x2>>[1] = x1 /\ <<x1, x2>>[2] = x2
    OBVIOUS
  <2>3. PieceSound(setup, r, x1) /\ PieceSound(setup, r, x2)
    BY <1>8, <1>9 DEF x1, x2
  <2>4. \A i \in 1 .. 2 : PieceSound(setup, r, Pieces(r)[i])
    BY <2>1, <2>2, <2>3
  <2> QED BY <1>10, <2>1, <2>2, <2>4
<1> QED BY <1>11, <1>12

\* row_buffer_block() and the backend give a line.
LEMMA LinesTyped ==
  ASSUME Legal(setup), NEW st \in Stored(setup), NEW b \in Nat
  PROVE  BackendLine(st, b) \in Bytes(setup.org.transaction)
<1>1. st.lines \in Maps(Nat, Bytes(setup.org.transaction))
  BY DEF Stored
<1>2. Zeros(LineBytes) \in Bytes(setup.org.transaction)
  BY LegalParts, ZerosAreBytes DEF LineBytes
<1> QED BY <1>1, <1>2, MapsProperties DEF BackendLine

\* A block of the open row buffer, or of the backend behind it, has one line.
LEMMA BlockTyped ==
  ASSUME Legal(setup), NEW st \in Stored(setup), NEW p \in PieceRecords(setup),
         BankKey(p.at) \in DOMAIN st.rows
  PROVE  /\ LineBlock(st, p) \in Blocks(setup) /\ LineBlock(st, p).base = p.base
         /\ st.rows[BankKey(p.at)] \in OpenRows(setup)
<1> DEFINE row == st.rows[BankKey(p.at)]
           bytes == IF p.at["column"] \in DOMAIN row.columns
                    THEN row.columns[p.at["column"]].bytes
                    ELSE BackendLine(st, p.base)
<1>1. row \in OpenRows(setup)
  BY MapsProperties DEF Stored
<1>2. p.base \in Nat
  BY DEF PieceRecords
<1>3. row.columns \in Maps(Nat, Blocks(setup))
  BY <1>1 DEF OpenRows
<1>4. BackendLine(st, p.base) \in Bytes(setup.org.transaction)
  BY <1>2, LinesTyped
<1>5. p.at["column"] \in DOMAIN row.columns =>
        row.columns[p.at["column"]].bytes \in Bytes(setup.org.transaction)
  <2> HIDE DEF row
  <2>1. \A x \in DOMAIN row.columns : row.columns[x] \in Blocks(setup)
    BY <1>3, MapsProperties
  <2> QED BY <2>1 DEF Blocks
<1>6. bytes \in Bytes(setup.org.transaction)
  BY <1>4, <1>5
<1>7. LineBlock(st, p) = [base |-> p.base, bytes |-> bytes]
  BY DEF LineBlock
<1> HIDE DEF bytes
<1> QED BY <1>1, <1>2, <1>6, <1>7 DEF Blocks

\* Changing a block of an open row keeps the storage typed and the rows open.
LEMMA WithBlockTyped ==
  ASSUME Legal(setup), NEW st \in Stored(setup), NEW p \in PieceRecords(setup),
         BankKey(p.at) \in DOMAIN st.rows, NEW b \in Blocks(setup), NEW d \in BOOLEAN
  PROVE  /\ WithBlock(st, p, b, d) \in Stored(setup) /\ KeepsRows(st, WithBlock(st, p, b, d))
         /\ WithBlock(st, p, b, d).lines = st.lines
         /\ \A k \in DOMAIN st.rows : WithBlock(st, p, b, d).rows[k] =
              IF k = BankKey(p.at)
              THEN [row |-> st.rows[k].row, dirty |-> st.rows[k].dirty \/ d,
                    columns |-> With(st.rows[k].columns, p.at["column"], b)]
              ELSE st.rows[k]
<1> DEFINE B == BankKey(p.at)
           row == st.rows[B]
           used == [row EXCEPT !.columns = With(@, p.at["column"], b), !.dirty = @ \/ d]
           new == [row |-> row.row, dirty |-> row.dirty \/ d,
                   columns |-> With(row.columns, p.at["column"], b)]
           x == WithBlock(st, p, b, d)
<1>1. row \in OpenRows(setup) /\ st.rows \in Maps(Places(setup.org), OpenRows(setup))
  BY MapsProperties DEF Stored
<1>2. p.at["column"] \in Nat
  BY LegalParts, BankKeyTyped DEF PieceRecords
<1>3. With(row.columns, p.at["column"], b) \in Maps(Nat, Blocks(setup))
  <2>1. row.columns \in Maps(Nat, Blocks(setup))
    BY <1>1 DEF OpenRows
  <2> HIDE DEF row
  <2> QED BY <1>2, <2>1, MapsProperties
<1>4. used = new
  <2> DEFINE w == With(row.columns, p.at["column"], b)
  <2> HIDE DEF row
  <2>1. used = [row EXCEPT !.columns = w, !.dirty = row.dirty \/ d]
    OBVIOUS
  <2> HIDE DEF w
  <2>2. new = [row |-> row.row, dirty |-> row.dirty \/ d, columns |-> w]
    BY DEF w
  <2> HIDE DEF used, new
  <2> DEFINE e == row.dirty \/ d
  <2> HIDE DEF e
  <2>3. [row EXCEPT !.columns = w, !.dirty = e]
          = [row |-> row.row, dirty |-> e, columns |-> w]
    <3>1. e \in BOOLEAN
      BY <1>1 DEF e, OpenRows
    <3>2. w \in Maps(Nat, Blocks(setup))
      BY <1>3 DEF w
    <3> DEFINE y == [row EXCEPT !.columns = w, !.dirty = e]
    <3>3. row \in [row : Nat, dirty : BOOLEAN, columns : Maps(Nat, Blocks(setup))]
      BY <1>1 DEF OpenRows
    <3>4. y \in [row : Nat, dirty : BOOLEAN, columns : Maps(Nat, Blocks(setup))]
      BY <3>1, <3>2, <3>3
    <3>5. y.row = row.row /\ y.dirty = e /\ y.columns = w
      BY <3>3
    <3> HIDE DEF y
    <3>6. y = [row |-> y.row, dirty |-> y.dirty, columns |-> y.columns]
      BY <3>4
    <3> QED BY <3>5, <3>6 DEF y
  <2> QED BY <2>1, <2>2, <2>3 DEF e
<1>5. x = [st EXCEPT !.rows[B] = used]
  BY DEF WithBlock
<1>6. new \in OpenRows(setup)
  <2>1. row.row \in Nat /\ (row.dirty \/ d) \in BOOLEAN
    BY <1>1 DEF OpenRows
  <2> HIDE DEF row
  <2> QED BY <1>3, <2>1 DEF OpenRows
<1>7. x = [st EXCEPT !.rows[B] = new]
  BY <1>4, <1>5
<1> HIDE DEF used, new, B, x
<1>8. /\ x.lines = st.lines /\ x.rows = [st.rows EXCEPT ![B] = new]
      /\ x = [rows |-> x.rows, lines |-> x.lines]
  BY <1>7 DEF Stored
<1>9. PICK S \in SUBSET Places(setup.org) : st.rows \in [S -> OpenRows(setup)]
  BY <1>1 DEF Maps
<1>10. x.rows \in [S -> OpenRows(setup)]
  BY <1>6, <1>8, <1>9
<1>11. x.rows \in Maps(Places(setup.org), OpenRows(setup))
  BY <1>10, MapsIntro
<1>12. x \in Stored(setup)
  BY <1>8, <1>11 DEF Stored
<1>13. DOMAIN x.rows = DOMAIN st.rows
       /\ \A k \in DOMAIN st.rows : x.rows[k] = IF k = B THEN new ELSE st.rows[k]
  BY <1>8, <1>9, <1>10
<1>14. new.row = st.rows[B].row
  BY DEF new
<1>15. KeepsRows(st, x)
  BY <1>13, <1>14 DEF KeepsRows
<1> QED BY <1>8, <1>12, <1>13, <1>15 DEF x, B, new

\* The bytes of a line, some replaced.
LEMMA OverwrittenTyped ==
  ASSUME Legal(setup), NEW r \in Parts(setup), r.type = "write", NEW p,
         PieceSound(setup, r, p), NEW b \in Bytes(setup.org.transaction)
  PROVE  Overwritten(b, r, p) \in Bytes(setup.org.transaction)
<1> DEFINE t == setup.org.transaction
           f(i) == LET j == i - p.offset + p.from
                   IN IF i > p.offset /\ i <= p.offset + p.size /\ Enabled(r, j)
                      THEN r.payload[j] ELSE b[i]
<1>1. t \in Nat /\ DOMAIN b = 1 .. t /\ \A i \in 1 .. t : b[i] \in Byte
  BY LegalParts, BytesAre
<1>2. r.payload \in Bytes(r.size) /\ r.size \in Nat
  BY DEF Parts, PartRecords, PartSound
<1>3. \A j \in 1 .. r.size : r.payload[j] \in Byte
  BY <1>2, BytesAre
<1>4. ASSUME NEW i \in 1 .. t
      PROVE  f(i) \in Byte
  <2>1. i > p.offset /\ i <= p.offset + p.size => i - p.offset + p.from \in 1 .. r.size
    BY <1>2 DEF PieceSound, PieceRecords
  <2> QED BY <1>1, <1>3, <2>1
<1>5. Overwritten(b, r, p) = [i \in 1 .. t |-> f(i)]
  BY <1>1 DEF Overwritten
<1> HIDE DEF f
<1>6. Overwritten(b, r, p) \in [1 .. t -> Byte]
  BY <1>4, <1>5
<1> QED BY <1>1, <1>6, BytesMade

Reading == [st : Stored(setup), bytes : Seq(Byte)]

\* So does reading one piece of a transaction.
LEMMA ReadPieceTyped ==
  ASSUME Legal(setup), NEW acc \in Reading, NEW r, NEW p, PieceSound(setup, r, p)
  PROVE  ReadPiece(acc, p) \in Reading /\ KeepsRows(acc.st, ReadPiece(acc, p).st)
<1> DEFINE st == acc.st
           open == RowOpen(st, p.at)
           bytes == IF open THEN LineBlock(st, p).bytes ELSE BackendLine(st, p.base)
           new == IF open THEN WithBlock(st, p, LineBlock(st, p), FALSE) ELSE st
           cut == SubSeq(bytes, p.offset + 1, p.offset + p.size)
<1>1. st \in Stored(setup) /\ acc.bytes \in Seq(Byte)
  BY DEF Reading
<1>2. p \in PieceRecords(setup) /\ p.offset + p.size <= setup.org.transaction
      /\ p.base \in Nat /\ p.offset \in Nat /\ p.size \in Nat
  BY DEF PieceSound, PieceRecords
<1>3. ReadPiece(acc, p) = [st |-> new, bytes |-> acc.bytes \o cut]
  BY DEF ReadPiece
<1> HIDE DEF st
<1>4. /\ open => BankKey(p.at) \in DOMAIN st.rows
      /\ open => LineBlock(st, p) \in Blocks(setup)
  <2>1. open => BankKey(p.at) \in DOMAIN st.rows
    BY DEF RowOpen
  <2> QED BY <1>1, <1>2, <2>1, BlockTyped
<1>5. bytes \in Bytes(setup.org.transaction)
  BY <1>1, <1>2, <1>4, LinesTyped DEF Blocks
<1>6. new \in Stored(setup) /\ KeepsRows(st, new)
  <2>1. CASE open
    BY <1>1, <1>2, <1>4, <2>1, WithBlockTyped
  <2>2. CASE ~open
    BY <1>1, <2>2 DEF KeepsRows
  <2> QED BY <2>1, <2>2
<1>7. cut \in Seq(Byte)
  <2> DEFINE t == setup.org.transaction
  <2>1. t \in Nat
    BY LegalParts
  <2>2. bytes \in Seq(Byte) /\ Len(bytes) = t
    BY <1>5, <2>1, BytesAre
  <2> HIDE DEF bytes, t
  <2>3. \A i \in p.offset + 1 .. p.offset + p.size : i \in 1 .. Len(bytes)
    BY <1>2, <2>1, <2>2 DEF t
  <2> QED BY <1>2, <2>2, <2>3, SubSeqProperties
<1>8. acc.bytes \o cut \in Seq(Byte)
  BY <1>1, <1>7, ConcatProperties
<1> HIDE DEF new, cut
<1> QED BY <1>3, <1>6, <1>8 DEF Reading, st

\* So does writing one piece.
LEMMA WritePieceTyped ==
  ASSUME Legal(setup), NEW st \in Stored(setup), NEW r \in Parts(setup),
         r.type = "write", NEW p, PieceSound(setup, r, p)
  PROVE  WritePiece(st, r, p) \in Stored(setup) /\ KeepsRows(st, WritePiece(st, r, p))
<1> DEFINE T == setup.org.transaction
           line == BackendLine(st, p.base)
           alloc == [st EXCEPT !.lines = With(st.lines, p.base, line)]
           block == LineBlock(st, p)
           over == [block EXCEPT !.bytes = Overwritten(block.bytes, r, p)]
           plain == [st EXCEPT !.lines = With(st.lines, p.base, Overwritten(line, r, p))]
<1>1. p \in PieceRecords(setup) /\ p.base \in Nat
  BY DEF PieceSound, PieceRecords
<1>2. WritePiece(st, r, p) = IF RowOpen(st, p.at)
                             THEN WithBlock(alloc, p, over, TRUE) ELSE plain
  BY DEF WritePiece
<1>3. line \in Bytes(T) /\ Overwritten(line, r, p) \in Bytes(T)
  BY <1>1, LinesTyped, OverwrittenTyped
<1>4. \A b \in Bytes(T) : LET x == [st EXCEPT !.lines = With(st.lines, p.base, b)]
        IN x \in Stored(setup) /\ x.rows = st.rows /\ x.lines = With(st.lines, p.base, b)
  <2>1. \A b \in Bytes(T) : With(st.lines, p.base, b) \in Maps(Nat, Bytes(T))
    <3>1. st.lines \in Maps(Nat, Bytes(T))
      BY DEF Stored
    <3> QED BY <1>1, <3>1, MapsProperties
  <2>2. \A m \in Maps(Nat, Bytes(T)) : LET x == [st EXCEPT !.lines = m]
          IN x \in Stored(setup) /\ x.rows = st.rows /\ x.lines = m
    BY DEF Stored
  <2> QED BY <2>1, <2>2
<1>5. alloc \in Stored(setup) /\ alloc.rows = st.rows
  BY <1>3, <1>4
<1>6. plain \in Stored(setup) /\ plain.rows = st.rows
  BY <1>3, <1>4
<1> HIDE DEF alloc, plain
<1>7. CASE RowOpen(st, p.at)
  <2>1. BankKey(p.at) \in DOMAIN st.rows /\ BankKey(p.at) \in DOMAIN alloc.rows
    BY <1>5, <1>7 DEF RowOpen
  <2>2. block \in Blocks(setup)
    BY <1>1, <2>1, BlockTyped
  <2>3. over \in Blocks(setup)
    <3> HIDE DEF block
    <3>1. Overwritten(block.bytes, r, p) \in Bytes(T)
      BY <2>2, OverwrittenTyped DEF Blocks
    <3> QED BY <2>2, <3>1 DEF Blocks
  <2> HIDE DEF over
  <2>4. /\ WithBlock(alloc, p, over, TRUE) \in Stored(setup)
        /\ KeepsRows(alloc, WithBlock(alloc, p, over, TRUE))
    BY <1>1, <1>5, <2>1, <2>3, WithBlockTyped
  <2> QED BY <1>2, <1>5, <1>7, <2>4 DEF KeepsRows
<1>8. CASE ~RowOpen(st, p.at)
  BY <1>2, <1>6, <1>8 DEF KeepsRows
<1> QED BY <1>7, <1>8

\* KeepsRows is transitive.
LEMMA KeepsRowsChains ==
  ASSUME NEW a, NEW b, NEW c, KeepsRows(a, b), KeepsRows(b, c)
  PROVE  KeepsRows(a, c)
BY DEF KeepsRows

\* MemoryImage::read() and write() leave the rows open that are open.
LEMMA ReadKeepsRows ==
  ASSUME Legal(setup), NEW st \in Stored(setup), NEW r \in Parts(setup),
         r.type # "control"
  PROVE  LET got == FoldLeft(ReadPiece, [st |-> st, bytes |-> <<>>], Pieces(r))
         IN got \in Reading /\ KeepsRows(st, got.st)
<1> DEFINE x == [st |-> st, bytes |-> <<>>]
           q == Pieces(r)
<1>1. PICK n \in {1, 2} : DOMAIN q = 1 .. n /\ \A i \in 1 .. n : PieceSound(setup, r, q[i])
  BY PiecesTyped
<1> DEFINE a == ReadPiece(x, q[1])
           c == ReadPiece(a, q[2])
<1>2. FoldLeft(ReadPiece, x, q) = IF n = 1 THEN a ELSE c
  <2> HIDE DEF q, x
  <2> QED BY <1>1, ReadFold
<1>3. x \in Reading /\ x.st = st
  BY EmptySeq DEF Reading
<1> HIDE DEF x, q
<1>4. a \in Reading /\ KeepsRows(st, a.st)
  BY <1>1, <1>3, ReadPieceTyped
<1> HIDE DEF a
<1>5. n = 2 => c \in Reading /\ KeepsRows(a.st, c.st)
  BY <1>1, <1>4, ReadPieceTyped
<1> HIDE DEF c
<1>6. n = 2 => KeepsRows(st, c.st)
  BY <1>4, <1>5, KeepsRowsChains
<1> QED BY <1>2, <1>4, <1>5, <1>6 DEF x, q

\* So does writing the pieces of a transaction, one after the other.
LEMMA WriteKeepsRows ==
  ASSUME Legal(setup), NEW st \in Stored(setup), NEW r \in Parts(setup),
         r.type = "write"
  PROVE  LET x == FoldLeft(LAMBDA s, p : WritePiece(s, r, p), st, Pieces(r))
         IN x \in Stored(setup) /\ KeepsRows(st, x)
<1> DEFINE q == Pieces(r)
<1>1. PICK n \in {1, 2} : DOMAIN q = 1 .. n /\ \A i \in 1 .. n : PieceSound(setup, r, q[i])
  BY PiecesTyped
<1> DEFINE a == WritePiece(st, r, q[1])
           c == WritePiece(a, r, q[2])
<1>2. FoldLeft(LAMBDA s, p : WritePiece(s, r, p), st, q) = IF n = 1 THEN a ELSE c
  <2> HIDE DEF q
  <2> QED BY <1>1, WriteFold
<1> HIDE DEF q
<1>4. a \in Stored(setup) /\ KeepsRows(st, a)
  BY <1>1, WritePieceTyped
<1> HIDE DEF a
<1>5. n = 2 => c \in Stored(setup) /\ KeepsRows(a, c)
  BY <1>1, <1>4, WritePieceTyped
<1> HIDE DEF c
<1>6. n = 2 => KeepsRows(st, c)
  BY <1>4, <1>5, KeepsRowsChains
<1> QED BY <1>2, <1>4, <1>5, <1>6 DEF q

LineMaps(u) == Maps(Nat, Bytes(u.org.transaction))

\* Writing a row back keeps the lines of the backend typed.
LEMMA WriteBackTyped ==
  ASSUME Legal(setup), NEW lines \in LineMaps(setup), NEW row \in OpenRows(setup)
  PROVE  WriteBack(lines, row) \in LineMaps(setup)
<1> DEFINE c == row.columns
           S == {c[k].base : k \in DOMAIN c}
           f == [l \in S |-> c[CHOOSE k \in DOMAIN c : c[k].base = l].bytes]
<1>1. c \in Maps(Nat, Blocks(setup))
  BY DEF OpenRows
<1>2. \A k \in DOMAIN c : c[k] \in Blocks(setup)
  <2> HIDE DEF c
  <2> QED BY <1>1, MapsProperties
<1>3. WriteBack(lines, row) = IF ~row.dirty THEN lines ELSE Over(f, lines)
  BY DEF WriteBack
<1> HIDE DEF c
<1>4. S \in SUBSET Nat
  BY <1>2 DEF Blocks
<1>5. ASSUME NEW l \in S
      PROVE  c[CHOOSE k \in DOMAIN c : c[k].base = l].bytes \in Bytes(setup.org.transaction)
  <2>1. \E k \in DOMAIN c : c[k].base = l
    BY <1>5
  <2>2. (CHOOSE k \in DOMAIN c : c[k].base = l) \in DOMAIN c
    BY <2>1
  <2> QED BY <1>2, <2>2 DEF Blocks
<1>6. f \in [S -> Bytes(setup.org.transaction)]
  BY <1>5
<1> HIDE DEF f, S
<1>7. f \in LineMaps(setup)
  BY <1>4, <1>6, MapsIntro DEF LineMaps
<1>8. Over(f, lines) \in LineMaps(setup)
  BY <1>7, OverMaps DEF LineMaps
<1> QED BY <1>3, <1>8

\* The rows of a set of banks are written back one after the other.
IsFlush(iter, rows, closed, lines) ==
  /\ iter \in [SUBSET closed -> LineMaps(setup)]
  /\ iter[{}] = lines
  /\ \A s \in SUBSET closed : s # {} =>
       \E j \in s : iter[s] = WriteBack(iter[s \ {j}], rows[j])

Flushes(rows, closed, lines, x) ==
  \E iter : IsFlush(iter, rows, closed, lines) /\ x = iter[closed]

\* The fold over the closed rows writes each of them back.
LEMMA FlushFold ==
  ASSUME Legal(setup), NEW rows \in Maps(Places(setup.org), OpenRows(setup)),
         NEW closed \in SUBSET DOMAIN rows, IsFiniteSet(closed),
         NEW lines \in LineMaps(setup)
  PROVE  Flushes(rows, closed, lines,
                 FoldSet(LAMBDA j, x : WriteBack(x, rows[j]), lines, closed))
<1> DEFINE A == LineMaps(setup)
           f == [j \in closed |-> [x \in A |-> WriteBack(x, rows[j])]]
           ch == [s \in SUBSET closed |-> CHOOSE j \in s : TRUE]
           Body(it, s) == LET j == CHOOSE j \in s : TRUE IN WriteBack(it[s \ {j}], rows[j])
           R(it) == it = [s \in SUBSET closed |-> IF s = {} THEN lines ELSE Body(it, s)]
           iter == CHOOSE it : R(it)
           x == FoldSet(LAMBDA j, x : WriteBack(x, rows[j]), lines, closed)
<1>1. x = iter[closed]
  BY DEF FoldSet, MapThenFoldSet
<1>2. \A j \in closed : rows[j] \in OpenRows(setup)
  BY MapsProperties
<1>3. f \in [closed -> [A -> A]]
  BY <1>2, WriteBackTyped
<1>4. \A s \in SUBSET closed : s # {} => ch[s] \in s
  OBVIOUS
<1>5. \A s \in SUBSET closed : ch[s] = CHOOSE j \in s : TRUE
  OBVIOUS
<1>6. \A j \in closed : \A y \in A : f[j][y] = WriteBack(y, rows[j])
  OBVIOUS
<1> HIDE DEF f, ch, A, x
<1>7. HasFold(closed, A, lines, f, ch)
  BY <1>3, <1>4, FoldExists DEF A
<1>8. PICK it \in [SUBSET closed -> A] : IsFold(it, closed, lines, f, ch)
  BY <1>7 DEF HasFold
<1>9. ASSUME NEW s \in SUBSET closed, s # {}
      PROVE  f[ch[s]][it[s \ {ch[s]}]] = Body(it, s)
  <2>1. ch[s] \in closed /\ s \ {ch[s]} \in SUBSET closed
    BY <1>4, <1>9
  <2>2. it[s \ {ch[s]}] \in A
    BY <1>8, <2>1
  <2>3. f[ch[s]][it[s \ {ch[s]}]] = WriteBack(it[s \ {ch[s]}], rows[ch[s]])
    BY <1>6, <2>1, <2>2
  <2> QED BY <1>5, <2>3
<1>10. R(it)
  <2> HIDE DEF Body
  <2> QED BY <1>8, <1>9 DEF IsFold
<1>11. R(iter)
  <2> HIDE DEF R
  <2> QED BY <1>10
<1> HIDE DEF iter
\* R(iter) again has a value for every set, which stays in A.
<1>12. \A s \in SUBSET closed : iter[s] = IF s = {} THEN lines ELSE Body(iter, s)
  <2> HIDE DEF Body
  <2> QED BY <1>11
<1>13. iter = [s \in SUBSET closed |-> iter[s]]
  <2> HIDE DEF Body
  <2> QED BY <1>11
<1> DEFINE Small(n) == {s \in SUBSET closed : Cardinality(s) <= n}
           K == {n \in Nat : \A s \in Small(n) : iter[s] \in A}
<1>14. \A s \in SUBSET closed : IsFiniteSet(s) /\ Cardinality(s) \in Nat
  BY FS_Subset, FS_CardinalityType
<1>15. 0 \in K
  <2>1. \A s \in Small(0) : s = {}
    BY <1>14, FS_EmptySet
  <2>2. iter[{}] = lines
    BY <1>12
  <2> QED BY <2>1, <2>2 DEF A
<1>16. ASSUME NEW n \in Nat, n \in K
       PROVE  n + 1 \in K
  <2> SUFFICES ASSUME NEW s \in Small(n + 1), s # {}
               PROVE  iter[s] \in A
    <3>1. iter[{}] \in A
      BY <1>12 DEF A
    <3>2. n + 1 \in Nat
      OBVIOUS
    <3> QED BY <3>1, <3>2
  <2> DEFINE j == CHOOSE j \in s : TRUE
  <2>1. j \in s /\ j \in closed
    OBVIOUS
  <2>2. s \ {j} \in Small(n)
    <3>1. IsFiniteSet(s) /\ Cardinality(s) \in Nat /\ Cardinality(s) <= n + 1
      BY <1>14
    <3>2. Cardinality(s \ {j}) = Cardinality(s) - 1
      BY <2>1, <3>1, FS_RemoveElement
    <3> QED BY <3>1, <3>2
  <2>3. iter[s \ {j}] \in A
    BY <1>16, <2>2
  <2>4. iter[s] = WriteBack(iter[s \ {j}], rows[j])
    BY <1>12
  <2> HIDE DEF j
  <2> QED BY <1>2, <2>1, <2>3, <2>4, WriteBackTyped DEF A
<1>17. \A n \in Nat : n \in K
  <2> HIDE DEF K
  <2> QED BY <1>15, <1>16, Counting
<1>18. \A s \in SUBSET closed : iter[s] \in A
  <2> TAKE s \in SUBSET closed
  <2>1. Cardinality(s) \in Nat
    BY <1>14
  <2>2. s \in Small(Cardinality(s))
    BY <2>1
  <2> QED BY <1>17, <2>1, <2>2
<1>19. iter \in [SUBSET closed -> A]
  BY <1>13, <1>18
<1>20. iter[{}] = lines
  BY <1>12
<1>21. ASSUME NEW s \in SUBSET closed, s # {}
       PROVE  \E j \in s : iter[s] = WriteBack(iter[s \ {j}], rows[j])
  <2>1. iter[s] = Body(iter, s)
    BY <1>12, <1>21
  <2>2. (CHOOSE j \in s : TRUE) \in s
    BY <1>21
  <2> QED BY <2>1, <2>2
<1>22. IsFlush(iter, rows, closed, lines)
  BY <1>19, <1>20, <1>21 DEF IsFlush, A
<1> QED BY <1>1, <1>22 DEF Flushes, x

\* What a controller issued.
Commands == ControlNames \cup {"ACT", "RD", "WR"}
Entries(u) ==
  [cycle : Nat, cmd : Commands, id : Nat, at : Places(u.org), data : Nat, stack : {0},
   position : {<<>>}, address : Nat, system : Nat, payload : Seq(Byte),
   expected : Seq(Byte), owed : Seq(Byte)]

SourceTyped ==
  /\ setup \in Setups /\ stream \in Streams(setup)
  /\ held \in SUBSET Incoming(setup) /\ \A r \in held : \A q \in held : r = q
  /\ sourceDone \in BOOLEAN /\ lastCycle \in Nat
  /\ status \in {"running", "finished", "threw"}
  /\ clk \in Nat /\ phase \in Nat /\ idle \in Nat

QueuesTyped ==
  /\ ingress \in [Stacks -> Seq(Parts(setup))]
  /\ \A k \in Stacks : \A i \in DOMAIN ingress[k] : ingress[k][i].stack = k
  /\ queues \in [Controllers -> Seq(Parts(setup))]
  /\ \A c \in Controllers : \A i \in DOMAIN queues[c] :
       /\ queues[c][i].stack = StackOf(c)
       /\ queues[c][i].at["channel"] = ChannelOf(c)
  /\ cursor \in [Stacks -> Nat] /\ maintenance \in [Controllers -> Nat]

StoresTyped ==
  /\ store \in [Stacks -> Stored(setup)]
  /\ \A k \in Stacks : IsFiniteSet(DOMAIN store[k].rows)
  /\ memory \in Maps(Nat, Byte)

LogTyped == log \in [Controllers -> Seq(Entries(setup))]

FrontendTyped == SourceTyped /\ QueuesTyped /\ StoresTyped /\ LogTyped

-----------------------------------------------------------------------------

\* Controllers are numbered stack by stack and channel by channel.
LEMMA ControllersTyped ==
  ASSUME Legal(setup)
  PROVE  /\ Channels \in Nat \ {0} /\ setup.map.stacks \in Nat \ {0}
         /\ \A c \in Controllers : /\ StackOf(c) \in Stacks /\ ChannelOf(c) \in 0 .. Channels - 1
                                   /\ c = StackOf(c) * Channels + ChannelOf(c) + 1
<1> DEFINE n == setup.map.stacks
           m == setup.org.size["channel"]
<1>1. m \in Nat \ {0} /\ n \in Nat \ {0}
  BY LegalParts DEF Fields, StackMaps
<1>2. Channels = m /\ Controllers = 1 .. n * m /\ Stacks = 0 .. n - 1
  BY DEF Channels, Controllers, Stacks
<1> HIDE DEF n, m
<1>3. n * m \in Nat /\ n * m = m * n
  BY <1>1, ProductNat
<1>4. ASSUME NEW c \in 1 .. n * m
      PROVE  /\ (c - 1) \div m \in 0 .. n - 1 /\ (c - 1) % m \in 0 .. m - 1
             /\ c = ((c - 1) \div m) * m + ((c - 1) % m) + 1
  <2> DEFINE d == c - 1
  <2>1. d \in Nat /\ d < m * n
    BY <1>3
  <2> HIDE DEF d
  <2>2. d \div m \in Nat /\ d \div m < n /\ d % m \in 0 .. m - 1
        /\ d = (d \div m) * m + (d % m)
    BY <1>1, <2>1, Division, QuotientBound
  <2>3. d \div m \in 0 .. n - 1
    BY <1>1, <2>2
  <2>4. (d \div m) * m \in Nat
    BY <1>1, <2>2, ProductNat
  <2>5. c = d + 1
    BY <1>3 DEF d
  <2> QED BY <2>2, <2>3, <2>4, <2>5 DEF d
<1>5. \A c : StackOf(c) = (c - 1) \div m /\ ChannelOf(c) = (c - 1) % m
  BY <1>2 DEF StackOf, ChannelOf
<1> QED BY <1>1, <1>2, <1>4, <1>5 DEF n

\* The initial states are typed.
LEMMA InitTyped == Init => FrontendTyped
<1> SUFFICES ASSUME Init
             PROVE  FrontendTyped
  OBVIOUS
<1>1. setup \in Setups /\ Legal(setup)
  BY SetupsAreLegal DEF Init
<1>2. InitialStream \in Streams(setup)
  <2>1. [k \in {} |-> <<>>] \in Histories
    <3>1. {} \in SUBSET (Nat \X StackIds)
      OBVIOUS
    <3>2. [k \in {} |-> <<>>] \in [{} -> Payloads]
      OBVIOUS
    <3> QED BY <3>1, <3>2, MapsIntro DEF Histories
  <2>2. NoBurst \in Bursts /\ <<>> \in Seq(Incoming(setup)) /\ 1 \in Positive
    BY EmptySeq DEF Bursts, Positive
  <2> QED BY <2>1, <2>2 DEF InitialStream, Streams
<1>3. SourceTyped
  BY <1>1, <1>2 DEF Init, SourceTyped
<1>4. QueuesTyped
  <2>1. <<>> \in Seq(Parts(setup)) /\ DOMAIN <<>> = {}
    BY EmptySeq
  <2>2. \A k \in Stacks : ingress[k] = <<>>
    BY DEF Init
  <2>3. \A c \in Controllers : queues[c] = <<>>
    BY DEF Init
  <2>4. ingress \in [Stacks -> Seq(Parts(setup))] /\ queues \in [Controllers -> Seq(Parts(setup))]
    BY <2>1 DEF Init
  <2>5. cursor \in [Stacks -> Nat] /\ maintenance \in [Controllers -> Nat]
    BY DEF Init
  <2> QED BY <2>1, <2>2, <2>3, <2>4, <2>5 DEF QueuesTyped
<1>5. StoresTyped
  <2> DEFINE st == [rows |-> [b \in {} |-> 0], lines |-> [l \in {} |-> <<>>]]
  <2>1. st \in Stored(setup)
    <3>1. [b \in {} |-> 0] \in [{} -> OpenRows(setup)]
          /\ [l \in {} |-> <<>>] \in [{} -> Bytes(setup.org.transaction)]
      OBVIOUS
    <3>2. {} \in SUBSET Places(setup.org) /\ {} \in SUBSET Nat
      OBVIOUS
    <3> QED BY <3>1, <3>2, MapsIntro DEF Stored
  <2>2. DOMAIN st.rows = {}
    OBVIOUS
  <2>3. [a \in {} |-> ZeroByte] \in Maps(Nat, Byte)
    <3>1. [a \in {} |-> ZeroByte] \in [{} -> Byte] /\ {} \in SUBSET Nat
      OBVIOUS
    <3> QED BY <3>1, MapsIntro
  <2> HIDE DEF st
  <2>4. store = [k \in Stacks |-> st]
    BY DEF Init, st
  <2>5. memory \in Maps(Nat, Byte)
    BY <2>3 DEF Init
  <2> QED BY <2>1, <2>2, <2>4, <2>5, FS_EmptySet DEF StoresTyped
<1>6. LogTyped
  BY EmptySeq DEF Init, LogTyped
<1> QED BY <1>3, <1>4, <1>5, <1>6 DEF FrontendTyped

\* Bytes of a request and their addresses in the system.
LEMMA AddressesNat ==
  ASSUME Legal(setup), NEW r, r.address \in Nat, r.explicit => r.stack \in Nat,
         NEW i \in Nat
  PROVE  SystemAddress(r, i) \in Nat
<1>1. r.address + i \in Nat
  OBVIOUS
<1>2. ASSUME NEW m \in StackMaps, NEW k \in Nat, NEW l \in Nat
      PROVE  StackEncode(m, [stack |-> k, local |-> l]) \in Nat
  <2>1. m.interleave \in Nat \ {0} /\ m.stacks \in Nat \ {0} /\ m.capacity \in Nat \ {0}
    BY DEF StackMaps
  <2>2. l \div m.interleave \in Nat /\ l % m.interleave \in Nat
    <3> DEFINE n == m.interleave
    <3>1. n \in Nat \ {0}
      BY <2>1
    <3> HIDE DEF n
    <3>2. l \div n \in Nat /\ l % n \in 0 .. n - 1
      BY <3>1, Division
    <3> QED BY <3>1, <3>2 DEF n
  <2> DEFINE q == l \div m.interleave
             z == l % m.interleave
  <2> HIDE DEF q, z
  <2>3. q * m.stacks \in Nat
    BY <2>1, <2>2, ProductNat DEF q
  <2>4. (q * m.stacks + k) * m.interleave \in Nat
    BY <2>1, <2>3, ProductNat
  <2>5. (q * m.stacks + k) * m.interleave + z \in Nat
    BY <2>2, <2>4 DEF z
  <2>6. k * m.capacity + l \in Nat
    BY <2>1, ProductNat
  <2> QED BY <2>5, <2>6 DEF StackEncode, q, z
<1>3. setup.map \in StackMaps
  BY LegalParts
<1> QED BY <1>1, <1>2, <1>3 DEF SystemAddress

\* So is the memory after a host write.
LEMMA MemoryTyped ==
  ASSUME Legal(setup), memory \in Maps(Nat, Byte), NEW h \in Hosts(setup)
  PROVE  MemoryAfter(h) \in Maps(Nat, Byte)
<1> DEFINE D == {j \in DOMAIN h.payload : Enabled(h, j)}
           A(i) == SystemAddress(h, i - 1)
           W == {A(i) : i \in D}
           f == [a \in W |-> h.payload[CHOOSE i \in DOMAIN h.payload : A(i) = a]]
<1>1. h.payload \in Seq(Byte) /\ h.address \in Nat /\ (h.explicit => h.stack \in Nat)
  BY DEF Hosts, HostRecords, HostSound
<1>2. DOMAIN h.payload = 1 .. Len(h.payload) /\ Len(h.payload) \in Nat
      /\ \A i \in DOMAIN h.payload : h.payload[i] \in Byte
  BY <1>1, LenProperties, ElementOfSeq
<1>3. \A i \in D : A(i) \in Nat
  <2> TAKE i \in D
  <2>1. i - 1 \in Nat
    BY <1>2
  <2> QED BY <1>1, <2>1, AddressesNat
<1>4. W \in SUBSET Nat
  <2> HIDE DEF A, D
  <2> QED BY <1>3
<1>5. ASSUME NEW a \in W
      PROVE  h.payload[CHOOSE i \in DOMAIN h.payload : A(i) = a] \in Byte
  <2>1. \E i \in DOMAIN h.payload : A(i) = a
    <3> HIDE DEF A
    <3> QED OBVIOUS
  <2> HIDE DEF A
  <2> QED BY <1>2, <2>1
<1>6. f \in [W -> Byte]
  <2> HIDE DEF W, A
  <2> QED BY <1>5
<1>7. MemoryAfter(h) = Over(f, memory)
  BY DEF MemoryAfter
<1> HIDE DEF f, W
<1>8. f \in Maps(Nat, Byte)
  BY <1>4, <1>6, MapsIntro
<1>9. Over(f, memory) \in Maps(Nat, Byte)
  BY <1>8, OverMaps
<1> QED BY <1>7, <1>9

\* target_stack() names a stack.
LEMMA TargetTyped ==
  ASSUME Legal(setup), NEW r \in Incoming(setup), Routable(r)
  PROVE  TargetStack(r) \in Stacks /\ TargetStack(r) \in Nat
<1>1. setup.map.stacks \in Nat \ {0}
  BY ControllersTyped
<1>2. /\ r.type # "control" => (r.explicit <=> r.stack # None)
      /\ r.explicit => r.stack # None
  BY NoneIsInt DEF Incoming, Fresh, Parts, PartSound
<1>3. CASE r.type = "control" /\ r.stack # None
  BY <1>1, <1>3 DEF Routable, TargetStack, Stacks
<1>4. CASE ~(r.type = "control" /\ r.stack # None) /\ r.explicit
  <2>1. InStacks(setup.map, [stack |-> r.stack, local |-> r.address])
    BY <1>4 DEF Routable
  <2>2. r.stack \in 0 .. setup.map.stacks - 1
    BY <2>1 DEF InStacks
  <2> QED BY <1>1, <1>2, <1>4, <2>2 DEF TargetStack, Stacks
<1>5. CASE ~(r.type = "control" /\ r.stack # None) /\ ~r.explicit
  <2> DEFINE d == StackDecode(setup.map, r.address)
  <2>1. InStacks(setup.map, d)
    BY <1>5 DEF Routable
  <2> HIDE DEF d
  <2>2. d.stack \in 0 .. setup.map.stacks - 1
    BY <2>1 DEF InStacks
  <2>3. TargetStack(r) = d.stack
    BY <1>2, <1>5 DEF TargetStack, d
  <2> QED BY <1>1, <2>2, <2>3 DEF Stacks
<1> QED BY <1>3, <1>4, <1>5

\* The stack-local address is natural.
LEMMA LocalNat ==
  ASSUME NEW m \in StackMaps, NEW a \in Nat
  PROVE  StackDecode(m, a).local \in Nat
<1> DEFINE s == m.interleave
           n == m.stacks
           c == m.capacity
<1>1. s \in Nat \ {0} /\ n \in Nat \ {0} /\ c \in Nat \ {0}
  BY DEF StackMaps
<1> HIDE DEF s, n, c
<1>2. a % c \in Nat /\ a % s \in Nat /\ a \div s \in Nat
  BY <1>1, Division
<1>3. (a \div s) \div n \in Nat
  BY <1>1, <1>2, Division
<1>4. ((a \div s) \div n) * s \in Nat
  BY <1>1, <1>3, ProductNat
<1>5. ((a \div s) \div n) * s + (a % s) \in Nat
  BY <1>2, <1>4
<1> QED BY <1>2, <1>5 DEF StackDecode, s, n, c

\* What localize_request() keeps and sets.
LEMMA OwedTyped ==
  ASSUME Legal(setup), memory \in Maps(Nat, Byte), NEW r \in Parts(setup)
  PROVE  /\ Owed(r) \in Seq(Byte)
         /\ r.type = "read" => Owed(r) \in Bytes(r.size)
<1>1. /\ r.address \in Nat /\ r.size \in Nat /\ (r.explicit => r.stack \in Nat)
  BY DEF Parts, PartRecords, PartSound
<1>2. \A i \in 1 .. r.size : SystemAddress(r, i - 1) \in Nat
  <2> TAKE i \in 1 .. r.size
  <2>1. i - 1 \in Nat
    BY <1>1
  <2> QED BY <1>1, <2>1, AddressesNat
<1>3. \A a \in Nat : Remembered(a) \in Byte
  BY MapsProperties, ZeroByteIsByte DEF Remembered
<1> DEFINE o == [i \in 1 .. r.size |-> Remembered(SystemAddress(r, i - 1))]
<1>4. o \in [1 .. r.size -> Byte]
  BY <1>2, <1>3
<1> HIDE DEF o
<1>5. o \in Bytes(r.size)
  BY <1>1, <1>4, BytesMade
<1>6. o \in Seq(Byte)
  BY <1>1, <1>5, BytesAre
<1> QED BY <1>5, <1>6, EmptySeq DEF Owed, o

\* A transaction that is localized and sent to its channel stays inside the
\* organization.
LEMMA RoutedTyped ==
  ASSUME Legal(setup), memory \in Maps(Nat, Byte), NEW r \in Incoming(setup), Routable(r),
         cursor \in [Stacks -> Nat]
  PROVE  LET k == TargetStack(r)
             q == Localized([r EXCEPT !.owed = Owed(r)], k)
             p == ToChannel(q, k, TargetChannel(q, k))
         IN /\ p \in Parts(setup) /\ p.stack = k
<1> DEFINE k == TargetStack(r)
           o == [r EXCEPT !.owed = Owed(r)]
           q == Localized(o, k)
           ch == TargetChannel(q, k)
           p == ToChannel(q, k, ch)
<1>1. k \in Stacks /\ k \in Nat /\ k < setup.map.stacks
  <2>1. setup.map.stacks \in Nat \ {0} /\ k \in Stacks /\ k \in Nat
    BY TargetTyped, ControllersTyped
  <2> HIDE DEF k
  <2> QED BY <2>1 DEF Stacks
<1>2. r \in Parts(setup)
  BY DEF Incoming
<1>3. \A b \in Seq(Byte) : [r EXCEPT !.owed = b] \in Parts(setup)
  BY <1>2 DEF Parts, PartRecords, PartSound
<1>4. o \in Parts(setup)
  BY <1>2, <1>3, OwedTyped
<1> HIDE DEF o, k
<1>5. o \in PartRecords(setup) /\ PartSound(setup, o)
  BY <1>4 DEF Parts
<1>6. q \in Parts(setup)
  <2>1. CASE o.type = "control"
    BY <1>4, <2>1 DEF Localized
  <2>2. CASE o.type # "control"
    <3> DEFINE local == IF o.explicit THEN o.address
                        ELSE StackDecode(setup.map, o.address).local
               at == IF setup.map.stacks > 1 THEN Decode(setup.org, local) ELSE o.at
               sys == SystemAddress(o, 0)
    <3>1. local \in Nat
      BY <1>5, LegalParts, LocalNat DEF PartRecords
    <3>2. at \in Places(setup.org)
      BY <1>5, <3>1, LegalParts, DecodePlaces DEF PartRecords
    <3>3. sys \in Nat
      BY <1>5, AddressesNat DEF PartRecords, PartSound
    <3>4. q = [o EXCEPT !.address = local, !.at = at, !.system = sys]
      BY <2>2 DEF Localized
    <3> HIDE DEF local, at, sys, q
    <3>5. \A x \in Nat : \A y \in Places(setup.org) : \A z \in Nat :
            [o EXCEPT !.address = x, !.at = y, !.system = z] \in Parts(setup)
      BY <1>5, <2>2 DEF Parts, PartRecords, PartSound
    <3> QED BY <3>1, <3>2, <3>3, <3>4, <3>5
  <2> QED BY <2>1, <2>2
<1> HIDE DEF q
<1>7. q \in PartRecords(setup) /\ PartSound(setup, q) /\ q.at \in Places(setup.org)
      /\ q.address \in Nat
  BY <1>6 DEF Parts, PartRecords
<1>8. Channels \in Nat \ {0} /\ Channels = setup.org.size["channel"]
  BY ControllersTyped DEF Channels
<1>9. ch \in Nat /\ ch < Channels
  <2>1. CASE q.type = "control" \/ setup.mapper = "decoded"
    <3>1. ch = q.at["channel"]
      BY <2>1 DEF TargetChannel
    <3> QED BY <1>7, <1>8, <3>1, LegalParts, BankKeyTyped
  <2>2. CASE ~(q.type = "control" \/ setup.mapper = "decoded") /\ setup.mapper = "round_robin"
    <3>1. ch = cursor[k] % Channels
      BY <2>2 DEF TargetChannel
    <3>2. cursor[k] \in Nat
      BY <1>1
    <3>3. cursor[k] % Channels \in 0 .. Channels - 1
      BY <1>8, <3>2, Division
    <3> QED BY <1>8, <3>1, <3>3
  <2>3. CASE ~(q.type = "control" \/ setup.mapper = "decoded") /\ setup.mapper = "xor"
    <3> DEFINE line == q.address \div setup.org.transaction
               x == Xor[<<Xor[<<line, line \div 64>>], line \div 4096>>]
    <3>1. line \in Nat
      BY <1>7, LegalParts, Division
    <3>2. line \div 64 \in Nat /\ line \div 4096 \in Nat
      <4> HIDE DEF line
      <4> QED BY <3>1, Division
    <3>3. x \in Nat
      <4> HIDE DEF line
      <4> QED BY <3>1, <3>2, XorNat
    <3>4. ch = x % Channels
      BY <2>3 DEF TargetChannel
    <3> HIDE DEF x, ch
    <3>5. x % Channels \in 0 .. Channels - 1
      BY <1>8, <3>3, Division
    <3> QED BY <1>8, <3>4, <3>5
  <2>4. setup.mapper \in {"decoded", "round_robin", "xor"}
    BY DEF Legal, Options
  <2> QED BY <2>1, <2>2, <2>3, <2>4
<1> HIDE DEF ch
<1>10. p \in Parts(setup) /\ p.stack = k
  <2> DEFINE at == [q.at EXCEPT !["channel"] = ch]
  <2>1. at \in Places(setup.org)
    <3>1. \A f \in Fields : at[f] = IF f = "channel" THEN ch ELSE q.at[f]
      BY <1>7 DEF Places
    <3>2. at \in [Fields -> Nat]
      BY <1>7, <1>9 DEF Places
    <3> HIDE DEF at
    <3> QED BY <1>7, <1>8, <1>9, <3>1, <3>2 DEF Places
  <2>2. p = [q EXCEPT !.at = at, !.stack = k]
    BY <1>7 DEF ToChannel, PartRecords
  <2> HIDE DEF at, p
  <2>3. k \in StackIds
    BY <1>1 DEF StackIds
  <2>4. \A y \in Places(setup.org) : LET z == [q EXCEPT !.at = y, !.stack = k]
          IN z \in Parts(setup) /\ z.stack = k
    BY <1>1, <1>7, <2>3 DEF Parts, PartRecords, PartSound
  <2> QED BY <2>1, <2>2, <2>4
<1> QED BY <1>10 DEF p, ch, q, o, k

\* RemoveAt() closes the gap, Append() adds at the end, Tail() drops the head.
LEMMA Removes ==
  ASSUME NEW S, NEW s \in Seq(S), NEW i \in DOMAIN s
  PROVE  /\ RemoveAt(s, i) \in Seq(S)
         /\ \A j \in DOMAIN RemoveAt(s, i) :
              \E m \in DOMAIN s : RemoveAt(s, i)[j] = s[m]
<1> DEFINE p == SubSeq(s, 1, i - 1)
           q == SubSeq(s, i + 1, Len(s))
<1>1. Len(s) \in Nat /\ DOMAIN s = 1 .. Len(s)
  BY LenProperties
<1>2. /\ p \in Seq(S) /\ Len(p) = i - 1 /\ \A j \in 1 .. i - 1 : p[j] = s[j]
  BY <1>1
<1>3. /\ q \in Seq(S) /\ Len(q) = Len(s) - i
      /\ \A j \in 1 .. Len(s) - i : q[j] = s[i + j]
  BY <1>1
<1> HIDE DEF p, q
<1>4. p \o q \in Seq(S) /\ Len(p \o q) = Len(s) - 1
      /\ \A j \in 1 .. Len(s) - 1 : (p \o q)[j] = IF j < i THEN p[j] ELSE q[j - (i - 1)]
  <2>1. /\ p \o q \in Seq(S) /\ Len(p \o q) = Len(p) + Len(q)
        /\ \A j \in 1 .. Len(p) + Len(q) :
             (p \o q)[j] = IF j <= Len(p) THEN p[j] ELSE q[j - Len(p)]
    BY <1>2, <1>3, ConcatProperties
  <2>2. i \in Nat /\ Len(p) + Len(q) = Len(s) - 1
        /\ \A j \in 1 .. Len(s) - 1 : j <= Len(p) <=> j < i
    BY <1>1, <1>2, <1>3
  <2> QED BY <1>2, <2>1, <2>2
<1>5. DOMAIN (p \o q) = 1 .. Len(s) - 1
  BY <1>4, LenProperties
<1>6. ASSUME NEW j \in 1 .. Len(s) - 1
      PROVE  \E m \in DOMAIN s : (p \o q)[j] = s[m]
  <2>1. CASE j < i
    <3>1. j \in 1 .. i - 1 /\ j \in 1 .. Len(s)
      BY <1>1, <2>1
    <3> QED BY <1>1, <1>2, <1>4, <2>1, <3>1
  <2>2. CASE ~(j < i)
    <3>1. j - (i - 1) \in 1 .. Len(s) - i /\ i + (j - (i - 1)) = j + 1 /\ j + 1 \in 1 .. Len(s)
      BY <1>1, <2>2
    <3> QED BY <1>1, <1>3, <1>4, <2>2, <3>1
  <2> QED BY <2>1, <2>2
<1> QED BY <1>4, <1>5, <1>6 DEF RemoveAt, p, q

\* What Append adds.
LEMMA Appends ==
  ASSUME NEW S, NEW s \in Seq(S), NEW e \in S
  PROVE  /\ Append(s, e) \in Seq(S)
         /\ \A j \in DOMAIN Append(s, e) :
              (j \in DOMAIN s /\ Append(s, e)[j] = s[j]) \/ Append(s, e)[j] = e
<1>1. Len(s) \in Nat /\ DOMAIN s = 1 .. Len(s)
  BY LenProperties
<1>2. /\ Append(s, e) \in Seq(S) /\ Len(Append(s, e)) = Len(s) + 1
      /\ \A i \in 1 .. Len(s) : Append(s, e)[i] = s[i]
      /\ Append(s, e)[Len(s) + 1] = e
  BY AppendProperties
<1>3. DOMAIN Append(s, e) = 1 .. Len(s) + 1
  BY <1>2, LenProperties
<1> QED BY <1>1, <1>2, <1>3

\* What Tail leaves.
LEMMA Tails ==
  ASSUME NEW S, NEW s \in Seq(S), s # <<>>
  PROVE  /\ Head(s) \in S /\ 1 \in DOMAIN s /\ Head(s) = s[1] /\ Tail(s) \in Seq(S)
         /\ \A j \in DOMAIN Tail(s) : j + 1 \in DOMAIN s /\ Tail(s)[j] = s[j + 1]
<1>1. Len(s) \in Nat \ {0} /\ DOMAIN s = 1 .. Len(s)
  BY EmptySeq, LenProperties
<1>2. /\ Head(s) \in S /\ Tail(s) \in Seq(S) /\ Len(Tail(s)) = Len(s) - 1
      /\ \A i \in 1 .. Len(Tail(s)) : Tail(s)[i] = s[i + 1]
  BY HeadTailProperties
<1>3. DOMAIN Tail(s) = 1 .. Len(s) - 1
  BY <1>2, LenProperties
<1>4. Head(s) = s[1]
  OBVIOUS
<1> QED BY <1>1, <1>2, <1>3, <1>4

-----------------------------------------------------------------------------
(* The steps of the frontend keep the types *)

\* Taking a request from the source keeps the types.
LEMMA FetchTyped == FrontendTyped /\ Fetch => FrontendTyped'
<1> SUFFICES ASSUME FrontendTyped, Fetch
             PROVE  FrontendTyped'
  OBVIOUS
<1>1. setup \in Setups /\ Legal(setup) /\ stream \in Streams(setup) /\ setup' = setup
  BY SetupsAreLegal DEF FrontendTyped, SourceTyped, Fetch
<1>2. PICK x \in StreamNext(setup, stream) :
        /\ stream' = x.next
        /\ lastCycle' = x.part.cycle
        /\ memory' = IF x.hosts = {} THEN memory
                     ELSE MemoryAfter(CHOOSE h \in x.hosts : TRUE)
        /\ held' = {x.part}
        /\ status' = IF x.next.failed \/ x.part.cycle < lastCycle THEN "threw" ELSE status
  BY DEF Fetch
<1>3. /\ x.part \in Incoming(setup) /\ x.next \in Streams(setup)
      /\ FromPending(setup, stream, x) \/ FromSource(setup, stream, x)
  BY <1>1, StreamTyped
<1>4. memory' \in Maps(Nat, Byte)
  <2>1. memory \in Maps(Nat, Byte)
    BY DEF FrontendTyped, StoresTyped
  <2>2. CASE x.hosts = {}
    BY <1>2, <2>1, <2>2
  <2>3. CASE x.hosts # {}
    <3>1. PICK y \in HostNext(setup, stream) :
            Advances(setup, stream, y) /\ x.hosts = {y.host}
      BY <1>3, <2>3 DEF FromPending, FromSource
    <3>2. y.host \in Hosts(setup)
      BY <3>1 DEF Advances, Taken
    <3>3. (CHOOSE h \in x.hosts : TRUE) = y.host
      BY <3>1
    <3>4. MemoryAfter(y.host) \in Maps(Nat, Byte)
      BY <1>1, <2>1, <3>2, MemoryTyped
    <3> QED BY <1>2, <2>3, <3>3, <3>4
  <2> QED BY <2>2, <2>3
<1>5. x.part.cycle \in Nat
  BY <1>3 DEF Incoming, Parts, PartRecords
<1>6. SourceTyped'
  <2>1. held' \in SUBSET Incoming(setup) /\ \A r \in held' : \A q \in held' : r = q
    BY <1>2, <1>3
  <2>2. status' \in {"running", "finished", "threw"} /\ lastCycle' \in Nat /\ stream' \in Streams(setup)
    BY <1>2, <1>3, <1>5 DEF FrontendTyped, SourceTyped
  <2> QED BY <1>1, <2>1, <2>2 DEF FrontendTyped, SourceTyped, Fetch
<1>7. QueuesTyped'
  BY <1>1 DEF FrontendTyped, QueuesTyped, Fetch, Stacks, Controllers, Channels, StackOf, ChannelOf
<1>8. StoresTyped'
  BY <1>1, <1>4 DEF FrontendTyped, StoresTyped, Fetch, Stacks
<1>9. LogTyped'
  BY <1>1 DEF FrontendTyped, LogTyped, Fetch, Controllers, Channels
<1> QED BY <1>6, <1>7, <1>8, <1>9 DEF FrontendTyped

\* So do the end of the source and the end of the run.
LEMMA SourceEndsTyped == FrontendTyped /\ (SourceEnds \/ Finish) => FrontendTyped'
<1> SUFFICES ASSUME FrontendTyped, SourceEnds \/ Finish
             PROVE  FrontendTyped'
  OBVIOUS
<1>1. /\ setup' = setup /\ stream' = stream /\ held' = held /\ lastCycle' = lastCycle
      /\ clk' = clk /\ phase' = phase /\ idle' = idle /\ ingress' = ingress
      /\ queues' = queues /\ cursor' = cursor /\ maintenance' = maintenance
      /\ store' = store /\ memory' = memory /\ log' = log
  BY DEF SourceEnds, Finish
<1>2. sourceDone' \in BOOLEAN /\ status' \in {"running", "finished", "threw"}
  BY DEF SourceEnds, Finish, FrontendTyped, SourceTyped
<1>3. SourceTyped'
  BY <1>1, <1>2 DEF FrontendTyped, SourceTyped
<1>4. QueuesTyped'
  BY <1>1 DEF FrontendTyped, QueuesTyped, Stacks, Controllers, Channels, StackOf, ChannelOf
<1>5. StoresTyped'
  BY <1>1 DEF FrontendTyped, StoresTyped, Stacks
<1>6. LogTyped'
  BY <1>1 DEF FrontendTyped, LogTyped, Controllers, Channels
<1> QED BY <1>3, <1>4, <1>5, <1>6 DEF FrontendTyped

\* So does enqueue(), with the routing before it.
LEMMA EnqueueTyped == FrontendTyped /\ Enqueue => FrontendTyped'
<1> SUFFICES ASSUME FrontendTyped, Enqueue
             PROVE  FrontendTyped'
  OBVIOUS
<1>1. /\ setup \in Setups /\ Legal(setup) /\ held \in SUBSET Incoming(setup)
      /\ cursor \in [Stacks -> Nat] /\ memory \in Maps(Nat, Byte)
      /\ ingress \in [Stacks -> Seq(Parts(setup))]
      /\ \A k \in Stacks : \A i \in DOMAIN ingress[k] : ingress[k][i].stack = k
  BY SetupsAreLegal DEF FrontendTyped, SourceTyped, QueuesTyped, StoresTyped
<1>2. /\ setup' = setup /\ stream' = stream /\ sourceDone' = sourceDone
      /\ lastCycle' = lastCycle /\ clk' = clk /\ phase' = phase /\ idle' = idle
      /\ queues' = queues /\ store' = store /\ log' = log /\ memory' = memory
      /\ maintenance' = maintenance
  BY DEF Enqueue
<1>3. /\ held' \in SUBSET Incoming(setup) /\ \A r \in held' : \A q \in held' : r = q
      /\ status' \in {"running", "finished", "threw"}
  BY DEF Enqueue, FrontendTyped, SourceTyped
<1>4. /\ ingress' \in [Stacks -> Seq(Parts(setup))] /\ cursor' \in [Stacks -> Nat]
      /\ \A k \in Stacks : \A i \in DOMAIN ingress'[k] : ingress'[k][i].stack = k
  <2>1. CASE ingress' = ingress /\ cursor' = cursor
    BY <1>1, <2>1
  <2>2. CASE ~(ingress' = ingress /\ cursor' = cursor)
    <3>1. PICK r \in Due : Routable(r) /\
            \E stack \in {TargetStack(r)} :
              \E routed \in {Localized([r EXCEPT !.owed = Owed(r)], stack)} :
                /\ ingress' = [ingress EXCEPT ![stack] =
                     Append(ingress[stack], ToChannel(routed, stack, TargetChannel(routed, stack)))]
                /\ cursor' = IF setup.mapper = "round_robin" /\ Channels > 1
                                /\ r.type # "control"
                             THEN [cursor EXCEPT ![stack] = cursor[stack] + 1] ELSE cursor
      BY <2>2 DEF Enqueue
    <3> DEFINE k == TargetStack(r)
               q == Localized([r EXCEPT !.owed = Owed(r)], k)
               p == ToChannel(q, k, TargetChannel(q, k))
    <3>2. r \in Incoming(setup)
      BY <1>1 DEF Due
    <3>3. k \in Stacks
      BY <1>1, <3>1, <3>2, TargetTyped
    <3>4. p \in Parts(setup) /\ p.stack = k
      BY <1>1, <3>1, <3>2, RoutedTyped
    <3>5. /\ ingress' = [ingress EXCEPT ![k] = Append(ingress[k], p)]
          /\ cursor' = cursor \/ cursor' = [cursor EXCEPT ![k] = cursor[k] + 1]
      BY <3>1
    <3> HIDE DEF k, p, q
    <3>6. cursor' \in [Stacks -> Nat]
      BY <1>1, <3>3, <3>5
    <3> DEFINE a == Append(ingress[k], p)
    <3>7. /\ a \in Seq(Parts(setup))
          /\ \A j \in DOMAIN a : (j \in DOMAIN ingress[k] /\ a[j] = ingress[k][j]) \/ a[j] = p
      BY <1>1, <3>3, <3>4, Appends
    <3> HIDE DEF a
    <3>8. ingress' = [ingress EXCEPT ![k] = a]
      BY <3>5 DEF a
    <3>9. ingress' \in [Stacks -> Seq(Parts(setup))]
          /\ \A m \in Stacks : ingress'[m] = IF m = k THEN a ELSE ingress[m]
      BY <1>1, <3>3, <3>7, <3>8
    <3>10. ASSUME NEW m \in Stacks, NEW i \in DOMAIN ingress'[m]
           PROVE  ingress'[m][i].stack = m
      <4>1. CASE m = k
        BY <1>1, <3>4, <3>7, <3>9, <4>1
      <4>2. CASE m # k
        BY <1>1, <3>9, <4>2
      <4> QED BY <4>1, <4>2
    <3> QED BY <3>6, <3>9, <3>10
  <2> QED BY <2>1, <2>2
<1>5. SourceTyped'
  BY <1>2, <1>3 DEF FrontendTyped, SourceTyped
<1>6. QueuesTyped'
  BY <1>2, <1>4 DEF FrontendTyped, QueuesTyped, Stacks, Controllers, Channels, StackOf, ChannelOf
<1>7. StoresTyped'
  BY <1>2 DEF FrontendTyped, StoresTyped, Stacks
<1>8. LogTyped'
  BY <1>2 DEF FrontendTyped, LogTyped, Controllers, Channels
<1> QED BY <1>5, <1>6, <1>7, <1>8 DEF FrontendTyped

\* So does the start of a cycle.
LEMMA StepBeginsTyped == FrontendTyped /\ StepBegins => FrontendTyped'
<1> SUFFICES ASSUME FrontendTyped, StepBegins
             PROVE  FrontendTyped'
  OBVIOUS
<1>1. /\ Legal(setup)
      /\ ingress \in [Stacks -> Seq(Parts(setup))]
      /\ \A k \in Stacks : \A i \in DOMAIN ingress[k] : ingress[k][i].stack = k
      /\ queues \in [Controllers -> Seq(Parts(setup))]
      /\ \A c \in Controllers : \A i \in DOMAIN queues[c] :
           queues[c][i].stack = StackOf(c) /\ queues[c][i].at["channel"] = ChannelOf(c)
  BY SetupsAreLegal DEF FrontendTyped, SourceTyped, QueuesTyped
<1>2. /\ setup' = setup /\ stream' = stream /\ sourceDone' = sourceDone /\ held' = held
      /\ lastCycle' = lastCycle /\ clk' = clk /\ phase' = 1 /\ idle' = idle
      /\ status' = status /\ store' = store /\ log' = log /\ memory' = memory
      /\ maintenance' = maintenance /\ cursor' = cursor
  BY DEF StepBegins
<1> DEFINE Takes1(c) == ingress[StackOf(c)] # <<>>
                        /\ Head(ingress[StackOf(c)]).at["channel"] = ChannelOf(c)
           Q(c) == IF Takes1(c) THEN Append(queues[c], Head(ingress[StackOf(c)])) ELSE queues[c]
           I(k) == IF ingress[k] = <<>> THEN <<>> ELSE Tail(ingress[k])
<1>3. queues' = [c \in Controllers |-> Q(c)] /\ ingress' = [k \in Stacks |-> I(k)]
  BY DEF StepBegins
<1>4. ASSUME NEW c \in Controllers
      PROVE  /\ Q(c) \in Seq(Parts(setup))
             /\ \A i \in DOMAIN Q(c) :
                  Q(c)[i].stack = StackOf(c) /\ Q(c)[i].at["channel"] = ChannelOf(c)
  <2>1. CASE Takes1(c)
    <3> DEFINE k == StackOf(c)
               h == Head(ingress[k])
    <3>1. k \in Stacks
      BY <1>1, ControllersTyped
    <3>2. ingress[k] \in Seq(Parts(setup)) /\ ingress[k] # <<>>
      BY <1>1, <2>1, <3>1
    <3>3. h \in Parts(setup) /\ h.stack = k /\ h.at["channel"] = ChannelOf(c)
      BY <1>1, <2>1, <3>1, <3>2, Tails
    <3> HIDE DEF h
    <3>4. queues[c] \in Seq(Parts(setup))
      BY <1>1
    <3>5. /\ Append(queues[c], h) \in Seq(Parts(setup))
          /\ \A j \in DOMAIN Append(queues[c], h) :
               \/ j \in DOMAIN queues[c] /\ Append(queues[c], h)[j] = queues[c][j]
               \/ Append(queues[c], h)[j] = h
      BY <3>3, <3>4, Appends
    <3>6. Q(c) = Append(queues[c], h)
      BY <2>1 DEF h
    <3> QED BY <1>1, <3>3, <3>5, <3>6
  <2>2. CASE ~Takes1(c)
    BY <1>1, <2>2
  <2> QED BY <2>1, <2>2
<1>5. ASSUME NEW k \in Stacks
      PROVE  I(k) \in Seq(Parts(setup)) /\ \A i \in DOMAIN I(k) : I(k)[i].stack = k
  <2>1. CASE ingress[k] = <<>>
    BY <2>1, EmptySeq
  <2>2. CASE ingress[k] # <<>>
    <3>1. ingress[k] \in Seq(Parts(setup))
      BY <1>1
    <3> QED BY <1>1, <2>2, <3>1, Tails
  <2> QED BY <2>1, <2>2
<1> HIDE DEF Q, I
<1>6. QueuesTyped'
  <2>1. Stacks' = Stacks /\ Controllers' = Controllers
        /\ \A c : StackOf(c)' = StackOf(c) /\ ChannelOf(c)' = ChannelOf(c)
    BY <1>2 DEF Stacks, Controllers, Channels, StackOf, ChannelOf
  <2>2. ingress' \in [Stacks -> Seq(Parts(setup))] /\ queues' \in [Controllers -> Seq(Parts(setup))]
    BY <1>3, <1>4, <1>5
  <2>3. \A k \in Stacks : \A i \in DOMAIN ingress'[k] : ingress'[k][i].stack = k
    BY <1>3, <1>5
  <2>4. \A c \in Controllers : \A i \in DOMAIN queues'[c] :
          queues'[c][i].stack = StackOf(c) /\ queues'[c][i].at["channel"] = ChannelOf(c)
    BY <1>3, <1>4
  <2> QED BY <1>2, <2>1, <2>2, <2>3, <2>4 DEF FrontendTyped, QueuesTyped
<1>7. SourceTyped'
  BY <1>2 DEF FrontendTyped, SourceTyped
<1>8. StoresTyped'
  BY <1>2 DEF FrontendTyped, StoresTyped, Stacks
<1>9. LogTyped'
  BY <1>2 DEF FrontendTyped, LogTyped, Controllers, Channels
<1> QED BY <1>6, <1>7, <1>8, <1>9 DEF FrontendTyped

-----------------------------------------------------------------------------
(* What a turn of a controller changes *)

\* The coordinates in a command of a controller.
Placed(at) == [at EXCEPT !["channel"] = 0]

\* A command is issued, and the storage of the stack becomes st.
Issues(c, e, st) ==
  /\ e \in Entries(setup) /\ e.cycle = clk /\ log' = [log EXCEPT ![c] = Append(log[c], e)]
  /\ st \in Stored(setup) /\ IsFiniteSet(DOMAIN st.rows)
  /\ store' = [store EXCEPT ![StackOf(c)] = st]
Serves(c, i) ==
  i \in DOMAIN queues[c] /\ queues' = [queues EXCEPT ![c] = RemoveAt(queues[c], i)]

\* The kinds of commands.
Moving(c, e, st) ==
  /\ e.cmd \in {"RD", "WR"} /\ KeepsRows(store[StackOf(c)], st)
  /\ \E at \in Places(setup.org) :
       at["channel"] = ChannelOf(c) /\ e.at = Placed(at) /\ RowOpen(store[StackOf(c)], at)
Controlling(c, e, st) ==
  e.cmd \in ControlNames \ {"PREAB", "PREPB"} /\ st = store[StackOf(c)]
Opening(c, e, st) ==
  /\ e.cmd = "ACT"
  /\ \E at \in Places(setup.org) : \E row \in OpenRows(setup) :
       /\ at["channel"] = ChannelOf(c) /\ e.at = Placed(at)
       /\ BankKey(at) \notin RowsOf(c) /\ row.row = at["row"]
       /\ st.rows = With(store[StackOf(c)].rows, BankKey(at), row)
Closing(c, e, st) ==
  /\ e.cmd \in {"PREAB", "PREPB"}
  /\ \E at \in Places(setup.org) :
       /\ at["channel"] = ChannelOf(c) /\ e.at = Placed(at)
       /\ DOMAIN st.rows = DOMAIN store[StackOf(c)].rows \ RowsClosed(c, e.cmd, at)
       /\ \A j \in DOMAIN st.rows : st.rows[j] = store[StackOf(c)].rows[j]

Acts(c, e, st) ==
  /\ Issues(c, e, st)
  /\ Moving(c, e, st) \/ Controlling(c, e, st) \/ Opening(c, e, st) \/ Closing(c, e, st)

Effect(c) ==
  /\ (log' = log /\ store' = store) \/ \E e : \E st : Acts(c, e, st)
  /\ queues' = queues \/ \E i : Serves(c, i)
  /\ maintenance' = maintenance \/ maintenance' = [maintenance EXCEPT ![c] = maintenance[c] + 1]
  /\ idle' = idle \/ idle' = idle + 1

\* The place a controller sees has channel 0 and the other fields.
LEMMA PlacedTyped ==
  ASSUME NEW org \in Organizations, NEW at \in Places(org)
  PROVE  /\ Placed(at) \in Places(org)
         /\ Placed(at)["channel"] = 0
         /\ \A f \in Fields : f # "channel" => Placed(at)[f] = at[f]
<1>1. at \in [Fields -> Nat] /\ \A f \in Fields : at[f] < org.size[f]
  BY DEF Places
<1>2. /\ DOMAIN Placed(at) = Fields /\ "channel" \in Fields
      /\ \A f \in Fields : Placed(at)[f] = IF f = "channel" THEN 0 ELSE at[f]
  BY <1>1 DEF Placed, Fields
<1>3. \A f \in Fields : org.size[f] \in Nat \ {0}
  BY DEF Organizations
<1>4. Placed(at) = [f \in Fields |-> Placed(at)[f]]
  BY <1>1 DEF Placed
<1> HIDE DEF Placed
<1>5. Placed(at) \in [Fields -> Nat] /\ \A f \in Fields : Placed(at)[f] < org.size[f]
  BY <1>1, <1>2, <1>3, <1>4
<1> QED BY <1>2, <1>5 DEF Places

\* An entry of the command history is typed.
LEMMA EntryTyped ==
  ASSUME Legal(setup), clk \in Nat, NEW c, NEW r, r.at \in Places(setup.org), r.address \in Nat,
         r.system \in Nat, r.expected \in Seq(Byte), r.owed \in Seq(Byte),
         NEW cmd \in Commands, NEW id \in Nat, NEW payload \in Seq(Byte)
  PROVE  /\ Entry(c, r, cmd, id, payload) \in Entries(setup)
         /\ Entry(c, r, cmd, id, payload).cycle = clk
         /\ Entry(c, r, cmd, id, payload).cmd = cmd
         /\ Entry(c, r, cmd, id, payload).at = Placed(r.at)
<1>1. Placed(r.at) \in Places(setup.org)
  BY LegalParts, PlacedTyped
<1>2. (IF cmd \in {"RD", "WR"} THEN clk + setup.dfi.latency ELSE 0) \in Nat
  <2>1. setup.dfi.latency \in Nat
    <3>1. setup.dfi \in [phases : Nat \ {0}, beatBytes : Nat \ {0}, tick : Nat \ {0},
                         latency : Nat]
      BY DEF Legal, Options
    <3> QED BY <3>1
  <2> QED BY <2>1
<1> QED BY <1>1, <1>2 DEF Entry, Entries, Placed

\* The types of a queued transaction.
LEMMA QueuedParts ==
  ASSUME FrontendTyped, NEW c \in Controllers, NEW i \in DOMAIN queues[c]
  PROVE  LET r == queues[c][i]
         IN /\ r \in Parts(setup) /\ r.at \in Places(setup.org) /\ r.address \in Nat
            /\ r.system \in Nat /\ r.expected \in Seq(Byte) /\ r.owed \in Seq(Byte)
            /\ r.payload \in Seq(Byte) /\ r.id \in Nat /\ r.at["channel"] = ChannelOf(c)
            /\ r.type = "control" => r.cmd \in ControlNames
<1>1. queues[c] \in Seq(Parts(setup)) /\ queues[c][i].at["channel"] = ChannelOf(c)
  BY DEF FrontendTyped, QueuesTyped
<1>2. queues[c][i] \in Parts(setup)
  BY <1>1, LenProperties
<1> QED BY <1>1, <1>2 DEF Parts, PartRecords, PartSound

\* The types of a controller's storage.
LEMMA StoreOf ==
  ASSUME FrontendTyped, NEW c \in Controllers
  PROVE  LET st == store[StackOf(c)]
         IN /\ Legal(setup) /\ StackOf(c) \in Stacks /\ st \in Stored(setup)
            /\ IsFiniteSet(DOMAIN st.rows) /\ clk \in Nat /\ setup.org \in Organizations
            /\ st.rows \in Maps(Places(setup.org), OpenRows(setup))
            /\ st.lines \in LineMaps(setup)
            /\ DOMAIN st.rows \subseteq Places(setup.org)
<1>1. Legal(setup)
  BY SetupsAreLegal DEF FrontendTyped, SourceTyped
<1>2. StackOf(c) \in Stacks /\ setup.org \in Organizations
  BY <1>1, ControllersTyped, LegalParts
<1>3. store[StackOf(c)] \in Stored(setup) /\ IsFiniteSet(DOMAIN store[StackOf(c)].rows)
      /\ clk \in Nat
  BY <1>2 DEF FrontendTyped, StoresTyped, SourceTyped
<1>4. store[StackOf(c)].rows \in Maps(Places(setup.org), OpenRows(setup))
      /\ store[StackOf(c)].lines \in LineMaps(setup)
  BY <1>3 DEF Stored, LineMaps
<1> QED BY <1>1, <1>2, <1>3, <1>4, MapsProperties

\* A column read has the effect of one command.
LEMMA ReadEffect ==
  ASSUME FrontendTyped, NEW c \in Controllers, ReadColumn(c)
  PROVE  Effect(c)
<1>1. PICK i \in ReadyColumns(c) : \E r \in {queues[c][i]} :
        /\ r.type = "read"
        /\ \E got \in {FoldLeft(ReadPiece, [st |-> store[StackOf(c)], bytes |-> <<>>],
                                Pieces(r))} :
             /\ store' = [store EXCEPT ![StackOf(c)] = got.st]
             /\ log' = [log EXCEPT ![c] =
                          Append(log[c], Entry(c, r, "RD", r.id, got.bytes))]
        /\ queues' = [queues EXCEPT ![c] = RemoveAt(queues[c], i)]
        /\ UNCHANGED <<maintenance, idle>>
  BY DEF ReadColumn
<1> DEFINE r == queues[c][i]
           old == store[StackOf(c)]
           got == FoldLeft(ReadPiece, [st |-> old, bytes |-> <<>>], Pieces(r))
           e == Entry(c, r, "RD", r.id, got.bytes)
<1>2. i \in DOMAIN queues[c] /\ RowOpen(old, r.at)
  BY DEF ReadyColumns, Unordered
<1>3. /\ r.type = "read" /\ store' = [store EXCEPT ![StackOf(c)] = got.st]
      /\ log' = [log EXCEPT ![c] = Append(log[c], e)]
      /\ queues' = [queues EXCEPT ![c] = RemoveAt(queues[c], i)]
      /\ maintenance' = maintenance /\ idle' = idle
  BY <1>1
<1>4. /\ r \in Parts(setup) /\ r.at \in Places(setup.org) /\ r.address \in Nat
      /\ r.system \in Nat /\ r.expected \in Seq(Byte) /\ r.owed \in Seq(Byte)
      /\ r.id \in Nat /\ r.at["channel"] = ChannelOf(c)
  BY <1>2, QueuedParts
<1>5. Legal(setup) /\ old \in Stored(setup) /\ IsFiniteSet(DOMAIN old.rows) /\ clk \in Nat
  BY StoreOf
<1> HIDE DEF r, old
<1>6. got \in Reading /\ KeepsRows(old, got.st)
  BY <1>3, <1>4, <1>5, ReadKeepsRows
<1> HIDE DEF got
<1>7. got.st \in Stored(setup) /\ got.bytes \in Seq(Byte) /\ IsFiniteSet(DOMAIN got.st.rows)
  BY <1>5, <1>6 DEF Reading, KeepsRows
<1>8. e \in Entries(setup) /\ e.cycle = clk /\ e.cmd = "RD" /\ e.at = Placed(r.at)
  BY <1>4, <1>5, <1>7, EntryTyped DEF Commands
<1> HIDE DEF e
<1>9. Issues(c, e, got.st)
  BY <1>3, <1>7, <1>8 DEF Issues
<1>10. Moving(c, e, got.st)
  BY <1>2, <1>4, <1>6, <1>8 DEF Moving, old
<1>11. Serves(c, i)
  BY <1>2, <1>3 DEF Serves
<1> QED BY <1>3, <1>9, <1>10, <1>11 DEF Acts, Effect

\* So has a column write.
LEMMA WriteEffect ==
  ASSUME FrontendTyped, NEW c \in Controllers, WriteColumn(c)
  PROVE  Effect(c)
<1> DEFINE old == store[StackOf(c)]
           New(r) == FoldLeft(LAMBDA st, p : WritePiece(st, r, p), old, Pieces(r))
<1>0. \E i \in ReadyColumns(c) : \E r \in {queues[c][i]} :
        /\ r.type = "write"
        /\ store' = [store EXCEPT ![StackOf(c)] = New(r)]
        /\ log' = [log EXCEPT ![c] = Append(log[c], Entry(c, r, "WR", r.id, r.payload))]
        /\ queues' = [queues EXCEPT ![c] = RemoveAt(queues[c], i)]
        /\ UNCHANGED <<maintenance, idle>>
  BY Zenon DEF WriteColumn
<1>12. \A r \in Parts(setup) : Legal(setup) /\ old \in Stored(setup) /\ r.type = "write" =>
        New(r) \in Stored(setup) /\ KeepsRows(old, New(r))
  BY WriteKeepsRows
<1> HIDE DEF New
<1>1. PICK i \in ReadyColumns(c) : \E r \in {queues[c][i]} :
        /\ r.type = "write"
        /\ store' = [store EXCEPT ![StackOf(c)] = New(r)]
        /\ log' = [log EXCEPT ![c] = Append(log[c], Entry(c, r, "WR", r.id, r.payload))]
        /\ queues' = [queues EXCEPT ![c] = RemoveAt(queues[c], i)]
        /\ UNCHANGED <<maintenance, idle>>
  BY <1>0
<1> DEFINE r == queues[c][i]
           new == New(r)
           e == Entry(c, r, "WR", r.id, r.payload)
<1>2. i \in DOMAIN queues[c] /\ RowOpen(old, r.at)
  BY DEF ReadyColumns, Unordered
<1>3. /\ r.type = "write" /\ store' = [store EXCEPT ![StackOf(c)] = new]
      /\ log' = [log EXCEPT ![c] = Append(log[c], e)]
      /\ queues' = [queues EXCEPT ![c] = RemoveAt(queues[c], i)]
      /\ maintenance' = maintenance /\ idle' = idle
  BY <1>1
<1>4. /\ r \in Parts(setup) /\ r.at \in Places(setup.org) /\ r.address \in Nat
      /\ r.system \in Nat /\ r.expected \in Seq(Byte) /\ r.owed \in Seq(Byte)
      /\ r.id \in Nat /\ r.at["channel"] = ChannelOf(c) /\ r.payload \in Seq(Byte)
  BY <1>2, QueuedParts
<1>5. Legal(setup) /\ old \in Stored(setup) /\ IsFiniteSet(DOMAIN old.rows) /\ clk \in Nat
  BY StoreOf
<1> HIDE DEF r, old
<1>6. new \in Stored(setup) /\ KeepsRows(old, new)
  BY <1>3, <1>4, <1>5, <1>12
<1> HIDE DEF new
<1>7. IsFiniteSet(DOMAIN new.rows)
  BY <1>5, <1>6 DEF KeepsRows
<1>8. e \in Entries(setup) /\ e.cycle = clk /\ e.cmd = "WR" /\ e.at = Placed(r.at)
  BY <1>4, <1>5, EntryTyped DEF Commands
<1> HIDE DEF e
<1>9. Issues(c, e, new)
  BY <1>3, <1>6, <1>7, <1>8 DEF Issues
<1>10. Moving(c, e, new)
  BY <1>2, <1>4, <1>6, <1>8 DEF Moving, old
<1>11. Serves(c, i)
  BY <1>2, <1>3 DEF Serves
<1> QED BY <1>3, <1>9, <1>10, <1>11 DEF Acts, Effect

\* So has a control command.
LEMMA ControlEffect ==
  ASSUME FrontendTyped, NEW c \in Controllers, ControlCommand(c)
  PROVE  Effect(c)
<1>1. PICK i \in ReadyControls(c) : \E r \in {queues[c][i]} :
        /\ log' = [log EXCEPT ![c] = Append(log[c], Entry(c, r, r.cmd, r.id, <<>>))]
        /\ queues' = [queues EXCEPT ![c] = RemoveAt(queues[c], i)]
        /\ UNCHANGED <<store, maintenance, idle>>
  BY DEF ControlCommand
<1> DEFINE r == queues[c][i]
           old == store[StackOf(c)]
           e == Entry(c, r, r.cmd, r.id, <<>>)
<1>2. i \in DOMAIN queues[c] /\ r.type = "control" /\ r.cmd \notin {"PREAB", "PREPB"}
  BY DEF ReadyControls, HeadControls
<1>3. /\ store' = store /\ log' = [log EXCEPT ![c] = Append(log[c], e)]
      /\ queues' = [queues EXCEPT ![c] = RemoveAt(queues[c], i)]
      /\ maintenance' = maintenance /\ idle' = idle
  BY <1>1
<1>4. /\ r \in Parts(setup) /\ r.at \in Places(setup.org) /\ r.address \in Nat
      /\ r.system \in Nat /\ r.expected \in Seq(Byte) /\ r.owed \in Seq(Byte)
      /\ r.id \in Nat /\ r.cmd \in ControlNames \ {"PREAB", "PREPB"}
  BY <1>2, QueuedParts
<1>5. Legal(setup) /\ old \in Stored(setup) /\ IsFiniteSet(DOMAIN old.rows) /\ clk \in Nat
      /\ StackOf(c) \in Stacks
  BY StoreOf
<1>6. store' = [store EXCEPT ![StackOf(c)] = old]
  <2>1. DOMAIN store = Stacks /\ store = [k \in Stacks |-> store[k]]
    BY DEF FrontendTyped, StoresTyped
  <2> QED BY <1>3, <1>5, <2>1
<1> HIDE DEF r, old
<1>7. <<>> \in Seq(Byte) /\ r.cmd \in Commands
  BY <1>4, EmptySeq DEF Commands
<1>8. e \in Entries(setup) /\ e.cycle = clk /\ e.cmd = r.cmd
  <2>1. \A x \in Seq(Byte) : \A m \in Commands :
          LET y == Entry(c, r, m, r.id, x)
          IN y \in Entries(setup) /\ y.cycle = clk /\ y.cmd = m
    BY <1>4, <1>5, EntryTyped
  <2> QED BY <1>7, <2>1
<1> HIDE DEF e
<1>9. Issues(c, e, old)
  BY <1>3, <1>5, <1>6, <1>8 DEF Issues
<1>10. Controlling(c, e, old)
  BY <1>4, <1>8 DEF Controlling, old
<1>11. Serves(c, i)
  BY <1>2, <1>3 DEF Serves
<1> QED BY <1>3, <1>9, <1>10, <1>11 DEF Acts, Effect

\* So has an ACT, which opens a row.
LEMMA ActivateEffect ==
  ASSUME FrontendTyped, NEW c \in Controllers, Activate(c)
  PROVE  Effect(c)
<1> DEFINE old == store[StackOf(c)]
           Row(r) == [row |-> r.at["row"], dirty |-> FALSE, columns |-> [k \in {} |-> 0]]
<1>1. PICK i \in NeedsRow(c) : \E r \in {queues[c][i]} :
        /\ store' = [store EXCEPT ![StackOf(c)].rows =
                       With(old.rows, BankKey(r.at), Row(r))]
        /\ log' = [log EXCEPT ![c] = Append(log[c], Entry(c, r, "ACT", r.id, <<>>))]
        /\ UNCHANGED <<queues, maintenance, idle>>
  BY DEF Activate
<1> DEFINE r == queues[c][i]
           e == Entry(c, r, "ACT", r.id, <<>>)
           row == Row(r)
           b == BankKey(r.at)
           rows == With(old.rows, b, row)
           new == [old EXCEPT !.rows = rows]
<1>2. i \in DOMAIN queues[c] /\ b \notin RowsOf(c)
  BY DEF NeedsRow
<1>3. /\ store' = [store EXCEPT ![StackOf(c)].rows = rows]
      /\ log' = [log EXCEPT ![c] = Append(log[c], e)]
      /\ queues' = queues /\ maintenance' = maintenance /\ idle' = idle
  BY <1>1
<1>4. /\ r \in Parts(setup) /\ r.at \in Places(setup.org) /\ r.address \in Nat
      /\ r.system \in Nat /\ r.expected \in Seq(Byte) /\ r.owed \in Seq(Byte)
      /\ r.id \in Nat /\ r.at["channel"] = ChannelOf(c)
  BY <1>2, QueuedParts
<1>5. Legal(setup) /\ old \in Stored(setup) /\ IsFiniteSet(DOMAIN old.rows) /\ clk \in Nat
      /\ setup.org \in Organizations /\ old.rows \in Maps(Places(setup.org), OpenRows(setup))
  BY StoreOf
<1> HIDE DEF r
<1>6. row \in OpenRows(setup) /\ row.row = r.at["row"]
  <2>1. r.at["row"] \in Nat
    BY <1>4, <1>5, BankKeyTyped
  <2>2. [k \in {} |-> 0] \in [{} -> Blocks(setup)] /\ {} \in SUBSET Nat
    OBVIOUS
  <2>3. [k \in {} |-> 0] \in Maps(Nat, Blocks(setup))
    BY <2>2, MapsIntro
  <2> QED BY <2>1, <2>3 DEF OpenRows
<1> HIDE DEF row
<1>7. b \in Places(setup.org)
  BY <1>4, <1>5, BankKeyTyped
<1>8. store' = [store EXCEPT ![StackOf(c)] = new]
  BY <1>3
<1> HIDE DEF b, old
<1>9. rows \in Maps(Places(setup.org), OpenRows(setup)) /\ DOMAIN rows = DOMAIN old.rows \cup {b}
  <2>1. DOMAIN rows = DOMAIN old.rows \cup {b}
    BY DEF With
  <2>2. \A m \in Maps(Places(setup.org), OpenRows(setup)) :
          \A x \in Places(setup.org) : \A y \in OpenRows(setup) :
            With(m, x, y) \in Maps(Places(setup.org), OpenRows(setup))
    BY MapsProperties
  <2> QED BY <1>5, <1>6, <1>7, <2>1, <2>2
<1> HIDE DEF rows
<1>10. IsFiniteSet(DOMAIN rows)
  BY <1>5, <1>9, FS_AddElement
<1>11. \A x \in Maps(Places(setup.org), OpenRows(setup)) :
         LET y == [old EXCEPT !.rows = x] IN y \in Stored(setup) /\ y.rows = x
  BY <1>5 DEF Stored
<1>12. new \in Stored(setup) /\ new.rows = rows
  BY <1>9, <1>11
<1> HIDE DEF new
<1>13. e \in Entries(setup) /\ e.cycle = clk /\ e.cmd = "ACT" /\ e.at = Placed(r.at)
  <2>1. <<>> \in Seq(Byte) /\ "ACT" \in Commands
    BY EmptySeq DEF Commands
  <2>2. \A x \in Seq(Byte) : \A m \in Commands :
          LET y == Entry(c, r, m, r.id, x)
          IN y \in Entries(setup) /\ y.cycle = clk /\ y.cmd = m /\ y.at = Placed(r.at)
    BY <1>4, <1>5, EntryTyped
  <2> QED BY <2>1, <2>2
<1> HIDE DEF e
<1>14. Issues(c, e, new)
  BY <1>3, <1>8, <1>10, <1>12, <1>13 DEF Issues
<1>15. Opening(c, e, new)
  BY <1>2, <1>4, <1>6, <1>12, <1>13 DEF Opening, old, b, rows
<1> QED BY <1>3, <1>14, <1>15 DEF Acts, Effect

\* Closing rows keeps the others and the types.
LEMMA CloseRowsTyped ==
  ASSUME FrontendTyped, NEW c \in Controllers, NEW closed, closed \subseteq RowsOf(c),
         CloseRows(c, closed)
  PROVE  \E st \in Stored(setup) :
           /\ IsFiniteSet(DOMAIN st.rows) /\ store' = [store EXCEPT ![StackOf(c)] = st]
           /\ DOMAIN st.rows = DOMAIN store[StackOf(c)].rows \ closed
           /\ \A j \in DOMAIN st.rows : st.rows[j] = store[StackOf(c)].rows[j]
<1> DEFINE old == store[StackOf(c)]
           rows == [j \in DOMAIN old.rows \ closed |-> old.rows[j]]
           lines == FoldSet(LAMBDA j, lines : WriteBack(lines, old.rows[j]), old.lines, closed)
           new == [rows |-> rows, lines |-> lines]
<1>1. store' = [store EXCEPT ![StackOf(c)] = new]
  BY DEF CloseRows
<1>2. Legal(setup) /\ old \in Stored(setup) /\ IsFiniteSet(DOMAIN old.rows)
      /\ setup.org \in Organizations /\ old.rows \in Maps(Places(setup.org), OpenRows(setup))
      /\ old.lines \in LineMaps(setup) /\ DOMAIN old.rows \subseteq Places(setup.org)
  BY StoreOf
<1>3. closed \in SUBSET DOMAIN old.rows
  BY DEF RowsOf
<1> HIDE DEF old
<1>4. IsFiniteSet(closed)
  BY <1>2, <1>3, FS_Subset
<1>5. Flushes(old.rows, closed, old.lines, lines)
  BY <1>2, <1>3, <1>4, FlushFold
<1> HIDE DEF lines
<1>6. lines \in LineMaps(setup)
  <2>1. closed \in SUBSET closed
    OBVIOUS
  <2> QED BY <1>5, <2>1 DEF Flushes, IsFlush
<1>7. rows \in Maps(Places(setup.org), OpenRows(setup))
  <2> DEFINE S == DOMAIN old.rows \ closed
  <2>1. S \in SUBSET Places(setup.org)
    BY <1>2
  <2>2. \A j \in S : old.rows[j] \in OpenRows(setup)
    BY <1>2, MapsProperties
  <2>3. rows \in [S -> OpenRows(setup)]
    BY <2>2
  <2> QED BY <2>1, <2>3, MapsIntro
<1>8. /\ DOMAIN rows = DOMAIN old.rows \ closed /\ IsFiniteSet(DOMAIN rows)
      /\ \A j \in DOMAIN rows : rows[j] = old.rows[j]
  BY <1>2, FS_Subset
<1> HIDE DEF rows
<1>9. new \in Stored(setup) /\ new.rows = rows
  BY <1>6, <1>7 DEF Stored, LineMaps
<1> HIDE DEF new
<1> QED BY <1>1, <1>8, <1>9 DEF old

\* A precharge at a place closes the rows it is for.
LEMMA ClosingEffect ==
  ASSUME FrontendTyped, NEW c \in Controllers, NEW cmd \in {"PREAB", "PREPB"}, NEW r,
         r.at \in Places(setup.org), r.at["channel"] = ChannelOf(c), r.address \in Nat,
         r.system \in Nat, r.expected \in Seq(Byte), r.owed \in Seq(Byte), NEW id \in Nat,
         CloseRows(c, RowsClosed(c, cmd, r.at)),
         log' = [log EXCEPT ![c] = Append(log[c], Entry(c, r, cmd, id, <<>>))]
  PROVE  \E e : \E st : Acts(c, e, st)
<1> DEFINE e == Entry(c, r, cmd, id, <<>>)
           closed == RowsClosed(c, cmd, r.at)
<1>1. closed \subseteq RowsOf(c)
  BY DEF RowsClosed, RankRows, BankRows
<1>2. PICK st \in Stored(setup) :
        /\ IsFiniteSet(DOMAIN st.rows) /\ store' = [store EXCEPT ![StackOf(c)] = st]
        /\ DOMAIN st.rows = DOMAIN store[StackOf(c)].rows \ closed
        /\ \A j \in DOMAIN st.rows : st.rows[j] = store[StackOf(c)].rows[j]
  BY <1>1, CloseRowsTyped
<1>3. e \in Entries(setup) /\ e.cycle = clk /\ e.cmd = cmd /\ e.at = Placed(r.at)
  <2>1. <<>> \in Seq(Byte) /\ cmd \in Commands
    BY EmptySeq DEF Commands, ControlNames, TraceCommands
  <2>2. Legal(setup) /\ clk \in Nat
    BY StoreOf
  <2>3. \A x \in Seq(Byte) :
          LET y == Entry(c, r, cmd, id, x)
          IN y \in Entries(setup) /\ y.cycle = clk /\ y.cmd = cmd /\ y.at = Placed(r.at)
    BY <2>1, <2>2, EntryTyped
  <2> QED BY <2>1, <2>3
<1>4. log' = [log EXCEPT ![c] = Append(log[c], e)]
  OBVIOUS
<1> HIDE DEF e, closed
<1>5. Issues(c, e, st)
  BY <1>2, <1>3, <1>4 DEF Issues
<1>6. Closing(c, e, st)
  BY <1>2, <1>3 DEF Closing, closed
<1> QED BY <1>5, <1>6 DEF Acts

\* So has a precharge of the controller's own, which closes the rows of a rank.
LEMMA PrechargeEffect ==
  ASSUME FrontendTyped, NEW c \in Controllers, PrechargeAll(c)
  PROVE  Effect(c)
<1> DEFINE Part(k) == [at |-> k, address |-> 0, system |-> 0, expected |-> <<>>, owed |-> <<>>]
<1>1. PICK k \in RowsOf(c) :
        /\ CloseRows(c, RankRows(c, k))
        /\ log' = [log EXCEPT ![c] =
             Append(log[c], Entry(c, Part(k), "PREAB", maintenance[c], <<>>))]
        /\ maintenance' = [maintenance EXCEPT ![c] = maintenance[c] + 1]
        /\ UNCHANGED <<queues, idle>>
  BY DEF PrechargeAll
<1>2. k \in Places(setup.org) /\ k["channel"] = ChannelOf(c) /\ maintenance[c] \in Nat
  BY StoreOf DEF FrontendTyped, QueuesTyped, RowsOf
<1> DEFINE r == Part(k)
<1>3. /\ r.at = k /\ r.address \in Nat /\ r.system \in Nat
      /\ r.expected \in Seq(Byte) /\ r.owed \in Seq(Byte)
  BY EmptySeq
<1>4. CloseRows(c, RowsClosed(c, "PREAB", r.at))
  BY <1>1, <1>3 DEF RowsClosed
<1>5. log' = [log EXCEPT ![c] = Append(log[c], Entry(c, r, "PREAB", maintenance[c], <<>>))]
  BY <1>1
<1> DEFINE n == maintenance[c]
<1> HIDE DEF r, n, Part
<1>6. \E e : \E st : Acts(c, e, st)
  BY <1>2, <1>3, <1>4, <1>5, ClosingEffect DEF n
<1> QED BY <1>1, <1>6 DEF Effect

\* So has one for a control command.
LEMMA ControlPrechargeEffect ==
  ASSUME FrontendTyped, NEW c \in Controllers, PrechargeForControl(c)
  PROVE  Effect(c)
<1>1. PICK i \in ClosingControls(c) : \E cmd \in PrechargesFor(c, queues[c][i]) :
        /\ CloseRows(c, RowsClosed(c, cmd, queues[c][i].at))
        /\ log' = [log EXCEPT ![c] =
             Append(log[c], Entry(c, queues[c][i], cmd, queues[c][i].id, <<>>))]
        /\ queues' = IF queues[c][i].cmd = cmd
                     THEN [queues EXCEPT ![c] = RemoveAt(queues[c], i)] ELSE queues
        /\ UNCHANGED <<maintenance, idle>>
  BY DEF PrechargeForControl
<1> DEFINE r == queues[c][i]
<1>2. i \in DOMAIN queues[c]
  BY DEF ClosingControls, HeadControls
<1>3. /\ r \in Parts(setup) /\ r.at \in Places(setup.org) /\ r.address \in Nat
      /\ r.system \in Nat /\ r.expected \in Seq(Byte) /\ r.owed \in Seq(Byte)
      /\ r.id \in Nat /\ r.at["channel"] = ChannelOf(c)
  BY <1>2, QueuedParts
<1>4. PICK cmd \in {"PREAB", "PREPB"} :
        /\ CloseRows(c, RowsClosed(c, cmd, r.at))
        /\ log' = [log EXCEPT ![c] = Append(log[c], Entry(c, r, cmd, r.id, <<>>))]
        /\ queues' = IF r.cmd = cmd
                     THEN [queues EXCEPT ![c] = RemoveAt(queues[c], i)] ELSE queues
        /\ UNCHANGED <<maintenance, idle>>
  BY <1>1 DEF PrechargesFor
<1> HIDE DEF r
<1>5. \E e : \E st : Acts(c, e, st)
  BY <1>3, <1>4, ClosingEffect
<1>6. queues' = queues \/ \E j : Serves(c, j)
  BY <1>2, <1>4 DEF Serves
<1> QED BY <1>4, <1>5, <1>6 DEF Effect

\* A step of a controller.
ControllerStep(c) == ColumnTurn(c) \/ DropPrecharge(c) \/ RowTurn(c)

\* So has every step of a controller.
LEMMA TurnEffect ==
  ASSUME FrontendTyped, NEW c \in Controllers, ControllerStep(c)
  PROVE  /\ Effect(c)
         /\ \/ phase' = 0 /\ clk' = clk + 1
            \/ phase' = phase + 1 /\ clk' = clk
            \/ phase' = phase /\ clk' = clk
         /\ UNCHANGED <<setup, stream, held, sourceDone, lastCycle, status, ingress, cursor,
                        memory>>
<1>1. ASSUME NEW ready, HeldBack(ready)
      PROVE  Effect(c)
  BY <1>1 DEF HeldBack, Effect
<1>2. CASE ColumnTurn(c) \/ RowTurn(c)
  <2>1. /\ (phase' = 0 /\ clk' = clk + 1) \/ (phase' = phase + 1 /\ clk' = clk)
        /\ UNCHANGED <<setup, stream, held, sourceDone, lastCycle, status, ingress, cursor,
                       memory>>
    BY <1>2 DEF ColumnTurn, RowTurn, Turn, TurnEnds
  <2>2. ReadColumn(c) \/ WriteColumn(c) \/ ControlCommand(c) \/ PrechargeForControl(c)
        \/ Activate(c) \/ PrechargeAll(c) \/ HeldBack(ReadyColumns(c))
        \/ HeldBack(ReadyControls(c) \cup ClosingControls(c) \cup NeedsRow(c))
    BY <1>2 DEF ColumnTurn, RowTurn
  <2> QED BY <1>1, <2>1, <2>2, ReadEffect, WriteEffect, ControlEffect, ActivateEffect,
             PrechargeEffect, ControlPrechargeEffect
<1>3. CASE DropPrecharge(c)
  <2>1. PICK i \in DOMAIN queues[c] : queues' = [queues EXCEPT ![c] = RemoveAt(queues[c], i)]
    BY <1>3 DEF DropPrecharge, HeadControls
  <2>2. Serves(c, i)
    BY <2>1 DEF Serves
  <2> QED BY <1>3, <2>2 DEF DropPrecharge, Effect
<1> QED BY <1>2, <1>3 DEF ControllerStep

\* Turns keep the types.
LEMMA TurnTyped ==
  ASSUME FrontendTyped, NEW c \in Controllers, ControllerStep(c)
  PROVE  FrontendTyped'
<1>1. /\ Effect(c)
      /\ \/ phase' = 0 /\ clk' = clk + 1
         \/ phase' = phase + 1 /\ clk' = clk
         \/ phase' = phase /\ clk' = clk
      /\ setup' = setup /\ stream' = stream /\ held' = held /\ sourceDone' = sourceDone
      /\ lastCycle' = lastCycle /\ status' = status /\ ingress' = ingress /\ cursor' = cursor
      /\ memory' = memory
  BY TurnEffect
<1>2. Stacks' = Stacks /\ Controllers' = Controllers
      /\ \A d : StackOf(d)' = StackOf(d) /\ ChannelOf(d)' = ChannelOf(d)
  BY <1>1 DEF Stacks, Controllers, Channels, StackOf, ChannelOf
<1>3. SourceTyped'
  <2>1. phase' \in Nat /\ clk' \in Nat /\ idle' \in Nat
    BY <1>1 DEF FrontendTyped, SourceTyped, Effect
  <2> QED BY <1>1, <2>1 DEF FrontendTyped, SourceTyped
<1>4. QueuesTyped'
  <2>1. /\ queues \in [Controllers -> Seq(Parts(setup))] /\ maintenance \in [Controllers -> Nat]
        /\ \A d \in Controllers : \A i \in DOMAIN queues[d] :
             queues[d][i].stack = StackOf(d) /\ queues[d][i].at["channel"] = ChannelOf(d)
    BY DEF FrontendTyped, QueuesTyped
  <2>2. maintenance' \in [Controllers -> Nat]
    <3>1. \/ maintenance' = maintenance
          \/ maintenance' = [maintenance EXCEPT ![c] = maintenance[c] + 1]
      BY <1>1 DEF Effect
    <3>2. maintenance \in [Controllers -> Nat]
      BY <2>1
    <3> QED BY ONLY <3>1, <3>2
  <2>3. /\ queues' \in [Controllers -> Seq(Parts(setup))]
        /\ \A d \in Controllers : \A i \in DOMAIN queues'[d] :
             queues'[d][i].stack = StackOf(d) /\ queues'[d][i].at["channel"] = ChannelOf(d)
    <3>1. CASE queues' = queues
      BY <2>1, <3>1
    <3>2. CASE \E i : Serves(c, i)
      <4>1. PICK i : Serves(c, i)
        BY <3>2
      <4> DEFINE q == RemoveAt(queues[c], i)
      <4>2. i \in DOMAIN queues[c] /\ queues' = [queues EXCEPT ![c] = q]
        BY <4>1 DEF Serves
      <4>3. queues[c] \in Seq(Parts(setup))
        BY <2>1
      <4>4. /\ q \in Seq(Parts(setup))
            /\ \A j \in DOMAIN q : \E m \in DOMAIN queues[c] : q[j] = queues[c][m]
        BY <4>2, <4>3, Removes
      <4> HIDE DEF q
      <4>5. /\ queues' \in [Controllers -> Seq(Parts(setup))]
            /\ \A d \in Controllers : queues'[d] = IF d = c THEN q ELSE queues[d]
        BY <2>1, <4>2, <4>4
      <4>6. ASSUME NEW d \in Controllers, NEW j \in DOMAIN queues'[d]
            PROVE  queues'[d][j].stack = StackOf(d) /\ queues'[d][j].at["channel"] = ChannelOf(d)
        <5>1. CASE d = c
          BY <2>1, <4>4, <4>5, <5>1
        <5>2. CASE d # c
          BY <2>1, <4>5, <5>2
        <5> QED BY <5>1, <5>2
      <4> QED BY <4>5, <4>6
    <3> QED BY <1>1, <3>1, <3>2 DEF Effect
  <2> QED BY <1>1, <1>2, <2>2, <2>3 DEF FrontendTyped, QueuesTyped
<1>5. StoresTyped' /\ LogTyped'
  <2>1. /\ store \in [Stacks -> Stored(setup)] /\ memory \in Maps(Nat, Byte)
        /\ \A k \in Stacks : IsFiniteSet(DOMAIN store[k].rows)
        /\ log \in [Controllers -> Seq(Entries(setup))]
    BY DEF FrontendTyped, StoresTyped, LogTyped
  <2>2. CASE log' = log /\ store' = store
    BY <1>1, <1>2, <2>1, <2>2 DEF StoresTyped, LogTyped
  <2>3. CASE \E e : \E st : Acts(c, e, st)
    <3>1. PICK e, st : Acts(c, e, st)
      BY <2>3
    <3>2. /\ e \in Entries(setup) /\ log' = [log EXCEPT ![c] = Append(log[c], e)]
          /\ st \in Stored(setup) /\ IsFiniteSet(DOMAIN st.rows)
          /\ store' = [store EXCEPT ![StackOf(c)] = st]
      BY <3>1 DEF Acts, Issues
    <3>3. StackOf(c) \in Stacks
      BY StoreOf
    <3>4. store' \in [Stacks -> Stored(setup)]
          /\ \A k \in Stacks : IsFiniteSet(DOMAIN store'[k].rows)
      BY <2>1, <3>2, <3>3
    <3>5. Append(log[c], e) \in Seq(Entries(setup))
      <4>1. log[c] \in Seq(Entries(setup))
        BY <2>1
      <4> QED BY <3>2, <4>1, Appends
    <3>6. log' \in [Controllers -> Seq(Entries(setup))]
      BY <2>1, <3>2, <3>5
    <3> QED BY <1>1, <1>2, <2>1, <3>4, <3>6 DEF StoresTyped, LogTyped
  <2> QED BY <1>1, <2>2, <2>3 DEF Effect
<1> QED BY <1>3, <1>4, <1>5 DEF FrontendTyped

\* So does every step.
LEMMA NextTyped == FrontendTyped /\ [Next]_vars => FrontendTyped'
<1> SUFFICES ASSUME FrontendTyped, [Next]_vars
             PROVE  FrontendTyped'
  OBVIOUS
<1>1. CASE Fetch
  BY <1>1, FetchTyped
<1>2. CASE SourceEnds \/ Finish
  BY <1>2, SourceEndsTyped
<1>3. CASE Enqueue
  BY <1>3, EnqueueTyped
<1>4. CASE StepBegins
  BY <1>4, StepBeginsTyped
<1>5. CASE \E c \in Controllers : ControllerStep(c)
  BY <1>5, TurnTyped
<1>6. CASE UNCHANGED vars
  <2>1. SourceTyped'
    BY <1>6 DEF vars, FrontendTyped, SourceTyped
  <2>2. QueuesTyped'
    BY <1>6 DEF vars, FrontendTyped, QueuesTyped, Stacks, Controllers, Channels, StackOf, ChannelOf
  <2>3. StoresTyped'
    BY <1>6 DEF vars, FrontendTyped, StoresTyped, Stacks
  <2>4. LogTyped'
    BY <1>6 DEF vars, FrontendTyped, LogTyped, Controllers, Channels
  <2> QED BY <2>1, <2>2, <2>3, <2>4 DEF FrontendTyped
<1> QED BY <1>1, <1>2, <1>3, <1>4, <1>5, <1>6 DEF Next, ControllerStep

\* What a run keeps is of its type: transactions are of one line and of the
\* stack and channel they are queued for, an open row has blocks of a line, and a
\* controller issues commands for its own rows (run_source(), enqueue(),
\* Controller::tick(), MemoryImage).
THEOREM FrontendTypeCorrect == Spec => []FrontendTyped
<1>1. Init => FrontendTyped
  BY InitTyped
<1>2. FrontendTyped /\ [Next]_vars => FrontendTyped'
  BY NextTyped
<1> QED BY <1>1, <1>2, PTL DEF Spec

-----------------------------------------------------------------------------
(* The commands of a channel open a row before they use it *)

\* The coordinates that the merge restores.
Whole(ch, e) == [e.at EXCEPT !["channel"] = ch]

\* A command closes the row of a bank.
EndsRow(ch, e, b) ==
  \/ e.cmd = "PREAB" /\ SameRank(Whole(ch, e), b)
  \/ e.cmd = "PREPB" /\ BankKey(Whole(ch, e)) = b

\* Among the first n commands of a channel, one opened the row of a bank and no
\* later one closed it.
OpenedBy(s, ch, b, row, n) ==
  \E i \in 1 .. n :
    /\ s[i].cmd = "ACT" /\ BankKey(Whole(ch, s[i])) = b /\ s[i].at["row"] = row
    /\ \A p \in i + 1 .. n : ~EndsRow(ch, s[p], b)

\* Every open row was opened by a command that nothing undid.
RowsOpened(s, ch, rows) ==
  \A b \in DOMAIN rows : b["channel"] = ch => OpenedBy(s, ch, b, rows[b].row, Len(s))

\* So was the row of every column command when it was issued.
ColumnsOpened(s, ch) ==
  \A j \in 1 .. Len(s) : s[j].cmd \in {"RD", "WR"} =>
    OpenedBy(s, ch, BankKey(Whole(ch, s[j])), s[j].at["row"], j - 1)

\* A controller issues its commands in the order of the cycles.
CyclesOrdered(s, t) ==
  /\ \A j \in 1 .. Len(s) : s[j].cycle <= t
  /\ \A i \in 1 .. Len(s) : \A j \in 1 .. Len(s) : i < j => s[i].cycle <= s[j].cycle

ChannelLegal(c) ==
  /\ RowsOpened(log[c], ChannelOf(c), store[StackOf(c)].rows)
  /\ ColumnsOpened(log[c], ChannelOf(c))
  /\ CyclesOrdered(log[c], clk)

ChannelsLegal == \A c \in Controllers : ChannelLegal(c)

\* collect_command_trace() restores the channel the controller had dropped.
LEMMA WholeAgain ==
  ASSUME NEW org \in Organizations, NEW at \in Places(org), NEW e, e.at = Placed(at)
  PROVE  Whole(at["channel"], e) = at /\ e.at["row"] = at["row"]
<1>1. at \in [Fields -> Nat] /\ Fields # {} /\ "channel" \in Fields /\ "row" \in Fields
  BY DEF Places, Fields
<1>2. Whole(at["channel"], e) = at
  BY <1>1 DEF Whole, Placed
<1> QED BY <1>1, <1>2 DEF Placed

\* The key of a bank says its channel and its rank.
LEMMA SameBank ==
  ASSUME NEW org \in Organizations, NEW at \in Places(org)
  PROVE  /\ BankKey(at)["channel"] = at["channel"]
         /\ \A x : SameRank(x, BankKey(at)) <=> SameRank(x, at)
<1>1. at \in [Fields -> Nat]
  BY DEF Places
<1>2. {"channel", "pseudo_channel", "sid", "rank"} \subseteq Fields
  BY DEF Fields
<1>3. \A f \in {"channel", "pseudo_channel", "sid", "rank"} : BankKey(at)[f] = at[f]
  BY <1>1, <1>2 DEF BankKey
<1> QED BY <1>3 DEF SameRank

\* What was opened stays open over a command that does not close it.
LEMMA OpenedStays ==
  ASSUME NEW S, NEW s \in Seq(S), NEW e \in S, NEW ch, NEW b, NEW row,
         NEW n \in 0 .. Len(s), OpenedBy(s, ch, b, row, n)
  PROVE  /\ OpenedBy(Append(s, e), ch, b, row, n)
         /\ n = Len(s) /\ ~EndsRow(ch, e, b)
            => OpenedBy(Append(s, e), ch, b, row, n + 1)
<1> DEFINE t == Append(s, e)
<1>1. Len(s) \in Nat /\ Len(t) = Len(s) + 1 /\ t[Len(s) + 1] = e
      /\ \A i \in 1 .. Len(s) : t[i] = s[i]
  BY LenProperties, AppendProperties
<1> HIDE DEF t
<1>2. PICK i \in 1 .. n :
        /\ s[i].cmd = "ACT" /\ BankKey(Whole(ch, s[i])) = b /\ s[i].at["row"] = row
        /\ \A p \in i + 1 .. n : ~EndsRow(ch, s[p], b)
  BY DEF OpenedBy
<1>3. i \in 1 .. Len(s) /\ i + 1 .. n \subseteq 1 .. Len(s)
  BY <1>1
<1>4. /\ t[i].cmd = "ACT" /\ BankKey(Whole(ch, t[i])) = b /\ t[i].at["row"] = row
      /\ \A p \in i + 1 .. n : ~EndsRow(ch, t[p], b)
  BY <1>1, <1>2, <1>3
<1>5. OpenedBy(t, ch, b, row, n)
  BY <1>4 DEF OpenedBy
<1>6. ASSUME n = Len(s), ~EndsRow(ch, e, b)
      PROVE  OpenedBy(t, ch, b, row, n + 1)
  <2>1. i \in 1 .. n + 1 /\ \A p \in i + 1 .. n + 1 : p \in i + 1 .. n \/ p = n + 1
    BY <1>1
  <2>2. \A p \in i + 1 .. n + 1 : ~EndsRow(ch, t[p], b)
    BY <1>1, <1>4, <1>6, <2>1
  <2> QED BY <1>4, <2>1, <2>2 DEF OpenedBy
<1> QED BY <1>5, <1>6 DEF t

\* An ACT opens its row for the commands behind it.
LEMMA OpenedNow ==
  ASSUME NEW S, NEW s \in Seq(S), NEW e \in S, NEW ch, e.cmd = "ACT"
  PROVE  OpenedBy(Append(s, e), ch, BankKey(Whole(ch, e)), e.at["row"], Len(s) + 1)
<1> DEFINE t == Append(s, e)
           n == Len(s) + 1
<1>1. n \in 1 .. n /\ t[n] = e /\ n + 1 .. n = {}
  BY LenProperties, AppendProperties
<1> HIDE DEF t, n
<1>2. OpenedBy(t, ch, BankKey(Whole(ch, e)), e.at["row"], n)
  BY <1>1 DEF OpenedBy
<1> QED BY <1>2 DEF t, n

\* A command issued now keeps the history in the order of its cycles.
LEMMA CyclesAppend ==
  ASSUME NEW s \in Seq(Entries(setup)), NEW e \in Entries(setup), NEW t \in Nat,
         CyclesOrdered(s, t), e.cycle = t
  PROVE  CyclesOrdered(Append(s, e), t)
<1> DEFINE x == Append(s, e)
<1>1. Len(s) \in Nat /\ Len(x) = Len(s) + 1 /\ x[Len(s) + 1] = e
      /\ \A i \in 1 .. Len(s) : x[i] = s[i]
  BY LenProperties, AppendProperties
<1> HIDE DEF x
<1>2. \A j \in 1 .. Len(x) : x[j].cycle <= t
  BY <1>1 DEF CyclesOrdered
<1>3. ASSUME NEW i \in 1 .. Len(x), NEW j \in 1 .. Len(x), i < j
      PROVE  x[i].cycle <= x[j].cycle
  <2>1. CASE j = Len(s) + 1
    BY <1>1, <1>2, <2>1
  <2>2. CASE j # Len(s) + 1
    <3>1. i \in 1 .. Len(s) /\ j \in 1 .. Len(s)
      BY <1>1, <1>3, <2>2
    <3> QED BY <1>1, <1>3, <3>1 DEF CyclesOrdered
  <2> QED BY <2>1, <2>2
<1> QED BY <1>2, <1>3 DEF CyclesOrdered, x

\* A column command keeps it legal when its row was opened.
LEMMA ColumnsAppend ==
  ASSUME NEW s \in Seq(Entries(setup)), NEW e \in Entries(setup), NEW ch,
         ColumnsOpened(s, ch),
         e.cmd \in {"RD", "WR"} =>
           OpenedBy(s, ch, BankKey(Whole(ch, e)), e.at["row"], Len(s))
  PROVE  ColumnsOpened(Append(s, e), ch)
<1> DEFINE x == Append(s, e)
<1>1. Len(s) \in Nat /\ Len(x) = Len(s) + 1 /\ x[Len(s) + 1] = e
      /\ \A i \in 1 .. Len(s) : x[i] = s[i]
  BY LenProperties, AppendProperties
<1>2. \A n \in 0 .. Len(s) : \A b, row :
        OpenedBy(s, ch, b, row, n) => OpenedBy(x, ch, b, row, n)
  BY OpenedStays
<1> HIDE DEF x
<1>3. ASSUME NEW j \in 1 .. Len(x), x[j].cmd \in {"RD", "WR"}
      PROVE  OpenedBy(x, ch, BankKey(Whole(ch, x[j])), x[j].at["row"], j - 1)
  <2>1. CASE j = Len(s) + 1
    <3>1. x[j] = e /\ j - 1 = Len(s) /\ Len(s) \in 0 .. Len(s)
      BY <1>1, <2>1
    <3>2. OpenedBy(s, ch, BankKey(Whole(ch, e)), e.at["row"], Len(s))
      BY <1>3, <3>1
    <3>3. OpenedBy(x, ch, BankKey(Whole(ch, e)), e.at["row"], Len(s))
      BY <1>2, <3>1, <3>2
    <3> QED BY <3>1, <3>3
  <2>2. CASE j # Len(s) + 1
    <3>1. j \in 1 .. Len(s) /\ j - 1 \in 0 .. Len(s) /\ x[j] = s[j]
      BY <1>1, <2>2
    <3>2. OpenedBy(s, ch, BankKey(Whole(ch, s[j])), s[j].at["row"], j - 1)
      BY <1>3, <3>1 DEF ColumnsOpened
    <3> QED BY <1>2, <3>1, <3>2
  <2> QED BY <2>1, <2>2
<1> QED BY <1>3 DEF ColumnsOpened, x

\* The rows of its channel are what a command changes, and it leaves what
\* ChannelLegal() says of them.
LEMMA OwnChannel ==
  ASSUME FrontendTyped, NEW c \in Controllers, ChannelLegal(c), NEW e, NEW st, Acts(c, e, st)
  PROVE  LET s == Append(log[c], e)
         IN /\ RowsOpened(s, ChannelOf(c), st.rows) /\ ColumnsOpened(s, ChannelOf(c))
            /\ CyclesOrdered(s, clk)
<1> DEFINE old == store[StackOf(c)].rows
           ch == ChannelOf(c)
           s == log[c]
           x == Append(s, e)
<1>1. /\ setup.org \in Organizations /\ old \in Maps(Places(setup.org), OpenRows(setup))
      /\ DOMAIN old \subseteq Places(setup.org) /\ clk \in Nat
  BY StoreOf
<1>2. e \in Entries(setup) /\ e.cycle = clk /\ s \in Seq(Entries(setup))
  BY DEF Acts, Issues, FrontendTyped, LogTyped
<1>3. RowsOpened(s, ch, old) /\ ColumnsOpened(s, ch) /\ CyclesOrdered(s, clk)
  BY DEF ChannelLegal
<1>4. Len(s) \in Nat /\ Len(x) = Len(s) + 1 /\ Len(s) \in 0 .. Len(s)
  BY <1>2, LenProperties, AppendProperties
<1>5. RowsOf(c) = {b \in DOMAIN old : b["channel"] = ch}
  BY DEF RowsOf
<1>6. \A b, row : /\ OpenedBy(s, ch, b, row, Len(s))
                  /\ ~EndsRow(ch, e, b)
                  => OpenedBy(x, ch, b, row, Len(x))
  BY <1>2, <1>4, OpenedStays
<1>7. e.cmd = "ACT" => OpenedBy(x, ch, BankKey(Whole(ch, e)), e.at["row"], Len(x))
  BY <1>2, <1>4, OpenedNow
<1>8. Moving(c, e, st) \/ Controlling(c, e, st) \/ Opening(c, e, st) \/ Closing(c, e, st)
  BY DEF Acts
<1>9. CyclesOrdered(x, clk)
  BY <1>1, <1>2, <1>3, CyclesAppend
<1>10. ColumnsOpened(x, ch)
  <2>1. ASSUME e.cmd \in {"RD", "WR"}
        PROVE  OpenedBy(s, ch, BankKey(Whole(ch, e)), e.at["row"], Len(s))
    <3>1. Moving(c, e, st)
      BY <1>8, <2>1 DEF Controlling, Opening, Closing, ControlNames, TraceCommands
    <3>2. PICK at \in Places(setup.org) :
            at["channel"] = ch /\ e.at = Placed(at) /\ RowOpen(store[StackOf(c)], at)
      BY <3>1 DEF Moving
    <3>3. Whole(ch, e) = at /\ e.at["row"] = at["row"] /\ BankKey(at)["channel"] = ch
      BY <1>1, <3>2, WholeAgain, SameBank
    <3>4. BankKey(at) \in DOMAIN old /\ old[BankKey(at)].row = at["row"]
      BY <3>2 DEF RowOpen
    <3> QED BY <1>3, <3>3, <3>4 DEF RowsOpened
  <2> HIDE DEF s, ch
  <2> QED BY <1>2, <1>3, <2>1, ColumnsAppend DEF x
<1>11. RowsOpened(x, ch, st.rows)
  <2> SUFFICES ASSUME NEW b \in DOMAIN st.rows, b["channel"] = ch
               PROVE  OpenedBy(x, ch, b, st.rows[b].row, Len(x))
    BY DEF RowsOpened
  <2>1. ASSUME b \in DOMAIN old, st.rows[b].row = old[b].row,
               ~EndsRow(ch, e, b)
        PROVE  OpenedBy(x, ch, b, st.rows[b].row, Len(x))
    <3>1. OpenedBy(s, ch, b, old[b].row, Len(s))
      BY <1>3, <2>1 DEF RowsOpened
    <3> HIDE DEF x
    <3> QED BY <1>6, <2>1, <3>1
  <2> HIDE DEF x
  <2>2. CASE Moving(c, e, st)
    <3>1. ~EndsRow(ch, e, b) /\ b \in DOMAIN old /\ st.rows[b].row = old[b].row
      BY <2>2 DEF Moving, KeepsRows, EndsRow
    <3> QED BY <2>1, <3>1
  <2>3. CASE Controlling(c, e, st)
    <3>1. ~EndsRow(ch, e, b) /\ b \in DOMAIN old /\ st.rows[b].row = old[b].row
      BY <2>3 DEF Controlling, EndsRow
    <3> QED BY <2>1, <3>1
  <2>4. CASE Opening(c, e, st)
    <3>1. PICK at \in Places(setup.org), row \in OpenRows(setup) :
            /\ at["channel"] = ch /\ e.at = Placed(at) /\ row.row = at["row"]
            /\ st.rows = With(old, BankKey(at), row)
      BY <2>4 DEF Opening
    <3>2. Whole(ch, e) = at /\ e.at["row"] = at["row"] /\ e.cmd = "ACT"
      BY <1>1, <2>4, <3>1, WholeAgain DEF Opening
    <3>3. CASE b = BankKey(at)
      <4>1. st.rows[b] = row
        BY <3>1, <3>3 DEF With
      <4> QED BY <1>7, <3>1, <3>2, <3>3, <4>1
    <3>4. CASE b # BankKey(at)
      <4>1. b \in DOMAIN old /\ st.rows[b] = old[b]
        BY <3>1, <3>4 DEF With
      <4>2. ~EndsRow(ch, e, b)
        BY <3>2 DEF EndsRow
      <4> QED BY <2>1, <4>1, <4>2
    <3> QED BY <3>3, <3>4
  <2>5. CASE Closing(c, e, st)
    <3>1. PICK at \in Places(setup.org) :
            /\ at["channel"] = ch /\ e.at = Placed(at)
            /\ DOMAIN st.rows = DOMAIN old \ RowsClosed(c, e.cmd, at)
            /\ \A j \in DOMAIN st.rows : st.rows[j] = old[j]
      BY <2>5 DEF Closing
    <3>2. Whole(ch, e) = at
      BY <1>1, <3>1, WholeAgain
    <3>3. b \in RowsOf(c) /\ b \notin RowsClosed(c, e.cmd, at) /\ st.rows[b].row = old[b].row
      BY <1>5, <3>1
    <3>4. ~EndsRow(ch, e, b)
      <4>1. CASE e.cmd = "PREAB"
        <5>1. ~SameRank(b, at)
          BY <3>3, <4>1 DEF RowsClosed, RankRows
        <5> QED BY <3>2, <4>1, <5>1 DEF EndsRow, SameRank
      <4>2. CASE e.cmd # "PREAB"
        <5>1. b # BankKey(at)
          BY <3>3, <4>2 DEF RowsClosed, BankRows
        <5> QED BY <3>2, <4>2, <5>1 DEF EndsRow
      <4> QED BY <4>1, <4>2
    <3> QED BY <1>5, <2>1, <3>3, <3>4
  <2> QED BY <1>8, <2>2, <2>3, <2>4, <2>5
<1> QED BY <1>9, <1>10, <1>11

\* The other channels of the stack keep their rows.
LEMMA OtherChannels ==
  ASSUME FrontendTyped, NEW c \in Controllers, NEW e, NEW st, Acts(c, e, st),
         NEW d \in Controllers, d # c, StackOf(d) = StackOf(c),
         NEW s, RowsOpened(s, ChannelOf(d), store[StackOf(c)].rows)
  PROVE  RowsOpened(s, ChannelOf(d), st.rows)
<1> DEFINE old == store[StackOf(c)].rows
<1>1. Legal(setup) /\ setup.org \in Organizations
  BY StoreOf
<1>2. ChannelOf(d) # ChannelOf(c)
  BY <1>1, ControllersTyped
<1> SUFFICES ASSUME NEW b \in DOMAIN st.rows, b["channel"] = ChannelOf(d)
             PROVE  b \in DOMAIN old /\ st.rows[b].row = old[b].row
  BY DEF RowsOpened
<1>3. CASE Moving(c, e, st) \/ Controlling(c, e, st)
  BY <1>3 DEF Moving, Controlling, KeepsRows
<1>4. CASE Opening(c, e, st)
  <2>1. PICK at \in Places(setup.org), row \in OpenRows(setup) :
          at["channel"] = ChannelOf(c) /\ st.rows = With(old, BankKey(at), row)
    BY <1>4 DEF Opening
  <2>2. b # BankKey(at)
    BY <1>1, <1>2, <2>1, SameBank
  <2> QED BY <2>1, <2>2 DEF With
<1>5. CASE Closing(c, e, st)
  BY <1>5 DEF Closing
<1> QED BY <1>3, <1>4, <1>5 DEF Acts

\* So does a command that waits.
LEMMA CyclesWait ==
  ASSUME NEW s \in Seq(Entries(setup)), NEW t \in Nat, CyclesOrdered(s, t), NEW n \in {t, t + 1}
  PROVE  CyclesOrdered(s, n)
<1>1. \A j \in 1 .. Len(s) : s[j].cycle \in Nat
  <2>1. \A j \in 1 .. Len(s) : s[j] \in Entries(setup)
    BY ElementOfSeq
  <2> QED BY <2>1 DEF Entries
<1> QED BY <1>1 DEF CyclesOrdered

\* Every step keeps the histories legal.
LEMMA ChannelsStayLegal ==
  ASSUME FrontendTyped, ChannelsLegal, [Next]_vars
  PROVE  ChannelsLegal'
<1>1. CASE \E c \in Controllers : ControllerStep(c)
  <2>1. PICK c \in Controllers : ControllerStep(c)
    BY <1>1
  <2>2. Effect(c) /\ setup' = setup /\ clk' \in {clk, clk + 1} /\ clk \in Nat
    BY <2>1, TurnEffect, StoreOf
  <2>3. Controllers' = Controllers /\ \A d : StackOf(d)' = StackOf(d) /\ ChannelOf(d)' = ChannelOf(d)
    BY <2>2 DEF Controllers, Channels, StackOf, ChannelOf
  <2>4. log \in [Controllers -> Seq(Entries(setup))] /\ store \in [Stacks -> Stored(setup)]
    BY DEF FrontendTyped, LogTyped, StoresTyped
  <2>5. \A d \in Controllers : ChannelLegal(d) /\ StackOf(d) \in Stacks
    BY StoreOf DEF ChannelsLegal
  <2>6. ASSUME NEW d \in Controllers
        PROVE  /\ RowsOpened(log'[d], ChannelOf(d), store'[StackOf(d)].rows)
               /\ ColumnsOpened(log'[d], ChannelOf(d)) /\ CyclesOrdered(log'[d], clk)
    <3>1. CASE log' = log /\ store' = store
      BY <2>5, <3>1 DEF ChannelLegal
    <3>2. CASE \E e : \E st : Acts(c, e, st)
      <4>1. PICK e, st : Acts(c, e, st)
        BY <3>2
      <4>2. /\ log' = [log EXCEPT ![c] = Append(log[c], e)]
            /\ store' = [store EXCEPT ![StackOf(c)] = st]
        BY <4>1 DEF Acts, Issues
      <4>3. CASE d = c
        <5>1. log'[d] = Append(log[c], e) /\ store'[StackOf(d)] = st
          BY <2>4, <2>5, <4>2, <4>3
        <5> QED BY <2>5, <4>1, <4>3, <5>1, OwnChannel
      <4>4. CASE d # c
        <5>1. log'[d] = log[d]
          BY <2>4, <4>2, <4>4
        <5>2. /\ RowsOpened(log[d], ChannelOf(d), store[StackOf(d)].rows)
              /\ ColumnsOpened(log[d], ChannelOf(d)) /\ CyclesOrdered(log[d], clk)
          BY <2>5 DEF ChannelLegal
        <5>3. CASE StackOf(d) = StackOf(c)
          <6>1. store'[StackOf(d)] = st
            BY <2>4, <2>5, <4>2, <5>3
          <6>2. RowsOpened(log[d], ChannelOf(d), st.rows)
            BY <4>1, <4>4, <5>2, <5>3, OtherChannels
          <6> QED BY <5>1, <5>2, <6>1, <6>2
        <5>4. CASE StackOf(d) # StackOf(c)
          <6>1. store'[StackOf(d)] = store[StackOf(d)]
            BY <2>4, <2>5, <4>2, <5>4
          <6> QED BY <5>1, <5>2, <6>1
        <5> QED BY <5>3, <5>4
      <4> QED BY <4>3, <4>4
    <3> QED BY <2>2, <3>1, <3>2 DEF Effect
  <2>7. log' \in [Controllers -> Seq(Entries(setup))]
    <3>1. FrontendTyped'
      BY <2>1, TurnTyped
    <3> QED BY <2>2, <2>3, <3>1 DEF FrontendTyped, LogTyped
  <2>8. ASSUME NEW d \in Controllers
        PROVE  CyclesOrdered(log'[d], clk')
    <3>1. log'[d] \in Seq(Entries(setup))
      BY <2>7
    <3> QED BY <2>2, <2>6, <3>1, CyclesWait
  <2> QED BY <2>3, <2>6, <2>8 DEF ChannelsLegal, ChannelLegal
<1>2. CASE Fetch \/ SourceEnds \/ Enqueue \/ StepBegins \/ Finish \/ UNCHANGED vars
  <2>1. setup' = setup /\ log' = log /\ store' = store /\ clk' = clk
    BY <1>2 DEF Fetch, SourceEnds, Enqueue, StepBegins, Finish, vars
  <2> QED BY <2>1 DEF ChannelsLegal, ChannelLegal, Controllers, Channels, StackOf, ChannelOf
<1> QED BY <1>1, <1>2 DEF Next, ControllerStep

\* Empty histories are.
LEMMA ChannelsStartLegal == Init => ChannelsLegal
<1> SUFFICES ASSUME Init, NEW c \in Controllers
             PROVE  ChannelLegal(c)
  BY DEF ChannelsLegal
<1>1. log[c] = <<>> /\ Len(<<>>) = 0
  BY DEF Init
<1>2. DOMAIN store[StackOf(c)].rows = {}
  <2>1. setup \in Setups /\ Legal(setup)
    BY SetupsAreLegal DEF Init
  <2>2. StackOf(c) \in Stacks
    BY <2>1, ControllersTyped
  <2> QED BY <2>2 DEF Init
<1> QED BY <1>1, <1>2 DEF ChannelLegal, RowsOpened, ColumnsOpened, CyclesOrdered

\* Histories that are legal one by one are legal when merged: the merge keeps
\* the order of each channel, and no command closes a row of another channel.
LEMMA MergedIsLegal ==
  ASSUME FrontendTyped, ChannelsLegal
  PROVE  MergedTraceLegal
<1>1. Legal(setup)
  BY SetupsAreLegal DEF FrontendTyped, SourceTyped
\* What an entry is in the merged trace.
<1>2. ASSUME NEW e \in Merged
      PROVE  \E c \in Controllers : \E j \in 1 .. Len(log[c]) :
               /\ e.cycle = log[c][j].cycle /\ e.cmd = log[c][j].cmd
               /\ e.at = Whole(ChannelOf(c), log[c][j])
               /\ e.stack = StackOf(c) /\ e.position[1] = c /\ e.position[2] = j
  <2>0. PICK c \in Controllers : \E j \in DOMAIN log[c] : e = Restored(c, j)
    BY DEF Merged
  <2>1. PICK j \in DOMAIN log[c] : e = Restored(c, j)
    BY <2>0
  <2>2. log[c] \in Seq(Entries(setup))
    BY DEF FrontendTyped, LogTyped
  <2>3. j \in 1 .. Len(log[c]) /\ log[c][j] \in Entries(setup)
    BY <2>1, <2>2, LenProperties, ElementOfSeq
  <2> QED BY <2>1, <2>3 DEF Restored, Entries, Whole
<1>2a. \A e \in Merged : DOMAIN e.at = Fields
  <2> SUFFICES ASSUME NEW e \in Merged
               PROVE  DOMAIN e.at = Fields
    OBVIOUS
  <2>1. PICK c \in Controllers : \E j \in DOMAIN log[c] : e = Restored(c, j)
    BY DEF Merged
  <2>2. PICK j \in DOMAIN log[c] : e = Restored(c, j)
    BY <2>1
  <2>3. log[c] \in Seq(Entries(setup))
    BY DEF FrontendTyped, LogTyped
  <2>4. log[c][j] \in Entries(setup)
    BY <2>2, <2>3, LenProperties, ElementOfSeq
  <2>5. DOMAIN log[c][j].at = Fields
    BY <2>4 DEF Entries, Places
  <2> QED BY <2>2, <2>4, <2>5 DEF Restored, Entries
<1>3. ASSUME NEW c \in Controllers, NEW j \in 1 .. Len(log[c])
      PROVE  \E e \in Merged :
               /\ e.cycle = log[c][j].cycle /\ e.cmd = log[c][j].cmd
               /\ e.at = Whole(ChannelOf(c), log[c][j])
               /\ e.stack = StackOf(c) /\ e.position[1] = c /\ e.position[2] = j
  <2>1. log[c] \in Seq(Entries(setup))
    BY DEF FrontendTyped, LogTyped
  <2>2. j \in DOMAIN log[c] /\ log[c][j] \in Entries(setup)
    BY <2>1, LenProperties, ElementOfSeq
  <2>3. Restored(c, j) \in Merged
    BY <2>2 DEF Merged
  <2> QED BY <2>2, <2>3 DEF Restored, Entries, Whole
<1> SUFFICES ASSUME NEW e \in Merged, e.cmd \in DataCommands
             PROVE  \E a \in Merged : /\ OpensRow(a, e) /\ MergedBefore(a, e)
                                      /\ \A p \in Merged : ClosesRow(p, e) /\ MergedBefore(p, e)
                                           => MergedBefore(p, a)
  BY DEF MergedTraceLegal
<1>3a. PICK c \in Controllers : \E j \in 1 .. Len(log[c]) :
        /\ e.cycle = log[c][j].cycle /\ e.cmd = log[c][j].cmd
        /\ e.at = Whole(ChannelOf(c), log[c][j])
        /\ e.stack = StackOf(c) /\ e.position[1] = c /\ e.position[2] = j
  BY <1>2
<1>4. PICK j \in 1 .. Len(log[c]) :
        /\ e.cycle = log[c][j].cycle /\ e.cmd = log[c][j].cmd
        /\ e.at = Whole(ChannelOf(c), log[c][j])
        /\ e.stack = StackOf(c) /\ e.position[1] = c /\ e.position[2] = j
  BY <1>3a
<1> DEFINE s == log[c]
           ch == ChannelOf(c)
<1>5. s \in Seq(Entries(setup)) /\ Len(s) \in Nat /\ \A i \in 1 .. Len(s) : s[i] \in Entries(setup)
  <2>1. s \in Seq(Entries(setup))
    BY DEF FrontendTyped, LogTyped
  <2> QED BY <2>1, LenProperties, ElementOfSeq
<1>6. ColumnsOpened(s, ch) /\ CyclesOrdered(s, clk)
  BY DEF ChannelsLegal, ChannelLegal
<1>7. s[j].cmd \in {"RD", "WR"}
  <2>1. s[j].cmd \in Commands /\ s[j].cmd \in DataCommands
    BY <1>4, <1>5 DEF Entries
  <2> QED BY <2>1 DEF Commands, DataCommands, ControlNames, TraceCommands
<1>8. OpenedBy(s, ch, BankKey(Whole(ch, s[j])), s[j].at["row"], j - 1)
  BY <1>6, <1>7 DEF ColumnsOpened
<1>9. PICK i \in 1 .. j - 1 :
        /\ s[i].cmd = "ACT" /\ BankKey(Whole(ch, s[i])) = BankKey(Whole(ch, s[j]))
        /\ s[i].at["row"] = s[j].at["row"]
        /\ \A p \in i + 1 .. j - 1 : ~EndsRow(ch, s[p], BankKey(Whole(ch, s[j])))
  BY <1>8 DEF OpenedBy
<1>10. i \in 1 .. Len(s) /\ i < j
  BY <1>5, <1>9
<1>11. PICK a \in Merged :
         /\ a.cycle = s[i].cycle /\ a.cmd = s[i].cmd /\ a.at = Whole(ch, s[i])
         /\ a.stack = StackOf(c) /\ a.position[1] = c /\ a.position[2] = i
  BY <1>3, <1>10
\* The order of a channel is that of the merged trace.
<1>12. \A m \in 1 .. Len(s) : \A n \in 1 .. Len(s) :
         m < n => s[m].cycle < s[n].cycle \/ s[m].cycle = s[n].cycle
  <2>1. \A m \in 1 .. Len(s) : s[m].cycle \in Nat
    BY <1>5 DEF Entries
  <2> QED BY <1>6, <2>1 DEF CyclesOrdered
<1>13. MergedBefore(a, e)
  BY <1>4, <1>10, <1>11, <1>12 DEF MergedBefore
<1>14. /\ Whole(ch, s[i])["row"] = s[i].at["row"] /\ Whole(ch, s[j])["row"] = s[j].at["row"]
       /\ \A m \in 1 .. Len(s) : Whole(ch, s[m])["channel"] = ch
  <2>1. \A m \in 1 .. Len(s) : s[m].at \in [Fields -> Nat]
    BY <1>5 DEF Entries, Places
  <2>2. "row" \in Fields /\ "channel" \in Fields
    BY DEF Fields
  <2> QED BY <1>10, <2>1, <2>2 DEF Whole
<1>15. OpensRow(a, e)
  BY <1>4, <1>9, <1>11, <1>14 DEF OpensRow
<1>16. ASSUME NEW p \in Merged, ClosesRow(p, e), MergedBefore(p, e)
       PROVE  MergedBefore(p, a)
  <2>0. PICK d \in Controllers : \E k \in 1 .. Len(log[d]) :
          /\ p.cycle = log[d][k].cycle /\ p.cmd = log[d][k].cmd
          /\ p.at = Whole(ChannelOf(d), log[d][k])
          /\ p.stack = StackOf(d) /\ p.position[1] = d /\ p.position[2] = k
    BY <1>2
  <2>1. PICK k \in 1 .. Len(log[d]) :
          /\ p.cycle = log[d][k].cycle /\ p.cmd = log[d][k].cmd
          /\ p.at = Whole(ChannelOf(d), log[d][k])
          /\ p.stack = StackOf(d) /\ p.position[1] = d /\ p.position[2] = k
    BY <2>0
  <2>2. d = c
    <3>1. StackOf(d) = StackOf(c)
      BY <1>4, <1>16, <2>1 DEF ClosesRow
    <3>2. Whole(ChannelOf(d), log[d][k])["channel"] = Whole(ch, s[j])["channel"]
      <4>1. CASE SameRank(p.at, e.at)
        BY <1>4, <2>1, <4>1 DEF SameRank
      <4>2. CASE BankKey(p.at) = BankKey(e.at)
        <5>1. /\ BankKey(p.at)["channel"] = p.at["channel"]
              /\ BankKey(e.at)["channel"] = e.at["channel"]
          BY <1>2a DEF BankKey, Fields
        <5> QED BY <1>4, <2>1, <4>2, <5>1
      <4> QED BY <1>16, <4>1, <4>2 DEF ClosesRow
    <3>3. log[d][k].at \in [Fields -> Nat] /\ "channel" \in Fields
      <4>1. log[d] \in Seq(Entries(setup))
        BY DEF FrontendTyped, LogTyped
      <4>2. log[d][k] \in Entries(setup)
        BY <4>1, ElementOfSeq
      <4> QED BY <4>2 DEF Entries, Places, Fields
    <3>4. ChannelOf(d) = ch
      BY <1>14, <3>2, <3>3 DEF Whole
    <3> HIDE DEF ch
    <3>5. d = StackOf(d) * Channels + ChannelOf(d) + 1 /\ c = StackOf(c) * Channels + ChannelOf(c) + 1
      BY <1>1, ControllersTyped
    <3> QED BY <3>1, <3>4, <3>5 DEF ch
  <2>3. k \in 1 .. Len(s) /\ p.cycle = s[k].cycle /\ p.cmd = s[k].cmd /\ p.at = Whole(ch, s[k])
        /\ p.position[1] = c /\ p.position[2] = k
    BY <2>1, <2>2
  <2>4. k < j
    <3>1. ~(c < c) /\ ~(s[k].cycle < s[j].cycle /\ j <= k)
      <4>1. c \in Nat
        BY DEF Controllers
      <4>2. s[k].cycle \in Nat /\ s[j].cycle \in Nat /\ (j < k => s[j].cycle <= s[k].cycle)
        BY <1>5, <1>6, <2>3 DEF Entries, CyclesOrdered
      <4> QED BY <2>3, <4>1, <4>2
    <3>2. s[k].cycle < s[j].cycle \/ (s[k].cycle = s[j].cycle /\ k < j)
      BY <1>4, <1>16, <2>3, <3>1 DEF MergedBefore
    <3> QED BY <2>3, <3>1, <3>2
  <2>5. \/ s[k].cmd = "PREAB" /\ SameRank(Whole(ch, s[k]), Whole(ch, s[j]))
        \/ s[k].cmd = "PREPB" /\ BankKey(Whole(ch, s[k])) = BankKey(Whole(ch, s[j]))
    BY <1>4, <1>16, <2>3 DEF ClosesRow
  <2>6. EndsRow(ch, s[k], BankKey(Whole(ch, s[j])))
    <3>1. Whole(ch, s[j]) \in [Fields -> Nat]
      <4>1. s[j].at \in [Fields -> Nat]
        BY <1>5 DEF Entries, Places
      <4>2. c \in Nat /\ ch \in Nat
        BY <1>1, ControllersTyped DEF Controllers
      <4> HIDE DEF ch, s
      <4> QED BY <4>1, <4>2 DEF Whole
    <3>2. {"channel", "pseudo_channel", "sid", "rank"} \subseteq Fields
      BY DEF Fields
    <3>3. \A f \in {"channel", "pseudo_channel", "sid", "rank"} :
            BankKey(Whole(ch, s[j]))[f] = Whole(ch, s[j])[f]
      BY <3>1, <3>2 DEF BankKey
    <3> QED BY <2>5, <3>3 DEF SameRank, EndsRow
  <2>7. k <= i
    <3>1. ~(k \in i + 1 .. j - 1)
      BY <1>9, <2>6
    <3> QED BY <1>10, <2>3, <2>4, <3>1
  <2>8. k # i
    BY <1>9, <2>5
  <2>9. k < i
    BY <1>10, <2>3, <2>7, <2>8
  <2> QED BY <1>10, <1>11, <1>12, <2>3, <2>9 DEF MergedBefore
<1> QED BY <1>13, <1>15, <1>16

\* In the merged trace every column command finds its row open: merging the
\* controllers' commands does not put the PREAB of a cycle before the column
\* command the controller issued first, for any number of stacks and channels
\* (collect_issued_commands()).
THEOREM MergedTracesAreLegal == Spec => []MergedTraceLegal
<1>1. Init => FrontendTyped /\ ChannelsLegal
  BY InitTyped, ChannelsStartLegal
<1>2. FrontendTyped /\ ChannelsLegal /\ [Next]_vars => (FrontendTyped /\ ChannelsLegal)'
  BY NextTyped, ChannelsStayLegal
<1>3. FrontendTyped /\ ChannelsLegal => MergedTraceLegal
  BY MergedIsLegal
<1> QED BY <1>1, <1>2, <1>3, PTL DEF Spec

-----------------------------------------------------------------------------
(* Where a trace stands *)

\* A burst at its line n, for a line t of the trace injected at cycle c.
BurstAt(t, c, n) ==
  [active |-> TRUE, type |-> TypeOf(t),
   address |-> t.address, cycle |-> c, count |-> t.length, line |-> n,
   data |-> t.data, check |-> t.check, stack |-> t.stack]

\* A stream whose burst is the line before the one to be read next.
InTrace(u, s) ==
  /\ s.line \in 1 .. Len(u.trace) + 1
  /\ s.burst.active =>
       /\ s.line - 1 \in DOMAIN u.trace /\ IsBurst(u.trace[s.line - 1])
       /\ \E c \in Nat : \E n \in Nat :
            /\ n > 0 /\ n < u.trace[s.line - 1].length
            /\ s.burst = BurstAt(u.trace[s.line - 1], c, n)

\* A host request has the bytes its line spells out, or those that were written last.
SizeGiven(u, s, h, t) ==
  \/ TypeOf(t) = "control"
  \/ HostBytes(u, h) = t.size
  \/ TypeOf(t) = "read" /\ AddressKey(h) \in DOMAIN s.lastWrites
       /\ HostBytes(u, h) = Len(s.lastWrites[AddressKey(h)])

\* What emitting host line n of line t does, apart from the burst.
LineEmitted(u, s, y, t, c, n) ==
  /\ y.host.type = TypeOf(t) /\ y.host.address = t.address + n * u.org.line
  /\ y.host.cycle = c /\ y.host.stack = t.stack /\ (y.host.explicit <=> t.stack # None)
  /\ y.host.id = s.nextId
  /\ y.next.failed <=>
       \/ s.failed
       \/ t.check = "last_write" /\ AddressKey(y.host) \notin DOMAIN s.lastWrites
  /\ ~y.next.failed =>
       /\ y.next.lastWrites = RememberWrite(u, s, y.host)
       /\ y.next.emitted = s.emitted + 1 /\ y.next.nextId = s.nextId + 1
       /\ y.next.control = s.control
       /\ SizeGiven(u, s, y.host, t)

\* What Emit leaves alone.
LEMMA EmitKeeps ==
  ASSUME NEW u, Legal(u), NEW s \in Streams(u), NEW h \in Hosts(u)
  PROVE  LET z == Emit(u, s, h).next
         IN /\ z.burst = s.burst /\ z.line = s.line /\ z.failed = s.failed
            /\ z.lastWrites = RememberWrite(u, s, h)
            /\ z.emitted = s.emitted + 1 /\ z.nextId = s.nextId + 1
            /\ z.control = s.control
<1> DEFINE w == RememberWrite(u, s, h)
<1>1. Emit(u, s, h).next = [[s EXCEPT !.nextId = s.nextId + 1, !.emitted = s.emitted + 1]
                            EXCEPT !.lastWrites = w]
  BY DEF Emit, Accounted
<1> HIDE DEF w
<1>2. LET z == [[s EXCEPT !.nextId = s.nextId + 1, !.emitted = s.emitted + 1]
                EXCEPT !.lastWrites = w]
      IN /\ z.burst = s.burst /\ z.line = s.line /\ z.failed = s.failed
         /\ z.lastWrites = w /\ z.emitted = s.emitted + 1 /\ z.nextId = s.nextId + 1
         /\ z.control = s.control
  BY DEF Streams
<1> QED BY <1>1, <1>2 DEF w

\* A host request for an address, whatever it carries.
SameKey(x, s, type, a, c, k) ==
  /\ AddressKey(x) = <<a, IF k # None THEN k ELSE None>>
  /\ x.type = type /\ x.address = a /\ x.cycle = c /\ x.stack = k
  /\ (x.explicit <=> k # None) /\ x.id = s.nextId

\* What a host request for an address is keyed by.
LEMMA KeyOf ==
  ASSUME NEW s, NEW type, NEW a, NEW c, NEW k, NEW p, NEW m,
         NEW h, h = HostOf(s, type, a, c, k)
  PROVE  /\ SameKey(h, s, type, a, c, k)
         /\ SameKey([h EXCEPT !.payload = p], s, type, a, c, k)
         /\ SameKey([h EXCEPT !.expected = p], s, type, a, c, k)
         /\ SameKey([h EXCEPT !.payload = p, !.mask = m], s, type, a, c, k)
         /\ SameKey([h EXCEPT !.cmd = p], s, type, a, c, k)
<1>1. SameKey(h, s, type, a, c, k)
  BY DEF HostOf, AddressKey, SameKey
<1>2. SameKey([h EXCEPT !.payload = p], s, type, a, c, k)
  BY DEF HostOf, AddressKey, SameKey
<1>3. SameKey([h EXCEPT !.expected = p], s, type, a, c, k)
  BY DEF HostOf, AddressKey, SameKey
<1>4. SameKey([h EXCEPT !.payload = p, !.mask = m], s, type, a, c, k)
  BY DEF HostOf, AddressKey, SameKey
<1>5. SameKey([h EXCEPT !.cmd = p], s, type, a, c, k)
  BY DEF HostOf, AddressKey, SameKey
<1> QED BY <1>1, <1>2, <1>3, <1>4, <1>5

\* What a line of a trace says.
LEMMA LineTyped ==
  ASSUME NEW u, Legal(u), NEW t \in TraceLines, LineAllowed(u.org, t)
  PROVE  /\ t.address \in Nat /\ t.stack \in StackIds /\ t.data \in STRING
         /\ t.check \in STRING /\ t.mask \in Seq(BOOLEAN) /\ t.length \in Nat \ {0}
         /\ t.op \in {"R", "W", "BR", "BW", "M"} /\ t.size \in Nat \ {0}
         /\ TypeOf(t) # "read" => t.check = "none"
         /\ IsBurst(t) => t.size = u.org.line
         /\ TypeOf(t) = "read" /\ t.check = "none" => t.size = u.org.line
<1>1. /\ t.address \in Nat /\ t.stack \in StackIds /\ t.data \in STRING
      /\ t.check \in STRING /\ t.mask \in Seq(BOOLEAN) /\ t.length \in Nat \ {0}
      /\ t.op \in {"R", "W", "BR", "BW", "M"} /\ t.size \in Nat \ {0}
  BY DEF TraceLines, StackIds
<1>2. TypeOf(t) # "read" => t.check = "none"
  BY <1>1 DEF LineAllowed, TypeOf
<1>3. IsBurst(t) => t.size = u.org.line
  BY <1>1 DEF LineAllowed, IsBurst
<1>4. TypeOf(t) = "read" /\ t.check = "none" => t.size = u.org.line
  <2>1. "none" \in Generated
    BY DEF Generated
  <2> QED BY <1>1, <2>1 DEF LineAllowed, TypeOf
<1> QED BY <1>1, <1>2, <1>3, <1>4

\* The bytes of a write.
LEMMA WriteSize ==
  ASSUME NEW u, Legal(u), NEW s, NEW t \in TraceLines, NEW h \in Hosts(u),
         NEW value \in STRING, NEW a \in Nat, NEW id \in Nat,
         h.type = "write", h.payload = DataValue(value, a, id, t.size)
  PROVE  SizeGiven(u, s, h, t)
<1>1. t.size \in Nat \ {0}
  BY DEF TraceLines
<1>2. h.payload \in Bytes(t.size)
  BY <1>1, DataValueIsBytes
<1>3. Len(h.payload) = t.size
  BY <1>2 DEF Bytes
<1>4. h.payload # <<>>
  BY DEF Hosts, HostSound
<1>5. HostBytes(u, h) = t.size
  BY <1>3, <1>4, HostLine
<1> QED BY <1>5 DEF SizeGiven

\* The bytes of a read.
LEMMA ReadSize ==
  ASSUME NEW u, Legal(u), NEW s \in Streams(u), NEW t \in TraceLines,
         LineAllowed(u.org, t), TypeOf(t) = "read", NEW r \in HostRecords, NEW h \in Hosts(u),
         NEW burst \in BOOLEAN, ~MissingLastWrite(s, r, t.check),
         h.type = "read", AddressKey(h) = AddressKey(r),
         h.expected = ExpectedPayload(s, r, t.check, burst, t.size)
  PROVE  SizeGiven(u, s, h, t)
<1>1. /\ t.size \in Nat \ {0} /\ t.check \in STRING
      /\ t.check = "none" => t.size = u.org.line
  BY LineTyped
<1>2. h.payload = <<>>
  BY DEF Hosts, HostSound
<1>3. r.address \in Nat /\ (IF burst THEN 0 ELSE r.id) \in Nat
  BY DEF HostRecords
<1> DEFINE id == IF burst THEN 0 ELSE r.id
<1>4. CASE t.check = "none"
  <2>1. h.expected = <<>>
    BY <1>4 DEF ExpectedPayload
  <2>2. HostBytes(u, h) = t.size
    BY <1>1, <1>2, <1>4, <2>1, HostLine
  <2> QED BY <2>2 DEF SizeGiven
<1>5. CASE h.expected = s.lastWrites[AddressKey(r)] /\ HasLastWrite(s, r)
  <2>1. h.expected # <<>>
    <3>1. s.lastWrites \in Maps(Nat \X StackIds, Payloads)
      BY DEF Streams, Histories
    <3>2. s.lastWrites[AddressKey(r)] \in Payloads
      BY <1>5, <3>1, MapsProperties DEF HasLastWrite
    <3> QED BY <1>5, <3>2 DEF Payloads
  <2>2. HostBytes(u, h) = Len(h.expected)
    BY <2>1, HostLine
  <2> QED BY <1>5, <2>2 DEF SizeGiven, HasLastWrite
<1>6. CASE h.expected = DataValue(t.check, r.address, id, t.size)
  <2>1. id \in Nat
    BY <1>3
  <2> HIDE DEF id
  <2>2. h.expected \in Bytes(t.size)
    BY <1>1, <1>3, <1>6, <2>1, DataValueIsBytes
  <2>3. Len(h.expected) = t.size
    BY <2>2 DEF Bytes
  <2>4. h.expected # <<>>
    BY <1>1, <2>3, EmptySeq
  <2>5. HostBytes(u, h) = t.size
    BY <2>3, <2>4, HostLine
  <2> QED BY <2>5 DEF SizeGiven
<1>7. \/ t.check = "none"
      \/ h.expected = s.lastWrites[AddressKey(r)] /\ HasLastWrite(s, r)
      \/ h.expected = DataValue(t.check, r.address, id, t.size)
  BY DEF ExpectedPayload, MissingLastWrite
<1> QED BY <1>4, <1>5, <1>6, <1>7

\* A burst without its counter.
LEMMA BurstAtTyped ==
  ASSUME NEW u, Legal(u), NEW t \in TraceLines, LineAllowed(u.org, t), IsBurst(t),
         NEW c \in Nat, NEW n \in Nat
  PROVE  /\ BurstAt(t, c, n) \in Bursts
         /\ BurstAdvanced(BurstAt(t, c, n)) =
              IF n + 1 < t.length THEN BurstAt(t, c, n + 1) ELSE NoBurst
         /\ BurstAt(t, c, n).type = TypeOf(t)
<1>1. /\ t.address \in Nat /\ t.length \in Nat /\ t.data \in STRING
      /\ t.check \in STRING /\ t.stack \in StackIds
  BY LineTyped
<1>7. TypeOf(t) \in {"read", "write"}
  BY DEF TypeOf, IsBurst
<1>2. BurstAt(t, c, n) \in Bursts
  BY <1>1, <1>7 DEF BurstAt, Bursts
<1>4. BurstAt(t, c, n).line = n /\ BurstAt(t, c, n).count = t.length
  BY DEF BurstAt
<1>3. [BurstAt(t, c, n) EXCEPT !.line = BurstAt(t, c, n).line + 1] = BurstAt(t, c, n + 1)
  <2> DEFINE A == {TRUE}
  <2> DEFINE RS == [active : A, type : {"read", "write"}, address : Nat, cycle : Nat,
                    count : Nat, line : Nat, data : STRING, check : STRING, stack : StackIds]
             b == BurstAt(t, c, n)
             e == [b EXCEPT !.line = n + 1]
             d == BurstAt(t, c, n + 1)
  <2>1. b \in RS /\ d \in RS
    BY <1>1, <1>7 DEF BurstAt
  <2>2. /\ b.active = d.active /\ b.type = d.type /\ b.address = d.address
        /\ b.cycle = d.cycle /\ b.count = d.count /\ d.line = n + 1
        /\ b.data = d.data /\ b.check = d.check /\ b.stack = d.stack
    BY DEF BurstAt
  <2> HIDE DEF A, b, d
  <2>3. /\ e \in RS /\ e.active = b.active /\ e.type = b.type /\ e.address = b.address
        /\ e.cycle = b.cycle /\ e.count = b.count /\ e.line = n + 1
        /\ e.data = b.data /\ e.check = b.check /\ e.stack = b.stack
    <3>1. \A x \in RS : LET y == [x EXCEPT !.line = n + 1]
                        IN /\ y \in RS /\ y.active = x.active /\ y.type = x.type /\ y.address = x.address
                           /\ y.cycle = x.cycle /\ y.count = x.count /\ y.line = n + 1
                           /\ y.data = x.data /\ y.check = x.check /\ y.stack = x.stack
      OBVIOUS
    <3> HIDE DEF RS
    <3> QED BY <2>1, <3>1
  <2> HIDE DEF e
  <2>5. e = d
    <3>1. \A x \in RS : \A y \in RS :
             /\ x.active = y.active /\ x.type = y.type /\ x.address = y.address
             /\ x.cycle = y.cycle /\ x.count = y.count /\ x.line = y.line
             /\ x.data = y.data /\ x.check = y.check /\ x.stack = y.stack
             => x = y
      OBVIOUS
    <3> HIDE DEF RS
    <3> QED BY <2>1, <2>2, <2>3, <3>1
  <2> QED BY <1>4, <2>5 DEF b, d, e
<1>5. BurstAdvanced(BurstAt(t, c, n)) =
        IF n + 1 < t.length THEN BurstAt(t, c, n + 1) ELSE NoBurst
  BY <1>3, <1>4 DEF BurstAdvanced
<1>6. BurstAt(t, c, n).type = TypeOf(t)
  BY DEF BurstAt, TypeOf, IsBurst
<1> QED BY <1>2, <1>5, <1>6

\* emit_burst()
LEMMA BurstEmitted ==
  ASSUME NEW u, Legal(u), NEW z \in Streams(u), NEW t \in TraceLines,
         LineAllowed(u.org, t), IsBurst(t), NEW c \in Nat, NEW n \in Nat,
         z.burst = BurstAt(t, c, n)
  PROVE  LET y == EmitBurst(u, z)
         IN /\ LineEmitted(u, z, y, t, c, n)
            /\ ~y.next.failed =>
                 /\ y.next.line = z.line
                 /\ y.next.burst = IF n + 1 < t.length THEN BurstAt(t, c, n + 1) ELSE NoBurst
<1> DEFINE a == t.address + n * u.org.line
           nb == BurstAdvanced(z.burst)
           rest == [z EXCEPT !.burst = nb]
           r == BurstHost(u, z)
           y == EmitBurst(u, z)
<1>1. /\ z.burst.active /\ z.burst.type = TypeOf(t) /\ z.burst.address = t.address
      /\ z.burst.cycle = c /\ z.burst.line = n /\ z.burst.data = t.data
      /\ z.burst.check = t.check /\ z.burst.stack = t.stack
  <2>1. z.burst.type = TypeOf(t)
    BY BurstAtTyped
  <2> QED BY <2>1 DEF BurstAt
<1>2. r = HostOf(z, TypeOf(t), a, c, t.stack)
  BY <1>1 DEF BurstHost
<1>3. Takes(u, z, y)
  BY <1>1, BurstTaken
<1>4. /\ nb \in Bursts
      /\ nb = IF n + 1 < t.length THEN BurstAt(t, c, n + 1) ELSE NoBurst
  <2>1. NoBurst \in Bursts
    BY DEF Bursts
  <2>2. n + 1 \in Nat
    OBVIOUS
  <2> QED BY <2>1, <2>2, BurstAtTyped
<1> HIDE DEF nb
<1>5. /\ rest \in Streams(u) /\ rest.failed = z.failed /\ rest.emitted = z.emitted
      /\ rest.control = z.control /\ rest.nextId = z.nextId /\ rest.line = z.line
      /\ rest.lastWrites = z.lastWrites /\ rest.burst = nb
  BY <1>4 DEF Streams
<1>6. y = IF z.burst.type = "write"
          THEN Emit(u, rest, [r EXCEPT !.payload = DataValue(z.burst.data, r.address, 0, u.org.line)])
          ELSE IF MissingLastWrite(z, r, z.burst.check)
          THEN [host |-> r, next |-> Failed(z)]
          ELSE Emit(u, rest, [r EXCEPT
                      !.expected = ExpectedPayload(z, r, z.burst.check, TRUE, u.org.line)])
  BY DEF EmitBurst, nb
<1> HIDE DEF rest, y, a
<1>7. ASSUME NEW g, NEW p,
             g = r \/ g = [r EXCEPT !.payload = p] \/ g = [r EXCEPT !.expected = p]
      PROVE  /\ AddressKey(g) = AddressKey(r) /\ g.type = TypeOf(t) /\ g.address = a
             /\ g.cycle = c /\ g.stack = t.stack /\ (g.explicit <=> t.stack # None)
             /\ g.id = z.nextId
  <2> DEFINE Kept(x) == SameKey(x, z, TypeOf(t), a, c, t.stack)
  <2>1. Kept(r) /\ Kept([r EXCEPT !.payload = p]) /\ Kept([r EXCEPT !.expected = p])
    <3> HIDE DEF a, r
    <3> QED BY <1>2, KeyOf
  <2>2. Kept(g)
    <3> HIDE DEF Kept
    <3> QED BY <1>7, <2>1
  <2> QED BY <2>1, <2>2 DEF SameKey
<1> HIDE DEF r
<1>8. ASSUME NEW h, y = Emit(u, rest, h), NEW p,
             h = [r EXCEPT !.payload = p] \/ h = [r EXCEPT !.expected = p],
             SizeGiven(u, z, h, t),
             t.check = "last_write" => AddressKey(r) \in DOMAIN z.lastWrites
      PROVE  /\ LineEmitted(u, z, y, t, c, n)
             /\ ~y.next.failed => y.next.line = z.line /\ y.next.burst = nb
  <2>1. y.host = h
    BY <1>8 DEF Emit
  <2>2. h \in Hosts(u)
    BY <1>3, <2>1 DEF Takes, Taken
  <2>3. /\ AddressKey(h) = AddressKey(r) /\ h.type = TypeOf(t) /\ h.address = a
        /\ h.cycle = c /\ h.stack = t.stack /\ (h.explicit <=> t.stack # None)
        /\ h.id = z.nextId
    BY <1>7, <1>8
  <2>4. /\ y.next.burst = nb /\ y.next.line = z.line /\ y.next.failed = z.failed
        /\ y.next.lastWrites = RememberWrite(u, rest, h)
        /\ y.next.emitted = z.emitted + 1 /\ y.next.nextId = z.nextId + 1
        /\ y.next.control = z.control
    BY <1>5, <1>8, <2>2, EmitKeeps
  <2>5. RememberWrite(u, rest, h) = RememberWrite(u, z, h)
    BY <1>5 DEF RememberWrite
  <2>6. z.failed \in BOOLEAN
    BY DEF Streams
  <2> QED BY <1>8, <2>1, <2>3, <2>4, <2>5, <2>6 DEF LineEmitted, a
<1>11. r \in HostRecords
  <2>1. /\ TypeOf(t) \in {"read", "write"} /\ t.stack \in StackIds /\ t.address \in Nat
    BY LineTyped DEF TypeOf, IsBurst
  <2>2. a \in Nat
    <3>1. u.org.line \in Nat
      BY LegalParts
    <3>2. n * u.org.line \in Nat
      BY <3>1, ProductNat
    <3> QED BY <2>1, <3>2 DEF a
  <2>3. z.nextId \in Nat
    BY DEF Streams
  <2> QED BY <1>2, <2>1, <2>2, <2>3, HostOfRecord DEF r
<1>9. CASE TypeOf(t) = "write"
  <2> DEFINE p == DataValue(z.burst.data, r.address, 0, u.org.line)
             h == [r EXCEPT !.payload = p]
  <2>1. y = Emit(u, rest, h)
    BY <1>1, <1>6, <1>9
  <2>2. t.check # "last_write"
    <3>1. t.check = "none"
      BY <1>9, LineTyped
    <3> QED BY <3>1
  <2>3. h = [r EXCEPT !.payload = p] \/ h = [r EXCEPT !.expected = p]
    OBVIOUS
  <2>5. SizeGiven(u, z, h, t)
    <3>1. h.payload = p /\ r \in HostRecords
      <4>1. r \in HostRecords
        BY <1>9, <1>11
      <4> HIDE DEF p
      <4> QED BY <4>1 DEF HostRecords
    <3>2. h \in Hosts(u) /\ h.type = "write"
      <4>1. y.host = h
        BY <2>1 DEF Emit
      <4>2. h.type = TypeOf(t)
        BY <1>7
      <4> QED BY <1>3, <1>9, <4>1, <4>2 DEF Takes, Taken
    <3>3. r.address \in Nat /\ z.burst.data \in STRING /\ u.org.line = t.size
      BY <1>1, <3>1, LineTyped DEF HostRecords
    <3>4. p = DataValue(z.burst.data, r.address, 0, t.size)
      BY <3>3
    <3>5. 0 \in Nat
      OBVIOUS
    <3> HIDE DEF p, h
    <3> QED BY <3>1, <3>2, <3>3, <3>4, <3>5, WriteSize
  <2> HIDE DEF p, h
  <2>4. /\ LineEmitted(u, z, y, t, c, n)
        /\ ~y.next.failed => y.next.line = z.line /\ y.next.burst = nb
    BY <1>8, <2>1, <2>2, <2>3, <2>5
  <2> QED BY <1>4, <2>4 DEF y
<1>10. CASE TypeOf(t) = "read"
  <2>1. MissingLastWrite(z, r, z.burst.check)
          <=> t.check = "last_write" /\ AddressKey(r) \notin DOMAIN z.lastWrites
    BY <1>1 DEF MissingLastWrite, HasLastWrite
  <2>2. CASE MissingLastWrite(z, r, z.burst.check)
    <3>1. y = [host |-> r, next |-> Failed(z)]
      BY <1>1, <1>6, <1>10, <2>2
    <3>2. y.host = r /\ y.next = Failed(z)
      BY <3>1
    <3>3. Failed(z).failed
      BY DEF Failed, Streams
    <3>4. /\ r.type = TypeOf(t) /\ r.address = a /\ r.cycle = c /\ r.stack = t.stack
          /\ (r.explicit <=> t.stack # None) /\ r.id = z.nextId
      <4>1. \A p : /\ r.type = TypeOf(t) /\ r.address = a
                   /\ r.cycle = c /\ r.stack = t.stack /\ (r.explicit <=> t.stack # None)
                   /\ r.id = z.nextId
        BY <1>7
      <4> QED BY <4>1
    <3> QED BY <2>1, <2>2, <3>2, <3>3, <3>4 DEF LineEmitted, a, y
  <2>3. CASE ~MissingLastWrite(z, r, z.burst.check)
    <3> DEFINE p == ExpectedPayload(z, r, z.burst.check, TRUE, u.org.line)
               h == [r EXCEPT !.expected = p]
    <3>1. y = Emit(u, rest, h)
      BY <1>1, <1>6, <1>10, <2>3
    <3>2. h = [r EXCEPT !.payload = p] \/ h = [r EXCEPT !.expected = p]
      OBVIOUS
    <3>4. SizeGiven(u, z, h, t)
      <4>1. h.expected = p
        <5> HIDE DEF p
        <5> QED BY <1>11 DEF HostRecords
      <4>2. h \in Hosts(u) /\ h.type = "read" /\ AddressKey(h) = AddressKey(r)
        <5>1. y.host = h
          BY <3>1 DEF Emit
        <5>2. h.type = TypeOf(t) /\ AddressKey(h) = AddressKey(r)
          BY <1>7
        <5> QED BY <1>3, <1>10, <5>1, <5>2 DEF Takes, Taken
      <4>3. p = ExpectedPayload(z, r, t.check, TRUE, t.size) /\ ~MissingLastWrite(z, r, t.check)
        BY <1>1, <2>3, LineTyped
      <4>4. TRUE \in BOOLEAN
        OBVIOUS
      <4> HIDE DEF p, h
      <4> QED BY <1>10, <1>11, <4>1, <4>2, <4>3, <4>4, ReadSize
    <3> HIDE DEF p, h
    <3>3. /\ LineEmitted(u, z, y, t, c, n)
          /\ ~y.next.failed => y.next.line = z.line /\ y.next.burst = nb
      BY <1>8, <2>1, <2>3, <3>1, <3>2, <3>4
    <3> QED BY <1>4, <3>3 DEF y
  <2> QED BY <2>2, <2>3
<1> QED BY <1>9, <1>10 DEF TypeOf, IsBurst

\* parse_trace_line(), a single request.
LEMMA SingleEmitted ==
  ASSUME NEW u, Legal(u), NEW z \in Streams(u), NEW t \in TraceLines,
         LineAllowed(u.org, t), t.op \in {"R", "W"}
  PROVE  LET y == EmitSingle(u, z, t)
         IN /\ LineEmitted(u, z, y, t, InjectCycle(u, z, t), 0)
            /\ ~y.next.failed => y.next.line = z.line /\ y.next.burst = z.burst
<1> DEFINE c == InjectCycle(u, z, t)
           a == t.address
           r == HostOf(z, TypeOf(t), a, c, t.stack)
           y == EmitSingle(u, z, t)
<1>1. Takes(u, z, y)
  BY SingleTaken
<1>2. /\ t.address \in Nat /\ t.stack \in StackIds
      /\ TypeOf(t) = "write" => t.check = "none"
      /\ TypeOf(t) = IF t.op = "W" THEN "write" ELSE "read"
  <2>1. /\ t.address \in Nat /\ t.stack \in StackIds /\ (TypeOf(t) # "read" => t.check = "none")
    BY LineTyped
  <2> QED BY <2>1 DEF TypeOf
<1>2a. c \in Nat /\ z.nextId \in Nat /\ TypeOf(t) \in {"read", "write"}
  BY <1>2, InjectCycleNat DEF Streams
<1>2b. r \in HostRecords
  <2> HIDE DEF c
  <2> QED BY <1>2, <1>2a, HostOfRecord
<1>3. a = t.address + 0 * u.org.line
  BY <1>2, LegalParts
<1> DEFINE p == DataValue(t.data, a, r.id, t.size)
           q == ExpectedPayload(z, r, t.check, FALSE, t.size)
           missing == MissingLastWrite(z, r, t.check)
<1>4. y = IF t.op = "W" THEN Emit(u, z, [r EXCEPT !.payload = p, !.mask = t.mask])
          ELSE IF missing THEN [host |-> r, next |-> Failed(z)]
          ELSE Emit(u, z, [r EXCEPT !.expected = q])
  BY <1>2 DEF EmitSingle
<1>5. missing <=> t.check = "last_write" /\ AddressKey(r) \notin DOMAIN z.lastWrites
  BY DEF MissingLastWrite, HasLastWrite
<1> DEFINE Kept(x) == SameKey(x, z, TypeOf(t), a, c, t.stack)
<1>6. \A v, m : /\ Kept(r) /\ Kept([r EXCEPT !.payload = v, !.mask = m])
                /\ Kept([r EXCEPT !.expected = v])
  <2> TAKE v, m
  <2> HIDE DEF a, c, r
  <2> QED BY KeyOf DEF r
<1> HIDE DEF p, q, missing, y, a, c
<1>7. ASSUME NEW h, y = Emit(u, z, h), Kept(h), Kept(r), SizeGiven(u, z, h, t),
             t.check = "last_write" => AddressKey(r) \in DOMAIN z.lastWrites
      PROVE  /\ LineEmitted(u, z, y, t, c, 0)
             /\ ~y.next.failed => y.next.line = z.line /\ y.next.burst = z.burst
  <2> HIDE DEF r
  <2>1. y.host = h
    BY <1>7 DEF Emit
  <2>2. h \in Hosts(u)
    BY <1>1, <2>1 DEF Takes, Taken
  <2>3. /\ AddressKey(h) = AddressKey(r) /\ h.type = TypeOf(t) /\ h.address = a
        /\ h.cycle = c /\ h.stack = t.stack /\ (h.explicit <=> t.stack # None)
        /\ h.id = z.nextId
    BY <1>7 DEF SameKey
  <2>4. /\ y.next.burst = z.burst /\ y.next.line = z.line /\ y.next.failed = z.failed
        /\ y.next.lastWrites = RememberWrite(u, z, h)
        /\ y.next.emitted = z.emitted + 1 /\ y.next.nextId = z.nextId + 1
        /\ y.next.control = z.control
    BY <1>7, <2>2, EmitKeeps
  <2>5. z.failed \in BOOLEAN
    BY DEF Streams
  <2> QED BY <1>3, <1>7, <2>1, <2>3, <2>4, <2>5 DEF LineEmitted
<1>8. CASE t.op = "W"
  <2> DEFINE h == [r EXCEPT !.payload = p, !.mask = t.mask]
  <2>1. y = Emit(u, z, h)
    BY <1>4, <1>8
  <2>2. Kept(h) /\ Kept(r)
    BY <1>6
  <2>3. t.check # "last_write"
    <3>1. t.check = "none"
      BY <1>2, <1>8
    <3> QED BY <3>1
  <2>5. SizeGiven(u, z, h, t)
    <3>1. h.payload = p
      <4> HIDE DEF p, r
      <4> QED BY <1>2b DEF HostRecords
    <3>2. h \in Hosts(u) /\ h.type = "write"
      <4>1. y.host = h
        BY <2>1 DEF Emit
      <4>2. h.type = TypeOf(t)
        <5> HIDE DEF h
        <5> QED BY <2>2 DEF SameKey
      <4> QED BY <1>1, <1>2, <1>8, <4>1, <4>2 DEF Takes, Taken, y
    <3>3. a \in Nat /\ t.data \in STRING /\ r.id \in Nat
      <4>1. t.data \in STRING
        BY LineTyped
      <4> HIDE DEF r
      <4> QED BY <1>2, <1>2b, <4>1 DEF HostRecords, a
    <3>4. p = DataValue(t.data, a, r.id, t.size)
      BY DEF p
    <3> HIDE DEF h, r
    <3> QED BY <3>1, <3>2, <3>3, <3>4, WriteSize
  <2> HIDE DEF h, Kept
  <2>4. /\ LineEmitted(u, z, y, t, c, 0)
        /\ ~y.next.failed => y.next.line = z.line /\ y.next.burst = z.burst
    BY <1>7, <2>1, <2>2, <2>3, <2>5
  <2> QED BY <2>4 DEF y, c
<1>9. CASE t.op # "W" /\ missing
  <2>1. y = [host |-> r, next |-> Failed(z)]
    BY <1>4, <1>9
  <2>2. y.host = r /\ y.next = Failed(z)
    BY <2>1
  <2>3. Failed(z).failed
    BY DEF Failed, Streams
  <2>4. Kept(r)
    BY <1>6
  <2>5. /\ r.type = TypeOf(t) /\ r.address = a /\ r.cycle = c /\ r.stack = t.stack
        /\ (r.explicit <=> t.stack # None) /\ r.id = z.nextId
    <3> HIDE DEF r
    <3> QED BY <2>4 DEF SameKey
  <2> HIDE DEF r
  <2>6. LineEmitted(u, z, y, t, c, 0)
    BY <1>3, <1>5, <1>9, <2>2, <2>3, <2>5 DEF LineEmitted
  <2> QED BY <2>2, <2>3, <2>6 DEF y, c
<1>10. CASE t.op # "W" /\ ~missing
  <2> DEFINE h == [r EXCEPT !.expected = q]
  <2>1. y = Emit(u, z, h)
    BY <1>4, <1>10
  <2>2. Kept(h) /\ Kept(r)
    BY <1>6
  <2>4. SizeGiven(u, z, h, t)
    <3>1. h.expected = q
      <4> HIDE DEF q, r
      <4> QED BY <1>2b DEF HostRecords
    <3>2. h \in Hosts(u) /\ h.type = "read" /\ AddressKey(h) = AddressKey(r)
      <4>1. y.host = h
        BY <2>1 DEF Emit
      <4>2. h.type = TypeOf(t) /\ AddressKey(h) = AddressKey(r)
        <5> HIDE DEF h, r
        <5> QED BY <2>2 DEF SameKey
      <4> QED BY <1>1, <1>2, <1>10, <4>1, <4>2 DEF Takes, Taken, y
    <3>3. q = ExpectedPayload(z, r, t.check, FALSE, t.size) /\ ~MissingLastWrite(z, r, t.check)
      BY <1>10 DEF q, missing
    <3>4. TypeOf(t) = "read" /\ FALSE \in BOOLEAN
      BY <1>2, <1>10
    <3> HIDE DEF h, r
    <3> QED BY <1>2b, <3>1, <3>2, <3>3, <3>4, ReadSize
  <2> HIDE DEF h, Kept, r
  <2>3. /\ LineEmitted(u, z, y, t, c, 0)
        /\ ~y.next.failed => y.next.line = z.line /\ y.next.burst = z.burst
    BY <1>5, <1>7, <1>10, <2>1, <2>2, <2>4
  <2> QED BY <2>3 DEF y, c
<1> QED BY <1>8, <1>9, <1>10

\* parse_trace_line(), a maintenance command.
LEMMA CommandEmitted ==
  ASSUME NEW u, Legal(u), NEW z \in Streams(u), NEW t \in TraceLines,
         LineAllowed(u.org, t), t.op = "M"
  PROVE  LET y == EmitControl(u, z, t)
         IN /\ LineEmitted(u, z, y, t, InjectCycle(u, z, t), 0)
            /\ ~y.next.failed => y.next.line = z.line /\ y.next.burst = z.burst
<1> DEFINE c == InjectCycle(u, z, t)
           a == t.address
           r == HostOf(z, "control", a, c, t.stack)
           h == [r EXCEPT !.cmd = t.cmd]
           y == EmitControl(u, z, t)
<1>1. Takes(u, z, y)
  BY CommandTaken
<1>2. t.address \in Nat /\ t.check = "none" /\ TypeOf(t) = "control"
  <2>1. TypeOf(t) = "control"
    BY DEF TypeOf
  <2>2. t.address \in Nat /\ (TypeOf(t) # "read" => t.check = "none")
    BY LineTyped
  <2> QED BY <2>1, <2>2
<1>3. a = t.address + 0 * u.org.line
  BY <1>2, LegalParts
<1>4. y = Emit(u, z, h)
  BY DEF EmitControl
<1>5. SameKey(h, z, "control", a, c, t.stack)
  <2> DEFINE m == t.cmd
             k == t.stack
  <2> HIDE DEF a, c, r, m, k
  <2>1. \A x : SameKey([r EXCEPT !.cmd = m], z, "control", a, c, k)
    BY KeyOf DEF r, k
  <2> QED BY <2>1 DEF m, k
<1> HIDE DEF y, h, c, a
<1>6. y.host = h
  BY <1>4 DEF Emit
<1>7. h \in Hosts(u)
  BY <1>1, <1>6 DEF Takes, Taken
<1>8. /\ h.type = "control" /\ h.address = a /\ h.cycle = c /\ h.stack = t.stack
      /\ (h.explicit <=> t.stack # None) /\ h.id = z.nextId
  BY <1>5 DEF SameKey
<1>9. /\ y.next.burst = z.burst /\ y.next.line = z.line /\ y.next.failed = z.failed
      /\ y.next.lastWrites = RememberWrite(u, z, h)
      /\ y.next.emitted = z.emitted + 1 /\ y.next.nextId = z.nextId + 1
      /\ y.next.control = z.control
  BY <1>4, <1>7, EmitKeeps
<1>10. z.failed \in BOOLEAN
  BY DEF Streams
<1>11. SizeGiven(u, z, h, t)
  BY <1>2 DEF SizeGiven
<1>12. LineEmitted(u, z, y, t, c, 0)
  <2>1. t.check # "last_write"
    BY <1>2
  <2> HIDE DEF r
  <2> QED BY <1>2, <1>3, <1>6, <1>8, <1>9, <1>10, <1>11, <2>1 DEF LineEmitted
<1> QED BY <1>9, <1>12 DEF y, c

\* Which line of the trace a request comes from, and where that leaves the stream.
LineStep(u, s, x, i, c, n) ==
  /\ i \in DOMAIN u.trace /\ c \in Nat /\ n \in Nat
  /\ n < HostLines(u.trace[i])
  /\ LineEmitted(u, s, x, u.trace[i], c, n)
  /\ s.burst.active => i = s.line - 1 /\ n > 0 /\ s.burst = BurstAt(u.trace[i], c, n)
  /\ ~s.burst.active => i = s.line /\ n = 0 /\ c = InjectCycle(u, s, u.trace[i])
  /\ ~x.next.failed =>
       /\ x.next.line = i + 1
       /\ x.next.burst = IF n + 1 < HostLines(u.trace[i])
                         THEN BurstAt(u.trace[i], c, n + 1) ELSE NoBurst

\* A line of the trace.
LEMMA LineOf ==
  ASSUME NEW u, Legal(u), NEW i \in DOMAIN u.trace
  PROVE  /\ u.trace[i] \in TraceLines /\ LineAllowed(u.org, u.trace[i])
         /\ HostLines(u.trace[i]) \in Nat \ {0}
         /\ IsBurst(u.trace[i]) => HostLines(u.trace[i]) = u.trace[i].length
<1>1. u.trace \in Seq(TraceLines)
  BY LegalParts
<1>2. u.trace[i] \in TraceLines /\ LineAllowed(u.org, u.trace[i])
  BY <1>1, ElementOfSeq, LenProperties DEF Legal
<1>3. u.trace[i].length \in Nat \ {0}
  BY <1>2, LineTyped
<1> QED BY <1>2, <1>3 DEF HostLines

\* TraceTrafficStream::next() works through the trace in order.
LEMMA TraceSteps ==
  ASSUME NEW u, Legal(u), NEW s \in Streams(u), InTrace(u, s),
         NEW x \in TraceNext(u, s)
  PROVE  \E i \in DOMAIN u.trace : \E c \in Nat : \E n \in Nat :
           LineStep(u, s, x, i, c, n)
<1>1. ~LimitReached(u, s)
  BY DEF TraceNext
<1>2. CASE s.burst.active
  <2> DEFINE i == s.line - 1
             t == u.trace[i]
  <2>1. i \in DOMAIN u.trace /\ IsBurst(t)
    BY <1>2 DEF InTrace
  <2>2. PICK c \in Nat : \E n \in Nat :
          n > 0 /\ n < t.length /\ s.burst = BurstAt(t, c, n)
    BY <1>2 DEF InTrace
  <2>3. PICK n \in Nat : n > 0 /\ n < t.length /\ s.burst = BurstAt(t, c, n)
    BY <2>2
  <2>4. x = EmitBurst(u, s)
    BY <1>1, <1>2 DEF TraceNext
  <2>5. /\ t \in TraceLines /\ LineAllowed(u.org, t) /\ HostLines(t) = t.length
    BY <2>1, LineOf
  <2>6. s.line \in Nat
    BY DEF Streams, Positive
  <2>7. s.line = i + 1
    BY <2>6
  <2> HIDE DEF t
  <2>8. /\ LineEmitted(u, s, x, t, c, n)
        /\ ~x.next.failed =>
             /\ x.next.line = s.line
             /\ x.next.burst = IF n + 1 < t.length THEN BurstAt(t, c, n + 1) ELSE NoBurst
    BY <2>1, <2>3, <2>4, <2>5, BurstEmitted
  <2>9. LineStep(u, s, x, i, c, n)
    <3> HIDE DEF i
    <3>1. t = u.trace[i]
      BY DEF t, i
    <3>2. i = s.line - 1
      BY DEF i
    <3> QED BY <1>2, <2>1, <2>3, <2>5, <2>7, <2>8, <3>1, <3>2 DEF LineStep
  <2> QED BY <2>1, <2>9
<1>3. CASE ~s.burst.active
  <2> DEFINE i == s.line
             t == u.trace[s.line]
             read == [s EXCEPT !.line = s.line + 1]
  <2>1. s.line \in Nat /\ Len(u.trace) \in Nat /\ DOMAIN u.trace = 1 .. Len(u.trace)
    BY LegalParts, LenProperties DEF Streams, Positive
  <2>2. ~(s.line > Len(u.trace))
    BY <1>1, <1>3 DEF TraceNext
  <2>3. s.line \in DOMAIN u.trace
    BY <2>1, <2>2 DEF InTrace
  <2>4. x = IF t.op \in {"BR", "BW"}
            THEN EmitBurst(u, [read EXCEPT !.burst = BurstOf(u, read, t)])
            ELSE IF t.op = "M" THEN EmitControl(u, read, t)
            ELSE EmitSingle(u, read, t)
    BY <1>1, <1>3, <2>1, <2>2 DEF TraceNext
  <2>5. /\ t \in TraceLines /\ LineAllowed(u.org, t) /\ HostLines(t) \in Nat \ {0}
        /\ IsBurst(t) => HostLines(t) = t.length
    BY <2>3, LineOf
  <2>6. /\ read \in Streams(u) /\ read.burst = s.burst /\ read.line = s.line + 1
        /\ read.failed = s.failed /\ read.emitted = s.emitted
        /\ read.control = s.control /\ read.nextId = s.nextId
        /\ read.lastWrites = s.lastWrites
    <3>1. s.line + 1 \in Positive
      BY <2>1 DEF Positive
    <3>2. \A m \in Positive : LET y == [s EXCEPT !.line = m]
            IN /\ y \in Streams(u) /\ y.burst = s.burst /\ y.line = m
               /\ y.failed = s.failed /\ y.emitted = s.emitted
               /\ y.control = s.control /\ y.nextId = s.nextId
               /\ y.lastWrites = s.lastWrites
      BY DEF Streams
    <3> QED BY <3>1, <3>2
  <2> HIDE DEF read, t
  <2> DEFINE c == InjectCycle(u, read, t)
  <2>7. c \in Nat /\ c = InjectCycle(u, s, t)
    BY <2>5, <2>6, InjectCycleNat DEF InjectCycle
  <2>8. \A y : LineEmitted(u, read, y, t, c, 0) => LineEmitted(u, s, y, t, c, 0)
    <3> HIDE DEF c
    <3> QED BY <2>6 DEF LineEmitted, RememberWrite, SizeGiven
  <2>9. CASE IsBurst(t)
    <3> DEFINE b == BurstOf(u, read, t)
               open == [read EXCEPT !.burst = b]
    <3>1. b = BurstAt(t, c, 0)
      <4>1. TypeOf(t) = IF t.op = "BW" THEN "write" ELSE "read"
        BY <2>9 DEF TypeOf, IsBurst
      <4> HIDE DEF c
      <4>2. BurstOf(u, read, t) =
              [active |-> TRUE, type |-> IF t.op = "BW" THEN "write" ELSE "read",
               address |-> t.address, cycle |-> c, count |-> t.length,
               line |-> 0, data |-> t.data, check |-> t.check, stack |-> t.stack]
        BY DEF BurstOf, c
      <4>3. BurstAt(t, c, 0) =
              [active |-> TRUE, type |-> IF t.op = "BW" THEN "write" ELSE "read",
               address |-> t.address, cycle |-> c, count |-> t.length,
               line |-> 0, data |-> t.data, check |-> t.check, stack |-> t.stack]
        BY <4>1, Zenon DEF BurstAt
      <4> QED BY <4>2, <4>3
    <3>2. b \in Bursts
      <4> HIDE DEF c
      <4>1. 0 \in Nat
        OBVIOUS
      <4> QED BY <2>5, <2>7, <2>9, <3>1, <4>1, BurstAtTyped
    <3> HIDE DEF b
    <3>3. \A z \in Bursts : LET y == [read EXCEPT !.burst = z]
            IN /\ y \in Streams(u) /\ y.burst = z /\ y.line = read.line
               /\ y.failed = read.failed /\ y.emitted = read.emitted
               /\ y.control = read.control /\ y.nextId = read.nextId
               /\ y.lastWrites = read.lastWrites
      BY <2>6 DEF Streams
    <3>4. /\ open \in Streams(u) /\ open.burst = BurstAt(t, c, 0) /\ open.line = read.line
          /\ open.failed = read.failed /\ open.emitted = read.emitted
          /\ open.control = read.control /\ open.nextId = read.nextId
          /\ open.lastWrites = read.lastWrites
      <4> HIDE DEF c
      <4> QED BY <3>1, <3>2, <3>3
    <3>5. x = EmitBurst(u, open)
      BY <2>4, <2>9 DEF IsBurst, b
    <3> HIDE DEF open, c
    <3>6. /\ LineEmitted(u, open, x, t, c, 0)
          /\ ~x.next.failed =>
               /\ x.next.line = open.line
               /\ x.next.burst = IF 0 + 1 < t.length THEN BurstAt(t, c, 0 + 1) ELSE NoBurst
      <4>1. 0 \in Nat
        OBVIOUS
      <4> QED BY <2>5, <2>7, <2>9, <3>4, <3>5, <4>1, BurstEmitted
    <3>7. LineEmitted(u, read, x, t, c, 0)
      BY <2>6, <3>4, <3>6 DEF LineEmitted, RememberWrite, SizeGiven
    <3>8. LineEmitted(u, s, x, t, c, 0)
      BY <2>8, <3>7 DEF c
    <3>9. LineStep(u, s, x, i, c, 0)
      BY <1>3, <2>1, <2>3, <2>5, <2>6, <2>7, <2>9, <3>4, <3>6, <3>8 DEF LineStep, t, c
    <3> QED BY <2>3, <2>7, <3>9 DEF c
  <2>10. CASE ~IsBurst(t)
    <3>1. t.op \in {"R", "W", "M"}
      BY <2>5, <2>10, LineTyped DEF IsBurst
    <3>2. /\ LineEmitted(u, read, x, t, c, 0)
          /\ ~x.next.failed => x.next.line = read.line /\ x.next.burst = read.burst
      <4>1. CASE t.op = "M"
        <5>1. x = EmitControl(u, read, t)
          BY <2>4, <4>1
        <5> QED BY <2>5, <2>6, <4>1, <5>1, CommandEmitted
      <4>2. CASE t.op \in {"R", "W"}
        <5>1. x = EmitSingle(u, read, t)
          BY <2>4, <4>2
        <5> QED BY <2>5, <2>6, <4>2, <5>1, SingleEmitted
      <4> QED BY <3>1, <4>1, <4>2
    <3>3. s.burst = NoBurst
      BY <1>3 DEF Streams, Bursts
    <3>4. LineEmitted(u, s, x, t, c, 0)
      BY <2>8, <3>2
    <3>5. HostLines(t) = 1
      BY <2>10 DEF HostLines
    <3>6. LineStep(u, s, x, i, c, 0)
      <4> HIDE DEF c
      <4> QED BY <1>3, <2>1, <2>3, <2>5, <2>6, <2>7, <3>2, <3>3, <3>4, <3>5 DEF LineStep, t, c
    <3> QED BY <2>3, <2>7, <3>6
  <2> QED BY <2>9, <2>10
<1> QED BY <1>2, <1>3

\* And stays in it.
LEMMA StaysInTrace ==
  ASSUME NEW u, Legal(u), NEW s \in Streams(u), InTrace(u, s), NEW x, ~x.next.failed,
         NEW i, NEW c, NEW n, LineStep(u, s, x, i, c, n)
  PROVE  InTrace(u, x.next)
<1>1. /\ i \in DOMAIN u.trace /\ c \in Nat /\ n \in Nat /\ x.next.line = i + 1
      /\ x.next.burst = IF n + 1 < HostLines(u.trace[i])
                        THEN BurstAt(u.trace[i], c, n + 1) ELSE NoBurst
  BY DEF LineStep
<1>2. i \in 1 .. Len(u.trace) /\ Len(u.trace) \in Nat
  BY <1>1, LegalParts, LenProperties
<1>3. x.next.line \in 1 .. Len(u.trace) + 1 /\ x.next.line - 1 = i
  BY <1>1, <1>2
<1>4. CASE n + 1 < HostLines(u.trace[i])
  <2>1. IsBurst(u.trace[i]) /\ HostLines(u.trace[i]) = u.trace[i].length
    <3>1. HostLines(u.trace[i]) # 1
      BY <1>1, <1>4
    <3>2. IsBurst(u.trace[i])
      BY <3>1 DEF HostLines
    <3> QED BY <1>1, <3>2, LineOf
  <2>2. /\ n + 1 \in Nat /\ n + 1 > 0 /\ n + 1 < u.trace[i].length
    BY <1>1, <1>4, <2>1
  <2>3. x.next.burst = BurstAt(u.trace[i], c, n + 1)
    BY <1>1, <1>4
  <2> QED BY <1>1, <1>3, <2>1, <2>2, <2>3 DEF InTrace
<1>5. CASE ~(n + 1 < HostLines(u.trace[i]))
  <2>1. ~x.next.burst.active
    BY <1>1, <1>5 DEF NoBurst
  <2> QED BY <1>3, <2>1 DEF InTrace
<1> QED BY <1>4, <1>5

-----------------------------------------------------------------------------
(* What is left of a workload *)

\* The host lines of a burst that are still to come.
Ahead(b) == IF b.active THEN b.count - b.line ELSE 0

\* What is remembered of a write makes as many transactions as a host line.
SplitsAlike(u, s) ==
  \A k \in DOMAIN s.lastWrites :
    PartCount(u, Len(s.lastWrites[k])) = PartCount(u, u.org.line)

\* Where a stream stands: behind the control sequence, within its limit, and in
\* a trace at the line its count says.
OnCourse(u, s) ==
  /\ s.control <= Controls(u)
  /\ u.requests # 0 => s.emitted <= u.requests
  /\ u.source # "trace" => s.nextId = s.emitted
  /\ u.source = "trace" =>
       /\ InTrace(u, s)
       /\ \A g : LinesUpTo(u, g) => g[s.line - 1] = s.emitted + Ahead(s.burst)
       /\ WeighsLines(u) => SplitsAlike(u, s)

\* The bytes of a host request without its other fields.
LEMMA HostBytesOf ==
  ASSUME NEW u, NEW h, NEW g, g.payload = h.payload, g.expected = h.expected, g.mask = h.mask
  PROVE  HostBytes(u, g) = HostBytes(u, h)
BY DEF HostBytes

\* Synthetic requests are for whole host lines.
LEMMA SyntheticLines ==
  ASSUME NEW u, Legal(u), NEW s \in Streams(u), NEW x \in SyntheticNext(u, s)
  PROVE  x.host.type # "control" /\ HostBytes(u, x.host) = u.org.line
<1> DEFINE h == x.host
           n == u.org.line
<1>1. h \in Hosts(u) /\ n \in Nat \ {0}
  BY SyntheticTaken, LegalParts DEF Takes, Taken
<1>2. /\ h.type \in {"read", "write"} /\ h.expected = <<>>
      /\ h.payload = <<>> \/ \E a : h.payload = [i \in 1 .. n |-> <<a, s.nextId, i>>]
  <2>1. ~(s.nextId >= u.requests)
    BY DEF SyntheticNext
  <2>2. PICK type \in TypesOf(u.readRatio), a \in SyntheticAddresses(u, s) :
        h = [HostOf(s, type, a, s.nextId * u.interval, None) EXCEPT
               !.payload = IF type = "write" THEN MakePayload(a, s.nextId, u.org.line)
                           ELSE <<>>]
    BY <2>1 DEF SyntheticNext
  <2> HIDE DEF h
  <2> QED BY <2>2 DEF HostOf, MakePayload, TypesOf
<1> HIDE DEF h, n
<1>3. CASE h.payload = <<>>
  <2>1. HostBytes(u, h) = n
    BY <1>1, <1>2, <1>3, HostLine DEF n
  <2> QED BY <1>2, <2>1 DEF h, n
<1>4. CASE h.payload # <<>>
  <2>1. PICK a : h.payload = [i \in 1 .. n |-> <<a, s.nextId, i>>]
    BY <1>2, <1>4
  <2>2. Len(h.payload) = n
    BY <1>1, <2>1
  <2>3. HostBytes(u, h) = n
    BY <1>1, <1>2, <1>4, <2>2, HostLine
  <2> QED BY <1>2, <2>3 DEF h, n
<1> QED BY <1>3, <1>4

\* A line of a trace whose lines have alike many transactions.
LEMMA LinesAlike ==
  ASSUME NEW u, Legal(u), u.source = "trace", WeighsLines(u),
         NEW s \in Streams(u), SplitsAlike(u, s),
         NEW x \in TraceNext(u, s), ~x.next.failed,
         NEW i, NEW c, NEW n, LineStep(u, s, x, i, c, n)
  PROVE  SplitSize(u, x.host) = PartCount(u, u.org.line) /\ SplitsAlike(u, x.next)
<1> DEFINE t == u.trace[i]
           h == x.host
           m == PartCount(u, u.org.line)
<1>1. h \in Hosts(u) /\ LineEmitted(u, s, x, t, c, n) /\ LineParts(u, t) = m
  BY TraceTaken DEF Takes, Taken, LineStep, WeighsLines
<1>2. /\ h.type = TypeOf(t) /\ SizeGiven(u, s, h, t)
      /\ x.next.lastWrites = RememberWrite(u, s, h)
  BY <1>1 DEF LineEmitted
<1>3. t.op = "M" <=> TypeOf(t) = "control"
  BY DEF TypeOf
<1> HIDE DEF h, m, t
<1>4. SplitSize(u, h) = m
  <2>1. CASE TypeOf(t) = "control"
    BY <1>1, <1>2, <1>3, <2>1 DEF SplitSize, LineParts
  <2>2. CASE TypeOf(t) # "control" /\ HostBytes(u, h) = t.size
    BY <1>1, <1>2, <1>3, <2>2 DEF SplitSize, LineParts
  <2>3. CASE /\ TypeOf(t) = "read" /\ AddressKey(h) \in DOMAIN s.lastWrites
             /\ HostBytes(u, h) = Len(s.lastWrites[AddressKey(h)])
    <3>1. PartCount(u, HostBytes(u, h)) = m
      BY <2>3 DEF SplitsAlike, m
    <3> QED BY <1>2, <2>3, <3>1 DEF SplitSize
  <2> QED BY <1>2, <2>1, <2>2, <2>3 DEF SizeGiven
<1>5. SplitsAlike(u, x.next)
  <2> DEFINE key == AddressKey(h)
  <2>1. CASE h.type = "write"
    <3>1. h.payload # <<>>
      BY <1>1, <2>1 DEF Hosts, HostSound
    <3>2. HostBytes(u, h) = Len(h.payload)
      BY <1>1, <2>1, <3>1, HostLine
    <3>3. PartCount(u, Len(h.payload)) = m
      BY <1>4, <2>1, <3>2 DEF SplitSize
    <3> HIDE DEF key
    <3>4. \/ x.next.lastWrites = s.lastWrites
          \/ x.next.lastWrites = With(s.lastWrites, key, h.payload)
      BY <1>2 DEF RememberWrite, key
    <3> QED BY <3>3, <3>4 DEF SplitsAlike, With, m
  <2>2. CASE h.type # "write"
    <3>1. x.next.lastWrites = s.lastWrites
      BY <1>2, <2>2 DEF RememberWrite
    <3> QED BY <3>1 DEF SplitsAlike
  <2> QED BY <2>1, <2>2
<1> QED BY <1>4, <1>5 DEF h, m

\* A host line keeps that.
LEMMA LinesCounted ==
  ASSUME NEW u, Legal(u), NEW s \in Streams(u), NEW x, ~x.next.failed,
         InTrace(u, s), NEW g, LinesUpTo(u, g),
         g[s.line - 1] = s.emitted + Ahead(s.burst),
         NEW i, NEW c, NEW n, LineStep(u, s, x, i, c, n)
  PROVE  g[x.next.line - 1] = x.next.emitted + Ahead(x.next.burst)
<1> DEFINE t == u.trace[i]
           m == HostLines(t)
<1>1. /\ i \in DOMAIN u.trace /\ n \in Nat /\ n < m
      /\ x.next.line = i + 1 /\ x.next.emitted = s.emitted + 1
      /\ x.next.burst = IF n + 1 < m THEN BurstAt(t, c, n + 1) ELSE NoBurst
      /\ s.burst.active => i = s.line - 1 /\ n > 0 /\ s.burst = BurstAt(t, c, n)
      /\ ~s.burst.active => i = s.line /\ n = 0
  BY DEF LineStep, LineEmitted
<1>2. i \in Nat \ {0} /\ i \in 1 .. Len(u.trace) /\ m \in Nat \ {0}
      /\ (IsBurst(t) => m = t.length) /\ (~IsBurst(t) => m = 1)
  BY <1>1, LegalParts, LenProperties, LineOf DEF HostLines
<1>3. g[i] = g[i - 1] + m /\ g[i] \in Nat /\ g[i - 1] \in Nat
  <2>1. g[i] = g[i - 1] + m
    BY <1>1 DEF LinesUpTo
  <2>2. i \in 0 .. Len(u.trace) /\ i - 1 \in 0 .. Len(u.trace)
    BY <1>2
  <2> QED BY <2>1, <2>2 DEF LinesUpTo
<1>4. s.emitted \in Nat
  BY DEF Streams
<1>5. \A k : /\ BurstAt(t, c, k).active /\ BurstAt(t, c, k).count = t.length
             /\ BurstAt(t, c, k).line = k
  BY DEF BurstAt
<1>6. ~NoBurst.active
  BY DEF NoBurst
<1>7. Ahead(x.next.burst) = m - (n + 1)
  <2>1. CASE n + 1 < m
    <3>1. m = t.length
      BY <1>1, <1>2, <2>1
    <3> HIDE DEF t, m
    <3> QED BY <1>1, <1>5, <2>1, <3>1 DEF Ahead
  <2>2. CASE ~(n + 1 < m)
    <3> HIDE DEF t, m
    <3> QED BY <1>1, <1>2, <1>6, <2>2 DEF Ahead
  <2> QED BY <2>1, <2>2
<1>8. g[i] = s.emitted + (m - n)
  <2>1. CASE s.burst.active
    <3>1. i = s.line - 1 /\ s.burst = BurstAt(t, c, n) /\ n > 0
      BY <1>1, <2>1
    <3>2. m = t.length
      BY <1>1, <1>2, <3>1
    <3> HIDE DEF t, m
    <3>3. Ahead(s.burst) = m - n
      BY <1>5, <3>1, <3>2 DEF Ahead
    <3> QED BY <3>1, <3>3
  <2>2. CASE ~s.burst.active
    <3>1. i = s.line /\ n = 0
      BY <1>1, <2>2
    <3>2. Ahead(s.burst) = 0
      BY <2>2 DEF Ahead
    <3> HIDE DEF t, m
    <3>3. g[i - 1] = s.emitted + 0
      BY <3>1, <3>2
    <3>4. g[i - 1] = s.emitted
      BY <1>4, <3>3
    <3> QED BY <1>2, <1>3, <1>4, <3>1, <3>4
  <2> QED BY <2>1, <2>2
<1>9. x.next.line - 1 = i
  BY <1>1, <1>2
<1>10. x.next.emitted + Ahead(x.next.burst) = s.emitted + (m - n)
  <2>1. x.next.emitted = s.emitted + 1 /\ n \in Nat
    BY <1>1
  <2> HIDE DEF t, m
  <2> DEFINE a == Ahead(x.next.burst)
  <2>2. a = m - (n + 1) /\ m \in Nat
    BY <1>2, <1>7
  <2> HIDE DEF a
  <2>3. x.next.emitted + a = s.emitted + (m - n)
    BY <1>4, <2>1, <2>2
  <2> QED BY <2>3 DEF a
<1> QED BY <1>8, <1>9, <1>10

\* A request of the source.
LEMMA CourseSteps ==
  ASSUME NEW u, Legal(u), NEW s \in Streams(u), OnCourse(u, s),
         NEW y, Advances(u, s, y), ~y.next.failed
  PROVE  /\ OnCourse(u, y.next)
         /\ \/ /\ y.host.type = "control" /\ s.control < Controls(u)
               /\ y.next.control = s.control + 1 /\ y.next.emitted = s.emitted
            \/ /\ y.next.control = s.control /\ y.next.emitted = s.emitted + 1
               /\ WeighsLines(u) => SplitSize(u, y.host) = PartCount(u, u.org.line)
<1>0. Controls(u) \in Nat /\ s.control \in Nat /\ s.emitted \in Nat /\ u.requests \in Nat
  BY ControlsNat, LegalParts DEF Streams
<1>1. CASE /\ s.control < Controls(u) /\ y.host.type = "control"
           /\ y.next = [s EXCEPT !.control = s.control + 1]
  <2>1. \A k \in Nat : LET z == [s EXCEPT !.control = k]
          IN /\ z.control = k /\ z.emitted = s.emitted /\ z.nextId = s.nextId
             /\ z.line = s.line /\ z.burst = s.burst /\ z.lastWrites = s.lastWrites
    BY DEF Streams
  <2>2. /\ y.next.control = s.control + 1 /\ y.next.emitted = s.emitted
        /\ y.next.nextId = s.nextId /\ y.next.line = s.line /\ y.next.burst = s.burst
        /\ y.next.lastWrites = s.lastWrites
    <3>1. s.control + 1 \in Nat
      BY <1>0
    <3> QED BY <1>1, <2>1, <3>1
  <2>3. y.next.control <= Controls(u)
    BY <1>0, <1>1, <2>2
  <2>4. OnCourse(u, y.next)
    BY <2>2, <2>3 DEF OnCourse, InTrace, SplitsAlike
  <2> QED BY <1>1, <2>2, <2>4
<1> DEFINE Shifted(h) == [h EXCEPT !.id = h.id + Controls(u), !.cycle = h.cycle + Shift(u)]
<1>2. CASE \E z \in IF u.source = "trace" THEN TraceNext(u, s) ELSE SyntheticNext(u, s) :
             Takes(u, s, z) /\ y.next = z.next /\ y.host = Shifted(z.host)
  <2>1. PICK z \in IF u.source = "trace" THEN TraceNext(u, s) ELSE SyntheticNext(u, s) :
          Takes(u, s, z) /\ y.next = z.next /\ y.host = Shifted(z.host)
    BY <1>2
  <2>0. SplitSize(u, y.host) = SplitSize(u, z.host) /\ y.host.type = z.host.type
    <3>1. z.host \in HostRecords
      BY <2>1 DEF Takes, Taken, Hosts
    <3>2. /\ y.host.type = z.host.type /\ y.host.payload = z.host.payload
          /\ y.host.expected = z.host.expected /\ y.host.mask = z.host.mask
      BY <2>1, <3>1 DEF HostRecords
    <3>3. HostBytes(u, y.host) = HostBytes(u, z.host)
      BY <3>2, HostBytesOf
    <3> QED BY <3>2, <3>3 DEF SplitSize
  <2>2. /\ y.next.control = s.control /\ y.next.emitted = s.emitted + 1
        /\ y.next.nextId = s.nextId + 1
    BY <2>1 DEF Takes, Moves
  <2>3. y.next.control <= Controls(u)
    BY <2>2 DEF OnCourse
  <2>4. CASE u.source = "trace"
    <3>1. z \in TraceNext(u, s) /\ InTrace(u, s) /\ ~z.next.failed
      BY <2>1, <2>4 DEF OnCourse
    <3>2. ~LimitReached(u, s)
      BY <3>1, TraceTaken
    <3>3. u.requests # 0 => y.next.emitted <= u.requests
      BY <1>0, <2>2, <3>2 DEF LimitReached
    <3>4. PICK i \in DOMAIN u.trace : \E c \in Nat : \E n \in Nat :
            LineStep(u, s, z, i, c, n)
      BY <3>1, TraceSteps
    <3>5. PICK c \in Nat : \E n \in Nat : LineStep(u, s, z, i, c, n)
      BY <3>4
    <3>6. PICK n \in Nat : LineStep(u, s, z, i, c, n)
      BY <3>5
    <3>7. InTrace(u, y.next)
      BY <2>1, <3>1, <3>6, StaysInTrace
    <3>8. \A g : LinesUpTo(u, g) =>
            g[y.next.line - 1] = y.next.emitted + Ahead(y.next.burst)
      BY <2>1, <2>4, <3>1, <3>6, LinesCounted DEF OnCourse
    <3>9. WeighsLines(u) =>
            SplitSize(u, z.host) = PartCount(u, u.org.line) /\ SplitsAlike(u, y.next)
      <4> SUFFICES ASSUME WeighsLines(u)
                   PROVE  SplitSize(u, z.host) = PartCount(u, u.org.line) /\ SplitsAlike(u, y.next)
        OBVIOUS
      <4>1. SplitsAlike(u, s)
        BY <2>4 DEF OnCourse
      <4> QED BY <2>1, <2>4, <3>1, <3>6, <4>1, LinesAlike
    <3> QED BY <2>0, <2>2, <2>3, <2>4, <3>3, <3>7, <3>8, <3>9 DEF OnCourse
  <2>5. CASE u.source # "trace"
    <3>1. s.nextId < u.requests
      BY <2>1, <2>5, SyntheticTaken
    <3>2. s.nextId = s.emitted
      BY <2>5 DEF OnCourse
    <3>3. y.next.emitted <= u.requests
      BY <1>0, <2>2, <3>1, <3>2
    <3>4. SplitSize(u, z.host) = PartCount(u, u.org.line)
      BY <2>1, <2>5, SyntheticLines DEF SplitSize
    <3> QED BY <2>0, <2>2, <2>3, <2>5, <3>2, <3>3, <3>4 DEF OnCourse
  <2> QED BY <2>4, <2>5
<1> QED BY <1>1, <1>2 DEF Advances

\* Handing out a transaction keeps what was handed out and what is left of the
\* host lines together.
LEMMA HandedOut ==
  ASSUME NEW u, Legal(u), NEW s \in Streams(u), OnCourse(u, s),
         WeighsControls(u), WeighsLines(u),
         s.transactions + Len(s.pending)
           = s.control + s.emitted * PartCount(u, u.org.line),
         NEW x \in StreamNext(u, s), ~x.next.failed
  PROVE  /\ OnCourse(u, x.next)
         /\ x.next.transactions + Len(x.next.pending)
              = x.next.control + x.next.emitted * PartCount(u, u.org.line)
<1> DEFINE m == PartCount(u, u.org.line)
<1>0. /\ m \in Nat \ {0} /\ s.transactions \in Nat /\ s.pending \in Seq(Incoming(u))
      /\ s.control \in Nat /\ s.emitted \in Nat /\ Controls(u) \in Nat
      /\ Len(s.pending) \in Nat
  <2>1. m \in Nat \ {0}
    BY LegalParts, PartCountNat
  <2> HIDE DEF m
  <2> QED BY <2>1, ControlsNat, LenProperties DEF Streams
<1> HIDE DEF m
<1>1. x.next \in Streams(u) /\ (FromPending(u, s, x) \/ FromSource(u, s, x))
  BY StreamTyped
<1>2. CASE FromPending(u, s, x)
  <2>1. /\ s.pending # <<>>
        /\ x.next = [s EXCEPT !.pending = Tail(s.pending),
                              !.transactions = s.transactions + 1]
    BY <1>2 DEF FromPending
  <2>2. /\ Tail(s.pending) \in Seq(Incoming(u))
        /\ Len(Tail(s.pending)) = Len(s.pending) - 1 /\ Len(s.pending) # 0
    BY <1>0, <2>1
  <2>3. \A q \in Seq(Incoming(u)) : \A n \in Nat :
          LET z == [s EXCEPT !.pending = q, !.transactions = n]
          IN /\ z.pending = q /\ z.transactions = n /\ z.line = s.line
             /\ z.burst = s.burst /\ z.emitted = s.emitted /\ z.control = s.control
             /\ z.nextId = s.nextId /\ z.lastWrites = s.lastWrites
    BY DEF Streams
  <2>4. s.transactions + 1 \in Nat
    BY <1>0
  <2>5. /\ x.next.pending = Tail(s.pending) /\ x.next.transactions = s.transactions + 1
        /\ x.next.line = s.line /\ x.next.burst = s.burst /\ x.next.emitted = s.emitted
        /\ x.next.control = s.control /\ x.next.nextId = s.nextId
        /\ x.next.lastWrites = s.lastWrites
    BY <2>1, <2>2, <2>3, <2>4
  <2>6. OnCourse(u, x.next)
    BY <2>5 DEF OnCourse, InTrace, SplitsAlike
  <2>7. x.next.transactions + Len(x.next.pending) = s.transactions + Len(s.pending)
    BY <1>0, <2>2, <2>5
  <2> QED BY <2>5, <2>6, <2>7
<1>3. CASE FromSource(u, s, x)
  <2>1. s.pending = <<>>
    BY <1>3 DEF FromSource
  <2>2. PICK y \in HostNext(u, s) :
          /\ Advances(u, s, y)
          /\ x.next = [y.next EXCEPT !.pending = Tail(SplitHost(u, y.host)),
                                     !.transactions = s.transactions + 1]
    BY <1>3 DEF FromSource
  <2> DEFINE q == SplitHost(u, y.host)
  <2>3. y.next \in Streams(u) /\ y.host \in Hosts(u)
    BY <2>2 DEF Advances, Taken
  <2>4. /\ q \in Seq(Incoming(u)) /\ Len(q) = SplitSize(u, y.host)
        /\ SplitSize(u, y.host) \in Nat \ {0}
    BY <2>3, SplitTyped
  <2> HIDE DEF q
  <2>5. Tail(q) \in Seq(Incoming(u)) /\ Len(Tail(q)) = SplitSize(u, y.host) - 1
    <3>1. q # <<>>
      BY <2>4
    <3> QED BY <2>4, <3>1
  <2>6. \A p \in Seq(Incoming(u)) : \A n \in Nat :
          LET z == [y.next EXCEPT !.pending = p, !.transactions = n]
          IN /\ z.pending = p /\ z.transactions = n /\ z.line = y.next.line
             /\ z.burst = y.next.burst /\ z.emitted = y.next.emitted
             /\ z.control = y.next.control /\ z.nextId = y.next.nextId
             /\ z.failed = y.next.failed /\ z.lastWrites = y.next.lastWrites
    BY <2>3 DEF Streams
  <2>7. s.transactions + 1 \in Nat
    BY <1>0
  <2>8. /\ x.next.pending = Tail(q) /\ x.next.transactions = s.transactions + 1
        /\ x.next.line = y.next.line /\ x.next.burst = y.next.burst
        /\ x.next.emitted = y.next.emitted /\ x.next.control = y.next.control
        /\ x.next.nextId = y.next.nextId /\ x.next.failed = y.next.failed
        /\ x.next.lastWrites = y.next.lastWrites
    BY <2>2, <2>5, <2>6, <2>7 DEF q
  <2>9. /\ OnCourse(u, y.next)
        /\ \/ /\ y.host.type = "control" /\ s.control < Controls(u)
              /\ y.next.control = s.control + 1 /\ y.next.emitted = s.emitted
           \/ /\ y.next.control = s.control /\ y.next.emitted = s.emitted + 1
              /\ SplitSize(u, y.host) = m
    BY <2>2, <2>8, CourseSteps DEF m
  <2>10. OnCourse(u, x.next)
    BY <2>8, <2>9 DEF OnCourse, InTrace, SplitsAlike
  <2>11. x.next.transactions + Len(x.next.pending) = s.transactions + SplitSize(u, y.host)
    <3>1. Len(x.next.pending) = SplitSize(u, y.host) - 1
      BY <2>5, <2>8, Zenon
    <3> DEFINE n == SplitSize(u, y.host)
    <3>2. x.next.transactions = s.transactions + 1 /\ n \in Nat
      BY <2>4, <2>8
    <3>3. Len(x.next.pending) = n - 1
      BY <3>1
    <3> DEFINE a == x.next.transactions
               b == Len(x.next.pending)
               c == s.transactions
    <3>4. c \in Nat /\ a = c + 1 /\ b = n - 1 /\ n \in Nat
      BY <1>0, <3>2, <3>3
    <3> HIDE DEF n, a, b, c
    <3>5. a + b = c + n
      BY <3>4
    <3> QED BY <3>5 DEF n, a, b, c
  <2>12. s.transactions = s.control + s.emitted * m
    <3>1. Len(s.pending) = 0
      BY <2>1
    <3> QED BY <1>0, <3>1 DEF m
  <2>13. s.emitted * m \in Nat /\ (s.emitted + 1) * m = s.emitted * m + m
    BY <1>0, ProductNat
  <2>14. CASE /\ y.host.type = "control" /\ s.control < Controls(u)
              /\ y.next.control = s.control + 1 /\ y.next.emitted = s.emitted
    <3>1. SplitSize(u, y.host) = 1
      BY <2>14 DEF SplitSize
    <3>2. x.next.control = s.control + 1 /\ x.next.emitted = s.emitted
      BY <2>8, <2>14
    <3> QED BY <1>0, <2>10, <2>11, <2>12, <2>13, <3>1, <3>2 DEF m
  <2>15. CASE /\ y.next.control = s.control /\ y.next.emitted = s.emitted + 1
              /\ SplitSize(u, y.host) = m
    <3>1. SplitSize(u, y.host) = m
      BY <2>15
    <3>2. x.next.control = s.control /\ x.next.emitted = s.emitted + 1
      BY <2>8, <2>15
    <3> QED BY <1>0, <2>10, <2>11, <2>12, <2>13, <3>1, <3>2, SMTT(60) DEF m
  <2> QED BY <2>9, <2>14, <2>15
<1> QED BY <1>1, <1>2, <1>3

\* A stream that ends has handed out the whole workload.
LEMMA EndsAtLimit ==
  ASSUME NEW u, Legal(u), u.requests # 0, CountsLines(u), NEW s \in Streams(u),
         OnCourse(u, s), StreamNext(u, s) = {}
  PROVE  s.pending = <<>> /\ s.control = Controls(u) /\ s.emitted = u.requests
<1>0. Controls(u) \in Nat /\ s.control \in Nat /\ s.emitted \in Nat /\ u.requests \in Nat
      /\ s.control <= Controls(u) /\ s.emitted <= u.requests
  BY ControlsNat, LegalParts DEF Streams, OnCourse
<1>1. s.pending = <<>>
  <2> SUFFICES ASSUME s.pending # <<>>
               PROVE  FALSE
    OBVIOUS
  <2> QED BY Zenon DEF StreamNext
<1>2. HostNext(u, s) = {}
  <2> SUFFICES ASSUME NEW y \in HostNext(u, s)
               PROVE  FALSE
    OBVIOUS
  <2> DEFINE W == {[hosts |-> {z.host},
                    next |-> [z.next EXCEPT !.pending = SplitHost(u, z.host)]] :
                   z \in HostNext(u, s)}
             F(w) == [part |-> [Head(w.next.pending) EXCEPT !.id = s.transactions],
                      hosts |-> w.hosts,
                      next |-> [w.next EXCEPT !.pending = Tail(@), !.transactions = @ + 1]]
  <2>1. StreamNext(u, s) = {F(w) : w \in W}
    BY <1>1, Zenon DEF StreamNext
  <2>2. \E w : w \in W
    OBVIOUS
  <2>3. PICK w : w \in W
    BY <2>2
  <2> HIDE DEF F, W
  <2>4. F(w) \in StreamNext(u, s)
    BY <2>1, <2>3
  <2> QED BY <2>4
<1>3. s.control = Controls(u)
  <2> SUFFICES ASSUME s.control < Controls(u)
               PROVE  FALSE
    BY <1>0
  <2> QED BY <1>2 DEF HostNext
<1>4. (IF u.source = "trace" THEN TraceNext(u, s) ELSE SyntheticNext(u, s)) = {}
  <2>1. ~(s.control < Controls(u))
    BY <1>0, <1>3
  <2> QED BY <1>2, <2>1 DEF HostNext
<1>5. CASE u.source = "trace"
  <2> SUFFICES ASSUME s.emitted < u.requests
               PROVE  FALSE
    BY <1>0, <1>1, <1>3
  <2>1. TraceNext(u, s) = {} /\ ~LimitReached(u, s)
    BY <1>0, <1>4, <1>5 DEF LimitReached
  <2>2. ~s.burst.active
    BY <2>1 DEF TraceNext
  <2>3. s.line > Len(u.trace)
    <3> SUFFICES ASSUME ~(s.line > Len(u.trace))
                 PROVE  FALSE
      OBVIOUS
    <3>1. CASE u.trace[s.line].op \in {"BR", "BW"}
      BY <2>1, <2>2, <3>1 DEF TraceNext
    <3>2. CASE u.trace[s.line].op \notin {"BR", "BW"} /\ u.trace[s.line].op = "M"
      BY <2>1, <2>2, <3>2 DEF TraceNext
    <3>3. CASE u.trace[s.line].op \notin {"BR", "BW"} /\ u.trace[s.line].op # "M"
      BY <2>1, <2>2, <3>3 DEF TraceNext
    <3> QED BY <3>1, <3>2, <3>3
  <2>4. s.line - 1 = Len(u.trace)
    <3>1. s.line \in 1 .. Len(u.trace) + 1 /\ Len(u.trace) \in Nat
      BY <1>5, LegalParts, LenProperties DEF OnCourse, InTrace
    <3> QED BY <2>3, <3>1
  <2>5. PICK g : LinesUpTo(u, g) /\ u.requests <= g[Len(u.trace)]
    BY <1>5 DEF CountsLines, LongEnough
  <2>6. g[s.line - 1] = s.emitted + Ahead(s.burst)
    BY <1>5, <2>5 DEF OnCourse
  <2>7. Ahead(s.burst) = 0
    BY <2>2 DEF Ahead
  <2>8. u.requests <= s.emitted + 0
    BY <2>4, <2>5, <2>6, <2>7
  <2> QED BY <1>0, <2>8
<1>6. CASE u.source # "trace"
  <2> SUFFICES ASSUME s.emitted < u.requests
               PROVE  FALSE
    BY <1>0, <1>1, <1>3
  <2>1. SyntheticNext(u, s) = {} /\ s.nextId < u.requests /\ s.nextId \in Nat
    BY <1>4, <1>6 DEF OnCourse, Streams
  <2>2. \E type : type \in TypesOf(u.readRatio)
    <3>1. u.readRatio \in 0 .. 100
      BY DEF Legal, Options
    <3>2. CASE u.readRatio > 0
      BY <3>2 DEF TypesOf
    <3>3. CASE ~(u.readRatio > 0)
      <4>1. u.readRatio < 100
        BY <3>1, <3>3
      <4> QED BY <4>1 DEF TypesOf
    <3> QED BY <3>2, <3>3
  <2>3. \E a : a \in SyntheticAddresses(u, s)
    <3>1. CASE u.source = "random"
      <4> DEFINE n == u.org.line
                 d == AddressSpace(u) - n
      <4>1. AddressSpace(u) \in n .. Aggregate(u)
        BY <1>6 DEF Legal, SpaceAllowed
      <4>2. n \in Nat \ {0}
        BY LegalParts
      <4>3. Aggregate(u) \in Int
        <5>1. u.map.capacity \in Nat /\ u.map.stacks \in Nat
          BY LegalParts DEF StackMaps
        <5> QED BY <5>1, ProductNat DEF Aggregate
      <4>4. d \in Nat
        <5> HIDE DEF n
        <5> QED BY <4>1, <4>2, <4>3
      <4>5. d \div n \in Nat
        <5> HIDE DEF n, d
        <5> QED BY <4>2, <4>4, Division
      <4>6. 0 \in 0 .. RandomStartCount(u) - 1
        <5>1. RandomStartCount(u) = 1 + (d \div n)
          BY DEF RandomStartCount
        <5> HIDE DEF n, d
        <5> QED BY <4>5, <5>1
      <4>7. 0 * u.org.line \in SyntheticAddresses(u, s)
        BY <3>1, <4>6 DEF SyntheticAddresses
      <4> QED BY <4>7
    <3>2. CASE u.source # "random"
      BY <3>2 DEF SyntheticAddresses
    <3> QED BY <3>1, <3>2
  <2>4. ~(s.nextId >= u.requests)
    BY <1>0, <2>1
  <2> DEFINE G(type, a) ==
               [host |-> [HostOf(s, type, a, s.nextId * u.interval, None) EXCEPT
                            !.payload = IF type = "write"
                                        THEN MakePayload(a, s.nextId, u.org.line)
                                        ELSE <<>>],
                next |-> Accounted(s)]
  <2>5. SyntheticNext(u, s) =
          {G(type, a) : type \in TypesOf(u.readRatio), a \in SyntheticAddresses(u, s)}
    BY <2>4 DEF SyntheticNext
  <2>6. PICK type : type \in TypesOf(u.readRatio)
    BY <2>2
  <2>7. PICK a : a \in SyntheticAddresses(u, s)
    BY <2>3
  <2> HIDE DEF G
  <2>8. G(type, a) \in SyntheticNext(u, s)
    BY <2>5, <2>6, <2>7
  <2> QED BY <2>1, <2>8
<1> QED BY <1>1, <1>3, <1>5, <1>6

AllCounted == \A u \in Setups : CountsLines(u)

\* Transactions handed out and in pending_ are those of the host lines emitted,
\* and a source that is done has emitted its limit.
Counted ==
  setup.requests # 0 /\ status # "threw" =>
    /\ OnCourse(setup, stream)
    /\ stream.transactions + Len(stream.pending)
         = stream.control + stream.emitted * PartCount(setup, setup.org.line)
    /\ sourceDone => /\ stream.pending = <<>> /\ stream.control = Controls(setup)
                     /\ stream.emitted = setup.requests

\* The initial stream is on course.
LEMMA CourseStarts ==
  ASSUME NEW u, Legal(u)
  PROVE  OnCourse(u, InitialStream)
<1> DEFINE s == InitialStream
<1>2. /\ s.line = 1 /\ s.nextId = 0 /\ s.emitted = 0 /\ s.burst = NoBurst
      /\ s.control = 0 /\ s.pending = <<>> /\ s.transactions = 0
      /\ DOMAIN s.lastWrites = {}
  BY DEF InitialStream
<1>8. SplitsAlike(u, s)
  BY <1>2 DEF SplitsAlike
<1>3. ~NoBurst.active
  BY DEF NoBurst
<1>4. /\ Controls(u) \in Nat /\ PartCount(u, u.org.line) \in Nat /\ u.requests \in Nat
      /\ Len(u.trace) \in Nat
  BY ControlsNat, PartCountNat, LegalParts, LenProperties
<1>5. InTrace(u, s)
  BY <1>2, <1>3, <1>4 DEF InTrace
<1>6. \A g : LinesUpTo(u, g) => g[s.line - 1] = s.emitted + Ahead(s.burst)
  <2> SUFFICES ASSUME NEW g, LinesUpTo(u, g)
               PROVE  g[s.line - 1] = s.emitted + Ahead(s.burst)
    OBVIOUS
  <2>1. g[0] = 0
    BY DEF LinesUpTo
  <2>2. Ahead(s.burst) = 0
    BY <1>2, <1>3 DEF Ahead
  <2>3. s.line - 1 = 0
    BY <1>2
  <2> QED BY <1>2, <2>1, <2>2, <2>3
<1> HIDE DEF s
<1>7. OnCourse(u, s)
  BY <1>2, <1>4, <1>5, <1>6, <1>8 DEF OnCourse
<1> QED BY <1>7 DEF s

\* The count starts right.
LEMMA CountedStarts == Init => Counted
<1> SUFFICES ASSUME Init
             PROVE  Counted
  OBVIOUS
<1> DEFINE u == setup
           s == InitialStream
<1>1. u \in Setups /\ Legal(u) /\ stream = s /\ ~sourceDone
  BY SetupsAreLegal DEF Init
<1>2. s.emitted = 0 /\ s.control = 0 /\ s.pending = <<>> /\ s.transactions = 0
  BY DEF InitialStream
<1>3. PartCount(u, u.org.line) \in Nat
  BY <1>1, LegalParts, PartCountNat
<1>4. OnCourse(u, s)
  BY <1>1, CourseStarts
<1> HIDE DEF s
<1>5. s.transactions + Len(s.pending) = s.control + s.emitted * PartCount(u, u.org.line)
  BY <1>2, <1>3
<1> QED BY <1>1, <1>4, <1>5 DEF Counted

\* Every step keeps the count.
LEMMA CountedStays ==
  ASSUME AllCounted
  PROVE  FrontendTyped /\ Counted /\ [Next]_vars => Counted'
<1> SUFFICES ASSUME FrontendTyped, Counted, [Next]_vars
             PROVE  Counted'
  OBVIOUS
<1>1. setup \in Setups /\ Legal(setup) /\ stream \in Streams(setup) /\ CountsLines(setup)
  BY SetupsAreLegal DEF FrontendTyped, SourceTyped, AllCounted
<1>2. CASE Fetch
  <2>1. PICK x \in StreamNext(setup, stream) :
          /\ stream' = x.next
          /\ status' = IF x.next.failed \/ x.part.cycle < lastCycle THEN "threw" ELSE status
    BY <1>2 DEF Fetch
  <2>2. setup' = setup /\ sourceDone' = sourceDone /\ ~sourceDone /\ status = "running"
    BY <1>2 DEF Fetch, Running
  <2>3. CASE setup.requests = 0 \/ x.next.failed
    BY <2>1, <2>2, <2>3 DEF Counted
  <2>4. CASE setup.requests # 0 /\ ~x.next.failed
    <3>1. /\ OnCourse(setup, stream)
          /\ stream.transactions + Len(stream.pending)
               = stream.control + stream.emitted * PartCount(setup, setup.org.line)
          /\ WeighsControls(setup) /\ WeighsLines(setup)
      BY <1>1, <2>2, <2>4 DEF Counted, CountsLines
    <3>2. /\ OnCourse(setup, x.next)
          /\ x.next.transactions + Len(x.next.pending)
               = x.next.control + x.next.emitted * PartCount(setup, setup.org.line)
      BY <1>1, <2>1, <2>4, <3>1, HandedOut
    <3> QED BY <2>1, <2>2, <3>2 DEF Counted
  <2> QED BY <2>3, <2>4
<1>3. CASE SourceEnds
  <2>1. /\ setup' = setup /\ stream' = stream /\ status' = status
        /\ StreamNext(setup, stream) = {}
    BY <1>3 DEF SourceEnds
  <2>2. CASE setup.requests # 0 /\ status # "threw"
    <3>1. stream.pending = <<>> /\ stream.control = Controls(setup)
          /\ stream.emitted = setup.requests
      BY <1>1, <2>1, <2>2, EndsAtLimit DEF Counted
    <3> QED BY <2>1, <2>2, <3>1 DEF Counted
  <2>3. CASE ~(setup.requests # 0 /\ status # "threw")
    BY <2>1, <2>3 DEF Counted
  <2> QED BY <2>2, <2>3
<1>4. ASSUME setup' = setup, stream' = stream, sourceDone' = sourceDone,
             status' # "threw" => status # "threw"
      PROVE  Counted'
  BY <1>4 DEF Counted
<1>5. CASE Enqueue \/ StepBegins \/ Finish
  <2>1. status = "running"
    BY <1>5 DEF Enqueue, StepBegins, Finish, Running
  <2>2. setup' = setup /\ stream' = stream /\ sourceDone' = sourceDone
    BY <1>5 DEF Enqueue, StepBegins, Finish
  <2> QED BY <1>4, <2>1, <2>2
<1>6. CASE \E c \in Controllers : ControllerStep(c)
  <2>1. \A c, p : Turn(c, p) => /\ setup' = setup /\ stream' = stream
                                /\ sourceDone' = sourceDone /\ status' = status
    BY DEF Turn
  <2> QED BY <1>4, <1>6, <2>1 DEF ControllerStep, ColumnTurn, DropPrecharge, RowTurn
<1>7. CASE UNCHANGED vars
  BY <1>4, <1>7 DEF vars
<1> QED BY <1>2, <1>3, <1>5, <1>6, <1>7 DEF Next, ControllerStep

\* The hint is exact then.
LEMMA CountsAddUp ==
  ASSUME AllCounted
  PROVE  FrontendTyped /\ Counted => RemainingAddsUp
<1> SUFFICES ASSUME FrontendTyped, Counted, status # "threw", setup.requests # 0
             PROVE  Remaining + Injected = Worth
  BY DEF RemainingAddsUp
<1> DEFINE m == PartCount(setup, setup.org.line)
           k == Controls(setup)
           n == setup.requests
           e == stream.emitted
           d == stream.control
           t == stream.transactions
           p == Len(stream.pending)
           h == Cardinality(held)
<1>1. setup \in Setups /\ Legal(setup) /\ stream \in Streams(setup) /\ CountsLines(setup)
  BY SetupsAreLegal DEF FrontendTyped, SourceTyped, AllCounted
<1>2. /\ m \in Nat \ {0} /\ k \in Nat /\ n \in Nat /\ e \in Nat /\ d \in Nat /\ t \in Nat
      /\ stream.pending \in Seq(Incoming(setup))
  BY <1>1, PartCountNat, ControlsNat, LegalParts DEF Streams
<1>3. p \in Nat
  BY <1>2, LenProperties
<1>4. h \in Nat
  <2>1. CASE held = {}
    BY <2>1, FS_EmptySet
  <2>2. CASE held # {}
    <3>1. PICK r : held = {r}
      BY <2>2 DEF FrontendTyped, SourceTyped
    <3> QED BY <3>1, FS_Singleton
  <2> QED BY <2>1, <2>2
<1>5. /\ t + p = d + e * m /\ d <= k /\ e <= n
      /\ sourceDone => stream.pending = <<>> /\ d = k /\ e = n
  BY DEF Counted, OnCourse
<1>6. k = 0 \/ m = 1
  BY <1>1 DEF CountsLines, WeighsControls
<1>7. ~(setup.source = "trace" /\ setup.requests = 0)
  OBVIOUS
<1>8. Worth = k + n * m
  <2>1. InitialStream.pending = <<>> /\ InitialStream.control = 0 /\ InitialStream.emitted = 0
    BY DEF InitialStream
  <2>2. Worth = 0 + ((k - 0) + (n - 0)) * m
    BY <1>7, <2>1 DEF Worth, RemainingHint, HostHint
  <2>3. Worth = (k + n) * m
    BY <1>2, <2>2
  <2> HIDE DEF m, k, n
  <2>4. CASE k = 0
    BY <1>2, <2>3, <2>4
  <2>5. CASE m = 1
    BY <1>2, <2>3, <2>5
  <2> QED BY <1>6, <2>4, <2>5
<1>9. Injected = t - h
  BY DEF Injected
<1>10. e * m \in Nat /\ n * m \in Nat /\ (n - e) * m = n * m - e * m
  BY <1>2, <1>5, ProductNat
<1>11. CASE sourceDone
  <2>1. p = 0
    BY <1>5, <1>11
  <2>2. Remaining = h + 0
    BY <1>11 DEF Remaining
  <2>3. d = k /\ e = n
    BY <1>5, <1>11
  <2> HIDE DEF m, k, n, e, d, t, p, h
  <2> QED BY <1>2, <1>4, <1>5, <1>8, <1>9, <1>10, <2>1, <2>2, <2>3
<1>12. CASE ~sourceDone
  <2>1. Remaining = h + (p + ((k - d) + (n - e)) * m)
    BY <1>7, <1>12 DEF Remaining, RemainingHint, HostHint
  <2>2. ((k - d) + (n - e)) * m = (k - d) + (n * m - e * m)
    <3> HIDE DEF m, k, n, e, d
    <3>1. CASE m = 1
      BY <1>2, <1>5, <3>1
    <3>2. CASE k = 0
      <4>1. d = 0
        BY <1>2, <1>5, <3>2
      <4>2. (k - d) + (n - e) = n - e /\ k - d = 0
        BY <1>2, <3>2, <4>1
      <4> QED BY <1>10, <4>2
    <3> QED BY <1>6, <3>1, <3>2
  <2> HIDE DEF m, k, n, e, d, t, p, h
  <2> QED BY <1>2, <1>3, <1>4, <1>5, <1>8, <1>9, <1>10, <2>1, <2>2
<1> QED BY <1>11, <1>12

\* Whatever cycle cuts a limited run off, the transactions reported as left and
\* those passed on are the workload: pending_, the request run_source() holds, the
\* control sequence and the host lines to come are each counted once.  It holds
\* where remaining_hint() is right to weigh every control command and every line of
\* a trace by the transactions of a host line, and where the trace has the lines the
\* limit asks for (TransactionSplitTrafficStream::remaining_hint(), run_source());
\* for a maintenance line or other bytes it does not, as the configuration UnevenHint shows.
THEOREM WorkloadAddsUp ==
  ASSUME AllCounted
  PROVE  Spec => []RemainingAddsUp
<1>1. Init => FrontendTyped /\ Counted
  BY InitTyped, CountedStarts
<1>2. FrontendTyped /\ Counted /\ [Next]_vars => FrontendTyped' /\ Counted'
  BY NextTyped, CountedStays
<1>3. FrontendTyped /\ Counted => RemainingAddsUp
  BY CountsAddUp
<1> QED BY <1>1, <1>2, <1>3, PTL DEF Spec

-----------------------------------------------------------------------------
(* What makes a run throw *)

\* Nothing is handed out before a cycle that was already handed out: last is the
\* cycle of the last request.
OnTime(u, s, last) ==
  /\ s.control < Controls(u) => s.emitted = 0
  /\ s.nextId = s.emitted
  /\ s.emitted = 0 => last <= s.control * u.controlInterval
  /\ u.source # "trace" /\ s.emitted > 0 =>
       last = Shift(u) + (s.emitted - 1) * u.interval
  /\ u.source = "trace" => \A g : LinesUpTo(u, g) =>
       /\ s.burst.active => s.burst.cycle = Sched(u, g, s.line - 1)
       /\ s.emitted > 0 => s.line > 1 /\ last = Shift(u) + Sched(u, g, s.line - 1)

\* The writes of a trace so far are known by their addresses, and a read of what
\* was written there stays in the stacks.
Recorded(u, s) ==
  u.source = "trace" =>
    /\ TracksLastWrites(u) =>
         \A j \in DOMAIN u.trace : \A m \in Nat :
           /\ TypeOf(u.trace[j]) = "write" /\ m < HostLines(u.trace[j])
           /\ \/ j < s.line - 1
              \/ j = s.line - 1 /\ (s.burst.active => m < s.burst.line)
           => LineKey(u, j, m) \in DOMAIN s.lastWrites
    /\ \A k \in DOMAIN s.lastWrites :
         Reaches(u, k[2], k[1], PartCount(u, Len(s.lastWrites[k])))

-----------------------------------------------------------------------------

\* An address of the system is in a stack.
LEMMA AddressesLocated ==
  ASSUME NEW u, Legal(u), NEW a \in Nat, a < u.map.capacity * u.map.stacks,
         \/ u.map.stacks = 1 \/ u.map.kind = "blocked"
         \/ u.map.capacity % u.map.interleave = 0
  PROVE  Located(u, None, a)
<1> DEFINE n == u.map.stacks
           c == u.map.capacity
           w == u.map.interleave
<1>1. /\ n \in Nat \ {0} /\ c \in Nat \ {0} /\ w \in Nat \ {0}
      /\ u.map.kind \in {"interleaved", "blocked"}
  BY LegalParts DEF StackMaps
<1>2. Located(u, None, a) <=> InStacks(u.map, StackDecode(u.map, a))
  BY DEF Located
<1>3. CASE n = 1
  <2>1. StackDecode(u.map, a) = [stack |-> 0, local |-> a]
    BY <1>3 DEF StackDecode
  <2>2. a < c
    BY <1>1, <1>3
  <2> QED BY <1>2, <1>3, <2>1, <2>2 DEF InStacks
<1>4. CASE n # 1 /\ u.map.kind = "blocked"
  <2>1. StackDecode(u.map, a) = [stack |-> a \div c, local |-> a % c]
    BY <1>4 DEF StackDecode
  <2>2. a \div c \in Nat /\ a \div c < n /\ a % c \in 0 .. c - 1
    <3> HIDE DEF n, c
    <3>1. a < c * n
      BY DEF n, c
    <3> QED BY <1>1, <3>1, QuotientBound, Division
  <2>3. a \div c \in 0 .. n - 1 /\ a % c < c
    <3> HIDE DEF n, c
    <3> QED BY <1>1, <2>2
  <2> QED BY <1>2, <2>1, <2>3 DEF InStacks
<1>5. CASE n # 1 /\ u.map.kind = "interleaved"
  <2> DEFINE d == a \div w
             q == c \div w
             e == d \div n
  <2>1. StackDecode(u.map, a) = [stack |-> d % n, local |-> e * w + (a % w)]
    BY <1>5 DEF StackDecode
  <2>2. c % w = 0
    BY <1>5
  <2>3. q \in Nat /\ c = q * w
    <3> HIDE DEF c, w
    <3>1. q \in Nat /\ c = q * w + (c % w)
      BY <1>1, Division
    <3> HIDE DEF q
    <3>2. q * w \in Nat
      BY <1>1, <3>1, ProductNat
    <3> QED BY <2>2, <3>1, <3>2
  <2>4. a < w * (q * n)
    <3>1. c * n = w * (q * n)
      <4> HIDE DEF c, w, n, q
      <4> QED BY <1>1, <2>3
    <3>2. a < c * n
      OBVIOUS
    <3> HIDE DEF q, c, n, w
    <3> QED BY <3>1, <3>2
  <2>5. q * n \in Nat
    <3> HIDE DEF q, n
    <3> QED BY <1>1, <2>3, ProductNat
  <2>6. d \in Nat /\ d < q * n /\ a % w \in 0 .. w - 1
    <3> HIDE DEF q, w, n
    <3> DEFINE b == q * n
    <3>1. b \in Nat /\ a < w * b
      BY <2>4, <2>5
    <3> HIDE DEF b
    <3>2. d \in Nat /\ d < b /\ a % w \in 0 .. w - 1
      BY <1>1, <3>1, QuotientBound, Division
    <3> QED BY <3>2 DEF b
  <2>7. e \in Nat /\ e < q /\ d % n \in 0 .. n - 1
    <3> HIDE DEF q, d, n
    <3>1. q * n = n * q
      BY <1>1, <2>3
    <3> QED BY <1>1, <2>3, <2>6, <3>1, QuotientBound, Division
  <2>8. e * w + (a % w) < c
    <3> DEFINE r == a % w
    <3> HIDE DEF e, q, w, r, c
    <3>1. e * w \in Nat /\ (q - e) * w = q * w - e * w
      BY <1>1, <2>3, <2>7, ProductNat
    <3>2. (q - e) * w >= w
      <4> DEFINE k == q - e - 1
      <4>1. k \in Nat /\ q - e = k + 1
        BY <2>3, <2>7
      <4> HIDE DEF k
      <4>2. k * w \in Nat
        BY <1>1, <4>1, ProductNat
      <4>3. (k + 1) * w = k * w + w
        BY <1>1, <4>1
      <4> QED BY <1>1, <4>1, <4>2, <4>3
    <3>3. r \in 0 .. w - 1
      BY <2>6 DEF r
    <3>4. e * w + r < c
      <4>1. q * w \in Nat
        BY <1>1, <2>3, ProductNat
      <4> QED BY <1>1, <2>3, <3>1, <3>2, <3>3, <4>1
    <3> QED BY <3>4 DEF r
  <2>9. [stack |-> d % n, local |-> e * w + (a % w)].stack = d % n
        /\ [stack |-> d % n, local |-> e * w + (a % w)].local = e * w + (a % w)
    OBVIOUS
  <2> QED BY <1>2, <2>1, <2>7, <2>8, <2>9 DEF InStacks
<1> QED BY <1>1, <1>3, <1>4, <1>5

\* So are the transactions of a random host line.
LEMMA RandomReaches ==
  ASSUME NEW u, Legal(u), u.source = "random", InReach(u),
         NEW i \in 0 .. RandomStartCount(u) - 1
  PROVE  Reaches(u, None, i * u.org.line, PartCount(u, u.org.line))
<1> DEFINE n == u.org.line
           A == AddressSpace(u)
           d == A - n
           t == Aggregate(u)
<1>1. n \in Nat \ {0} /\ A \in n .. t /\ t = u.map.capacity * u.map.stacks
  BY LegalParts DEF Legal, SpaceAllowed, Aggregate
<1>2. t \in Nat
  <2>1. u.map.capacity \in Nat /\ u.map.stacks \in Nat
    BY LegalParts DEF StackMaps
  <2> QED BY <1>1, <2>1, ProductNat
<1>3. RandomStartCount(u) = 1 + (d \div n)
  BY DEF RandomStartCount
<1> HIDE DEF A, t, n
<1>4. d \in Nat
  BY <1>1, <1>2
<1> HIDE DEF d
<1>5. d \div n \in Nat /\ d = (d \div n) * n + (d % n) /\ d % n \in 0 .. n - 1
  BY <1>1, <1>4, Division
<1>6. i \in Nat /\ i <= d \div n
  BY <1>3, <1>5
<1>7. i * n \in Nat /\ i * n <= d
  <2> DEFINE q == d \div n
             k == q - i
  <2>1. k \in Nat /\ q = i + k
    BY <1>5, <1>6
  <2>2. q * n = i * n + k * n
    <3> HIDE DEF k, q
    <3> QED BY <1>1, <1>6, <2>1
  <2> HIDE DEF k
  <2>3. i * n \in Nat /\ k * n \in Nat
    BY <1>1, <1>6, <2>1, ProductNat
  <2> QED BY <1>4, <1>5, <2>2, <2>3
<1>8. i * n + n <= t
  BY <1>1, <1>2, <1>4, <1>7 DEF d
<1>9. ASSUME NEW j \in 0 .. PartCount(u, u.org.line) - 1
      PROVE  Located(u, None, i * n + j * u.org.transaction)
  <2>1. j * u.org.transaction \in Nat /\ j * u.org.transaction < n
    BY <1>1, PartCountNat DEF n
  <2> DEFINE o == j * u.org.transaction
  <2> HIDE DEF o
  <2>2. i * n + o \in Nat /\ i * n + o < t
    <3>1. o \in Nat /\ o < n
      BY <2>1 DEF o
    <3> DEFINE b == i * n
    <3>2. b \in Nat /\ b + n <= t
      BY <1>7, <1>8
    <3> HIDE DEF b
    <3>3. b + o \in Nat /\ b + o < t
      BY <1>1, <1>2, <3>1, <3>2
    <3> QED BY <3>3 DEF b
  <2>3. Located(u, None, i * n + o)
    <3>1. \/ u.map.stacks = 1 \/ u.map.kind = "blocked"
          \/ u.map.capacity % u.map.interleave = 0
      BY DEF InReach
    <3> DEFINE b == i * n + o
    <3>2. b \in Nat /\ b < u.map.capacity * u.map.stacks
      BY <1>1, <2>2
    <3> HIDE DEF b
    <3>3. Located(u, None, b)
      BY <3>1, <3>2, AddressesLocated
    <3> QED BY <3>3 DEF b
  <2> QED BY <2>3 DEF o
<1> QED BY <1>9 DEF Reaches, n

\* The workload starts behind the last control command.
LEMMA ShiftIsLater ==
  ASSUME NEW u, Legal(u)
  PROVE  /\ Controls(u) \in Nat /\ Shift(u) \in Nat /\ u.controlInterval \in Nat
         /\ Controls(u) * u.controlInterval <= Shift(u)
<1> DEFINE n == Controls(u)
           t == u.controlInterval
<1>1. n \in Nat /\ t \in Nat /\ Shift(u) \in Nat
  BY ControlsNat, LegalParts
<1>2. Shift(u) = IF n = 0 THEN 0 ELSE (n + 1) * t
  BY DEF Shift
<1> HIDE DEF n, t
<1>3. n * t \in Nat /\ (n + 1) * t = n * t + t /\ (n = 0 => n * t = 0)
  BY <1>1, ProductNat
<1>4. n * t <= Shift(u)
  BY <1>1, <1>2, <1>3
<1> QED BY <1>1, <1>4 DEF n, t

\* An inject cycle is natural.
LEMMA SchedNat ==
  ASSUME NEW u, Legal(u), NEW g, LinesUpTo(u, g), NEW i \in DOMAIN u.trace
  PROVE  Sched(u, g, i) \in Nat
<1>1. u.trace[i] \in TraceLines
  BY LineOf
<1>2. i - 1 \in 0 .. Len(u.trace)
  BY LegalParts, LenProperties
<1>3. g[i - 1] \in Nat /\ u.interval \in Nat
  BY <1>2, LegalParts DEF LinesUpTo
<1>4. g[i - 1] * u.interval \in Nat
  BY <1>3, ProductNat
<1> QED BY <1>1, <1>4 DEF Sched, TraceLines

\* The key of a request of a trace.
LEMMA KeyOfLine ==
  ASSUME NEW u, NEW s, NEW x, NEW t, NEW c, NEW n, LineEmitted(u, s, x, t, c, n)
  PROVE  AddressKey(x.host) = <<t.address + n * u.org.line, t.stack>>
<1>1. /\ x.host.address = t.address + n * u.org.line
      /\ x.host.stack = t.stack /\ (x.host.explicit <=> t.stack # None)
  BY DEF LineEmitted
<1>2. (IF x.host.explicit THEN x.host.stack ELSE None) = t.stack
  BY <1>1
<1> QED BY <1>1, <1>2 DEF AddressKey

\* A request of a trace is never one that throws.
LEMMA LastWriteKnown ==
  ASSUME NEW u, Legal(u), u.source = "trace", Covered(u),
         NEW s \in Streams(u), ~s.failed, Recorded(u, s),
         NEW x, NEW i, NEW c, NEW n, LineStep(u, s, x, i, c, n)
  PROVE  ~x.next.failed
<1> DEFINE t == u.trace[i]
<1>0. \A k \in DOMAIN u.trace : HostSteps(u.trace[k]) = {m \in Nat : m < HostLines(u.trace[k])}
  <2> SUFFICES ASSUME NEW k \in DOMAIN u.trace
               PROVE  HostSteps(u.trace[k]) = {m \in Nat : m < HostLines(u.trace[k])}
    OBVIOUS
  <2> DEFINE h == HostLines(u.trace[k])
  <2>1. h \in Nat
    BY LineOf
  <2>2. HostSteps(u.trace[k]) = 0 .. h - 1
    BY DEF HostSteps
  <2> HIDE DEF h
  <2>3. 0 .. h - 1 = {m \in Nat : m < h}
    BY <2>1
  <2> QED BY <2>2, <2>3 DEF h
<1>1. LineEmitted(u, s, x, t, c, n)
  BY DEF LineStep
<1> SUFFICES ASSUME t.check = "last_write"
             PROVE  AddressKey(x.host) \in DOMAIN s.lastWrites
  BY <1>1 DEF LineEmitted
<1>2. /\ i \in DOMAIN u.trace /\ n \in Nat /\ n < HostLines(t)
      /\ s.burst.active => i = s.line - 1
      /\ ~s.burst.active => i = s.line
  BY DEF LineStep
<1>3. TracksLastWrites(u)
  BY <1>2 DEF TracksLastWrites
<1>4. PICK j \in DOMAIN u.trace : \E m \in HostSteps(u.trace[j]) :
        /\ j < i /\ TypeOf(u.trace[j]) = "write"
        /\ LineKey(u, j, m) = LineKey(u, i, n)
  <2>1. n \in HostSteps(u.trace[i])
    BY <1>0, <1>2
  <2> QED BY <1>2, <2>1 DEF Covered
<1>5. PICK m \in Nat :
        /\ j < i /\ TypeOf(u.trace[j]) = "write" /\ m < HostLines(u.trace[j])
        /\ LineKey(u, j, m) = LineKey(u, i, n)
  BY <1>0, <1>4
<1>6. s.line \in Nat /\ i \in Nat /\ j \in Nat
  BY <1>2, LegalParts, LenProperties DEF Streams, Positive
<1>7. j < s.line - 1 \/ (j = s.line - 1 /\ ~s.burst.active)
  BY <1>2, <1>5, <1>6
<1>8. LineKey(u, j, m) \in DOMAIN s.lastWrites
  BY <1>3, <1>5, <1>7 DEF Recorded
<1>9. AddressKey(x.host) = LineKey(u, i, n)
  <2>1. LineEmitted(u, s, x, u.trace[i], c, n)
    BY DEF LineStep
  <2> QED BY <2>1, KeyOfLine DEF LineKey
<1> HIDE DEF t
<1> QED BY <1>5, <1>8, <1>9

\* A host line of a trace is in the stacks with all its transactions.
LEMMA LineReaches ==
  ASSUME NEW u, Legal(u), u.source = "trace", InReach(u),
         NEW s, Recorded(u, s), NEW x, ~x.next.failed,
         NEW i, NEW c, NEW n, LineStep(u, s, x, i, c, n)
  PROVE  Reaches(u, x.host.stack, x.host.address, SplitSize(u, x.host))
<1> DEFINE t == u.trace[i]
           h == x.host
           a == t.address + n * u.org.line
<1>1. /\ LineEmitted(u, s, x, t, c, n) /\ i \in DOMAIN u.trace /\ n \in Nat
      /\ n < HostLines(t)
  BY DEF LineStep
<1>2. n \in HostSteps(t)
  <2> DEFINE m == HostLines(t)
  <2>1. m \in Nat /\ n < m
    BY <1>1, LineOf
  <2>2. HostSteps(t) = 0 .. m - 1
    BY DEF HostSteps
  <2> HIDE DEF m
  <2> QED BY <1>1, <2>1, <2>2
<1>3. Reaches(u, t.stack, a, LineParts(u, t))
  BY <1>1, <1>2 DEF InReach
<1>4. /\ h.type = TypeOf(t) /\ SizeGiven(u, s, h, t) /\ h.stack = t.stack /\ h.address = a
  BY <1>1 DEF LineEmitted
<1>5. AddressKey(h) = <<a, t.stack>>
  BY <1>1, KeyOfLine
<1>6. t.op = "M" <=> TypeOf(t) = "control"
  BY DEF TypeOf
<1> SUFFICES Reaches(u, h.stack, h.address, SplitSize(u, h))
  OBVIOUS
<1> HIDE DEF t, h, a
<1>7. CASE TypeOf(t) = "control"
  BY <1>3, <1>4, <1>6, <1>7 DEF SplitSize, LineParts
<1>8. CASE TypeOf(t) # "control" /\ HostBytes(u, h) = t.size
  BY <1>3, <1>4, <1>6, <1>8 DEF SplitSize, LineParts
<1>9. CASE /\ TypeOf(t) = "read" /\ AddressKey(h) \in DOMAIN s.lastWrites
           /\ HostBytes(u, h) = Len(s.lastWrites[AddressKey(h)])
  <2> DEFINE k == AddressKey(h)
  <2>1. Reaches(u, k[2], k[1], PartCount(u, Len(s.lastWrites[k])))
    BY <1>9 DEF Recorded
  <2>2. k[1] = a /\ k[2] = t.stack
    BY <1>5
  <2>3. SplitSize(u, h) = PartCount(u, Len(s.lastWrites[k]))
    BY <1>4, <1>9 DEF SplitSize
  <2> HIDE DEF k
  <2> QED BY <1>4, <2>1, <2>2, <2>3
<1> QED BY <1>4, <1>7, <1>8, <1>9 DEF SizeGiven, h

\* A write is known from then on.
LEMMA WritesKnown ==
  ASSUME NEW u, Legal(u), u.source = "trace", NEW s \in Streams(u), Recorded(u, s),
         NEW x, ~x.next.failed, NEW i, NEW c, NEW n, LineStep(u, s, x, i, c, n),
         TracksLastWrites(u), NEW j \in DOMAIN u.trace, NEW m \in Nat,
         TypeOf(u.trace[j]) = "write", m < HostLines(u.trace[j]),
         \/ j < x.next.line - 1
         \/ j = x.next.line - 1 /\ (x.next.burst.active => m < x.next.burst.line)
  PROVE  LineKey(u, j, m) \in DOMAIN x.next.lastWrites
<1> DEFINE t == u.trace[i]
<1>1. /\ LineEmitted(u, s, x, t, c, n) /\ i \in DOMAIN u.trace /\ n \in Nat
      /\ x.next.line = i + 1 /\ n < HostLines(t)
      /\ x.next.burst = IF n + 1 < HostLines(t) THEN BurstAt(t, c, n + 1) ELSE NoBurst
      /\ s.burst.active => i = s.line - 1 /\ n > 0 /\ s.burst = BurstAt(t, c, n)
      /\ ~s.burst.active => i = s.line /\ n = 0
  BY DEF LineStep
<1>2. /\ x.next.lastWrites = RememberWrite(u, s, x.host) /\ x.host.type = TypeOf(t)
      /\ AddressKey(x.host) = LineKey(u, i, n)
  <2>1. AddressKey(x.host) = LineKey(u, i, n)
    <3>1. LineEmitted(u, s, x, u.trace[i], c, n)
      BY DEF LineStep
    <3> QED BY <3>1, KeyOfLine DEF LineKey
  <2>2. x.next.lastWrites = RememberWrite(u, s, x.host) /\ x.host.type = TypeOf(t)
    BY <1>1 DEF LineEmitted
  <2> QED BY <2>1, <2>2
<1>3. DOMAIN x.next.lastWrites =
        DOMAIN s.lastWrites
        \cup (IF x.host.type = "write" THEN {LineKey(u, i, n)} ELSE {})
  <2>1. CASE x.host.type = "write"
    <3>1. x.next.lastWrites = With(s.lastWrites, LineKey(u, i, n), x.host.payload)
      BY <1>2, <2>1 DEF RememberWrite
    <3> QED BY <2>1, <3>1 DEF With
  <2>2. CASE x.host.type # "write"
    BY <1>2, <2>2 DEF RememberWrite
  <2> QED BY <2>1, <2>2
<1>4. s.line \in Nat /\ i \in Nat /\ j \in Nat /\ HostLines(t) \in Nat
  <2>1. HostLines(t) \in Nat
    BY <1>1, LineOf
  <2>2. s.line \in Nat
    BY DEF Streams, Positive
  <2>3. DOMAIN u.trace \subseteq Nat
    BY LegalParts, LenProperties
  <2> QED BY <1>1, <2>1, <2>2, <2>3
<1>5. CASE j = i /\ m = n
  BY <1>2, <1>3, <1>5
<1>6. CASE ~(j = i /\ m = n)
  <2>1. j < i \/ (j = i /\ m < n)
    <3>1. CASE j = i
      <4>1. n + 1 < HostLines(t) => x.next.burst.active /\ x.next.burst.line = n + 1
        BY <1>1 DEF BurstAt
      <4> HIDE DEF t
      <4>2. m < n + 1
        <5>1. CASE n + 1 < HostLines(t)
          BY <1>1, <1>4, <3>1, <4>1, <5>1
        <5>2. CASE ~(n + 1 < HostLines(t))
          <6>1. m < HostLines(t)
            BY <3>1 DEF t
          <6> QED BY <1>1, <1>4, <5>2, <6>1
        <5> QED BY <5>1, <5>2
      <4> QED BY <1>1, <1>6, <3>1, <4>2
    <3>2. CASE j # i
      BY <1>1, <1>4, <3>2
    <3> QED BY <3>1, <3>2
  <2>2. \/ j < s.line - 1
        \/ j = s.line - 1 /\ (s.burst.active => m < s.burst.line)
    <3>1. CASE s.burst.active
      <4>1. i = s.line - 1 /\ s.burst.line = n
        BY <1>1, <3>1 DEF BurstAt
      <4> QED BY <2>1, <4>1
    <3>2. CASE ~s.burst.active
      <4>1. i = s.line /\ n = 0
        BY <1>1, <3>2
      <4> QED BY <1>4, <2>1, <3>2, <4>1
    <3> QED BY <3>1, <3>2
  <2>3. LineKey(u, j, m) \in DOMAIN s.lastWrites
    BY <2>2 DEF Recorded
  <2> QED BY <1>3, <2>3
<1> QED BY <1>5, <1>6

\* So the stream goes on knowing the writes.
LEMMA WritesRecorded ==
  ASSUME NEW u, Legal(u), u.source = "trace", InReach(u), NEW s \in Streams(u),
         Recorded(u, s), NEW x, ~x.next.failed, x.host \in Hosts(u),
         NEW i, NEW c, NEW n, LineStep(u, s, x, i, c, n)
  PROVE  Recorded(u, x.next)
<1> DEFINE h == x.host
           t == u.trace[i]
<1>1. /\ x.next.lastWrites = RememberWrite(u, s, h) /\ h.type = TypeOf(t)
      /\ h.stack = t.stack /\ h.address = t.address + n * u.org.line
      /\ AddressKey(h) = <<t.address + n * u.org.line, t.stack>>
  <2>1. LineEmitted(u, s, x, t, c, n)
    BY DEF LineStep
  <2>2. AddressKey(h) = <<t.address + n * u.org.line, t.stack>>
    BY <2>1, KeyOfLine
  <2> QED BY <2>1, <2>2 DEF LineEmitted
<1>2. \A k \in DOMAIN x.next.lastWrites :
        Reaches(u, k[2], k[1], PartCount(u, Len(x.next.lastWrites[k])))
  <2>1. CASE h.type = "write"
    <3>1. Reaches(u, h.stack, h.address, SplitSize(u, h))
      BY LineReaches
    <3>2. SplitSize(u, h) = PartCount(u, Len(h.payload))
      <4>1. h.payload # <<>>
        BY <2>1 DEF Hosts, HostSound
      <4>2. HostBytes(u, h) = Len(h.payload)
        BY <2>1, <4>1, HostLine
      <4> QED BY <2>1, <4>2 DEF SplitSize
    <3> DEFINE key == AddressKey(h)
    <3>3. key[1] = h.address /\ key[2] = h.stack
      <4> HIDE DEF h, t
      <4> QED BY <1>1
    <3>4. \/ x.next.lastWrites = s.lastWrites
          \/ x.next.lastWrites = With(s.lastWrites, key, h.payload)
      BY <1>1 DEF RememberWrite
    <3> HIDE DEF key, h
    <3> QED BY <3>1, <3>2, <3>3, <3>4 DEF Recorded, With
  <2>2. CASE h.type # "write"
    <3>1. x.next.lastWrites = s.lastWrites
      BY <1>1, <2>2 DEF RememberWrite
    <3> QED BY <3>1 DEF Recorded
  <2> QED BY <2>1, <2>2
<1>3. TracksLastWrites(u) =>
        \A j \in DOMAIN u.trace : \A m \in Nat :
          /\ TypeOf(u.trace[j]) = "write" /\ m < HostLines(u.trace[j])
          /\ \/ j < x.next.line - 1
             \/ j = x.next.line - 1 /\ (x.next.burst.active => m < x.next.burst.line)
          => LineKey(u, j, m) \in DOMAIN x.next.lastWrites
  BY WritesKnown
<1> QED BY <1>2, <1>3 DEF Recorded

\* A host request whose transactions are in the stacks, or one for a stack.
Aims(u, h) ==
  \/ h.type = "control" /\ h.stack \in 0 .. u.map.stacks - 1
  \/ /\ h.explicit <=> h.stack # None
     /\ Reaches(u, h.stack, h.address, SplitSize(u, h))

\* A request at a cycle no earlier than the last, for an address in the stacks,
\* and the stream after it, which can go on.
Follows(u, s, last, next, host, cycle) ==
  /\ ~next.failed /\ cycle \in Nat /\ last <= cycle
  /\ OnTime(u, next, cycle) /\ Recorded(u, next) /\ Aims(u, host)

\* The request of a trace.
LEMMA TraceOnTime ==
  ASSUME NEW u, Legal(u), u.source = "trace", SoundWorkload(u),
         NEW s \in Streams(u), OnCourse(u, s), ~s.failed, NEW last \in Nat,
         OnTime(u, s, last), Recorded(u, s), s.control = Controls(u),
         NEW z \in TraceNext(u, s), Takes(u, s, z)
  PROVE  Follows(u, s, last, z.next, z.host, z.host.cycle + Shift(u))
<1>0. InTrace(u, s) /\ s.emitted \in Nat /\ s.line \in Nat /\ u.trace \in Seq(TraceLines)
  BY LegalParts DEF OnCourse, Streams, Positive
<1>1. PICK i \in DOMAIN u.trace : \E c \in Nat : \E n \in Nat : LineStep(u, s, z, i, c, n)
  BY <1>0, TraceSteps
<1>2. PICK c \in Nat : \E n \in Nat : LineStep(u, s, z, i, c, n)
  BY <1>1
<1>3. PICK n \in Nat : LineStep(u, s, z, i, c, n)
  BY <1>2
<1> DEFINE t == u.trace[i]
           H == Shift(u)
<1>4. /\ LineEmitted(u, s, z, t, c, n) /\ n < HostLines(t)
      /\ s.burst.active => i = s.line - 1 /\ s.burst = BurstAt(t, c, n)
      /\ ~s.burst.active => i = s.line /\ c = InjectCycle(u, s, t)
  BY <1>3 DEF LineStep
<1>5. ~z.next.failed
  BY <1>3, LastWriteKnown DEF SoundWorkload
<1>6. /\ z.host.cycle = c /\ z.host.stack = t.stack
      /\ (z.host.explicit <=> t.stack # None)
      /\ z.host.address = t.address + n * u.org.line
      /\ z.next.emitted = s.emitted + 1 /\ z.next.nextId = s.nextId + 1
      /\ z.next.control = s.control
  BY <1>4, <1>5 DEF LineEmitted
<1>7. /\ z.next.line = i + 1
      /\ z.next.burst = IF n + 1 < HostLines(t) THEN BurstAt(t, c, n + 1) ELSE NoBurst
  BY <1>3, <1>5 DEF LineStep
<1>8. ASSUME NEW g, LinesUpTo(u, g)
      PROVE  c = Sched(u, g, i)
  <2>1. CASE s.burst.active
    <3>1. s.burst.cycle = Sched(u, g, s.line - 1)
      BY <1>8, <2>1 DEF OnTime
    <3>2. s.burst.cycle = c
      BY <1>4, <2>1 DEF BurstAt
    <3> QED BY <1>4, <2>1, <3>1, <3>2
  <2>2. CASE ~s.burst.active
    <3>1. i = s.line /\ c = InjectCycle(u, s, t)
      BY <1>4, <2>2
    <3>2. g[s.line - 1] = s.emitted + Ahead(s.burst) /\ Ahead(s.burst) = 0
      BY <1>8, <2>2 DEF OnCourse, Ahead
    <3>3. g[i - 1] = s.nextId
      <4>1. s.nextId = s.emitted
        BY DEF OnTime
      <4> QED BY <1>0, <3>1, <3>2, <4>1
    <3> QED BY <3>1, <3>3 DEF InjectCycle, Sched
  <2> QED BY <2>1, <2>2
<1>9. H \in Nat /\ Controls(u) * u.controlInterval <= H /\ Controls(u) * u.controlInterval \in Nat
  <2>1. Controls(u) \in Nat /\ u.controlInterval \in Nat
    BY ShiftIsLater
  <2> QED BY <2>1, ShiftIsLater, ProductNat
<1>10. i \in 1 .. Len(u.trace) /\ Len(u.trace) \in Nat /\ s.line \in 1 .. Len(u.trace) + 1
  BY <1>0, LenProperties DEF InTrace
<1>11. last <= c + H
  <2>1. CASE s.emitted = 0
    <3>1. last <= Controls(u) * u.controlInterval
      BY <2>1 DEF OnTime
    <3> HIDE DEF H
    <3> QED BY <1>9, <3>1
  <2>2. CASE s.emitted > 0
    <3>1. PICK g : /\ LinesUpTo(u, g)
                   /\ \A k \in DOMAIN u.trace : \A j \in DOMAIN u.trace :
                        k <= j => Sched(u, g, k) <= Sched(u, g, j)
      BY DEF SoundWorkload, InOrder
    <3>2. s.line > 1 /\ last = H + Sched(u, g, s.line - 1)
      BY <2>2, <3>1 DEF OnTime
    <3>3. s.line - 1 \in DOMAIN u.trace /\ s.line - 1 <= i
      BY <1>0, <1>4, <1>10, <3>2, LenProperties
    <3>4. Sched(u, g, s.line - 1) <= Sched(u, g, i)
      BY <3>1, <3>3
    <3>5. Sched(u, g, s.line - 1) \in Nat
      BY <3>1, <3>3, SchedNat
    <3>6. c = Sched(u, g, i)
      BY <1>8, <3>1
    <3> HIDE DEF H
    <3> QED BY <1>9, <3>2, <3>4, <3>5, <3>6
  <2> QED BY <1>0, <2>1, <2>2
<1>12. OnTime(u, z.next, c + H)
  <2>1. z.next.emitted # 0 /\ z.next.nextId = z.next.emitted
    BY <1>0, <1>6 DEF OnTime
  <2>2. ASSUME NEW g, LinesUpTo(u, g)
        PROVE  /\ z.next.burst.active => z.next.burst.cycle = Sched(u, g, z.next.line - 1)
               /\ z.next.line > 1 /\ c + H = H + Sched(u, g, z.next.line - 1)
    <3>1. c = Sched(u, g, i)
      BY <1>8, <2>2
    <3>2. z.next.line - 1 = i /\ z.next.line > 1
      BY <1>7, <1>10
    <3>3. z.next.burst.active => z.next.burst.cycle = c
      <4> HIDE DEF t
      <4> QED BY <1>7 DEF BurstAt, NoBurst
    <3> HIDE DEF H, t
    <3> QED BY <1>9, <3>1, <3>2, <3>3
  <2>3. Controls(u) \in Nat /\ z.next.control = Controls(u)
    BY <1>6, ShiftIsLater
  <2> HIDE DEF t
  <2>4. ~(z.next.control < Controls(u))
    BY <2>3
  <2> QED BY <2>1, <2>2, <2>4 DEF OnTime
<1>13. Recorded(u, z.next)
  <2>1. z.host \in Hosts(u)
    BY DEF Takes, Taken
  <2> QED BY <1>3, <1>5, <2>1, WritesRecorded DEF SoundWorkload
<1>14. Aims(u, z.host)
  <2>1. Reaches(u, z.host.stack, z.host.address, SplitSize(u, z.host))
    BY <1>3, <1>5, LineReaches DEF SoundWorkload
  <2>2. z.host.explicit <=> z.host.stack # None
    BY <1>6
  <2> QED BY <2>1, <2>2 DEF Aims
<1>15. c + H \in Nat
  <2> HIDE DEF H
  <2> QED BY <1>9
<1> QED BY <1>5, <1>6, <1>11, <1>12, <1>13, <1>14, <1>15 DEF Follows

\* A synthetic request.
LEMMA SyntheticOnTime ==
  ASSUME NEW u, Legal(u), u.source # "trace", SoundWorkload(u),
         NEW s \in Streams(u), ~s.failed, NEW last \in Nat,
         OnTime(u, s, last), s.control = Controls(u),
         NEW z \in SyntheticNext(u, s), Takes(u, s, z)
  PROVE  Follows(u, s, last, z.next, z.host, z.host.cycle + Shift(u))
<1>1. /\ s.nextId \in Nat /\ s.emitted \in Nat /\ u.requests \in Nat /\ u.interval \in Nat
      /\ s.nextId < u.requests /\ s.nextId = s.emitted /\ z.next.failed = s.failed
  BY SyntheticTaken, LegalParts DEF Streams, OnTime
<1>2. PICK type \in TypesOf(u.readRatio), a \in SyntheticAddresses(u, s) :
        z = [host |-> [HostOf(s, type, a, s.nextId * u.interval, None) EXCEPT
                         !.payload = IF type = "write"
                                     THEN MakePayload(a, s.nextId, u.org.line)
                                     ELSE <<>>],
             next |-> Accounted(s)]
  BY <1>1 DEF SyntheticNext
<1> DEFINE c == s.nextId * u.interval
           H == Shift(u)
           h == HostOf(s, type, a, c, None)
           p == IF type = "write" THEN MakePayload(a, s.nextId, u.org.line) ELSE <<>>
<1>3. z.host = [h EXCEPT !.payload = p]
  BY <1>2
<1>4. SameKey(z.host, s, type, a, c, None)
  <2>1. SameKey([h EXCEPT !.payload = p], s, type, a, c, None)
    <3> HIDE DEF p, c
    <3> DEFINE k == None
    <3> HIDE DEF k
    <3>1. h = HostOf(s, type, a, c, k)
      BY DEF k
    <3> HIDE DEF h
    <3>2. SameKey([h EXCEPT !.payload = p], s, type, a, c, k)
      BY <3>1, KeyOf
    <3> QED BY <3>2 DEF k
  <2> QED BY <1>3, <2>1
<1>5. /\ z.host.cycle = c /\ z.host.address = a /\ z.host.stack = None
      /\ (z.host.explicit <=> None # None)
  <2> HIDE DEF c
  <2> QED BY <1>4 DEF SameKey
<1>6. ~z.next.failed
  BY <1>1
<1>7. /\ z.next.emitted = s.emitted + 1 /\ z.next.control = s.control
      /\ z.next.nextId = s.nextId + 1
  BY <1>6 DEF Takes, Moves
<1>8. H \in Nat /\ Controls(u) * u.controlInterval <= H /\ Controls(u) * u.controlInterval \in Nat
      /\ c \in Nat /\ Controls(u) \in Nat
  <2>1. Controls(u) \in Nat /\ u.controlInterval \in Nat
    BY ShiftIsLater
  <2> QED BY <1>1, <2>1, ShiftIsLater, ProductNat
<1>9. last <= c + H
  <2>1. CASE s.emitted = 0
    <3>1. last <= Controls(u) * u.controlInterval
      BY <2>1 DEF OnTime
    <3> HIDE DEF H, c
    <3> QED BY <1>8, <3>1
  <2>2. CASE s.emitted > 0
    <3> DEFINE e == s.emitted
               v == u.interval
    <3>1. last = H + (e - 1) * v
      BY <2>2 DEF OnTime
    <3>2. c = e * v
      BY <1>1
    <3>3. e - 1 \in Nat /\ e \in Nat /\ v \in Nat
      BY <1>1, <2>2
    <3> HIDE DEF H, c, e, v
    <3>4. (e - 1) * v \in Nat /\ e * v = (e - 1) * v + v
      <4>1. (e - 1) * v \in Nat
        BY <3>3, ProductNat
      <4> QED BY <3>3, <4>1
    <3> QED BY <1>8, <3>1, <3>2, <3>3, <3>4
  <2> QED BY <1>1, <2>1, <2>2
<1>10. OnTime(u, z.next, c + H)
  <2>1. z.next.emitted - 1 = s.nextId /\ z.next.emitted # 0 /\ z.next.nextId = z.next.emitted
    BY <1>1, <1>7
  <2>2. c + H = H + (z.next.emitted - 1) * u.interval
    <3>1. c = (z.next.emitted - 1) * u.interval
      BY <2>1
    <3> HIDE DEF c, H
    <3> QED BY <1>8, <3>1
  <2>3. ~(z.next.control < Controls(u))
    BY <1>7, <1>8
  <2> HIDE DEF c
  <2> QED BY <2>1, <2>2, <2>3 DEF OnTime
<1>11. Reaches(u, None, a, PartCount(u, u.org.line))
  <2>1. CASE u.source = "random"
    <3>1. PICK i \in 0 .. RandomStartCount(u) - 1 : a = i * u.org.line
      BY <2>1 DEF SyntheticAddresses
    <3> QED BY <2>1, <3>1, RandomReaches DEF SoundWorkload
  <2>2. CASE u.source # "random"
    <3>1. u.source = "stream" /\ a = s.nextId * u.stride
      BY <2>2, LegalParts DEF SyntheticAddresses
    <3>2. s.nextId \in 0 .. u.requests - 1
      BY <1>1
    <3> QED BY <2>2, <3>1, <3>2 DEF SoundWorkload, InReach
  <2> QED BY <2>1, <2>2
<1>12. Recorded(u, z.next)
  BY DEF Recorded
<1>13. c + H \in Nat
  <2> HIDE DEF c, H
  <2> QED BY <1>8
<1>14. Aims(u, z.host)
  <2>1. SplitSize(u, z.host) = PartCount(u, u.org.line)
    BY SyntheticLines DEF SplitSize
  <2> HIDE DEF c, H
  <2> QED BY <1>5, <1>11, <2>1 DEF Aims
<1> HIDE DEF c, H
<1> QED BY <1>5, <1>6, <1>9, <1>10, <1>12, <1>13, <1>14 DEF Follows, H

\* A control command.
LEMMA ControlOnTime ==
  ASSUME NEW u, Legal(u), NEW s \in Streams(u), ~s.failed, NEW last \in Nat,
         OnTime(u, s, last), Recorded(u, s), s.control < Controls(u),
         NEW next, next = [s EXCEPT !.control = s.control + 1],
         NEW host, host = ControlAt(u, s.control + 1)
  PROVE  Follows(u, s, last, next, host, host.cycle)
<1> DEFINE t == u.controlInterval
           d == s.control
<1>1. d \in Nat /\ t \in Nat /\ Controls(u) \in Nat /\ s.emitted = 0 /\ last <= d * t
  BY ShiftIsLater DEF Streams, OnTime
<1>2. host.type = "control" /\ host.cycle = d * t
  BY <1>1, ControlTaken
<1>3. \A k \in Nat : LET z == [s EXCEPT !.control = k]
        IN /\ z.control = k /\ z.emitted = s.emitted /\ z.nextId = s.nextId
           /\ z.line = s.line /\ z.burst = s.burst /\ z.failed = s.failed
           /\ z.lastWrites = s.lastWrites
  BY DEF Streams
<1>4. /\ next.control = d + 1 /\ next.emitted = s.emitted /\ next.nextId = s.nextId
      /\ next.line = s.line /\ next.burst = s.burst /\ next.failed = s.failed
      /\ next.lastWrites = s.lastWrites
  <2>1. d + 1 \in Nat
    BY <1>1
  <2> QED BY <1>3, <2>1
<1>5. d * t \in Nat /\ (d + 1) * t = d * t + t
  BY <1>1, ProductNat
<1>6. d * t <= next.control * t
  <2> HIDE DEF d, t
  <2> QED BY <1>1, <1>4, <1>5
<1>7. OnTime(u, next, d * t)
  BY <1>1, <1>4, <1>6 DEF OnTime
<1>8. Recorded(u, next)
  BY <1>4 DEF Recorded
<1>9. Aims(u, host)
  <2>1. host.type = "control" /\ host.stack \in Nat /\ host.stack < u.map.stacks
    BY <1>1, ControlTaken
  <2>2. u.map.stacks \in Nat
    BY LegalParts DEF StackMaps
  <2> QED BY <2>1, <2>2 DEF Aims
<1> HIDE DEF d, t
<1> QED BY <1>1, <1>2, <1>4, <1>5, <1>7, <1>8, <1>9 DEF Follows

\* ControlPrefixedTrafficStream::next()
LEMMA HostOnTime ==
  ASSUME NEW u, Legal(u), SoundWorkload(u), NEW s \in Streams(u), OnCourse(u, s),
         ~s.failed, NEW last \in Nat, OnTime(u, s, last), Recorded(u, s),
         NEW y, Advances(u, s, y)
  PROVE  Follows(u, s, last, y.next, y.host, y.host.cycle) /\ OnCourse(u, y.next)
<1>1. Follows(u, s, last, y.next, y.host, y.host.cycle)
  <2>1. CASE /\ s.control < Controls(u) /\ y.host = ControlAt(u, s.control + 1)
             /\ y.next = [s EXCEPT !.control = s.control + 1]
    BY <2>1, ControlOnTime
  <2>2. CASE /\ s.control >= Controls(u)
             /\ \E z \in IF u.source = "trace" THEN TraceNext(u, s) ELSE SyntheticNext(u, s) :
                  /\ Takes(u, s, z) /\ y.next = z.next
                  /\ y.host = [z.host EXCEPT !.id = z.host.id + Controls(u),
                                             !.cycle = z.host.cycle + Shift(u)]
    <3>1. PICK z \in IF u.source = "trace" THEN TraceNext(u, s) ELSE SyntheticNext(u, s) :
            /\ Takes(u, s, z) /\ y.next = z.next
            /\ y.host = [z.host EXCEPT !.id = z.host.id + Controls(u),
                                       !.cycle = z.host.cycle + Shift(u)]
      BY <2>2
    <3>2. s.control = Controls(u)
      BY <2>2, ShiftIsLater DEF OnCourse, Streams
    <3>3. Follows(u, s, last, z.next, z.host, z.host.cycle + Shift(u))
      <4>1. CASE u.source = "trace"
        BY <3>1, <3>2, <4>1, TraceOnTime
      <4>2. CASE u.source # "trace"
        BY <3>1, <3>2, <4>2, SyntheticOnTime
      <4> QED BY <4>1, <4>2
    <3>4. z.host \in HostRecords
      BY <3>1 DEF Takes, Taken, Hosts
    <3>5. \A n : \A m : LET g == [z.host EXCEPT !.id = n, !.cycle = m]
            IN /\ g.cycle = m /\ g.type = z.host.type /\ g.stack = z.host.stack
               /\ (g.explicit <=> z.host.explicit) /\ g.address = z.host.address
               /\ g.payload = z.host.payload /\ g.expected = z.host.expected
               /\ g.mask = z.host.mask
      BY <3>4 DEF HostRecords
    <3>6. /\ y.host.cycle = z.host.cycle + Shift(u) /\ y.host.type = z.host.type
          /\ y.host.stack = z.host.stack /\ (y.host.explicit <=> z.host.explicit)
          /\ y.host.address = z.host.address
          /\ y.host.payload = z.host.payload /\ y.host.expected = z.host.expected
          /\ y.host.mask = z.host.mask
      BY <3>1, <3>5
    <3>7. SplitSize(u, y.host) = SplitSize(u, z.host)
      <4>1. HostBytes(u, y.host) = HostBytes(u, z.host)
        BY <3>6, HostBytesOf
      <4> QED BY <3>6, <4>1 DEF SplitSize
    <3>8. Aims(u, y.host)
      BY <3>3, <3>6, <3>7 DEF Aims, Follows
    <3> QED BY <3>1, <3>3, <3>6, <3>8 DEF Follows
  <2> QED BY <2>1, <2>2 DEF Advances
<1>2. ~y.next.failed
  BY <1>1 DEF Follows
<1> QED BY <1>1, <1>2, CourseSteps

-----------------------------------------------------------------------------

\* A transaction that enqueue() takes.
Deliverable(u, r) ==
  \/ r.type = "control" /\ r.stack \in 0 .. u.map.stacks - 1
  \/ (r.explicit <=> r.stack # None) /\ Located(u, r.stack, r.address)

\* The transactions of pending_ are of the cycle of the last one.
WaitsInOrder(u, s, last) ==
  \A j \in DOMAIN s.pending : s.pending[j].cycle = last /\ Deliverable(u, s.pending[j])

\* So are those of a host line.
LEMMA SplitInOrder ==
  ASSUME NEW u, Legal(u), NEW h \in Hosts(u), Aims(u, h)
  PROVE  \A i \in 1 .. SplitSize(u, h) :
           SplitHost(u, h)[i].cycle = h.cycle /\ Deliverable(u, SplitHost(u, h)[i])
<1> SUFFICES ASSUME NEW i \in 1 .. SplitSize(u, h)
             PROVE  SplitHost(u, h)[i].cycle = h.cycle /\ Deliverable(u, SplitHost(u, h)[i])
  OBVIOUS
<1>1. CASE h.type = "control"
  <2>1. SplitHost(u, h)[i] = ControlPart(u, h)
    <3>1. SplitSize(u, h) = 1 /\ SplitHost(u, h)[1] = ControlPart(u, h)
      BY <1>1, SplitTyped DEF SplitSize
    <3> QED BY <3>1
  <2>2. /\ ControlPart(u, h).cycle = h.cycle /\ ControlPart(u, h).type = "control"
        /\ ControlPart(u, h).stack = h.stack /\ ControlPart(u, h).explicit = h.explicit
        /\ ControlPart(u, h).address = h.address
    BY DEF ControlPart
  <2>3. \/ h.stack \in 0 .. u.map.stacks - 1
        \/ (h.explicit <=> h.stack # None) /\ Located(u, h.stack, h.address)
    <3>1. SplitSize(u, h) = 1
      BY <1>1 DEF SplitSize
    <3>2. h.address + 0 * u.org.transaction = h.address
      BY LegalParts DEF Hosts, HostRecords
    <3>3. Reaches(u, h.stack, h.address, 1) => Located(u, h.stack, h.address)
      <4>1. 0 \in 0 .. 1 - 1
        OBVIOUS
      <4> QED BY <3>2, <4>1 DEF Reaches
    <3> QED BY <3>1, <3>3 DEF Aims
  <2> HIDE DEF ControlPart
  <2> QED BY <2>1, <2>2, <2>3 DEF Deliverable
<1>2. CASE h.type # "control"
  <2> DEFINE p == PartOf(u, h, i - 1)
             m == SplitSize(u, h)
  <2>0. i \in 1 .. m
    OBVIOUS
  <2>1. SplitHost(u, h)[i] = p
    BY <1>2, SplitTyped
  <2>2. /\ p.cycle = h.cycle /\ p.type = h.type /\ p.stack = h.stack
        /\ p.explicit = h.explicit
        /\ p.address = h.address + (i - 1) * u.org.transaction
    BY DEF PartOf
  <2>3. i - 1 \in 0 .. m - 1
    <3>1. m \in Nat
      BY SplitTyped
    <3> HIDE DEF m
    <3> QED BY <2>0, <3>1
  <2>4. Located(u, h.stack, h.address + (i - 1) * u.org.transaction)
    BY <1>2, <2>3 DEF Reaches, Aims
  <2> HIDE DEF p
  <2>5. p.explicit <=> p.stack # None
    BY <1>2, <2>2 DEF Aims
  <2> QED BY <2>1, <2>2, <2>4, <2>5 DEF Deliverable
<1> QED BY <1>1, <1>2

\* TransactionSplitTrafficStream::next()
LEMMA StreamOnTime ==
  ASSUME NEW u, Legal(u), SoundWorkload(u), NEW s \in Streams(u), OnCourse(u, s),
         ~s.failed, NEW last \in Nat, OnTime(u, s, last), Recorded(u, s),
         WaitsInOrder(u, s, last), NEW x \in StreamNext(u, s)
  PROVE  /\ ~x.next.failed /\ last <= x.part.cycle /\ Deliverable(u, x.part)
         /\ OnCourse(u, x.next) /\ OnTime(u, x.next, x.part.cycle)
         /\ Recorded(u, x.next) /\ WaitsInOrder(u, x.next, x.part.cycle)
<1>0. s.pending \in Seq(Incoming(u)) /\ s.transactions \in Nat /\ s.transactions + 1 \in Nat
  BY DEF Streams
<1>1. FromPending(u, s, x) \/ FromSource(u, s, x)
  BY StreamTyped
<1>2. \A p \in Incoming(u) : LET q == [p EXCEPT !.id = s.transactions]
        IN /\ q.cycle = p.cycle /\ q.type = p.type /\ q.stack = p.stack
           /\ (q.explicit <=> p.explicit) /\ q.address = p.address
  BY DEF Incoming, Parts, PartRecords
<1>3. ASSUME NEW p \in Incoming(u), x.part = [p EXCEPT !.id = s.transactions], Deliverable(u, p)
      PROVE  x.part.cycle = p.cycle /\ Deliverable(u, x.part)
  <2>1. /\ x.part.cycle = p.cycle /\ x.part.type = p.type /\ x.part.stack = p.stack
        /\ (x.part.explicit <=> p.explicit) /\ x.part.address = p.address
    BY <1>2, <1>3
  <2> QED BY <1>3, <2>1 DEF Deliverable
<1>4. ASSUME NEW z \in Streams(u), NEW q \in Seq(Incoming(u)), NEW cycle,
             x.next = [z EXCEPT !.pending = q, !.transactions = s.transactions + 1],
             OnCourse(u, z), OnTime(u, z, cycle), Recorded(u, z), ~z.failed,
             \A j \in DOMAIN q : q[j].cycle = cycle /\ Deliverable(u, q[j])
      PROVE  /\ ~x.next.failed /\ OnCourse(u, x.next) /\ OnTime(u, x.next, cycle)
             /\ Recorded(u, x.next) /\ WaitsInOrder(u, x.next, cycle)
  <2>1. \A p \in Seq(Incoming(u)) : \A n \in Nat :
          LET y == [z EXCEPT !.pending = p, !.transactions = n]
          IN /\ y.pending = p /\ y.line = z.line /\ y.burst = z.burst
             /\ y.emitted = z.emitted /\ y.control = z.control /\ y.nextId = z.nextId
             /\ y.lastWrites = z.lastWrites /\ y.failed = z.failed
    BY DEF Streams
  <2>2. /\ x.next.pending = q /\ x.next.line = z.line /\ x.next.burst = z.burst
        /\ x.next.emitted = z.emitted /\ x.next.control = z.control
        /\ x.next.nextId = z.nextId /\ x.next.lastWrites = z.lastWrites
        /\ x.next.failed = z.failed
    BY <1>0, <1>4, <2>1
  <2>3. OnCourse(u, x.next)
    BY <1>4, <2>2 DEF OnCourse, InTrace, SplitsAlike
  <2>4. OnTime(u, x.next, cycle)
    BY <1>4, <2>2 DEF OnTime
  <2>5. Recorded(u, x.next)
    BY <1>4, <2>2 DEF Recorded
  <2>6. WaitsInOrder(u, x.next, cycle)
    BY <1>4, <2>2 DEF WaitsInOrder
  <2> QED BY <1>4, <2>2, <2>3, <2>4, <2>5, <2>6
<1>5. ASSUME NEW q \in Seq(Incoming(u)), q # <<>>, NEW cycle,
             \A j \in DOMAIN q : q[j].cycle = cycle /\ Deliverable(u, q[j])
      PROVE  /\ Head(q) \in Incoming(u) /\ Tail(q) \in Seq(Incoming(u))
             /\ Head(q).cycle = cycle /\ Deliverable(u, Head(q))
             /\ \A j \in DOMAIN Tail(q) : Tail(q)[j].cycle = cycle /\ Deliverable(u, Tail(q)[j])
  <2>1. Head(q) = q[1] /\ 1 \in DOMAIN q
    BY <1>5
  <2>2. Tail(q) \in Seq(Incoming(u)) /\ Head(q) \in Incoming(u)
    BY <1>5
  <2>3. \A j \in DOMAIN Tail(q) : j + 1 \in DOMAIN q /\ Tail(q)[j] = q[j + 1]
    BY <1>5
  <2> QED BY <1>5, <2>1, <2>2, <2>3
<1>6. CASE FromPending(u, s, x)
  <2>1. /\ s.pending # <<>> /\ x.part = [Head(s.pending) EXCEPT !.id = s.transactions]
        /\ x.next = [s EXCEPT !.pending = Tail(s.pending),
                              !.transactions = s.transactions + 1]
    BY <1>6 DEF FromPending
  <2>2. /\ Head(s.pending) \in Incoming(u) /\ Tail(s.pending) \in Seq(Incoming(u))
        /\ Head(s.pending).cycle = last /\ Deliverable(u, Head(s.pending))
        /\ \A j \in DOMAIN Tail(s.pending) :
             Tail(s.pending)[j].cycle = last /\ Deliverable(u, Tail(s.pending)[j])
    BY <1>0, <1>5, <2>1 DEF WaitsInOrder
  <2>3. x.part.cycle = last /\ Deliverable(u, x.part)
    BY <1>3, <2>1, <2>2
  <2>4. /\ ~x.next.failed /\ OnCourse(u, x.next) /\ OnTime(u, x.next, last)
        /\ Recorded(u, x.next) /\ WaitsInOrder(u, x.next, last)
    BY <1>4, <2>1, <2>2
  <2> QED BY <2>3, <2>4
<1>7. CASE FromSource(u, s, x)
  <2>1. PICK y \in HostNext(u, s) :
          /\ Advances(u, s, y)
          /\ x.part = [Head(SplitHost(u, y.host)) EXCEPT !.id = s.transactions]
          /\ x.next = [y.next EXCEPT !.pending = Tail(SplitHost(u, y.host)),
                                     !.transactions = s.transactions + 1]
    BY <1>7 DEF FromSource
  <2> DEFINE q == SplitHost(u, y.host)
             c == y.host.cycle
  <2>2. y.next \in Streams(u) /\ y.host \in Hosts(u)
    BY <2>1 DEF Advances, Taken
  <2>3. Follows(u, s, last, y.next, y.host, c) /\ OnCourse(u, y.next)
    BY <2>1, HostOnTime
  <2>4. /\ ~y.next.failed /\ c \in Nat /\ last <= c /\ OnTime(u, y.next, c)
        /\ Recorded(u, y.next) /\ Aims(u, y.host)
    BY <2>3 DEF Follows
  <2>5. /\ q \in Seq(Incoming(u)) /\ Len(q) = SplitSize(u, y.host)
        /\ SplitSize(u, y.host) \in Nat \ {0}
    BY <2>2, SplitTyped
  <2>6. \A j \in 1 .. SplitSize(u, y.host) : q[j].cycle = c /\ Deliverable(u, q[j])
    BY <2>2, <2>4, SplitInOrder
  <2> HIDE DEF q
  <2>7. q # <<>> /\ DOMAIN q = 1 .. SplitSize(u, y.host)
    BY <2>5
  <2>8. /\ Head(q) \in Incoming(u) /\ Tail(q) \in Seq(Incoming(u))
        /\ Head(q).cycle = c /\ Deliverable(u, Head(q))
        /\ \A j \in DOMAIN Tail(q) : Tail(q)[j].cycle = c /\ Deliverable(u, Tail(q)[j])
    <3> HIDE DEF c
    <3> QED BY <1>5, <2>5, <2>6, <2>7
  <2>9. x.part.cycle = c /\ Deliverable(u, x.part)
    BY <1>3, <2>1, <2>8 DEF q
  <2>10. /\ ~x.next.failed /\ OnCourse(u, x.next) /\ OnTime(u, x.next, c)
         /\ Recorded(u, x.next) /\ WaitsInOrder(u, x.next, c)
    <3>1. x.next = [y.next EXCEPT !.pending = Tail(q), !.transactions = s.transactions + 1]
      BY <2>1 DEF q
    <3> HIDE DEF c
    <3> QED BY <1>4, <2>2, <2>3, <2>4, <2>8, <3>1, ZenonT(60)
  <2> QED BY <2>4, <2>9, <2>10
<1> QED BY <1>1, <1>6, <1>7

AllSound == \A u \in Setups : SoundWorkload(u)

\* The run goes well: the stream has not failed, hands out requests in the order
\* of their cycles, and what it handed out can be delivered.
Smooth ==
  /\ status # "threw" /\ ~stream.failed
  /\ OnCourse(setup, stream) /\ OnTime(setup, stream, lastCycle)
  /\ Recorded(setup, stream) /\ WaitsInOrder(setup, stream, lastCycle)
  /\ \A r \in held : Deliverable(setup, r)

\* A run starts well.
LEMMA SmoothStarts == Init => Smooth
<1> SUFFICES ASSUME Init
             PROVE  Smooth
  OBVIOUS
<1> DEFINE u == setup
           s == InitialStream
<1>1. /\ u \in Setups /\ Legal(u) /\ stream = s /\ lastCycle = 0 /\ held = {}
      /\ status = "running"
  BY SetupsAreLegal DEF Init
<1>2. /\ s.line = 1 /\ s.nextId = 0 /\ s.emitted = 0 /\ s.burst = NoBurst
      /\ s.control = 0 /\ s.pending = <<>> /\ ~s.failed /\ DOMAIN s.lastWrites = {}
  BY DEF InitialStream
<1>3. ~NoBurst.active
  BY DEF NoBurst
<1>4. OnCourse(u, s)
  BY <1>1, CourseStarts
<1>5. u.controlInterval \in Nat
  BY <1>1, ShiftIsLater
<1> HIDE DEF s
<1>6. OnTime(u, s, 0)
  BY <1>2, <1>3, <1>5 DEF OnTime
<1>7. Recorded(u, s)
  <2> SUFFICES ASSUME NEW j \in DOMAIN u.trace, j < s.line - 1 \/ j = s.line - 1
               PROVE  FALSE
    BY <1>2 DEF Recorded
  <2>1. j \in Nat \ {0}
    BY <1>1, LegalParts
  <2> QED BY <1>2, <2>1
<1>8. WaitsInOrder(u, s, 0)
  BY <1>2 DEF WaitsInOrder
<1> QED BY <1>1, <1>2, <1>4, <1>6, <1>7, <1>8 DEF Smooth

\* enqueue() does not throw for what can be delivered.
LEMMA DeliverableRoutable ==
  ASSUME NEW r \in Incoming(setup), Deliverable(setup, r)
  PROVE  Routable(r)
<1>1. CASE r.type = "control" /\ r.stack \in 0 .. setup.map.stacks - 1
  <2>1. r.stack # None
    BY <1>1 DEF None
  <2> QED BY <1>1, <2>1 DEF Routable, Stacks
<1>2. CASE (r.explicit <=> r.stack # None) /\ Located(setup, r.stack, r.address)
  <2> DEFINE d == [stack |-> r.stack, local |-> r.address]
  <2>1. CASE r.explicit
    <3>1. InStacks(setup.map, d)
      BY <1>2, <2>1 DEF Located
    <3>2. r.stack \in Stacks
      BY <3>1 DEF InStacks, Stacks
    <3> QED BY <2>1, <3>1, <3>2 DEF Routable
  <2>2. CASE ~r.explicit
    <3>1. InStacks(setup.map, StackDecode(setup.map, r.address)) /\ r.stack = None
      BY <1>2, <2>2 DEF Located
    <3> QED BY <2>2, <3>1 DEF Routable
  <2> QED BY <2>1, <2>2
<1> QED BY <1>1, <1>2 DEF Deliverable

\* And goes on well.
LEMMA SmoothStays ==
  ASSUME AllSound
  PROVE  FrontendTyped /\ Smooth /\ [Next]_vars => Smooth'
<1> SUFFICES ASSUME FrontendTyped, Smooth, [Next]_vars
             PROVE  Smooth'
  OBVIOUS
<1>1. /\ setup \in Setups /\ Legal(setup) /\ stream \in Streams(setup)
      /\ SoundWorkload(setup) /\ lastCycle \in Nat /\ held \in SUBSET Incoming(setup)
  BY SetupsAreLegal DEF FrontendTyped, SourceTyped, AllSound
<1>2. CASE Fetch
  <2>1. PICK x \in StreamNext(setup, stream) :
          /\ stream' = x.next /\ lastCycle' = x.part.cycle /\ held' = {x.part}
          /\ status' = IF x.next.failed \/ x.part.cycle < lastCycle THEN "threw" ELSE status
    BY <1>2 DEF Fetch
  <2>2. setup' = setup
    BY <1>2 DEF Fetch
  <2>3. /\ ~x.next.failed /\ lastCycle <= x.part.cycle /\ Deliverable(setup, x.part)
        /\ OnCourse(setup, x.next) /\ OnTime(setup, x.next, x.part.cycle)
        /\ Recorded(setup, x.next) /\ WaitsInOrder(setup, x.next, x.part.cycle)
    BY <1>1, StreamOnTime DEF Smooth
  <2>4. x.part.cycle \in Nat
    BY <1>1, StreamTyped DEF Incoming, Parts, PartRecords
  <2>5. ~(x.part.cycle < lastCycle)
    BY <1>1, <2>3, <2>4
  <2>6. status' # "threw"
    BY <2>1, <2>3, <2>5 DEF Smooth
  <2> QED BY <2>1, <2>2, <2>3, <2>6 DEF Smooth
<1>3. ASSUME setup' = setup, stream' = stream, lastCycle' = lastCycle,
             held' \subseteq held, status' # "threw"
      PROVE  Smooth'
  BY <1>3 DEF Smooth
<1>4. CASE Enqueue
  <2>1. PICK r \in Due :
          \/ ~Routable(r)
          \/ held' = {} /\ status' = status
    BY <1>4 DEF Enqueue
  <2>2. setup' = setup /\ stream' = stream /\ lastCycle' = lastCycle
    BY <1>4 DEF Enqueue
  <2>3. r \in held /\ r \in Incoming(setup) /\ Deliverable(setup, r)
    BY <1>1, <2>1 DEF Due, Smooth
  <2>4. held' = {} /\ status' = status
    BY <2>1, <2>3, DeliverableRoutable
  <2> QED BY <1>3, <2>2, <2>4 DEF Smooth
<1>5. CASE SourceEnds \/ StepBegins \/ Finish
  <2>1. /\ setup' = setup /\ stream' = stream /\ lastCycle' = lastCycle /\ held' = held
        /\ status' = status \/ status' = "finished"
    BY <1>5 DEF SourceEnds, StepBegins, Finish
  <2> QED BY <1>3, <2>1 DEF Smooth
<1>6. CASE \E c \in Controllers : ControllerStep(c)
  <2>1. \A c, p : Turn(c, p) => /\ setup' = setup /\ stream' = stream /\ held' = held
                                /\ lastCycle' = lastCycle /\ status' = status
    BY DEF Turn
  <2> QED BY <1>3, <1>6, <2>1 DEF ControllerStep, ColumnTurn, RowTurn, DropPrecharge, Smooth
<1>7. CASE UNCHANGED vars
  BY <1>3, <1>7 DEF vars, Smooth
<1> QED BY <1>2, <1>4, <1>5, <1>6, <1>7 DEF Next, ControllerStep

\* A run throws for none of its requests: inject cycles are in order, the
\* control sequence included, every last_write is known and every transaction
\* of a host line is in a stack.  It holds where the lines of a trace are in that
\* order, each last_write follows a write of its address, and no stripe of
\* an interleaved map is cut off at the end of a stack, none of which the code
\* refuses (run_source(), lookup_last_write_payload(), StackAddressMapper).
THEOREM RunsNeverThrow ==
  ASSUME AllSound
  PROVE  Spec => []NeverThrows
<1>1. Init => FrontendTyped /\ Smooth
  BY InitTyped, SmoothStarts
<1>2. FrontendTyped /\ Smooth /\ [Next]_vars => FrontendTyped' /\ Smooth'
  BY NextTyped, SmoothStays
<1>3. Smooth => NeverThrows
  BY DEF Smooth, NeverThrows
<1> QED BY <1>1, <1>2, <1>3, PTL DEF Spec
=============================================================================
