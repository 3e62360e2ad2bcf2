---------------------------- MODULE SeqRunProofs ----------------------------
(***************************************************************************)
(* Induction in the form the provers can use, over the set of the numbers, *)
(* or sequences, for which a fact holds, and what it proves of Run.        *)
(***************************************************************************)
EXTENDS SeqRun, SequenceTheorems, WellFoundedInduction, TLAPS

\* Induction over the natural numbers; S is the set of those with a property.
LEMMA NatsAreReached ==
  ASSUME NEW S, 0 \in S, \A n \in Nat : n \in S => n + 1 \in S
  PROVE  Nat \subseteq S
<1> SUFFICES ASSUME Nat \ S # {} PROVE FALSE
  OBVIOUS
<1> DEFINE T == Nat \ S
           R == OpToRel(<, Nat)
<1>1. \E x \in T : \A y \in T : ~ (<<y, x>> \in R)
  <2>1. IsWellFoundedOn(R, Nat)
    BY NatLessThanWellFounded
  <2> HIDE DEF R
  <2> QED BY <2>1, WFMin
<1>2. PICK x \in T : \A y \in T : ~ (<<y, x>> \in R)
  BY <1>1
<1>3. \A y \in T : ~(y < x)
  BY <1>2 DEF OpToRel
<1>4. x \in Nat /\ x # 0 /\ x - 1 \in Nat /\ x - 1 < x
  OBVIOUS
<1>5. x - 1 \in S
  BY <1>3, <1>4
<1> QED
  BY <1>4, <1>5

\* Induction over sequences, by their last element.
LEMMA SeqsAreReached ==
  ASSUME NEW E, NEW S, <<>> \in S,
         \A s \in Seq(E), e \in E : s \in S => Append(s, e) \in S
  PROVE  Seq(E) \subseteq S
<1> DEFINE L == {n \in Nat : \A s \in Seq(E) : Len(s) = n => s \in S}
<1>1. 0 \in L
  <2>1. \A s \in Seq(E) : Len(s) = 0 => s = <<>>
    BY EmptySeq
  <2> QED BY <2>1
<1>2. ASSUME NEW n \in Nat, n \in L PROVE n + 1 \in L
  <2> SUFFICES ASSUME NEW s \in Seq(E), Len(s) = n + 1 PROVE s \in S
    OBVIOUS
  <2>1. s # <<>>
    BY EmptySeq
  <2>2. PICK t \in Seq(E), e \in E : s = Append(t, e)
    BY <2>1, SequenceEmptyOrAppend
  <2>3. Len(t) \in Nat /\ Len(s) = Len(t) + 1
    BY <2>2, LenProperties, AppendProperties
  <2>4. t \in S
    BY <1>2, <2>3
  <2> QED BY <2>2, <2>4
<1> HIDE DEF L
<1>3. Nat \subseteq L
  BY <1>1, <1>2, NatsAreReached
<1>4. \A s \in Seq(E) : Len(s) \in Nat
  BY LenProperties
<1> QED
  BY <1>3, <1>4 DEF L

\* What the body of a loop over elements of E is, for values in D.
Steps(D, E) == [D \X E -> D]

\* The loop over s has a value at every place, the one the definition says.
IsTrace(f, step, first, s, n) ==
  f = [k \in 0 .. n |-> IF k = 0 THEN first ELSE step[<<f[k - 1], s[k]>>]]

\* A loop over s has, for every n, a record of its first n rounds.
LEMMA TraceExists ==
  ASSUME NEW D, NEW E, NEW step \in Steps(D, E), NEW first \in D, NEW s \in Seq(E)
  PROVE  \A n \in 0 .. Len(s) : \E f \in [0 .. n -> D] : IsTrace(f, step, first, s, n)
<1> DEFINE S == {n \in Nat : n <= Len(s) => \E f \in [0 .. n -> D] : IsTrace(f, step, first, s, n)}
<1>0. Len(s) \in Nat
  BY LenProperties
<1>1. 0 \in S
  <2> DEFINE f == [k \in 0 .. 0 |-> first]
  <2>1. f \in [0 .. 0 -> D]
    OBVIOUS
  <2>2. IsTrace(f, step, first, s, 0)
    BY DEF IsTrace
  <2> QED BY <2>1, <2>2
<1>2. ASSUME NEW n \in Nat, n \in S PROVE n + 1 \in S
  <2> SUFFICES ASSUME n + 1 <= Len(s)
               PROVE  \E f \in [0 .. n + 1 -> D] : IsTrace(f, step, first, s, n + 1)
    OBVIOUS
  <2>1. PICK g \in [0 .. n -> D] : IsTrace(g, step, first, s, n)
    BY <1>0, <1>2
  <2>2. s[n + 1] \in E
    BY <1>0, ElementOfSeq
  <2> DEFINE f == [k \in 0 .. n + 1 |-> IF k <= n THEN g[k] ELSE step[<<g[n], s[n + 1]>>]]
  <2>3. f \in [0 .. n + 1 -> D]
    BY <2>2 DEF Steps
  <2>4. IsTrace(f, step, first, s, n + 1)
    <3>1. \A k \in 0 .. n : g[k] = IF k = 0 THEN first ELSE step[<<g[k - 1], s[k]>>]
      BY <2>1 DEF IsTrace
    <3>2. \A k \in 0 .. n : f[k] = g[k]
      OBVIOUS
    <3>3. f[n + 1] = step[<<f[n], s[n + 1]>>]
      <4>1. n + 1 \in 0 .. n + 1 /\ ~(n + 1 <= n) /\ n \in 0 .. n
        OBVIOUS
      <4>2. f[n + 1] = step[<<g[n], s[n + 1]>>]
        BY <4>1
      <4> QED BY <3>2, <4>1, <4>2
    <3> HIDE DEF f
    <3>4. \A k \in 0 .. n + 1 : f[k] = IF k = 0 THEN first ELSE step[<<f[k - 1], s[k]>>]
      <4> SUFFICES ASSUME NEW k \in 0 .. n + 1
                   PROVE  f[k] = IF k = 0 THEN first ELSE step[<<f[k - 1], s[k]>>]
        OBVIOUS
      <4>1. CASE k \in 0 .. n
        <5>1. k # 0 => k - 1 \in 0 .. n
          BY <4>1
        <5> QED BY <3>1, <3>2, <4>1, <5>1
      <4>2. CASE k = n + 1
        BY <3>3, <4>2
      <4> QED BY <4>1, <4>2
    <3>5. [k \in 0 .. n + 1 |-> f[k]] = f
      BY <2>3
    <3> QED BY <3>4, <3>5 DEF IsTrace
  <2> QED BY <2>3, <2>4
<1> HIDE DEF S
<1>3. Nat \subseteq S
  BY <1>1, <1>2, NatsAreReached
<1> QED
  BY <1>0, <1>3 DEF S

IsLoop(f, step, first, s, n) ==
  /\ f[0] = first
  /\ \A k \in 1 .. n : f[k] = step[<<f[k - 1], s[k]>>]

\* That record begins with first and follows step.
LEMMA TraceValues ==
  ASSUME NEW step, NEW first, NEW s, NEW n \in Nat, NEW f, IsTrace(f, step, first, s, n)
  PROVE  f = [k \in 0 .. n |-> f[k]] /\ IsLoop(f, step, first, s, n)
<1> DEFINE h == [k \in 0 .. n |-> IF k = 0 THEN first ELSE step[<<f[k - 1], s[k]>>]]
<1>1. f = h
  BY DEF IsTrace
<1>2. /\ h = [k \in 0 .. n |-> h[k]] /\ h[0] = first
      /\ \A k \in 1 .. n : h[k] = step[<<f[k - 1], s[k]>>]
  OBVIOUS
<1> HIDE DEF h
<1> QED
  BY <1>1, <1>2 DEF IsLoop

\* Trace is the record of all rounds.
LEMMA TraceIs ==
  ASSUME NEW D, NEW E, NEW step \in Steps(D, E), NEW first \in D, NEW s \in Seq(E)
  PROVE  /\ Trace(step, first, s) \in [0 .. Len(s) -> D]
         /\ IsLoop(Trace(step, first, s), step, first, s, Len(s))
<1>1. Len(s) \in Nat
  BY LenProperties
<1>2. PICK f \in [0 .. Len(s) -> D] : IsTrace(f, step, first, s, Len(s))
  <2>1. Len(s) \in 0 .. Len(s)
    BY <1>1
  <2> QED BY <2>1, TraceExists
<1>3. IsTrace(Trace(step, first, s), step, first, s, Len(s))
  BY <1>2 DEF Trace, IsTrace
<1> DEFINE t == Trace(step, first, s)
<1> HIDE DEF t
<1>4. IsTrace(t, step, first, s, Len(s))
  BY <1>3 DEF t
<1>9. t = [k \in 0 .. Len(s) |-> t[k]] /\ IsLoop(t, step, first, s, Len(s))
  BY <1>1, <1>4, TraceValues
<1> DEFINE S == {k \in Nat : k <= Len(s) => t[k] \in D}
<1>5. 0 \in S
  BY <1>9 DEF IsLoop
<1>6. ASSUME NEW k \in Nat, k \in S PROVE k + 1 \in S
  <2> SUFFICES ASSUME k + 1 <= Len(s) PROVE t[k + 1] \in D
    OBVIOUS
  <2>1. k + 1 \in 1 .. Len(s) /\ t[k] \in D /\ (k + 1) - 1 = k
    BY <1>1, <1>6
  <2>2. s[k + 1] \in E
    BY <2>1, ElementOfSeq
  <2>3. step[<<t[k], s[k + 1]>>] \in D
    BY <2>1, <2>2 DEF Steps
  <2> QED BY <1>9, <2>1, <2>3 DEF IsLoop
<1> HIDE DEF S
<1>7. Nat \subseteq S
  BY <1>5, <1>6, NatsAreReached
<1>8. \A k \in 0 .. Len(s) : t[k] \in D
  BY <1>1, <1>7 DEF S
<1> QED
  BY <1>9, <1>8 DEF t

\* Two loops that start alike and go over the same elements have the same
\* values as far as they do.
ValueAt(step, first, s, n) == Trace(step, first, s)[n]
BeginsWith(t, s) == Len(s) <= Len(t) /\ \A k \in 1 .. Len(s) : s[k] = t[k]

\* The loop over a longer sequence begins with the loop over the shorter one.
LEMMA TracesAgree ==
  ASSUME NEW D, NEW E, NEW step \in Steps(D, E), NEW first \in D,
         NEW s \in Seq(E), NEW t \in Seq(E), BeginsWith(t, s)
  PROVE  ValueAt(step, first, t, Len(s)) = Run(step, first, s)
<1> DEFINE f == Trace(step, first, s)
           g == Trace(step, first, t)
           S == {n \in Nat : n <= Len(s) => f[n] = g[n]}
<1>1. /\ Len(s) \in Nat /\ Len(t) \in Nat /\ Len(s) <= Len(t)
      /\ \A k \in 1 .. Len(s) : s[k] = t[k]
  BY LenProperties DEF BeginsWith
<1>3. /\ f[0] = first /\ g[0] = first
      /\ \A k \in 1 .. Len(s) : f[k] = step[<<f[k - 1], s[k]>>]
      /\ \A k \in 1 .. Len(t) : g[k] = step[<<g[k - 1], t[k]>>]
  <2>1. IsLoop(f, step, first, s, Len(s)) /\ IsLoop(g, step, first, t, Len(t))
    BY TraceIs
  <2> HIDE DEF f, g
  <2> QED BY <2>1 DEF IsLoop
<1> HIDE DEF f, g
<1>4. 0 \in S
  BY <1>3
<1>5. ASSUME NEW n \in Nat, n \in S PROVE n + 1 \in S
  <2> SUFFICES ASSUME n + 1 <= Len(s) PROVE f[n + 1] = g[n + 1]
    OBVIOUS
  <2>1. /\ n + 1 \in 1 .. Len(s) /\ n + 1 \in 1 .. Len(t)
        /\ f[n] = g[n] /\ (n + 1) - 1 = n
    BY <1>1, <1>5
  <2>2. f[n + 1] = step[<<f[n], s[n + 1]>>] /\ g[n + 1] = step[<<g[n], t[n + 1]>>]
    BY <1>3, <2>1
  <2>3. s[n + 1] = t[n + 1]
    BY <1>1, <2>1
  <2> QED BY <2>1, <2>2, <2>3
<1> HIDE DEF S
<1>6. Nat \subseteq S
  BY <1>4, <1>5, NatsAreReached
<1>7. f[Len(s)] = g[Len(s)]
  BY <1>1, <1>6 DEF S
<1> QED
  BY <1>7 DEF f, g, ValueAt, Run

\* Run, element by element.
LEMMA RunEmpty ==
  ASSUME NEW D, NEW E, NEW step \in Steps(D, E), NEW first \in D
  PROVE  Run(step, first, <<>>) = first
<1>1. <<>> \in Seq(E) /\ Len(<<>>) = 0
  BY EmptySeq
<1>2. IsLoop(Trace(step, first, <<>>), step, first, <<>>, Len(<<>>))
  BY <1>1, TraceIs
<1> QED
  BY <1>1, <1>2 DEF Run, IsLoop

\* What a loop ends with is one of the values it works with.
LEMMA RunInDomain ==
  ASSUME NEW D, NEW E, NEW step \in Steps(D, E), NEW first \in D, NEW s \in Seq(E)
  PROVE  Run(step, first, s) \in D
<1>1. Len(s) \in Nat /\ Len(s) \in 0 .. Len(s)
  <2>1. Len(s) \in Nat
    BY LenProperties
  <2> QED BY <2>1
<1>2. Trace(step, first, s) \in [0 .. Len(s) -> D]
  BY TraceIs
<1> QED
  BY <1>1, <1>2 DEF Run

\* One element more is one round more.
LEMMA RunAppend ==
  ASSUME NEW D, NEW E, NEW step \in Steps(D, E), NEW first \in D,
         NEW s \in Seq(E), NEW e \in E
  PROVE  Run(step, first, Append(s, e)) = step[<<Run(step, first, s), e>>]
<1> DEFINE longer == Append(s, e)
           f == Trace(step, first, longer)
<1>1. /\ longer \in Seq(E) /\ Len(longer) = Len(s) + 1 /\ Len(s) \in Nat
      /\ \A k \in 1 .. Len(s) : s[k] = longer[k]
      /\ longer[Len(s) + 1] = e
  BY AppendProperties, LenProperties
<1> HIDE DEF longer
<1>2. \A k \in 1 .. Len(longer) : f[k] = step[<<f[k - 1], longer[k]>>]
  <2>1. IsLoop(f, step, first, longer, Len(longer))
    BY <1>1, TraceIs
  <2> HIDE DEF f
  <2> QED BY <2>1 DEF IsLoop
<1>3. f[Len(s)] = Run(step, first, s)
  <2>1. BeginsWith(longer, s)
    BY <1>1 DEF BeginsWith
  <2>2. ValueAt(step, first, longer, Len(s)) = Run(step, first, s)
    BY <1>1, <2>1, TracesAgree
  <2> QED BY <2>2 DEF ValueAt
<1> HIDE DEF f
<1>4. f[Len(s) + 1] = step[<<f[Len(s)], longer[Len(s) + 1]>>]
  <2>1. Len(s) + 1 \in 1 .. Len(longer) /\ (Len(s) + 1) - 1 = Len(s)
    BY <1>1
  <2> QED BY <1>2, <2>1
<1> QED
  BY <1>1, <1>3, <1>4 DEF Run, f, longer

\* One element more at the end of the second sequence.
LEMMA ConcatAppend ==
  ASSUME NEW S, NEW s \in Seq(S), NEW t \in Seq(S), NEW e \in S
  PROVE  s \o Append(t, e) = Append(s \o t, e)
<1>1. <<e>> \in Seq(S) /\ s \o t \in Seq(S)
  BY ConcatProperties
<1> QED
  BY <1>1, AppendIsConcat, ConcatAssociative
=============================================================================
