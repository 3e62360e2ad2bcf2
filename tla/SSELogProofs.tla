---------------------------- MODULE SSELogProofs ----------------------------
(***************************************************************************)
(* Theorems about SSELog, for streams of any length cut into chunks in any *)
(* way, any deltas and any cap on what is held: the stored log has every   *)
(* text field of the stream in full and in order, and the last of the      *)
(* fields of which one stays.                                              *)
(***************************************************************************)
EXTENDS SSELog, SeqRunProofs, FiniteSetTheorems

Names == Text \cup Latest
Empty == [f \in Names |-> <<>>]

----------------------------------------------------------------------------
\* What Run starts with, as a value of its own.
Nil == <<>>

\* The pieces of a field, one position more.
LEMMA PiecesSteps ==
  ASSUME NEW s, Len(s) \in Nat, NEW f
  PROVE  /\ Pieces(s, <<>>, f) = <<>>
         /\ \A r \in Seq(Places(s)) :
              /\ Pieces(s, r, f) \in Seq(Places(s))
              /\ \A p \in Places(s) :
                   Pieces(s, Append(r, p), f)
                     = IF Has(s, p, f) THEN Append(Pieces(s, r, f), p) ELSE Pieces(s, r, f)
<1> DEFINE E == Places(s)
           D == Seq(E)
           step == Piece(s, f)
<1>1. Nil \in D
  BY EmptySeq DEF Nil
<1>2. step = [a \in D \X E |-> IF Has(s, a[2], f) THEN Append(a[1], a[2]) ELSE a[1]]
  BY DEF Piece
<1>3. \A a \in D, p \in E : Append(a, p) \in D
  BY AppendProperties
<1>4. \A r : Pieces(s, r, f) = Run(step, Nil, r)
  BY DEF Pieces, Nil
<1> HIDE DEF E, D, step
<1>5. step \in Steps(D, E)
  BY <1>2, <1>3 DEF Steps
<1>6. Pieces(s, <<>>, f) = <<>>
  BY <1>1, <1>4, <1>5, RunEmpty DEF Nil
<1>7. ASSUME NEW r \in Seq(E) PROVE Pieces(s, r, f) \in D
  BY <1>1, <1>4, <1>5, RunInDomain
<1>8. ASSUME NEW r \in Seq(E), NEW p \in E
      PROVE  Pieces(s, Append(r, p), f)
               = IF Has(s, p, f) THEN Append(Pieces(s, r, f), p) ELSE Pieces(s, r, f)
  <2>1. Pieces(s, Append(r, p), f) = step[<<Pieces(s, r, f), p>>]
    BY <1>1, <1>4, <1>5, RunAppend
  <2>2. Pieces(s, r, f) \in D
    BY <1>7
  <2> QED BY <1>2, <2>1, <2>2
<1> QED BY <1>6, <1>7, <1>8 DEF D, E

\* The pieces of two parts, one after the other.
LEMMA PiecesConcat ==
  ASSUME NEW s, Len(s) \in Nat, NEW f, NEW a \in Seq(Places(s)), NEW b \in Seq(Places(s))
  PROVE  Pieces(s, a \o b, f) = Pieces(s, a, f) \o Pieces(s, b, f)
<1> DEFINE E == Places(s)
           S == {t \in Seq(E) : Pieces(s, a \o t, f) = Pieces(s, a, f) \o Pieces(s, t, f)}
<1>0. a \in Seq(E) /\ b \in Seq(E)
  OBVIOUS
<1>p. /\ Pieces(s, <<>>, f) = <<>>
      /\ \A r \in Seq(E) :
           /\ Pieces(s, r, f) \in Seq(E)
           /\ \A p \in E :
                Pieces(s, Append(r, p), f)
                  = IF Has(s, p, f) THEN Append(Pieces(s, r, f), p) ELSE Pieces(s, r, f)
  BY PiecesSteps
<1> HIDE DEF E
<1>1. <<>> \in S
  <2>1. <<>> \in Seq(E)
    BY EmptySeq
  <2>2. a \o <<>> = a
    BY <1>0, ConcatEmptySeq
  <2>3. Pieces(s, a, f) \o <<>> = Pieces(s, a, f)
    BY <1>0, <1>p, ConcatEmptySeq
  <2> QED BY <1>p, <2>1, <2>2, <2>3
<1>2. ASSUME NEW t \in Seq(E), NEW p \in E, t \in S PROVE Append(t, p) \in S
  <2>1. Append(t, p) \in Seq(E) /\ a \o t \in Seq(E)
    BY <1>0, AppendProperties, ConcatProperties
  <2>2. a \o Append(t, p) = Append(a \o t, p)
    BY <1>0, ConcatAppend
  <2> DEFINE x == Pieces(s, a, f)
             y == Pieces(s, t, f)
  <2>3. x \in Seq(E) /\ y \in Seq(E) /\ Pieces(s, a \o t, f) = x \o y
    BY <1>0, <1>2, <1>p
  <2>4. Pieces(s, Append(a \o t, p), f) = IF Has(s, p, f) THEN Append(x \o y, p) ELSE x \o y
    BY <1>p, <2>1, <2>3
  <2>5. Pieces(s, Append(t, p), f) = IF Has(s, p, f) THEN Append(y, p) ELSE y
    BY <1>p
  <2> HIDE DEF x, y
  <2>6. x \o Append(y, p) = Append(x \o y, p)
    <3>1. x \in Seq(E) /\ y \in Seq(E) /\ p \in E
      BY <2>3
    <3> QED BY ONLY <3>1, ConcatAppend
  <2>7. Pieces(s, Append(a \o t, p), f) = x \o Pieces(s, Append(t, p), f)
    BY <2>4, <2>5, <2>6
  <2> QED BY <2>1, <2>2, <2>7 DEF x
<1> HIDE DEF S
<1>3. Seq(E) \subseteq S
  BY <1>1, <1>2, SeqsAreReached
<1> QED BY <1>0, <1>3 DEF S

\* s is the beginning of t.
BeginsIn(s, t) ==
  /\ Len(s) \in Nat /\ Len(t) \in Nat /\ Len(s) <= Len(t)
  /\ \A p \in Places(s) : s[p] = t[p]

LEMMA BeginsInPlaces ==
  ASSUME NEW s, NEW t, BeginsIn(s, t)
  PROVE  Places(s) \subseteq Places(t) /\ Seq(Places(s)) \subseteq Seq(Places(t))
<1>1. Places(s) \subseteq Places(t)
  BY DEF BeginsIn, Places
<1> QED BY <1>1, SeqMonotonic

\* More of the stream does not change the pieces of what was there.
LEMMA PiecesGrow ==
  ASSUME NEW s, NEW t, BeginsIn(s, t), NEW f, NEW r \in Seq(Places(s))
  PROVE  Pieces(t, r, f) = Pieces(s, r, f)
<1> DEFINE E == Places(s)
           S == {x \in Seq(E) : Pieces(t, x, f) = Pieces(s, x, f)}
<1>0. Len(s) \in Nat /\ Len(t) \in Nat /\ E \subseteq Places(t) /\ Seq(E) \subseteq Seq(Places(t))
  BY BeginsInPlaces DEF BeginsIn
<1>1. <<>> \in S
  BY <1>0, PiecesSteps, EmptySeq
<1>2. ASSUME NEW x \in Seq(E), NEW p \in E, x \in S PROVE Append(x, p) \in S
  <2>1. Append(x, p) \in Seq(E)
    BY AppendProperties
  <2>2. Pieces(t, Append(x, p), f)
          = IF Has(t, p, f) THEN Append(Pieces(t, x, f), p) ELSE Pieces(t, x, f)
    BY <1>0, PiecesSteps
  <2>3. Pieces(s, Append(x, p), f)
          = IF Has(s, p, f) THEN Append(Pieces(s, x, f), p) ELSE Pieces(s, x, f)
    BY <1>0, PiecesSteps
  <2>4. Has(t, p, f) <=> Has(s, p, f)
    BY DEF Has, BeginsIn
  <2>5. Pieces(t, x, f) = Pieces(s, x, f)
    BY <1>2
  <2>6. Pieces(t, Append(x, p), f) = Pieces(s, Append(x, p), f)
    BY <2>2, <2>3, <2>4, <2>5
  <2> QED BY <2>1, <2>6
<1> HIDE DEF S, E
<1>3. Seq(E) \subseteq S
  BY <1>1, <1>2, SeqsAreReached
<1> QED BY <1>3 DEF S, E

----------------------------------------------------------------------------
\* The fields of events.
LEMMA EventFields ==
  ASSUME NEW raw, NEW merged, NEW obj
  PROVE  EventOf(raw, merged, obj).raw = raw /\ EventOf(raw, merged, obj).obj = obj
BY Zenon DEF EventOf

LEMMA EventTyped ==
  ASSUME NEW s, NEW raw \in Seq(Places(s)), NEW merged \in BOOLEAN,
         NEW obj \in [Names -> Seq(Places(s))]
  PROVE  EventOf(raw, merged, obj) \in Events(s)
BY Zenon DEF EventOf, Events, Names

LEMMA EventsAre ==
  ASSUME NEW s, NEW e \in Events(s)
  PROVE  e.raw \in Seq(Places(s)) /\ e.obj \in [Names -> Seq(Places(s))]
BY DEF Events, Names

LEMMA NewEvent ==
  ASSUME NEW s, Len(s) \in Nat, NEW raw \in Seq(Places(s))
  PROVE  /\ Event(s, raw) \in Events(s) /\ Plain(raw) \in Events(s) /\ NoEvent \in Events(s)
         /\ \A f \in Names : /\ Event(s, raw).obj[f] = Pieces(s, raw, f)
                             /\ NoEvent.obj[f] = <<>>
                             /\ FieldOf(s, Event(s, raw), f) = Pieces(s, raw, f)
                             /\ FieldOf(s, Plain(raw), f) = Pieces(s, raw, f)
                             /\ FieldOf(s, NoEvent, f) = <<>>
<1> DEFINE obj == [f \in Names |-> Pieces(s, raw, f)]
<1>1. <<>> \in Seq(Places(s)) /\ \A f : Pieces(s, raw, f) \in Seq(Places(s))
  BY PiecesSteps, EmptySeq
<1>2. obj \in [Names -> Seq(Places(s))] /\ Empty \in [Names -> Seq(Places(s))]
  BY <1>1 DEF Empty
<1>3. /\ Event(s, raw) = EventOf(raw, FALSE, obj)
      /\ Plain(raw) = EventOf(raw, FALSE, Empty)
      /\ NoEvent = EventOf(<<>>, FALSE, Empty)
  BY DEF Event, Plain, NoEvent, Empty, Names
<1>4. FALSE \in BOOLEAN
  OBVIOUS
<1>5. /\ Event(s, raw) \in Events(s) /\ Plain(raw) \in Events(s) /\ NoEvent \in Events(s)
  BY <1>1, <1>2, <1>3, <1>4, EventTyped, Zenon
<1> HIDE DEF obj
<1>6. /\ Event(s, raw).raw = raw /\ ~Event(s, raw).merged /\ Event(s, raw).obj = obj
      /\ Plain(raw).raw = raw /\ ~Plain(raw).merged
      /\ NoEvent.raw = <<>> /\ ~NoEvent.merged /\ NoEvent.obj = Empty
  <2>1. \A o : LET e == EventOf(raw, FALSE, o) IN e.raw = raw /\ e.obj = o /\ ~e.merged
    BY Zenon DEF EventOf
  <2>2. \A o : LET e == EventOf(<<>>, FALSE, o) IN e.raw = <<>> /\ e.obj = o /\ ~e.merged
    BY Zenon DEF EventOf
  <2>3. Event(s, raw).raw = raw /\ ~Event(s, raw).merged /\ Event(s, raw).obj = obj
    <3>1. LET e == EventOf(raw, FALSE, obj) IN e.raw = raw /\ e.obj = obj /\ ~e.merged
      BY ONLY <2>1, Zenon
    <3> QED BY ONLY <1>3, <3>1, Zenon
  <2>4. Plain(raw).raw = raw /\ ~Plain(raw).merged
    BY ONLY <1>3, <2>1, Zenon
  <2>5. NoEvent.raw = <<>> /\ ~NoEvent.merged /\ NoEvent.obj = Empty
    BY ONLY <1>3, <2>2, Zenon
  <2> QED BY <2>3, <2>4, <2>5
<1>7. ASSUME NEW f \in Names
      PROVE  /\ Event(s, raw).obj[f] = Pieces(s, raw, f)
             /\ NoEvent.obj[f] = <<>>
             /\ FieldOf(s, Event(s, raw), f) = Pieces(s, raw, f)
             /\ FieldOf(s, Plain(raw), f) = Pieces(s, raw, f)
             /\ FieldOf(s, NoEvent, f) = <<>>
  <2>1. Event(s, raw).obj[f] = Pieces(s, raw, f) /\ NoEvent.obj[f] = <<>>
    BY <1>6 DEF Empty, obj
  <2>2. Pieces(s, <<>>, f) = <<>>
    BY PiecesSteps
  <2>3. \A e : ~e.merged => FieldOf(s, e, f) = Pieces(s, e.raw, f)
    BY Zenon DEF FieldOf
  <2> QED BY <1>6, <2>1, <2>2, <2>3, Zenon
<1> QED BY <1>5, <1>7

\* The field of an event is in the stream, and more of the stream changes
\* nothing in it.
LEMMA FieldOfIn ==
  ASSUME NEW s, Len(s) \in Nat, NEW e \in Events(s), NEW f \in Names
  PROVE  FieldOf(s, e, f) \in Seq(Places(s))
<1>1. e.raw \in Seq(Places(s)) /\ e.obj[f] \in Seq(Places(s))
  BY EventsAre
<1>2. Pieces(s, e.raw, f) \in Seq(Places(s))
  BY <1>1, PiecesSteps
<1> QED BY <1>1, <1>2 DEF FieldOf

LEMMA EventsGrow ==
  ASSUME NEW s, NEW t, BeginsIn(s, t), NEW e \in Events(s)
  PROVE  e \in Events(t) /\ \A f \in Names : FieldOf(t, e, f) = FieldOf(s, e, f)
<1>1. Seq(Places(s)) \subseteq Seq(Places(t))
  BY BeginsInPlaces
<1>2. e \in Events(t)
  BY <1>1 DEF Events
<1>3. ASSUME NEW f \in Names PROVE FieldOf(t, e, f) = FieldOf(s, e, f)
  <2>1. Pieces(t, e.raw, f) = Pieces(s, e.raw, f)
    BY EventsAre, PiecesGrow
  <2> QED BY <2>1, Zenon DEF FieldOf
<1> QED BY <1>2, <1>3

\* The field over all events, one event more.
LEMMA LoggedSteps ==
  ASSUME NEW s, Len(s) \in Nat, NEW f \in Names
  PROVE  /\ Logged(s, <<>>, f) = <<>>
         /\ \A es \in Seq(Events(s)) :
              /\ Logged(s, es, f) \in Seq(Places(s))
              /\ \A e \in Events(s) :
                   Logged(s, Append(es, e), f) = Logged(s, es, f) \o FieldOf(s, e, f)
<1> DEFINE E == Events(s)
           D == Seq(Places(s))
           step == Gather(s, f)
<1>1. Nil \in D
  BY EmptySeq DEF Nil
<1>2. step = [a \in D \X E |-> a[1] \o FieldOf(s, a[2], f)]
  BY DEF Gather
<1>3. \A a \in D, e \in E : a \o FieldOf(s, e, f) \in D
  BY FieldOfIn, ConcatProperties
<1>4. \A es : Logged(s, es, f) = Run(step, Nil, es)
  BY DEF Logged, Nil
<1> HIDE DEF E, D, step
<1>5. step \in Steps(D, E)
  BY <1>2, <1>3 DEF Steps
<1>6. Logged(s, <<>>, f) = <<>>
  BY <1>1, <1>4, <1>5, RunEmpty DEF Nil
<1>7. ASSUME NEW es \in Seq(E) PROVE Logged(s, es, f) \in D
  BY <1>1, <1>4, <1>5, RunInDomain
<1>8. ASSUME NEW es \in Seq(E), NEW e \in E
      PROVE  Logged(s, Append(es, e), f) = Logged(s, es, f) \o FieldOf(s, e, f)
  <2>1. Logged(s, Append(es, e), f) = step[<<Logged(s, es, f), e>>]
    BY <1>1, <1>4, <1>5, RunAppend
  <2>2. Logged(s, es, f) \in D
    BY <1>7
  <2> QED BY <1>2, <2>1, <2>2
<1> QED BY <1>6, <1>7, <1>8 DEF D, E

LEMMA LoggedGrow ==
  ASSUME NEW s, NEW t, BeginsIn(s, t), NEW f \in Names, NEW es \in Seq(Events(s))
  PROVE  Logged(t, es, f) = Logged(s, es, f)
<1> DEFINE E == Events(s)
           S == {x \in Seq(E) : Logged(t, x, f) = Logged(s, x, f)}
<1>0. Len(s) \in Nat /\ Len(t) \in Nat /\ E \subseteq Events(t) /\ Seq(E) \subseteq Seq(Events(t))
  <2>1. E \subseteq Events(t)
    BY EventsGrow
  <2> QED BY <2>1, SeqMonotonic DEF BeginsIn
<1>1. <<>> \in S
  BY <1>0, LoggedSteps, EmptySeq
<1>2. ASSUME NEW x \in Seq(E), NEW e \in E, x \in S PROVE Append(x, e) \in S
  <2>1. Append(x, e) \in Seq(E)
    BY AppendProperties
  <2>2. Logged(t, Append(x, e), f) = Logged(t, x, f) \o FieldOf(t, e, f)
    BY <1>0, LoggedSteps
  <2>3. Logged(s, Append(x, e), f) = Logged(s, x, f) \o FieldOf(s, e, f)
    BY <1>0, LoggedSteps
  <2>4. FieldOf(t, e, f) = FieldOf(s, e, f)
    BY EventsGrow
  <2>5. Logged(t, x, f) = Logged(s, x, f)
    BY <1>2
  <2>6. Logged(t, Append(x, e), f) = Logged(s, Append(x, e), f)
    BY <2>2, <2>3, <2>4, <2>5
  <2> QED BY <2>1, <2>6
<1> HIDE DEF S, E
<1>3. Seq(E) \subseteq S
  BY <1>1, <1>2, SeqsAreReached
<1> QED BY <1>3 DEF S, E

----------------------------------------------------------------------------
\* What the whole events are of x, the part of the stream they came from:
\* each text is all there, and the last of every other field is somewhere.
Held(s, l, f, p) ==
  \/ p \in ToSet(FieldOf(s, l.pending, f))
  \/ \E k \in DOMAIN l.blob : p \in ToSet(FieldOf(s, l.blob[k], f))

TextOf(s, l, f) == Logged(s, l.blob, f) \o FieldOf(s, l.pending, f)

LogInv(s, l, x) ==
  /\ l.pending \in Events(s) /\ l.blob \in Seq(Events(s))
  /\ \A f \in Names : l.pending.obj[f] = FieldOf(s, l.pending, f)
  /\ \A f \in Text : TextOf(s, l, f) = Pieces(s, x, f)
  /\ \A f \in Latest : Pieces(s, x, f) # <<>> => Held(s, l, f, Last(Pieces(s, x, f)))

\* The same of the writer, whose lines are not an event yet, for y.
WriterInv(s, w, y) ==
  /\ w \in Writers(s)
  /\ \E x \in Seq(Places(s)) : y = x \o (w.acc \o w.carry) /\ LogInv(s, w.log, x)

\* The fields of a log.
LEMMA LogFields ==
  ASSUME NEW p, NEW b
  PROVE  Log(p, b).pending = p /\ Log(p, b).blob = b
BY Zenon DEF Log

\* The last element of two parts is that of the second, if it has any.
LEMMA LastOfBoth ==
  ASSUME NEW E, NEW a \in Seq(E), NEW b \in Seq(E)
  PROVE  /\ b = <<>> => a \o b = a
         /\ b # <<>> => Last(a \o b) = Last(b) /\ Last(b) \in ToSet(b)
<1>1. b = <<>> => a \o b = a
  BY ConcatEmptySeq
<1>2. ASSUME b # <<>> PROVE Last(a \o b) = Last(b) /\ Last(b) \in ToSet(b)
  <2>1. /\ Len(a) \in Nat /\ Len(b) \in Nat /\ Len(b) # 0 /\ DOMAIN b = 1 .. Len(b)
        /\ Len(a \o b) = Len(a) + Len(b)
    BY <1>2, LenProperties, EmptySeq, ConcatProperties
  <2>2. Len(b) \in 1 .. Len(b) /\ Len(a \o b) > Len(a) /\ Len(a \o b) - Len(a) = Len(b)
    BY <2>1
  <2>3. (a \o b)[Len(a \o b)] = b[Len(b)]
    <3>1. Len(a \o b) \in 1 .. Len(a) + Len(b) /\ ~(Len(a \o b) <= Len(a))
      BY <2>1, <2>2
    <3> QED BY <2>2, <3>1, ConcatProperties
  <2> QED BY <2>1, <2>2, <2>3 DEF Last, ToSet
<1> QED BY <1>1, <1>2

\* An event of the blob has p in a field.
Wrote(s, b, f, p) == \E k \in DOMAIN b : p \in ToSet(FieldOf(s, b[k], f))

LEMMA WroteMore ==
  ASSUME NEW s, NEW b \in Seq(Events(s)), NEW e \in Events(s), NEW f, NEW p,
         p \in ToSet(FieldOf(s, e, f)) \/ Wrote(s, b, f, p)
  PROVE  Wrote(s, Append(b, e), f, p)
<1>1. /\ Len(b) \in Nat /\ DOMAIN b = 1 .. Len(b)
      /\ DOMAIN Append(b, e) = 1 .. Len(b) + 1
      /\ Append(b, e)[Len(b) + 1] = e
      /\ \A k \in 1 .. Len(b) : Append(b, e)[k] = b[k]
  <2>1. Append(b, e) \in Seq(Events(s)) /\ Len(Append(b, e)) = Len(b) + 1
    BY AppendProperties
  <2> QED BY <2>1, AppendProperties, LenProperties
<1>2. CASE p \in ToSet(FieldOf(s, e, f))
  <2>1. Len(b) + 1 \in DOMAIN Append(b, e)
    BY <1>1
  <2> QED BY <1>1, <1>2, <2>1, Zenon DEF Wrote
<1>3. CASE Wrote(s, b, f, p)
  <2>1. PICK k \in DOMAIN b : p \in ToSet(FieldOf(s, b[k], f))
    BY <1>3 DEF Wrote
  <2>2. k \in DOMAIN Append(b, e) /\ Append(b, e)[k] = b[k]
    BY <1>1
  <2> QED BY <2>1, <2>2, Zenon DEF Wrote
<1> QED BY <1>2, <1>3

\* LogInv, from an event that is pending and a blob.
Lasts(s, p, b, x, f) ==
  Pieces(s, x, f) # <<>> =>
    \/ Last(Pieces(s, x, f)) \in ToSet(FieldOf(s, p, f))
    \/ Wrote(s, b, f, Last(Pieces(s, x, f)))

LEMMA LogInvOf ==
  ASSUME NEW s, NEW p, NEW b, NEW x
  PROVE  LogInv(s, Log(p, b), x) <=>
           /\ p \in Events(s) /\ b \in Seq(Events(s))
           /\ \A f \in Names : p.obj[f] = FieldOf(s, p, f)
           /\ \A f \in Text : Logged(s, b, f) \o FieldOf(s, p, f) = Pieces(s, x, f)
           /\ \A f \in Latest : Lasts(s, p, b, x, f)
<1> DEFINE l == Log(p, b)
<1>1. l.pending = p /\ l.blob = b
  BY LogFields
<1> HIDE DEF l
<1> SUFFICES LogInv(s, l, x) <=>
               /\ p \in Events(s) /\ b \in Seq(Events(s))
               /\ \A f \in Names : p.obj[f] = FieldOf(s, p, f)
               /\ \A f \in Text : Logged(s, b, f) \o FieldOf(s, p, f) = Pieces(s, x, f)
               /\ \A f \in Latest : Lasts(s, p, b, x, f)
  BY DEF l
<1> QED BY <1>1, Zenon DEF LogInv, Lasts, Held, Wrote, TextOf

LEMMA LogInvSame ==
  ASSUME NEW s, NEW l, NEW x
  PROVE  LogInv(s, l, x) <=> LogInv(s, Log(l.pending, l.blob), x)
<1> DEFINE m == Log(l.pending, l.blob)
<1>1. m.pending = l.pending /\ m.blob = l.blob
  BY LogFields
<1> HIDE DEF m
<1>2. LogInv(s, l, x) <=> LogInv(s, m, x)
  BY <1>1, Zenon DEF LogInv, Held, TextOf
<1> QED BY <1>2 DEF m

\* flushPending keeps what there is.
LEMMA FlushedKeeps ==
  ASSUME NEW s, Len(s) \in Nat, NEW l, NEW x \in Seq(Places(s)), LogInv(s, l, x)
  PROVE  LogInv(s, Flushed(l), x) /\ Flushed(l).pending = NoEvent
<1>1. CASE l.pending = NoEvent
  BY <1>1, Zenon DEF Flushed
<1>2. CASE l.pending # NoEvent
  <2> DEFINE p == l.pending
             b == l.blob
             c == Append(b, p)
  <2>0. Flushed(l) = Log(NoEvent, c)
    BY <1>2, Zenon DEF Flushed
  <2>1. /\ p \in Events(s) /\ b \in Seq(Events(s))
        /\ \A f \in Text : Logged(s, b, f) \o FieldOf(s, p, f) = Pieces(s, x, f)
        /\ \A f \in Latest : Lasts(s, p, b, x, f)
    <3>1. LogInv(s, Log(p, b), x)
      BY LogInvSame, Zenon
    <3> HIDE DEF p, b
    <3> QED BY ONLY <3>1, LogInvOf, Zenon
  <2>2. c \in Seq(Events(s)) /\ NoEvent \in Events(s)
    BY <2>1, AppendProperties, NewEvent
  <2>3. \A f \in Names : NoEvent.obj[f] = <<>> /\ FieldOf(s, NoEvent, f) = <<>>
    BY NewEvent
  <2> HIDE DEF p, b
  <2>4. ASSUME NEW f \in Text
        PROVE  Logged(s, c, f) \o FieldOf(s, NoEvent, f) = Pieces(s, x, f)
    <3>1. f \in Names
      BY DEF Names
    <3>2. Logged(s, c, f) = Pieces(s, x, f)
      BY <2>1, <3>1, LoggedSteps
    <3>3. Pieces(s, x, f) \in Seq(Places(s))
      BY PiecesSteps
    <3> QED BY <2>3, <3>1, <3>2, <3>3, ConcatEmptySeq
  <2>5. ASSUME NEW f \in Latest PROVE Lasts(s, NoEvent, c, x, f)
    <3>1. Lasts(s, p, b, x, f)
      BY <2>1
    <3> QED BY <2>1, <3>1, WroteMore, Zenon DEF Lasts
  <2>6. LogInv(s, Log(NoEvent, c), x)
    <3> HIDE DEF c
    <3>1. \A f \in Names : NoEvent.obj[f] = FieldOf(s, NoEvent, f)
      BY <2>3
    <3> QED BY <2>2, <2>4, <2>5, <3>1, LogInvOf, Zenon
  <2> QED BY <2>0, <2>6, LogFields, Zenon
<1> QED BY <1>1, <1>2

\* The pieces of what was there and one event more.
LEMMA PiecesMore ==
  ASSUME NEW s, Len(s) \in Nat, NEW x \in Seq(Places(s)), NEW raw \in Seq(Places(s)), NEW f
  PROVE  /\ Pieces(s, x, f) \in Seq(Places(s)) /\ Pieces(s, raw, f) \in Seq(Places(s))
         /\ Pieces(s, x \o raw, f) = Pieces(s, x, f) \o Pieces(s, raw, f)
         /\ Pieces(s, raw, f) = <<>> => Pieces(s, x \o raw, f) = Pieces(s, x, f)
         /\ Pieces(s, raw, f) # <<>> =>
              /\ Last(Pieces(s, x \o raw, f)) = Last(Pieces(s, raw, f))
              /\ Last(Pieces(s, x \o raw, f)) \in ToSet(Pieces(s, raw, f))
<1>1. Pieces(s, x, f) \in Seq(Places(s)) /\ Pieces(s, raw, f) \in Seq(Places(s))
  BY PiecesSteps
<1>2. Pieces(s, x \o raw, f) = Pieces(s, x, f) \o Pieces(s, raw, f)
  BY PiecesConcat
<1> QED BY ONLY <1>1, <1>2, LastOfBoth, Zenon

\* An event written out as it came.
LEMMA WriteOutKeeps ==
  ASSUME NEW s, Len(s) \in Nat, NEW l, NEW x \in Seq(Places(s)), LogInv(s, l, x),
         l.pending = NoEvent, NEW raw \in Seq(Places(s))
  PROVE  LogInv(s, WriteOut(l, raw), x \o raw) /\ WriteOut(l, raw).pending = NoEvent
<1>1. CASE raw = <<>>
  <2>1. WriteOut(l, raw) = l
    BY <1>1, Zenon DEF WriteOut
  <2>2. x \o raw = x
    BY <1>1, ConcatEmptySeq
  <2> QED BY <2>1, <2>2
<1>2. CASE raw # <<>>
  <2> DEFINE b == l.blob
             c == Append(b, Plain(raw))
             y == x \o raw
  <2>0. WriteOut(l, raw) = Log(NoEvent, c)
    BY <1>2, Zenon DEF WriteOut
  <2>1. /\ b \in Seq(Events(s))
        /\ \A f \in Text : Logged(s, b, f) \o FieldOf(s, NoEvent, f) = Pieces(s, x, f)
        /\ \A f \in Latest : Lasts(s, NoEvent, b, x, f)
    <3>1. LogInv(s, Log(NoEvent, b), x)
      BY LogInvSame, Zenon
    <3> HIDE DEF b
    <3> QED BY ONLY <3>1, LogInvOf, Zenon
  <2>2. Plain(raw) \in Events(s) /\ NoEvent \in Events(s)
    BY NewEvent
  <2>3. \A f \in Names : /\ NoEvent.obj[f] = <<>> /\ FieldOf(s, NoEvent, f) = <<>>
                         /\ FieldOf(s, Plain(raw), f) = Pieces(s, raw, f)
    BY NewEvent
  <2>4. c \in Seq(Events(s))
    BY <2>1, <2>2, AppendProperties
  <2> HIDE DEF b
  <2>5. ASSUME NEW f \in Text
        PROVE  Logged(s, c, f) \o FieldOf(s, NoEvent, f) = Pieces(s, y, f)
    <3>1. f \in Names
      BY DEF Names
    <3>2. Logged(s, b, f) \in Seq(Places(s)) /\ Pieces(s, raw, f) \in Seq(Places(s))
      BY <2>1, <3>1, LoggedSteps, PiecesSteps
    <3>3. Logged(s, b, f) = Pieces(s, x, f)
      BY <2>1, <2>3, <3>1, <3>2, ConcatEmptySeq
    <3>4. Logged(s, c, f) = Logged(s, b, f) \o Pieces(s, raw, f)
      BY <2>1, <2>2, <2>3, <3>1, LoggedSteps
    <3>5. Logged(s, c, f) = Pieces(s, y, f)
      <4>1. Pieces(s, y, f) = Pieces(s, x, f) \o Pieces(s, raw, f)
        BY PiecesMore
      <4> HIDE DEF c, y
      <4> QED BY ONLY <3>3, <3>4, <4>1
    <3>6. Pieces(s, y, f) \in Seq(Places(s))
      BY <3>2, <3>3, <3>4, <3>5, ConcatProperties
    <3> QED BY <2>3, <3>1, <3>5, <3>6, ConcatEmptySeq
  <2>6. ASSUME NEW f \in Latest PROVE Lasts(s, NoEvent, c, y, f)
    <3>1. Lasts(s, NoEvent, b, x, f) /\ f \in Names
      BY <2>1 DEF Names
    <3>2. CASE Pieces(s, raw, f) = <<>>
      <4>1. Pieces(s, y, f) = Pieces(s, x, f)
        BY <3>2, PiecesMore
      <4> QED BY <2>1, <2>2, <3>1, <4>1, WroteMore, Zenon DEF Lasts
    <3>3. CASE Pieces(s, raw, f) # <<>>
      <4>1. Last(Pieces(s, y, f)) \in ToSet(FieldOf(s, Plain(raw), f))
        BY <2>3, <3>1, <3>3, PiecesMore
      <4> QED BY <2>1, <2>2, <4>1, WroteMore, Zenon DEF Lasts
    <3> QED BY <3>2, <3>3
  <2>7. LogInv(s, Log(NoEvent, c), y)
    <3> HIDE DEF c, y
    <3>1. \A f \in Names : NoEvent.obj[f] = FieldOf(s, NoEvent, f)
      BY <2>3
    <3> QED BY <2>2, <2>4, <2>5, <2>6, <3>1, LogInvOf, Zenon
  <2>8. Log(NoEvent, c).pending = NoEvent
    BY LogFields
  <2> QED BY ONLY <2>0, <2>7, <2>8, Zenon DEF y
<1> QED BY <1>1, <1>2

\* A delta that becomes the pending event.
LEMMA EventKeeps ==
  ASSUME NEW s, Len(s) \in Nat, NEW l, NEW x \in Seq(Places(s)), LogInv(s, l, x),
         l.pending = NoEvent, NEW raw \in Seq(Places(s))
  PROVE  LogInv(s, Log(Event(s, raw), l.blob), x \o raw)
<1> DEFINE b == l.blob
           e == Event(s, raw)
           y == x \o raw
<1>1. /\ b \in Seq(Events(s))
      /\ \A f \in Text : Logged(s, b, f) \o FieldOf(s, NoEvent, f) = Pieces(s, x, f)
      /\ \A f \in Latest : Lasts(s, NoEvent, b, x, f)
  <2>1. LogInv(s, Log(NoEvent, b), x)
    BY LogInvSame, Zenon
  <2> HIDE DEF b
  <2> QED BY ONLY <2>1, LogInvOf, Zenon
<1>2. e \in Events(s)
  BY NewEvent
<1>3. \A f \in Names : /\ e.obj[f] = Pieces(s, raw, f) /\ FieldOf(s, e, f) = Pieces(s, raw, f)
                       /\ FieldOf(s, NoEvent, f) = <<>>
  BY NewEvent
<1> HIDE DEF b, e
<1>4. ASSUME NEW f \in Text PROVE Logged(s, b, f) \o FieldOf(s, e, f) = Pieces(s, y, f)
  <2>1. f \in Names
    BY DEF Names
  <2>2. Logged(s, b, f) \in Seq(Places(s))
    BY <1>1, <2>1, LoggedSteps
  <2>3. Logged(s, b, f) = Pieces(s, x, f)
    BY <1>1, <1>3, <2>1, <2>2, ConcatEmptySeq
  <2>4. Pieces(s, y, f) = Pieces(s, x, f) \o Pieces(s, raw, f)
    BY PiecesMore
  <2> HIDE DEF y
  <2> QED BY ONLY <1>3, <2>1, <2>3, <2>4
<1>5. ASSUME NEW f \in Latest PROVE Lasts(s, e, b, y, f)
  <2>1. Lasts(s, NoEvent, b, x, f) /\ f \in Names
    BY <1>1 DEF Names
  <2>2. CASE Pieces(s, raw, f) = <<>>
    <3>1. Pieces(s, y, f) = Pieces(s, x, f)
      BY <2>2, PiecesMore
    <3>2. FieldOf(s, e, f) = FieldOf(s, NoEvent, f)
      BY <1>3, <2>1, <2>2
    <3> QED BY <2>1, <3>1, <3>2, Zenon DEF Lasts
  <2>3. CASE Pieces(s, raw, f) # <<>>
    <3>1. Last(Pieces(s, y, f)) \in ToSet(FieldOf(s, e, f))
      BY <1>3, <2>1, <2>3, PiecesMore
    <3> QED BY <3>1, Zenon DEF Lasts
  <2> QED BY <2>2, <2>3
<1>6. LogInv(s, Log(e, b), y)
  <2> HIDE DEF y
  <2>1. \A f \in Names : e.obj[f] = FieldOf(s, e, f)
    BY <1>3
  <2> QED BY ONLY <1>1, <1>2, <1>4, <1>5, <2>1, LogInvOf, Zenon
<1> QED BY ONLY <1>6, Zenon DEF b, e, y

\* The fields of two events that became one.
LEMMA MergeFields ==
  ASSUME NEW s, Len(s) \in Nat, NEW p \in Events(s), NEW e \in Events(s)
  PROVE  /\ Merge(p, e) \in Events(s)
         /\ \A f \in Names :
              /\ Merge(p, e).obj[f] = IF f \in Text THEN Concat(p, e, f) ELSE TakeLatest(p, e, f)
              /\ FieldOf(s, Merge(p, e), f) = Merge(p, e).obj[f]
<1> DEFINE obj == [f \in Names |-> IF f \in Text THEN Concat(p, e, f) ELSE TakeLatest(p, e, f)]
           m == Merge(p, e)
<1>1. m = EventOf(p.raw, TRUE, obj)
  BY DEF Merge, Names
<1>2. /\ p.raw \in Seq(Places(s))
      /\ \A f \in Names : p.obj[f] \in Seq(Places(s)) /\ e.obj[f] \in Seq(Places(s))
  BY EventsAre
<1>3. obj \in [Names -> Seq(Places(s))]
  <2>1. \A f \in Names : Concat(p, e, f) \in Seq(Places(s))
    BY <1>2, ConcatProperties DEF Concat
  <2>2. \A f \in Names : TakeLatest(p, e, f) \in Seq(Places(s))
    BY <1>2 DEF TakeLatest
  <2> QED BY <2>1, <2>2
<1>4. \A f \in Names : obj[f] = IF f \in Text THEN Concat(p, e, f) ELSE TakeLatest(p, e, f)
  OBVIOUS
<1> HIDE DEF obj, m
<1>5. m \in Events(s)
  <2>1. TRUE \in BOOLEAN
    OBVIOUS
  <2> QED BY <1>1, <1>2, <1>3, <2>1, EventTyped, Zenon
<1>6. m.merged /\ m.obj = obj
  <2>1. EventOf(p.raw, TRUE, obj).merged /\ EventOf(p.raw, TRUE, obj).obj = obj
    BY Zenon DEF EventOf
  <2> QED BY ONLY <1>1, <2>1, Zenon
<1>7. \A f \in Names : FieldOf(s, m, f) = m.obj[f]
  BY <1>6, Zenon DEF FieldOf
<1> QED BY <1>4, <1>5, <1>6, <1>7 DEF m

\* Three parts, put together in one order or the other.
LEMMA ConcatThree ==
  ASSUME NEW S, NEW a \in Seq(S), NEW b \in Seq(S), NEW c \in Seq(S),
         NEW front, front = a \o b, NEW back, back = b \o c
  PROVE  a \o back = front \o c
BY ConcatAssociative

\* A delta merged into the pending event.
LEMMA MergeKeeps ==
  ASSUME NEW s, Len(s) \in Nat, NEW l, NEW x \in Seq(Places(s)), LogInv(s, l, x),
         NEW raw \in Seq(Places(s))
  PROVE  LogInv(s, Log(Merge(l.pending, Event(s, raw)), l.blob), x \o raw)
<1> DEFINE b == l.blob
           p == l.pending
           e == Event(s, raw)
           m == Merge(p, e)
           y == x \o raw
<1>1. /\ p \in Events(s) /\ b \in Seq(Events(s))
      /\ \A f \in Names : p.obj[f] = FieldOf(s, p, f)
      /\ \A f \in Text : Logged(s, b, f) \o FieldOf(s, p, f) = Pieces(s, x, f)
      /\ \A f \in Latest : Lasts(s, p, b, x, f)
  <2>1. LogInv(s, Log(p, b), x)
    BY LogInvSame, Zenon
  <2> HIDE DEF p, b
  <2> QED BY ONLY <2>1, LogInvOf, Zenon
<1>2. e \in Events(s)
  BY NewEvent
<1>3. \A f \in Names : e.obj[f] = Pieces(s, raw, f)
  BY NewEvent
<1> HIDE DEF b, p, e
<1>4. /\ m \in Events(s)
      /\ \A f \in Names :
           /\ m.obj[f] = IF f \in Text THEN Concat(p, e, f) ELSE TakeLatest(p, e, f)
           /\ FieldOf(s, m, f) = m.obj[f]
  BY <1>1, <1>2, MergeFields
<1> HIDE DEF m
<1>5. ASSUME NEW f \in Text PROVE Logged(s, b, f) \o FieldOf(s, m, f) = Pieces(s, y, f)
  <2>1. f \in Names
    BY DEF Names
  <2> DEFINE g == Logged(s, b, f)
             h == FieldOf(s, p, f)
             r == Pieces(s, raw, f)
  <2>2. g \in Seq(Places(s)) /\ h \in Seq(Places(s)) /\ r \in Seq(Places(s))
    BY <1>1, <2>1, LoggedSteps, FieldOfIn, PiecesSteps
  <2>3. FieldOf(s, m, f) = h \o r
    BY <1>1, <1>3, <1>4, <2>1 DEF Concat
  <2>4. Pieces(s, y, f) = Pieces(s, x, f) \o r
    BY PiecesMore
  <2>5. Pieces(s, x, f) = g \o h
    BY <1>1
  <2> HIDE DEF g, h, r
  <2>6. g \o FieldOf(s, m, f) = Pieces(s, x, f) \o r
    <3> DEFINE S == Places(s)
               front == Pieces(s, x, f)
               back == FieldOf(s, m, f)
    <3>1. g \in Seq(S) /\ h \in Seq(S) /\ r \in Seq(S) /\ front = g \o h /\ back = h \o r
      BY <2>2, <2>3, <2>5
    <3> HIDE DEF S, front, back
    <3>2. g \o back = front \o r
      BY ONLY <3>1, ConcatThree, SMTT(20)
    <3> QED BY <3>2 DEF front, back
  <2> HIDE DEF y
  <2>7. g \o FieldOf(s, m, f) = Pieces(s, y, f)
    BY ONLY <2>4, <2>6
  <2> QED BY ONLY <2>7 DEF g
<1>6. ASSUME NEW f \in Latest PROVE Lasts(s, m, b, y, f)
  <2>1. Lasts(s, p, b, x, f) /\ f \in Names /\ f \notin Text
    BY <1>1, SSELogAssumption DEF Names
  <2>2. FieldOf(s, m, f) = IF Pieces(s, raw, f) = <<>> THEN FieldOf(s, p, f) ELSE Pieces(s, raw, f)
    BY <1>1, <1>3, <1>4, <2>1 DEF TakeLatest
  <2>3. CASE Pieces(s, raw, f) = <<>>
    <3>1. Pieces(s, y, f) = Pieces(s, x, f)
      BY <2>3, PiecesMore
    <3>2. FieldOf(s, m, f) = FieldOf(s, p, f)
      BY <2>2, <2>3
    <3> QED BY <2>1, <3>1, <3>2, Zenon DEF Lasts
  <2>4. CASE Pieces(s, raw, f) # <<>>
    <3>1. Last(Pieces(s, y, f)) \in ToSet(FieldOf(s, m, f))
      BY <2>2, <2>4, PiecesMore
    <3> QED BY <3>1, Zenon DEF Lasts
  <2> QED BY <2>3, <2>4
<1>7. LogInv(s, Log(m, b), y)
  <2> HIDE DEF y
  <2>1. \A f \in Names : m.obj[f] = FieldOf(s, m, f)
    BY <1>4
  <2> QED BY ONLY <1>1, <1>4, <1>5, <1>6, <2>1, LogInvOf, Zenon
<1> QED BY ONLY <1>7, Zenon DEF b, p, e, m, y

\* handleEvent, whatever the event is.
LEMMA HandleEventKeeps ==
  ASSUME NEW s, Len(s) \in Nat, NEW l, NEW x \in Seq(Places(s)), LogInv(s, l, x),
         NEW raw \in Seq(Places(s))
  PROVE  LogInv(s, HandleEvent(s, l, raw), x \o raw)
<1> DEFINE h == HandleEvent(s, l, raw)
           m == Log(Merge(l.pending, Event(s, raw)), l.blob)
           n == Log(Event(s, raw), Flushed(l).blob)
           o == WriteOut(Flushed(l), raw)
<1>1. h = m \/ h = n \/ h = o
  BY Zenon DEF HandleEvent
<1>2. LogInv(s, Flushed(l), x) /\ Flushed(l).pending = NoEvent
  BY FlushedKeeps
<1>3. LogInv(s, m, x \o raw)
  BY MergeKeeps
<1>4. LogInv(s, n, x \o raw)
  BY <1>2, EventKeeps
<1>5. LogInv(s, o, x \o raw)
  BY <1>2, WriteOutKeeps
<1> HIDE DEF h, m, n, o
<1>6. LogInv(s, h, x \o raw)
  BY ONLY <1>1, <1>3, <1>4, <1>5, Zenon
<1> QED BY <1>6 DEF h

----------------------------------------------------------------------------
\* The fields of a writer.
LEMMA WriterFields ==
  ASSUME NEW c, NEW a, NEW l
  PROVE  Writer(c, a, l).carry = c /\ Writer(c, a, l).acc = a /\ Writer(c, a, l).log = l
BY Zenon DEF Writer

LEMMA WriterTyped ==
  ASSUME NEW s, NEW c \in Seq(Places(s)), NEW a \in Seq(Places(s)), NEW p, NEW b, NEW x,
         LogInv(s, Log(p, b), x)
  PROVE  Writer(c, a, Log(p, b)) \in Writers(s)
<1>1. p \in Events(s) /\ b \in Seq(Events(s))
  BY LogInvOf, Zenon
<1>2. Log(p, b) \in [pending : Events(s), blob : Seq(Events(s))]
  BY <1>1, Zenon DEF Log
<1> QED BY <1>2, Zenon DEF Writer, Writers

\* Every log that the writer makes is one of Log.
LEMMA WriterLogs ==
  ASSUME NEW s, NEW w \in Writers(s)
  PROVE  /\ w.carry \in Seq(Places(s)) /\ w.acc \in Seq(Places(s))
         /\ w = Writer(w.carry, w.acc, w.log) /\ w.log = Log(w.log.pending, w.log.blob)
BY DEF Writers, Writer, Log

LEMMA WriterInvOf ==
  ASSUME NEW s, Len(s) \in Nat, NEW c \in Seq(Places(s)), NEW a \in Seq(Places(s)), NEW l,
         l = Log(l.pending, l.blob), NEW x \in Seq(Places(s)), LogInv(s, l, x)
  PROVE  WriterInv(s, Writer(c, a, l), x \o (a \o c))
<1> DEFINE w == Writer(c, a, l)
<1>1. w.carry = c /\ w.acc = a /\ w.log = l
  BY WriterFields
<1>2. w \in Writers(s)
  BY WriterTyped, Zenon
<1> HIDE DEF w
<1>3. WriterInv(s, w, x \o (a \o c))
  BY <1>1, <1>2, Zenon DEF WriterInv
<1> QED BY <1>3 DEF w

\* The logs that flushPending, the writing out and handleEvent leave.
LEMMA LogsAre ==
  ASSUME NEW l, l = Log(l.pending, l.blob), NEW raw
  PROVE  /\ Flushed(l) = Log(Flushed(l).pending, Flushed(l).blob)
         /\ WriteOut(l, raw) = Log(WriteOut(l, raw).pending, WriteOut(l, raw).blob)
<1>1. \A p, b : LET m == Log(p, b) IN m = Log(m.pending, m.blob)
  BY LogFields
<1>2. Flushed(l) = l \/ \E p, b : Flushed(l) = Log(p, b)
  BY Zenon DEF Flushed
<1>3. WriteOut(l, raw) = l \/ \E p, b : WriteOut(l, raw) = Log(p, b)
  BY Zenon DEF WriteOut
<1> QED BY <1>1, <1>2, <1>3

LEMMA HandleEventIs ==
  ASSUME NEW l, l = Log(l.pending, l.blob), NEW s, NEW raw
  PROVE  HandleEvent(s, l, raw) = Log(HandleEvent(s, l, raw).pending, HandleEvent(s, l, raw).blob)
<1>1. \A p, b : LET m == Log(p, b) IN m = Log(m.pending, m.blob)
  BY LogFields
<1>2. \/ HandleEvent(s, l, raw) = WriteOut(Flushed(l), raw)
      \/ \E p, b : HandleEvent(s, l, raw) = Log(p, b)
  BY Zenon DEF HandleEvent
<1>3. WriteOut(Flushed(l), raw) = Log(WriteOut(Flushed(l), raw).pending, WriteOut(Flushed(l), raw).blob)
  BY LogsAre
<1> QED BY <1>1, <1>2, <1>3

\* consume, one byte more.
LEMMA ByteKeeps ==
  ASSUME NEW s, Len(s) \in Nat, NEW w, NEW y \in Seq(Places(s)), WriterInv(s, w, y),
         NEW p \in Places(s)
  PROVE  WriterInv(s, Byte(s, w, p), Append(y, p))
<1> DEFINE E == Places(s)
           c == w.carry
           a == w.acc
           l == w.log
           line == Append(c, p)
           lines == a \o line
<1>1. PICK x \in Seq(E) : y = x \o (a \o c) /\ LogInv(s, l, x)
  BY DEF WriterInv
<1>2. c \in Seq(E) /\ a \in Seq(E) /\ l = Log(l.pending, l.blob)
  <2>1. w \in Writers(s)
    BY DEF WriterInv
  <2> QED BY <2>1, WriterLogs
<1>3. \/ Byte(s, w, p) = Writer(line, a, l)
      \/ Byte(s, w, p) = Writer(<<>>, lines, l)
      \/ Byte(s, w, p) = Writer(<<>>, <<>>, HandleEvent(s, l, lines))
  BY Zenon DEF Byte
<1> HIDE DEF E, c, a, l
<1>p. p \in E
  BY DEF E
<1>4. /\ line \in Seq(E) /\ lines \in Seq(E) /\ a \o c \in Seq(E) /\ <<>> \in Seq(E)
  BY <1>2, <1>p, AppendProperties, ConcatProperties, EmptySeq
<1>5. x \o lines = Append(y, p)
  <2>1. lines = Append(a \o c, p)
    BY <1>2, <1>p, ConcatAppend
  <2>2. x \o Append(a \o c, p) = Append(x \o (a \o c), p)
    BY <1>4, <1>p, ConcatAppend
  <2> QED BY <1>1, <2>1, <2>2
<1>6. WriterInv(s, Writer(line, a, l), x \o (a \o line))
  BY <1>1, <1>2, <1>4, WriterInvOf DEF E
<1>7. WriterInv(s, Writer(<<>>, lines, l), x \o (lines \o <<>>))
  <2> HIDE DEF line, lines
  <2> QED BY <1>1, <1>2, <1>4, WriterInvOf DEF E
<1>8. WriterInv(s, Writer(<<>>, <<>>, HandleEvent(s, l, lines)), (x \o lines) \o (<<>> \o <<>>))
  <2> DEFINE h == HandleEvent(s, l, lines)
             z == x \o lines
  <2> HIDE DEF line, lines
  <2>1. LogInv(s, h, z)
    BY <1>1, <1>4, HandleEventKeeps DEF E
  <2>2. h = Log(h.pending, h.blob)
    BY <1>2, HandleEventIs
  <2>3. z \in Seq(E)
    BY <1>4, ConcatProperties
  <2> HIDE DEF h, z
  <2>4. WriterInv(s, Writer(<<>>, <<>>, h), z \o (<<>> \o <<>>))
    BY <1>4, <2>1, <2>2, <2>3, WriterInvOf DEF E
  <2> QED BY <2>4 DEF h, z
<1>9. lines \o <<>> = lines /\ (x \o lines) \o (<<>> \o <<>>) = x \o lines
  <2>1. x \o lines \in Seq(E)
    BY <1>4, ConcatProperties
  <2>2. <<>> \o <<>> = <<>>
    BY <1>4, ConcatEmptySeq
  <2> HIDE DEF lines
  <2> QED BY <1>4, <2>1, <2>2, ConcatEmptySeq
<1> QED BY <1>3, <1>5, <1>6, <1>7, <1>8, <1>9

\* A writer stays one.
LEMMA LogTyped ==
  ASSUME NEW s, NEW p \in Events(s), NEW b \in Seq(Events(s))
  PROVE  Log(p, b) \in [pending : Events(s), blob : Seq(Events(s))]
BY Zenon DEF Log

LEMMA HandleEventTyped ==
  ASSUME NEW s, Len(s) \in Nat, NEW raw \in Seq(Places(s)),
         NEW l \in [pending : Events(s), blob : Seq(Events(s))]
  PROVE  HandleEvent(s, l, raw) \in [pending : Events(s), blob : Seq(Events(s))]
<1> DEFINE L == [pending : Events(s), blob : Seq(Events(s))]
           e == Event(s, raw)
<1>1. \A m \in L : m.pending \in Events(s) /\ m.blob \in Seq(Events(s))
  OBVIOUS
<1>2. e \in Events(s) /\ Plain(raw) \in Events(s) /\ NoEvent \in Events(s)
  BY NewEvent
<1>3. \A m \in L, d \in Events(s) : Append(m.blob, d) \in Seq(Events(s))
  BY <1>1, AppendProperties
<1>4. \A p \in Events(s), b \in Seq(Events(s)) : Log(p, b) \in L
  BY LogTyped
<1>5. \A m \in L : Merge(m.pending, e) \in Events(s)
  BY <1>1, <1>2, MergeFields
<1>6. l \in L
  OBVIOUS
<1> HIDE DEF L, e
<1>7. \A m \in L : Flushed(m) \in L
  BY <1>1, <1>2, <1>3, <1>4, Zenon DEF Flushed
<1>8. \A m \in L : WriteOut(m, raw) \in L
  BY <1>1, <1>2, <1>3, <1>4, Zenon DEF WriteOut
<1>9. HandleEvent(s, l, raw) \in L
  <2>1. \/ HandleEvent(s, l, raw) = WriteOut(Flushed(l), raw)
        \/ HandleEvent(s, l, raw) = Log(Merge(l.pending, e), l.blob)
        \/ HandleEvent(s, l, raw) = Log(e, Flushed(l).blob)
    BY Zenon DEF HandleEvent, e
  <2> QED BY <1>1, <1>2, <1>4, <1>5, <1>6, <1>7, <1>8, <2>1, Zenon
<1> QED BY <1>9 DEF L

LEMMA ByteTyped ==
  ASSUME NEW s, Len(s) \in Nat, NEW w \in Writers(s), NEW p \in Places(s)
  PROVE  Byte(s, w, p) \in Writers(s)
<1> DEFINE E == Places(s)
           L == [pending : Events(s), blob : Seq(Events(s))]
           line == Append(w.carry, p)
           lines == w.acc \o line
<1>1. w.carry \in Seq(E) /\ w.acc \in Seq(E) /\ w.log \in L /\ p \in E
  BY DEF Writers
<1>2. line \in Seq(E) /\ lines \in Seq(E) /\ <<>> \in Seq(E)
  <2> HIDE DEF E
  <2>1. line \in Seq(E) /\ <<>> \in Seq(E)
    BY <1>1, AppendProperties, EmptySeq
  <2> QED BY <1>1, <2>1, ConcatProperties
<1>3. HandleEvent(s, w.log, lines) \in L
  BY <1>1, <1>2, HandleEventTyped
<1>4. \A c \in Seq(E), a \in Seq(E), l \in L : Writer(c, a, l) \in Writers(s)
  BY Zenon DEF Writer, Writers
<1>5. \/ Byte(s, w, p) = Writer(line, w.acc, w.log)
      \/ Byte(s, w, p) = Writer(<<>>, lines, w.log)
      \/ Byte(s, w, p) = Writer(<<>>, <<>>, HandleEvent(s, w.log, lines))
  BY Zenon DEF Byte
<1> HIDE DEF E, L, line, lines
<1> QED BY <1>1, <1>2, <1>3, <1>4, <1>5

\* consume, over a chunk.
LEMMA ConsumeKeeps ==
  ASSUME NEW s, Len(s) \in Nat, NEW w, NEW y \in Seq(Places(s)), WriterInv(s, w, y),
         NEW new \in Seq(Places(s))
  PROVE  WriterInv(s, Run(Consume(s), w, new), y \o new)
<1> DEFINE E == Places(s)
           S == {r \in Seq(E) : WriterInv(s, Run(Consume(s), w, r), y \o r)}
           W == Writers(s)
<1>1. \A v \in W, p \in E : Byte(s, v, p) \in W
  BY ByteTyped
<1>2. Consume(s) \in Steps(W, E) /\ \A v \in W, p \in E : Consume(s)[<<v, p>>] = Byte(s, v, p)
  BY <1>1 DEF Consume, Steps
<1>3. w \in W
  BY DEF WriterInv
<1>4. new \in Seq(E) /\ y \in Seq(E)
  OBVIOUS
<1>5. ASSUME NEW z \in Seq(E), NEW v, WriterInv(s, v, z), NEW p \in E
      PROVE  WriterInv(s, Byte(s, v, p), Append(z, p))
  BY <1>5, ByteKeeps
<1> HIDE DEF E, W
<1>6. <<>> \in S
  <2>1. Run(Consume(s), w, <<>>) = w
    BY <1>2, <1>3, RunEmpty
  <2>2. y \o <<>> = y /\ <<>> \in Seq(E)
    BY <1>4, ConcatEmptySeq, EmptySeq
  <2> QED BY <2>1, <2>2
<1>7. ASSUME NEW r \in Seq(E), NEW p \in E, r \in S PROVE Append(r, p) \in S
  <2> DEFINE v == Run(Consume(s), w, r)
  <2>1. v \in W
    BY <1>2, <1>3, RunInDomain
  <2>2. Run(Consume(s), w, Append(r, p)) = Byte(s, v, p)
    <3>1. Run(Consume(s), w, Append(r, p)) = Consume(s)[<<v, p>>]
      BY <1>2, <1>3, RunAppend
    <3> HIDE DEF v
    <3> QED BY <1>2, <2>1, <3>1
  <2>3. y \o Append(r, p) = Append(y \o r, p)
    BY <1>4, ConcatAppend
  <2>4. y \o r \in Seq(E) /\ Append(r, p) \in Seq(E)
    BY <1>4, ConcatProperties, AppendProperties
  <2>5. WriterInv(s, v, y \o r)
    BY <1>7
  <2> HIDE DEF v
  <2>6. WriterInv(s, Byte(s, v, p), Append(y \o r, p))
    BY <1>5, <2>4, <2>5
  <2> QED BY <2>2, <2>3, <2>4, <2>6
<1> HIDE DEF S
<1>8. Seq(E) \subseteq S
  BY <1>6, <1>7, SeqsAreReached
<1> QED BY <1>4, <1>8 DEF S

\* The end of consume.
LEMMA SpillKeeps ==
  ASSUME NEW s, Len(s) \in Nat, NEW w, NEW y \in Seq(Places(s)), WriterInv(s, w, y)
  PROVE  WriterInv(s, Spill(w), y)
<1> DEFINE E == Places(s)
           c == w.carry
           a == w.acc
           l == w.log
           one == WriteOut(Flushed(l), a)
           two == WriteOut(one, c)
<1>1. PICK x \in Seq(E) : y = x \o (a \o c) /\ LogInv(s, l, x)
  BY DEF WriterInv
<1>2. c \in Seq(E) /\ a \in Seq(E) /\ l = Log(l.pending, l.blob)
  <2>1. w \in Writers(s)
    BY DEF WriterInv
  <2> QED BY <2>1, WriterLogs
<1>3. Spill(w) = w \/ Spill(w) = Writer(<<>>, <<>>, two)
  BY Zenon DEF Spill
<1> HIDE DEF E, c, a, l, one, two
<1>4. x \o a \in Seq(E) /\ (x \o a) \o c \in Seq(E) /\ <<>> \in Seq(E)
  BY <1>2, ConcatProperties, EmptySeq
<1>5. LogInv(s, one, x \o a) /\ one.pending = NoEvent
  <2>1. LogInv(s, Flushed(l), x) /\ Flushed(l).pending = NoEvent
    BY <1>1, FlushedKeeps DEF E
  <2> QED BY <1>2, <2>1, WriteOutKeeps DEF E, one
<1>6. LogInv(s, two, (x \o a) \o c)
  BY <1>2, <1>4, <1>5, WriteOutKeeps DEF E, two
<1>7. two = Log(two.pending, two.blob)
  <2>1. Flushed(l) = Log(Flushed(l).pending, Flushed(l).blob)
    BY <1>2, LogsAre
  <2>2. one = Log(one.pending, one.blob)
    BY <2>1, LogsAre DEF one
  <2> QED BY <2>2, LogsAre DEF two
<1>8. WriterInv(s, Writer(<<>>, <<>>, two), ((x \o a) \o c) \o (<<>> \o <<>>))
  BY <1>4, <1>6, <1>7, WriterInvOf DEF E
<1>9. ((x \o a) \o c) \o (<<>> \o <<>>) = y
  <2>1. (x \o a) \o c = x \o (a \o c)
    BY <1>2, ConcatAssociative
  <2>2. <<>> \o <<>> = <<>>
    BY <1>4, ConcatEmptySeq
  <2>3. ((x \o a) \o c) \o <<>> = (x \o a) \o c
    BY <1>4, ConcatEmptySeq
  <2> QED BY <1>1, <2>1, <2>2, <2>3
<1> QED BY <1>3, <1>8, <1>9

\* More of the stream changes nothing in what the writer has.
LEMMA WriterGrows ==
  ASSUME NEW s, NEW t, BeginsIn(s, t), NEW w, NEW y \in Seq(Places(s)), WriterInv(s, w, y)
  PROVE  WriterInv(t, w, y)
<1>1. PICK x \in Seq(Places(s)) : y = x \o (w.acc \o w.carry) /\ LogInv(s, w.log, x)
  BY DEF WriterInv
<1> DEFINE l == w.log
           p == l.pending
           b == l.blob
<1>2. Seq(Places(s)) \subseteq Seq(Places(t))
  BY BeginsInPlaces
<1>3. /\ w.carry \in Seq(Places(s)) /\ w.acc \in Seq(Places(s))
      /\ w = Writer(w.carry, w.acc, l) /\ l = Log(p, b)
  <2>1. w \in Writers(s)
    BY DEF WriterInv
  <2> QED BY <2>1, WriterLogs
<1> HIDE DEF l, p, b
<1>4. /\ p \in Events(s) /\ b \in Seq(Events(s))
      /\ \A f \in Names : p.obj[f] = FieldOf(s, p, f)
      /\ \A f \in Text : Logged(s, b, f) \o FieldOf(s, p, f) = Pieces(s, x, f)
      /\ \A f \in Latest : Lasts(s, p, b, x, f)
  <2>1. LogInv(s, Log(p, b), x)
    BY <1>1, <1>3 DEF l
  <2> QED BY ONLY <2>1, LogInvOf, Zenon
<1>5. /\ \A e \in Events(s) : /\ e \in Events(t)
                              /\ \A f \in Names : FieldOf(t, e, f) = FieldOf(s, e, f)
      /\ Events(s) \subseteq Events(t)
  BY EventsGrow
<1>6. b \in Seq(Events(t))
  BY <1>4, <1>5, SeqMonotonic
<1>7. \A f : Pieces(t, x, f) = Pieces(s, x, f)
  BY PiecesGrow
<1>8. ASSUME NEW f \in Text PROVE Logged(t, b, f) \o FieldOf(t, p, f) = Pieces(t, x, f)
  <2>1. f \in Names
    BY DEF Names
  <2>2. Logged(t, b, f) = Logged(s, b, f)
    BY <1>4, <2>1, LoggedGrow
  <2> QED BY <1>4, <1>5, <1>7, <2>1, <2>2
<1>9. ASSUME NEW f \in Latest PROVE Lasts(t, p, b, x, f)
  <2>1. f \in Names /\ Lasts(s, p, b, x, f)
    BY <1>4 DEF Names
  <2>2. FieldOf(t, p, f) = FieldOf(s, p, f)
    BY <1>4, <1>5, <2>1
  <2>3. ASSUME NEW k \in DOMAIN b PROVE FieldOf(t, b[k], f) = FieldOf(s, b[k], f)
    <3>1. b[k] \in Events(s)
      BY <1>4, ElementOfSeq, LenProperties
    <3> QED BY <1>5, <2>1, <3>1
  <2>4. \A q : Wrote(t, b, f, q) <=> Wrote(s, b, f, q)
    BY <2>3, Zenon DEF Wrote
  <2> QED BY <1>7, <2>1, <2>2, <2>4, Zenon DEF Lasts
<1>10. LogInv(t, l, x)
  <2>1. \A f \in Names : p.obj[f] = FieldOf(t, p, f)
    BY <1>4, <1>5
  <2>2. p \in Events(t)
    BY <1>4, <1>5
  <2> QED BY ONLY <1>3, <1>6, <1>8, <1>9, <2>1, <2>2, LogInvOf, Zenon
<1>11. w.carry \in Seq(Places(t)) /\ w.acc \in Seq(Places(t)) /\ x \in Seq(Places(t))
  BY <1>2, <1>3
<1>12. w \in Writers(t)
  <2>1. LogInv(t, Log(p, b), x)
    BY <1>3, <1>10
  <2>2. Writer(w.carry, w.acc, Log(p, b)) \in Writers(t)
    BY <1>11, <2>1, WriterTyped
  <2> QED BY <1>3, <2>2
<1> QED BY <1>1, <1>10, <1>11, <1>12 DEF WriterInv, l

----------------------------------------------------------------------------
\* The positions of a stream, and of a chunk more.
LEMMA PositionsTyped ==
  ASSUME NEW n \in Nat
  PROVE  /\ Positions(n) \in Seq(1 .. n) /\ Len(Positions(n)) = n
         /\ \A k \in 1 .. n : Positions(n)[k] = k
<1> DEFINE q == Positions(n)
<1>1. q \in [1 .. n -> 1 .. n] /\ \A k \in 1 .. n : q[k] = k
  BY DEF Positions
<1> HIDE DEF q
<1>2. q \in Seq(1 .. n)
  BY <1>1, SeqDef
<1>3. Len(q) = n
  BY <1>1, <1>2, LenProperties
<1> QED BY <1>1, <1>2, <1>3 DEF q

LEMMA PositionsMore ==
  ASSUME NEW m \in Nat, NEW n \in Nat
  PROVE  LET new == [k \in 1 .. n |-> m + k]
         IN new \in Seq(1 .. m + n) /\ Positions(m) \o new = Positions(m + n)
<1> DEFINE new == [k \in 1 .. n |-> m + k]
           a == Positions(m)
           b == Positions(m + n)
           T == 1 .. m + n
<1>1. new \in [1 .. n -> T] /\ \A k \in 1 .. n : new[k] = m + k
  OBVIOUS
<1>2. a \in Seq(T) /\ Len(a) = m /\ \A k \in 1 .. m : a[k] = k
  <2>1. a \in Seq(1 .. m) /\ 1 .. m \subseteq T
    BY PositionsTyped
  <2>2. a \in Seq(T)
    <3> HIDE DEF a, T
    <3> QED BY <2>1, SeqMonotonic
  <2> QED BY <2>2, PositionsTyped
<1>3. b \in Seq(T) /\ Len(b) = m + n /\ \A k \in 1 .. m + n : b[k] = k
  <2>1. m + n \in Nat
    OBVIOUS
  <2> QED BY <2>1, PositionsTyped
<1> HIDE DEF new, a, b, T
<1>4. new \in Seq(T) /\ Len(new) = n
  <2>1. new \in Seq(T)
    BY <1>1, SeqDef
  <2> QED BY <1>1, <2>1, LenProperties
<1>5. a \o new \in Seq(T) /\ Len(a \o new) = m + n
  BY <1>2, <1>4, ConcatProperties
<1>6. ASSUME NEW k \in 1 .. m + n PROVE (a \o new)[k] = b[k]
  <2>1. (a \o new)[k] = IF k <= Len(a) THEN a[k] ELSE new[k - Len(a)]
    BY <1>2, <1>4, ConcatProperties
  <2>2. CASE k <= m
    BY <1>2, <1>3, <2>1, <2>2
  <2>3. CASE ~(k <= m)
    <3>1. k - m \in 1 .. n /\ m + (k - m) = k
      BY <2>3
    <3> QED BY <1>1, <1>2, <1>3, <2>1, <2>3, <3>1
  <2> QED BY <2>2, <2>3
<1>7. a \o new = b
  BY <1>3, <1>5, <1>6, SeqEqual
<1> QED BY <1>4, <1>7 DEF new, a, b, T

\* What Become takes over of a writer is the writer.
LEMMA NowIs ==
  ASSUME NEW s, NEW w, NEW y, WriterInv(s, w, y)
  PROVE  WriterInv(s, Writer(w.carry, w.acc, Log(w.log.pending, w.log.blob)), y)
<1>1. w \in Writers(s)
  BY DEF WriterInv
<1>2. w.log = Log(w.log.pending, w.log.blob) /\ w = Writer(w.carry, w.acc, w.log)
  BY <1>1, WriterLogs
<1> QED BY <1>2

\* Write, of a stream s and a chunk.
LEMMA WriteKeeps ==
  ASSUME NEW s \in Seq(Tokens), NEW chunk \in Seq(Tokens), NEW w,
         WriterInv(s, w, Positions(Len(s)))
  PROVE  LET t == s \o chunk
             new == [k \in 1 .. Len(chunk) |-> Len(s) + k]
         IN  /\ t \in Seq(Tokens)
             /\ WriterInv(t, Spill(Run(Consume(t), w, new)), Positions(Len(t)))
<1> DEFINE t == s \o chunk
           m == Len(s)
           n == Len(chunk)
           new == [k \in 1 .. n |-> m + k]
<1>1. /\ t \in Seq(Tokens) /\ m \in Nat /\ n \in Nat /\ Len(t) = m + n
      /\ \A p \in 1 .. m : t[p] = s[p]
  <2>1. m \in Nat /\ n \in Nat
    BY LenProperties
  <2> QED BY <2>1, ConcatProperties
<1> HIDE DEF t
<1>2. BeginsIn(s, t)
  BY <1>1 DEF BeginsIn, Places
<1>3. new \in Seq(1 .. m + n) /\ Positions(m) \o new = Positions(m + n)
  BY <1>1, PositionsMore
<1>4. Positions(m) \in Seq(1 .. m) /\ 1 .. m \subseteq 1 .. m + n
  BY <1>1, PositionsTyped
<1> HIDE DEF m, n, new
<1>5. Places(s) = 1 .. m /\ Places(t) = 1 .. m + n /\ Len(t) \in Nat
  BY <1>1 DEF Places, m
<1>6. Positions(m) \in Seq(Places(s)) /\ Positions(m) \in Seq(Places(t)) /\ new \in Seq(Places(t))
  BY <1>3, <1>4, <1>5, SeqMonotonic
<1>7. WriterInv(t, w, Positions(m))
  BY <1>2, <1>6, WriterGrows DEF m
<1> DEFINE v == Run(Consume(t), w, new)
           z == Positions(m) \o new
<1>8. WriterInv(t, v, z) /\ z \in Seq(Places(t))
  BY <1>5, <1>6, <1>7, ConsumeKeeps, ConcatProperties
<1> HIDE DEF v
<1>9. WriterInv(t, Spill(v), z)
  <2> HIDE DEF z
  <2> QED BY <1>5, <1>8, SpillKeeps
<1>10. z = Positions(Len(t))
  BY <1>1, <1>3
<1> QED BY <1>1, <1>9, <1>10 DEF t, v, m, n, new

\* Flush, of a stream s and a writer that holds the lines a and c.
LEMMA FlushKeeps ==
  ASSUME NEW s, Len(s) \in Nat, NEW w, NEW y \in Seq(Places(s)), WriterInv(s, w, y)
  PROVE  LET held == w.acc \o w.carry
             whole == IF held = <<>> THEN w.log ELSE HandleEvent(s, w.log, held)
         IN  /\ WriterInv(s, Writer(<<>>, <<>>, Flushed(whole)), y)
             /\ Flushed(whole).pending = NoEvent
<1> DEFINE E == Places(s)
           held == w.acc \o w.carry
           l == w.log
           whole == IF held = <<>> THEN l ELSE HandleEvent(s, l, held)
<1>1. PICK x \in Seq(E) : y = x \o held /\ LogInv(s, l, x)
  BY DEF WriterInv
<1>2. held \in Seq(E) /\ l = Log(l.pending, l.blob)
  <2>1. w \in Writers(s)
    BY DEF WriterInv
  <2>2. w.acc \in Seq(E) /\ w.carry \in Seq(E) /\ l = Log(l.pending, l.blob)
    BY <2>1, WriterLogs
  <2> QED BY <2>2, ConcatProperties
<1> HIDE DEF l, held
<1>3. LogInv(s, whole, y) /\ whole = Log(whole.pending, whole.blob)
  <2>1. CASE held = <<>>
    <3>1. x \o held = x
      BY <2>1, ConcatEmptySeq
    <3> QED BY <1>1, <1>2, <2>1, <3>1
  <2>2. CASE held # <<>>
    <3>1. whole = HandleEvent(s, l, held)
      BY <2>2
    <3>2. LogInv(s, HandleEvent(s, l, held), x \o held)
      BY <1>1, <1>2, HandleEventKeeps
    <3>3. HandleEvent(s, l, held) = Log(HandleEvent(s, l, held).pending, HandleEvent(s, l, held).blob)
      BY <1>2, HandleEventIs
    <3> HIDE DEF whole
    <3> QED BY <1>1, <3>1, <3>2, <3>3
  <2> QED BY <2>1, <2>2
<1> HIDE DEF whole
<1> DEFINE f == Flushed(whole)
<1>4. LogInv(s, f, y) /\ f.pending = NoEvent
  BY <1>3, FlushedKeeps
<1>5. f = Log(f.pending, f.blob)
  BY <1>3, LogsAre
<1> HIDE DEF f
<1>6. <<>> \in Seq(E) /\ y \in Seq(E) /\ <<>> \o <<>> = <<>> /\ y \o <<>> = y
  <2>1. <<>> \in Seq(E) /\ y \in Seq(E)
    BY EmptySeq
  <2> QED BY <2>1, ConcatEmptySeq
<1>7. WriterInv(s, Writer(<<>>, <<>>, f), y \o (<<>> \o <<>>))
  BY <1>4, <1>5, <1>6, WriterInvOf
<1>8. WriterInv(s, Writer(<<>>, <<>>, f), y)
  BY <1>6, <1>7
<1> QED BY <1>4, <1>8 DEF f, whole, l, held

----------------------------------------------------------------------------
\* The inductive invariant: what the writer has is the stream.
IInv ==
  /\ stream \in Seq(Tokens)
  /\ WriterInv(stream, Now, Positions(Len(stream)))
  /\ flushed => /\ acc = <<>> /\ carry = <<>>
                /\ pending = NoEvent

LEMMA NowFields == Now.acc = acc /\ Now.carry = carry /\ Now.log = Log(pending, blob)
BY Zenon DEF Now, Writer

LEMMA InitHolds == Init => IInv
<1> SUFFICES ASSUME Init PROVE IInv
  OBVIOUS
<1>1. stream = <<>> /\ carry = <<>> /\ acc = <<>> /\ pending = NoEvent /\ blob = <<>> /\ ~flushed
  BY DEF Init
<1>2. stream \in Seq(Tokens) /\ Len(stream) = 0
  BY <1>1, EmptySeq
<1>3. WriterInv(stream, Now, Positions(0))
  <2>1. PICK s : s = stream
    OBVIOUS
  <2>2. Len(s) \in Nat
    BY <1>2, <2>1
  <2> DEFINE l == Log(NoEvent, <<>>)
             E == Places(s)
  <2>3. /\ <<>> \in Seq(E) /\ <<>> \o <<>> = <<>> /\ <<>> \in Seq(Events(s))
        /\ \A f : Pieces(s, <<>>, f) = <<>>
    <3>1. <<>> \in Seq(E) /\ <<>> \in Seq(Events(s))
      BY EmptySeq
    <3> QED BY <2>2, <3>1, ConcatEmptySeq, PiecesSteps
  <2>4. NoEvent \in Events(s) /\ \A f \in Names : NoEvent.obj[f] = <<>> /\ FieldOf(s, NoEvent, f) = <<>>
    BY <2>2, <2>3, NewEvent
  <2>5. LogInv(s, l, <<>>)
    <3>1. \A f \in Text : Logged(s, <<>>, f) \o FieldOf(s, NoEvent, f) = Pieces(s, <<>>, f)
      <4>1. \A f \in Text : f \in Names
        BY DEF Names
      <4> QED BY <2>2, <2>3, <2>4, <4>1, LoggedSteps
    <3>2. \A f \in Latest : Lasts(s, NoEvent, <<>>, <<>>, f)
      BY <2>3, Zenon DEF Lasts
    <3>3. \A f \in Names : NoEvent.obj[f] = FieldOf(s, NoEvent, f)
      BY <2>4
    <3> DEFINE nil == <<>>
    <3> HIDE DEF nil
    <3>4. LogInv(s, Log(NoEvent, nil), nil)
      <4>1. /\ nil \in Seq(Events(s)) /\ NoEvent \in Events(s)
            /\ \A f \in Text : Logged(s, nil, f) \o FieldOf(s, NoEvent, f) = Pieces(s, nil, f)
            /\ \A f \in Latest : Lasts(s, NoEvent, nil, nil, f)
        BY <2>3, <2>4, <3>1, <3>2 DEF nil
      <4> QED BY ONLY <3>3, <4>1, LogInvOf, Zenon
    <3> QED BY <3>4 DEF nil
  <2>6. l = Log(l.pending, l.blob)
    BY LogFields
  <2> HIDE DEF l
  <2>7. WriterInv(s, Writer(<<>>, <<>>, l), <<>> \o (<<>> \o <<>>))
    BY <2>2, <2>3, <2>5, <2>6, WriterInvOf
  <2>8. Positions(0) = <<>>
    <3>1. Positions(0) \in Seq(1 .. 0) /\ Len(Positions(0)) = 0
      BY PositionsTyped
    <3> QED BY <3>1, EmptySeq
  <2>9. WriterInv(s, Writer(<<>>, <<>>, l), Positions(0))
    BY <2>3, <2>7, <2>8
  <2>10. Now = Writer(<<>>, <<>>, l)
    BY <1>1, Zenon DEF Now, l
  <2> QED BY <2>1, <2>9, <2>10
<1> QED BY <1>1, <1>2, <1>3 DEF IInv

\* A chunk is a sequence of tokens.
LEMMA ChunkIsSeq ==
  ASSUME NEW chunk \in Chunks
  PROVE  chunk \in Seq(Tokens) /\ Len(chunk) \in Nat
<1>1. PICK n \in 1 .. MaxChunk : chunk \in [1 .. n -> Tokens]
  BY DEF Chunks
<1>2. n \in Nat
  BY <1>1, SSELogAssumption
<1>3. chunk \in Seq(Tokens)
  BY <1>1, <1>2, SeqDef
<1> QED BY <1>3, LenProperties

LEMMA WriteHolds ==
  ASSUME IInv, NEW chunk \in Chunks, Write(chunk)
  PROVE  IInv'
<1> PICK s : s = stream
  OBVIOUS
<1> PICK w : w = Now
  OBVIOUS
<1> DEFINE t == s \o chunk
           new == [k \in 1 .. Len(chunk) |-> Len(s) + k]
           v == Spill(Run(Consume(t), w, new))
<1>1. s \in Seq(Tokens) /\ WriterInv(s, w, Positions(Len(s)))
  BY DEF IInv
<1>2. t \in Seq(Tokens) /\ WriterInv(t, v, Positions(Len(t)))
  BY <1>1, ChunkIsSeq, WriteKeeps
<1>3. stream' = t /\ Become(v) /\ ~flushed'
  BY Zenon DEF Write
<1>4. WriterInv(t, Writer(v.carry, v.acc, Log(v.log.pending, v.log.blob)), Positions(Len(t)))
  BY <1>2, NowIs
<1> HIDE DEF t, v
<1>5. Now' = Writer(v.carry, v.acc, Log(v.log.pending, v.log.blob))
  BY <1>3, Zenon DEF Now, Become
<1>6. WriterInv(stream', Now', Positions(Len(stream')))
  BY <1>3, <1>4, <1>5
<1>7. stream' \in Seq(Tokens)
  BY <1>2, <1>3
<1> QED BY <1>3, <1>6, <1>7 DEF IInv

LEMMA FlushHolds ==
  ASSUME IInv, Flush
  PROVE  IInv'
<1> PICK s : s = stream
  OBVIOUS
<1> PICK w : w = Now
  OBVIOUS
<1> DEFINE held == w.acc \o w.carry
           whole == IF held = <<>> THEN w.log ELSE HandleEvent(s, w.log, held)
           l == Flushed(whole)
           v == Writer(<<>>, <<>>, l)
           y == Positions(Len(s))
<1>1. s \in Seq(Tokens) /\ WriterInv(s, w, y)
  BY DEF IInv
<1>2. Len(s) \in Nat /\ y \in Seq(Places(s))
  <2>1. Len(s) \in Nat
    BY <1>1, LenProperties
  <2> QED BY <2>1, PositionsTyped DEF Places
<1>3. w.acc = acc /\ w.carry = carry /\ w.log = Log(pending, blob)
  BY NowFields
<1>4. stream' = s /\ Become(v)
  BY <1>3, Zenon DEF Flush
<1>5. WriterInv(s, v, y) /\ l.pending = NoEvent
  BY <1>1, <1>2, FlushKeeps
<1>6. v.carry = <<>> /\ v.acc = <<>> /\ v.log = l
  BY WriterFields
<1>7. WriterInv(s, Writer(v.carry, v.acc, Log(v.log.pending, v.log.blob)), y)
  BY <1>5, NowIs
<1> HIDE DEF v, l, y
<1>8. Now' = Writer(v.carry, v.acc, Log(v.log.pending, v.log.blob))
  BY <1>4, Zenon DEF Now, Become
<1>9. WriterInv(stream', Now', Positions(Len(stream')))
  BY <1>4, <1>7, <1>8 DEF y
<1>10. acc' = <<>> /\ carry' = <<>> /\ pending' = NoEvent
  BY <1>4, <1>5, <1>6, Zenon DEF Become
<1>11. stream' \in Seq(Tokens)
  BY <1>1, <1>4
<1>12. NoEvent' = NoEvent
  BY DEF NoEvent, Plain, EventOf
<1> QED BY <1>9, <1>10, <1>11, <1>12 DEF IInv

LEMMA NextHolds == IInv /\ [Next]_vars => IInv'
<1> SUFFICES ASSUME IInv, [Next]_vars PROVE IInv'
  OBVIOUS
<1>1. CASE \E chunk \in Chunks : Write(chunk)
  BY <1>1, WriteHolds
<1>2. CASE Flush
  BY <1>2, FlushHolds
<1>3. CASE UNCHANGED vars
  <2>1. /\ stream' = stream /\ flushed' = flushed /\ acc' = acc /\ carry' = carry
        /\ pending' = pending /\ Now' = Now
    BY <1>3 DEF vars, Now
  <2> QED BY <2>1, Zenon DEF IInv
<1> QED BY <1>1, <1>2, <1>3 DEF Next

LEMMA IInvHolds == Spec => []IInv
BY InitHolds, NextHolds, PTL DEF Spec

\* What the invariant says of the log of now.
LEMMA IInvSays ==
  ASSUME IInv
  PROVE  \E x \in Seq(Places(stream)) :
           /\ Len(stream) \in Nat /\ acc \o carry \in Seq(Places(stream))
           /\ Positions(Len(stream)) = x \o (acc \o carry)
           /\ \A f \in Text :
                Logged(stream, blob, f) \o FieldOf(stream, pending, f) = Pieces(stream, x, f)
           /\ \A f \in Latest : Lasts(stream, pending, blob, x, f)
<1> DEFINE w == Now
<1>1. w.acc = acc /\ w.carry = carry /\ w.log = Log(pending, blob)
  BY NowFields
<1>2. /\ stream \in Seq(Tokens) /\ w \in Writers(stream)
      /\ \E x \in Seq(Places(stream)) :
           /\ Positions(Len(stream)) = x \o (w.acc \o w.carry)
           /\ LogInv(stream, w.log, x)
  BY DEF IInv, WriterInv
<1> HIDE DEF w
<1>3. PICK x \in Seq(Places(stream)) :
        Positions(Len(stream)) = x \o (acc \o carry) /\ LogInv(stream, Log(pending, blob), x)
  BY <1>1, <1>2
<1>4. Len(stream) \in Nat
  BY <1>2, LenProperties
<1>5. acc \o carry \in Seq(Places(stream))
  <2>1. acc \in Seq(Places(stream)) /\ carry \in Seq(Places(stream))
    BY <1>1, <1>2, WriterLogs
  <2> QED BY <2>1, ConcatProperties
<1>6. /\ \A f \in Text :
           Logged(stream, blob, f) \o FieldOf(stream, pending, f) = Pieces(stream, x, f)
      /\ \A f \in Latest : Lasts(stream, pending, blob, x, f)
  BY ONLY <1>3, LogInvOf, Zenon
<1> QED BY <1>3, <1>4, <1>5, <1>6

\* However the stream is cut into chunks, whatever an event is and however
\* long, sseLogWriter and mergeSSE lose, double and reorder no text.
THEOREM TextIsPreserved == Spec => []TextPreserved
<1>1. IInv => TextPreserved
  <2> SUFFICES ASSUME IInv, NEW f \in Text
               PROVE  Logged(stream, blob, f) \o FieldOf(stream, pending, f)
                        \o Pieces(stream, acc \o carry, f)
                      = Pieces(stream, Positions(Len(stream)), f)
    BY DEF TextPreserved
  <2>1. PICK x \in Seq(Places(stream)) :
          /\ Len(stream) \in Nat /\ acc \o carry \in Seq(Places(stream))
          /\ Positions(Len(stream)) = x \o (acc \o carry)
          /\ Logged(stream, blob, f) \o FieldOf(stream, pending, f) = Pieces(stream, x, f)
    BY IInvSays
  <2>2. Pieces(stream, x \o (acc \o carry), f)
          = Pieces(stream, x, f) \o Pieces(stream, acc \o carry, f)
    BY <2>1, PiecesConcat
  <2> QED BY <2>1, <2>2
<1> QED BY <1>1, IInvHolds, PTL

\* The last usage and the last finish_reason of a stream are in the log once
\* it is flushed, whether mergeSSE took them over or not.
THEOREM LatestIsPreserved == Spec => []LatestPreserved
<1>1. IInv => LatestPreserved
  <2> SUFFICES ASSUME IInv, flushed, NEW f \in Latest,
                      Pieces(stream, Positions(Len(stream)), f) # <<>>
               PROVE  \E k \in DOMAIN blob :
                        Last(Pieces(stream, Positions(Len(stream)), f))
                          \in ToSet(FieldOf(stream, blob[k], f))
    BY Zenon DEF LatestPreserved
  <2>1. PICK x \in Seq(Places(stream)) :
          /\ Len(stream) \in Nat
          /\ Positions(Len(stream)) = x \o (acc \o carry)
          /\ Lasts(stream, pending, blob, x, f)
    BY IInvSays
  <2>2. acc = <<>> /\ carry = <<>> /\ pending = NoEvent
    BY DEF IInv
  <2>3. Positions(Len(stream)) = x
    <3>1. <<>> \in Seq(Places(stream)) /\ <<>> \o <<>> = <<>> /\ x \o <<>> = x
      <4>1. <<>> \in Seq(Places(stream))
        BY EmptySeq
      <4> QED BY <4>1, ConcatEmptySeq
    <3> QED BY <2>1, <2>2, <3>1
  <2>4. FieldOf(stream, pending, f) = <<>>
    <3>1. <<>> \in Seq(Places(stream)) /\ f \in Names
      BY EmptySeq DEF Names
    <3> QED BY <2>1, <2>2, <3>1, NewEvent
  <2>5. \A p : p \notin ToSet(<<>>)
    BY DEF ToSet
  <2> QED BY <2>1, <2>3, <2>4, <2>5, Zenon DEF Lasts, Wrote
<1> QED BY <1>1, IInvHolds, PTL

----------------------------------------------------------------------------
\* Where an event ends: at the first blank line, or with the stream.
LEMMA LeastExists ==
  ASSUME NEW S, S \subseteq Nat, S # {}
  PROVE  \E m \in S : \A n \in S : m <= n
<1> SUFFICES ASSUME \A m \in S : \E n \in S : ~(m <= n) PROVE FALSE
  OBVIOUS
<1> DEFINE T == {n \in Nat : \A k \in 0 .. n : k \notin S}
<1>1. 0 \in T
  OBVIOUS
<1>2. ASSUME NEW n \in Nat, n \in T PROVE n + 1 \in T
  <2>1. ASSUME n + 1 \in S PROVE FALSE
    <3>1. PICK k \in S : ~(n + 1 <= k)
      BY <2>1
    <3>2. k \in 0 .. n
      BY <3>1
    <3> QED BY <1>2, <3>1, <3>2
  <2>2. \A k \in 0 .. n + 1 : k \in 0 .. n \/ k = n + 1
    OBVIOUS
  <2> QED BY <1>2, <2>1, <2>2
<1> HIDE DEF T
<1>3. Nat \subseteq T
  BY <1>1, <1>2, NatsAreReached
<1>4. \A n \in Nat : n \notin S
  BY <1>3 DEF T
<1> QED BY <1>4

IsEnd(s, p, e) ==
  /\ e \in p .. Len(s)
  /\ e = Len(s) \/ Blank(s, e)
  /\ \A k \in p .. e - 1 : ~Blank(s, k)

LEMMA EndIs ==
  ASSUME NEW s, Len(s) \in Nat, NEW p \in 1 .. Len(s)
  PROVE  IsEnd(s, p, EndOf(s, p))
<1> DEFINE S == Ends(s, p)
<1>1. S = {q \in p .. Len(s) : q = Len(s) \/ Blank(s, q)}
  BY DEF Ends
<1>2. Len(s) \in S /\ S \subseteq Nat
  BY <1>1
<1> HIDE DEF S
<1>3. \E q \in S : \A r \in S : q <= r
  <2>1. S # {}
    BY <1>2
  <2> QED BY <1>2, <2>1, LeastExists
<1>4. EndOf(s, p) \in S /\ \A r \in S : EndOf(s, p) <= r
  BY <1>3 DEF EndOf, S
<1> DEFINE e == EndOf(s, p)
<1> HIDE DEF e
<1>5. e \in S /\ \A r \in S : e <= r
  BY <1>4 DEF e
<1>6. IsEnd(s, p, e)
  <2>1. e \in p .. Len(s) /\ (e = Len(s) \/ Blank(s, e))
    BY <1>1, <1>5
  <2>2. ASSUME NEW k \in p .. e - 1, Blank(s, k) PROVE FALSE
    <3>1. k \in S
      BY <1>1, <2>1, <2>2
    <3> QED BY <1>5, <2>1, <3>1
  <2> QED BY <2>1, <2>2 DEF IsEnd
<1> QED BY <1>6 DEF e

LEMMA EndUnique ==
  ASSUME NEW s, Len(s) \in Nat, NEW p \in 1 .. Len(s), NEW e, IsEnd(s, p, e)
  PROVE  EndOf(s, p) = e
<1> DEFINE d == EndOf(s, p)
<1>1. IsEnd(s, p, d)
  BY EndIs
<1> HIDE DEF d
<1>2. d = e
  <2>1. ASSUME d < e PROVE FALSE
    BY <1>1, <2>1 DEF IsEnd
  <2>2. ASSUME e < d PROVE FALSE
    BY <1>1, <2>2 DEF IsEnd
  <2>3. d \in Int /\ e \in Int
    BY <1>1 DEF IsEnd
  <2> QED BY <2>1, <2>2, <2>3
<1> QED BY <1>2 DEF d

LEMMA StartsAre ==
  ASSUME NEW s \in Seq(Tokens), NEW p
  PROVE  /\ p \in Starts(s) <=> p \in 1 .. Len(s) /\ (p = 1 \/ Blank(s, p - 1))
         /\ Len(s) \in Nat
BY LenProperties DEF Starts

\* No event starts within another one.
LEMMA StartsApart ==
  ASSUME NEW s \in Seq(Tokens), NEW p \in Starts(s), NEW q \in Starts(s), p < q
  PROVE  EndOf(s, p) < q
<1>1. p \in 1 .. Len(s) /\ q \in 1 .. Len(s) /\ Blank(s, q - 1) /\ Len(s) \in Nat
  BY StartsAre
<1>2. IsEnd(s, p, EndOf(s, p))
  BY <1>1, EndIs
<1> DEFINE e == EndOf(s, p)
<1> HIDE DEF e
<1>3. IsEnd(s, p, e)
  BY <1>2 DEF e
<1>4. e < q
  <2>1. q - 1 \in p .. Len(s)
    BY <1>1
  <2>2. ~(q - 1 \in p .. e - 1)
    BY <1>1, <1>3 DEF IsEnd
  <2> QED BY <1>1, <1>3, <2>1, <2>2 DEF IsEnd
<1> QED BY <1>4 DEF e

\* The event before another one is the only one that ends there.
LEMMA OneEndsThere ==
  ASSUME NEW s \in Seq(Tokens), NEW p \in Starts(s), NEW q \in Starts(s),
         EndOf(s, p) = EndOf(s, q)
  PROVE  p = q
<1>1. p \in 1 .. Len(s) /\ q \in 1 .. Len(s) /\ Len(s) \in Nat
  BY StartsAre
<1>2. EndOf(s, p) \in p .. Len(s) /\ EndOf(s, q) \in q .. Len(s)
  BY <1>1, EndIs DEF IsEnd
<1>3. CASE p < q
  BY <1>1, <1>2, <1>3, StartsApart
<1>4. CASE q < p
  BY <1>1, <1>2, <1>4, StartsApart
<1> QED BY <1>1, <1>3, <1>4

LEMMA IntervalIs ==
  ASSUME NEW a \in Nat, NEW b \in Nat, b >= a - 1
  PROVE  /\ Len(Interval(a, b)) = b - a + 1
         /\ \A k \in 1 .. b - a + 1 : Interval(a, b)[k] = a + k - 1
         /\ Interval(a, b) = <<>> <=> b = a - 1
         /\ \A n : a .. b \subseteq 1 .. n => Interval(a, b) \in Seq(1 .. n)
         /\ Append(Interval(a, b), b + 1) = Interval(a, b + 1)
<1> DEFINE q == Interval(a, b)
           l == b - a + 1
<1>1. l \in Nat /\ q \in [1 .. l -> a .. b] /\ \A k \in 1 .. l : q[k] = a + k - 1
  BY DEF Interval
<1>2. q \in Seq(a .. b)
  <2> HIDE DEF q, l
  <2> QED BY <1>1, SeqDef
<1>3. Len(q) = l
  <2> HIDE DEF q, l
  <2> QED BY <1>1, <1>2, LenProperties
<1>4. q = <<>> <=> l = 0
  <2> HIDE DEF q, l
  <2> QED BY <1>2, <1>3, EmptySeq
<1>5. ASSUME NEW n, a .. b \subseteq 1 .. n PROVE q \in Seq(1 .. n)
  <2> HIDE DEF q, l
  <2> QED BY <1>2, <1>5, SeqMonotonic
<1>6. Append(q, b + 1) = Interval(a, b + 1)
  <2> DEFINE r == Interval(a, b + 1)
             t == Append(q, b + 1)
  <2>1. r \in [1 .. l + 1 -> a .. b + 1] /\ \A k \in 1 .. l + 1 : r[k] = a + k - 1
    BY DEF Interval
  <2>2. q \in Seq(a .. b + 1) /\ b + 1 \in a .. b + 1
    <3>1. a .. b \subseteq a .. b + 1 /\ b + 1 \in a .. b + 1
      OBVIOUS
    <3> HIDE DEF q
    <3> QED BY <1>2, <3>1, SeqMonotonic
  <2>3. a + (l + 1) - 1 = b + 1
    OBVIOUS
  <2> HIDE DEF q, l, r
  <2>4. r \in Seq(a .. b + 1) /\ Len(r) = l + 1
    <3>1. r \in Seq(a .. b + 1)
      BY <1>1, <2>1, SeqDef
    <3> QED BY <1>1, <2>1, <3>1, LenProperties
  <2>5. /\ t \in Seq(a .. b + 1) /\ Len(t) = l + 1
        /\ \A k \in 1 .. l : t[k] = q[k]
        /\ t[l + 1] = b + 1
    BY <1>3, <2>2, AppendProperties
  <2> HIDE DEF t
  <2>6. \A k \in 1 .. l + 1 : t[k] = r[k]
    <3>1. \A k \in 1 .. l + 1 : k \in 1 .. l \/ k = l + 1
      BY <1>1
    <3> QED BY <1>1, <2>1, <2>3, <2>5, <3>1
  <2>7. t = r
    BY <2>4, <2>5, <2>6, SeqEqual
  <2> QED BY <2>7 DEF t, r
<1> QED BY <1>1, <1>3, <1>4, <1>5, <1>6

----------------------------------------------------------------------------
\* What the log has of the first m positions, at the end of an event: events,
\* and where their groups start.
LogList(l) == IF l.pending = NoEvent THEN l.blob ELSE Append(l.blob, l.pending)

FollowedIn(s, p, m) == EndOf(s, p) + 1 <= m /\ Continues(s, EndOf(s, p) + 1)

EventsOK(s, L, m, g) ==
  /\ g \in [1 .. Len(L) -> 1 .. m]
  /\ \A i, j \in 1 .. Len(L) : i < j => g[i] < g[j]
  /\ \A p \in 1 .. m : p \in GroupStarts(s) <=> \E i \in 1 .. Len(L) : g[i] = p
  /\ \A i \in 1 .. Len(L) :
       L[i].raw = RawAt(s, g[i]) /\ (L[i].merged <=> FollowedIn(s, g[i], m))

\* The pending event is of the kind of the last one.
PendingOK(s, l, m) ==
  /\ m = 0 => l.pending = NoEvent
  /\ m # 0 => \E q \in Starts(s) : EndOf(s, q) = m
  /\ \A q \in Starts(s) : EndOf(s, q) = m =>
       IF l.pending = NoEvent THEN ~Mergeable(s, RawAt(s, q))
       ELSE Mergeable(s, RawAt(s, q)) /\ Key(s, l.pending.raw) = Key(s, RawAt(s, q))

GroupInv(s, l, m) == PendingOK(s, l, m) /\ \E g : EventsOK(s, LogList(l), m, g)

\* Of the first c positions, those behind m are no event yet.
TailOf(s, w, c, m) ==
  /\ m \in 0 .. c
  /\ m = 0 \/ Blank(s, m)
  /\ w.acc \o w.carry = Interval(m + 1, c)
  /\ \A k \in m + 1 .. c : ~Blank(s, k)
  /\ w.carry = <<>> <=> c = 0 \/ s[c] = "nl"
TailInv(s, w, c) == \E m \in 0 .. c : TailOf(s, w, c, m) /\ GroupInv(s, w.log, m)

----------------------------------------------------------------------------
\* More of the stream behind the end of an event, at m, changes no event up
\* to there.
Grows(s, t, m) ==
  /\ s \in Seq(Tokens) /\ t \in Seq(Tokens) /\ BeginsIn(s, t)
  /\ m \in 0 .. Len(s) /\ (m = 0 \/ Blank(s, m))

LEMMA BlankGrows ==
  ASSUME NEW s, NEW t, BeginsIn(s, t), NEW k \in 1 .. Len(s)
  PROVE  Blank(t, k) <=> Blank(s, k)
<1>1. k \in Places(s) /\ (k # 1 => k - 1 \in Places(s))
  BY DEF BeginsIn, Places
<1> QED BY <1>1 DEF BeginsIn, Blank

LEMMA EventsStay ==
  ASSUME NEW s, NEW t, NEW m, Grows(s, t, m), NEW p \in 1 .. m
  PROVE  /\ p \in Starts(t) <=> p \in Starts(s)
         /\ EndOf(t, p) = EndOf(s, p) /\ EndOf(s, p) \in p .. m
         /\ RawAt(t, p) = RawAt(s, p) /\ RawAt(s, p) \in Seq(Places(s))
<1>0. /\ s \in Seq(Tokens) /\ t \in Seq(Tokens) /\ BeginsIn(s, t)
      /\ m \in 1 .. Len(s) /\ Blank(s, m) /\ p \in 1 .. Len(s) /\ p \in 1 .. Len(t)
      /\ Len(s) \in Nat /\ Len(t) \in Nat /\ Len(s) <= Len(t)
  BY DEF Grows, BeginsIn
<1>1. \A k \in 1 .. Len(s) : Blank(t, k) <=> Blank(s, k)
  BY <1>0, BlankGrows
<1>2. p \in Starts(t) <=> p \in Starts(s)
  <2>1. p # 1 => p - 1 \in 1 .. Len(s)
    BY <1>0
  <2> QED BY <1>0, <1>1, <2>1, StartsAre
<1> DEFINE e == EndOf(s, p)
<1>3. IsEnd(s, p, e)
  BY <1>0, EndIs
<1> HIDE DEF e
<1>4. e \in p .. m
  <2>1. ~(m \in p .. e - 1)
    BY <1>0, <1>3 DEF IsEnd
  <2> QED BY <1>0, <1>3, <2>1 DEF IsEnd
<1>5. Blank(s, e)
  <2>1. e = Len(s) => e = m
    BY <1>0, <1>4
  <2> QED BY <1>0, <1>3, <2>1 DEF IsEnd
<1>6. IsEnd(t, p, e)
  <2>1. e \in 1 .. Len(s) /\ p .. e - 1 \subseteq 1 .. Len(s) /\ e \in p .. Len(t)
    BY <1>0, <1>4
  <2> QED BY <1>1, <1>3, <1>5, <2>1 DEF IsEnd
<1>7. EndOf(t, p) = e
  BY <1>0, <1>6, EndUnique
<1>8. RawAt(t, p) = RawAt(s, p)
  BY <1>7 DEF RawAt, e
<1>9. Interval(p, e) \in Seq(1 .. Len(s))
  <2>1. p \in Nat /\ e \in Nat /\ e >= p - 1 /\ p .. e \subseteq 1 .. Len(s)
    BY <1>0, <1>4
  <2> QED BY <2>1, IntervalIs
<1> QED BY <1>2, <1>4, <1>7, <1>8, <1>9 DEF e, RawAt, Places

LEMMA KeyGrows ==
  ASSUME NEW s, NEW t, BeginsIn(s, t), NEW raw \in Seq(Places(s))
  PROVE  Key(t, raw) = Key(s, raw) /\ (Mergeable(t, raw) <=> Mergeable(s, raw))
<1>1. \A p \in ToSet(raw) : p \in Places(s)
  BY ElementOfSeq, LenProperties DEF ToSet
<1>2. \A p \in ToSet(raw) : s[p] = t[p]
  BY <1>1 DEF BeginsIn
<1>3. DataOf(t, raw) = DataOf(s, raw)
  BY <1>2 DEF DataOf
<1>4. \A p \in ToSet(raw) : \A f : Has(t, p, f) <=> Has(s, p, f)
  BY <1>2 DEF Has
<1>5. Key(t, raw) = Key(s, raw)
  BY <1>3, <1>4 DEF Key
<1> QED BY <1>5 DEF Mergeable

LEMMA GroupsStay ==
  ASSUME NEW s, NEW t, NEW m, Grows(s, t, m), NEW p \in 1 .. m
  PROVE  /\ Continues(t, p) <=> Continues(s, p)
         /\ p \in GroupStarts(t) <=> p \in GroupStarts(s)
<1>0. s \in Seq(Tokens) /\ t \in Seq(Tokens) /\ BeginsIn(s, t) /\ m \in Nat
  BY LenProperties DEF Grows
<1>1. \A q \in 1 .. m :
        /\ q \in Starts(t) <=> q \in Starts(s)
        /\ EndOf(t, q) = EndOf(s, q) /\ RawAt(t, q) = RawAt(s, q)
        /\ Key(t, RawAt(s, q)) = Key(s, RawAt(s, q))
        /\ Mergeable(t, RawAt(s, q)) <=> Mergeable(s, RawAt(s, q))
  BY <1>0, EventsStay, KeyGrows
<1>2. ASSUME NEW u \in Seq(Tokens), NEW q \in Starts(u), EndOf(u, q) + 1 = p
      PROVE  q \in 1 .. m
  <2>1. q \in 1 .. Len(u) /\ Len(u) \in Nat
    BY StartsAre
  <2>2. EndOf(u, q) \in q .. Len(u)
    BY <2>1, EndIs DEF IsEnd
  <2> QED BY <1>0, <1>2, <2>1, <2>2
<1>3. (\E q \in Starts(t) : EndOf(t, q) + 1 = p /\ Key(t, RawAt(t, q)) = Key(t, RawAt(t, p)))
        <=> (\E q \in Starts(s) : EndOf(s, q) + 1 = p /\ Key(s, RawAt(s, q)) = Key(s, RawAt(s, p)))
  <2>1. ASSUME NEW q \in Starts(t), EndOf(t, q) + 1 = p, Key(t, RawAt(t, q)) = Key(t, RawAt(t, p))
        PROVE  q \in Starts(s) /\ EndOf(s, q) + 1 = p /\ Key(s, RawAt(s, q)) = Key(s, RawAt(s, p))
    <3>1. q \in 1 .. m
      BY <1>0, <1>2, <2>1
    <3> QED BY <1>1, <2>1, <3>1
  <2>2. ASSUME NEW q \in Starts(s), EndOf(s, q) + 1 = p, Key(s, RawAt(s, q)) = Key(s, RawAt(s, p))
        PROVE  q \in Starts(t) /\ EndOf(t, q) + 1 = p /\ Key(t, RawAt(t, q)) = Key(t, RawAt(t, p))
    <3>1. q \in 1 .. m
      BY <1>0, <1>2, <2>2
    <3> QED BY <1>1, <2>2, <3>1
  <2> QED BY <2>1, <2>2
<1>4. Continues(t, p) <=> Continues(s, p)
  BY <1>1, <1>3 DEF Continues
<1> QED BY <1>1, <1>4 DEF GroupStarts

LEMMA GroupInvGrows ==
  ASSUME NEW s, NEW t, NEW m, Grows(s, t, m), NEW l, l.pending \in Events(s), GroupInv(s, l, m)
  PROVE  GroupInv(t, l, m)
<1>0. /\ s \in Seq(Tokens) /\ t \in Seq(Tokens) /\ BeginsIn(s, t) /\ m \in Nat
      /\ l.pending.raw \in Seq(Places(s))
  BY LenProperties, EventsAre DEF Grows
<1>1. PendingOK(t, l, m)
  <2>1. m = 0 => l.pending = NoEvent
    BY DEF GroupInv, PendingOK
  <2>3. m # 0 => \E q \in Starts(t) : EndOf(t, q) = m
    <3> SUFFICES ASSUME m # 0 PROVE \E q \in Starts(t) : EndOf(t, q) = m
      OBVIOUS
    <3>1. PICK q \in Starts(s) : EndOf(s, q) = m
      BY DEF GroupInv, PendingOK
    <3>2. q \in 1 .. m
      <4>1. q \in 1 .. Len(s) /\ Len(s) \in Nat
        BY <1>0, StartsAre
      <4> QED BY <3>1, <4>1, EndIs DEF IsEnd
    <3> QED BY <3>1, <3>2, EventsStay
  <2>2. ASSUME NEW q \in Starts(t), EndOf(t, q) = m
        PROVE  IF l.pending = NoEvent THEN ~Mergeable(t, RawAt(t, q))
               ELSE Mergeable(t, RawAt(t, q)) /\ Key(t, l.pending.raw) = Key(t, RawAt(t, q))
    <3>1. q \in 1 .. m
      <4>1. q \in 1 .. Len(t) /\ Len(t) \in Nat
        BY <1>0, StartsAre
      <4> QED BY <2>2, <4>1, EndIs DEF IsEnd
    <3>2. /\ q \in Starts(s) /\ EndOf(s, q) = m /\ RawAt(t, q) = RawAt(s, q)
          /\ RawAt(s, q) \in Seq(Places(s))
      BY <2>2, <3>1, EventsStay
    <3>3. /\ Key(t, RawAt(s, q)) = Key(s, RawAt(s, q))
          /\ Mergeable(t, RawAt(s, q)) <=> Mergeable(s, RawAt(s, q))
          /\ Key(t, l.pending.raw) = Key(s, l.pending.raw)
      BY <1>0, <3>2, KeyGrows
    <3>4. IF l.pending = NoEvent THEN ~Mergeable(s, RawAt(s, q))
          ELSE Mergeable(s, RawAt(s, q)) /\ Key(s, l.pending.raw) = Key(s, RawAt(s, q))
      BY <3>2 DEF GroupInv, PendingOK
    <3> QED BY <3>2, <3>3, <3>4
  <2> QED BY <2>1, <2>2, <2>3 DEF PendingOK
<1>2. PICK g : EventsOK(s, LogList(l), m, g)
  BY DEF GroupInv
<1>3. EventsOK(t, LogList(l), m, g)
  <2> DEFINE L == LogList(l)
  <2>1. EventsOK(s, L, m, g)
    BY <1>2
  <2> HIDE DEF L
  <2>2. \A p \in 1 .. m : p \in GroupStarts(t) <=> p \in GroupStarts(s)
    BY GroupsStay
  <2>3. \A p \in 1 .. m : RawAt(t, p) = RawAt(s, p) /\ (FollowedIn(t, p, m) <=> FollowedIn(s, p, m))
    <3> SUFFICES ASSUME NEW p \in 1 .. m
                   PROVE  RawAt(t, p) = RawAt(s, p) /\ (FollowedIn(t, p, m) <=> FollowedIn(s, p, m))
      OBVIOUS
    <3>2. EndOf(t, p) = EndOf(s, p) /\ EndOf(s, p) \in p .. m /\ RawAt(t, p) = RawAt(s, p)
      BY EventsStay
    <3>3. EndOf(s, p) + 1 <= m => EndOf(s, p) + 1 \in 1 .. m
      BY <1>0, <3>2
    <3> QED BY <3>2, <3>3, GroupsStay DEF FollowedIn
  <2>4. \A i \in 1 .. Len(L) : g[i] \in 1 .. m
    BY <2>1 DEF EventsOK
  <2>5. EventsOK(t, L, m, g)
    BY <2>1, <2>2, <2>3, <2>4 DEF EventsOK
  <2> QED BY <2>5 DEF L
<1> QED BY <1>1, <1>3 DEF GroupInv

----------------------------------------------------------------------------
\* The next event: from behind m to e.
NextEvent(s, m, e) ==
  /\ s \in Seq(Tokens) /\ m \in Nat /\ m + 1 <= Len(s)
  /\ m = 0 \/ Blank(s, m)
  /\ IsEnd(s, m + 1, e)

LEMMA NextEventIs ==
  ASSUME NEW s, NEW m, NEW e, NextEvent(s, m, e)
  PROVE  /\ Len(s) \in Nat /\ m \in Nat /\ e \in m + 1 .. Len(s)
         /\ m + 1 \in Starts(s) /\ EndOf(s, m + 1) = e
         /\ \A p \in m + 2 .. e : p \notin Starts(s)
         /\ RawAt(s, m + 1) = Interval(m + 1, e)
         /\ RawAt(s, m + 1) \in Seq(Places(s)) /\ RawAt(s, m + 1) # <<>>
<1>1. /\ s \in Seq(Tokens) /\ Len(s) \in Nat /\ m \in Nat /\ m + 1 \in 1 .. Len(s)
      /\ e \in m + 1 .. Len(s) /\ IsEnd(s, m + 1, e)
  BY LenProperties DEF NextEvent, IsEnd
<1>2. EndOf(s, m + 1) = e
  BY <1>1, EndUnique
<1>3. m + 1 \in Starts(s)
  <2>1. (m + 1) - 1 = m
    BY <1>1
  <2>2. m + 1 = 1 \/ Blank(s, (m + 1) - 1)
    BY <1>1, <2>1 DEF NextEvent
  <2> QED BY <1>1, <2>2, StartsAre
<1>4. ASSUME NEW p \in m + 2 .. e, p \in Starts(s) PROVE FALSE
  <2>1. p - 1 \in m + 1 .. e - 1 /\ p # 1
    BY <1>1
  <2>2. Blank(s, p - 1)
    BY <1>1, <1>4, <2>1, StartsAre
  <2> QED BY <1>1, <2>1, <2>2 DEF IsEnd
<1>5. RawAt(s, m + 1) = Interval(m + 1, e)
  BY <1>2 DEF RawAt
<1>6. Interval(m + 1, e) \in Seq(Places(s)) /\ Interval(m + 1, e) # <<>>
  <2>1. /\ m + 1 \in Nat /\ e \in Nat /\ e >= (m + 1) - 1 /\ e # (m + 1) - 1
        /\ m + 1 .. e \subseteq 1 .. Len(s)
    BY <1>1
  <2> QED BY <2>1, IntervalIs DEF Places
<1> QED BY <1>1, <1>2, <1>3, <1>4, <1>5, <1>6

\* An event that ends before it is followed by what followed it already, or by
\* the new one.
LEMMA FollowedNow ==
  ASSUME NEW s, NEW m, NEW e, NextEvent(s, m, e), NEW p \in 1 .. m
  PROVE  /\ FollowedIn(s, p, e)
              <=> FollowedIn(s, p, m) \/ (EndOf(s, p) = m /\ Continues(s, m + 1))
         /\ EndOf(s, p) \in p .. m
         /\ EndOf(s, p) < m => EndOf(s, p) + 1 \in Starts(s)
<1>1. /\ Len(s) \in Nat /\ m \in Nat /\ e \in m + 1 .. Len(s)
      /\ \A q \in m + 2 .. e : q \notin Starts(s)
  BY NextEventIs
<1>2. p \in 1 .. Len(s) /\ Blank(s, m) /\ s \in Seq(Tokens)
  BY <1>1 DEF NextEvent
<1> DEFINE d == EndOf(s, p)
<1>3. IsEnd(s, p, d)
  BY <1>1, <1>2, EndIs
<1> HIDE DEF d
<1>4. d \in p .. m
  <2>1. ~(m \in p .. d - 1)
    BY <1>2, <1>3 DEF IsEnd
  <2> QED BY <1>1, <1>2, <1>3, <2>1 DEF IsEnd
<1>5. d < m => d + 1 \in Starts(s)
  <2> SUFFICES ASSUME d < m PROVE d + 1 \in Starts(s)
    OBVIOUS
  <2>1. Blank(s, d) /\ (d + 1) - 1 = d /\ d + 1 \in 1 .. Len(s)
    BY <1>1, <1>2, <1>3, <1>4 DEF IsEnd
  <2> QED BY <1>2, <2>1, StartsAre
<1>6. (d + 1 <= e /\ Continues(s, d + 1))
        <=> (d + 1 <= m /\ Continues(s, d + 1)) \/ (d = m /\ Continues(s, m + 1))
  <2>1. d + 1 <= e
    BY <1>1, <1>4
  <2>2. d + 1 <= m \/ d = m
    BY <1>1, <1>4
  <2> QED BY <1>1, <2>1, <2>2
<1> QED BY <1>4, <1>5, <1>6 DEF FollowedIn, d

\* An event that does not continue the last one is one more of the log.
LEMMA EventMore ==
  ASSUME NEW s, NEW m, NEW e, NextEvent(s, m, e), ~Continues(s, m + 1),
         NEW L \in Seq(Events(s)), NEW g, EventsOK(s, L, m, g),
         NEW ev \in Events(s), ev.raw = RawAt(s, m + 1), ~ev.merged
  PROVE  \E h : EventsOK(s, Append(L, ev), e, h)
<1> DEFINE n == Len(L)
           b == m + 1
           M == Append(L, ev)
           h == [i \in 1 .. n + 1 |-> IF i <= n THEN g[i] ELSE b]
<1>1. /\ Len(s) \in Nat /\ m \in Nat /\ e \in b .. Len(s)
      /\ b \in Starts(s) /\ EndOf(s, b) = e
      /\ \A p \in b + 1 .. e : p \notin Starts(s)
  <2>1. \A p \in b + 1 .. e : p \in m + 2 .. e
    BY NextEventIs
  <2> QED BY <2>1, NextEventIs
<1>2. /\ n \in Nat /\ Len(M) = n + 1 /\ M[n + 1] = ev
      /\ \A i \in 1 .. n : M[i] = L[i]
  BY AppendProperties, LenProperties
<1>3. /\ g \in [1 .. n -> 1 .. m]
      /\ \A i, j \in 1 .. n : i < j => g[i] < g[j]
      /\ \A p \in 1 .. m : p \in GroupStarts(s) <=> \E i \in 1 .. n : g[i] = p
      /\ \A i \in 1 .. n : L[i].raw = RawAt(s, g[i]) /\ (L[i].merged <=> FollowedIn(s, g[i], m))
  BY DEF EventsOK
<1>4. \A i \in 1 .. n + 1 : h[i] = IF i <= n THEN g[i] ELSE b
  OBVIOUS
<1>5. h \in [1 .. n + 1 -> 1 .. e]
  <2>1. 1 .. m \subseteq 1 .. e /\ b \in 1 .. e
    BY <1>1
  <2>2. \A i \in 1 .. n + 1 : i <= n => i \in 1 .. n
    BY <1>2
  <2> QED BY <1>3, <2>1, <2>2
<1> HIDE DEF h, M, n
<1>6. h[n + 1] = b /\ \A i \in 1 .. n : h[i] = g[i] /\ g[i] \in 1 .. m
  BY <1>2, <1>3, <1>4
<1>7. ASSUME NEW i \in 1 .. n + 1 PROVE i \in 1 .. n \/ i = n + 1
  BY <1>2
<1>8. \A i, j \in 1 .. n + 1 : i < j => h[i] < h[j]
  <2> SUFFICES ASSUME NEW i \in 1 .. n + 1, NEW j \in 1 .. n + 1, i < j PROVE h[i] < h[j]
    OBVIOUS
  <2>1. i \in 1 .. n
    BY <1>2
  <2>2. CASE j \in 1 .. n
    BY <1>3, <1>6, <2>1, <2>2
  <2>3. CASE j = n + 1
    BY <1>1, <1>6, <2>1, <2>3
  <2> QED BY <1>7, <2>2, <2>3
<1>9. ASSUME NEW p \in 1 .. e
      PROVE  p \in GroupStarts(s) <=> \E i \in 1 .. n + 1 : h[i] = p
  <2>1. CASE p \in 1 .. m
    <3>1. (\E i \in 1 .. n + 1 : h[i] = p) <=> (\E i \in 1 .. n : g[i] = p)
      <4>1. \A i \in 1 .. n : i \in 1 .. n + 1
        BY <1>2
      <4>2. h[n + 1] # p
        BY <1>1, <1>6, <2>1
      <4> QED BY <1>6, <1>7, <4>1, <4>2
    <3> QED BY <1>3, <2>1, <3>1
  <2>2. CASE p = b
    <3>1. b \in GroupStarts(s)
      BY <1>1 DEF GroupStarts
    <3>2. n + 1 \in 1 .. n + 1
      BY <1>2
    <3> QED BY <1>6, <2>2, <3>1, <3>2
  <2>3. CASE p \in b + 1 .. e
    <3>1. p \notin GroupStarts(s)
      BY <1>1, <2>3 DEF GroupStarts
    <3>2. ASSUME NEW i \in 1 .. n + 1, h[i] = p PROVE FALSE
      <4>1. h[i] <= b
        BY <1>1, <1>6, <1>7
      <4> QED BY <1>1, <2>3, <3>2, <4>1
    <3> QED BY <3>1, <3>2
  <2> QED BY <1>1, <2>1, <2>2, <2>3
<1>10. ASSUME NEW i \in 1 .. n + 1
       PROVE  M[i].raw = RawAt(s, h[i]) /\ (M[i].merged <=> FollowedIn(s, h[i], e))
  <2>1. CASE i \in 1 .. n
    <3>1. FollowedIn(s, g[i], e) <=> FollowedIn(s, g[i], m)
      BY <1>6, <2>1, FollowedNow
    <3> QED BY <1>2, <1>3, <1>6, <2>1, <3>1
  <2>2. CASE i = n + 1
    <3>1. ~FollowedIn(s, b, e)
      BY <1>1 DEF FollowedIn
    <3> QED BY <1>2, <1>6, <2>2, <3>1
  <2> QED BY <1>7, <2>1, <2>2
<1>11. EventsOK(s, M, e, h)
  BY <1>2, <1>5, <1>8, <1>9, <1>10 DEF EventsOK
<1> QED BY <1>11 DEF M

\* An event that continues the last one is merged into it.
LEMMA EventMerged ==
  ASSUME NEW s, NEW m, NEW e, NextEvent(s, m, e), Continues(s, m + 1),
         NEW B \in Seq(Events(s)), NEW old \in Events(s), NEW g,
         EventsOK(s, Append(B, old), m, g),
         NEW ev \in Events(s), ev.raw = old.raw, ev.merged
  PROVE  EventsOK(s, Append(B, ev), e, g)
<1> DEFINE L == Append(B, old)
           M == Append(B, ev)
           n == Len(B) + 1
           b == m + 1
<1>1. /\ Len(s) \in Nat /\ m \in Nat /\ e \in b .. Len(s)
      /\ b \in Starts(s) /\ EndOf(s, b) = e
      /\ \A p \in b + 1 .. e : p \notin Starts(s)
  <2>1. \A p \in b + 1 .. e : p \in m + 2 .. e
    BY NextEventIs
  <2> QED BY <2>1, NextEventIs
<1>2. /\ n \in Nat /\ n \in 1 .. n /\ Len(L) = n /\ Len(M) = n /\ L[n] = old /\ M[n] = ev
      /\ \A i \in 1 .. n - 1 : M[i] = L[i]
  BY AppendProperties, LenProperties
<1> HIDE DEF L, M, n
<1>3. /\ g \in [1 .. n -> 1 .. m]
      /\ \A i, j \in 1 .. n : i < j => g[i] < g[j]
      /\ \A p \in 1 .. m : p \in GroupStarts(s) <=> \E i \in 1 .. n : g[i] = p
      /\ \A i \in 1 .. n : L[i].raw = RawAt(s, g[i]) /\ (L[i].merged <=> FollowedIn(s, g[i], m))
  <2>1. EventsOK(s, L, m, g)
    BY DEF L
  <2> QED BY <1>2, <2>1 DEF EventsOK
<1>4. \A i \in 1 .. n : g[i] \in 1 .. m /\ g[i] \in GroupStarts(s) /\ g[i] \in Starts(s)
  BY <1>3 DEF GroupStarts
<1>5. g \in [1 .. n -> 1 .. e]
  <2>1. 1 .. m \subseteq 1 .. e
    BY <1>1
  <2> QED BY <1>3, <2>1
<1>6. ASSUME NEW p \in 1 .. e PROVE p \in GroupStarts(s) <=> \E i \in 1 .. n : g[i] = p
  <2>1. CASE p \in 1 .. m
    BY <1>3, <2>1
  <2>2. CASE p \in b .. e
    <3>1. p \notin GroupStarts(s)
      <4>1. p = b \/ p \in b + 1 .. e
        BY <1>1, <2>2
      <4> QED BY <1>1, <4>1 DEF GroupStarts
    <3>2. \A i \in 1 .. n : g[i] # p
      BY <1>1, <1>4, <2>2
    <3> QED BY <3>1, <3>2
  <2> QED BY <1>1, <2>1, <2>2
<1>7. ASSUME NEW i \in 1 .. n
      PROVE  M[i].raw = RawAt(s, g[i]) /\ (M[i].merged <=> FollowedIn(s, g[i], e))
  <2> DEFINE d == EndOf(s, g[i])
  <2>1. /\ FollowedIn(s, g[i], e) <=> FollowedIn(s, g[i], m) \/ (d = m /\ Continues(s, b))
        /\ d \in g[i] .. m
        /\ d < m => d + 1 \in Starts(s)
    BY <1>4, FollowedNow
  <2> HIDE DEF b
  <2>2. CASE i \in 1 .. n - 1
    <3>1. d # m
      <4>1. g[i] < g[n] /\ g[i] \in Starts(s) /\ g[n] \in Starts(s) /\ g[n] <= m
        BY <1>1, <1>2, <1>3, <1>4, <2>2
      <4>2. s \in Seq(Tokens)
        BY DEF NextEvent
      <4>3. d < g[n]
        BY <4>1, <4>2, StartsApart
      <4> QED BY <1>1, <1>2, <1>4, <2>1, <4>1, <4>3
    <3> QED BY <1>2, <1>3, <2>1, <2>2, <3>1
  <2>3. CASE i = n
    <3>1. FollowedIn(s, g[n], e)
      <4>1. CASE d = m
        BY <2>1, <2>3, <4>1 DEF b
      <4>2. CASE d # m
        <5>1. d < m /\ d + 1 \in 1 .. m /\ d + 1 > g[n] /\ d + 1 \in Starts(s)
          BY <1>1, <1>4, <2>1, <2>3, <4>2
        <5>2. Continues(s, d + 1)
          <6> SUFFICES ASSUME ~Continues(s, d + 1) PROVE FALSE
            OBVIOUS
          <6>1. PICK j \in 1 .. n : g[j] = d + 1
            BY <1>3, <5>1 DEF GroupStarts
          <6>2. j = n \/ j < n
            BY <1>2
          <6> QED BY <1>2, <1>3, <1>4, <5>1, <6>1, <6>2
        <5>3. FollowedIn(s, g[i], m)
          BY <1>1, <2>3, <5>1, <5>2 DEF FollowedIn
        <5> QED BY <2>1, <2>3, <5>3
      <4> QED BY <4>1, <4>2
    <3>2. M[n].raw = L[n].raw /\ M[n].merged
      BY <1>2
    <3> QED BY <1>2, <1>3, <2>3, <3>1, <3>2
  <2> QED BY <1>2, <2>2, <2>3
<1>8. EventsOK(s, M, e, g)
  BY <1>2, <1>3, <1>5, <1>6, <1>7 DEF EventsOK
<1> QED BY <1>8 DEF M

\* What the log has after handleEvent, in its three cases.
LEMMA ListOf ==
  ASSUME NEW p, NEW b
  PROVE  LogList(Log(p, b)) = IF p = NoEvent THEN b ELSE Append(b, p)
BY LogFields, Zenon DEF LogList

LEMMA FlushedList ==
  ASSUME NEW l
  PROVE  /\ Flushed(l).blob = LogList(l) /\ Flushed(l).pending = NoEvent
         /\ LogList(Flushed(l)) = LogList(l)
<1>1. CASE l.pending = NoEvent
  BY <1>1, Zenon DEF Flushed, LogList
<1>2. CASE l.pending # NoEvent
  <2>1. Flushed(l) = Log(NoEvent, Append(l.blob, l.pending))
    BY <1>2, Zenon DEF Flushed
  <2>2. LogList(l) = Append(l.blob, l.pending)
    BY <1>2, Zenon DEF LogList
  <2>3. LogList(Log(NoEvent, Append(l.blob, l.pending))) = Append(l.blob, l.pending)
    BY ListOf, Zenon
  <2>4. /\ Log(NoEvent, Append(l.blob, l.pending)).pending = NoEvent
        /\ Log(NoEvent, Append(l.blob, l.pending)).blob = Append(l.blob, l.pending)
    BY LogFields
  <2> QED BY ONLY <2>1, <2>2, <2>3, <2>4
<1> QED BY <1>1, <1>2

\* The bytes of events, and whether something was merged into them.
LEMMA MergedIs ==
  ASSUME NEW s, NEW raw, NEW p
  PROVE  /\ Event(s, raw).raw = raw /\ ~Event(s, raw).merged
         /\ Plain(raw).raw = raw /\ ~Plain(raw).merged
         /\ NoEvent.raw = <<>> /\ ~NoEvent.merged
         /\ Merge(p, Event(s, raw)).raw = p.raw /\ Merge(p, Event(s, raw)).merged
<1>1. \A r, o : LET e == EventOf(r, FALSE, o) IN e.raw = r /\ ~e.merged
  BY Zenon DEF EventOf
<1>2. \A r, o : LET e == EventOf(r, TRUE, o) IN e.raw = r /\ e.merged
  BY Zenon DEF EventOf
<1>3. \E o : Event(s, raw) = EventOf(raw, FALSE, o)
  BY Zenon DEF Event
<1>4. \A r : \E o : Plain(r) = EventOf(r, FALSE, o)
  BY Zenon DEF Plain
<1>5. \E o : Merge(p, Event(s, raw)) = EventOf(p.raw, TRUE, o)
  BY Zenon DEF Merge
<1>6. Event(s, raw).raw = raw /\ ~Event(s, raw).merged
  BY ONLY <1>1, <1>3, Zenon
<1>7. ASSUME NEW r PROVE Plain(r).raw = r /\ ~Plain(r).merged
  <2>1. PICK o : Plain(r) = EventOf(r, FALSE, o)
    BY ONLY <1>4, Zenon
  <2>2. LET e == EventOf(r, FALSE, o) IN e.raw = r /\ ~e.merged
    BY ONLY <1>1, Zenon
  <2> QED BY ONLY <2>1, <2>2, Zenon
<1>8. NoEvent.raw = <<>> /\ ~NoEvent.merged
  BY <1>7, Zenon DEF NoEvent
<1>9. Merge(p, Event(s, raw)).raw = p.raw /\ Merge(p, Event(s, raw)).merged
  BY ONLY <1>2, <1>5, Zenon
<1> QED BY <1>6, <1>7, <1>8, <1>9, Zenon

\* What the invariant is about a whole event that is handled.
WholeEvents(s, l) ==
  l.pending \in Events(s) /\ l.blob \in Seq(Events(s))

LEMMA ListTyped ==
  ASSUME NEW s, NEW l, WholeEvents(s, l)
  PROVE  LogList(l) \in Seq(Events(s))
BY AppendProperties DEF WholeEvents, LogList

\* Whether the new event continues the one before, for handleEvent.
LEMMA ContinuesIs ==
  ASSUME NEW s, NEW m, NEW e, NextEvent(s, m, e), NEW l, PendingOK(s, l, m)
  PROVE  Continues(s, m + 1) <=>
           /\ Mergeable(s, RawAt(s, m + 1))
           /\ l.pending # NoEvent
           /\ Key(s, l.pending.raw) = Key(s, RawAt(s, m + 1))
<1> DEFINE b == m + 1
           raw == RawAt(s, b)
<1>1. m \in Nat /\ b \in Starts(s) /\ s \in Seq(Tokens)
  BY NextEventIs DEF NextEvent
<1>2. ASSUME NEW q \in Starts(s)
      PROVE  EndOf(s, q) \in Nat
  <2>1. q \in 1 .. Len(s) /\ Len(s) \in Nat
    BY <1>1, StartsAre
  <2> QED BY <2>1, EndIs DEF IsEnd
<1> HIDE DEF raw
<1>3. ASSUME Continues(s, b)
      PROVE  Mergeable(s, raw) /\ l.pending # NoEvent /\ Key(s, l.pending.raw) = Key(s, raw)
  <2>1. Mergeable(s, raw)
    BY <1>3 DEF Continues, raw
  <2>2. PICK q \in Starts(s) : EndOf(s, q) + 1 = b /\ Key(s, RawAt(s, q)) = Key(s, raw)
    BY <1>3 DEF Continues, raw
  <2>3. EndOf(s, q) = m
    BY <1>1, <1>2, <2>2
  <2>4. IF l.pending = NoEvent THEN ~Mergeable(s, RawAt(s, q))
        ELSE Mergeable(s, RawAt(s, q)) /\ Key(s, l.pending.raw) = Key(s, RawAt(s, q))
    BY <2>3 DEF PendingOK
  <2>5. Mergeable(s, RawAt(s, q))
    BY <2>1, <2>2 DEF Mergeable
  <2> QED BY <2>1, <2>2, <2>4, <2>5
<1>4. ASSUME Mergeable(s, raw), l.pending # NoEvent, Key(s, l.pending.raw) = Key(s, raw)
      PROVE  Continues(s, b)
  <2>1. m # 0
    BY <1>4 DEF PendingOK
  <2>2. PICK q \in Starts(s) : EndOf(s, q) = m
    BY <2>1 DEF PendingOK
  <2>3. Key(s, l.pending.raw) = Key(s, RawAt(s, q))
    BY <1>4, <2>2 DEF PendingOK
  <2>4. EndOf(s, q) + 1 = b /\ Key(s, RawAt(s, q)) = Key(s, raw)
    BY <1>4, <2>2, <2>3
  <2> QED BY <1>1, <1>4, <2>4 DEF Continues, raw
<1> QED BY <1>3, <1>4 DEF raw

\* handleEvent has the groups of one event more.
LEMMA HandleEventGroups ==
  ASSUME NEW s, NEW m, NEW e, NextEvent(s, m, e), NEW l, WholeEvents(s, l), GroupInv(s, l, m)
  PROVE  GroupInv(s, HandleEvent(s, l, RawAt(s, m + 1)), e)
<1> DEFINE b == m + 1
           raw == RawAt(s, b)
           h == HandleEvent(s, l, raw)
           L == LogList(l)
<1>1. /\ Len(s) \in Nat /\ m \in Nat /\ e \in b .. Len(s)
      /\ b \in Starts(s) /\ EndOf(s, b) = e
      /\ raw \in Seq(Places(s)) /\ raw # <<>>
      /\ s \in Seq(Tokens)
  BY NextEventIs DEF NextEvent
<1>2. /\ Event(s, raw) \in Events(s) /\ Plain(raw) \in Events(s) /\ NoEvent \in Events(s)
  BY <1>1, NewEvent
<1>3. /\ Event(s, raw).raw = raw /\ ~Event(s, raw).merged
      /\ Plain(raw).raw = raw /\ ~Plain(raw).merged
      /\ NoEvent.raw = <<>> /\ ~NoEvent.merged
      /\ Merge(l.pending, Event(s, raw)).raw = l.pending.raw
      /\ Merge(l.pending, Event(s, raw)).merged
  BY MergedIs, Zenon
<1>4. L \in Seq(Events(s)) /\ PendingOK(s, l, m)
  BY ListTyped DEF GroupInv
<1>5. PICK g : EventsOK(s, L, m, g)
  BY DEF GroupInv
<1>6. Continues(s, b) <=>
        Mergeable(s, raw) /\ l.pending # NoEvent /\ Key(s, l.pending.raw) = Key(s, raw)
  BY <1>4, ContinuesIs
<1>7. e \in Nat /\ e # 0
  BY <1>1
<1>8. \A q \in Starts(s) : EndOf(s, q) = e => q = b
  BY <1>1, OneEndsThere
<1>9. Flushed(l).blob = L /\ Flushed(l).pending = NoEvent
  BY FlushedList
<1> HIDE DEF L, raw, b
<1>10. PendingOK(s, h, e) <=> IF h.pending = NoEvent THEN ~Mergeable(s, raw)
                               ELSE Mergeable(s, raw) /\ Key(s, h.pending.raw) = Key(s, raw)
  <2> HIDE DEF h
  <2> QED BY <1>1, <1>7, <1>8 DEF PendingOK, raw
<1>11. CASE ~Mergeable(s, raw)
  <2> DEFINE M == Append(L, Plain(raw))
  <2>1. h = Log(NoEvent, M)
    BY <1>1, <1>9, <1>11, Zenon DEF HandleEvent, WriteOut
  <2>2. \E k : EventsOK(s, M, e, k)
    BY <1>2, <1>3, <1>4, <1>5, <1>6, <1>11, EventMore DEF raw, b
  <2> HIDE DEF h, M
  <2>3. LogList(h) = M /\ h.pending = NoEvent
    BY <2>1, ListOf, LogFields
  <2>4. GroupInv(s, h, e)
    BY <1>10, <1>11, <2>2, <2>3 DEF GroupInv
  <2> QED BY <2>4 DEF h, raw, b
<1>12. CASE Mergeable(s, raw) /\ ~Continues(s, b)
  <2> DEFINE ev == Event(s, raw)
             M == Append(L, ev)
  <2>1. h = Log(ev, L)
    BY <1>6, <1>9, <1>12, Zenon DEF HandleEvent
  <2>2. \E k : EventsOK(s, M, e, k)
    BY <1>2, <1>3, <1>4, <1>5, <1>12, EventMore DEF raw, b
  <2>3. ev # NoEvent /\ ev.raw = raw
    BY <1>1, <1>3
  <2> HIDE DEF h, M, ev
  <2>4. LogList(h) = M /\ h.pending = ev
    BY <2>1, <2>3, ListOf, LogFields DEF M
  <2>5. GroupInv(s, h, e)
    BY <1>10, <1>12, <2>2, <2>3, <2>4 DEF GroupInv
  <2> QED BY <2>5 DEF h, raw, b
<1>13. CASE Continues(s, b)
  <2> DEFINE old == l.pending
             ev == Merge(old, Event(s, raw))
             B == l.blob
             M == Append(B, ev)
  <2>1. h = Log(ev, B)
    BY <1>6, <1>13, Zenon DEF HandleEvent
  <2>2. L = Append(B, old) /\ old \in Events(s) /\ B \in Seq(Events(s))
    BY <1>6, <1>13, Zenon DEF L, LogList, WholeEvents
  <2>3. ev \in Events(s) /\ ev.raw = old.raw /\ ev.merged
    BY <1>1, <1>2, <1>3, <2>2, MergeFields
  <2>4. ev # NoEvent
    BY <1>3, <2>3
  <2> HIDE DEF h, ev, old, B
  <2>5. EventsOK(s, M, e, g)
    BY <1>5, <1>13, <2>2, <2>3, EventMerged DEF b
  <2>6. LogList(h) = M /\ h.pending = ev
    BY <2>1, <2>4, ListOf, LogFields
  <2>7. Key(s, h.pending.raw) = Key(s, raw) /\ Mergeable(s, raw)
    BY <1>6, <1>13, <2>3, <2>6 DEF old
  <2>8. GroupInv(s, h, e)
    BY <1>10, <2>4, <2>5, <2>6, <2>7 DEF GroupInv
  <2> QED BY <2>8 DEF h, raw, b
<1> QED BY <1>11, <1>12, <1>13

----------------------------------------------------------------------------
\* consume, one byte more, for the groups.
LEMMA ByteGroups ==
  ASSUME NEW s \in Seq(Tokens), NEW w \in Writers(s), NEW c \in Nat, c + 1 <= Len(s),
         TailInv(s, w, c)
  PROVE  TailInv(s, Byte(s, w, c + 1), c + 1)
<1> DEFINE p == c + 1
           a == w.acc
           l == w.log
           line == Append(w.carry, p)
           lines == a \o line
           E == Places(s)
<1>1. PICK m \in 0 .. c : TailOf(s, w, c, m) /\ GroupInv(s, l, m)
  BY DEF TailInv
<1>2. /\ w.carry \in Seq(E) /\ a \in Seq(E) /\ WholeEvents(s, l)
      /\ p \in E /\ Len(s) \in Nat /\ <<>> \in Seq(E)
  <2>1. w.carry \in Seq(E) /\ a \in Seq(E) /\ WholeEvents(s, l)
    BY DEF Writers, WholeEvents
  <2>2. p \in E /\ Len(s) \in Nat
    BY LenProperties DEF Places
  <2> QED BY <2>1, <2>2, EmptySeq
<1>3. /\ m = 0 \/ Blank(s, m)
      /\ a \o w.carry = Interval(m + 1, c)
      /\ \A k \in m + 1 .. c : ~Blank(s, k)
      /\ w.carry = <<>> <=> c = 0 \/ s[c] = "nl"
  BY <1>1 DEF TailOf
<1>4. /\ lines = Interval(m + 1, p) /\ line \in Seq(E) /\ line # <<>>
      /\ Len(line) > 1 <=> w.carry # <<>>
      /\ lines \in Seq(E)
  <2> HIDE DEF E, p
  <2>1. lines = Append(a \o w.carry, p)
    <3> DEFINE k == w.carry
    <3>1. a \in Seq(E) /\ k \in Seq(E) /\ p \in E
      BY <1>2
    <3> HIDE DEF a, k
    <3>2. a \o Append(k, p) = Append(a \o k, p)
      BY ONLY <3>1, ConcatAppend
    <3> QED BY <3>2 DEF k
  <2>2. Append(Interval(m + 1, c), p) = Interval(m + 1, p)
    <3>1. m + 1 \in Nat /\ c >= (m + 1) - 1
      BY <1>1
    <3> QED BY <3>1, IntervalIs DEF p
  <2>3. line \in Seq(E) /\ Len(line) = Len(w.carry) + 1 /\ Len(w.carry) \in Nat
    BY <1>2, AppendProperties, LenProperties
  <2>4. w.carry = <<>> <=> Len(w.carry) = 0
    BY <1>2, EmptySeq
  <2>5. line # <<>>
    BY <2>3, EmptySeq
  <2>6. lines \in Seq(E)
    <3> HIDE DEF line
    <3> QED BY <1>2, <2>3, ConcatProperties
  <2> QED BY <1>3, <2>1, <2>2, <2>3, <2>4, <2>5, <2>6
<1>5. Blank(s, p) <=> s[p] = "nl" /\ w.carry = <<>>
  <2>1. p = 1 <=> c = 0
    OBVIOUS
  <2>2. p - 1 = c
    OBVIOUS
  <2> QED BY <1>3, <2>1, <2>2 DEF Blank
<1>6. m \in 0 .. p /\ m + 1 <= p /\ \A k \in m + 1 .. p : k \in m + 1 .. c \/ k = p
  BY <1>1
<1> HIDE DEF a, l, line, lines, E
<1>7. CASE s[p] # "nl"
  <2> DEFINE v == Writer(line, a, l)
  <2>1. Byte(s, w, p) = v
    BY <1>7, Zenon DEF Byte, line, a, l
  <2>2. v.carry = line /\ v.acc = a /\ v.log = l
    BY WriterFields
  <2> HIDE DEF v
  <2>3. TailOf(s, v, p, m)
    <3>1. \A k \in m + 1 .. p : ~Blank(s, k)
      BY <1>3, <1>5, <1>6, <1>7
    <3>2. v.acc \o v.carry = Interval(m + 1, p)
      BY <1>4, <2>2 DEF lines
    <3>3. v.carry # <<>> /\ p # 0
      BY <1>4, <2>2
    <3> QED BY <1>3, <1>6, <1>7, <3>1, <3>2, <3>3 DEF TailOf
  <2> QED BY <1>1, <1>6, <2>1, <2>2, <2>3 DEF TailInv
<1>8. CASE s[p] = "nl" /\ w.carry # <<>>
  <2> DEFINE v == Writer(<<>>, lines, l)
  <2>1. Byte(s, w, p) = v
    <3>1. Len(line) > 1
      BY <1>4, <1>8
    <3> QED BY <1>8, <3>1, Zenon DEF Byte, lines, line, a, l
  <2>2. v.carry = <<>> /\ v.acc = lines /\ v.log = l
    BY WriterFields
  <2> HIDE DEF v
  <2>3. TailOf(s, v, p, m)
    <3>1. \A k \in m + 1 .. p : ~Blank(s, k)
      BY <1>3, <1>5, <1>6, <1>8
    <3>2. v.acc \o v.carry = Interval(m + 1, p)
      BY <1>4, <2>2, ConcatEmptySeq
    <3> QED BY <1>3, <1>6, <1>8, <2>2, <3>1, <3>2 DEF TailOf
  <2> QED BY <1>1, <1>6, <2>1, <2>2, <2>3 DEF TailInv
<1>9. CASE s[p] = "nl" /\ w.carry = <<>>
  <2> DEFINE h == HandleEvent(s, l, lines)
             v == Writer(<<>>, <<>>, h)
  <2>1. Byte(s, w, p) = v
    <3>1. ~(Len(line) > 1)
      BY <1>4, <1>9
    <3> QED BY <1>9, <3>1, Zenon DEF Byte, lines, line, a, l
  <2>2. v.carry = <<>> /\ v.acc = <<>> /\ v.log = h
    BY WriterFields
  <2>3. IsEnd(s, m + 1, p)
    <3>1. p \in m + 1 .. Len(s)
      BY <1>1, <1>2
    <3>2. \A k \in m + 1 .. p - 1 : k \in m + 1 .. c
      BY <1>1
    <3>3. Blank(s, p)
      BY <1>5, <1>9
    <3> HIDE DEF p
    <3> QED BY <1>3, <3>1, <3>2, <3>3 DEF IsEnd
  <2>4. NextEvent(s, m, p)
    <3>1. m \in Nat /\ m + 1 <= Len(s)
      BY <1>1, <1>2
    <3> QED BY <1>3, <2>3, <3>1 DEF NextEvent
  <2>5. RawAt(s, m + 1) = lines
    BY <1>4, <2>4, NextEventIs
  <2>6. GroupInv(s, h, p)
    <3>1. GroupInv(s, HandleEvent(s, l, RawAt(s, m + 1)), p)
      BY <1>1, <1>2, <2>4, HandleEventGroups
    <3> QED BY <2>5, <3>1
  <2> HIDE DEF v, h
  <2>7. TailOf(s, v, p, p)
    <3>1. Interval(p + 1, p) = <<>> /\ <<>> \o <<>> = <<>>
      <4>1. p + 1 \in Nat /\ p \in Nat /\ p >= (p + 1) - 1 /\ p = (p + 1) - 1
        OBVIOUS
      <4>2. Interval(p + 1, p) = <<>>
        BY <4>1, IntervalIs
      <4> QED BY <1>2, <4>2, ConcatEmptySeq
    <3>2. Blank(s, p)
      BY <1>5, <1>9
    <3>3. p \in 0 .. p /\ \A k \in p + 1 .. p : ~Blank(s, k)
      OBVIOUS
    <3> QED BY <1>9, <2>2, <3>1, <3>2, <3>3 DEF TailOf
  <2>8. p \in 0 .. p
    OBVIOUS
  <2> QED BY <2>1, <2>2, <2>6, <2>7, <2>8 DEF TailInv
<1> QED BY <1>7, <1>8, <1>9

\* The positions behind c, none and one more.
LEMMA IntervalMore ==
  ASSUME NEW c \in Nat
  PROVE  /\ Interval(c + 1, c) = <<>>
         /\ \A k \in Nat : Interval(c + 1, c + (k + 1)) = Append(Interval(c + 1, c + k), c + (k + 1))
<1> DEFINE a == c + 1
<1>1. a \in Nat /\ c = a - 1 /\ c >= a - 1
  OBVIOUS
<1>2. Interval(a, c) = <<>>
  <2> HIDE DEF a
  <2> QED BY <1>1, IntervalIs
<1>3. ASSUME NEW k \in Nat PROVE Interval(a, c + (k + 1)) = Append(Interval(a, c + k), c + (k + 1))
  <2> DEFINE b == c + k
             d == c + (k + 1)
  <2>1. b \in Nat /\ b >= a - 1 /\ b + 1 = d
    BY <1>1
  <2> HIDE DEF a, b, d
  <2>2. Interval(a, d) = Append(Interval(a, b), d)
    <3>1. Append(Interval(a, b), b + 1) = Interval(a, b + 1)
      BY <1>1, <2>1, IntervalIs
    <3> QED BY <2>1, <3>1
  <2> QED BY <2>2 DEF b, d
<1> QED BY <1>2, <1>3

\* consume, over n bytes.
LEMMA ConsumeGroups ==
  ASSUME NEW s \in Seq(Tokens), NEW w \in Writers(s), NEW c \in Nat, NEW n \in Nat,
         c + n <= Len(s), TailInv(s, w, c)
  PROVE  TailInv(s, Run(Consume(s), w, Interval(c + 1, c + n)), c + n)
<1> DEFINE E == Places(s)
           W == Writers(s)
           V(k) == Run(Consume(s), w, Interval(c + 1, c + k))
           T == {k \in Nat : c + k <= Len(s) => V(k) \in W /\ TailInv(s, V(k), c + k)}
<1>0. Len(s) \in Nat
  BY LenProperties
<1>1. \A v \in W, p \in E : Byte(s, v, p) \in W
  BY <1>0, ByteTyped
<1>2. Consume(s) \in Steps(W, E) /\ \A v \in W, p \in E : Consume(s)[<<v, p>>] = Byte(s, v, p)
  BY <1>1 DEF Consume, Steps
<1>3. w \in W
  OBVIOUS
<1>4. \A k \in Nat : c + k <= Len(s) => Interval(c + 1, c + k) \in Seq(E)
  <2> SUFFICES ASSUME NEW k \in Nat, c + k <= Len(s) PROVE Interval(c + 1, c + k) \in Seq(E)
    OBVIOUS
  <2>1. /\ c + 1 \in Nat /\ c + k \in Nat /\ c + k >= (c + 1) - 1
        /\ c + 1 .. c + k \subseteq 1 .. Len(s)
    BY <1>0
  <2> QED BY <2>1, IntervalIs DEF Places
<1> HIDE DEF E, W
<1>5. 0 \in T
  <2>1. c + 0 = c
    OBVIOUS
  <2>2. Interval(c + 1, c + 0) = <<>>
    BY <2>1, IntervalMore
  <2>3. V(0) = w
    BY <1>2, <1>3, <2>2, RunEmpty
  <2> QED BY <1>3, <2>1, <2>3
<1>6. ASSUME NEW k \in Nat, k \in T PROVE k + 1 \in T
  <2> SUFFICES ASSUME c + (k + 1) <= Len(s)
               PROVE  V(k + 1) \in W /\ TailInv(s, V(k + 1), c + (k + 1))
    OBVIOUS
  <2> DEFINE p == c + (k + 1)
             v == V(k)
  <2>1. /\ c + k \in Nat /\ (c + k) + 1 = p /\ (c + k) + 1 <= Len(s) /\ c + k <= Len(s)
        /\ p \in E
    BY <1>0 DEF E, Places
  <2>2. v \in W /\ TailInv(s, v, c + k)
    BY <1>6, <2>1
  <2>3. Interval(c + 1, p) = Append(Interval(c + 1, c + k), p)
    BY IntervalMore
  <2>4. Interval(c + 1, c + k) \in Seq(E)
    BY <1>4, <2>1
  <2>5. V(k + 1) = Consume(s)[<<v, p>>]
    <3> DEFINE r == Interval(c + 1, c + k)
    <3>1. r \in Seq(E) /\ p \in E /\ Interval(c + 1, p) = Append(r, p)
      BY <2>1, <2>3, <2>4
    <3> HIDE DEF r, p
    <3>2. Run(Consume(s), w, Append(r, p)) = Consume(s)[<<Run(Consume(s), w, r), p>>]
      BY ONLY <1>2, <1>3, <3>1, RunAppend
    <3> QED BY <3>1, <3>2 DEF r, p
  <2>6. V(k + 1) = Byte(s, v, p)
    <3> HIDE DEF v, p, V
    <3> QED BY <1>2, <2>1, <2>2, <2>5
  <2>7. Byte(s, v, p) \in W
    <3> HIDE DEF v, p
    <3> QED BY <1>1, <2>1, <2>2
  <2>8. TailInv(s, Byte(s, v, p), p)
    <3> DEFINE d == c + k
    <3>1. d \in Nat /\ d + 1 <= Len(s) /\ v \in Writers(s) /\ TailInv(s, v, d) /\ p = d + 1
      BY <2>1, <2>2 DEF W
    <3> HIDE DEF v, d, p
    <3> QED BY <3>1, ByteGroups
  <2> HIDE DEF v, V
  <2> QED BY <2>6, <2>7, <2>8
<1> HIDE DEF T
<1>7. Nat \subseteq T
  BY <1>5, <1>6, NatsAreReached
<1>8. n \in T
  BY <1>7
<1> QED BY <1>8 DEF T

\* More of the stream behind c changes no group of the first c positions.
LEMMA TailGrows ==
  ASSUME NEW s \in Seq(Tokens), NEW t \in Seq(Tokens), BeginsIn(s, t),
         NEW w \in Writers(s), TailInv(s, w, Len(s))
  PROVE  TailInv(t, w, Len(s))
<1> DEFINE c == Len(s)
<1>0. c \in Nat /\ \A k \in 1 .. c : s[k] = t[k]
  BY LenProperties DEF BeginsIn, Places
<1>1. PICK m \in 0 .. c : TailOf(s, w, c, m) /\ GroupInv(s, w.log, m)
  BY DEF TailInv
<1>2. \A k \in 1 .. c : Blank(t, k) <=> Blank(s, k)
  BY BlankGrows
<1>3. w.log.pending \in Events(s)
  BY DEF Writers
<1>4. Grows(s, t, m)
  BY <1>0, <1>1 DEF Grows, TailOf
<1>5. GroupInv(t, w.log, m)
  BY <1>1, <1>3, <1>4, GroupInvGrows
<1>6. TailOf(t, w, c, m)
  <2>1. m # 0 => m \in 1 .. c
    BY <1>0, <1>1
  <2>2. \A k \in m + 1 .. c : k \in 1 .. c
    BY <1>0, <1>1
  <2>3. c # 0 => s[c] = t[c]
    BY <1>0
  <2> HIDE DEF c
  <2> QED BY <1>1, <1>2, <2>1, <2>2, <2>3 DEF TailOf
<1> QED BY <1>1, <1>5, <1>6 DEF TailInv

\* Write, for the groups.
LEMMA WriteGroups ==
  ASSUME NEW s \in Seq(Tokens), NEW chunk \in Seq(Tokens), NEW w,
         WriterInv(s, w, Positions(Len(s))), TailInv(s, w, Len(s))
  PROVE  LET t == s \o chunk
             new == [k \in 1 .. Len(chunk) |-> Len(s) + k]
         IN  TailInv(t, Run(Consume(t), w, new), Len(t))
<1> DEFINE t == s \o chunk
           c == Len(s)
           n == Len(chunk)
           new == [k \in 1 .. n |-> c + k]
<1>1. /\ t \in Seq(Tokens) /\ c \in Nat /\ n \in Nat /\ Len(t) = c + n
      /\ \A p \in 1 .. c : t[p] = s[p]
  <2>1. c \in Nat /\ n \in Nat
    BY LenProperties
  <2> QED BY <2>1, ConcatProperties
<1> HIDE DEF t
<1>2. BeginsIn(s, t)
  BY <1>1 DEF BeginsIn, Places
<1>3. Positions(c) \in Seq(Places(s))
  BY <1>1, PositionsTyped DEF Places
<1>4. w \in Writers(s)
  BY DEF WriterInv
<1>5. w \in Writers(t)
  BY <1>2, <1>3, WriterGrows DEF WriterInv
<1>6. TailInv(t, w, c)
  BY <1>1, <1>2, <1>4, TailGrows
<1>7. new = Interval(c + 1, c + n)
  <2>1. (c + n) - (c + 1) + 1 = n /\ \A k \in 1 .. n : (c + 1) + k - 1 = c + k
    BY <1>1
  <2> HIDE DEF c, n
  <2> QED BY <2>1 DEF Interval
<1>8. TailInv(t, Run(Consume(t), w, Interval(c + 1, c + n)), c + n)
  <2> HIDE DEF c, n
  <2>1. c + n <= Len(t)
    BY <1>1
  <2> QED BY <1>1, <1>5, <1>6, <2>1, ConsumeGroups
<1> HIDE DEF new, c, n
<1>9. TailInv(t, Run(Consume(t), w, new), Len(t))
  BY <1>1, <1>7, <1>8
<1> QED BY <1>9 DEF t, new, c, n

\* Flush, for the groups.
LEMMA FlushGroups ==
  ASSUME NEW s \in Seq(Tokens), NEW w \in Writers(s), TailInv(s, w, Len(s))
  PROVE  LET held == w.acc \o w.carry
             whole == IF held = <<>> THEN w.log ELSE HandleEvent(s, w.log, held)
         IN  \E g : EventsOK(s, Flushed(whole).blob, Len(s), g)
<1> DEFINE n == Len(s)
           l == w.log
           held == w.acc \o w.carry
           whole == IF held = <<>> THEN l ELSE HandleEvent(s, l, held)
<1>0. n \in Nat /\ WholeEvents(s, l)
  BY LenProperties DEF Writers, WholeEvents
<1>1. PICK m \in 0 .. n : TailOf(s, w, n, m) /\ GroupInv(s, l, m)
  BY DEF TailInv
<1>2. held = Interval(m + 1, n) /\ (held = <<>> <=> m = n)
  <2>1. held = Interval(m + 1, n)
    BY <1>1 DEF TailOf
  <2>2. m + 1 \in Nat /\ n >= (m + 1) - 1 /\ (n = (m + 1) - 1 <=> m = n)
    BY <1>0, <1>1
  <2> HIDE DEF n, held
  <2> QED BY <1>0, <2>1, <2>2, IntervalIs
<1> HIDE DEF held, l
<1>3. GroupInv(s, whole, n)
  <2>1. CASE held = <<>>
    BY <1>1, <1>2, <2>1
  <2>2. CASE held # <<>>
    <3>1. m \in Nat /\ m + 1 <= n /\ n \in m + 1 .. n
      BY <1>0, <1>1, <1>2, <2>2
    <3>2. \A k \in m + 1 .. n - 1 : k \in m + 1 .. n
      BY <1>0, <1>1
    <3>3. NextEvent(s, m, n)
      BY <1>1, <3>1, <3>2 DEF NextEvent, IsEnd, TailOf
    <3>4. RawAt(s, m + 1) = held
      BY <1>2, <3>3, NextEventIs
    <3>5. GroupInv(s, HandleEvent(s, l, RawAt(s, m + 1)), n)
      BY <1>0, <1>1, <3>3, HandleEventGroups
    <3> QED BY <2>2, <3>4, <3>5
  <2> QED BY <2>1, <2>2
<1> HIDE DEF whole, n
<1>4. Flushed(whole).blob = LogList(whole)
  BY FlushedList
<1>5. \E g : EventsOK(s, Flushed(whole).blob, n, g)
  BY <1>3, <1>4 DEF GroupInv
<1> QED BY <1>5 DEF whole, held, l, n

----------------------------------------------------------------------------
\* The inductive invariant for the groups: the log is that of whole events as
\* long as no event was too long.
GInv ==
  ~overflow =>
    IF flushed THEN \E g : EventsOK(stream, blob, Len(stream), g)
    ELSE TailInv(stream, Now, Len(stream))

LEMMA InitGroups == Init => GInv
<1> SUFFICES ASSUME Init PROVE GInv
  OBVIOUS
<1>1. stream = <<>> /\ carry = <<>> /\ acc = <<>> /\ pending = NoEvent /\ blob = <<>> /\ ~flushed
  BY DEF Init
<1> DEFINE w == Writer(<<>>, <<>>, Log(NoEvent, <<>>))
           s == stream
           l == w.log
<1>2. Now = w
  BY <1>1, Zenon DEF Now
<1>3. /\ w.carry = <<>> /\ w.acc = <<>>
      /\ LogList(l) = <<>> /\ l.pending = NoEvent
  <2>1. w.carry = <<>> /\ w.acc = <<>> /\ l = Log(NoEvent, <<>>)
    BY WriterFields
  <2>2. LogList(Log(NoEvent, <<>>)) = <<>> /\ Log(NoEvent, <<>>).pending = NoEvent
    BY ListOf, LogFields, Zenon
  <2> HIDE DEF w
  <2> QED BY <2>1, <2>2
<1> HIDE DEF w, l
<1>4. /\ Len(s) = 0 /\ Starts(s) = {} /\ <<>> \o <<>> = <<>> /\ Interval(0 + 1, 0) = <<>>
      /\ Len(<<>>) = 0
  <2>1. s \in Seq(Tokens) /\ Len(s) = 0 /\ Len(<<>>) = 0
    BY <1>1, EmptySeq
  <2>2. Starts(s) = {}
    <3> SUFFICES ASSUME NEW p \in Starts(s) PROVE FALSE
      OBVIOUS
    <3>1. p \in 1 .. Len(s)
      BY <2>1, StartsAre
    <3> QED BY <2>1, <3>1
  <2>3. Interval(0 + 1, 0) = <<>>
    BY IntervalMore
  <2>4. <<>> \o <<>> = <<>>
    BY <1>1, <2>1, ConcatEmptySeq
  <2> QED BY <2>1, <2>2, <2>3, <2>4
<1>5. TailOf(s, w, 0, 0)
  <2>1. 0 \in 0 .. 0 /\ \A k \in 0 + 1 .. 0 : ~Blank(s, k)
    OBVIOUS
  <2> QED BY <1>3, <1>4, <2>1 DEF TailOf
<1>6. GroupInv(s, l, 0)
  <2>1. PendingOK(s, l, 0)
    BY <1>3, <1>4 DEF PendingOK
  <2> DEFINE g == [i \in 1 .. 0 |-> i]
             L == <<>>
  <2>2. Len(L) = 0 /\ LogList(l) = L
    BY <1>3, <1>4
  <2>3. g \in [1 .. 0 -> 1 .. 0] /\ \A i : i \notin 1 .. 0
    OBVIOUS
  <2> HIDE DEF L, g
  <2>4. EventsOK(s, L, 0, g)
    BY <2>2, <2>3 DEF EventsOK
  <2> QED BY <2>1, <2>2, <2>4 DEF GroupInv
<1>7. TailInv(s, w, 0)
  <2>1. 0 \in 0 .. 0
    OBVIOUS
  <2> QED BY <1>5, <1>6, <2>1 DEF TailInv, l
<1> QED BY <1>1, <1>2, <1>4, <1>7 DEF GInv

LEMMA WriteGroupsHold ==
  ASSUME IInv, GInv, NEW chunk \in Chunks, Write(chunk)
  PROVE  GInv'
<1> SUFFICES ASSUME ~overflow' PROVE ~flushed' /\ TailInv(stream', Now', Len(stream'))
  BY DEF GInv
<1> PICK s : s = stream
  OBVIOUS
<1> PICK w : w = Now
  OBVIOUS
<1> DEFINE t == s \o chunk
           new == [k \in 1 .. Len(chunk) |-> Len(s) + k]
           v == Run(Consume(t), w, new)
<1>1. s \in Seq(Tokens) /\ WriterInv(s, w, Positions(Len(s)))
  BY DEF IInv
<1>2. /\ stream' = t /\ Become(Spill(v)) /\ ~flushed' /\ ~flushed
      /\ overflow' = (overflow \/ Len(v.acc) + Len(v.carry) > MaxHold)
  BY Zenon DEF Write
<1>3. TailInv(s, w, Len(s))
  BY <1>2 DEF GInv
<1>4. TailInv(t, v, Len(t))
  BY <1>1, <1>3, ChunkIsSeq, WriteGroups
<1>5. Spill(v) = v
  <2> HIDE DEF v
  <2>1. ~(Len(v.acc) + Len(v.carry) > MaxHold)
    BY <1>2
  <2> QED BY <2>1, Zenon DEF Spill
<1>6. WriterInv(t, Spill(v), Positions(Len(t)))
  BY <1>1, ChunkIsSeq, WriteKeeps
<1> HIDE DEF t, v
<1>7. v = Writer(v.carry, v.acc, Log(v.log.pending, v.log.blob))
  <2>1. v \in Writers(t)
    BY <1>5, <1>6 DEF WriterInv
  <2>2. v = Writer(v.carry, v.acc, v.log) /\ v.log = Log(v.log.pending, v.log.blob)
    BY <2>1, WriterLogs
  <2> QED BY ONLY <2>2
<1>8. Now' = v
  BY <1>2, <1>5, <1>7, Zenon DEF Now, Become
<1> QED BY <1>2, <1>4, <1>8

LEMMA FlushGroupsHold ==
  ASSUME IInv, GInv, Flush
  PROVE  GInv'
<1> SUFFICES ASSUME ~overflow'
             PROVE  flushed' /\ \E g : EventsOK(stream', blob', Len(stream'), g)
  BY DEF GInv
<1> PICK s : s = stream
  OBVIOUS
<1> PICK w : w = Now
  OBVIOUS
<1> DEFINE held == w.acc \o w.carry
           whole == IF held = <<>> THEN w.log ELSE HandleEvent(s, w.log, held)
           l == Flushed(whole)
           v == Writer(<<>>, <<>>, l)
<1>1. s \in Seq(Tokens) /\ w \in Writers(s)
  BY DEF IInv, WriterInv
<1>2. w.acc = acc /\ w.carry = carry /\ w.log = Log(pending, blob)
  BY NowFields
<1>3. stream' = s /\ Become(v) /\ ~flushed /\ flushed' /\ overflow' = overflow
  BY <1>2, Zenon DEF Flush
<1>4. TailInv(s, w, Len(s))
  BY <1>3 DEF GInv
<1>5. \E g : EventsOK(s, l.blob, Len(s), g)
  BY <1>1, <1>4, FlushGroups
<1>6. v.log = l
  BY WriterFields
<1> HIDE DEF v, l
<1>7. blob' = l.blob
  BY <1>3, <1>6, Zenon DEF Become
<1> QED BY <1>3, <1>5, <1>7

LEMMA NextGroups == IInv /\ GInv /\ [Next]_vars => GInv'
<1> SUFFICES ASSUME IInv, GInv, [Next]_vars PROVE GInv'
  OBVIOUS
<1>1. CASE \E chunk \in Chunks : Write(chunk)
  BY <1>1, WriteGroupsHold
<1>2. CASE Flush
  BY <1>2, FlushGroupsHold
<1>3. CASE UNCHANGED vars
  <2>1. /\ stream' = stream /\ flushed' = flushed /\ overflow' = overflow
        /\ blob' = blob /\ Now' = Now
    BY <1>3 DEF vars, Now
  <2> QED BY <2>1, Zenon DEF GInv
<1> QED BY <1>1, <1>2, <1>3 DEF Next

LEMMA GInvHolds == Spec => []GInv
BY InitGroups, NextGroups, IInvHolds, PTL DEF Spec

----------------------------------------------------------------------------
\* The first i values of an increasing sequence are i.
LEMMA FirstValues ==
  ASSUME NEW n \in Nat, NEW g, \A i \in 1 .. n : g[i] \in Nat,
         \A i, j \in 1 .. n : i < j => g[i] < g[j],
         NEW i \in 0 .. n
  PROVE  Cardinality({g[j] : j \in 1 .. i}) = i
<1> DEFINE V(k) == {g[j] : j \in 1 .. k}
           T == {k \in Nat : k <= n => IsFiniteSet(V(k)) /\ Cardinality(V(k)) = k}
<1>1. 0 \in T
  <2>1. V(0) = {}
    OBVIOUS
  <2> HIDE DEF V
  <2> QED BY <2>1, FS_EmptySet
<1>2. ASSUME NEW k \in Nat, k \in T PROVE k + 1 \in T
  <2> SUFFICES ASSUME k + 1 <= n
               PROVE  IsFiniteSet(V(k + 1)) /\ Cardinality(V(k + 1)) = k + 1
    OBVIOUS
  <2>1. IsFiniteSet(V(k)) /\ Cardinality(V(k)) = k
    BY <1>2
  <2>2. V(k + 1) = V(k) \cup {g[k + 1]}
    <3>1. 1 .. k + 1 = 1 .. k \cup {k + 1}
      OBVIOUS
    <3> QED BY <3>1
  <2>3. g[k + 1] \notin V(k)
    <3>1. ASSUME NEW j \in 1 .. k PROVE g[j] # g[k + 1]
      <4>1. j \in 1 .. n /\ k + 1 \in 1 .. n /\ j < k + 1
        OBVIOUS
      <4>2. g[j] < g[k + 1] /\ g[j] \in Nat /\ g[k + 1] \in Nat
        BY <4>1
      <4> QED BY <4>2
    <3> QED BY <3>1
  <2> HIDE DEF V
  <2> QED BY <2>1, <2>2, <2>3, FS_AddElement
<1> HIDE DEF T
<1>3. Nat \subseteq T
  BY <1>1, <1>2, NatsAreReached
<1>4. i \in T
  BY <1>3
<1> QED BY <1>4 DEF T

\* The log of a stream that was flushed has its groups, in order.
LEMMA GroupsAreLogged ==
  ASSUME NEW s \in Seq(Tokens), NEW L \in Seq(Events(s)), NEW g, EventsOK(s, L, Len(s), g)
  PROVE  /\ Len(L) = Cardinality(GroupStarts(s))
         /\ \A p \in GroupStarts(s) :
              LET e == L[Cardinality({q \in GroupStarts(s) : q <= p})] IN
              /\ e.raw = RawAt(s, p)
              /\ e.merged = Continues(s, EndOf(s, p) + 1)
<1> DEFINE n == Len(L)
           m == Len(s)
           G == GroupStarts(s)
<1>1. n \in Nat /\ m \in Nat /\ \A i \in 1 .. n : L[i] \in Events(s)
  BY ElementOfSeq, LenProperties
<1>2. /\ g \in [1 .. n -> 1 .. m]
      /\ \A i, j \in 1 .. n : i < j => g[i] < g[j]
      /\ \A p \in 1 .. m : p \in G <=> \E i \in 1 .. n : g[i] = p
      /\ \A i \in 1 .. n : L[i].raw = RawAt(s, g[i]) /\ (L[i].merged <=> FollowedIn(s, g[i], m))
  BY DEF EventsOK
<1>3. G \subseteq 1 .. m
  BY StartsAre DEF GroupStarts
<1>4. \A i \in 1 .. n : g[i] \in 1 .. m /\ g[i] \in Nat /\ g[i] \in G
  <2>1. \A i \in 1 .. n : g[i] \in 1 .. m
    BY <1>2
  <2> HIDE DEF G, m, n
  <2> QED BY <1>2, <2>1
<1> HIDE DEF n, m, G
<1>5. ASSUME NEW i \in 0 .. n PROVE Cardinality({g[j] : j \in 1 .. i}) = i
  <2>1. /\ n \in Nat
        /\ \A j \in 1 .. n : g[j] \in Nat
        /\ \A j, k \in 1 .. n : j < k => g[j] < g[k]
    BY <1>1, <1>2, <1>4
  <2> QED BY ONLY <2>1, i \in 0 .. n, FirstValues, Zenon
<1>6. G = {g[j] : j \in 1 .. n}
  BY <1>2, <1>3, <1>4
<1>7. n = Cardinality(G)
  <2>1. n \in 0 .. n
    BY <1>1
  <2> QED BY <1>5, <1>6, <2>1
<1>8. ASSUME NEW p \in G
      PROVE  LET e == L[Cardinality({q \in G : q <= p})] IN
             e.raw = RawAt(s, p) /\ e.merged = Continues(s, EndOf(s, p) + 1)
  <2>1. PICK i \in 1 .. n : g[i] = p
    BY <1>6
  <2>2. {q \in G : q <= p} = {g[j] : j \in 1 .. i}
    <3>1. ASSUME NEW j \in 1 .. n PROVE g[j] <= p <=> j <= i
      <4>1. j < i \/ j = i \/ i < j
        BY <1>1
      <4>2. g[j] \in Nat /\ g[i] \in Nat
        BY <1>4
      <4>3. j < i => g[j] < g[i]
        BY <1>2
      <4>4. i < j => g[i] < g[j]
        BY <1>2
      <4> QED BY <1>1, <2>1, <4>1, <4>2, <4>3, <4>4
    <3>2. \A j \in 1 .. i : j \in 1 .. n /\ j <= i
      BY <1>1
    <3>3. \A j \in 1 .. n : j <= i => j \in 1 .. i
      BY <1>1
    <3> QED BY <1>6, <3>1, <3>2, <3>3
  <2>3. Cardinality({q \in G : q <= p}) = i
    <3>1. i \in 0 .. n
      BY <1>1
    <3> QED BY <1>5, <2>2, <3>1
  <2>4. L[i].raw = RawAt(s, p) /\ (L[i].merged <=> FollowedIn(s, p, m))
    BY <1>2, <2>1
  <2>5. FollowedIn(s, p, m) <=> Continues(s, EndOf(s, p) + 1)
    <3>1. Continues(s, EndOf(s, p) + 1) => EndOf(s, p) + 1 <= m
      <4> DEFINE x == EndOf(s, p) + 1
      <4>1. Continues(s, x) => x \in Starts(s)
        BY DEF Continues
      <4>2. x \in Starts(s) => x \in 1 .. m
        BY StartsAre DEF m
      <4> HIDE DEF x
      <4>3. Continues(s, x) => x <= m
        BY <1>1, <4>1, <4>2
      <4> QED BY <4>3 DEF x
    <3> QED BY <3>1 DEF FollowedIn
  <2>6. L[i].merged \in BOOLEAN
    <3>1. L[i] \in Events(s)
      BY <1>1
    <3> QED BY <3>1 DEF Events
  <2>7. Continues(s, EndOf(s, p) + 1) \in BOOLEAN
    BY DEF Continues
  <2>8. L[i].merged = Continues(s, EndOf(s, p) + 1)
    BY ONLY <2>4, <2>5, <2>6, <2>7
  <2> QED BY <2>3, <2>4, <2>8
<1> QED BY <1>7, <1>8 DEF n, G

\* However sseLogWriter gets a stream, as long as no event is longer than it
\* holds: the log has one event for each group of adjacent events of one kind
\* and for each other event, as it came unless it was merged.
THEOREM ChunksDoNotMatterHolds == Spec => []ChunksDoNotMatter
<1>1. IInv /\ GInv => ChunksDoNotMatter
  <2> SUFFICES ASSUME IInv, GInv, flushed, ~overflow PROVE ChunksDoNotMatter
    BY DEF ChunksDoNotMatter
  <2>1. PICK g : EventsOK(stream, blob, Len(stream), g)
    BY DEF GInv
  <2>2. stream \in Seq(Tokens) /\ blob \in Seq(Events(stream))
    <3>1. stream \in Seq(Tokens) /\ Now \in Writers(stream)
      BY DEF IInv, WriterInv
    <3>2. Now.log = Log(pending, blob) /\ Log(pending, blob).blob = blob
      BY NowFields, LogFields
    <3>3. Now.log.blob \in Seq(Events(stream))
      BY <3>1 DEF Writers
    <3>4. Now.log.blob = blob
      BY ONLY <3>2, Zenon
    <3> QED BY ONLY <3>1, <3>3, <3>4
  <2>3. /\ Len(blob) = Cardinality(GroupStarts(stream))
        /\ \A p \in GroupStarts(stream) :
             LET e == blob[Cardinality({q \in GroupStarts(stream) : q <= p})] IN
             /\ e.raw = RawAt(stream, p)
             /\ e.merged = Continues(stream, EndOf(stream, p) + 1)
    BY <2>1, <2>2, GroupsAreLogged
  <2> QED BY <2>3, Zenon DEF ChunksDoNotMatter
<1> QED BY <1>1, IInvHolds, GInvHolds, PTL

=============================================================================
