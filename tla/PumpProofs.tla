----------------------------- MODULE PumpProofs -----------------------------
(***************************************************************************)
(* Theorems about Pump for bodies of any length, any buffer, line limit    *)
(* and bound on comments: what is logged is what the upstream sent, what   *)
(* the client gets is that and comments between its lines, and every byte  *)
(* is scanned as part of one line, with the goroutine that fills the       *)
(* buffer or without it.                                                   *)
(***************************************************************************)
EXTENDS Pump, SeqRunProofs

Errs == {"nil", "eof", "fail"}
Ops == [n : Nat, err : Errs]

Typed ==
  /\ body \in Seq(Bytes) /\ pos \in 0 .. Len(body) /\ keepalive \in BOOLEAN
  /\ buf \in Seq(Bytes) /\ log \in Seq(Bytes)
  /\ readop \in Ops /\ op \in Ops /\ readc \in Seq(Ops)

\* Who works with the buffer: at most one of the goroutine, the channel and
\* the handler has it, as long as the handler runs.
OwnerInv ==
  /\ at \in {"read", "select", "write", "scan", "done"}
  /\ reader \in {"none", "reading", "sending"}
  /\ ret # "none" => at = "done"
  /\ at = "read" => ~keepalive /\ reader = "none" /\ readc = <<>>
  /\ at = "select" => /\ keepalive
                      /\ reader # "none" <=> readc = <<>>
  /\ at \in {"write", "scan"} => reader = "none" /\ readc = <<>>

\* The first o.n bytes of the buffer are the ones that were read last, and
\* the ones before them are logged.
Holds(o) ==
  /\ o.n <= pos
  /\ o.n <= Len(buf)
  /\ SubSeq(buf, 1, o.n) = SubSeq(body, pos - o.n + 1, pos)
  /\ log = SubSeq(body, 1, pos - o.n)
  /\ o.err = "eof" => pos = Len(body)

\* Where the bytes are that were read and are not logged yet.
BufferInv ==
  /\ at = "read" => log = SubSeq(body, 1, pos)
  /\ at = "select" =>
       /\ reader = "reading" => log = SubSeq(body, 1, pos)
       /\ reader = "sending" => Holds(readop)
       /\ readc # <<>> => Holds(Head(readc))
  /\ at = "write" => Holds(op)
  /\ at = "scan" => /\ log = SubSeq(body, 1, pos)
                    /\ op.err = "eof" => pos = Len(body)
  /\ at = "done" => /\ Len(log) <= pos
                    /\ log = SubSeq(body, 1, Len(log))
                    /\ ret = "ok" => log = body

PumpInv == Typed /\ OwnerInv /\ BufferInv

----------------------------------------------------------------------------
\* The first part of a sequence, and the rest up to a later place.
LEMMA Adjacent ==
  ASSUME NEW S, NEW s \in Seq(S), NEW k \in Nat, NEW n \in Nat,
         k <= n, n <= Len(s)
  PROVE  /\ SubSeq(s, 1, k) \o SubSeq(s, k + 1, n) = SubSeq(s, 1, n)
         /\ SubSeq(s, k + 1, n) \in Seq(S)
         /\ Len(SubSeq(s, k + 1, n)) = n - k
<1>1. Len(s) \in Nat /\ 1 \in 1 .. Len(s) + 1 /\ k \in 0 .. Len(s) /\ n \in k .. Len(s)
  BY LenProperties
<1>2. SubSeq(s, 1, k) \o SubSeq(s, k + 1, n) = SubSeq(s, 1, n)
  BY <1>1, ConcatAdjacentSubSeq
<1>3. \A j \in k + 1 .. n : s[j] \in S
  BY <1>1, ElementOfSeq
<1>4. QED  BY <1>1, <1>2, <1>3, SubSeqProperties

\* What is written over the front of a buffer is what is read from it.
LEMMA FrontOfConcat ==
  ASSUME NEW S, NEW s \in Seq(S), NEW t \in Seq(S)
  PROVE  /\ SubSeq(s \o t, 1, Len(s)) = s
         /\ Len(s) <= Len(s \o t)
<1>1. /\ Len(s) \in Nat /\ Len(t) \in Nat /\ s \o t \in Seq(S)
      /\ Len(s \o t) = Len(s) + Len(t)
      /\ \A i \in 1 .. Len(s) : (s \o t)[i] = s[i]
  BY LenProperties, ConcatProperties
<1>2. \A i \in 1 .. Len(s) : (s \o t)[i] \in S
  BY <1>1, ElementOfSeq
<1>3. /\ SubSeq(s \o t, 1, Len(s)) \in Seq(S)
      /\ Len(SubSeq(s \o t, 1, Len(s))) = Len(s)
      /\ \A i \in 1 .. Len(s) : SubSeq(s \o t, 1, Len(s))[i] = (s \o t)[i]
  BY <1>1, <1>2, SubSeqProperties
<1>4. QED  BY <1>1, <1>3, SeqEqual

\* A Read leaves the bytes it got in the front of the buffer.
LEMMA ReadHolds ==
  ASSUME Typed, NEW n \in 0 .. BufSize, NEW e \in Errs, Read(n, e),
         log = SubSeq(body, 1, pos), UNCHANGED <<body, log>>
  PROVE  Holds(Op(n, e))' /\ pos' \in 0 .. Len(body) /\ buf' \in Seq(Bytes)
<1> DEFINE got == SubSeq(body, pos + 1, pos + n)
           kept == SubSeq(buf, n + 1, Len(buf))
<1>1. /\ n \in Nat /\ pos \in Nat /\ Len(body) \in Nat /\ Len(buf) \in Nat
      /\ pos + n \in 0 .. Len(body)
  BY PumpAssumption, LenProperties DEF Typed, Read
<1>2. got \in Seq(Bytes) /\ Len(got) = n
  BY <1>1, Adjacent DEF Typed
<1>3. kept \in Seq(Bytes)
  <2>1. \A j \in n + 1 .. Len(buf) : buf[j] \in Bytes
    BY <1>1, ElementOfSeq DEF Typed
  <2>2. QED  BY <1>1, <2>1, SubSeqProperties
<1>4. /\ SubSeq(got \o kept, 1, n) = got /\ n <= Len(got \o kept)
      /\ got \o kept \in Seq(Bytes)
  <2> HIDE DEF got, kept
  <2>1. QED  BY <1>2, <1>3, FrontOfConcat, ConcatProperties
<1>5. pos' = pos + n /\ buf' = got \o kept
  BY DEF Read, Filled
<1>6. e = "eof" => pos' = Len(body)
  BY <1>5 DEF Read
<1>7. pos' - n = pos /\ pos' - n + 1 = pos + 1 /\ n <= pos'
  BY <1>1, <1>5
<1>8. /\ SubSeq(buf', 1, n) = SubSeq(body', pos' - n + 1, pos')
      /\ log' = SubSeq(body', 1, pos' - n)
      /\ n <= Len(buf')
  BY <1>4, <1>5, <1>7
<1>9. Holds(Op(n, e))'
  BY <1>6, <1>7, <1>8 DEF Holds, Op
<1>10. QED  BY <1>1, <1>4, <1>5, <1>9

\* A read that was aborted got nothing.
LEMMA AbortHolds ==
  ASSUME Typed, log = SubSeq(body, 1, pos)
  PROVE  Holds(Op(0, "fail")) /\ Op(0, "fail") \in Ops
<1>1. pos \in Nat /\ Len(buf) \in Nat
  BY LenProperties DEF Typed
<1>2. SubSeq(buf, 1, 0) = <<>> /\ SubSeq(body, pos + 1, pos) = <<>>
  BY <1>1, SubSeqEmpty
<1>3. QED  BY <1>1, <1>2 DEF Holds, Op, Ops, Errs

\* A chunk that is written continues the log.
LEMMA ChunkContinues ==
  ASSUME Typed, Holds(op)
  PROVE  /\ Chunk \in Seq(Bytes)
         /\ log \o Chunk = SubSeq(body, 1, pos)
<1>1. op.n \in Nat /\ pos \in Nat /\ Len(body) \in Nat /\ pos <= Len(body)
  BY LenProperties DEF Typed, Ops
<1>2. pos - op.n \in Nat /\ pos - op.n <= pos
  BY <1>1 DEF Holds
<1>3. /\ SubSeq(body, pos - op.n + 1, pos) \in Seq(Bytes)
      /\ SubSeq(body, 1, pos - op.n) \o SubSeq(body, pos - op.n + 1, pos)
           = SubSeq(body, 1, pos)
  BY <1>1, <1>2, Adjacent DEF Typed
<1>4. QED  BY <1>3 DEF Holds, Chunk

\* The front of a sequence has the length it was cut to.
LEMMA FrontLength ==
  ASSUME NEW S, NEW s \in Seq(S), NEW k \in 0 .. Len(s)
  PROVE  Len(SubSeq(s, 1, k)) = k /\ k \in Nat
<1>1. Len(s) \in Nat /\ k \in Nat /\ k <= Len(s)
  BY LenProperties
<1>2. \A j \in 1 .. k : s[j] \in S
  BY <1>1, ElementOfSeq
<1> QED
  BY <1>1, <1>2, SubSeqProperties

\* Of two fronts of a sequence the shorter one is a prefix of the other.
LEMMA FrontIsPrefix ==
  ASSUME NEW S, NEW s \in Seq(S), NEW n \in 0 .. Len(s), NEW k \in 0 .. n
  PROVE  IsPrefix(SubSeq(s, 1, k), SubSeq(s, 1, n))
<1>1. /\ Len(s) \in Nat /\ n \in Nat /\ k \in Nat /\ k <= n /\ n <= Len(s)
      /\ k \in 0 .. Len(s)
  BY LenProperties
<1>2. Len(SubSeq(s, 1, k)) = k /\ Len(SubSeq(s, 1, n)) = n
  BY <1>1, FrontLength
<1>3. SubSeq(SubSeq(s, 1, n), 1, k) = SubSeq(s, 1, k)
  <2>1. CASE k = 0
    BY <1>1, <2>1, SubSeqEmpty
  <2>2. CASE k # 0
    <3>1. 1 \in 1 .. Len(s) /\ n \in 1 .. Len(s)
          /\ 1 \in 1 .. n - 1 + 1 /\ k \in 1 .. n - 1 + 1
          /\ 1 + 1 - 1 = 1 /\ 1 + k - 1 = k
      BY <1>1, <2>2
    <3>2. SubSeq(SubSeq(s, 1, n), 1, k) = SubSeq(s, 1 + 1 - 1, 1 + k - 1)
      BY <3>1, SubSeqOfSubSeq
    <3> QED BY <3>1, <3>2
  <2> QED BY <2>1, <2>2
<1>4. SubSeq(SubSeq(s, 1, k), 1, k) = SubSeq(s, 1, k)
  <2>1. SubSeq(s, 1, k) \in Seq(S)
    <3>1. \A j \in 1 .. k : s[j] \in S
      BY <1>1, ElementOfSeq
    <3> QED BY <1>1, <3>1, SubSeqProperties
  <2> QED BY <1>2, <2>1, SubSeqFull
<1> QED
  BY <1>1, <1>2, <1>3, <1>4 DEF IsPrefix

\* A log that is the body's first k bytes is so for its own length.
LEMMA LogLength ==
  ASSUME Typed, NEW k \in 0 .. pos, log = SubSeq(body, 1, k)
  PROVE  Len(log) = k
<1>1. pos \in Nat /\ Len(body) \in Nat /\ k \in Nat /\ k <= Len(body)
  BY LenProperties DEF Typed
<1>2. \A j \in 1 .. k : body[j] \in Bytes
  BY <1>1, ElementOfSeq DEF Typed
<1>3. QED  BY <1>1, <1>2, SubSeqProperties

\* A log that lacks the bytes at hand is shorter by them.
LEMMA HoldsLength ==
  ASSUME Typed, NEW o \in Ops, Holds(o)
  PROVE  Len(log) <= pos /\ log = SubSeq(body, 1, Len(log))
<1>1. o.n \in Nat /\ pos \in Nat /\ pos - o.n \in 0 .. pos
  BY DEF Typed, Ops, Holds
<1>2. Len(log) = pos - o.n
  BY <1>1, LogLength DEF Holds
<1>3. QED  BY <1>1, <1>2 DEF Holds

----------------------------------------------------------------------------
\* Nothing is read yet.
LEMMA InitPumpInv == Init => PumpInv
<1> SUFFICES ASSUME Init PROVE PumpInv  OBVIOUS
<1>1. body \in Seq(Bytes) /\ Len(body) \in Nat
  BY PumpAssumption, LenProperties DEF Init, Bytes
<1>2. <<>> \in Seq(Bytes) /\ <<>> \in Seq(Ops)
  BY EmptySeq
<1>3. NoOp \in Ops
  BY DEF NoOp, Op, Ops, Errs
<1>4. Typed
  BY <1>1, <1>2, <1>3 DEF Init, Typed
<1>5. log = SubSeq(body, 1, pos)
  BY <1>1, SubSeqEmpty DEF Init
<1>6. OwnerInv
  BY DEF Init, OwnerInv
<1>7. BufferInv
  BY <1>5 DEF Init, BufferInv
<1>8. QED  BY <1>4, <1>6, <1>7 DEF PumpInv

\* Every step of the handler and of its goroutine keeps the invariant.
LEMMA StepPumpInv == PumpInv /\ [Next]_vars => PumpInv'
<1> SUFFICES ASSUME Typed, OwnerInv, BufferInv, [Next]_vars PROVE PumpInv'
  BY DEF PumpInv
<1> USE DEF PumpInv
<1>t. /\ Len(body) \in Nat /\ pos \in Nat /\ pos <= Len(body) /\ Len(log) \in Nat
      /\ readc # <<>> => Head(readc) \in Ops
  BY LenProperties, HeadTailProperties DEF Typed
<1>1. ASSUME HangUp PROVE PumpInv'
  <2>1. UNCHANGED <<source, channel, at, op, sinks, ret>>
    BY <1>1 DEF HangUp
  <2>2. QED  BY <2>1 DEF Typed, OwnerInv, BufferInv, Holds, source, channel, sinks
<1>2. ASSUME ReaderReads PROVE PumpInv'
  <2>1. PICK n \in 0 .. BufSize, e \in Errs : Read(n, e) /\ readop' = Op(n, e)
    BY <1>2 DEF ReaderReads, Errs
  <2>2. /\ reader = "reading" /\ reader' = "sending"
        /\ UNCHANGED <<body, keepalive, readc, at, op, log, ret>>
    BY <1>2 DEF ReaderReads, sinks
  <2>3. readop' \in Ops
    BY <2>1, PumpAssumption DEF Op, Ops
  <2>4. at \in {"select", "done"}
    BY <2>2 DEF OwnerInv
  <2>5. OwnerInv'
    BY <2>2, <2>4 DEF OwnerInv
  <2>6. CASE at = "select"
    <3>1. log = SubSeq(body, 1, pos) /\ readc = <<>>
      BY <2>2, <2>6 DEF BufferInv, OwnerInv
    <3>2. Holds(Op(n, e))' /\ pos' \in 0 .. Len(body) /\ buf' \in Seq(Bytes)
      BY <2>1, <2>2, <3>1, ReadHolds
    <3>3. Holds(readop)'
      BY <2>1, <3>2 DEF Holds
    <3>4. Typed'
      BY <2>2, <2>3, <3>2 DEF Typed
    <3>5. BufferInv'
      BY <2>2, <2>6, <3>1, <3>3 DEF BufferInv
    <3>6. QED  BY <2>5, <3>4, <3>5
  <2>7. CASE at = "done"
    <3>1. /\ pos' = pos + n /\ pos' \in 0 .. Len(body) /\ pos <= pos'
      BY <1>t, <2>1, PumpAssumption DEF Read
    <3>2. buf' \in Seq(Bytes)
      <4>1. n \in Nat /\ Len(buf) \in Nat /\ n + pos <= Len(body)
        BY <2>1, PumpAssumption, LenProperties DEF Typed, Read
      <4>2. SubSeq(body, pos + 1, pos + n) \in Seq(Bytes)
        BY <1>t, <4>1, Adjacent DEF Typed
      <4>3. \A j \in n + 1 .. Len(buf) : buf[j] \in Bytes
        BY <4>1, ElementOfSeq DEF Typed
      <4>4. SubSeq(buf, n + 1, Len(buf)) \in Seq(Bytes)
        BY <4>1, <4>3, SubSeqProperties
      <4>5. QED  BY <2>1, <4>2, <4>4, ConcatProperties DEF Read, Filled
    <3>3. Typed'
      BY <2>2, <2>3, <3>1, <3>2 DEF Typed
    <3>4. BufferInv'
      BY <1>t, <2>2, <2>7, <3>1 DEF BufferInv
    <3>5. QED  BY <2>5, <3>3, <3>4
  <2>8. QED  BY <2>4, <2>6, <2>7
<1>3. ASSUME ReaderAborts PROVE PumpInv'
  <2>1. /\ reader = "reading" /\ reader' = "sending" /\ readop' = Op(0, "fail")
        /\ UNCHANGED <<body, keepalive, pos, buf, readc, at, op, log, ret>>
    BY <1>3 DEF ReaderAborts, source, sinks
  <2>2. readop' \in Ops
    BY <2>1 DEF Op, Ops, Errs
  <2>3. OwnerInv'
    BY <2>1 DEF OwnerInv
  <2>4. at = "select" => Holds(readop)' /\ readc = <<>>
    <3> SUFFICES ASSUME at = "select" PROVE Holds(readop)' /\ readc = <<>>
      OBVIOUS
    <3>1. log = SubSeq(body, 1, pos) /\ readc = <<>>
      BY <2>1 DEF BufferInv, OwnerInv
    <3>2. Holds(Op(0, "fail"))
      BY <3>1, AbortHolds
    <3>3. QED  BY <2>1, <3>1, <3>2 DEF Holds
  <2>5. BufferInv'
    <3>1. at \in {"select", "done"}
      BY <2>1 DEF OwnerInv
    <3>2. QED  BY <2>1, <2>4, <3>1 DEF BufferInv
  <2>6. QED  BY <2>1, <2>2, <2>3, <2>5 DEF Typed
<1>4. ASSUME ReaderSends PROVE PumpInv'
  <2>1. /\ reader = "sending" /\ reader' = "none"
        /\ readc = <<>> /\ readc' = <<readop>>
        /\ UNCHANGED <<body, keepalive, pos, buf, readop, at, op, log, ret>>
    BY <1>4 DEF ReaderSends, source, sinks
  <2>2. readc' \in Seq(Ops) /\ Head(readc') = readop
    BY <2>1 DEF Typed
  <2>3. at \in {"select", "done"} /\ OwnerInv'
    BY <2>1 DEF OwnerInv
  <2>4. at = "select" => Holds(Head(readc))'
    BY <2>1, <2>2 DEF BufferInv, Holds
  <2>5. BufferInv'
    BY <2>1, <2>3, <2>4 DEF BufferInv
  <2>6. QED  BY <2>1, <2>2, <2>3, <2>5 DEF Typed
<1>5. ASSUME SyncRead PROVE PumpInv'
  <2>1. PICK n \in 0 .. BufSize, e \in Errs : Read(n, e) /\ op' = Op(n, e)
    BY <1>5 DEF SyncRead, Errs
  <2>2. /\ at = "read" /\ at' = "write"
        /\ UNCHANGED <<body, keepalive, reader, readop, readc, log, ret>>
    BY <1>5 DEF SyncRead, channel, sinks
  <2>3. op' \in Ops
    BY <2>1, PumpAssumption DEF Op, Ops
  <2>4. log = SubSeq(body, 1, pos)
    BY <2>2 DEF BufferInv
  <2>5. Holds(Op(n, e))' /\ pos' \in 0 .. Len(body) /\ buf' \in Seq(Bytes)
    BY <2>1, <2>2, <2>4, ReadHolds
  <2>6. Holds(op)'
    BY <2>1, <2>5 DEF Holds
  <2>7. Typed'
    BY <2>2, <2>3, <2>5 DEF Typed
  <2>8. OwnerInv'
    BY <2>2 DEF OwnerInv
  <2>9. BufferInv'
    BY <2>2, <2>6 DEF BufferInv
  <2>10. QED  BY <2>7, <2>8, <2>9
<1>6. ASSUME SyncAborts PROVE PumpInv'
  <2>1. /\ at = "read" /\ at' = "write" /\ op' = Op(0, "fail")
        /\ UNCHANGED <<body, keepalive, pos, buf, reader, readop, readc, log, ret>>
    BY <1>6 DEF SyncAborts, source, channel, sinks
  <2>2. Holds(Op(0, "fail")) /\ Op(0, "fail") \in Ops
    BY <2>1, AbortHolds DEF BufferInv
  <2>3. Holds(op)'
    BY <2>1, <2>2 DEF Holds
  <2>4. OwnerInv'
    BY <2>1 DEF OwnerInv
  <2>5. BufferInv'
    BY <2>1, <2>3 DEF BufferInv
  <2>6. QED  BY <2>1, <2>2, <2>4, <2>5 DEF Typed
<1>7. ASSUME Tick PROVE PumpInv'
  <2>1. UNCHANGED <<source, channel, at, op, sinks, ret>>
    BY <1>7 DEF Tick
  <2>2. QED  BY <2>1 DEF Typed, OwnerInv, BufferInv, Holds, source, channel, sinks
<1>8. ASSUME Receive PROVE PumpInv'
  <2>1. /\ at = "select" /\ at' = "write"
        /\ readc # <<>> /\ op' = Head(readc) /\ readc' = <<>>
        /\ UNCHANGED <<body, keepalive, pos, buf, reader, readop, log, ret>>
    BY <1>8 DEF Receive, source, sinks
  <2>2. op' \in Ops /\ readc' \in Seq(Ops)
    BY <1>t, <2>1, EmptySeq
  <2>3. Holds(op)'
    BY <2>1 DEF BufferInv, Holds
  <2>4. OwnerInv'
    BY <2>1 DEF OwnerInv
  <2>5. BufferInv'
    BY <2>1, <2>3 DEF BufferInv
  <2>6. QED  BY <2>1, <2>2, <2>4, <2>5 DEF Typed
<1>9. ASSUME Ping PROVE PumpInv'
  <2>1. /\ at = "select"
        /\ UNCHANGED <<body, keepalive, pos, buf, reader, readop, readc, op, log>>
        /\ \/ at' = at /\ ret' = ret
           \/ at' = "done" /\ ret' = "write"
    <3>1. CASE UNCHANGED <<at, ret>>
      BY <1>9, <3>1 DEF Ping, source, channel
    <3>2. CASE at' = "done" /\ ret' = "write"
      BY <1>9, <3>2 DEF Ping, source, channel
    <3>3. QED  BY <1>9, <3>1, <3>2 DEF Ping
  <2>2. Typed'
    BY <2>1 DEF Typed
  <2>3. OwnerInv'
    BY <2>1 DEF OwnerInv
  <2>4. Len(log) <= pos /\ log = SubSeq(body, 1, Len(log))
    <3>1. CASE reader = "reading"
      <4>1. log = SubSeq(body, 1, pos)
        BY <2>1, <3>1 DEF BufferInv
      <4>2. Len(log) = pos
        BY <1>t, <4>1, LogLength
      <4>3. QED  BY <1>t, <4>1, <4>2
    <3>2. CASE reader = "sending"
      BY <1>t, <2>1, <3>2, HoldsLength DEF BufferInv, Typed
    <3>3. CASE reader = "none" /\ readc # <<>>
      BY <1>t, <2>1, <3>3, HoldsLength DEF BufferInv
    <3>4. QED  BY <2>1, <3>1, <3>2, <3>3 DEF OwnerInv
  <2>5. BufferInv'
    BY <2>1, <2>4 DEF BufferInv, Holds, OwnerInv
  <2>6. QED  BY <2>2, <2>3, <2>5
<1>10. ASSUME Deliver PROVE PumpInv'
  <2>1. /\ at = "write" /\ at' = "scan" /\ log' = log \o Chunk
        /\ UNCHANGED <<body, keepalive, pos, buf, reader, readop, readc, op, ret>>
    BY <1>10 DEF Deliver, source, channel
  <2>2. Chunk \in Seq(Bytes) /\ log' = SubSeq(body, 1, pos)
    BY <2>1, ChunkContinues DEF BufferInv
  <2>3. Typed'
    BY <2>1, <2>2, ConcatProperties DEF Typed
  <2>4. OwnerInv'
    BY <2>1 DEF OwnerInv
  <2>5. op.err = "eof" => pos = Len(body)
    BY <2>1 DEF BufferInv, Holds
  <2>6. BufferInv'
    BY <2>1, <2>2, <2>5 DEF BufferInv
  <2>7. QED  BY <2>3, <2>4, <2>6
<1>11. ASSUME DeliverFails PROVE PumpInv'
  <2>1. /\ at = "write" /\ at' = "done" /\ ret' = "write"
        /\ UNCHANGED <<body, keepalive, pos, buf, reader, readop, readc, op, log>>
    BY <1>11 DEF DeliverFails, source, channel
  <2>2. Len(log) <= pos /\ log = SubSeq(body, 1, Len(log))
    BY <2>1, HoldsLength DEF BufferInv, Typed
  <2>3. OwnerInv' /\ Typed'
    BY <2>1 DEF OwnerInv, Typed
  <2>4. BufferInv'
    BY <2>1, <2>2 DEF BufferInv
  <2>5. QED  BY <2>3, <2>4
<1>12. ASSUME Scan PROVE PumpInv'
  <2>1. /\ at = "scan" /\ at' = IF keepalive THEN "select" ELSE "read"
        /\ reader' = IF keepalive THEN "reading" ELSE reader
        /\ UNCHANGED <<body, keepalive, pos, buf, readop, readc, op, log, ret>>
    BY <1>12 DEF Scan, source
  <2>2. log = SubSeq(body, 1, pos) /\ reader = "none" /\ readc = <<>>
    BY <2>1 DEF BufferInv, OwnerInv
  <2>3. Typed'
    BY <2>1 DEF Typed
  <2>4. OwnerInv'
    BY <2>1, <2>2 DEF OwnerInv, Typed
  <2>5. BufferInv'
    BY <2>1, <2>2 DEF BufferInv
  <2>6. QED  BY <2>3, <2>4, <2>5
<1>13. ASSUME Finish PROVE PumpInv'
  <2>1. /\ at = "scan" /\ at' = "done"
        /\ ret' = IF op.err = "eof" THEN "ok" ELSE "read"
        /\ UNCHANGED <<body, keepalive, pos, buf, reader, readop, readc, op, log>>
    BY <1>13 DEF Finish, source, channel
  <2>2. /\ log = SubSeq(body, 1, pos)
        /\ op.err = "eof" => pos = Len(body)
    BY <2>1 DEF BufferInv
  <2>3. Len(log) = pos
    BY <1>t, <2>2, LogLength
  <2>4. op.err = "eof" => log = body
    BY <2>2, SubSeqFull DEF Typed
  <2>5. OwnerInv' /\ Typed'
    BY <2>1 DEF OwnerInv, Typed
  <2>6. BufferInv'
    BY <1>t, <2>1, <2>2, <2>3, <2>4 DEF BufferInv
  <2>7. QED  BY <2>5, <2>6
<1>14. CASE UNCHANGED vars
  BY <1>14 DEF vars, source, channel, timer, sinks, Typed, OwnerInv, BufferInv, Holds
<1>15. QED
  BY <1>1, <1>2, <1>3, <1>4, <1>5, <1>6, <1>7, <1>8, <1>9, <1>10, <1>11,
     <1>12, <1>13, <1>14 DEF Next, Handler, Abort, Upstream

----------------------------------------------------------------------------
\* Whatever the goroutine and the handler do in turns with the one buffer,
\* the bytes that were read are in it or in the log (pumpStream, usage.go).
THEOREM BufferIsOwned == Spec => []PumpInv
<1>1. QED  BY InitPumpInv, StepPumpInv, PTL DEF Spec

\* The log is always a front of the body.
LEMMA InvLogBounds == PumpInv => Len(log) <= pos /\ log = SubSeq(body, 1, Len(log))
<1> SUFFICES ASSUME Typed, OwnerInv, BufferInv
             PROVE  Len(log) <= pos /\ log = SubSeq(body, 1, Len(log))
  BY DEF PumpInv
<1>1. /\ pos \in Nat /\ Len(body) \in Nat /\ pos <= Len(body)
      /\ readc # <<>> => Head(readc) \in Ops
  BY LenProperties, HeadTailProperties DEF Typed
<1>2. CASE log = SubSeq(body, 1, pos)
  <2>1. Len(log) = pos
    BY <1>1, <1>2, LogLength
  <2>2. QED  BY <1>1, <1>2, <2>1
<1>3. ASSUME NEW o \in Ops, Holds(o)
      PROVE  Len(log) <= pos /\ log = SubSeq(body, 1, Len(log))
  BY <1>3, HoldsLength
<1>4. CASE at = "select"
  <2>1. reader = "sending" \/ reader = "reading" \/ readc # <<>>
    BY <1>4 DEF OwnerInv
  <2>2. QED  BY <1>1, <1>2, <1>3, <1>4, <2>1 DEF BufferInv, Typed
<1>5. CASE at = "write"
  BY <1>3, <1>5 DEF BufferInv, Typed
<1>6. CASE at \in {"read", "scan"}
  BY <1>2, <1>6 DEF BufferInv
<1>7. CASE at = "done"
  BY <1>7 DEF BufferInv
<1>8. QED  BY <1>4, <1>5, <1>6, <1>7 DEF OwnerInv

\* It implies that the log is the body as far as it was handled.
LEMMA InvLogRaw == PumpInv => LogRaw
<1> SUFFICES ASSUME PumpInv PROVE LogRaw
  OBVIOUS
<1>1. IsPrefix(log, SubSeq(body, 1, pos))
  <2> DEFINE n == Len(log)
  <2>1. n \in 0 .. pos /\ pos \in 0 .. Len(body) /\ log = SubSeq(body, 1, n)
    BY InvLogBounds, LenProperties DEF PumpInv, Typed
  <2> HIDE DEF n
  <2> QED BY <2>1, FrontIsPrefix DEF PumpInv, Typed
<1>2. ret = "ok" => log = body
  BY DEF PumpInv, OwnerInv, BufferInv
<1>3. QED  BY <1>1, <1>2 DEF LogRaw

\* The log has the upstream's bytes in order without a gap, and all of them
\* when pumpStream returned nil: a reader that filled the buffer again before
\* it was consumed, or a chunk that was dropped, would break it.
THEOREM LogIsRaw == Spec => []LogRaw
<1>1. QED  BY BufferIsOwned, InvLogRaw, PTL

----------------------------------------------------------------------------
\* The loops of the model, element by element: what SeqRunProofs proves of
\* Run, for their steps.
Items == Bytes \cup {"comment"}
Line(text, why) == [text |-> text, why |-> why]
NoBytes == <<>>
NoSplit == [done |-> <<>>, rest |-> <<>>]

\* An item more of a client's stream: a comment is dropped, a byte is kept.
LEMMA RawSteps ==
  /\ Raw(<<>>) = <<>>
  /\ \A s \in Seq(Items) :
       /\ Raw(s) \in Seq(Bytes)
       /\ Raw(Append(s, "comment")) = Raw(s)
       /\ \A b \in Bytes : Raw(Append(s, b)) = Append(Raw(s), b)
<1>1. Keep \in Steps(Seq(Bytes), Items)
  BY DEF Keep, Steps, Items
<1>2. NoBytes \in Seq(Bytes)
  BY EmptySeq DEF NoBytes
<1>3. Raw(<<>>) = <<>>
  BY <1>1, <1>2, RunEmpty DEF Raw, NoBytes
<1>4. ASSUME NEW s \in Seq(Items)
      PROVE  /\ Raw(s) \in Seq(Bytes)
             /\ \A b \in Items : Raw(Append(s, b)) = Keep[<<Raw(s), b>>]
  <2>0. \A t : Raw(t) = Run(Keep, NoBytes, t)
    BY DEF Raw, NoBytes
  <2>1. Raw(s) \in Seq(Bytes)
    BY <1>1, <1>2, <2>0, RunInDomain
  <2>2. ASSUME NEW b \in Items PROVE Raw(Append(s, b)) = Keep[<<Raw(s), b>>]
    BY <1>1, <1>2, <2>0, RunAppend
  <2> QED BY <2>1, <2>2
<1>5. \A r \in Seq(Bytes), b \in Items :
        Keep[<<r, b>>] = IF b = "comment" THEN r ELSE Append(r, b)
  BY DEF Keep, Items
<1>6. "comment" \in Items /\ \A b \in Bytes : b \in Items /\ b # "comment"
  BY DEF Items, Bytes
<1> QED
  BY <1>3, <1>4, <1>5, <1>6

\* Whatever is passed through without a comment is received as it is.
LEMMA RawOfChunk ==
  ASSUME NEW s \in Seq(Items), NEW t \in Seq(Bytes)
  PROVE  Raw(s \o t) = Raw(s) \o t
<1> DEFINE S == {u \in Seq(Bytes) : Raw(s \o u) = Raw(s) \o u}
<1>1. <<>> \in S
  BY EmptySeq, ConcatEmptySeq, RawSteps
<1>2. ASSUME NEW u \in Seq(Bytes), NEW b \in Bytes, u \in S
      PROVE  Append(u, b) \in S
  <2>1. /\ u \in Seq(Items) /\ <<b>> \in Seq(Items) /\ <<b>> \in Seq(Bytes)
        /\ Raw(s) \in Seq(Bytes)
    BY SeqMonotonic, RawSteps DEF Items
  <2>2. s \o u \in Seq(Items) /\ Append(u, b) \in Seq(Bytes)
    BY <2>1, ConcatProperties, AppendProperties
  <2>3. s \o Append(u, b) = Append(s \o u, b)
    BY <2>1, <2>2, AppendIsConcat, ConcatAssociative DEF Items
  <2>4. Raw(s) \o Append(u, b) = Append(Raw(s) \o u, b)
    BY <2>1, AppendIsConcat, ConcatAssociative, ConcatProperties
  <2> QED BY <1>2, <2>2, <2>3, <2>4, RawSteps
<1> HIDE DEF S
<1>3. Seq(Bytes) \subseteq S
  BY <1>1, <1>2, SeqsAreReached
<1> QED
  BY <1>3 DEF S

\* A line more.
LEMMA TextSteps ==
  /\ Text(<<>>) = <<>>
  /\ \A ls \in Seq(Lines) :
       /\ Text(ls) \in Seq(Bytes)
       /\ \A t \in Seq(Bytes) :
            /\ Text(Append(ls, Line(t, "nl"))) = Text(ls) \o Append(t, "nl")
            /\ Text(Append(ls, Line(t, "long"))) = Text(ls) \o t
            /\ Text(Append(ls, Line(t, "eof"))) = Text(ls) \o t
<1>1. \A l \in Lines : l.text \in Seq(Bytes) /\ Append(l.text, "nl") \in Seq(Bytes)
  BY AppendProperties DEF Lines, Bytes
<1>2. Glue \in Steps(Seq(Bytes), Lines)
  BY <1>1, ConcatProperties DEF Glue, Steps
<1>3. NoBytes \in Seq(Bytes)
  BY EmptySeq DEF NoBytes
<1>4. Text(<<>>) = <<>>
  BY <1>2, <1>3, RunEmpty DEF Text, NoBytes
<1>5. ASSUME NEW ls \in Seq(Lines)
      PROVE  /\ Text(ls) \in Seq(Bytes)
             /\ \A l \in Lines : Text(Append(ls, l)) = Glue[<<Text(ls), l>>]
  <2>0. \A t : Text(t) = Run(Glue, NoBytes, t)
    BY DEF Text, NoBytes
  <2>1. Text(ls) \in Seq(Bytes)
    BY <1>2, <1>3, <2>0, RunInDomain
  <2>2. ASSUME NEW l \in Lines PROVE Text(Append(ls, l)) = Glue[<<Text(ls), l>>]
    BY <1>2, <1>3, <2>0, RunAppend
  <2> QED BY <2>1, <2>2
<1>6. \A r \in Seq(Bytes), l \in Lines :
        Glue[<<r, l>>] = r \o (IF l.why = "nl" THEN Append(l.text, "nl") ELSE l.text)
  BY DEF Glue
<1>7. \A t \in Seq(Bytes), w \in {"nl", "long", "eof"} :
        Line(t, w) \in Lines /\ Line(t, w).text = t /\ Line(t, w).why = w
  BY DEF Line, Lines
<1>8. ASSUME NEW ls \in Seq(Lines), NEW t \in Seq(Bytes), NEW w \in {"nl", "long", "eof"}
      PROVE  Text(Append(ls, Line(t, w))) = Text(ls) \o (IF w = "nl" THEN Append(t, "nl") ELSE t)
  <2> DEFINE l == Line(t, w)
  <2>1. l \in Lines /\ l.text = t /\ l.why = w
    BY <1>7
  <2> HIDE DEF l
  <2>2. Text(Append(ls, l)) = Glue[<<Text(ls), l>>] /\ Text(ls) \in Seq(Bytes)
    BY <1>5, <2>1
  <2>3. Glue[<<Text(ls), l>>] = Text(ls) \o (IF l.why = "nl" THEN Append(l.text, "nl") ELSE l.text)
    BY <1>6, <2>1, <2>2
  <2> QED BY <2>1, <2>2, <2>3 DEF l
<1> QED
  BY <1>4, <1>5, <1>8

\* A byte more of the carry.
LEMMA SplitSteps ==
  /\ SplitLines(<<>>) = NoSplit
  /\ \A s \in Seq(Bytes) :
       /\ SplitLines(s) \in Splits
       /\ SplitLines(Append(s, "nl")).done = Append(SplitLines(s).done, SplitLines(s).rest)
       /\ SplitLines(Append(s, "nl")).rest = <<>>
       /\ SplitLines(Append(s, "x")).done = SplitLines(s).done
       /\ SplitLines(Append(s, "x")).rest = Append(SplitLines(s).rest, "x")
<1>1. ASSUME NEW p \in Splits, NEW b \in Bytes
      PROVE  /\ [done |-> Append(p.done, p.rest), rest |-> <<>>] \in Splits
             /\ [done |-> p.done, rest |-> Append(p.rest, b)] \in Splits
  <2>1. p.done \in Seq(Seq(Bytes)) /\ p.rest \in Seq(Bytes)
    BY DEF Splits
  <2>2. /\ Append(p.done, p.rest) \in Seq(Seq(Bytes)) /\ <<>> \in Seq(Bytes)
        /\ Append(p.rest, b) \in Seq(Bytes)
    BY <2>1, AppendProperties, EmptySeq
  <2> QED BY <2>1, <2>2 DEF Splits
<1>2. Step \in Steps(Splits, Bytes)
  BY <1>1 DEF Step, Steps
<1>3. NoSplit \in Splits
  BY EmptySeq DEF NoSplit, Splits
<1>4. SplitLines(<<>>) = NoSplit
  BY <1>2, <1>3, RunEmpty DEF SplitLines, NoSplit
<1>5. ASSUME NEW s \in Seq(Bytes)
      PROVE  /\ SplitLines(s) \in Splits
             /\ \A b \in Bytes : SplitLines(Append(s, b)) = Step[<<SplitLines(s), b>>]
  <2>1. SplitLines(s) \in Splits
    BY <1>2, <1>3, RunInDomain DEF SplitLines, NoSplit
  <2>2. ASSUME NEW b \in Bytes PROVE SplitLines(Append(s, b)) = Step[<<SplitLines(s), b>>]
    BY <1>2, <1>3, RunAppend DEF SplitLines, NoSplit
  <2> QED BY <2>1, <2>2
<1>6. \A p \in Splits :
        /\ Step[<<p, "nl">>] = [done |-> Append(p.done, p.rest), rest |-> <<>>]
        /\ Step[<<p, "x">>] = [done |-> p.done, rest |-> Append(p.rest, "x")]
  BY DEF Step, Bytes
<1>7. "nl" \in Bytes /\ "x" \in Bytes
  BY DEF Bytes
<1>8. ASSUME NEW s \in Seq(Bytes)
      PROVE  /\ SplitLines(Append(s, "nl")).done = Append(SplitLines(s).done, SplitLines(s).rest)
             /\ SplitLines(Append(s, "nl")).rest = <<>>
             /\ SplitLines(Append(s, "x")).done = SplitLines(s).done
             /\ SplitLines(Append(s, "x")).rest = Append(SplitLines(s).rest, "x")
  <2> DEFINE p == SplitLines(s)
  <2>1. /\ SplitLines(Append(s, "nl")) = Step[<<p, "nl">>]
        /\ SplitLines(Append(s, "x")) = Step[<<p, "x">>]
        /\ p \in Splits
    BY <1>5, <1>7
  <2> HIDE DEF p
  <2>2. /\ SplitLines(Append(s, "nl")) = [done |-> Append(p.done, p.rest), rest |-> <<>>]
        /\ SplitLines(Append(s, "x")) = [done |-> p.done, rest |-> Append(p.rest, "x")]
    BY <1>6, <2>1
  <2> QED BY <2>2 DEF p
<1> QED
  BY <1>4, <1>5, <1>8

----------------------------------------------------------------------------
StreamTyped ==
  /\ out \in Seq(Items) /\ carry \in Seq(Bytes) /\ lines \in Seq(Lines)
  /\ at = "scan" => Chunk \in Seq(Bytes)

\* The client has what is logged, unless a write to it failed: then it may
\* have a part of the chunk more.
ClientInv ==
  /\ ret # "write" => Raw(out) = log
  /\ Len(log) <= Len(Raw(out)) /\ Len(Raw(out)) <= pos
  /\ Raw(out) = SubSeq(body, 1, Len(Raw(out)))

\* Between two chunks no line is the last one; a line is cut when it is too
\* long only.
Whole(ls) ==
  \A k \in 1 .. Len(ls) :
    /\ ls[k].why = "long" => Len(ls[k].text) > MaxScan
    /\ ls[k].why # "eof"

Ended(ls) ==
  \A k \in 1 .. Len(ls) :
    /\ ls[k].why = "long" => Len(ls[k].text) > MaxScan
    /\ ls[k].why = "eof" => k = Len(ls) /\ ls[k].text # <<>>

\* Every logged byte was scanned, is carried or is in the chunk at hand.
LinesInv ==
  /\ at # "scan" => Text(lines) \o Unscanned = log
  /\ at = "scan" => Text(lines) \o (carry \o Chunk) = log
  /\ at # "done" => Whole(lines)
  /\ at = "done" => Ended(lines)

StreamInv == StreamTyped /\ ClientInv /\ LinesInv

----------------------------------------------------------------------------
\* The lines of a scan: each text, with the reason it was complete.
LEMMA ScannedSteps ==
  ASSUME NEW w \in {"nl", "long", "eof"}
  PROVE  /\ Scanned(<<>>, w) = <<>>
         /\ \A d \in Seq(Seq(Bytes)), t \in Seq(Bytes) :
              /\ Scanned(d, w) \in Seq(Lines)
              /\ Len(Scanned(d, w)) = Len(d)
              /\ \A k \in 1 .. Len(d) : Scanned(d, w)[k] = Line(d[k], w)
              /\ Scanned(Append(d, t), w) = Append(Scanned(d, w), Line(t, w))
<1>1. ASSUME NEW d \in Seq(Seq(Bytes))
      PROVE  /\ Scanned(d, w) \in Seq(Lines)
             /\ Len(Scanned(d, w)) = Len(d)
             /\ \A k \in 1 .. Len(d) : Scanned(d, w)[k] = Line(d[k], w)
  <2>1. DOMAIN d = 1 .. Len(d) /\ Len(d) \in Nat
    BY LenProperties
  <2>2. Scanned(d, w) = [k \in 1 .. Len(d) |-> Line(d[k], w)]
    BY <2>1 DEF Scanned, Line
  <2>3. \A k \in 1 .. Len(d) : Line(d[k], w) \in Lines
    BY ElementOfSeq DEF Line, Lines
  <2> DEFINE sc == Scanned(d, w)
  <2>4. sc = [k \in 1 .. Len(d) |-> Line(d[k], w)]
    BY <2>2
  <2> HIDE DEF sc
  <2>5. sc \in [1 .. Len(d) -> Lines] /\ \A k \in 1 .. Len(d) : sc[k] = Line(d[k], w)
    BY <2>3, <2>4
  <2>6. sc \in Seq(Lines) /\ Len(sc) = Len(d)
    BY <2>1, <2>5
  <2> QED BY <2>5, <2>6 DEF sc
<1>2. Scanned(<<>>, w) = <<>>
  <2>1. <<>> \in Seq(Seq(Bytes))
    BY EmptySeq
  <2> QED BY <1>1, <2>1, EmptySeq
<1>3. ASSUME NEW d \in Seq(Seq(Bytes)), NEW t \in Seq(Bytes)
      PROVE  Scanned(Append(d, t), w) = Append(Scanned(d, w), Line(t, w))
  <2> DEFINE more == Append(d, t)
             u == Scanned(more, w)
             v == Append(Scanned(d, w), Line(t, w))
  <2>1. /\ more \in Seq(Seq(Bytes)) /\ Len(more) = Len(d) + 1 /\ Len(d) \in Nat
        /\ \A k \in 1 .. Len(d) : more[k] = d[k]
        /\ more[Len(d) + 1] = t
    BY AppendProperties, LenProperties
  <2>2. Line(t, w) \in Lines
    BY DEF Line, Lines
  <2>3. /\ v \in Seq(Lines) /\ Len(v) = Len(d) + 1
        /\ \A k \in 1 .. Len(d) : v[k] = Line(d[k], w)
        /\ v[Len(d) + 1] = Line(t, w)
    BY <1>1, <2>2, AppendProperties
  <2> HIDE DEF more
  <2>4. /\ u \in Seq(Lines) /\ Len(u) = Len(d) + 1
        /\ \A k \in 1 .. Len(d) + 1 : u[k] = Line(more[k], w)
    BY <1>1, <2>1
  <2> HIDE DEF u, v
  <2>5. \A k \in 1 .. Len(d) + 1 : u[k] = v[k]
    <3> SUFFICES ASSUME NEW k \in 1 .. Len(d) + 1 PROVE u[k] = v[k]
      OBVIOUS
    <3>1. k \in 1 .. Len(d) \/ k = Len(d) + 1
      BY <2>1
    <3> QED BY <2>1, <2>3, <2>4, <3>1
  <2> QED BY <2>3, <2>4, <2>5, SeqEqual DEF u, v, more
<1> QED
  BY <1>1, <1>2, <1>3

\* Splitting at the newlines loses no byte and changes no order.
LEMMA TextOfSplit ==
  ASSUME NEW ls \in Seq(Lines), NEW s \in Seq(Bytes)
  PROVE  Text(ls \o Scanned(SplitLines(s).done, "nl")) \o SplitLines(s).rest
           = Text(ls) \o s
<1> DEFINE so(u) == ls \o Scanned(SplitLines(u).done, "nl")
           S == {u \in Seq(Bytes) : Text(so(u)) \o SplitLines(u).rest = Text(ls) \o u}
<1>1. <<>> \in S
  <2>1. SplitLines(<<>>).done = <<>> /\ SplitLines(<<>>).rest = <<>>
    BY SplitSteps DEF NoSplit
  <2>2. so(<<>>) = ls
    BY <2>1, ScannedSteps, ConcatEmptySeq
  <2> QED BY <2>1, <2>2, EmptySeq
<1>2. ASSUME NEW u \in Seq(Bytes), NEW b \in Bytes, u \in S
      PROVE  Append(u, b) \in S
  <2> DEFINE d == SplitLines(u).done
             r == SplitLines(u).rest
  <2>1. d \in Seq(Seq(Bytes)) /\ r \in Seq(Bytes)
    BY SplitSteps DEF Splits
  <2>2. /\ Scanned(d, "nl") \in Seq(Lines) /\ so(u) \in Seq(Lines)
        /\ Text(ls) \in Seq(Bytes) /\ Text(so(u)) \in Seq(Bytes)
    <3>1. Scanned(d, "nl") \in Seq(Lines)
      BY <2>1, ScannedSteps
    <3>2. so(u) \in Seq(Lines)
      BY <3>1, ConcatProperties
    <3> QED BY <3>1, <3>2, TextSteps
  <2> DEFINE front == Text(so(u))
             all == Text(ls)
  <2>3. front \o r = all \o u
    BY <1>2
  <2>4. front \in Seq(Bytes) /\ all \in Seq(Bytes) /\ Append(u, b) \in Seq(Bytes)
    BY <2>2, AppendProperties
  <2>5. SUFFICES Text(so(Append(u, b))) \o SplitLines(Append(u, b)).rest = front \o Append(r, b)
    <3> HIDE DEF front, all, r, so
    <3>1. all \o Append(u, b) = front \o Append(r, b)
      <4>1. r \in Seq(Bytes)
        BY <2>1 DEF r
      <4>2. all \o Append(u, b) = Append(all \o u, b)
        BY <2>4, ConcatAppend
      <4>3. front \o Append(r, b) = Append(front \o r, b)
        BY <2>4, <4>1, ConcatAppend
      <4> QED BY <2>3, <4>2, <4>3
    <3> QED BY <2>4, <3>1 DEF all
  <2>6. CASE b = "nl"
    <3>1. /\ SplitLines(Append(u, b)).done = Append(d, r)
          /\ SplitLines(Append(u, b)).rest = <<>>
      BY <2>6, SplitSteps
    <3>2. Line(r, "nl") \in Lines
      BY <2>1 DEF Line, Lines
    <3>3. Scanned(Append(d, r), "nl") = Append(Scanned(d, "nl"), Line(r, "nl"))
      BY <2>1, ScannedSteps
    <3>4. ls \o Append(Scanned(d, "nl"), Line(r, "nl")) = Append(so(u), Line(r, "nl"))
      BY <2>2, <3>2, ConcatAppend
    <3>5. so(Append(u, b)) = Append(so(u), Line(r, "nl"))
      BY <3>1, <3>3, <3>4
    <3>6. Text(Append(so(u), Line(r, "nl"))) = front \o Append(r, "nl")
      BY <2>1, <2>2, TextSteps
    <3>7. front \o Append(r, "nl") \in Seq(Bytes)
      BY <2>1, <2>4, <2>6, AppendProperties, ConcatProperties
    <3> HIDE DEF front, d, r, so
    <3> QED BY <2>6, <3>1, <3>5, <3>6, <3>7, ConcatEmptySeq
  <2>7. CASE b = "x"
    <3>1. /\ SplitLines(Append(u, b)).done = d
          /\ SplitLines(Append(u, b)).rest = Append(r, b)
      BY <2>7, SplitSteps
    <3> QED BY <3>1
  <2> QED BY <2>6, <2>7 DEF Bytes
<1> HIDE DEF S
<1>3. Seq(Bytes) \subseteq S
  BY <1>1, <1>2, SeqsAreReached
<1> QED
  BY <1>3 DEF S

\* Lines that ended at a newline, an over-long one, the unterminated last one.
LEMMA WholeAfterSplit ==
  ASSUME NEW ls \in Seq(Lines), Whole(ls), NEW d \in Seq(Seq(Bytes))
  PROVE  Whole(ls \o Scanned(d, "nl"))
<1> DEFINE m == Scanned(d, "nl")
           all == ls \o m
<1>1. /\ m \in Seq(Lines) /\ Len(m) = Len(d)
      /\ \A k \in 1 .. Len(d) : m[k] = Line(d[k], "nl")
  BY ScannedSteps
<1> HIDE DEF m
<1>2. \A k \in 1 .. Len(m) : m[k].why = "nl"
  <2>1. \A t : Line(t, "nl").why = "nl"
    BY DEF Line
  <2> QED BY <1>1, <2>1
<1>3. /\ Len(ls) \in Nat /\ Len(m) \in Nat
      /\ Len(all) = Len(ls) + Len(m)
      /\ \A k \in 1 .. Len(all) : all[k] = IF k <= Len(ls) THEN ls[k] ELSE m[k - Len(ls)]
  <2>1. /\ Len(all) = Len(ls) + Len(m)
        /\ \A k \in 1 .. Len(ls) + Len(m) :
             all[k] = IF k <= Len(ls) THEN ls[k] ELSE m[k - Len(ls)]
    BY <1>1, ConcatProperties
  <2> HIDE DEF all
  <2>2. Len(ls) \in Nat /\ Len(m) \in Nat
    BY <1>1, LenProperties
  <2> QED BY <2>1, <2>2
<1> HIDE DEF all
<1> SUFFICES ASSUME NEW k \in 1 .. Len(all)
             PROVE  /\ all[k].why = "long" => Len(all[k].text) > MaxScan
                    /\ all[k].why # "eof"
  BY DEF Whole, all, m
<1>4. CASE k <= Len(ls)
  <2>1. k \in 1 .. Len(ls) /\ all[k] = ls[k]
    BY <1>3, <1>4
  <2> QED BY <2>1 DEF Whole
<1>5. CASE ~(k <= Len(ls))
  <2>1. k - Len(ls) \in 1 .. Len(m) /\ all[k] = m[k - Len(ls)]
    BY <1>3, <1>5
  <2>2. all[k].why = "nl"
    BY <1>2, <2>1
  <2> QED BY <2>2
<1> QED
  BY <1>4, <1>5

\* A line too long for the scanner is cut off: the lines stay whole.
LEMMA WholeAfterLong ==
  ASSUME NEW ls \in Seq(Lines), Whole(ls), NEW t \in Seq(Bytes), Len(t) > MaxScan
  PROVE  Whole(Append(ls, Line(t, "long")))
<1> DEFINE l == Line(t, "long")
           all == Append(ls, l)
<1>1. l \in Lines /\ l.text = t /\ l.why = "long"
  BY DEF Line, Lines
<1> HIDE DEF l
<1>2. /\ Len(ls) \in Nat /\ Len(all) = Len(ls) + 1
      /\ \A k \in 1 .. Len(ls) : all[k] = ls[k]
      /\ all[Len(ls) + 1] = l
  BY <1>1, LenProperties, AppendProperties
<1> HIDE DEF all
<1> SUFFICES ASSUME NEW k \in 1 .. Len(all)
             PROVE  /\ all[k].why = "long" => Len(all[k].text) > MaxScan
                    /\ all[k].why # "eof"
  BY DEF Whole, all, l
<1>3. k \in 1 .. Len(ls) \/ k = Len(ls) + 1
  BY <1>2
<1> QED
  BY <1>1, <1>2, <1>3 DEF Whole

\* The rest at the end of the body is the last line.
LEMMA EndedAfterLast ==
  ASSUME NEW ls \in Seq(Lines), Whole(ls), NEW t \in Seq(Bytes), t # <<>>
  PROVE  Ended(Append(ls, Line(t, "eof")))
<1> DEFINE l == Line(t, "eof")
           all == Append(ls, l)
<1>1. l \in Lines /\ l.text = t /\ l.why = "eof"
  BY DEF Line, Lines
<1> HIDE DEF l
<1>2. /\ Len(ls) \in Nat /\ Len(all) = Len(ls) + 1
      /\ \A k \in 1 .. Len(ls) : all[k] = ls[k]
      /\ all[Len(ls) + 1] = l
  BY <1>1, LenProperties, AppendProperties
<1> HIDE DEF all
<1> SUFFICES ASSUME NEW k \in 1 .. Len(all)
             PROVE  /\ all[k].why = "long" => Len(all[k].text) > MaxScan
                    /\ all[k].why = "eof" => k = Len(all) /\ all[k].text # <<>>
  BY DEF Ended, all, l
<1>3. CASE k \in 1 .. Len(ls)
  BY <1>2, <1>3 DEF Whole
<1>4. CASE k = Len(ls) + 1
  BY <1>1, <1>2, <1>4
<1> QED
  BY <1>2, <1>3, <1>4

\* What Scan and Finish do with the carry and the chunk at hand.
Rest == SplitLines(carry \o Chunk).rest
Done == lines \o Scanned(SplitLines(carry \o Chunk).done, "nl")
TooLong == Len(Rest) > MaxScan

\* What the scanner starts from when it has bytes to look at.
LEMMA Scanning ==
  ASSUME StreamTyped, LinesInv, at = "scan"
  PROVE  /\ Rest \in Seq(Bytes) /\ Done \in Seq(Lines) /\ log \in Seq(Bytes)
         /\ Text(Done) \in Seq(Bytes)
         /\ Text(Done) \o Rest = log
         /\ Whole(Done)
<1>1. /\ carry \o Chunk \in Seq(Bytes) /\ lines \in Seq(Lines)
      /\ Whole(lines) /\ Text(lines) \o (carry \o Chunk) = log
  BY ConcatProperties DEF StreamTyped, LinesInv
<1> DEFINE all == carry \o Chunk
           d == SplitLines(all).done
<1>2. d \in Seq(Seq(Bytes)) /\ SplitLines(all).rest \in Seq(Bytes)
  BY <1>1, SplitSteps DEF Splits
<1>3. Text(Done) \o Rest = log
  BY <1>1, TextOfSplit DEF Done, Rest
<1>4. Whole(Done)
  BY <1>1, <1>2, WholeAfterSplit DEF Done
<1>5. Done \in Seq(Lines)
  <2>1. Scanned(d, "nl") \in Seq(Lines)
    BY <1>2, ScannedSteps
  <2> QED BY <1>1, <2>1, ConcatProperties DEF Done
<1>6. log \in Seq(Bytes)
  <2>1. Text(lines) \in Seq(Bytes)
    BY <1>1, TextSteps
  <2> QED BY <1>1, <2>1, ConcatProperties
<1> QED
  BY <1>2, <1>3, <1>4, <1>5, <1>6, TextSteps DEF Rest

\* The call of scan with one line more: what it was given.
LEMMA OneMore ==
  ASSUME NEW ls \in Seq(Lines), NEW t \in Seq(Bytes), NEW w \in {"long", "eof"}
  PROVE  /\ ls \o Scanned(<<>>, w) = ls
         /\ ls \o Scanned(<<t>>, w) = Append(ls, Line(t, w))
         /\ Append(ls, Line(t, w)) \in Seq(Lines)
         /\ Text(Append(ls, Line(t, w))) = Text(ls) \o t
<1>1. Line(t, w) \in Lines
  BY DEF Line, Lines
<1>2. Scanned(<<t>>, w) = <<Line(t, w)>>
  BY DEF Scanned, Line
<1>3. Scanned(<<>>, w) = <<>>
  BY ScannedSteps
<1>4. ls \o Scanned(<<t>>, w) = Append(ls, Line(t, w)) /\ Append(ls, Line(t, w)) \in Seq(Lines)
  BY <1>1, <1>2, AppendIsConcat, AppendProperties
<1>5. ls \o Scanned(<<>>, w) = ls
  BY <1>3, ConcatEmptySeq
<1>6. Text(Append(ls, Line(t, w))) = Text(ls) \o t
  BY TextSteps
<1> QED
  BY <1>4, <1>5, <1>6

----------------------------------------------------------------------------
\* Nothing is written yet.
LEMMA InitStreamInv == Init => StreamInv
<1> SUFFICES ASSUME Init PROVE StreamInv
  OBVIOUS
<1>1. /\ out = <<>> /\ log = <<>> /\ carry = <<>> /\ lines = <<>> /\ ret = "none"
      /\ pos = 0 /\ at # "scan" /\ at # "done"
  BY DEF Init
<1>2. StreamTyped
  BY <1>1, EmptySeq DEF StreamTyped
<1>3. /\ Raw(out) = <<>> /\ Len(Raw(out)) = 0 /\ Len(log) = 0
      /\ SubSeq(body, 1, Len(Raw(out))) = <<>>
  <2>1. Raw(out) = <<>> /\ Len(<<>>) = 0 /\ SubSeq(body, 1, 0) = <<>>
    BY <1>1, RawSteps, EmptySeq, SubSeqEmpty
  <2> QED BY <1>1, <2>1
<1>4. ClientInv
  <2>1. Raw(out) = log
    BY <1>1, <1>3
  <2>2. Len(log) <= Len(Raw(out)) /\ Len(Raw(out)) <= pos
    BY <1>1, <1>3
  <2>3. Raw(out) = SubSeq(body, 1, Len(Raw(out)))
    BY <1>3
  <2> QED BY <2>1, <2>2, <2>3 DEF ClientInv
<1>5. Text(lines) \o Unscanned = log
  <2>1. Text(lines) = <<>> /\ Unscanned = <<>> /\ <<>> \in Seq(Bytes)
    BY <1>1, TextSteps, EmptySeq DEF Unscanned
  <2> QED BY <1>1, <2>1, ConcatEmptySeq
<1>6. LinesInv
  BY <1>1, <1>5 DEF LinesInv, Whole
<1> QED
  BY <1>2, <1>4, <1>6 DEF StreamInv

\* The steps that move no byte to the client, the log or the scanner.
LEMMA QuietStep ==
  ASSUME StreamInv, UNCHANGED <<body, sinks, ret>>, pos \in Nat, pos' \in Nat, pos <= pos',
         at' = "done" <=> at = "done",
         \/ at' = "scan" /\ at = "scan" /\ UNCHANGED <<buf, op>>
         \/ at' # "scan" /\ at # "scan"
  PROVE  StreamInv'
<1>1. UNCHANGED <<out, log, carry, lines>>
  BY DEF sinks
<1>2. at' = "scan" => UNCHANGED Chunk
  BY DEF Chunk
<1>3. StreamTyped'
  BY <1>1, <1>2 DEF StreamInv, StreamTyped
<1>4. Raw(out)' = Raw(out) /\ Text(lines)' = Text(lines) /\ Unscanned' = Unscanned
  BY <1>1 DEF Unscanned
<1>5. ClientInv'
  <2>1. Len(Raw(out)) <= pos /\ Len(Raw(out)) \in Nat
    BY RawSteps, LenProperties DEF StreamInv, ClientInv, StreamTyped
  <2> QED BY <1>1, <1>4, <2>1 DEF StreamInv, ClientInv
<1>6. LinesInv'
  BY <1>1, <1>2, <1>4 DEF StreamInv, LinesInv
<1> QED
  BY <1>3, <1>5, <1>6 DEF StreamInv

\* Every step keeps the invariant of the client's stream and the lines.
LEMMA StepStreamInv == PumpInv /\ StreamInv /\ [Next]_vars => StreamInv'
<1> SUFFICES ASSUME Typed, OwnerInv, BufferInv, StreamInv, [Next]_vars PROVE StreamInv'
  BY DEF PumpInv
<1>t. /\ pos \in Nat /\ Len(body) \in Nat /\ pos <= Len(body)
      /\ out \in Seq(Items) /\ Raw(out) \in Seq(Bytes) /\ Len(Raw(out)) \in Nat
      /\ log \in Seq(Bytes) /\ Len(log) \in Nat
  BY LenProperties, RawSteps DEF Typed, StreamInv, StreamTyped
<1>1. CASE HangUp \/ Tick \/ ReaderSends \/ ReaderAborts \/ UNCHANGED vars
  <2>1. UNCHANGED <<body, pos, buf, at, op, sinks, ret>>
    BY <1>1 DEF HangUp, Tick, ReaderSends, ReaderAborts, source, vars
  <2> QED BY <1>t, <2>1, QuietStep
<1>2. CASE SyncAborts \/ Receive
  <2>1. /\ UNCHANGED <<body, pos, sinks, ret>>
        /\ at' = "write" /\ at # "scan" /\ at # "done"
    BY <1>2 DEF SyncAborts, Receive, source
  <2> QED BY <1>t, <2>1, QuietStep
<1>3. CASE ReaderReads \/ SyncRead
  <2>1. PICK n \in 0 .. BufSize : pos' = pos + n
    BY <1>3 DEF ReaderReads, SyncRead, Read
  <2>2. n \in Nat
    BY PumpAssumption
  <2>3. /\ UNCHANGED <<body, sinks, ret>> /\ at # "scan" /\ at' # "scan"
        /\ at' = "done" <=> at = "done"
    BY <1>3 DEF ReaderReads, SyncRead, OwnerInv
  <2>4. pos' \in Nat /\ pos <= pos'
    BY <1>t, <2>1, <2>2
  <2> QED BY <1>t, <2>3, <2>4, QuietStep
<1>4. CASE Ping
  <2>1. /\ at = "select" /\ UNCHANGED <<body, pos, log, carry, lines>>
        /\ \/ out' = Append(out, "comment") /\ at' = at /\ ret' = ret
           \/ out' = out /\ at' = "done" /\ ret' = "write"
    BY <1>4 DEF Ping, source
  <2>2. ret = "none"
    BY <2>1 DEF OwnerInv
  <2>3. /\ out' \in Seq(Items) /\ Raw(out') = Raw(out)
    <3>1. "comment" \in Items
      BY DEF Items
    <3>2. Raw(Append(out, "comment")) = Raw(out)
      BY <1>t, RawSteps
    <3>3. Append(out, "comment") \in Seq(Items)
      BY <1>t, <3>1, AppendProperties
    <3> QED BY <1>t, <2>1, <3>2, <3>3
  <2>4. StreamTyped'
    BY <2>1, <2>3 DEF StreamInv, StreamTyped
  <2>5. ClientInv'
    BY <2>1, <2>2, <2>3 DEF StreamInv, ClientInv
  <2>6. Unscanned' = Unscanned
    BY <2>1, <2>2 DEF Unscanned
  <2>7. LinesInv'
    BY <2>1, <2>6 DEF StreamInv, LinesInv, Whole, Ended
  <2> QED BY <2>4, <2>5, <2>7 DEF StreamInv
<1>5. CASE Deliver
  <2>1. /\ at = "write" /\ at' = "scan" /\ out' = out \o Chunk /\ log' = log \o Chunk
        /\ UNCHANGED <<body, pos, buf, op, carry, lines, ret>>
    BY <1>5 DEF Deliver, source
  <2>2. ret = "none"
    BY <2>1 DEF OwnerInv
  <2>3. Chunk \in Seq(Bytes) /\ log \o Chunk = SubSeq(body, 1, pos)
    BY <2>1, ChunkContinues DEF BufferInv
  <2>4. UNCHANGED Chunk
    BY <2>1 DEF Chunk
  <2>5. StreamTyped'
    <3>1. Chunk \in Seq(Items)
      BY <2>3, SeqMonotonic DEF Items
    <3> QED BY <1>t, <2>1, <2>3, <2>4, <3>1, ConcatProperties DEF StreamInv, StreamTyped
  <2>6. Raw(out') = log'
    <3>1. Raw(out \o Chunk) = Raw(out) \o Chunk
      BY <1>t, <2>3, RawOfChunk
    <3> QED BY <2>1, <2>2, <3>1 DEF StreamInv, ClientInv
  <2>7. ClientInv'
    <3>1. log' = SubSeq(body, 1, pos) /\ Len(log') = pos
      BY <1>t, <2>1, <2>3, FrontLength DEF Typed
    <3> QED BY <1>t, <2>1, <2>6, <3>1 DEF ClientInv
  <2>8. Text(lines) \o (carry \o Chunk) = log \o Chunk
    <3>1. Text(lines) \o carry = log
      BY <2>1, <2>2 DEF StreamInv, LinesInv, Unscanned
    <3> DEFINE front == Text(lines)
    <3>2. front \in Seq(Bytes) /\ carry \in Seq(Bytes)
      BY TextSteps DEF StreamInv, StreamTyped
    <3> HIDE DEF front
    <3>3. (front \o carry) \o Chunk = front \o (carry \o Chunk)
      BY <2>3, <3>2, ConcatAssociative
    <3> QED BY <3>1, <3>3 DEF front
  <2>9. LinesInv'
    BY <2>1, <2>4, <2>8 DEF StreamInv, LinesInv
  <2> QED BY <2>5, <2>7, <2>9 DEF StreamInv
<1>6. CASE DeliverFails
  <2>1. /\ at = "write" /\ at' = "done" /\ ret' = "write" /\ op.n > 0
        /\ UNCHANGED <<body, pos, buf, op, log, carry, lines>>
    BY <1>6 DEF DeliverFails, source
  <2>2. PICK k \in 0 .. op.n - 1 : out' = out \o SubSeq(Chunk, 1, k)
    BY <1>6 DEF DeliverFails
  <2>3. ret = "none" /\ Holds(op) /\ Chunk \in Seq(Bytes)
    BY <2>1, ChunkContinues DEF OwnerInv, BufferInv
  <2> DEFINE n == op.n
             from == pos - n
             part == SubSeq(body, from + 1, from + k)
  <2>4. /\ n \in Nat /\ k \in Nat /\ k < n
        /\ from \in Nat /\ from + k \in Nat /\ from <= from + k
        /\ from + k < pos /\ from + n = pos
    <3>1. n \in Nat
      BY DEF Typed, Ops
    <3>2. n <= pos
      BY <2>3 DEF Holds
    <3> HIDE DEF n
    <3>3. k \in 0 .. n - 1
      BY DEF n
    <3> QED BY <1>t, <3>1, <3>2, <3>3
  <2>5. /\ SubSeq(Chunk, 1, k) = part /\ part \in Seq(Bytes)
        /\ SubSeq(body, 1, from) \o part = SubSeq(body, 1, from + k)
    <3>1. Chunk = SubSeq(body, from + 1, pos)
      BY <2>3 DEF Chunk, Holds
    <3> HIDE DEF from, n
    <3>2. /\ part \in Seq(Bytes)
          /\ SubSeq(body, 1, from) \o part = SubSeq(body, 1, from + k)
      <4>1. from + k <= Len(body)
        BY <1>t, <2>4
      <4> QED BY <2>4, <4>1, Adjacent DEF Typed
    <3>3. CASE k = 0
      <4>1. SubSeq(Chunk, 1, 0) = <<>> /\ SubSeq(body, from + 1, from) = <<>>
        BY <2>4, SubSeqEmpty
      <4>2. from + k = from
        BY <2>4, <3>3
      <4> QED BY <3>2, <3>3, <4>1, <4>2
    <3>4. CASE k # 0
      <4> DEFINE i == from + 1
      <4>1. /\ i \in 1 .. Len(body) /\ pos \in 1 .. Len(body)
            /\ 1 \in 1 .. pos - i + 1 /\ k \in 1 .. pos - i + 1
            /\ i + 1 - 1 = from + 1 /\ i + k - 1 = from + k
        BY <1>t, <2>4, <3>4
      <4>2. Chunk = SubSeq(body, i, pos)
        BY <3>1
      <4> HIDE DEF i
      <4>3. SubSeq(SubSeq(body, i, pos), 1, k) = SubSeq(body, i + 1 - 1, i + k - 1)
        BY <4>1, SubSeqOfSubSeq DEF Typed
      <4> QED BY <3>2, <4>1, <4>2, <4>3
    <3> QED BY <3>3, <3>4
  <2>6. Raw(out') = SubSeq(body, 1, from + k)
    <3>1. Raw(out \o part) = Raw(out) \o part
      BY <1>t, <2>5, RawOfChunk
    <3>2. Raw(out) = SubSeq(body, 1, from)
      BY <2>3 DEF StreamInv, ClientInv, Holds
    <3> QED BY <2>2, <2>5, <3>1, <3>2
  <2>7. Len(Raw(out')) = from + k /\ Len(log) = from
    <3>1. from + k \in 0 .. Len(body) /\ from \in 0 .. Len(body)
      BY <1>t, <2>4
    <3>2. log = SubSeq(body, 1, from)
      BY <2>3 DEF Holds
    <3> HIDE DEF from
    <3> QED BY <2>6, <3>1, <3>2, FrontLength DEF Typed
  <2>8. ClientInv'
    <3>1. log' = log /\ pos' = pos /\ body' = body /\ ret' = "write"
      BY <2>1
    <3>2. from <= from + k /\ from + k <= pos
      BY <1>t, <2>4
    <3> HIDE DEF from
    <3> QED BY <2>6, <2>7, <3>1, <3>2 DEF ClientInv
  <2>9. StreamTyped'
    <3>1. part \in Seq(Items)
      BY <2>5, SeqMonotonic DEF Items
    <3> QED BY <1>t, <2>1, <2>2, <2>5, <3>1, ConcatProperties DEF StreamInv, StreamTyped
  <2>10. LinesInv'
    BY <2>1, <2>3 DEF StreamInv, LinesInv, Unscanned, Whole, Ended
  <2> QED BY <2>8, <2>9, <2>10 DEF StreamInv
<1>7. CASE Scan
  <2>1. /\ at = "scan" /\ at' # "scan" /\ at' # "done"
        /\ UNCHANGED <<body, pos, out, log, ret>>
    BY <1>7 DEF Scan, source
  <2>2. /\ lines' = Done \o Scanned(IF TooLong THEN <<Rest>> ELSE <<>>, "long")
        /\ carry' = IF (IF TooLong THEN <<Rest>> ELSE <<>>) = <<>> THEN Rest ELSE <<>>
    BY <1>7 DEF Scan, Done, Rest, TooLong
  <2>3. /\ Rest \in Seq(Bytes) /\ Done \in Seq(Lines) /\ Text(Done) \o Rest = log
        /\ Text(Done) \in Seq(Bytes) /\ Whole(Done)
    BY <2>1, Scanning DEF StreamInv
  <2>4. ret = "none"
    BY <2>1 DEF OwnerInv
  <2>5. ClientInv'
    BY <2>1 DEF StreamInv, ClientInv
  <2>6. CASE TooLong
    <3>1. lines' = Append(Done, Line(Rest, "long")) /\ carry' = <<>>
      BY <2>2, <2>3, <2>6, OneMore
    <3>2. lines' \in Seq(Lines) /\ Text(lines') = log /\ Whole(lines')
      BY <2>3, <2>6, <3>1, OneMore, WholeAfterLong DEF TooLong
    <3>3. Text(lines') \o carry' = log
      BY <1>t, <3>1, <3>2, ConcatEmptySeq
    <3>4. StreamTyped' /\ LinesInv'
      BY <2>1, <2>4, <3>1, <3>2, <3>3, EmptySeq DEF StreamInv, StreamTyped, LinesInv, Unscanned
    <3> QED BY <2>5, <3>4 DEF StreamInv
  <2>7. CASE ~TooLong
    <3>1. lines' = Done /\ carry' = Rest
      BY <2>2, <2>3, <2>7, OneMore
    <3>2. StreamTyped' /\ LinesInv'
      BY <2>1, <2>3, <2>4, <3>1 DEF StreamInv, StreamTyped, LinesInv, Unscanned
    <3> QED BY <2>5, <3>2 DEF StreamInv
  <2> QED BY <2>6, <2>7
<1>8. CASE Finish
  <2> DEFINE long == IF TooLong THEN <<Rest>> ELSE <<>>
             last == IF long = <<>> /\ Rest # <<>> /\ op.err = "eof" THEN <<Rest>> ELSE <<>>
  <2>1. /\ at = "scan" /\ at' = "done" /\ UNCHANGED <<body, pos, out, log>>
        /\ ret' = IF op.err = "eof" THEN "ok" ELSE "read"
    BY <1>8 DEF Finish, source
  <2>2. /\ lines' = Done \o Scanned(long, "long") \o Scanned(last, "eof")
        /\ carry' = IF long = <<>> THEN Rest ELSE <<>>
    BY <1>8 DEF Finish, Done, Rest, TooLong
  <2>3. /\ Rest \in Seq(Bytes) /\ Done \in Seq(Lines) /\ Text(Done) \o Rest = log
        /\ Text(Done) \in Seq(Bytes) /\ Whole(Done)
    BY <2>1, Scanning DEF StreamInv
  <2>4. ret = "none" /\ ret' # "write"
    BY <2>1 DEF OwnerInv
  <2>5. ClientInv'
    BY <2>1, <2>4 DEF StreamInv, ClientInv
  <2>6. SUFFICES /\ lines' \in Seq(Lines) /\ carry' \in Seq(Bytes) /\ Ended(lines')
                 /\ Text(lines') \o (IF op.err = "eof" THEN <<>> ELSE carry') = log
    BY <2>1, <2>5 DEF StreamInv, StreamTyped, LinesInv, Unscanned
  <2>7. CASE TooLong
    <3>1. long = <<Rest>> /\ last = <<>>
      BY <2>7
    <3>2. Done \o Scanned(<<Rest>>, "long") = Append(Done, Line(Rest, "long"))
      BY <2>3, OneMore
    <3> DEFINE all == Append(Done, Line(Rest, "long"))
    <3>3. all \in Seq(Lines) /\ Text(all) = log /\ Whole(all)
      BY <2>3, <2>7, OneMore, WholeAfterLong DEF TooLong
    <3>4. lines' = all /\ carry' = <<>>
      BY <2>2, <2>3, <3>1, <3>2, <3>3, OneMore
    <3> HIDE DEF all
    <3> QED BY <1>t, <3>3, <3>4, EmptySeq, ConcatEmptySeq DEF Whole, Ended
  <2>8. CASE ~TooLong /\ op.err = "eof" /\ Rest # <<>>
    <3>1. long = <<>> /\ last = <<Rest>>
      BY <2>8
    <3>2. Done \o Scanned(<<>>, "long") = Done
      BY <2>3, OneMore
    <3>3. Done \o Scanned(<<Rest>>, "eof") = Append(Done, Line(Rest, "eof"))
      BY <2>3, OneMore
    <3>4. lines' = Append(Done, Line(Rest, "eof")) /\ carry' = Rest
      BY <2>2, <3>1, <3>2, <3>3
    <3>5. lines' \in Seq(Lines) /\ Text(lines') = log /\ Ended(lines')
      BY <2>3, <2>8, <3>4, OneMore, EndedAfterLast
    <3> QED BY <1>t, <2>3, <2>8, <3>4, <3>5, ConcatEmptySeq
  <2>9. CASE ~TooLong /\ ~(op.err = "eof" /\ Rest # <<>>)
    <3>1. long = <<>> /\ last = <<>>
      BY <2>9
    <3>2. lines' = Done /\ carry' = Rest
      BY <2>2, <2>3, <3>1, OneMore
    <3> QED BY <2>3, <2>9, <3>2 DEF Whole, Ended
  <2> QED BY <2>7, <2>8, <2>9
<1> QED
  BY <1>1, <1>2, <1>3, <1>4, <1>5, <1>6, <1>7, <1>8 DEF Next, Handler, Abort, Upstream

\* What the client, the log and the scanner got of the body, at every moment.
THEOREM StreamIsCopied == Spec => [](PumpInv /\ StreamInv)
<1>1. QED
  BY InitPumpInv, StepPumpInv, InitStreamInv, StepStreamInv, PTL DEF Spec

\* The client gets the upstream's bytes in order, without a gap and as far as
\* they are logged, comments apart, whenever the ticker fires and whichever
\* write fails (consume and pumpStream, usage.go).
THEOREM StreamIsRaw == Spec => []RawStream
<1>1. PumpInv /\ StreamInv => RawStream
  <2> SUFFICES ASSUME PumpInv, StreamInv PROVE RawStream
    OBVIOUS
  <2>1. LogRaw
    BY InvLogRaw
  <2> DEFINE m == Len(Raw(out))
             k == Len(log)
  <2>2. /\ m \in 0 .. pos /\ k \in 0 .. m /\ k \in 0 .. pos
        /\ pos \in 0 .. Len(body) /\ m \in 0 .. Len(body)
    BY RawSteps, LenProperties DEF PumpInv, Typed, StreamInv, StreamTyped, ClientInv
  <2>3. Raw(out) = SubSeq(body, 1, m)
    BY DEF StreamInv, ClientInv
  <2>4. log = SubSeq(body, 1, k)
    BY InvLogBounds
  <2> HIDE DEF m, k
  <2>5. IsPrefix(log, Raw(out)) /\ IsPrefix(Raw(out), SubSeq(body, 1, pos))
    BY <2>2, <2>3, <2>4, FrontIsPrefix DEF PumpInv, Typed
  <2> QED BY <2>1, <2>5 DEF RawStream, StreamInv, ClientInv
<1> QED
  BY <1>1, StreamIsCopied, PTL

\* Every logged byte is handed to scan once, in order and however the chunks
\* were cut: a line that was dropped, scanned twice or cut anywhere but at a
\* newline or at maxSSEScan would break it (consume and finish, usage.go).
THEOREM LinesAreScannedOnce == Spec => []LinesOnce
<1>1. PumpInv /\ StreamInv => LinesOnce
  <2> SUFFICES ASSUME PumpInv, StreamInv, at # "scan" PROVE LinesOnce
    BY DEF LinesOnce
  <2>1. Text(lines) \o Unscanned = log
    BY DEF StreamInv, LinesInv
  <2>2. Ended(lines)
    BY DEF StreamInv, LinesInv, Whole, Ended
  <2>3. DOMAIN lines = 1 .. Len(lines)
    BY LenProperties DEF StreamInv, StreamTyped
  <2>4. \A k \in 1 .. Len(lines) : lines[k].why # "nl" => lines[k].text # <<>>
    <3> SUFFICES ASSUME NEW k \in 1 .. Len(lines), lines[k].why # "nl"
                 PROVE  lines[k].text # <<>>
      OBVIOUS
    <3>1. lines[k] \in Lines
      BY ElementOfSeq DEF StreamInv, StreamTyped
    <3>2. lines[k].why \in {"long", "eof"}
      BY <3>1 DEF Lines
    <3>3. CASE lines[k].why = "long"
      <4>1. Len(lines[k].text) > MaxScan
        BY <2>2, <3>3 DEF Ended
      <4>2. Len(lines[k].text) # 0
        BY <4>1, PumpAssumption
      <4> QED BY <4>2, EmptySeq
    <3>4. CASE lines[k].why = "eof"
      BY <2>2, <3>4 DEF Ended
    <3> QED BY <3>2, <3>3, <3>4
  <2> QED BY <2>1, <2>2, <2>3, <2>4 DEF LinesOnce, Ended
<1> QED
  BY <1>1, StreamIsCopied, PTL
=============================================================================
