------------------------------- MODULE SSELog -------------------------------
(***************************************************************************)
(* The call log's copy of an SSE stream (sse_log.go): sseLogWriter gets    *)
(* the bytes in chunks cut anywhere, puts events together, and coalesces   *)
(* consecutive deltas of the same kind into one event.                     *)
(*                                                                         *)
(* A stream is a sequence of tokens: "nl", or the rest of a line: a delta, *)
(* that is a data line with a JSON object known by its fields, "plain" for *)
(* any other data line, or "comment" for a line that is no data.  Bytes    *)
(* are followed through the writer by their position in the stream.        *)
(***************************************************************************)
EXTENDS SeqRun, SequencesExt

CONSTANTS
  Fields,    \* delta -> its fields
  Text,      \* fields that are concatenated: contents, arguments
  Latest,    \* fields of which the last one stays: finish_reason, usage, ...
  MaxHold,   \* maxMediumBlob, for an event that is not complete
  MaxChunk,  \* bound: tokens a Write
  MaxLen     \* bound: tokens of a stream

Deltas == DOMAIN Fields
Tokens == Deltas \cup {"nl", "plain", "comment"}

ASSUME SSELogAssumption ==
  /\ Fields \in [Deltas -> SUBSET (Text \cup Latest)]
  /\ Deltas \cap {"nl", "plain", "comment"} = {}
  /\ Text \cap Latest = {}
  /\ MaxHold \in Nat /\ MaxChunk \in Nat /\ MaxLen \in Nat

VARIABLES
  stream,      \* what Write has been given
  carry, acc,  \* positions: the incomplete line and the lines of the event
  pending,     \* the event that may still be merged, or NoEvent
  blob,        \* what was written out
  overflow,    \* history: an event was too long
  flushed

vars == <<stream, carry, acc, pending, blob, overflow, flushed>>

----------------------------------------------------------------------------
\* sseMergeable: the data of an event is one object that only has text
\* deltas; its key is the kind of delta in it.
Has(s, p, f) == s[p] \in Deltas /\ f \in Fields[s[p]]
DataOf(s, raw) == {p \in ToSet(raw) : s[p] \notin {"nl", "comment"}}
Key(s, raw) == {f \in Text : \E p \in ToSet(raw) : DataOf(s, raw) = {p} /\ Has(s, p, f)}
Mergeable(s, raw) == Key(s, raw) # {}

\* The bytes of raw that are of a field.
Places(s) == 1 .. Len(s)
Piece(s, f) == [a \in Seq(Places(s)) \X Places(s) |->
                  IF Has(s, a[2], f) THEN Append(a[1], a[2]) ELSE a[1]]
Pieces(s, raw, f) == Run(Piece(s, f), <<>>, raw)

\* An event: its bytes, and what merged events have in their fields.
Events(s) == [raw : Seq(Places(s)), merged : BOOLEAN,
              obj : [Text \cup Latest -> Seq(Places(s))]]
EventOf(raw, merged, obj) == [raw |-> raw, merged |-> merged, obj |-> obj]
Event(s, raw) == EventOf(raw, FALSE, [f \in Text \cup Latest |-> Pieces(s, raw, f)])
Plain(raw) == EventOf(raw, FALSE, [f \in Text \cup Latest |-> <<>>])
NoEvent == Plain(<<>>)

\* Contents, arguments and texts of all choices and tool calls: appended.
Concat(p, e, f) == p.obj[f] \o e.obj[f]

\* finish_reason, usage, sequence_number: the later one, if there is one.  A
\* finish_reason that is null is none (it is skipped); a usage that is null is
\* one (copyLastField asks for the key alone), and takes an earlier one's place.
TakeLatest(p, e, f) == IF e.obj[f] = <<>> THEN p.obj[f] ELSE e.obj[f]

\* Mutant: the last usage and finish_reason are not copied.
MergeKeepsFirst(p, e) ==
  EventOf(p.raw, TRUE, [f \in Text \cup Latest |->
                          IF f \in Text THEN Concat(p, e, f) ELSE p.obj[f]])

\* mergeSSE, whatever the dialect; everything else of the later event is
\* dropped.
Merge(p, e) ==
  EventOf(p.raw, TRUE, [f \in Text \cup Latest |->
                          IF f \in Text THEN Concat(p, e, f) ELSE TakeLatest(p, e, f)])

\* What the writer has of whole events: one that may still be merged, and
\* what is written out.
Log(held, written) == [pending |-> held, blob |-> written]

\* flushPending: an event nothing was merged into is written as it came.
Flushed(l) ==
  IF l.pending = NoEvent THEN l ELSE Log(NoEvent, Append(l.blob, l.pending))

WriteOut(l, raw) ==
  IF raw = <<>> THEN l ELSE Log(l.pending, Append(l.blob, Plain(raw)))

\* Mutant: whatever is pending takes the delta in.
HandleEventAnyKey(s, l, raw) ==
  IF ~Mergeable(s, raw) THEN WriteOut(Flushed(l), raw)
  ELSE IF l.pending # NoEvent
       THEN Log(Merge(l.pending, Event(s, raw)), l.blob)
       ELSE Log(Event(s, raw), Flushed(l).blob)

HandleEvent(s, l, raw) ==
  IF ~Mergeable(s, raw) THEN WriteOut(Flushed(l), raw)
  ELSE IF l.pending # NoEvent /\ Key(s, l.pending.raw) = Key(s, raw)
       THEN Log(Merge(l.pending, Event(s, raw)), l.blob)
       ELSE Log(Event(s, raw), Flushed(l).blob)

\* The writer: an incomplete line, the lines of the event, whole events.
Writer(line, lines, l) == [carry |-> line, acc |-> lines, log |-> l]
Writers(s) == [carry : Seq(Places(s)), acc : Seq(Places(s)),
               log : [pending : Events(s), blob : Seq(Events(s))]]

\* consume: a blank line ends the event.
Byte(s, w, p) ==
  LET line == Append(w.carry, p)
      lines == w.acc \o line
  IN IF s[p] # "nl" THEN Writer(line, w.acc, w.log)
     ELSE IF Len(line) > 1 THEN Writer(<<>>, lines, w.log)
     ELSE Writer(<<>>, <<>>, HandleEvent(s, w.log, lines))
Consume(s) == [a \in Writers(s) \X Places(s) |-> Byte(s, a[1], a[2])]

\* The end of consume: an event too long to hold is written out as it is.
Spill(w) ==
  IF Len(w.acc) + Len(w.carry) > MaxHold
  THEN Writer(<<>>, <<>>, WriteOut(WriteOut(Flushed(w.log), w.acc), w.carry))
  ELSE w

----------------------------------------------------------------------------
Now == Writer(carry, acc, Log(pending, blob))

Become(w) == /\ carry' = w.carry /\ acc' = w.acc
             /\ pending' = w.log.pending /\ blob' = w.log.blob

Init ==
  /\ stream = <<>> /\ carry = <<>> /\ acc = <<>>
  /\ pending = NoEvent /\ blob = <<>>
  /\ overflow = FALSE /\ flushed = FALSE

\* A line has one token before its "nl".
LinesOK(s) == \A p \in 1 .. Len(s) - 1 : s[p] = "nl" \/ s[p + 1] = "nl"

Write(chunk) ==
  LET s == stream \o chunk
      new == [k \in 1 .. Len(chunk) |-> Len(stream) + k]
      w == Run(Consume(s), Now, new)
  IN /\ ~flushed /\ Len(s) <= MaxLen /\ LinesOK(s)
     /\ stream' = s
     /\ Become(Spill(w))
     /\ overflow' = (overflow \/ Len(w.acc) + Len(w.carry) > MaxHold)
     /\ UNCHANGED flushed

\* Mutant: only the pending event is flushed.
FlushPendingOnly ==
  /\ ~flushed
  /\ flushed' = TRUE
  /\ Become(Writer(<<>>, <<>>, Flushed(Log(pending, blob))))
  /\ UNCHANGED <<stream, overflow>>

\* Flush: the copy has ended, maybe within an event or a line.
Flush ==
  /\ ~flushed
  /\ flushed' = TRUE
  /\ LET held == acc \o carry
         l == Log(pending, blob)
         whole == IF held = <<>> THEN l ELSE HandleEvent(stream, l, held)
     IN Become(Writer(<<>>, <<>>, Flushed(whole)))
  /\ UNCHANGED <<stream, overflow>>

Chunks == UNION {[1 .. n -> Tokens] : n \in 1 .. MaxChunk}

Next == (\E chunk \in Chunks : Write(chunk)) \/ Flush

Spec == Init /\ [][Next]_vars

----------------------------------------------------------------------------
Positions(n) == [k \in 1 .. n |-> k]

\* The field of an event, from the object if it was re-encoded.
FieldOf(s, e, f) == IF e.merged THEN e.obj[f] ELSE Pieces(s, e.raw, f)

\* The field over all events that were written.
Gather(s, f) == [a \in Seq(Places(s)) \X Events(s) |-> a[1] \o FieldOf(s, a[2], f)]
Logged(s, events, f) == Run(Gather(s, f), <<>>, events)

\* Coalescing rewrites the log, and never loses, doubles or reorders text:
\* every text field, over what was written and what the writer still holds,
\* is that of the stream, also when an event was too long or was cut off.
TextPreserved ==
  \A f \in Text :
    Logged(stream, blob, f) \o FieldOf(stream, pending, f) \o Pieces(stream, acc \o carry, f)
      = Pieces(stream, Positions(Len(stream)), f)

\* The last usage and the last finish_reason of a stream reach the log.  (Where
\* the last usage is a null, that is what is sure to: the counts before it, if
\* they came with a delta that was merged, may be gone.)
LatestPreserved ==
  flushed => \A f \in Latest :
    LET all == Pieces(stream, Positions(Len(stream)), f) IN
    all # <<>> => \E k \in DOMAIN blob : Last(all) \in ToSet(FieldOf(stream, blob[k], f))

----------------------------------------------------------------------------
\* The log without regard to chunks: an event goes from after one blank line
\* to the next, and adjacent events of one kind are one group.
Blank(s, p) == s[p] = "nl" /\ (p = 1 \/ s[p - 1] = "nl")
Starts(s) == {p \in DOMAIN s : p = 1 \/ Blank(s, p - 1)}
Ends(s, p) == {q \in p .. Len(s) : q = Len(s) \/ Blank(s, q)}
EndOf(s, p) == CHOOSE q \in Ends(s, p) : \A r \in Ends(s, p) : q <= r
Interval(p, q) == [k \in 1 .. q - p + 1 |-> p + k - 1]
RawAt(s, p) == Interval(p, EndOf(s, p))
Continues(s, p) ==
  /\ p \in Starts(s)
  /\ Mergeable(s, RawAt(s, p))
  /\ \E q \in Starts(s) : /\ EndOf(s, q) + 1 = p
                          /\ Key(s, RawAt(s, q)) = Key(s, RawAt(s, p))
GroupStarts(s) == {p \in Starts(s) : ~Continues(s, p)}

\* However the stream was cut into chunks, the log has one event for each run
\* of deltas of one kind, and every other event, and each delta that stands
\* alone, byte by byte as it came.
ChunksDoNotMatter ==
  flushed /\ ~overflow =>
    /\ Len(blob) = Cardinality(GroupStarts(stream))
    /\ \A p \in GroupStarts(stream) :
         LET e == blob[Cardinality({q \in GroupStarts(stream) : q <= p})] IN
         /\ e.raw = RawAt(stream, p)
         /\ e.merged = Continues(stream, EndOf(stream, p) + 1)
=============================================================================
