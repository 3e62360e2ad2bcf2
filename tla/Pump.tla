-------------------------------- MODULE Pump --------------------------------
(***************************************************************************)
(* The copy of a streamed response (usage.go, pumpStream): the upstream    *)
(* body goes to the client and to the call log chunk by chunk, every line  *)
(* of it is scanned once, and while the upstream is silent a comment goes  *)
(* to the client.  With keepalive on, a goroutine reads the body into the  *)
(* buffer the handler consumes, and hands over by a channel.               *)
(*                                                                         *)
(* A body is a sequence of "x", any byte of a line, and "nl".  The three   *)
(* bytes of sseComment are the one item "comment" of the client's stream.  *)
(***************************************************************************)
EXTENDS SequencesExt, SeqRun

CONSTANTS
  Bodies,    \* upstream bodies
  BufSize,   \* len(buf)
  MaxScan,   \* maxSSEScan
  MaxPings   \* bound: comments

Bytes == {"x", "nl"}

ASSUME PumpAssumption ==
  /\ Bodies \subseteq Seq(Bytes)
  /\ BufSize \in Nat \ {0} /\ MaxScan \in Nat /\ MaxPings \in Nat

VARIABLES
  body,       \* what the upstream would send
  keepalive,  \* keepalive > 0: an uncompressed SSE body
  pos,        \* bytes of the body that were read
  buf,        \* the shared read buffer
  reader,     \* the goroutine of startRead: "none", "reading", "sending"
  readop,     \* what it is about to send
  readc,      \* the channel
  at,         \* the handler: "read", "select", "write", "scan", "done"
  op,         \* the readOp it works on
  tick,       \* a tick waits in ticker.C
  pings,      \* comments so far
  gone,       \* the client hung up: writes fail, the body's context is canceled
  out,        \* the client's stream
  log,        \* the call log's copy (the sseLogWriter's input)
  carry,      \* the incomplete line
  lines,      \* what scan was called with: text and why it was complete
  ret         \* what pumpStream returned: "none", "ok", "read", "write"

source == <<body, keepalive, pos, buf>>
channel == <<reader, readop, readc>>
timer == <<tick, pings>>
sinks == <<out, log, carry, lines>>
vars == <<source, channel, at, op, timer, gone, sinks, ret>>

\* A readOp; n bytes of buf are valid.
Op(n, e) == [n |-> n, err |-> e]
NoOp == Op(0, "nil")

Chunk == SubSeq(buf, 1, op.n)

----------------------------------------------------------------------------
\* The loop over the newlines of carry: the complete lines and what is left.
Splits == [done : Seq(Seq(Bytes)), rest : Seq(Bytes)]

Step ==
  [p \in Splits \X Bytes |->
     IF p[2] = "nl"
     THEN [done |-> Append(p[1].done, p[1].rest), rest |-> <<>>]
     ELSE [done |-> p[1].done, rest |-> Append(p[1].rest, p[2])]]

SplitLines(s) == Run(Step, [done |-> <<>>, rest |-> <<>>], s)

Scanned(texts, why) == [k \in DOMAIN texts |-> [text |-> texts[k], why |-> why]]

Init ==
  /\ body \in Bodies /\ keepalive \in BOOLEAN
  /\ pos = 0 /\ buf = <<>>
  /\ reader = IF keepalive THEN "reading" ELSE "none"
  /\ readop = NoOp /\ readc = <<>>
  /\ at = IF keepalive THEN "select" ELSE "read"
  /\ op = NoOp
  /\ tick = FALSE /\ pings = 0
  /\ gone = FALSE
  /\ out = <<>> /\ log = <<>> /\ carry = <<>> /\ lines = <<>>
  /\ ret = "none"

HangUp ==
  /\ at # "done" /\ ~gone
  /\ gone' = TRUE
  /\ UNCHANGED <<source, channel, at, op, timer, sinks, ret>>

----------------------------------------------------------------------------
\* src.Read(buf): n bytes, and the end of the body possibly with the last.
Filled(n) == SubSeq(body, pos + 1, pos + n) \o SubSeq(buf, n + 1, Len(buf))

Read(n, e) ==
  /\ n + pos <= Len(body) /\ n <= BufSize
  /\ \/ e = "nil" /\ n > 0
     \/ e = "eof" /\ pos + n = Len(body)
     \/ e = "fail"
  /\ pos' = pos + n
  /\ buf' = Filled(n)

\* The goroutine of startRead gets bytes, or the end, or a broken body.
ReaderReads ==
  /\ reader = "reading"
  /\ \E n \in 0 .. BufSize, e \in {"nil", "eof", "fail"} :
       Read(n, e) /\ readop' = Op(n, e)
  /\ reader' = "sending"
  /\ UNCHANGED <<body, keepalive, readc, at, op, timer, gone, sinks, ret>>

\* The read fails: the context is canceled, or forward closed the body when
\* pumpStream had returned.
ReaderAborts ==
  /\ reader = "reading" /\ (gone \/ at = "done")
  /\ reader' = "sending" /\ readop' = Op(0, "fail")
  /\ UNCHANGED <<source, readc, at, op, timer, gone, sinks, ret>>

\* Mutant: readc has no buffer, somebody must receive.
ReaderSendsUnbuffered ==
  /\ reader = "sending" /\ readc = <<>> /\ at = "select"
  /\ readc' = <<readop>>
  /\ reader' = "none"
  /\ UNCHANGED <<source, readop, at, op, timer, gone, sinks, ret>>

\* readc <- op, a channel with room for one; the goroutine ends.
ReaderSends ==
  /\ reader = "sending" /\ readc = <<>>
  /\ readc' = <<readop>>
  /\ reader' = "none"
  /\ UNCHANGED <<source, readop, at, op, timer, gone, sinks, ret>>

\* Without keepalive the handler reads.
SyncRead ==
  /\ at = "read"
  /\ \E n \in 0 .. BufSize, e \in {"nil", "eof", "fail"} :
       Read(n, e) /\ op' = Op(n, e)
  /\ at' = "write"
  /\ UNCHANGED <<body, keepalive, channel, timer, gone, sinks, ret>>

\* Mutant: the request does not carry the client's context.
SyncAbortsAtEnd ==
  /\ at = "read" /\ gone /\ pos = Len(body)
  /\ op' = Op(0, "fail") /\ at' = "write"
  /\ UNCHANGED <<source, channel, timer, gone, sinks, ret>>

\* The read of the handler fails: the context is canceled.
SyncAborts ==
  /\ at = "read" /\ gone
  /\ op' = Op(0, "fail") /\ at' = "write"
  /\ UNCHANGED <<source, channel, timer, gone, sinks, ret>>

----------------------------------------------------------------------------
\* Mutant: the ticker is started with the first chunk.
TickAfterChunk ==
  /\ keepalive /\ at # "done" /\ ~tick /\ pings < MaxPings /\ log # <<>>
  /\ tick' = TRUE
  /\ UNCHANGED <<source, channel, at, op, pings, gone, sinks, ret>>

\* The ticker fires; its channel holds one tick.
Tick ==
  /\ keepalive /\ at # "done" /\ ~tick /\ pings < MaxPings
  /\ tick' = TRUE
  /\ UNCHANGED <<source, channel, at, op, pings, gone, sinks, ret>>

\* Mutant: the next read starts before the chunk has been consumed.
ReceiveAndRead ==
  /\ at = "select" /\ readc # <<>>
  /\ op' = Head(readc) /\ readc' = <<>>
  /\ tick' = FALSE
  /\ reader' = IF Head(readc).err = "nil" THEN "reading" ELSE reader
  /\ at' = "write"
  /\ UNCHANGED <<source, readop, pings, gone, sinks, ret>>

\* case op := <-readc; ticker.Reset drops a tick that is already there.
Receive ==
  /\ at = "select" /\ readc # <<>>
  /\ op' = Head(readc) /\ readc' = <<>>
  /\ tick' = FALSE
  /\ at' = "write"
  /\ UNCHANGED <<source, reader, readop, pings, gone, sinks, ret>>

\* case <-ticker.C: select picks any ready case.
Ping ==
  /\ at = "select" /\ tick
  /\ tick' = FALSE /\ pings' = pings + 1
  /\ \/ /\ out' = Append(out, "comment")
        /\ UNCHANGED <<at, ret>>
     \/ gone /\ at' = "done" /\ ret' = "write" /\ UNCHANGED out
  /\ UNCHANGED <<source, channel, op, gone, log, carry, lines>>

\* consume: dst.Write goes to the client first, then to the log.
Deliver ==
  /\ at = "write"
  /\ out' = out \o Chunk /\ log' = log \o Chunk
  /\ at' = "scan"
  /\ UNCHANGED <<source, channel, op, timer, gone, carry, lines, ret>>

\* The client is gone; part of the chunk may have left.
DeliverFails ==
  /\ at = "write" /\ op.n > 0 /\ gone
  /\ \E k \in 0 .. op.n - 1 : out' = out \o SubSeq(Chunk, 1, k)
  /\ at' = "done" /\ ret' = "write"
  /\ UNCHANGED <<source, channel, op, timer, gone, log, carry, lines>>

\* Mutant: an over-long line is scanned but not dropped.
ScanKeepsLong ==
  /\ at = "scan" /\ op.err = "nil"
  /\ LET split == SplitLines(carry \o Chunk)
         long == IF Len(split.rest) > MaxScan THEN <<split.rest>> ELSE <<>>
     IN /\ lines' = lines \o Scanned(split.done, "nl") \o Scanned(long, "long")
        /\ carry' = split.rest
  /\ at' = IF keepalive THEN "select" ELSE "read"
  /\ reader' = IF keepalive THEN "reading" ELSE reader
  /\ UNCHANGED <<source, readop, readc, op, timer, gone, out, log, ret>>

\* The rest of consume, and the next read is started.
Scan ==
  /\ at = "scan" /\ op.err = "nil"
  /\ LET split == SplitLines(carry \o Chunk)
         long == IF Len(split.rest) > MaxScan THEN <<split.rest>> ELSE <<>>
     IN /\ lines' = lines \o Scanned(split.done, "nl") \o Scanned(long, "long")
        /\ carry' = IF long = <<>> THEN split.rest ELSE <<>>
  /\ at' = IF keepalive THEN "select" ELSE "read"
  /\ reader' = IF keepalive THEN "reading" ELSE reader
  /\ UNCHANGED <<source, readop, readc, op, timer, gone, out, log, ret>>

\* The rest of consume, and finish: an unterminated last line is scanned at
\* the end of the body, not when the body broke.
Finish ==
  /\ at = "scan" /\ op.err # "nil"
  /\ LET split == SplitLines(carry \o Chunk)
         long == IF Len(split.rest) > MaxScan THEN <<split.rest>> ELSE <<>>
         last == IF long = <<>> /\ split.rest # <<>> /\ op.err = "eof"
                 THEN <<split.rest>> ELSE <<>>
     IN /\ lines' = lines \o Scanned(split.done, "nl") \o Scanned(long, "long")
                          \o Scanned(last, "eof")
        /\ carry' = IF long = <<>> THEN split.rest ELSE <<>>
  /\ at' = "done"
  /\ ret' = IF op.err = "eof" THEN "ok" ELSE "read"
  /\ UNCHANGED <<source, channel, op, timer, gone, out, log>>

Handler == Receive \/ Ping \/ Deliver \/ DeliverFails \/ Scan \/ Finish

Upstream == ReaderReads \/ SyncRead

Abort == ReaderAborts \/ SyncAborts

Next == Handler \/ ReaderSends \/ Abort \/ Upstream \/ Tick \/ HangUp

Spec == Init /\ [][Next]_vars

\* Both goroutines are scheduled, canceling or closing a body wakes its read,
\* and the ticker ticks.  The upstream owes nothing, and the client may stay.
FairSpec ==
  Spec /\ WF_vars(Handler) /\ WF_vars(ReaderSends) /\ WF_vars(Abort)
       /\ WF_vars(Tick)

----------------------------------------------------------------------------
\* A stream without its comments.
Keep ==
  [p \in Seq(Bytes) \X (Bytes \cup {"comment"}) |->
     IF p[2] = "comment" THEN p[1] ELSE Append(p[1], p[2])]

Raw(s) == Run(Keep, <<>>, s)

\* The log has the upstream's bytes in order without a gap, and all of them
\* when the copy succeeded, although a goroutine fills the buffer it is
\* written from.
LogRaw ==
  /\ IsPrefix(log, SubSeq(body, 1, pos))
  /\ ret = "ok" => log = body

\* "The client still receives the raw stream" (README.md:220), and so does
\* the log: the client has what is logged, at most part of a failed chunk
\* more, and comments.
RawStream ==
  /\ LogRaw
  /\ IsPrefix(log, Raw(out)) /\ IsPrefix(Raw(out), SubSeq(body, 1, pos))
  /\ ret # "write" => log = Raw(out)

\* The bytes the lines were scanned from.
Lines == [text : Seq(Bytes), why : {"nl", "long", "eof"}]

Glue ==
  [p \in Seq(Bytes) \X Lines |->
     p[1] \o (IF p[2].why = "nl" THEN Append(p[2].text, "nl") ELSE p[2].text)]

Text(ls) == Run(Glue, <<>>, ls)

Unscanned == IF ret = "ok" THEN <<>> ELSE carry

\* Usage is read from every line once, whatever the chunks were cut like: the
\* scanned lines and the carry are the logged bytes, no line is cut but one
\* longer than maxSSEScan, and only the last one lacks its newline.
LinesOnce ==
  at # "scan" =>
    /\ Text(lines) \o Unscanned = log
    /\ \A k \in DOMAIN lines :
         /\ lines[k].why = "long" => Len(lines[k].text) > MaxScan
         /\ lines[k].why = "eof" => k = Len(lines)
         /\ lines[k].why # "nl" => lines[k].text # <<>>

\* Whatever way pumpStream returns, no reader goroutine stays behind: it ends
\* although nobody receives its last readOp.
ReaderExits == at = "done" ~> reader = "none"

\* A client that hung up does not keep the handler in a silent stream.
HangUpEnds == gone ~> at = "done"

\* A client that waits hears from the proxy, however silent the upstream is:
\* the wait ends with a chunk, a comment or the end (or at the model's bound).
NeverSilent ==
  \A k \in 0 .. MaxPings - 1 :
    at = "select" /\ pings = k ~> at = "done" \/ at = "write" \/ pings > k

----------------------------------------------------------------------------
\* What an SSE parser makes of a stream: ":" lines are comments, a blank line
\* ends an event.  A comment is the byte ":" and two newlines.
EndLine(acc) ==
  IF acc.line = <<>>
  THEN [acc EXCEPT !.event = <<>>,
                   !.events = IF acc.event = <<>> THEN @ ELSE Append(@, acc.event)]
  ELSE [acc EXCEPT !.line = <<>>,
                   !.event = IF Head(acc.line) = ":" THEN @ ELSE Append(@, acc.line)]

Parse(acc, b) ==
  CASE b = "nl" -> EndLine(acc)
    [] b = "comment" ->
         EndLine(EndLine([acc EXCEPT !.line = Append(@, ":")]))
    [] OTHER -> [acc EXCEPT !.line = Append(@, b)]

Events(s) == FoldLeft(Parse, [line |-> <<>>, event |-> <<>>, events |-> <<>>], s).events

\* "nanollm writes SSE comments (`:` lines) ... the client still receives the
\* raw stream" (README.md:220): to an SSE client they make no difference.
CommentsInvisible == ret = "ok" => Events(out) = Events(body)
=============================================================================
