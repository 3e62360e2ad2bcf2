------------------------------- MODULE Proxy -------------------------------
(***************************************************************************)
(* One request through the proxy (proxy.go): ServeHTTP tries the providers *)
(* of the model in order, forward makes one attempt and records it, and    *)
(* the client may hang up between any two steps.  An upstream body is a    *)
(* number of bytes; an error is the set of the facts isCatastrophic,       *)
(* copyErrText and statusFromErr ask about, {} being nil.                  *)
(***************************************************************************)
EXTENDS Integers, Sequences

CONSTANTS
  N,          \* providersFor the model and protocol, in order
  Statuses,   \* HTTP statuses an upstream may answer with
  MaxBody,    \* bound: bytes of an upstream body
  LogCap,     \* maxMediumBlob
  StatusCap   \* maxStatusBlob

ASSUME ProxyAssumption ==
  /\ N \in Nat \ {0}
  /\ Statuses \subseteq 200 .. 599
  /\ MaxBody \in Nat /\ LogCap \in Nat /\ StatusCap \in Nat

VARIABLES
  pc,         \* where the handler is
  i,          \* providers tried; the current one
  hungUp,     \* the client closed its connection: r.Context() is canceled
  head,       \* status line sent to the client, 0 for none (tw.wrote)
  status,     \* rec.HTTPStatus of the current attempt
  err,        \* the error forward is about to return
  total,      \* bytes of the current upstream body
  declared,   \* the client was sent a Content-Length
  delivered,  \* bytes written to the client
  blob,       \* bytes in the call-log buffer
  rows,       \* what logCall has recorded
  end         \* how the body ended for the client: "none", "clean" or "cut"

body == <<total, declared, delivered, blob>>
vars == <<pc, i, hungUp, head, status, err, body, rows, end>>

Least(a, b) == IF a < b THEN a ELSE b

----------------------------------------------------------------------------
\* Errors.  "dial": OpError of a dial; "dns"; "timeout": net.Error with
\* Timeout(); "reset": ECONNRESET or EPIPE; "canceled": context.Canceled.
NoError == {}
PlainError == {"error"}
Canceled == {"error", "canceled"}
Reset == {"error", "reset"}

\* What client.Do may return while the client is connected: refused or timed
\* out dials, failed lookups, a TLS or TCP timeout after the dial, a reset
\* connection, anything else (a bad certificate, an early EOF).
TransportErrors ==
  {{"error", "dial"}, {"error", "dial", "timeout"}, {"error", "dial", "dns"},
   {"error", "timeout"}, Reset, PlainError}

\* Mutant: a request that timed out is tried elsewhere.
IsCatastrophicTimeoutToo(e, s) ==
  \/ s \in {502, 503, 504}
  \/ e # NoError /\ "canceled" \notin e

\* Mutant: a timeout counts before the question whether the dial failed.
IsCatastrophicTimeoutFirst(e, s) ==
  \/ s \in {502, 503, 504}
  \/ e # NoError /\ "canceled" \notin e /\ "timeout" \notin e

IsCatastrophic(e, s) ==
  \/ s \in {502, 503, 504}
  \/ /\ e # NoError
     /\ "canceled" \notin e
     /\ "dial" \in e \/ "dns" \in e \/ "timeout" \notin e

IsClientDisconnect(e) == e \cap {"canceled", "reset"} # {}

\* The text of an error is as distinct as what is known of it.
CopyErrText(e) == IF IsClientDisconnect(e) THEN Canceled ELSE e

StatusFromErr(e) == IF "timeout" \in e THEN 504 ELSE 502

----------------------------------------------------------------------------
Init ==
  /\ pc = "serve" /\ i = 0
  /\ hungUp = FALSE
  /\ head = 0 /\ status = 0 /\ err = NoError
  /\ total = 0 /\ declared = FALSE /\ delivered = 0 /\ blob = 0
  /\ rows = <<>>
  /\ end = "none"

\* The client goes away: what is being sent to it, or read for it, fails.
HangUp ==
  /\ pc # "done" /\ ~hungUp
  /\ hungUp' = TRUE
  /\ UNCHANGED <<pc, i, head, status, err, body, rows, end>>

\* decodeRequestBody and parseRequest: an encoding nobody knows, a body that
\* is too large before or after decoding, that cannot be decoded or is no JSON.
BadRequest == {400, 413, 415}

\* ServeHTTP before the loop: a bad body, or no provider serves the model.
Refuse ==
  /\ pc = "serve"
  /\ head' \in BadRequest \cup {404}
  /\ end' = "clean"
  /\ pc' = "done"
  /\ UNCHANGED <<i, hungUp, status, err, body, rows>>

Accept ==
  /\ pc = "serve"
  /\ pc' = "loop"
  /\ UNCHANGED <<i, hungUp, head, status, err, body, rows, end>>

----------------------------------------------------------------------------
\* The next round of ServeHTTP's loop: forward starts a new record.
Attempt ==
  /\ pc = "loop" /\ i < N
  /\ i' = i + 1
  /\ status' = 0 /\ blob' = 0 /\ err' = NoError
  /\ pc' = "forward"
  /\ UNCHANGED <<hungUp, head, total, declared, delivered, rows, end>>

\* rewriteRequest: stream_options is no JSON object.  That depends on the
\* request alone, so it is the first provider's attempt that fails.
RewriteFails ==
  /\ pc = "forward" /\ i = 1
  /\ status' = 400
  /\ err' = PlainError
  /\ head' = 400
  /\ pc' = "record"
  /\ UNCHANGED <<i, hungUp, body, rows, end>>

\* client.Do; the transport does not start a request that is canceled.
Send ==
  /\ pc = "forward"
  /\ IF hungUp THEN err' = Canceled /\ pc' = "record"
               ELSE err' = NoError /\ pc' = "sent"
  /\ UNCHANGED <<i, hungUp, head, status, body, rows, end>>

\* client.Do returns an error of the transport.
DoFails ==
  /\ pc = "sent"
  /\ err' \in TransportErrors
  /\ pc' = "record"
  /\ UNCHANGED <<i, hungUp, head, status, body, rows, end>>

\* client.Do gives up: the request's context was canceled.
DoCanceled ==
  /\ pc = "sent" /\ hungUp
  /\ err' = Canceled
  /\ pc' = "record"
  /\ UNCHANGED <<i, hungUp, head, status, body, rows, end>>

\* An outage status: nothing of it is passed on.
OutageHead ==
  /\ pc = "sent"
  /\ \E s \in Statuses :
       /\ IsCatastrophic(NoError, s)
       /\ status' = s
  /\ pc' = "drain"
  /\ UNCHANGED <<i, hungUp, head, err, body, rows, end>>

\* io.ReadAll(LimitReader(resp.Body, maxStatusBlob)) returns; an error of the
\* read is dropped, so an aborted one looks like a short body.
OutageRead ==
  /\ blob' \in 0 .. Least(MaxBody, StatusCap)
  /\ err' = PlainError
  /\ pc' = "record"
  /\ UNCHANGED <<i, hungUp, head, status, total, declared, delivered, rows, end>>

\* The body ends, breaks or reaches the limit.
DrainOutage == pc = "drain" /\ OutageRead

\* The read is canceled.
DrainCanceled == pc = "drain" /\ hungUp /\ OutageRead

\* Any other status is sent to the client at once.  The upstream's
\* Content-Length goes with it unless the body is an SSE stream.
CopyHead ==
  /\ pc = "sent"
  /\ \E s \in Statuses :
       /\ ~IsCatastrophic(NoError, s)
       /\ status' = s
       /\ head' = s
  /\ total' \in 0 .. MaxBody
  /\ declared' \in BOOLEAN
  /\ delivered' = 0
  /\ pc' = "copy"
  /\ UNCHANGED <<i, hungUp, err, blob, rows, end>>

\* Mutant: the log does not take a chunk that it cannot take whole.
CopyChunkWhole ==
  /\ pc = "copy"
  /\ \E n \in 1 .. total - delivered :
       /\ delivered' = delivered + n
       /\ blob' = IF blob + n <= LogCap THEN blob + n ELSE blob
  /\ UNCHANGED <<pc, i, hungUp, head, status, err, total, declared, rows, end>>

\* io.MultiWriter: a chunk goes to the client, then to the capBuffer, which
\* takes what it has room for.  (Of an SSE stream it gets the events that the
\* coalescing writer puts out, the subject of SSELog; sizes there may differ.)
CopyChunk ==
  /\ pc = "copy"
  /\ \E n \in 1 .. total - delivered :
       delivered' = delivered + n /\ blob' = Least(blob + n, LogCap)
  /\ UNCHANGED <<pc, i, hungUp, head, status, err, total, declared, rows, end>>

\* The upstream body ends, or breaks before its end.
CopyEnds ==
  /\ pc = "copy"
  /\ \/ delivered = total /\ err' = NoError
     \/ delivered < total /\ err' \in {PlainError, {"error", "timeout"}, Reset}
  /\ pc' = "record"
  /\ UNCHANGED <<i, hungUp, head, status, body, rows, end>>

\* Mutant: errors of writing to the client are ignored, reads go on.
CopyCanceledIgnored ==
  /\ pc = "copy" /\ hungUp
  /\ delivered' = total
  /\ UNCHANGED <<pc, i, hungUp, head, status, err, total, declared, blob, rows,
                 end>>

\* The client's departure ends the copy: a canceled read or a failed write.
CopyCanceled ==
  /\ pc = "copy" /\ hungUp
  /\ err' \in {Canceled, Reset}
  /\ pc' = "record"
  /\ UNCHANGED <<i, hungUp, head, status, body, rows, end>>

\* Mutant: a canceled attempt is not recorded.
RecordUnlessCanceled ==
  /\ pc = "record"
  /\ rows' = IF IsClientDisconnect(err) THEN rows
             ELSE Append(rows, [provider |-> i, status |-> status,
                                error |-> CopyErrText(err), blob |-> blob])
  /\ pc' = "decide"
  /\ UNCHANGED <<i, hungUp, head, status, err, body, end>>

\* logCall: the handler waits for the insert.
Record ==
  /\ pc = "record"
  /\ rows' = Append(rows, [provider |-> i, status |-> status,
                           error |-> CopyErrText(err), blob |-> blob])
  /\ pc' = "decide"
  /\ UNCHANGED <<i, hungUp, head, status, err, body, end>>

----------------------------------------------------------------------------
\* The rest of ServeHTTP's loop body.  When the handler returns, net/http ends
\* the response: a body shorter than its Content-Length by closing the
\* connection, any other one like a complete body.
CleanEnd == declared => delivered = total

Wrote ==
  /\ pc = "decide" /\ head # 0
  /\ end' = IF CleanEnd THEN "clean" ELSE "cut"
  /\ pc' = "done"
  /\ UNCHANGED <<i, hungUp, head, status, err, body, rows>>

ClientGone ==
  /\ pc = "decide" /\ head = 0
  /\ "canceled" \in err
  /\ pc' = "done"
  /\ UNCHANGED <<i, hungUp, head, status, err, body, rows, end>>

\* Mutant: the tracker is not asked whether a response has begun.
FailOverAnyway ==
  /\ pc = "decide"
  /\ IsCatastrophic(err, 0)
  /\ pc' = "loop"
  /\ UNCHANGED <<i, hungUp, head, status, err, body, rows, end>>

FailOver ==
  /\ pc = "decide" /\ head = 0
  /\ IsCatastrophic(err, 0)
  /\ pc' = "loop"
  /\ UNCHANGED <<i, hungUp, head, status, err, body, rows, end>>

\* Mutant: no return after the error was written.
GatewayErrorGoesOn ==
  /\ pc = "decide" /\ head = 0
  /\ "canceled" \notin err /\ ~IsCatastrophic(err, 0)
  /\ head' = StatusFromErr(err)
  /\ pc' = "loop"
  /\ UNCHANGED <<i, hungUp, status, err, body, rows, end>>

\* A timeout after the provider was reached.
GatewayError ==
  /\ pc = "decide" /\ head = 0
  /\ "canceled" \notin err /\ ~IsCatastrophic(err, 0)
  /\ head' = StatusFromErr(err)
  /\ end' = "clean"
  /\ pc' = "done"
  /\ UNCHANGED <<i, hungUp, status, err, body, rows>>

\* All upstreams unavailable.
AllUnavailable ==
  /\ pc = "loop" /\ i = N
  /\ head' = 502
  /\ end' = "clean"
  /\ pc' = "done"
  /\ UNCHANGED <<i, hungUp, status, err, body, rows>>

\* What ends a wait for an upstream once the context is canceled.
CancelWait == DoCanceled \/ DrainCanceled \/ CopyCanceled

\* What an upstream, or the transport on its behalf, does in its own time.
Upstream ==
  DoFails \/ OutageHead \/ CopyHead \/ DrainOutage \/ CopyChunk \/ CopyEnds

\* What the handler does without waiting for anyone but the call log.
Handler ==
  \/ Refuse \/ Accept \/ Attempt \/ RewriteFails \/ Send \/ Record
  \/ Wrote \/ ClientGone \/ FailOver \/ GatewayError \/ AllUnavailable

Next == Handler \/ CancelWait \/ Upstream \/ HangUp

Spec == Init /\ [][Next]_vars

\* The handler runs and a canceled context wakes it.  An upstream owes
\* nothing, there is no timeout on its answer, and the client may stay.
FairSpec == Spec /\ WF_vars(Handler) /\ WF_vars(CancelWait)

----------------------------------------------------------------------------
Facts == {"error", "dial", "dns", "timeout", "reset", "canceled"}
Row == [provider : 1 .. N, status : Nat, error : SUBSET Facts, blob : Nat]

\* Every variable has its type.
TypeOK ==
  /\ pc \in {"serve", "loop", "forward", "sent", "drain", "copy", "record",
              "decide", "done"}
  /\ i \in 0 .. N
  /\ hungUp \in BOOLEAN
  /\ head \in Nat
  /\ status \in Nat
  /\ err \subseteq Facts
  /\ total \in Nat /\ delivered \in 0 .. total
  /\ declared \in BOOLEAN
  /\ blob \in Nat
  /\ rows \in Seq(Row)
  /\ end \in {"none", "clean", "cut"}

\* Each provider attempt writes one llm_calls row, in the order of the
\* attempts and whatever way it ended; the synthetic final error writes none.
RowPerAttempt ==
  /\ Len(rows) = IF pc \in {"serve", "loop", "decide", "done"} THEN i ELSE i - 1
  /\ \A k \in 1 .. Len(rows) : rows[k].provider = k

\* A row that lets the next provider be tried: an outage status, or no HTTP
\* response, and not for a timeout of a request that may have arrived.
OutageRow(r) ==
  \/ r.status \in {502, 503, 504}
  \/ r.status = 0 /\ ("timeout" \in r.error => r.error \cap {"dial", "dns"} # {})

\* What the client got and what the log says agree: nobody is left without an
\* answer but a client that hung up; 502 is the proxy's own, after every
\* provider was out; 504 is about a provider that was reached; any other
\* status is that of the last row, and all rows before it are outages.
AnswerFitsLog ==
  pc = "done" /\ i > 0 =>
    /\ head = 0 => hungUp
    /\ head = 502 => i = N /\ OutageRow(rows[i])
    /\ head = 504 => rows[i].status = 0 /\ "dial" \notin err
    /\ head \notin {0, 502, 504} => rows[i].status = head
    /\ \A k \in 1 .. i - 1 : OutageRow(rows[k])

\* The stored response is what the client was sent, up to the cap; of an
\* outage response at most its own cap, and of nothing nothing.
BlobIsCopy ==
  pc \in {"record", "decide"} =>
    /\ head # 0 => blob = Least(delivered, LogCap)
    /\ head = 0 => blob <= StatusCap /\ (status = 0 => blob = 0)

\* Once a status line was sent, the response belongs to one provider: no
\* other one is tried and the status stays.
NothingAfterHead == [][head # 0 => head' = head /\ i' = i]_vars

\* The proxy gives the client what Failover promises.
Promise == INSTANCE Failover WITH
  tried <- i,
  verdict <- IF \/ pc \in {"serve", "loop"}
                \/ pc = "done" /\ (i = 0 \/ head = 502)
             THEN "outage" ELSE "pending",
  answer <- IF head = 0 THEN (IF pc = "done" THEN "dropped" ELSE "none")
            ELSE IF i = 0 THEN "refused"
            ELSE IF head = 502 THEN "unavailable" ELSE "current"

KeepsPromise == Promise!FSpec

\* A client that hung up does not keep the handler: the canceled context ends
\* every wait for an upstream, also that for an outage body.
HangUpEnds == hungUp ~> pc = "done"

\* "canceled when the client hung up" (README.md:233).
CanceledMeansHangUp ==
  \A k \in 1 .. Len(rows) : rows[k].error = Canceled => hungUp
=============================================================================
