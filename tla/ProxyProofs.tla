---------------------------- MODULE ProxyProofs ----------------------------
(***************************************************************************)
(* Proofs about Proxy, for any number of providers, statuses and caps: the *)
(* answer, the log rows and the stored blob fit together, and a request    *)
(* implements Failover.                                                    *)
(***************************************************************************)
EXTENDS Proxy, TLAPS

OutageStatuses == {502, 503, 504}

\* Where the handler is determines what is known of the current attempt.
StageInv ==
  /\ pc = "serve" => i = 0
  /\ pc \notin {"serve", "loop", "done"} => i >= 1
  /\ pc \in {"serve", "loop", "forward", "sent", "drain"} => head = 0
  /\ head = 0 => delivered = 0
  /\ pc \in {"forward", "sent"} => status = 0
  /\ pc \in {"forward", "sent", "drain"} => blob = 0
  /\ pc = "drain" => status \in OutageStatuses
  /\ pc = "copy" => head # 0 /\ blob = Least(delivered, LogCap)
  /\ head # 0 /\ pc # "done" => head = status /\ status \notin OutageStatuses

\* What forward leaves behind when it has no response to pass on.
ErrorInv ==
  /\ pc \in {"record", "decide"} /\ head = 0 =>
       /\ err # NoError
       /\ status \in {0} \cup OutageStatuses
       /\ "canceled" \in err => hungUp
       /\ status # 0 => err = PlainError

\* The rows of the attempts before the current one are outages, the current
\* one's row has its status.
RowsInv ==
  /\ \A k \in 1 .. Len(rows) : rows[k].status \in Nat
  /\ \A k \in 1 .. Len(rows) : k < i \/ pc = "loop" => OutageRow(rows[k])
  /\ pc = "decide" => rows[i].status = status /\ rows[i].error = CopyErrText(err)

CoreInv == StageInv /\ ErrorInv /\ BlobIsCopy

LogInv == RowPerAttempt /\ RowsInv

----------------------------------------------------------------------------
\* Every step keeps every variable in its type.
LEMMA TypeStep == TypeOK /\ CoreInv /\ [Next]_vars => TypeOK'
<1> SUFFICES ASSUME TypeOK, CoreInv, [Next]_vars PROVE TypeOK'
  OBVIOUS
<1> USE ProxyAssumption DEF TypeOK, body, NoError, PlainError, Canceled, Reset, Facts
<1>1. CASE Refuse \/ Accept \/ Attempt
  <2>1. CASE Refuse
    BY <2>1 DEF Refuse, BadRequest
  <2>2. CASE Accept
    BY <2>2 DEF Accept
  <2>3. CASE Attempt
    BY <2>3 DEF Attempt
  <2>4. QED
    BY <1>1, <2>1, <2>2, <2>3
<1>2. CASE RewriteFails \/ Send
  BY <1>2 DEF RewriteFails, Send
<1>3. CASE DoFails \/ DoCanceled
  BY <1>3 DEF DoFails, DoCanceled, TransportErrors
<1>4. CASE OutageHead \/ DrainOutage \/ DrainCanceled
  <2>1. CASE OutageHead
    BY <2>1 DEF OutageHead
  <2>2. CASE DrainOutage \/ DrainCanceled
    <3>1. blob' \in Nat
      BY <2>2 DEF DrainOutage, DrainCanceled, OutageRead, Least
    <3>2. QED
      BY <2>2, <3>1 DEF DrainOutage, DrainCanceled, OutageRead
  <2>3. QED
    BY <1>4, <2>1, <2>2
<1>5. CASE CopyHead
  BY <1>5 DEF CopyHead
<1>6. CASE CopyChunk
  BY <1>6 DEF CopyChunk, Least
<1>7. CASE CopyEnds \/ CopyCanceled
  BY <1>7 DEF CopyEnds, CopyCanceled
<1>8. CASE Record
  <2>1. [provider |-> i, status |-> status, error |-> CopyErrText(err),
         blob |-> blob] \in Row
    <3>1. i \in 1 .. N
      BY <1>8 DEF Record, CoreInv, StageInv
    <3>2. CopyErrText(err) \in SUBSET Facts
      BY DEF CopyErrText, Facts
    <3>3. QED
      BY <3>1, <3>2 DEF Row
  <2>2. rows' \in Seq(Row)
    BY <1>8, <2>1 DEF Record
  <2>3. QED
    BY <1>8, <2>2 DEF Record
<1>9. CASE Wrote \/ ClientGone \/ FailOver
  <2>1. CASE Wrote
    <3>1. end' \in {"clean", "cut"}
      BY <2>1 DEF Wrote
    <3>2. pc' = "done" /\ UNCHANGED <<i, hungUp, head, status, err, body, rows>>
      BY <2>1 DEF Wrote
    <3>3. QED
      BY <3>1, <3>2
  <2>2. CASE ClientGone
    BY <2>2 DEF ClientGone
  <2>3. CASE FailOver
    BY <2>3 DEF FailOver
  <2>4. QED
    BY <1>9, <2>1, <2>2, <2>3
<1>10. CASE GatewayError \/ AllUnavailable
  <2>1. StatusFromErr(err) \in Nat
    BY DEF StatusFromErr
  <2>2. CASE GatewayError
    <3>1. head' \in Nat
      BY <2>1, <2>2 DEF GatewayError
    <3>2. QED
      BY <2>2, <3>1 DEF GatewayError
  <2>3. CASE AllUnavailable
    BY <2>3 DEF AllUnavailable
  <2>4. QED
    BY <1>10, <2>2, <2>3
<1>11. CASE HangUp
  BY <1>11 DEF HangUp
<1>12. CASE UNCHANGED vars
  BY <1>12 DEF vars
<1>13. QED
  BY <1>1, <1>2, <1>3, <1>4, <1>5, <1>6, <1>7, <1>8, <1>9, <1>10, <1>11, <1>12
  DEF Next, Handler, CancelWait, Upstream

\* Every step keeps what the handler's place says of the attempt.
LEMMA CoreStep == TypeOK /\ CoreInv /\ [Next]_vars => CoreInv'
<1> SUFFICES ASSUME TypeOK, CoreInv, [Next]_vars PROVE CoreInv'
  OBVIOUS
<1>t. /\ i \in Nat /\ N \in Nat /\ blob \in Nat /\ delivered \in Nat
      /\ LogCap \in Nat /\ StatusCap \in Nat /\ status \in Nat /\ head \in Nat
  BY ProxyAssumption DEF TypeOK
<1> USE DEF CoreInv, StageInv, ErrorInv, BlobIsCopy, OutageStatuses, body,
            NoError, PlainError, Canceled, Reset
<1>1. CASE Refuse \/ Accept \/ Attempt
  BY <1>1, <1>t DEF Refuse, BadRequest, Accept, Attempt
<1>2. CASE RewriteFails \/ Send
  BY <1>2, <1>t DEF RewriteFails, Send, Least
<1>3. CASE DoFails \/ DoCanceled
  BY <1>3, <1>t DEF DoFails, DoCanceled, TransportErrors
<1>4. CASE OutageHead
  BY <1>4, <1>t DEF OutageHead, IsCatastrophic
<1>5. CASE DrainOutage \/ DrainCanceled
  BY <1>5, <1>t, ProxyAssumption DEF DrainOutage, DrainCanceled, OutageRead, Least
<1>6. CASE CopyHead
  BY <1>6, <1>t, ProxyAssumption DEF CopyHead, IsCatastrophic, Least
<1>7. CASE CopyChunk
  BY <1>7, <1>t DEF CopyChunk, Least
<1>8. CASE CopyEnds \/ CopyCanceled
  BY <1>8, <1>t DEF CopyEnds, CopyCanceled
<1>9. CASE Record
  BY <1>9, <1>t DEF Record
<1>10. CASE Wrote \/ ClientGone \/ FailOver
  <2>1. CASE FailOver
    <3>1. pc = "decide" /\ pc' = "loop" /\ head' = 0 /\ head = 0
          /\ delivered' = delivered
      BY <2>1 DEF FailOver
    <3>2. delivered = 0
      BY <3>1
    <3>3. QED
      BY <3>1, <3>2, <1>t DEF FailOver
  <2>2. CASE Wrote \/ ClientGone
    <3>1. pc' = "done" /\ head' = head /\ delivered' = delivered
      BY <2>2 DEF Wrote, ClientGone
    <3>2. QED
      BY <3>1
  <2>3. QED
    BY <1>10, <2>1, <2>2
<1>11. CASE GatewayError \/ AllUnavailable
  <2>1. pc' = "done" /\ delivered' = 0
    BY <1>11 DEF GatewayError, AllUnavailable
  <2>2. QED
    BY <2>1
<1>12. CASE HangUp
  BY <1>12, <1>t DEF HangUp
<1>13. CASE UNCHANGED vars
  BY <1>13, <1>t DEF vars
<1>14. QED
  BY <1>1, <1>2, <1>3, <1>4, <1>5, <1>6, <1>7, <1>8, <1>9, <1>10, <1>11, <1>12,
     <1>13
  DEF Next, Handler, CancelWait, Upstream

----------------------------------------------------------------------------
\* Only Record touches the rows, and it appends the current attempt's.
LEMMA LogStep ==
  TypeOK /\ TypeOK' /\ CoreInv /\ LogInv /\ [Next]_vars => LogInv'
<1> SUFFICES ASSUME TypeOK, TypeOK', CoreInv, LogInv, [Next]_vars
             PROVE  LogInv'
  OBVIOUS
<1>t. i \in Nat /\ N \in Nat /\ rows \in Seq(Row) /\ Len(rows) \in Nat
  BY ProxyAssumption DEF TypeOK
<1> USE DEF LogInv, RowPerAttempt, RowsInv
<1>1. CASE Record
  <2>1. /\ pc = "record" /\ pc' = "decide" /\ i' = i /\ status' = status
        /\ Len(rows) = i - 1 /\ i >= 1
    BY <1>1 DEF Record, CoreInv, StageInv
  <2>2. /\ Len(rows') = i
        /\ \A k \in 1 .. Len(rows) : rows'[k] = rows[k]
        /\ rows'[i].provider = i /\ rows'[i].status = status
        /\ rows'[i].error = CopyErrText(err) /\ err' = err
    BY <1>1, <1>t, <2>1 DEF Record
  <2>3. status \in Nat
    BY DEF TypeOK
  <2>4. \A k \in 1 .. i : k < i => k \in 1 .. Len(rows)
    BY <2>1, <1>t
  <2>5. \A k \in 1 .. i : k < i \/ k = i
    BY <1>t
  <2>6. \A k \in 1 .. i : k < i => OutageRow(rows'[k])
    BY <2>1, <2>2, <2>4 DEF OutageRow
  <2>7. QED
    BY <2>1, <2>2, <2>3, <2>4, <2>5, <2>6
<1>2. CASE FailOver
  <2>1. /\ pc = "decide" /\ pc' = "loop" /\ rows' = rows /\ i' = i
        /\ Len(rows) = i
    BY <1>2 DEF FailOver
  <2>2. /\ status \in {0} \cup OutageStatuses
        /\ rows[i].status = status /\ rows[i].error = CopyErrText(err)
    BY <1>2 DEF FailOver, CoreInv, ErrorInv
  <2>3. "timeout" \in err => "dial" \in err \/ "dns" \in err
    BY <1>2 DEF FailOver, IsCatastrophic
  <2>4. OutageRow(rows[i])
    BY <2>2, <2>3 DEF OutageRow, OutageStatuses, CopyErrText, Canceled
  <2>5. QED
    BY <2>1, <2>4, <1>t
<1>3. CASE Accept
  BY <1>3, <1>t DEF Accept, CoreInv, StageInv
<1>4. CASE Attempt
  BY <1>4, <1>t DEF Attempt
<1>5. CASE AllUnavailable \/ Refuse
  BY <1>5, <1>t DEF AllUnavailable, Refuse, BadRequest
<1>6. ASSUME UNCHANGED <<rows, i>>, pc # "loop", pc' # "loop",
             pc' = "decide" => pc = "decide" /\ status' = status /\ err' = err,
             (pc \in {"serve", "decide", "done"}) <=> (pc' \in {"serve", "decide", "done"})
      PROVE  LogInv'
  BY <1>6, <1>t
<1>7. CASE RewriteFails \/ Send \/ DoFails \/ DoCanceled \/ OutageHead
  BY <1>7, <1>6
  DEF RewriteFails, Send, DoFails, DoCanceled, OutageHead
<1>8. CASE DrainOutage \/ DrainCanceled \/ CopyHead \/ CopyChunk \/ CopyEnds
           \/ CopyCanceled
  BY <1>8, <1>6
  DEF DrainOutage, DrainCanceled, OutageRead, CopyHead, CopyChunk, CopyEnds,
      CopyCanceled
<1>9. CASE Wrote \/ ClientGone \/ GatewayError
  BY <1>9, <1>6 DEF Wrote, ClientGone, GatewayError
<1>10. CASE HangUp
  BY <1>10, <1>t DEF HangUp
<1>11. CASE UNCHANGED vars
  BY <1>11, <1>t DEF vars
<1>12. QED
  BY <1>1, <1>2, <1>3, <1>4, <1>5, <1>7, <1>8, <1>9, <1>10, <1>11
  DEF Next, Handler, CancelWait, Upstream

----------------------------------------------------------------------------
\* The request ends in four ways; each fits the rows.
LEMMA AnswerStep ==
  TypeOK /\ CoreInv /\ LogInv /\ AnswerFitsLog /\ [Next]_vars => AnswerFitsLog'
<1> SUFFICES ASSUME TypeOK, CoreInv, LogInv, AnswerFitsLog, [Next]_vars
             PROVE  AnswerFitsLog'
  OBVIOUS
<1>t. /\ i \in Nat /\ N \in Nat /\ i <= N /\ rows \in Seq(Row)
      /\ Len(rows) \in Nat
  BY ProxyAssumption DEF TypeOK
<1>1. ASSUME pc' # "done" PROVE AnswerFitsLog'
  BY <1>1 DEF AnswerFitsLog
<1>2. CASE Refuse
  BY <1>2 DEF Refuse, BadRequest, AnswerFitsLog, CoreInv, StageInv
<1>3. ASSUME pc = "decide" \/ pc = "loop"
      PROVE  Len(rows) = i /\ \A k \in 1 .. i - 1 : OutageRow(rows[k])
  BY <1>3, <1>t DEF LogInv, RowPerAttempt, RowsInv
<1>4. ASSUME pc = "decide" PROVE rows[i].status = status /\ i >= 1
  BY <1>4 DEF LogInv, RowsInv, CoreInv, StageInv
<1>5. CASE Wrote
  <2>1. /\ pc = "decide" /\ head # 0 /\ head' = head /\ rows' = rows /\ i' = i
        /\ head = status /\ head \notin OutageStatuses
    BY <1>5 DEF Wrote, CoreInv, StageInv
  <2>2. QED
    BY <2>1, <1>3, <1>4, <1>t DEF AnswerFitsLog, OutageStatuses
<1>6. CASE ClientGone
  <2>1. /\ pc = "decide" /\ head = 0 /\ head' = 0 /\ rows' = rows /\ i' = i
        /\ hungUp /\ hungUp' = hungUp
    BY <1>6 DEF ClientGone, CoreInv, ErrorInv
  <2>2. QED
    BY <2>1, <1>3, <1>4, <1>t DEF AnswerFitsLog
<1>7. CASE GatewayError
  <2>1. /\ pc = "decide" /\ head = 0 /\ rows' = rows /\ i' = i /\ err' = err
        /\ head' = StatusFromErr(err)
        /\ "canceled" \notin err /\ ~IsCatastrophic(err, 0)
    BY <1>7 DEF GatewayError
  <2>2. err # NoError /\ (status # 0 => err = PlainError)
    BY <2>1 DEF CoreInv, ErrorInv
  <2>3. "timeout" \in err /\ "dial" \notin err
    BY <2>1, <2>2 DEF IsCatastrophic
  <2>4. head' = 504 /\ status = 0
    BY <2>1, <2>2, <2>3 DEF StatusFromErr, PlainError
  <2>5. QED
    BY <2>1, <2>3, <2>4, <1>3, <1>4, <1>t DEF AnswerFitsLog
<1>8. CASE AllUnavailable
  <2>1. pc = "loop" /\ i = N /\ head' = 502 /\ rows' = rows /\ i' = i
    BY <1>8 DEF AllUnavailable
  <2>2. \A k \in 1 .. i : OutageRow(rows[k])
    BY <2>1, <1>3 DEF LogInv, RowsInv
  <2>3. i >= 1
    BY <2>1, ProxyAssumption
  <2>4. OutageRow(rows[i])
    BY <2>2, <2>3, <1>t
  <2>5. QED
    BY <2>1, <2>4, <1>3, <1>t DEF AnswerFitsLog, OutageRow
<1>9. CASE UNCHANGED vars
  BY <1>9 DEF vars, AnswerFitsLog
<1>10. CASE Handler
  BY <1>1, <1>2, <1>5, <1>6, <1>7, <1>8, <1>10
  DEF Handler, Accept, Attempt, RewriteFails, Send, Record, FailOver
<1>11. CASE CancelWait \/ Upstream \/ HangUp
  BY <1>1, <1>11
  DEF CancelWait, Upstream, HangUp, DoCanceled, DrainCanceled, CopyCanceled,
      DoFails, OutageHead, CopyHead, DrainOutage, OutageRead, CopyChunk, CopyEnds
<1>12. QED
  BY <1>9, <1>10, <1>11 DEF Next

IInv == TypeOK /\ CoreInv /\ LogInv /\ AnswerFitsLog

\* A request that has not been read has answered and logged nothing.
LEMMA InitIInv == Init => IInv
<1> SUFFICES ASSUME Init PROVE IInv
  OBVIOUS
<1>1. TypeOK
  <2>1. rows \in Seq(Row)
    BY DEF Init
  <2>2. delivered \in 0 .. total /\ i \in 0 .. N
    BY ProxyAssumption DEF Init
  <2>3. QED
    BY <2>1, <2>2 DEF Init, TypeOK, NoError
<1>2. CoreInv
  BY DEF Init, CoreInv, StageInv, ErrorInv, BlobIsCopy
<1>3. LogInv
  <2>1. Len(rows) = 0
    BY DEF Init
  <2>2. QED
    BY <2>1 DEF Init, LogInv, RowPerAttempt, RowsInv
<1>4. AnswerFitsLog
  BY DEF Init, AnswerFitsLog
<1>5. QED
  BY <1>1, <1>2, <1>3, <1>4 DEF IInv

\* The inductive invariant of the handler.
LEMMA Invariance == Spec => []IInv
<1>1. IInv /\ [Next]_vars => IInv'
  BY TypeStep, CoreStep, LogStep, AnswerStep DEF IInv
<1>2. QED
  BY <1>1, InitIInv, PTL DEF Spec

\* TypeOK holds in every state, for any number of providers.
THEOREM TypeCorrect == Spec => []TypeOK
<1>1. IInv => TypeOK
  BY DEF IInv
<1>2. QED
  BY <1>1, Invariance, PTL

\* Every attempt is in the log exactly once, and in order.
THEOREM OneRowPerAttempt == Spec => []RowPerAttempt
<1>1. IInv => RowPerAttempt
  BY DEF IInv, LogInv
<1>2. QED
  BY <1>1, Invariance, PTL

\* What the client got and what the log says of the request agree.
THEOREM AnswerAndLogAgree == Spec => []AnswerFitsLog
<1>1. IInv => AnswerFitsLog
  BY DEF IInv
<1>2. QED
  BY <1>1, Invariance, PTL

\* The stored response is the copied body, up to the cap.
THEOREM StoredIsCopied == Spec => []BlobIsCopy
<1>1. IInv => BlobIsCopy
  BY DEF IInv, CoreInv
<1>2. QED
  BY <1>1, Invariance, PTL

\* No other provider is tried, and no other status sent, once one was.
THEOREM FirstHeadIsFinal == Spec => NothingAfterHead
<1>1. IInv /\ [Next]_vars => [head # 0 => head' = head /\ i' = i]_vars
  <2> SUFFICES ASSUME IInv, Next, head # 0 PROVE head' = head /\ i' = i
    BY DEF vars
  <2>1. pc \notin {"serve", "loop", "forward", "sent", "drain"}
    BY DEF IInv, CoreInv, StageInv
  <2>2. CASE Handler
    BY <2>1, <2>2
    DEF Handler, Refuse, BadRequest, Accept, Attempt, RewriteFails, Send, Record, Wrote,
        ClientGone, FailOver, GatewayError, AllUnavailable
  <2>3. CASE CancelWait \/ Upstream \/ HangUp
    BY <2>1, <2>3
    DEF CancelWait, Upstream, HangUp, DoCanceled, DrainCanceled, CopyCanceled,
        DoFails, OutageHead, CopyHead, DrainOutage, OutageRead, CopyChunk, CopyEnds
  <2>4. QED
    BY <2>2, <2>3 DEF Next
<1>2. QED
  BY <1>1, Invariance, PTL DEF Spec, NothingAfterHead

----------------------------------------------------------------------------
\* The refinement mapping, by name.
verdictBar == IF \/ pc \in {"serve", "loop"}
                 \/ pc = "done" /\ (i = 0 \/ head = 502)
              THEN "outage" ELSE "pending"
answerBar == IF head = 0 THEN (IF pc = "done" THEN "dropped" ELSE "none")
             ELSE IF i = 0 THEN "refused"
             ELSE IF head = 502 THEN "unavailable" ELSE "current"

\* A request keeps Failover's promise: providers in order, the next one only
\* after an outage, and one final answer.
THEOREM ImplementsFailover == Spec => KeepsPromise
<1> USE DEF Promise!fvars, verdictBar, answerBar
<1>1. Init => Promise!FInit
  BY DEF Init, Promise!FInit
<1>2. IInv /\ [Next]_vars => [Promise!FNext]_(Promise!fvars)
  <2> SUFFICES ASSUME IInv, [Next]_vars,
                      ~UNCHANGED <<i, verdictBar, answerBar>>
               PROVE  Promise!FNext
    OBVIOUS
  <2>t. i \in Nat /\ N \in Nat /\ i <= N
    BY ProxyAssumption DEF IInv, TypeOK
  <2> USE DEF IInv, CoreInv, StageInv
  <2>1. CASE Refuse
    BY <2>1 DEF Refuse, BadRequest, Promise!FNext, Promise!Refuse
  <2>2. CASE Accept \/ HangUp \/ Record
    BY <2>2 DEF Accept, HangUp, Record
  <2>3. CASE Attempt
    BY <2>3, <2>t DEF Attempt, Promise!FNext, Promise!Try
  <2>4. CASE RewriteFails
    BY <2>4, <2>t DEF RewriteFails, Promise!FNext, Promise!Answer
  <2>5. CASE Send \/ DoFails \/ DoCanceled
    BY <2>5 DEF Send, DoFails, DoCanceled
  <2>6. CASE OutageHead \/ DrainOutage \/ DrainCanceled
    BY <2>6 DEF OutageHead, DrainOutage, DrainCanceled, OutageRead
  <2>7. CASE CopyHead
    <3>1. /\ pc = "sent" /\ pc' = "copy" /\ i' = i /\ head = 0 /\ i >= 1
          /\ head' \notin {0, 502}
      BY <2>7, ProxyAssumption DEF CopyHead, IsCatastrophic
    <3>2. QED
      BY <3>1, <2>t DEF Promise!FNext, Promise!Answer
  <2>8. CASE CopyChunk \/ CopyEnds \/ CopyCanceled
    BY <2>8 DEF CopyChunk, CopyEnds, CopyCanceled
  <2>9. CASE Wrote
    BY <2>9 DEF Wrote, OutageStatuses
  <2>10. CASE ClientGone
    BY <2>10, <2>t DEF ClientGone, Promise!FNext, Promise!Drop
  <2>11. CASE FailOver
    BY <2>11, <2>t DEF FailOver, Promise!FNext, Promise!Outage
  <2>12. CASE GatewayError
    <3>1. head' = 504
      BY <2>12
      DEF GatewayError, StatusFromErr, IsCatastrophic, ErrorInv
    <3>2. QED
      BY <2>12, <3>1, <2>t DEF GatewayError, Promise!FNext, Promise!Answer
  <2>13. CASE AllUnavailable
    BY <2>13, <2>t, ProxyAssumption
    DEF AllUnavailable, Promise!FNext, Promise!Unavailable
  <2>14. CASE UNCHANGED vars
    BY <2>14 DEF vars
  <2>15. QED
    BY <2>1, <2>2, <2>3, <2>4, <2>5, <2>6, <2>7, <2>8, <2>9, <2>10, <2>11,
       <2>12, <2>13, <2>14
    DEF Next, Handler, CancelWait, Upstream
<1>3. QED
  BY <1>1, <1>2, Invariance, PTL DEF Spec, KeepsPromise, Promise!FSpec
=============================================================================
