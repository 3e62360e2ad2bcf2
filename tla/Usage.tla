------------------------------- MODULE Usage -------------------------------
(***************************************************************************)
(* Token usage (usage.go): the usage objects a vendor reports, in its own  *)
(* field names and at its own place in a line of the response, are         *)
(* normalised and merged line by line into the totals of the call's row.   *)
(* The vendors are external: what they report, and when, is what the       *)
(* parser and its tests say they do.                                       *)
(***************************************************************************)
EXTENDS Integers

CONSTANTS
  Dialects,   \* the vendors of this instance
  Amounts,    \* token counts
  MaxLines    \* bound: lines of a response

Claude == {"anthropic", "breakdown"}
Caching == {"chat", "cached", "deepseek", "responses"} \cup Claude
Vendors == Caching \cup {"ollama", "tongyi", "qwen", "total"}

ASSUME UsageAssumption ==
  Dialects \subseteq Vendors /\ Amounts \subseteq Nat /\ MaxLines \in Nat

VARIABLES
  dialect,  \* the vendor of this call
  billed,   \* what the call really used: fresh, read, creation, out
  stage,    \* "open", "started" (prompt reported), "final" (all of it), "ended"
  told,     \* output tokens reported so far
  lines,    \* lines of the response so far
  usage     \* copySSE's totals

vars == <<dialect, billed, stage, told, lines, usage>>

----------------------------------------------------------------------------
\* usageFields: the counts a vendor may report; 0 when absent.
NoFields ==
  [prompt |-> 0, input |-> 0, completion |-> 0, output |-> 0, total |-> 0,
   read |-> 0, hit |-> 0, promptCached |-> 0, inputCached |-> 0, cached |-> 0,
   creation |-> 0, ephemeral |-> 0, miss |-> 0, promptEval |-> 0, eval |-> 0,
   image |-> 0]

\* The model a line names, if any.
NoModel == ""
Models == {NoModel, "model"}

NoUsage == [Input |-> 0, Output |-> 0, CacheRead |-> 0, CacheCreation |-> 0,
            Uncached |-> 0, ResponseModel |-> NoModel]

NotBelow(n) == IF n < 0 THEN 0 ELSE n

\* A count, or the next one the code asks for when it is zero.
OrElse(count, next) == IF count = 0 THEN next ELSE count

CacheReadOf(f) ==
  OrElse(f.read, OrElse(f.hit, OrElse(f.promptCached,
                                      OrElse(f.inputCached, f.cached))))
CacheCreationOf(f) == OrElse(f.creation, f.ephemeral)
OutputOf(f) == OrElse(f.completion, OrElse(f.output, f.eval))

FillUncached(u) ==
  IF u.Input = 0 THEN u
  ELSE [u EXCEPT !.Uncached = NotBelow(u.Input - u.CacheRead - u.CacheCreation)]

\* Mutant: input_tokens taken for the whole prompt, whoever reports it.
AsTokenUsageInputOnly(f) ==
  LET read == CacheReadOf(f)
      creation == CacheCreationOf(f)
      out == OutputOf(f)
      in == OrElse(f.prompt, OrElse(f.input, f.promptEval)) + f.image
      whole == IF in = 0 THEN NotBelow(f.total - out) ELSE in
      u == [Input |-> whole, Output |-> out, CacheRead |-> read,
            CacheCreation |-> creation, Uncached |-> f.miss, ResponseModel |-> NoModel]
  IN IF f.miss = 0 THEN FillUncached(u) ELSE u

\* asTokenUsage: Anthropic's input_tokens comes without the cached tokens,
\* DashScope's without top-level image_tokens; total_tokens is the last resort.
AsTokenUsage(f) ==
  LET read == CacheReadOf(f)
      creation == CacheCreationOf(f)
      out == OutputOf(f)
      in == OrElse(f.prompt, OrElse(f.input + f.read + creation, f.promptEval)) + f.image
      whole == IF in = 0 THEN NotBelow(f.total - out) ELSE in
      u == [Input |-> whole, Output |-> out, CacheRead |-> read,
            CacheCreation |-> creation, Uncached |-> f.miss, ResponseModel |-> NoModel]
  IN IF f.miss = 0 THEN FillUncached(u) ELSE u

Empty(u) == \A k \in DOMAIN NoUsage \ {"ResponseModel"} : u[k] = 0

\* Mutant: a count that is absent from a later object counts as 0.
MergeUsageAbsent(dst, src) ==
  IF Empty(src) /\ src.ResponseModel = NoModel THEN dst
  ELSE LET counts == [src EXCEPT !.ResponseModel = dst.ResponseModel,
                                 !.Uncached = dst.Uncached]
       IN IF src.Uncached # 0 THEN [counts EXCEPT !.Uncached = src.Uncached]
          ELSE FillUncached(counts)

\* mergeUsage: later counts replace earlier ones, zeros replace nothing, and
\* Uncached is worked out again unless the source has it.
MergeUsage(dst, src) ==
  IF Empty(src) /\ src.ResponseModel = NoModel THEN dst
  ELSE LET counts ==
             [Input |-> OrElse(src.Input, dst.Input),
              Output |-> OrElse(src.Output, dst.Output),
              CacheRead |-> OrElse(src.CacheRead, dst.CacheRead),
              CacheCreation |-> OrElse(src.CacheCreation, dst.CacheCreation),
              Uncached |-> dst.Uncached,
              ResponseModel |-> IF src.ResponseModel = NoModel THEN dst.ResponseModel
                                ELSE src.ResponseModel]
       IN IF src.Uncached # 0 THEN [counts EXCEPT !.Uncached = src.Uncached]
          ELSE FillUncached(counts)

WithModel(u, model) ==
  [Input |-> u.Input, Output |-> u.Output, CacheRead |-> u.CacheRead,
   CacheCreation |-> u.CacheCreation, Uncached |-> u.Uncached,
   ResponseModel |-> model]

\* What a usage object adds, if the line has one at this place; only a nested
\* one brings the name of the model with it.
AddPlace(out, line, place) ==
  IF place \notin DOMAIN line.at THEN out
  ELSE MergeUsage(out, WithModel(AsTokenUsage(line.at[place]),
                         IF place \in {"message", "response"} THEN line.model ELSE NoModel))

\* parseUsageJSON: the flat fields, then message.usage, response.usage, usage.
ParseUsage(line) ==
  LET flat == AddPlace(NoUsage, line, "flat")
      message == AddPlace(flat, line, "message")
      response == AddPlace(message, line, "response")
  IN WithModel(AddPlace(response, line, "usage"), line.model)

----------------------------------------------------------------------------
\* How each vendor reports a prompt of t.fresh + t.read + t.creation tokens
\* and t.out tokens of output.
InputOf(t) == t.fresh + t.read + t.creation

Vendor(t) ==
  [chat |-> [usage |-> [NoFields EXCEPT !.prompt = InputOf(t),
      !.promptCached = t.read, !.completion = t.out, !.total = InputOf(t) + t.out]],
   cached |-> [usage |-> [NoFields EXCEPT !.prompt = InputOf(t),
      !.cached = t.read, !.completion = t.out]],
   deepseek |-> [usage |-> [NoFields EXCEPT !.prompt = InputOf(t),
      !.hit = t.read, !.miss = t.fresh, !.completion = t.out]],
   responses |-> [response |-> [NoFields EXCEPT !.input = InputOf(t),
      !.inputCached = t.read, !.output = t.out, !.total = InputOf(t) + t.out]],
   anthropic |-> [usage |-> [NoFields EXCEPT !.input = t.fresh,
      !.read = t.read, !.creation = t.creation, !.output = t.out]],
   breakdown |-> [usage |-> [NoFields EXCEPT !.input = t.fresh,
      !.read = t.read, !.ephemeral = t.creation, !.output = t.out]],
   ollama |-> [flat |-> [NoFields EXCEPT !.promptEval = t.fresh, !.eval = t.out]],
   tongyi |-> [usage |-> [NoFields EXCEPT !.input = t.fresh, !.output = t.out,
      !.total = t.fresh + t.out]],
   qwen |-> [usage |-> [NoFields EXCEPT !.input = t.fresh \div 2,
      !.image = t.fresh - t.fresh \div 2, !.total = t.fresh]],
   total |-> [usage |-> [NoFields EXCEPT !.total = t.fresh + t.out]]]

\* What a vendor can bill: only Claude bills the creation of cache entries,
\* some cache nothing, and embeddings have no output.
CanBill(d, t) ==
  /\ d \notin Claude => t.creation = 0
  /\ d \notin Caching => t.read = 0
  /\ d \in {"qwen", "total"} => t.out = 0

\* Claude's message_start, and its message_delta of output tokens alone.
StartReport(t) == [message |-> Vendor(t)[dialect].usage]
DeltaReport(t) == [usage |-> [NoFields EXCEPT !.output = t.out]]

\* What the vendor may report next of t: Claude starts a stream with the
\* prompt, later reports may leave it out.
Reports(t) ==
  {Vendor(t)[dialect]}
    \cup (IF dialect \in Claude /\ stage = "open" THEN {StartReport(t)} ELSE {})
    \cup (IF dialect \in Claude /\ stage # "open" THEN {DeltaReport(t)} ELSE {})

----------------------------------------------------------------------------
Init ==
  /\ dialect \in Dialects
  /\ billed \in [fresh : Amounts, read : Amounts, creation : Amounts, out : Amounts]
  /\ CanBill(dialect, billed)
  /\ stage = "open" /\ told = 0 /\ lines = 0
  /\ usage = NoUsage

\* pumpStream hands copySSE or copyNDJSON the next line.
Scan(line) ==
  /\ stage # "ended" /\ lines < MaxLines
  /\ lines' = lines + 1
  /\ usage' = MergeUsage(usage, ParseUsage(line))
  /\ UNCHANGED <<dialect, billed>>

\* A delta, a comment, [DONE], or JSON that does not parse; deltas of some
\* vendors name the model.
ScanOther ==
  /\ \E m \in Models : Scan([at |-> [p \in {} |-> NoFields], model |-> m])
  /\ UNCHANGED <<stage, told>>

\* A report on the way: the whole prompt, and the output so far.
ScanReport ==
  /\ stage \in {"open", "started"}
  /\ \E n \in told .. billed.out, m \in Models :
       LET t == [billed EXCEPT !.out = n] IN
       /\ \E at \in Reports(t) : Scan([at |-> at, model |-> m])
       /\ told' = n
  /\ stage' = "started"

\* The last report, of everything.
ScanFinal ==
  /\ stage \in {"open", "started"}
  /\ \E at \in Reports(billed), m \in Models : Scan([at |-> at, model |-> m])
  /\ told' = billed.out
  /\ stage' = "final"

\* The body ends, and forward puts the totals into the row.
End ==
  /\ stage = "final"
  /\ stage' = "ended"
  /\ UNCHANGED <<dialect, billed, told, lines, usage>>

Next == ScanOther \/ ScanReport \/ ScanFinal \/ End

Spec == Init /\ [][Next]_vars
----------------------------------------------------------------------------
Counts == DOMAIN NoUsage \ {"ResponseModel"}

\* The row of a finished call has what the vendor billed, whichever fields and
\* places it reports in, however often, and whatever other lines come between:
\* cached tokens are part of the input once and never of Uncached.
RecordedAsBilled ==
  stage = "ended" =>
    /\ usage.Input = InputOf(billed)
    /\ usage.Output = billed.out
    /\ usage.CacheRead = billed.read
    /\ usage.CacheCreation = billed.creation
    /\ usage.Uncached = billed.fresh

\* A stream that is cut anywhere leaves a row that adds up: the input is what
\* was read from the cache, written to it and neither of both.
AddsUp == usage.Input = usage.Uncached + usage.CacheRead + usage.CacheCreation

\* No line takes back what an earlier one reported: vendors report running
\* totals, and a delta without a count is no report of zero.
NothingForgotten ==
  [][\A k \in Counts : usage'[k] >= usage[k]]_vars
=============================================================================
