---------------------------- MODULE RecordProofs ----------------------------
(***************************************************************************)
(* What is written about a call, for every bill, every length of a         *)
(* response and every body.                                                *)
(*                                                                         *)
(* Usage: the row has what was billed, adds up wherever the stream is cut, *)
(* and forgets nothing.                                                    *)
(*                                                                         *)
(* Files: the files of both bodies, and nothing else, are replaced by      *)
(* placeholders, and each of them is stored once.                          *)
(***************************************************************************)
EXTENDS Usage, Files, SeqRunProofs, FiniteSetTheorems

----------------------------------------------------------------------------
(***************************************************************************)
(* Usage: what a vendor reports of a bill is read back and merged.         *)
(***************************************************************************)
\* The counts that stand for a bill, and all that the totals may be.
Bill == [fresh : Nat, read : Nat, creation : Nat, out : Nat]

Recorded(t, m) ==
  [Input |-> InputOf(t), Output |-> t.out, CacheRead |-> t.read,
   CacheCreation |-> t.creation, Uncached |-> t.fresh, ResponseModel |-> m]

\* A report of n tokens of output and of nothing else.
CountOf(n) ==
  [fresh |-> 0, read |-> 0, creation |-> 0, out |-> n]

\* tokenUsage.empty, count by count.
LEMMA EmptyCounts ==
  ASSUME NEW u
  PROVE  Empty(u) <=> /\ u.Input = 0 /\ u.Output = 0 /\ u.CacheRead = 0
                      /\ u.CacheCreation = 0 /\ u.Uncached = 0
<1>1. DOMAIN NoUsage \ {"ResponseModel"}
        = {"Input", "Output", "CacheRead", "CacheCreation", "Uncached"}
  BY DEF NoUsage
<1> QED BY <1>1 DEF Empty

\* asTokenUsage, for fields from which it picks t's counts: it finds the whole
\* prompt of t, in the prompt fields or by taking the output from the total, and
\* works out the fresh tokens where they are not given.
LEMMA AsTokenUsageIs ==
  ASSUME NEW f, NEW t \in Bill,
         CacheReadOf(f) = t.read, CacheCreationOf(f) = t.creation,
         OutputOf(f) = t.out,
         OrElse(f.prompt, OrElse(f.input + f.read + t.creation, f.promptEval))
           + f.image \in {0, InputOf(t)},
         OrElse(f.prompt, OrElse(f.input + f.read + t.creation, f.promptEval))
           + f.image = 0 => NotBelow(f.total - t.out) = InputOf(t),
         f.miss \in {0, t.fresh}
  PROVE  AsTokenUsage(f) = Recorded(t, NoModel)
<1> DEFINE in == OrElse(f.prompt, OrElse(f.input + f.read + t.creation, f.promptEval))
                   + f.image
           whole == IF in = 0 THEN NotBelow(f.total - t.out) ELSE in
           u == [Input |-> whole, Output |-> t.out, CacheRead |-> t.read,
                 CacheCreation |-> t.creation, Uncached |-> f.miss, ResponseModel |-> NoModel]
<1>1. whole = InputOf(t)
  OBVIOUS
<1>2. AsTokenUsage(f) = IF f.miss = 0 THEN FillUncached(u) ELSE u
  BY DEF AsTokenUsage
<1>3. t.fresh \in Nat /\ t.read \in Nat /\ t.creation \in Nat /\ t.out \in Nat
  BY DEF Bill
<1> HIDE DEF whole
<1>4. CASE f.miss = 0
  <2>1. u = [Input |-> InputOf(t), Output |-> t.out, CacheRead |-> t.read,
             CacheCreation |-> t.creation, Uncached |-> 0, ResponseModel |-> NoModel]
    BY <1>1, <1>4
  <2>2. CASE InputOf(t) = 0
    <3>1. t.fresh = 0
      BY <1>3, <2>2 DEF InputOf
    <3> QED BY <2>1, <2>2, <3>1, <1>2, <1>4 DEF FillUncached, Recorded
  <2>3. CASE InputOf(t) # 0
    <3>1. NotBelow(InputOf(t) - t.read - t.creation) = t.fresh
      BY <1>3 DEF InputOf, NotBelow
    <3>2. FillUncached(u) = [u EXCEPT !.Uncached = t.fresh]
      BY <2>1, <2>3, <3>1 DEF FillUncached
    <3> QED BY <2>1, <3>2, <1>2, <1>4 DEF Recorded
  <2> QED BY <2>2, <2>3
<1>5. CASE f.miss # 0
  BY <1>1, <1>2, <1>5 DEF Recorded
<1> QED BY <1>4, <1>5

\* Where each vendor puts its one usage object.
Places == {"flat", "message", "response", "usage"}

PlaceOf(d) ==
  IF d = "responses" THEN "response" ELSE IF d = "ollama" THEN "flat" ELSE "usage"

\* asTokenUsage finds in it what was billed, in whichever fields.
LEMMA VendorIsRead ==
  ASSUME NEW t, t \in Bill, NEW d, d \in Vendors, CanBill(d, t),
         NEW f, f = Vendor(t)[d][PlaceOf(d)]
  PROVE  /\ DOMAIN Vendor(t)[d] = {PlaceOf(d)}
         /\ AsTokenUsage(f) = Recorded(t, NoModel)
<1> DEFINE in == OrElse(f.prompt, OrElse(f.input + f.read + t.creation, f.promptEval))
                   + f.image
<1>0. /\ d \notin Claude => t.creation = 0
      /\ d \notin Caching => t.read = 0
      /\ d \in {"qwen", "total"} => t.out = 0
      /\ t.fresh \in Nat /\ t.read \in Nat /\ t.creation \in Nat /\ t.out \in Nat
  BY DEF CanBill, Bill
<1>1. CASE d = "chat"
  <2>1. /\ f = [NoFields EXCEPT !.prompt = InputOf(t), !.promptCached = t.read,
              !.completion = t.out, !.total = InputOf(t) + t.out]
        /\ DOMAIN Vendor(t)[d] = {PlaceOf(d)}
    BY <1>1 DEF Vendor, PlaceOf
  <2>0. t.creation = 0
    BY <1>0, <1>1 DEF Claude, Caching
  <2>2. /\ CacheReadOf(f) = t.read /\ CacheCreationOf(f) = t.creation
        /\ OutputOf(f) = t.out /\ f.miss \in {0, t.fresh}
    BY <1>0, <2>0, <2>1 DEF OrElse, CacheReadOf, CacheCreationOf, OutputOf, NoFields
  <2>3. in \in {0, InputOf(t)}
    BY <1>0, <2>0, <2>1 DEF OrElse, InputOf, NoFields
  <2>4. in = 0 => NotBelow(f.total - t.out) = InputOf(t)
    BY <1>0, <2>0, <2>1 DEF OrElse, InputOf, NotBelow, NoFields
  <2> QED
    BY <2>1, <2>2, <2>3, <2>4, AsTokenUsageIs
<1>2. CASE d = "cached"
  <2>1. /\ f = [NoFields EXCEPT !.prompt = InputOf(t), !.cached = t.read,
              !.completion = t.out]
        /\ DOMAIN Vendor(t)[d] = {PlaceOf(d)}
    BY <1>2 DEF Vendor, PlaceOf
  <2>0. t.creation = 0
    BY <1>0, <1>2 DEF Claude, Caching
  <2>2. /\ CacheReadOf(f) = t.read /\ CacheCreationOf(f) = t.creation
        /\ OutputOf(f) = t.out /\ f.miss \in {0, t.fresh}
    BY <1>0, <2>0, <2>1 DEF OrElse, CacheReadOf, CacheCreationOf, OutputOf, NoFields
  <2>3. in \in {0, InputOf(t)}
    BY <1>0, <2>0, <2>1 DEF OrElse, InputOf, NoFields
  <2>4. in = 0 => NotBelow(f.total - t.out) = InputOf(t)
    BY <1>0, <2>0, <2>1 DEF OrElse, InputOf, NotBelow, NoFields
  <2> QED
    BY <2>1, <2>2, <2>3, <2>4, AsTokenUsageIs
<1>3. CASE d = "deepseek"
  <2>1. /\ f = [NoFields EXCEPT !.prompt = InputOf(t), !.hit = t.read,
              !.miss = t.fresh, !.completion = t.out]
        /\ DOMAIN Vendor(t)[d] = {PlaceOf(d)}
    BY <1>3 DEF Vendor, PlaceOf
  <2>0. t.creation = 0
    BY <1>0, <1>3 DEF Claude, Caching
  <2>2. /\ CacheReadOf(f) = t.read /\ CacheCreationOf(f) = t.creation
        /\ OutputOf(f) = t.out /\ f.miss \in {0, t.fresh}
    BY <1>0, <2>0, <2>1 DEF OrElse, CacheReadOf, CacheCreationOf, OutputOf, NoFields
  <2>3. in \in {0, InputOf(t)}
    BY <1>0, <2>0, <2>1 DEF OrElse, InputOf, NoFields
  <2>4. in = 0 => NotBelow(f.total - t.out) = InputOf(t)
    BY <1>0, <2>0, <2>1 DEF OrElse, InputOf, NotBelow, NoFields
  <2> QED
    BY <2>1, <2>2, <2>3, <2>4, AsTokenUsageIs
<1>4. CASE d = "responses"
  <2>1. /\ f = [NoFields EXCEPT !.input = InputOf(t), !.inputCached = t.read,
              !.output = t.out, !.total = InputOf(t) + t.out]
        /\ DOMAIN Vendor(t)[d] = {PlaceOf(d)}
    BY <1>4 DEF Vendor, PlaceOf
  <2>0. t.creation = 0
    BY <1>0, <1>4 DEF Claude, Caching
  <2>2. /\ CacheReadOf(f) = t.read /\ CacheCreationOf(f) = t.creation
        /\ OutputOf(f) = t.out /\ f.miss \in {0, t.fresh}
    BY <1>0, <2>0, <2>1 DEF OrElse, CacheReadOf, CacheCreationOf, OutputOf, NoFields
  <2>3. in \in {0, InputOf(t)}
    BY <1>0, <2>0, <2>1 DEF OrElse, InputOf, NoFields
  <2>4. in = 0 => NotBelow(f.total - t.out) = InputOf(t)
    BY <1>0, <2>0, <2>1 DEF OrElse, InputOf, NotBelow, NoFields
  <2> QED
    BY <2>1, <2>2, <2>3, <2>4, AsTokenUsageIs
<1>5. CASE d = "anthropic"
  <2>1. /\ f = [NoFields EXCEPT !.input = t.fresh, !.read = t.read,
              !.creation = t.creation, !.output = t.out]
        /\ DOMAIN Vendor(t)[d] = {PlaceOf(d)}
    BY <1>5 DEF Vendor, PlaceOf
  <2>2. /\ CacheReadOf(f) = t.read /\ CacheCreationOf(f) = t.creation
        /\ OutputOf(f) = t.out /\ f.miss \in {0, t.fresh}
    BY <1>0, <2>1 DEF OrElse, CacheReadOf, CacheCreationOf, OutputOf, NoFields
  <2>3. in \in {0, InputOf(t)}
    BY <1>0, <2>1 DEF OrElse, InputOf, NoFields
  <2>4. in = 0 => NotBelow(f.total - t.out) = InputOf(t)
    BY <1>0, <2>1 DEF OrElse, InputOf, NotBelow, NoFields
  <2> QED
    BY <2>1, <2>2, <2>3, <2>4, AsTokenUsageIs
<1>6. CASE d = "breakdown"
  <2>1. /\ f = [NoFields EXCEPT !.input = t.fresh, !.read = t.read,
              !.ephemeral = t.creation, !.output = t.out]
        /\ DOMAIN Vendor(t)[d] = {PlaceOf(d)}
    BY <1>6 DEF Vendor, PlaceOf
  <2>2. /\ CacheReadOf(f) = t.read /\ CacheCreationOf(f) = t.creation
        /\ OutputOf(f) = t.out /\ f.miss \in {0, t.fresh}
    BY <1>0, <2>1 DEF OrElse, CacheReadOf, CacheCreationOf, OutputOf, NoFields
  <2>3. in \in {0, InputOf(t)}
    BY <1>0, <2>1 DEF OrElse, InputOf, NoFields
  <2>4. in = 0 => NotBelow(f.total - t.out) = InputOf(t)
    BY <1>0, <2>1 DEF OrElse, InputOf, NotBelow, NoFields
  <2> QED
    BY <2>1, <2>2, <2>3, <2>4, AsTokenUsageIs
<1>7. CASE d = "ollama"
  <2>1. /\ f = [NoFields EXCEPT !.promptEval = t.fresh, !.eval = t.out]
        /\ DOMAIN Vendor(t)[d] = {PlaceOf(d)}
    BY <1>7 DEF Vendor, PlaceOf
  <2>0. t.creation = 0 /\ t.read = 0
    BY <1>0, <1>7 DEF Claude, Caching
  <2>2. /\ CacheReadOf(f) = t.read /\ CacheCreationOf(f) = t.creation
        /\ OutputOf(f) = t.out /\ f.miss \in {0, t.fresh}
    BY <1>0, <2>0, <2>1 DEF OrElse, CacheReadOf, CacheCreationOf, OutputOf, NoFields
  <2>3. in \in {0, InputOf(t)}
    BY <1>0, <2>0, <2>1 DEF OrElse, InputOf, NoFields
  <2>4. in = 0 => NotBelow(f.total - t.out) = InputOf(t)
    BY <1>0, <2>0, <2>1 DEF OrElse, InputOf, NotBelow, NoFields
  <2> QED
    BY <2>1, <2>2, <2>3, <2>4, AsTokenUsageIs
<1>8. CASE d = "tongyi"
  <2>1. /\ f = [NoFields EXCEPT !.input = t.fresh, !.output = t.out,
              !.total = t.fresh + t.out]
        /\ DOMAIN Vendor(t)[d] = {PlaceOf(d)}
    BY <1>8 DEF Vendor, PlaceOf
  <2>0. t.creation = 0 /\ t.read = 0
    BY <1>0, <1>8 DEF Claude, Caching
  <2>2. /\ CacheReadOf(f) = t.read /\ CacheCreationOf(f) = t.creation
        /\ OutputOf(f) = t.out /\ f.miss \in {0, t.fresh}
    BY <1>0, <2>0, <2>1 DEF OrElse, CacheReadOf, CacheCreationOf, OutputOf, NoFields
  <2>3. in \in {0, InputOf(t)}
    BY <1>0, <2>0, <2>1 DEF OrElse, InputOf, NoFields
  <2>4. in = 0 => NotBelow(f.total - t.out) = InputOf(t)
    BY <1>0, <2>0, <2>1 DEF OrElse, InputOf, NotBelow, NoFields
  <2> QED
    BY <2>1, <2>2, <2>3, <2>4, AsTokenUsageIs
<1>9. CASE d = "qwen"
  <2>1. /\ f = [NoFields EXCEPT !.input = t.fresh \div 2,
              !.image = t.fresh - t.fresh \div 2, !.total = t.fresh]
        /\ DOMAIN Vendor(t)[d] = {PlaceOf(d)}
    BY <1>9 DEF Vendor, PlaceOf
  <2>0. t.creation = 0 /\ t.read = 0 /\ t.out = 0
    BY <1>0, <1>9 DEF Claude, Caching
  <2>2. /\ CacheReadOf(f) = t.read /\ CacheCreationOf(f) = t.creation
        /\ OutputOf(f) = t.out /\ f.miss \in {0, t.fresh}
    BY <1>0, <2>0, <2>1 DEF OrElse, CacheReadOf, CacheCreationOf, OutputOf, NoFields
  <2>3. in \in {0, InputOf(t)}
    BY <1>0, <2>0, <2>1 DEF OrElse, InputOf, NoFields
  <2>4. in = 0 => NotBelow(f.total - t.out) = InputOf(t)
    BY <1>0, <2>0, <2>1 DEF OrElse, InputOf, NotBelow, NoFields
  <2> QED
    BY <2>1, <2>2, <2>3, <2>4, AsTokenUsageIs
<1>10. CASE d = "total"
  <2>1. /\ f = [NoFields EXCEPT !.total = t.fresh + t.out]
        /\ DOMAIN Vendor(t)[d] = {PlaceOf(d)}
    BY <1>10 DEF Vendor, PlaceOf
  <2>0. t.creation = 0 /\ t.read = 0 /\ t.out = 0
    BY <1>0, <1>10 DEF Claude, Caching
  <2>2. /\ CacheReadOf(f) = t.read /\ CacheCreationOf(f) = t.creation
        /\ OutputOf(f) = t.out /\ f.miss \in {0, t.fresh}
    BY <1>0, <2>0, <2>1 DEF OrElse, CacheReadOf, CacheCreationOf, OutputOf, NoFields
  <2>3. in \in {0, InputOf(t)}
    BY <1>0, <2>0, <2>1 DEF OrElse, InputOf, NoFields
  <2>4. in = 0 => NotBelow(f.total - t.out) = InputOf(t)
    BY <1>0, <2>0, <2>1 DEF OrElse, InputOf, NotBelow, NoFields
  <2> QED
    BY <2>1, <2>2, <2>3, <2>4, AsTokenUsageIs
<1> QED
  BY <1>1, <1>2, <1>3, <1>4, <1>5, <1>6, <1>7, <1>8, <1>9, <1>10 DEF Vendors, Caching, Claude

\* Claude's message_delta is read as a report of its output alone.
LEMMA DeltaIsRead ==
  ASSUME NEW n \in Nat, NEW f, f = [NoFields EXCEPT !.output = n]
  PROVE  CountOf(n) \in Bill /\ AsTokenUsage(f) = Recorded(CountOf(n), NoModel)
<1> DEFINE t == CountOf(n)
<1>1. t \in Bill /\ t.read = 0 /\ t.creation = 0 /\ t.out = n /\ t.fresh = 0
  BY DEF CountOf, Bill
<1> HIDE DEF t
<1>2. /\ CacheReadOf(f) = t.read /\ CacheCreationOf(f) = t.creation
      /\ OutputOf(f) = t.out /\ f.miss = 0
  BY <1>1 DEF OrElse, CacheReadOf, CacheCreationOf, OutputOf, NoFields
<1>3. OrElse(f.prompt, OrElse(f.input + f.read + t.creation, f.promptEval))
        + f.image = 0
  BY <1>1 DEF OrElse, NoFields
<1>4. NotBelow(f.total - t.out) = 0 /\ InputOf(t) = 0
  BY <1>1 DEF InputOf, NotBelow, NoFields
<1>5. AsTokenUsage(f) = Recorded(t, NoModel)
  BY <1>1, <1>2, <1>3, <1>4, AsTokenUsageIs
<1> QED
  BY <1>1, <1>5 DEF t

\* mergeUsage of a report of t into totals that have none of t's prompt or all
\* of it, or of one that says nothing of the prompt: count by count the newer
\* one, unless that is 0.
Merged(t, q) ==
  [fresh |-> OrElse(t.fresh, q.fresh), read |-> OrElse(t.read, q.read),
   creation |-> OrElse(t.creation, q.creation), out |-> OrElse(t.out, q.out)]
NewerModel(m, n) == IF n = NoModel THEN m ELSE n
NoPrompt(t) == t.fresh = 0 /\ t.read = 0 /\ t.creation = 0

\* merge with one more report of the stream: the prompt counts of the two
\* agree or one has none.
LEMMA MergeOfReport ==
  ASSUME NEW t \in Bill, NEW q \in Bill, NEW m, NEW n,
         \/ NoPrompt(q) \/ NoPrompt(t)
         \/ q.fresh = t.fresh /\ q.read = t.read /\ q.creation = t.creation
  PROVE  /\ Merged(t, q) \in Bill
         /\ MergeUsage(Recorded(q, m), Recorded(t, n))
              = Recorded(Merged(t, q), NewerModel(m, n))
<1> DEFINE dst == Recorded(q, m)
           src == Recorded(t, n)
           to == Merged(t, q)
           counts ==
             [Input |-> OrElse(src.Input, dst.Input),
              Output |-> OrElse(src.Output, dst.Output),
              CacheRead |-> OrElse(src.CacheRead, dst.CacheRead),
              CacheCreation |-> OrElse(src.CacheCreation, dst.CacheCreation),
              Uncached |-> dst.Uncached,
              ResponseModel |-> IF src.ResponseModel = NoModel THEN dst.ResponseModel
                                ELSE src.ResponseModel]
<1>1. /\ t.fresh \in Nat /\ t.read \in Nat /\ t.creation \in Nat /\ t.out \in Nat
      /\ q.fresh \in Nat /\ q.read \in Nat /\ q.creation \in Nat /\ q.out \in Nat
      /\ to.fresh = OrElse(t.fresh, q.fresh) /\ to.read = OrElse(t.read, q.read)
      /\ to.creation = OrElse(t.creation, q.creation) /\ to.out = OrElse(t.out, q.out)
      /\ to.fresh \in Nat /\ to.read \in Nat /\ to.creation \in Nat /\ to \in Bill
  BY DEF Bill, OrElse, Merged
<1>2. MergeUsage(dst, src) =
        IF Empty(src) /\ src.ResponseModel = NoModel THEN dst
        ELSE IF src.Uncached # 0 THEN [counts EXCEPT !.Uncached = src.Uncached]
             ELSE FillUncached(counts)
  BY DEF MergeUsage
<1> SUFFICES MergeUsage(dst, src) = Recorded(to, NewerModel(m, n))
  BY <1>1
<1>3. CASE Empty(src) /\ src.ResponseModel = NoModel
  <2>1. /\ InputOf(t) = 0 /\ t.out = 0 /\ t.read = 0 /\ t.creation = 0
        /\ t.fresh = 0 /\ n = NoModel
    BY <1>3, EmptyCounts DEF Recorded
  <2>2. Recorded(to, NewerModel(m, n)) = dst
    BY <1>1, <2>1 DEF Recorded, OrElse, InputOf, NewerModel
  <2> QED BY <1>2, <1>3, <2>2
<1>4. CASE ~(Empty(src) /\ src.ResponseModel = NoModel)
  <2>1. OrElse(src.Input, dst.Input) = InputOf(to)
    <3>1. InputOf(t) = t.fresh + t.read + t.creation
          /\ InputOf(q) = q.fresh + q.read + q.creation
          /\ InputOf(to) = to.fresh + to.read + to.creation
      BY DEF InputOf
    <3>2. OrElse(InputOf(t), InputOf(q)) = InputOf(to)
      BY <1>1, <3>1 DEF OrElse, NoPrompt
    <3> QED BY <3>2 DEF Recorded
  <2>2. /\ OrElse(src.Output, dst.Output) = to.out
        /\ OrElse(src.CacheRead, dst.CacheRead) = to.read
        /\ OrElse(src.CacheCreation, dst.CacheCreation) = to.creation
    BY <1>1 DEF Recorded
  <2>3. counts = [Input |-> InputOf(to), Output |-> to.out, CacheRead |-> to.read,
                  CacheCreation |-> to.creation, Uncached |-> q.fresh,
                  ResponseModel |-> NewerModel(m, n)]
    BY <2>1, <2>2 DEF Recorded, NewerModel
  <2> HIDE DEF counts
  <2>4. CASE t.fresh # 0
    <3>1. MergeUsage(dst, src) = [counts EXCEPT !.Uncached = to.fresh]
      BY <1>1, <1>2, <1>4, <2>4 DEF Recorded, OrElse
    <3> QED BY <2>3, <3>1 DEF Recorded
  <2>5. CASE t.fresh = 0
    <3>1. MergeUsage(dst, src) = FillUncached(counts) /\ to.fresh = q.fresh
      BY <1>1, <1>2, <1>4, <2>5 DEF Recorded, OrElse
    <3>2. CASE InputOf(to) = 0
      BY <2>3, <3>1, <3>2 DEF FillUncached, Recorded
    <3>3. CASE InputOf(to) # 0
      <4>1. NotBelow(InputOf(to) - to.read - to.creation) = to.fresh
        BY <1>1 DEF InputOf, NotBelow
      <4>2. FillUncached(counts) = [counts EXCEPT !.Uncached = to.fresh]
        BY <2>3, <3>3, <4>1 DEF FillUncached
      <4>3. [counts EXCEPT !.Uncached = to.fresh] = Recorded(to, NewerModel(m, n))
        BY <2>3 DEF Recorded
      <4> QED BY <3>1, <4>2, <4>3
    <3> QED BY <3>2, <3>3
  <2> QED BY <2>4, <2>5
<1> QED
  BY <1>3, <1>4

\* The totals before the first line, as the record of a bill.
LEMMA NothingCounted ==
  /\ CountOf(0) \in Bill /\ InputOf(CountOf(0)) = 0
  /\ NoUsage = Recorded(CountOf(0), NoModel)
  /\ CountOf(0).fresh = 0 /\ CountOf(0).read = 0 /\ CountOf(0).creation = 0
<1>1. /\ CountOf(0) \in Bill /\ CountOf(0).out = 0
      /\ CountOf(0).fresh = 0 /\ CountOf(0).read = 0 /\ CountOf(0).creation = 0
  BY DEF CountOf, Bill
<1>2. InputOf(CountOf(0)) = 0
  BY <1>1 DEF InputOf
<1> QED
  BY <1>1, <1>2 DEF NoUsage, Recorded

\* parseUsageJSON of a line with one usage object, at any place.
LEMMA LineIsRead ==
  ASSUME NEW t \in Bill, NEW m \in Models, NEW report, NEW place \in Places,
         DOMAIN report = {place}, AsTokenUsage(report[place]) = Recorded(t, NoModel)
  PROVE  ParseUsage([at |-> report, model |-> m]) = Recorded(t, m)
<1> DEFINE line == [at |-> report, model |-> m]
           none == Recorded(CountOf(0), NoModel)
<1>1. /\ CountOf(0) \in Bill /\ InputOf(CountOf(0)) = 0 /\ NoUsage = none
      /\ NoPrompt(CountOf(0))
  BY NothingCounted DEF NoPrompt
<1>2. \A out : \A p \in Places \ {place} : AddPlace(out, line, p) = out
  BY DEF AddPlace
<1>3. PICK n \in Models : AddPlace(NoUsage, line, place) = Recorded(t, n)
  <2>1. PICK k \in Models : AddPlace(NoUsage, line, place)
                   = MergeUsage(none, WithModel(Recorded(t, NoModel), k))
    BY <1>1 DEF AddPlace, Models
  <2>2. WithModel(Recorded(t, NoModel), k) = Recorded(t, k)
    BY DEF Recorded, WithModel
  <2>3. MergeUsage(none, Recorded(t, k)) = Recorded(Merged(t, CountOf(0)), NewerModel(NoModel, k))
    BY <1>1, MergeOfReport
  <2>4. Merged(t, CountOf(0)) = t
    <3>1. t = [fresh |-> t.fresh, read |-> t.read, creation |-> t.creation,
               out |-> t.out]
      BY DEF Bill
    <3>2. /\ t.fresh \in Nat /\ t.read \in Nat /\ t.creation \in Nat /\ t.out \in Nat
          /\ CountOf(0).fresh = 0 /\ CountOf(0).read = 0
          /\ CountOf(0).creation = 0 /\ CountOf(0).out = 0
      BY DEF CountOf, Bill
    <3> QED BY <3>1, <3>2 DEF Merged, OrElse
  <2>5. NewerModel(NoModel, k) \in Models
    BY DEF NewerModel, Models
  <2> QED BY <2>1, <2>2, <2>3, <2>4, <2>5
<1>0. line.model = m
  OBVIOUS
<1> HIDE DEF line
<1>4. AddPlace(AddPlace(AddPlace(AddPlace(NoUsage, line, "flat"), line, "message"),
               line, "response"), line, "usage") = Recorded(t, n)
  <2>1. CASE place = "flat"
    BY <1>2, <1>3, <2>1 DEF Places
  <2>2. CASE place = "message"
    BY <1>2, <1>3, <2>2 DEF Places
  <2>3. CASE place = "response"
    BY <1>2, <1>3, <2>3 DEF Places
  <2>4. CASE place = "usage"
    BY <1>2, <1>3, <2>4 DEF Places
  <2> QED BY <2>1, <2>2, <2>3, <2>4 DEF Places
<1>5. ParseUsage(line) = WithModel(Recorded(t, n), m)
  BY <1>0, <1>4 DEF ParseUsage
<1> QED
  BY <1>5 DEF Recorded, WithModel, line

\* parseUsageJSON of a line without one.
LEMMA OtherIsRead ==
  ASSUME NEW m \in Models
  PROVE  ParseUsage([at |-> [p \in {} |-> NoFields], model |-> m])
           = Recorded(CountOf(0), m)
<1> DEFINE line == [at |-> [p \in {} |-> NoFields], model |-> m]
<1>1. \A out : \A p \in Places : AddPlace(out, line, p) = out
  BY DEF AddPlace
<1>2. ParseUsage(line) = WithModel(NoUsage, m)
  BY <1>1 DEF ParseUsage, Places
<1> QED
  BY <1>2 DEF NoUsage, Recorded, CountOf, InputOf, WithModel

----------------------------------------------------------------------------
\* What a report on the way or at the end can be: a usage object that is read
\* as t, or, once the prompt is known, as its output alone.
LEMMA ReportIsRead ==
  ASSUME NEW t, t \in Bill, dialect \in Vendors, CanBill(dialect, t),
         NEW report \in Reports(t), NEW m \in Models
  PROVE  \/ ParseUsage([at |-> report, model |-> m]) = Recorded(t, m)
         \/ /\ stage # "open"
            /\ ParseUsage([at |-> report, model |-> m]) = Recorded(CountOf(t.out), m)
<1> DEFINE whole == Vendor(t)[dialect]
<1>0. t.out \in Nat
  BY DEF Bill
<1>1. CASE report = whole
  <2>1. DOMAIN report = {PlaceOf(dialect)} /\ PlaceOf(dialect) \in Places
    BY <1>1, VendorIsRead DEF PlaceOf, Places
  <2>2. AsTokenUsage(report[PlaceOf(dialect)]) = Recorded(t, NoModel)
    BY <1>1, VendorIsRead
  <2> QED BY <2>1, <2>2, LineIsRead
<1>2. CASE dialect \in Claude /\ report = StartReport(t)
  <2>1. PlaceOf(dialect) = "usage"
    BY <1>2 DEF PlaceOf, Claude
  <2>2. AsTokenUsage(Vendor(t)[dialect].usage) = Recorded(t, NoModel)
    BY <2>1, VendorIsRead
  <2>3. DOMAIN report = {"message"} /\ report["message"] = Vendor(t)[dialect].usage
    BY <1>2 DEF StartReport
  <2> QED BY <2>2, <2>3, LineIsRead DEF Places
<1>3. CASE stage # "open" /\ report = DeltaReport(t)
  <2>1. DOMAIN report = {"usage"} /\ report["usage"] = [NoFields EXCEPT !.output = t.out]
    BY <1>3 DEF DeltaReport
  <2>2. /\ CountOf(t.out) \in Bill
        /\ AsTokenUsage(report["usage"]) = Recorded(CountOf(t.out), NoModel)
    BY <1>0, <2>1, DeltaIsRead
  <2> QED BY <1>3, <2>1, <2>2, LineIsRead DEF Places
<1> QED
  BY <1>1, <1>2, <1>3 DEF Reports

----------------------------------------------------------------------------
\* The inductive invariant: the totals are those of the call with the output told so far, and with the
\* whole prompt as soon as there was a report.
ToldUpTo(n) == [billed EXCEPT !.out = n]
SoFarOf(s, b, n) == IF s = "open" THEN CountOf(0) ELSE [b EXCEPT !.out = n]
SoFar == SoFarOf(stage, billed, told)

UsageInv ==
  /\ dialect \in Vendors /\ billed \in Bill /\ CanBill(dialect, billed)
  /\ told \in 0 .. billed.out
  /\ stage \in {"open", "started", "final", "ended"}
  /\ stage = "open" => told = 0
  /\ stage \in {"final", "ended"} => told = billed.out
  /\ \E m \in Models : usage = Recorded(SoFar, m)

\* A call whose output is told up to n is one the vendor can bill.
LEMMA PartialBill ==
  ASSUME UsageInv, NEW n \in told .. billed.out
  PROVE  /\ ToldUpTo(n) \in Bill /\ CanBill(dialect, ToldUpTo(n))
         /\ ToldUpTo(n).fresh = billed.fresh /\ ToldUpTo(n).read = billed.read
         /\ ToldUpTo(n).creation = billed.creation /\ ToldUpTo(n).out = n
         /\ n \in 0 .. billed.out /\ n \in Nat
         /\ n = 0 => told = 0
<1>1. billed.out \in Nat /\ told \in 0 .. billed.out /\ billed \in Bill
  BY DEF UsageInv, Bill
<1>2. n \in 0 .. billed.out /\ n \in Nat /\ (n = 0 => told = 0)
  BY <1>1
<1>3. /\ ToldUpTo(n) \in Bill /\ ToldUpTo(n).fresh = billed.fresh
      /\ ToldUpTo(n).read = billed.read
      /\ ToldUpTo(n).creation = billed.creation /\ ToldUpTo(n).out = n
  BY <1>1, <1>2 DEF Bill, ToldUpTo
<1>4. CanBill(dialect, ToldUpTo(n))
  BY <1>1, <1>2, <1>3 DEF UsageInv, CanBill
<1> QED
  BY <1>2, <1>3, <1>4

\* What is told at any point, of any call ...
LEMMA SoFarOfIsBill ==
  ASSUME NEW s, NEW b \in Bill, NEW n \in 0 .. b.out, s = "open" => n = 0
  PROVE  /\ SoFarOf(s, b, n) \in Bill /\ SoFarOf(s, b, n).out = n
         /\ s = "open" => NoPrompt(SoFarOf(s, b, n))
         /\ s # "open" => /\ SoFarOf(s, b, n).fresh = b.fresh
                          /\ SoFarOf(s, b, n).read = b.read
                          /\ SoFarOf(s, b, n).creation = b.creation
<1>1. n \in Nat
  BY DEF Bill
<1>2. CountOf(0) \in Bill /\ NoPrompt(CountOf(0)) /\ CountOf(0).out = 0
  BY NothingCounted DEF NoPrompt, CountOf
<1>3. CASE s = "open"
  BY <1>2, <1>3 DEF SoFarOf
<1>4. CASE s # "open"
  BY <1>1, <1>4 DEF SoFarOf, Bill
<1> QED
  BY <1>3, <1>4

\* ... and of this one.
LEMMA SoFarIsBill ==
  ASSUME UsageInv
  PROVE  /\ SoFar \in Bill /\ SoFar.out = told
         /\ stage = "open" => NoPrompt(SoFar)
         /\ stage # "open" => /\ SoFar.fresh = billed.fresh /\ SoFar.read = billed.read
                              /\ SoFar.creation = billed.creation
BY SoFarOfIsBill DEF UsageInv, SoFar

\* Records of a bill are equal when their fields are.
LEMMA BillsAreEqual ==
  ASSUME NEW t \in Bill, NEW q \in Bill, t.fresh = q.fresh, t.read = q.read,
         t.creation = q.creation, t.out = q.out
  PROVE  t = q
BY DEF Bill

\* A report on the way, or the last one, leaves the totals of what it reports.
LEMMA ReportIsMerged ==
  ASSUME UsageInv, NEW n \in told .. billed.out,
         NEW report \in Reports(ToldUpTo(n)), NEW m \in Models
  PROVE  \E k \in Models :
           MergeUsage(usage, ParseUsage([at |-> report, model |-> m]))
             = Recorded(ToldUpTo(n), k)
<1> DEFINE t == ToldUpTo(n)
           line == [at |-> report, model |-> m]
<1>1. PICK l \in Models : usage = Recorded(SoFar, l)
  BY DEF UsageInv
<1>2. NewerModel(l, m) \in Models
  BY DEF NewerModel
<1>3. /\ t \in Bill /\ CanBill(dialect, t) /\ dialect \in Vendors
      /\ t.fresh = billed.fresh /\ t.read = billed.read
      /\ t.creation = billed.creation /\ t.out = n
      /\ n \in Nat /\ (n = 0 => told = 0)
  BY PartialBill DEF UsageInv
<1>4. /\ SoFar \in Bill /\ SoFar.out = told
      /\ stage = "open" => NoPrompt(SoFar)
      /\ stage # "open" => /\ SoFar.fresh = billed.fresh /\ SoFar.read = billed.read
                           /\ SoFar.creation = billed.creation
  BY SoFarIsBill
<1> HIDE DEF t, line
<1>5. \/ ParseUsage(line) = Recorded(t, m)
      \/ stage # "open" /\ ParseUsage(line) = Recorded(CountOf(n), m)
  BY <1>3, ReportIsRead DEF t, line
<1>6. CASE ParseUsage(line) = Recorded(t, m)
  <2>1. /\ Merged(t, SoFar) \in Bill
        /\ MergeUsage(usage, ParseUsage(line))
             = Recorded(Merged(t, SoFar), NewerModel(l, m))
    BY <1>1, <1>3, <1>4, <1>6, MergeOfReport
  <2>2. Merged(t, SoFar) = t
    <3>1. /\ OrElse(t.fresh, SoFar.fresh) = t.fresh
          /\ OrElse(t.read, SoFar.read) = t.read
          /\ OrElse(t.creation, SoFar.creation) = t.creation
          /\ OrElse(t.out, SoFar.out) = t.out
      BY <1>3, <1>4 DEF OrElse, NoPrompt
    <3> QED BY <1>3, <2>1, <3>1, BillsAreEqual DEF Merged
  <2> QED BY <1>2, <2>1, <2>2 DEF t, line
<1>7. CASE stage # "open" /\ ParseUsage(line) = Recorded(CountOf(n), m)
  <2>1. /\ CountOf(n) \in Bill /\ NoPrompt(CountOf(n)) /\ CountOf(n).out = n
        /\ CountOf(n).fresh = 0 /\ CountOf(n).read = 0 /\ CountOf(n).creation = 0
    BY <1>3 DEF CountOf, Bill, NoPrompt
  <2>2. /\ Merged(CountOf(n), SoFar) \in Bill
        /\ MergeUsage(usage, ParseUsage(line))
             = Recorded(Merged(CountOf(n), SoFar), NewerModel(l, m))
    BY <1>1, <1>4, <1>7, <2>1, MergeOfReport
  <2>3. Merged(CountOf(n), SoFar) = t
    <3>1. OrElse(n, told) = n
      BY <1>3 DEF OrElse
    <3> QED BY <1>3, <1>4, <1>7, <2>1, <2>2, <3>1, BillsAreEqual DEF Merged, OrElse
  <2> QED BY <1>2, <2>2, <2>3 DEF t, line
<1> QED
  BY <1>5, <1>6, <1>7

\* Any other line leaves the counts as they are.
LEMMA OtherIsMerged ==
  ASSUME UsageInv, NEW m \in Models
  PROVE  \E k \in Models :
           MergeUsage(usage, ParseUsage([at |-> [p \in {} |-> NoFields], model |-> m]))
             = Recorded(SoFar, k)
<1> DEFINE line == [at |-> [p \in {} |-> NoFields], model |-> m]
<1>1. PICK l \in Models : usage = Recorded(SoFar, l)
  BY DEF UsageInv
<1>2. ParseUsage(line) = Recorded(CountOf(0), m)
  BY OtherIsRead
<1>3. /\ CountOf(0) \in Bill /\ NoPrompt(CountOf(0)) /\ CountOf(0).out = 0
      /\ CountOf(0).fresh = 0 /\ CountOf(0).read = 0 /\ CountOf(0).creation = 0
  BY NothingCounted DEF NoPrompt, CountOf
<1>4. SoFar \in Bill
  BY SoFarIsBill
<1> HIDE DEF line
<1>5. /\ Merged(CountOf(0), SoFar) \in Bill
      /\ MergeUsage(usage, ParseUsage(line))
           = Recorded(Merged(CountOf(0), SoFar), NewerModel(l, m))
  BY <1>1, <1>2, <1>3, <1>4, MergeOfReport
<1>6. Merged(CountOf(0), SoFar) = SoFar
  BY <1>3, <1>4, <1>5, BillsAreEqual DEF Merged, OrElse
<1>7. NewerModel(l, m) \in Models
  BY DEF NewerModel
<1> QED
  BY <1>5, <1>6, <1>7 DEF line

\* copySSE's totals are those of the part of the call that is told, after every
\* line of the response.
THEOREM Invariant == Spec => []UsageInv
<1>1. Init => UsageInv
  <2> SUFFICES ASSUME Init PROVE UsageInv
    OBVIOUS
  <2>1. billed \in Bill /\ dialect \in Vendors /\ CanBill(dialect, billed)
    BY UsageAssumption DEF Init, Bill
  <2>2. SoFar = CountOf(0) /\ NoModel \in Models
    BY DEF Init, SoFar, SoFarOf, Models
  <2>3. usage = Recorded(SoFar, NoModel)
    BY <2>2, NothingCounted DEF Init
  <2>4. told = 0 /\ stage = "open" /\ 0 \in 0 .. billed.out
    BY <2>1 DEF Init, Bill
  <2> QED BY <2>1, <2>2, <2>3, <2>4 DEF UsageInv
<1>2. UsageInv /\ [Next]_vars => UsageInv'
  <2> SUFFICES ASSUME UsageInv, [Next]_vars PROVE UsageInv'
    OBVIOUS
  <2>0. /\ dialect \in Vendors /\ billed \in Bill /\ CanBill(dialect, billed)
        /\ told \in 0 .. billed.out /\ billed.out \in Nat
        /\ stage \in {"open", "started", "final", "ended"}
        /\ stage = "open" => told = 0
        /\ stage \in {"final", "ended"} => told = billed.out
        /\ \E m \in Models : usage = Recorded(SoFar, m)
    BY DEF UsageInv, Bill
  <2>1. CASE ScanOther
    <3>1. UNCHANGED <<dialect, billed, stage, told>> /\ SoFar' = SoFar
      BY <2>1 DEF ScanOther, Scan, SoFar
    <3>2. \E k \in Models : usage' = Recorded(SoFar, k)
      BY <2>1, OtherIsMerged DEF ScanOther, Scan
    <3> QED BY <2>0, <3>1, <3>2 DEF UsageInv
  <2>2. CASE ScanReport
    <3>0. PICK n \in told .. billed.out, m \in Models :
            /\ \E report \in Reports(ToldUpTo(n)) : Scan([at |-> report, model |-> m])
            /\ told' = n
      BY <2>2 DEF ScanReport, ToldUpTo
    <3>1. PICK report \in Reports(ToldUpTo(n)) : Scan([at |-> report, model |-> m])
      BY <3>0
    <3>2. UNCHANGED <<dialect, billed>> /\ stage' = "started"
      BY <2>2, <3>1 DEF ScanReport, Scan
    <3>3. SoFar' = ToldUpTo(n)
      BY <3>0, <3>2 DEF SoFar, SoFarOf, ToldUpTo
    <3>4. \E k \in Models : usage' = Recorded(ToldUpTo(n), k)
      BY <3>1, ReportIsMerged DEF Scan
    <3>5. n \in 0 .. billed.out
      BY PartialBill
    <3> QED BY <2>0, <3>0, <3>2, <3>3, <3>4, <3>5 DEF UsageInv
  <2>3. CASE ScanFinal
    <3>1. billed.out \in told .. billed.out /\ billed.out \in 0 .. billed.out
      BY <2>0
    <3>2. ToldUpTo(billed.out) = billed
      BY <3>1, <2>0, PartialBill, BillsAreEqual
    <3>3. PICK m \in Models, report \in Reports(ToldUpTo(billed.out)) :
            Scan([at |-> report, model |-> m])
      BY <2>3, <3>2 DEF ScanFinal
    <3>4. UNCHANGED <<dialect, billed>> /\ stage' = "final" /\ told' = billed.out
      BY <2>3, <3>3 DEF ScanFinal, Scan
    <3>5. SoFar' = ToldUpTo(billed.out)
      BY <3>4 DEF SoFar, SoFarOf, ToldUpTo
    <3>6. \E k \in Models : usage' = Recorded(ToldUpTo(billed.out), k)
      BY <3>1, <3>3, ReportIsMerged DEF Scan
    <3> QED BY <2>0, <3>1, <3>4, <3>5, <3>6 DEF UsageInv
  <2>4. CASE End
    <3>1. UNCHANGED <<dialect, billed, told, usage>> /\ stage' = "ended" /\ stage = "final"
      BY <2>4 DEF End
    <3>2. SoFar' = SoFar
      BY <3>1 DEF SoFar, SoFarOf, ToldUpTo
    <3> QED BY <2>0, <3>1, <3>2 DEF UsageInv
  <2>5. CASE UNCHANGED vars
    <3>1. UNCHANGED <<dialect, billed, told, usage, stage>> /\ SoFar' = SoFar
      BY <2>5 DEF vars, SoFar
    <3> QED BY <2>0, <3>1 DEF UsageInv
  <2> QED
    BY <2>1, <2>2, <2>3, <2>4, <2>5 DEF Next
<1> QED
  BY <1>1, <1>2, PTL DEF Spec

\* The row of a finished call has what the vendor billed, for every bill, every
\* vendor and every length of the response.
THEOREM RowIsBilled == Spec => []RecordedAsBilled
<1>1. UsageInv => RecordedAsBilled
  <2> SUFFICES ASSUME UsageInv, stage = "ended"
               PROVE  /\ usage.Input = InputOf(billed)
                      /\ usage.Output = billed.out
                      /\ usage.CacheRead = billed.read
                      /\ usage.CacheCreation = billed.creation
                      /\ usage.Uncached = billed.fresh
    BY DEF RecordedAsBilled
  <2>1. PICK m \in Models : usage = Recorded(SoFar, m)
    BY DEF UsageInv
  <2>2. /\ SoFar.out = billed.out /\ SoFar.fresh = billed.fresh
        /\ SoFar.read = billed.read /\ SoFar.creation = billed.creation
    BY SoFarIsBill DEF UsageInv
  <2> QED BY <2>1, <2>2 DEF Recorded, InputOf
<1> QED
  BY <1>1, Invariant, PTL

\* Wherever the stream is cut, the row adds up.
THEOREM RowAddsUp == Spec => []AddsUp
<1>1. UsageInv => AddsUp
  <2> SUFFICES ASSUME UsageInv PROVE AddsUp
    OBVIOUS
  <2>1. PICK m \in Models : usage = Recorded(SoFar, m)
    BY DEF UsageInv
  <2>2. SoFar.fresh \in Nat /\ SoFar.read \in Nat /\ SoFar.creation \in Nat
    BY SoFarIsBill DEF Bill
  <2> QED BY <2>1, <2>2 DEF AddsUp, Recorded, InputOf
<1> QED
  BY <1>1, Invariant, PTL

\* No line takes back what an earlier one reported.
THEOREM NothingIsForgotten == Spec => NothingForgotten
<1>1. UsageInv /\ UsageInv' /\ [Next]_vars
        => [\A k \in Counts : usage'[k] >= usage[k]]_vars
  <2> SUFFICES ASSUME UsageInv, UsageInv', Next
               PROVE  \A k \in Counts : usage'[k] >= usage[k]
    OBVIOUS
  <2>1. PICK m \in Models : usage = Recorded(SoFar, m)
    BY DEF UsageInv
  <2>2. PICK l \in Models : usage' = Recorded(SoFar', l)
    BY DEF UsageInv
  <2>3. /\ billed \in Bill /\ told \in 0 .. billed.out /\ told \in Nat
        /\ stage' = "open" => told' = 0
        /\ told' \in 0 .. billed'.out
    BY DEF UsageInv, Bill
  <2>4. billed' = billed /\ told' >= told /\ (stage # "open" => stage' # "open")
    <3>1. CASE ScanReport
      <4>1. PICK n \in told .. billed.out : told' = n
        BY <3>1 DEF ScanReport
      <4> QED BY <2>3, <3>1, <4>1 DEF ScanReport, Scan
    <3>2. CASE ScanFinal
      <4>1. told' = billed.out /\ stage' = "final" /\ billed' = billed
        BY <3>2 DEF ScanFinal, Scan
      <4> QED BY <2>3, <4>1
    <3>3. CASE ScanOther
      BY <2>3, <3>3 DEF ScanOther, Scan
    <3>4. CASE End
      BY <2>3, <3>4 DEF End
    <3> QED BY <3>1, <3>2, <3>3, <3>4 DEF Next
  <2>5. /\ SoFar \in Bill /\ SoFar' \in Bill
        /\ SoFar'.out >= SoFar.out /\ SoFar'.fresh >= SoFar.fresh
        /\ SoFar'.read >= SoFar.read /\ SoFar'.creation >= SoFar.creation
    <3>1. /\ SoFar' \in Bill /\ SoFar'.out = told'
          /\ stage' = "open" => NoPrompt(SoFar')
          /\ stage' # "open" => /\ SoFar'.fresh = billed.fresh
                                /\ SoFar'.read = billed.read
                                /\ SoFar'.creation = billed.creation
      BY <2>3, <2>4, SoFarOfIsBill DEF SoFar
    <3> QED BY <2>3, <2>4, <3>1, SoFarIsBill DEF NoPrompt, Bill
  <2>6. InputOf(SoFar') >= InputOf(SoFar)
    BY <2>5 DEF InputOf, Bill
  <2>7. Counts = {"Input", "Output", "CacheRead", "CacheCreation", "Uncached"}
    BY DEF Counts, NoUsage
  <2> QED BY <2>1, <2>2, <2>5, <2>6, <2>7 DEF Recorded
<1> QED
  BY <1>1, Invariant, PTL DEF Spec, NothingForgotten

----------------------------------------------------------------------------
(***************************************************************************)
(* Files: sequences as sets, and the files a loop adds to one.             *)
(***************************************************************************)
LEMMA ToSetOfAppend ==
  ASSUME NEW S, NEW s \in Seq(S), NEW e \in S
  PROVE  ToSet(Append(s, e)) = ToSet(s) \cup {e}
<1>1. /\ Len(Append(s, e)) = Len(s) + 1 /\ DOMAIN Append(s, e) = 1 .. Len(s) + 1
      /\ Append(s, e)[Len(s) + 1] = e
      /\ \A i \in 1 .. Len(s) : Append(s, e)[i] = s[i]
  BY AppendProperties, LenProperties
<1>2. Len(s) \in Nat /\ DOMAIN s = 1 .. Len(s)
  BY LenProperties
<1> QED BY <1>1, <1>2 DEF ToSet

\* What is in a concatenation is in one of its halves.
LEMMA ToSetOfConcat ==
  ASSUME NEW S, NEW s \in Seq(S), NEW t \in Seq(S)
  PROVE  s \o t \in Seq(S) /\ ToSet(s \o t) = ToSet(s) \cup ToSet(t)
<1>1. /\ s \o t \in Seq(S) /\ Len(s \o t) = Len(s) + Len(t)
      /\ \A i \in 1 .. Len(s) + Len(t) :
           (s \o t)[i] = IF i <= Len(s) THEN s[i] ELSE t[i - Len(s)]
  BY ConcatProperties
<1>2. /\ Len(s) \in Nat /\ DOMAIN s = 1 .. Len(s)
      /\ Len(t) \in Nat /\ DOMAIN t = 1 .. Len(t)
      /\ DOMAIN (s \o t) = 1 .. Len(s) + Len(t)
  BY <1>1, LenProperties
<1>3. ToSet(s \o t) \subseteq ToSet(s) \cup ToSet(t)
  BY <1>1, <1>2 DEF ToSet
<1>4. ToSet(s) \subseteq ToSet(s \o t)
  BY <1>1, <1>2 DEF ToSet
<1>5. ASSUME NEW j \in 1 .. Len(t) PROVE t[j] \in ToSet(s \o t)
  <2>1. Len(s) + j \in 1 .. Len(s) + Len(t) /\ ~(Len(s) + j <= Len(s))
        /\ (Len(s) + j) - Len(s) = j
    BY <1>2
  <2>2. (s \o t)[Len(s) + j] = t[j]
    BY <1>1, <2>1
  <2> QED BY <1>2, <2>1, <2>2 DEF ToSet
<1> QED BY <1>1, <1>2, <1>3, <1>4, <1>5 DEF ToSet

\* A sequence is its head and its tail.
LEMMA ToSetOfTail ==
  ASSUME NEW S, NEW s \in Seq(S), s # <<>>
  PROVE  /\ Head(s) \in S /\ Tail(s) \in Seq(S)
         /\ ToSet(s) = {Head(s)} \cup ToSet(Tail(s))
<1>1. /\ Head(s) \in S /\ Head(s) = s[1] /\ Tail(s) \in Seq(S)
      /\ Len(Tail(s)) = Len(s) - 1
      /\ \A i \in 1 .. Len(s) - 1 : Tail(s)[i] = s[i + 1]
  BY HeadTailProperties
<1>2. /\ Len(s) \in Nat \ {0} /\ DOMAIN s = 1 .. Len(s)
      /\ DOMAIN Tail(s) = 1 .. Len(s) - 1
  BY <1>1, LenProperties, EmptySeq
<1>3. {Head(s)} \cup ToSet(Tail(s)) \subseteq ToSet(s)
  BY <1>1, <1>2 DEF ToSet
<1>4. ASSUME NEW i \in 1 .. Len(s), i # 1 PROVE s[i] \in ToSet(Tail(s))
  <2>1. i - 1 \in 1 .. Len(s) - 1 /\ (i - 1) + 1 = i
    BY <1>2, <1>4
  <2>2. Tail(s)[i - 1] = s[i]
    BY <1>1, <2>1
  <2> QED BY <1>2, <2>1, <2>2 DEF ToSet
<1> QED BY <1>1, <1>2, <1>3, <1>4 DEF ToSet

\* addExtracted
LEMMA AddExtractedIs ==
  ASSUME NEW shas \in Seq(Shas), NEW sha \in Shas
  PROVE  /\ AddExtracted(shas, sha) \in Seq(Shas)
         /\ ToSet(AddExtracted(shas, sha)) = ToSet(shas) \cup {sha}
         /\ IsInjective(shas) => IsInjective(AddExtracted(shas, sha))
<1>1. CASE sha \in ToSet(shas)
  BY <1>1 DEF AddExtracted
<1>2. CASE sha \notin ToSet(shas)
  <2>1. AddExtracted(shas, sha) = Append(shas, sha)
    BY <1>2 DEF AddExtracted
  <2>2. /\ Append(shas, sha) \in Seq(Shas)
        /\ DOMAIN Append(shas, sha) = 1 .. Len(shas) + 1
        /\ Append(shas, sha)[Len(shas) + 1] = sha
        /\ \A i \in 1 .. Len(shas) : Append(shas, sha)[i] = shas[i]
    BY AppendProperties, LenProperties
  <2>3. Len(shas) \in Nat /\ DOMAIN shas = 1 .. Len(shas)
    BY LenProperties
  <2>4. \A i \in 1 .. Len(shas) : shas[i] # sha
    BY <1>2, <2>3 DEF ToSet
  <2>5. IsInjective(shas) => IsInjective(Append(shas, sha))
    BY <2>2, <2>3, <2>4 DEF IsInjective
  <2> QED BY <2>1, <2>2, <2>5, ToSetOfAppend
<1> QED BY <1>1, <1>2

\* What a sequence of payloads has files of.
FilesAmong(payload, s) == {Digest[payload[e]] : e \in {x \in ToSet(s) : IsFile(payload[x])}}

\* A loop that takes files adds those that there are, and each once.
LEMMA TakeIs ==
  ASSUME NEW shas \in Seq(Shas), NEW payload, NEW s \in Seq(DOMAIN payload)
  PROVE  /\ Take(shas, payload, s) \in Seq(Shas)
         /\ ToSet(Take(shas, payload, s)) = ToSet(shas) \cup FilesAmong(payload, s)
         /\ IsInjective(shas) => IsInjective(Take(shas, payload, s))
<1> DEFINE E == DOMAIN payload
           D == Seq(Shas)
           Good(t) == /\ Take(shas, payload, t) \in Seq(Shas)
                      /\ ToSet(Take(shas, payload, t)) = ToSet(shas) \cup FilesAmong(payload, t)
                      /\ IsInjective(shas) => IsInjective(Take(shas, payload, t))
           S == {t \in Seq(E) : Good(t)}
<1>1. /\ Taking(payload) \in Steps(D, E)
      /\ \A a \in D, e \in E :
           Taking(payload)[<<a, e>>] =
             IF IsFile(payload[e]) THEN AddExtracted(a, Digest[payload[e]]) ELSE a
  <2>1. \A e \in E : IsFile(payload[e]) => Digest[payload[e]] \in Shas
    BY DEF IsFile, Shas
  <2>2. \A a \in D, e \in E :
          (IF IsFile(payload[e]) THEN AddExtracted(a, Digest[payload[e]]) ELSE a) \in D
    BY <2>1, AddExtractedIs
  <2> QED BY <2>2 DEF Taking, Steps
<1>2. <<>> \in S
  <2>1. Take(shas, payload, <<>>) = shas /\ <<>> \in Seq(E)
    BY <1>1, RunEmpty, EmptySeq DEF Take
  <2>2. FilesAmong(payload, <<>>) = {}
    BY DEF FilesAmong, ToSet
  <2> QED BY <2>1, <2>2
<1>3. ASSUME NEW t \in Seq(E), NEW e \in E, t \in S PROVE Append(t, e) \in S
  <2> DEFINE before == Take(shas, payload, t)
             after == Take(shas, payload, Append(t, e))
  <2>1. Good(t) /\ Append(t, e) \in Seq(E)
    BY <1>3, AppendProperties
  <2>2. after = IF IsFile(payload[e]) THEN AddExtracted(before, Digest[payload[e]]) ELSE before
    <3>1. after = Taking(payload)[<<before, e>>]
      BY <1>1, RunAppend DEF Take
    <3> QED BY <1>1, <2>1, <3>1
  <2>3. ToSet(Append(t, e)) = ToSet(t) \cup {e}
    BY ToSetOfAppend
  <2>4. CASE IsFile(payload[e])
    <3>1. Digest[payload[e]] \in Shas
      BY <2>4 DEF IsFile, Shas
    <3>2. FilesAmong(payload, Append(t, e)) = FilesAmong(payload, t) \cup {Digest[payload[e]]}
      BY <2>3, <2>4 DEF FilesAmong
    <3>3. /\ AddExtracted(before, Digest[payload[e]]) \in Seq(Shas)
          /\ ToSet(AddExtracted(before, Digest[payload[e]]))
               = ToSet(before) \cup {Digest[payload[e]]}
          /\ IsInjective(before) => IsInjective(AddExtracted(before, Digest[payload[e]]))
      BY <2>1, <3>1, AddExtractedIs
    <3> QED BY <2>1, <2>2, <2>4, <3>2, <3>3
  <2>5. CASE ~IsFile(payload[e])
    <3>1. FilesAmong(payload, Append(t, e)) = FilesAmong(payload, t)
      BY <2>3, <2>5 DEF FilesAmong
    <3> QED BY <2>1, <2>2, <2>5, <3>1
  <2> QED BY <2>4, <2>5
<1> HIDE DEF S
<1>4. Seq(E) \subseteq S
  BY <1>2, <1>3, SeqsAreReached
<1> QED BY <1>4 DEF S

\* mergeExtracted
LEMMA MergeExtractedIs ==
  ASSUME NEW a \in Seq(Shas), NEW b \in Seq(Shas), IsInjective(a)
  PROVE  /\ ToSet(MergeExtracted(a, b)) = ToSet(a) \cup ToSet(b)
         /\ IsInjective(MergeExtracted(a, b))
<1> DEFINE D == Seq(Shas)
           Good(t) == /\ MergeExtracted(a, t) \in D
                      /\ ToSet(MergeExtracted(a, t)) = ToSet(a) \cup ToSet(t)
                      /\ IsInjective(MergeExtracted(a, t))
           S == {t \in D : Good(t)}
<1>1. /\ Merging \in Steps(D, Shas)
      /\ \A x \in D, e \in Shas : Merging[<<x, e>>] = AddExtracted(x, e)
  <2>1. \A x \in D, e \in Shas : AddExtracted(x, e) \in D
    BY AddExtractedIs
  <2> QED BY <2>1 DEF Merging, Steps
<1>2. <<>> \in S
  <2>1. MergeExtracted(a, <<>>) = a /\ <<>> \in D
    BY <1>1, RunEmpty, EmptySeq DEF MergeExtracted
  <2>2. ToSet(<<>>) = {}
    BY DEF ToSet
  <2> QED BY <2>1, <2>2
<1>3. ASSUME NEW t \in D, NEW e \in Shas, t \in S PROVE Append(t, e) \in S
  <2>1. Good(t) /\ Append(t, e) \in D
    BY <1>3, AppendProperties
  <2>2. MergeExtracted(a, Append(t, e)) = AddExtracted(MergeExtracted(a, t), e)
    <3>1. MergeExtracted(a, Append(t, e)) = Merging[<<MergeExtracted(a, t), e>>]
      BY <1>1, RunAppend DEF MergeExtracted
    <3> QED BY <1>1, <2>1, <3>1
  <2>3. ToSet(Append(t, e)) = ToSet(t) \cup {e}
    BY ToSetOfAppend
  <2> QED BY <2>1, <2>2, <2>3, AddExtractedIs
<1> HIDE DEF S
<1>4. Seq(Shas) \subseteq S
  BY <1>2, <1>3, SeqsAreReached
<1> QED BY <1>4 DEF S

\* A map ranged over in any order is ranged over completely.
LEMMA OrderIs ==
  ASSUME NEW S, IsFiniteSet(S), NEW order \in SetToSeqs(S)
  PROVE  order \in Seq(S) /\ ToSet(order) = S
<1> DEFINE n == Cardinality(S)
<1>1. n \in Nat
  BY FS_CardinalityType
<1>2. order \in [1 .. n -> S] /\ \A i, j \in 1 .. n : i # j => order[i] # order[j]
  BY DEF SetToSeqs
<1>3. order \in Injection(1 .. n, S)
  BY <1>2 DEF Injection, IsInjective
<1>4. Cardinality(1 .. n) = n
  BY <1>1, FS_Interval
<1> HIDE DEF n
<1>5. order \in Surjection(1 .. n, S)
  BY <1>3, <1>4, FS_Injection DEF n
<1>6. \A e \in S : \E i \in 1 .. n : order[i] = e
  BY <1>5 DEF Surjection
<1>7. order \in Seq(S)
  BY <1>1, <1>2, SeqDef
<1>8. DOMAIN order = 1 .. n
  BY <1>2
<1> QED BY <1>2, <1>6, <1>7, <1>8 DEF ToSet

----------------------------------------------------------------------------
(***************************************************************************)
(* The strings of a body b, and what becomes of them: t2 follows t when    *)
(* nothing but files was replaced between them.                            *)
(***************************************************************************)
Strings(b) == [DOMAIN b -> Seq(Parts)]

IsMember(b, n) ==
  \E l \in DOMAIN b, key \in {"data", "b64_json", "data_base64"} :
    b[l].kind = "object" /\ key \in DOMAIN b[l].inner /\ b[l].inner[key] = n

Replaced(b, n, part, new) ==
  /\ IsFile(part.data) /\ part.kind \in {"plain", "url", "field"} /\ new = Placeholder(part)
  /\ part.kind = "plain" => IsMember(b, n)

Follows(b, t, t2) ==
  \A n \in DOMAIN b :
    /\ Len(t2[n]) = Len(t[n])
    /\ \A i \in DOMAIN t[n] : t2[n][i] = t[n][i] \/ Replaced(b, n, t[n][i], t2[n][i])

\* The digests put in between t and t2.
Marked(b, t, t2) ==
  {d \in Shas : \E n \in DOMAIN b : \E i \in DOMAIN t[n] : t2[n][i] # t[n][i] /\ t2[n][i].data = d}

\* A placeholder is a part like any other, with the digest of its file.
LEMMA PlaceholderIs ==
  ASSUME NEW part \in Parts, IsFile(part.data)
  PROVE  /\ Placeholder(part) \in Parts
         /\ Placeholder(part).kind = IF part.kind = "field" THEN "fieldMark" ELSE "mark"
         /\ Placeholder(part).data = Digest[part.data]
         /\ Digest[part.data] \in Shas
<1>1. Digest[part.data] \in Shas
  BY DEF IsFile, Shas
<1>2. Digest[part.data] \in STRING
  BY <1>1, FilesAssumption
<1> DEFINE d == Digest[part.data]
           k == IF part.kind = "field" THEN "fieldMark" ELSE "mark"
<1>3. k \in {"plain", "url", "field", "mark", "fieldMark"}
  OBVIOUS
<1>4. Placeholder(part) = [kind |-> k, data |-> d]
  BY DEF Placeholder
<1> HIDE DEF d, k
<1>5. d \in STRING
  BY <1>2 DEF d
<1>6. Placeholder(part) \in Parts /\ Placeholder(part).kind = k /\ Placeholder(part).data = d
  BY <1>3, <1>4, <1>5 DEF Parts
<1> QED BY <1>1, <1>6 DEF k, d

\* A placeholder is never taken for a file again.
LEMMA ReplacedIs ==
  ASSUME NEW b, NEW n, NEW part \in Parts, NEW new, Replaced(b, n, part, new)
  PROVE  /\ new \in Parts /\ new # part /\ new.data = Digest[part.data]
         /\ new.data \in Shas
         /\ new.kind = IF part.kind = "field" THEN "fieldMark" ELSE "mark"
         /\ \A newer : ~Replaced(b, n, new, newer)
  BY PlaceholderIs DEF Replaced

\* The same, of a whole string.
LEMMA PlainReplaced ==
  \A b, n, new : \A part \in Parts :
    part.kind = "plain" /\ Replaced(b, n, part, new) =>
      /\ new # part /\ new.data = Digest[part.data]
      /\ new.data \in Shas /\ new.kind = "mark"
BY PlaceholderIs DEF Replaced

LEMMA NotEmpty ==
  \A text : Len(text) = 1 => text # <<>>
OBVIOUS

LEMMA TextIs ==
  ASSUME NEW text \in Seq(Parts)
  PROVE  /\ Len(text) \in Nat /\ DOMAIN text = 1 .. Len(text)
         /\ \A i \in DOMAIN text : text[i] \in Parts
  BY LenProperties, ElementOfSeq

\* What Follows says of one string.
LEMMA FollowsAt ==
  ASSUME NEW b, NEW t \in Strings(b), NEW t2 \in Strings(b), Follows(b, t, t2),
         NEW n \in DOMAIN b
  PROVE  /\ Len(t[n]) \in Nat /\ Len(t2[n]) = Len(t[n])
         /\ DOMAIN t[n] = 1 .. Len(t[n]) /\ DOMAIN t2[n] = DOMAIN t[n]
         /\ \A i \in DOMAIN t[n] :
              /\ t[n][i] \in Parts /\ t2[n][i] \in Parts
              /\ t2[n][i] = t[n][i] \/ Replaced(b, n, t[n][i], t2[n][i])
<1>1. t[n] \in Seq(Parts) /\ t2[n] \in Seq(Parts)
  BY DEF Strings
<1>2. Len(t2[n]) = Len(t[n])
  BY DEF Follows
<1> QED BY <1>1, <1>2, TextIs DEF Follows

LEMMA FollowsItself ==
  ASSUME NEW b, NEW t \in Strings(b)
  PROVE  Follows(b, t, t) /\ Marked(b, t, t) = {}
  BY DEF Follows, Marked

\* Two stretches of a walk are one: what the first one put in stays.
LEMMA FollowsOn ==
  ASSUME NEW b, NEW t \in Strings(b), NEW t2 \in Strings(b), NEW t3 \in Strings(b),
         Follows(b, t, t2), Follows(b, t2, t3)
  PROVE  Follows(b, t, t3) /\ Marked(b, t, t3) = Marked(b, t, t2) \cup Marked(b, t2, t3)
<1>1. ASSUME NEW n \in DOMAIN b
      PROVE  /\ Len(t3[n]) = Len(t[n]) /\ DOMAIN t2[n] = DOMAIN t[n]
             /\ \A i \in DOMAIN t[n] :
                  /\ t[n][i] \in Parts /\ t2[n][i] \in Parts
                  /\ t2[n][i] = t[n][i] \/ Replaced(b, n, t[n][i], t2[n][i])
                  /\ t3[n][i] = t2[n][i] \/ Replaced(b, n, t2[n][i], t3[n][i])
  <2>1. /\ Len(t2[n]) = Len(t[n]) /\ DOMAIN t2[n] = DOMAIN t[n]
        /\ \A i \in DOMAIN t[n] :
              /\ t[n][i] \in Parts /\ t2[n][i] \in Parts
              /\ t2[n][i] = t[n][i] \/ Replaced(b, n, t[n][i], t2[n][i])
    BY FollowsAt
  <2>2. /\ Len(t3[n]) = Len(t2[n])
        /\ \A i \in DOMAIN t2[n] : t3[n][i] = t2[n][i] \/ Replaced(b, n, t2[n][i], t3[n][i])
    BY FollowsAt
  <2> QED BY <2>1, <2>2
<1>2. ASSUME NEW n \in DOMAIN b, NEW i \in DOMAIN t[n]
      PROVE  /\ \/ t2[n][i] = t[n][i] /\ t3[n][i] = t[n][i]
                \/ t2[n][i] = t[n][i] /\ t3[n][i] # t[n][i] /\ Replaced(b, n, t[n][i], t3[n][i])
                \/ /\ t2[n][i] # t[n][i] /\ t3[n][i] = t2[n][i]
                   /\ Replaced(b, n, t[n][i], t2[n][i])
  <2>1. CASE t2[n][i] = t[n][i]
    BY <1>1, <2>1
  <2>2. CASE t2[n][i] # t[n][i]
    <3>1. Replaced(b, n, t[n][i], t2[n][i])
      BY <1>1, <2>2
    <3>2. ~Replaced(b, n, t2[n][i], t3[n][i])
      BY <1>1, <3>1, ReplacedIs
    <3> QED BY <1>1, <2>2, <3>1, <3>2
  <2> QED BY <2>1, <2>2
<1>3. Follows(b, t, t3)
  BY <1>1, <1>2 DEF Follows
<1>4. ASSUME NEW d \in Shas PROVE d \in Marked(b, t, t3) <=> d \in Marked(b, t, t2) \cup Marked(b, t2, t3)
  <2>1. ASSUME NEW n \in DOMAIN b, NEW i \in DOMAIN t[n]
        PROVE  (t3[n][i] # t[n][i] /\ t3[n][i].data = d)
                 <=> \/ t2[n][i] # t[n][i] /\ t2[n][i].data = d
                     \/ t3[n][i] # t2[n][i] /\ t3[n][i].data = d
    BY <1>2
  <2>2. \A n \in DOMAIN b : DOMAIN t2[n] = DOMAIN t[n]
    BY <1>1
  <2> QED BY <2>1, <2>2 DEF Marked
<1>5. /\ Marked(b, t, t3) \subseteq Shas /\ Marked(b, t, t2) \subseteq Shas
      /\ Marked(b, t2, t3) \subseteq Shas
  BY DEF Marked
<1> QED BY <1>3, <1>4, <1>5

----------------------------------------------------------------------------
(***************************************************************************)
(* The members of an object that are looked at.                            *)
(***************************************************************************)
Keys == {"data", "b64_json", "data_base64"}

\* No type, format or absent string is a file.
LEMMA WordsAreNoFiles ==
  \A word \in Words : ~IsFile(word)
BY FilesAssumption DEF IsFile

\* What IsBody says of one value.
LEMMA BodyIs ==
  ASSUME NEW b, IsBody(b), NEW n \in DOMAIN b
  PROVE  /\ Len(b) \in Nat \ {0} /\ DOMAIN b = 1 .. Len(b) /\ n \in Nat
         /\ b[n].text \in Seq(Parts)
         /\ b[n].kind # "text" => b[n].text = <<>>
         /\ b[n].kind = "array" => b[n].inner \in Seq(DOMAIN b)
         /\ b[n].kind \notin {"array", "object"} => Inner(b[n]) = {}
         /\ \A key \in DOMAIN b[n].inner : b[n].inner[key] \in DOMAIN b /\ b[n].inner[key] > n
<1>1. /\ Len(b) \in Nat \ {0} /\ DOMAIN b = 1 .. Len(b)
      /\ IsValue(b[n], n + 1 .. Len(b))
  BY DEF IsBody
<1>2. n + 1 .. Len(b) \subseteq DOMAIN b /\ n \in Nat
      /\ \A l \in n + 1 .. Len(b) : l > n
  BY <1>1
<1>3. b[n].kind = "array" => b[n].inner \in Seq(DOMAIN b)
  BY <1>1, <1>2, SeqMonotonic DEF IsValue
<1>4. \A key \in DOMAIN b[n].inner : b[n].inner[key] \in n + 1 .. Len(b)
  BY <1>1 DEF IsValue, Inner
<1> QED BY <1>1, <1>2, <1>3, <1>4 DEF IsValue

\* A member keeps its string, or it was a file and has none any more.
LEMMA StringOfStays ==
  ASSUME NEW b, IsBody(b), NEW t \in Strings(b), NEW t2 \in Strings(b), Follows(b, t, t2),
         NEW n \in DOMAIN b, NEW key
  PROVE  /\ StringOf(b[n], t2, key) \in {StringOf(b[n], t, key), ""}
         /\ ~IsFile(StringOf(b[n], t, key)) => StringOf(b[n], t2, key) = StringOf(b[n], t, key)
<1>1. CASE key \notin DOMAIN b[n].inner
  BY <1>1 DEF StringOf
<1>2. CASE key \in DOMAIN b[n].inner
  <2> DEFINE m == b[n].inner[key]
  <2>1. m \in DOMAIN b
    BY <1>2, BodyIs
  <2>2. /\ Len(t[m]) \in Nat /\ Len(t2[m]) = Len(t[m]) /\ DOMAIN t[m] = 1 .. Len(t[m])
        /\ \A i \in DOMAIN t[m] : t2[m][i] = t[m][i] \/ Replaced(b, m, t[m][i], t2[m][i])
        /\ \A i \in DOMAIN t[m] : t[m][i] \in Parts
    BY <2>1, FollowsAt
  <2> HIDE DEF m
  <2>3. CASE Len(t[m]) = 1
    <3>1. 1 \in DOMAIN t[m]
      BY <2>2, <2>3
    <3>2. CASE t2[m][1] = t[m][1]
      BY <1>2, <2>2, <2>3, <3>2 DEF StringOf, IsPlain, m
    <3>3. CASE Replaced(b, m, t[m][1], t2[m][1])
      <4>1. t2[m][1].kind # "plain" /\ IsFile(t[m][1].data)
        BY <2>2, <3>1, <3>3, ReplacedIs DEF Replaced
      <4>2. StringOf(b[n], t2, key) = ""
        BY <1>2, <4>1 DEF StringOf, IsPlain, m
      <4>3. StringOf(b[n], t, key) \in {t[m][1].data, ""}
        BY <1>2 DEF StringOf, m
      <4> QED BY <4>1, <4>2, <4>3
    <3> QED BY <2>2, <3>1, <3>2, <3>3
  <2>4. CASE Len(t[m]) # 1
    BY <1>2, <2>2, <2>4 DEF StringOf, IsPlain, m
  <2> QED BY <2>3, <2>4
<1> QED BY <1>1, <1>2

\* PayloadKeys, as a set.
HasData(value, texts) ==
  StringOf(value, texts, "type") = "base64" \/ StringOf(value, texts, "format") \in AudioFormats
HasAsset(value, texts) ==
  /\ StringOf(value, texts, "format") \in ImageFormats
  /\ StringOf(value, texts, "type") \in {"", "image"}

LEMMA PayloadKeysAre ==
  ASSUME NEW value, NEW texts
  PROVE  /\ PayloadKeys(value, texts) \in Seq(Keys)
         /\ ToSet(PayloadKeys(value, texts))
              = {"b64_json"} \cup (IF HasData(value, texts) THEN {"data"} ELSE {})
                  \cup (IF HasAsset(value, texts) THEN {"data_base64"} ELSE {})
<1> DEFINE type == StringOf(value, texts, "type")
           format == StringOf(value, texts, "format")
           k1 == IF type = "base64" THEN <<"data">> ELSE <<>>
           k2 == <<"b64_json">>
           k3 == IF format \in AudioFormats THEN <<"data">> ELSE <<>>
           k4 == IF format \in ImageFormats /\ type \in {"", "image"}
                 THEN <<"data_base64">> ELSE <<>>
<1>1. \A key \in Keys : <<key>> \in Seq(Keys) /\ ToSet(<<key>>) = {key}
  BY DEF ToSet
<1>2. <<>> \in Seq(Keys) /\ ToSet(<<>>) = {}
  BY EmptySeq DEF ToSet
<1>3. "data" \in Keys /\ "b64_json" \in Keys /\ "data_base64" \in Keys
  BY DEF Keys
<1>4. /\ k1 \in Seq(Keys) /\ k2 \in Seq(Keys) /\ k3 \in Seq(Keys) /\ k4 \in Seq(Keys)
      /\ ToSet(k1) = IF type = "base64" THEN {"data"} ELSE {}
      /\ ToSet(k2) = {"b64_json"}
      /\ ToSet(k3) = IF format \in AudioFormats THEN {"data"} ELSE {}
      /\ ToSet(k4) = IF HasAsset(value, texts) THEN {"data_base64"} ELSE {}
  BY <1>1, <1>2, <1>3 DEF HasAsset
<1> DEFINE k12 == k1 \o k2
           k123 == k12 \o k3
<1>5. PayloadKeys(value, texts) = k123 \o k4
  BY DEF PayloadKeys
<1> HIDE DEF k1, k2, k3, k4
<1>6. k12 \in Seq(Keys) /\ ToSet(k12) = ToSet(k1) \cup ToSet(k2)
  BY <1>4, ToSetOfConcat
<1> HIDE DEF k12
<1>7. k123 \in Seq(Keys) /\ ToSet(k123) = ToSet(k12) \cup ToSet(k3)
  BY <1>4, <1>6, ToSetOfConcat
<1> HIDE DEF k123
<1>8. /\ PayloadKeys(value, texts) \in Seq(Keys)
      /\ ToSet(PayloadKeys(value, texts)) = ToSet(k123) \cup ToSet(k4)
  BY <1>4, <1>5, <1>7, ToSetOfConcat
<1> QED BY <1>4, <1>6, <1>7, <1>8 DEF HasData

\* What an object may have as files when it is looked at is at least what it
\* could have as it was sent: a type or a format is never replaced.
LEMMA PayloadKeysStay ==
  ASSUME NEW b, IsBody(b), NEW t \in Strings(b), NEW t2 \in Strings(b), Follows(b, t, t2),
         NEW n \in DOMAIN b
  PROVE  ToSet(PayloadKeys(b[n], t)) \subseteq ToSet(PayloadKeys(b[n], t2))
<1>1. \A key : ~IsFile(StringOf(b[n], t, key)) => StringOf(b[n], t2, key) = StringOf(b[n], t, key)
  BY StringOfStays
<1>2. \A key : StringOf(b[n], t, key) \in Words => StringOf(b[n], t2, key) = StringOf(b[n], t, key)
  BY <1>1, WordsAreNoFiles
<1>3. HasData(b[n], t) => HasData(b[n], t2)
  BY <1>2 DEF HasData, Words
<1>4. HasAsset(b[n], t) => HasAsset(b[n], t2)
  BY <1>2 DEF HasAsset, Words
<1> QED BY <1>3, <1>4, PayloadKeysAre

----------------------------------------------------------------------------
(***************************************************************************)
(* What one visit of the walk does: nothing of the value is left that is a *)
(* file, the strings follow, and the files are those that were marked.     *)
(***************************************************************************)
Cleared(text) == \A i \in DOMAIN text : text[i].kind \in {"url", "field"} => ~IsFile(text[i].data)

NothingLeft(b, t, n) ==
  /\ b[n].kind = "text" => Cleared(t[n])
  /\ b[n].kind = "object" =>
       \A key \in ToSet(PayloadKeys(b[n], TextsOf(b))) : ~IsFile(StringOf(b[n], t, key))

\* What has nothing left never gets a file back.
LEMMA NothingLeftStays ==
  ASSUME NEW b, IsBody(b), NEW t \in Strings(b), NEW t2 \in Strings(b), Follows(b, t, t2),
         NEW n \in DOMAIN b, NothingLeft(b, t, n)
  PROVE  NothingLeft(b, t2, n)
<1>1. ASSUME Cleared(t[n]) PROVE Cleared(t2[n])
  <2>1. /\ DOMAIN t2[n] = DOMAIN t[n]
        /\ \A i \in DOMAIN t[n] :
             /\ t[n][i] \in Parts
             /\ t2[n][i] = t[n][i] \/ Replaced(b, n, t[n][i], t2[n][i])
    BY FollowsAt
  <2>2. ASSUME NEW i \in DOMAIN t[n], Replaced(b, n, t[n][i], t2[n][i])
        PROVE  t2[n][i].kind \notin {"url", "field"}
    BY <2>1, <2>2, ReplacedIs
  <2> QED BY <1>1, <2>1, <2>2 DEF Cleared
<1>2. ASSUME NEW key, ~IsFile(StringOf(b[n], t, key)) PROVE ~IsFile(StringOf(b[n], t2, key))
  BY <1>2, StringOfStays
<1> QED BY <1>1, <1>2 DEF NothingLeft

\* rewriteText, part by part.
LEMMA RewriteTextIs ==
  ASSUME NEW text \in Seq(Parts)
  PROVE  /\ RewriteText(text) \in Seq(Parts) /\ Len(RewriteText(text)) = Len(text)
         /\ \A i \in DOMAIN text :
              RewriteText(text)[i] =
                IF text[i].kind \in {"url", "field"} /\ IsFile(text[i].data)
                THEN Placeholder(text[i]) ELSE text[i]
<1>1. /\ Len(text) \in Nat /\ DOMAIN text = 1 .. Len(text)
      /\ \A i \in DOMAIN text : text[i] \in Parts
  BY TextIs
<1>2. \A i \in DOMAIN text :
        (IF text[i].kind \in {"url", "field"} /\ IsFile(text[i].data)
         THEN Placeholder(text[i]) ELSE text[i]) \in Parts
  BY <1>1, PlaceholderIs
<1>3. RewriteText(text) \in [1 .. Len(text) -> Parts]
  BY <1>1, <1>2 DEF RewriteText
<1>4. RewriteText(text) \in Seq(Parts)
  BY <1>1, <1>3, SeqDef
<1>5. Len(RewriteText(text)) = Len(text)
  BY <1>1, <1>3, <1>4, LenProperties
<1> QED BY <1>4, <1>5 DEF RewriteText

\* The files of one kind in a text, as a pass over it finds them.
LEMMA OfKindIs ==
  ASSUME NEW text \in Seq(Parts), NEW kind
  PROVE  /\ text \in Seq(DOMAIN OfKind(text, kind))
         /\ FilesAmong(OfKind(text, kind), text)
              = {Digest[part.data] : part \in {p \in ToSet(text) : p.kind = kind /\ IsFile(p.data)}}
<1>1. Len(text) \in Nat /\ DOMAIN text = 1 .. Len(text)
  BY TextIs
<1>2. text \in [1 .. Len(text) -> Parts]
  BY LenProperties
<1>3. text \in [1 .. Len(text) -> ToSet(text)]
  BY <1>1, <1>2 DEF ToSet
<1>4. text \in Seq(ToSet(text))
  BY <1>1, <1>3, SeqDef
<1>5. DOMAIN OfKind(text, kind) = ToSet(text)
  BY DEF OfKind
<1>6. ~IsFile("")
  BY WordsAreNoFiles DEF Words
<1>7. \A p \in ToSet(text) :
        /\ IsFile(OfKind(text, kind)[p]) <=> p.kind = kind /\ IsFile(p.data)
        /\ p.kind = kind => OfKind(text, kind)[p] = p.data
  BY <1>6 DEF OfKind
<1> QED BY <1>4, <1>5, <1>7 DEF FilesAmong

\* Both passes over a text.
LEMMA TakeTextIs ==
  ASSUME NEW text \in Seq(Parts), NEW shas \in Seq(Shas)
  PROVE  /\ TakeText(shas, text) \in Seq(Shas)
         /\ ToSet(TakeText(shas, text)) = ToSet(shas) \cup
              {Digest[part.data] :
                 part \in {p \in ToSet(text) : p.kind \in {"url", "field"} /\ IsFile(p.data)}}
         /\ IsInjective(shas) => IsInjective(TakeText(shas, text))
<1> DEFINE first == Take(shas, OfKind(text, "url"), text)
           second == Take(first, OfKind(text, "field"), text)
           FilesOf(kind) ==
             {Digest[part.data] : part \in {p \in ToSet(text) : p.kind = kind /\ IsFile(p.data)}}
<1>1. /\ first \in Seq(Shas)
      /\ IsInjective(shas) => IsInjective(first)
      /\ ToSet(first) = ToSet(shas) \cup FilesOf("url")
  BY OfKindIs, TakeIs
<1> HIDE DEF first
<1>2. /\ second \in Seq(Shas)
      /\ IsInjective(first) => IsInjective(second)
      /\ ToSet(second) = ToSet(first) \cup FilesOf("field")
  <2>1. /\ text \in Seq(DOMAIN OfKind(text, "field"))
        /\ FilesAmong(OfKind(text, "field"), text) = FilesOf("field")
    BY OfKindIs
  <2> HIDE DEF FilesOf
  <2> QED BY <1>1, <2>1, TakeIs
<1>3. TakeText(shas, text) = second
  BY DEF TakeText, first
<1> HIDE DEF second
<1>4. FilesOf("url") \cup FilesOf("field")
        = {Digest[part.data] :
             part \in {p \in ToSet(text) : p.kind \in {"url", "field"} /\ IsFile(p.data)}}
  OBVIOUS
<1> QED BY <1>1, <1>2, <1>3, <1>4

\* A visit of a string.
LEMMA TextVisited ==
  ASSUME NEW b, NEW t \in Strings(b), NEW n \in DOMAIN b, NEW shas \in Seq(Shas),
         NEW t2, t2 = [t EXCEPT ![n] = RewriteText(t[n])]
  PROVE  /\ t2 \in Strings(b) /\ Follows(b, t, t2) /\ Cleared(t2[n])
         /\ TakeText(shas, t[n]) \in Seq(Shas)
         /\ ToSet(TakeText(shas, t[n])) = ToSet(shas) \cup Marked(b, t, t2)
         /\ IsInjective(shas) => IsInjective(TakeText(shas, t[n]))
<1> DEFINE text == t[n]
           IsOne(p) == p.kind \in {"url", "field"} /\ IsFile(p.data)
<1>1. /\ text \in Seq(Parts) /\ DOMAIN text = 1 .. Len(text) /\ Len(text) \in Nat
      /\ \A i \in DOMAIN text : text[i] \in Parts
  BY TextIs DEF Strings
<1>2. /\ RewriteText(text) \in Seq(Parts) /\ Len(RewriteText(text)) = Len(text)
      /\ DOMAIN RewriteText(text) = DOMAIN text
      /\ \A i \in DOMAIN text :
           RewriteText(text)[i] = IF IsOne(text[i]) THEN Placeholder(text[i]) ELSE text[i]
  BY <1>1, RewriteTextIs, LenProperties
<1>3. t2 \in Strings(b) /\ t2[n] = RewriteText(text) /\ \A m \in DOMAIN b : m # n => t2[m] = t[m]
  BY <1>2 DEF Strings
<1>4. \A i \in DOMAIN text : IsOne(text[i]) => Replaced(b, n, text[i], t2[n][i])
  BY <1>2, <1>3 DEF Replaced
<1>5. Follows(b, t, t2)
  BY <1>2, <1>3, <1>4 DEF Follows
<1>6. ASSUME NEW i \in DOMAIN text, IsOne(text[i])
      PROVE  /\ t2[n][i] # text[i] /\ t2[n][i].data = Digest[text[i].data]
             /\ t2[n][i].kind \notin {"url", "field"} /\ t2[n][i].data \in Shas
  <2> DEFINE p == text[i]
             q == t2[n][i]
  <2>1. p \in Parts /\ Replaced(b, n, p, q)
    BY <1>1, <1>4, <1>6
  <2> HIDE DEF p, q
  <2>2. q # p /\ q.data = Digest[p.data] /\ q.kind \in {"mark", "fieldMark"} /\ q.data \in Shas
    BY <2>1, ReplacedIs
  <2> QED BY <2>2 DEF p, q
<1>7. Cleared(t2[n])
  BY <1>2, <1>3, <1>6 DEF Cleared
<1>8. Marked(b, t, t2) = {Digest[part.data] : part \in {p \in ToSet(text) : IsOne(p)}}
  <2>1. ASSUME NEW d \in Marked(b, t, t2)
        PROVE  \E i \in DOMAIN text : IsOne(text[i]) /\ Digest[text[i].data] = d
    BY <1>2, <1>3, <1>6 DEF Marked
  <2>2. ASSUME NEW i \in DOMAIN text, IsOne(text[i])
        PROVE  Digest[text[i].data] \in Marked(b, t, t2)
    BY <1>6, <2>2 DEF Marked
  <2>3. \A d : (\E p \in ToSet(text) : IsOne(p) /\ Digest[p.data] = d)
               <=> \E i \in DOMAIN text : IsOne(text[i]) /\ Digest[text[i].data] = d
    BY DEF ToSet
  <2> HIDE DEF text, IsOne
  <2> QED BY <2>1, <2>2, <2>3
<1> QED BY <1>1, <1>3, <1>5, <1>7, <1>8, TakeTextIs

\* A member that is taken is a plain string and a file.
LEMMA TakenIs ==
  ASSUME NEW b, IsBody(b), NEW t \in Strings(b), NEW n \in DOMAIN b,
         NEW key \in Taken(b[n], t)
  PROVE  LET m == b[n].inner[key] IN
         /\ key \in Keys /\ key \in DOMAIN b[n].inner /\ m \in DOMAIN b
         /\ Len(t[m]) = 1 /\ DOMAIN t[m] = {1} /\ t[m][1] \in Parts
         /\ t[m][1].kind = "plain" /\ IsFile(t[m][1].data)
         /\ StringOf(b[n], t, key) = t[m][1].data
<1> DEFINE m == b[n].inner[key]
<1>1. /\ key \in ToSet(PayloadKeys(b[n], t)) /\ IsFile(StringOf(b[n], t, key))
  BY DEF Taken
<1>2. key \in Keys
  BY <1>1, PayloadKeysAre DEF Keys
<1>3. StringOf(b[n], t, key) # ""
  BY <1>1, WordsAreNoFiles DEF Words
<1>4. /\ key \in DOMAIN b[n].inner /\ IsPlain(t[m])
      /\ StringOf(b[n], t, key) = t[m][1].data
  BY <1>3 DEF StringOf
<1>5. m \in DOMAIN b
  BY <1>4, BodyIs
<1>6. Len(t[m]) = 1 /\ t[m][1].kind = "plain"
  BY <1>4 DEF IsPlain
<1>7. t[m] \in Seq(Parts)
  BY <1>5 DEF Strings
<1>8. DOMAIN t[m] = {1} /\ t[m][1] \in Parts
  BY <1>6, <1>7, TextIs
<1> QED BY <1>1, <1>2, <1>4, <1>5, <1>6, <1>8

\* The files of an object's own members.
LEMMA TakeMembersIs ==
  ASSUME NEW value, NEW t, NEW shas \in Seq(Shas)
  PROVE  /\ TakeMembers(shas, value, t) \in Seq(Shas)
         /\ ToSet(TakeMembers(shas, value, t)) =
              ToSet(shas) \cup {Digest[StringOf(value, t, key)] : key \in Taken(value, t)}
         /\ IsInjective(shas) => IsInjective(TakeMembers(shas, value, t))
<1> DEFINE keys == PayloadKeys(value, t)
           payload == [key \in ToSet(keys) |-> StringOf(value, t, key)]
<1>1. keys \in Seq(Keys)
  BY PayloadKeysAre
<1>2. TakeMembers(shas, value, t) = Take(shas, payload, keys)
  BY DEF TakeMembers
<1>3. FilesAmong(payload, keys) = {Digest[StringOf(value, t, key)] : key \in Taken(value, t)}
  BY DEF FilesAmong, Taken
<1>4. DOMAIN payload = ToSet(keys)
  OBVIOUS
<1> HIDE DEF keys, payload
<1>5. /\ Len(keys) \in Nat /\ DOMAIN keys = 1 .. Len(keys)
      /\ keys \in [1 .. Len(keys) -> Keys]
  BY <1>1, LenProperties
<1>6. keys \in [1 .. Len(keys) -> ToSet(keys)]
  BY <1>5 DEF ToSet
<1>7. keys \in Seq(DOMAIN payload)
  BY <1>4, <1>5, <1>6, SeqDef
<1> QED BY <1>2, <1>3, <1>7, TakeIs

\* A visit of an object, up to the members it goes into.
LEMMA MembersVisited ==
  ASSUME NEW b, IsBody(b), NEW t \in Strings(b), NEW n \in DOMAIN b, NEW shas \in Seq(Shas),
         b[n].kind = "object", TextsOf(b) \in Strings(b), Follows(b, TextsOf(b), t),
         NEW t2, t2 = ReplaceMembers(b[n], t)
  PROVE  /\ t2 \in Strings(b) /\ Follows(b, t, t2) /\ NothingLeft(b, t2, n)
         /\ \A key \in Taken(b[n], t) :
              /\ b[n].inner[key] \in DOMAIN b /\ NothingLeft(b, t2, b[n].inner[key])
              /\ Inner(b[b[n].inner[key]]) = {}
         /\ TakeMembers(shas, b[n], t) \in Seq(Shas)
         /\ ToSet(TakeMembers(shas, b[n], t)) = ToSet(shas) \cup Marked(b, t, t2)
         /\ IsInjective(shas) => IsInjective(TakeMembers(shas, b[n], t))
<1> DEFINE value == b[n]
           Member(key) == value.inner[key]
           taken == Taken(value, t)
           Out == {m \in DOMAIN b : \E key \in taken : Member(key) = m}
<1>1. ASSUME NEW key \in taken
      PROVE  /\ key \in Keys /\ key \in DOMAIN value.inner /\ Member(key) \in DOMAIN b
             /\ Len(t[Member(key)]) = 1 /\ DOMAIN t[Member(key)] = {1}
             /\ t[Member(key)][1] \in Parts
             /\ t[Member(key)][1].kind = "plain" /\ IsFile(t[Member(key)][1].data)
             /\ StringOf(value, t, key) = t[Member(key)][1].data
  BY TakenIs
<1>2. DOMAIN t = DOMAIN b /\ \A m \in DOMAIN b : t[m] \in Seq(Parts)
  BY DEF Strings
<1>3. \A m \in DOMAIN b :
        t2[m] = IF m \in Out THEN <<Placeholder(t[m][1])>> ELSE t[m]
  BY <1>2 DEF ReplaceMembers
<1>4. t2 = [m \in DOMAIN b |-> IF m \in Out THEN <<Placeholder(t[m][1])>> ELSE t[m]]
  BY <1>2 DEF ReplaceMembers
<1>5. ASSUME NEW m \in Out
      PROVE  /\ Len(t[m]) = 1 /\ DOMAIN t[m] = {1} /\ t[m][1] \in Parts
             /\ t[m][1].kind = "plain" /\ IsFile(t[m][1].data) /\ IsMember(b, m)
  <2>1. PICK key \in taken : Member(key) = m
    OBVIOUS
  <2>2. IsMember(b, m)
    BY <1>1, <2>1 DEF IsMember, Keys
  <2> QED BY <1>1, <2>1, <2>2
<1> HIDE DEF Out
<1>6. ASSUME NEW m \in Out
      PROVE  /\ t2[m] \in Seq(Parts) /\ Len(t2[m]) = 1
             /\ t2[m][1] = Placeholder(t[m][1])
             /\ Replaced(b, m, t[m][1], t2[m][1])
  <2>1. t2[m] = <<Placeholder(t[m][1])>>
    BY <1>3, <1>6 DEF Out
  <2>2. Placeholder(t[m][1]) \in Parts
    BY <1>5, PlaceholderIs
  <2>3. t2[m] \in Seq(Parts) /\ Len(t2[m]) = 1 /\ t2[m][1] = Placeholder(t[m][1])
    BY <2>1, <2>2
  <2> QED BY <1>5, <2>3 DEF Replaced
<1>7. t2 \in Strings(b)
  <2>1. \A m \in DOMAIN b : t2[m] \in Seq(Parts)
    BY <1>2, <1>3, <1>6
  <2> QED BY <1>4, <2>1 DEF Strings
<1>8. Follows(b, t, t2)
  BY <1>3, <1>5, <1>6 DEF Follows
<1>9. ASSUME NEW m \in Out
      PROVE  /\ t2[m][1] # t[m][1] /\ t2[m][1].data = Digest[t[m][1].data]
             /\ t2[m][1].data \in Shas /\ t2[m][1].kind = "mark"
  <2> DEFINE p == t[m][1]
             q == t2[m][1]
  <2>1. p \in Parts /\ p.kind = "plain" /\ Replaced(b, m, p, q)
    BY <1>5, <1>6
  <2> HIDE DEF p, q
  <2>2. q # p /\ q.data = Digest[p.data] /\ q.data \in Shas /\ q.kind = "mark"
    BY ONLY <2>1, PlainReplaced
  <2> QED BY <2>2 DEF p, q
<1>10. Out = {Member(key) : key \in taken}
  BY <1>1 DEF Out
<1>11. Marked(b, t, t2) = {Digest[StringOf(value, t, key)] : key \in taken}
  <2>1. \A d : d \in Marked(b, t, t2) <=> \E m \in Out : Digest[t[m][1].data] = d
    <3>1. ASSUME NEW d \in Marked(b, t, t2) PROVE \E m \in Out : Digest[t[m][1].data] = d
      <4>1. PICK m \in DOMAIN b : \E i \in DOMAIN t[m] : t2[m][i] # t[m][i] /\ t2[m][i].data = d
        BY DEF Marked
      <4>2. m \in Out
        BY <1>3, <4>1
      <4>3. t2[m][1].data = d
        BY <1>5, <4>1, <4>2
      <4> QED BY <1>9, <4>2, <4>3
    <3>2. ASSUME NEW m \in Out PROVE Digest[t[m][1].data] \in Marked(b, t, t2)
      BY <1>5, <1>9, <1>10, <1>1 DEF Marked
    <3> QED BY <3>1, <3>2
  <2>2. \A key \in taken : Digest[StringOf(value, t, key)] = Digest[t[Member(key)][1].data]
    BY <1>1
  <2> HIDE DEF taken, value, Member
  <2> QED BY <1>10, <2>1, <2>2
<1>12. NothingLeft(b, t2, n)
  <2> SUFFICES ASSUME NEW key \in ToSet(PayloadKeys(value, TextsOf(b)))
               PROVE  ~IsFile(StringOf(value, t2, key))
    BY DEF NothingLeft
  <2>1. key \in ToSet(PayloadKeys(value, t))
    BY PayloadKeysStay
  <2>2. CASE IsFile(StringOf(value, t, key))
    <3>1. key \in taken /\ Member(key) \in Out
      BY <1>10, <2>1, <2>2 DEF Taken
    <3>2. t2[Member(key)][1].kind = "mark"
      BY <1>9, <3>1
    <3>3. StringOf(value, t2, key) = ""
      BY <3>2 DEF StringOf, IsPlain
    <3> QED BY <3>3, WordsAreNoFiles DEF Words
  <2>3. CASE ~IsFile(StringOf(value, t, key))
    BY <1>7, <1>8, <2>3, StringOfStays
  <2> QED BY <2>2, <2>3
<1>13. ASSUME NEW m \in Out PROVE m \in DOMAIN b /\ NothingLeft(b, t2, m) /\ Inner(b[m]) = {}
  <2>1. m \in DOMAIN b
    BY DEF Out
  <2>2. Len(b[m].text) = 1
    BY <1>5, <2>1 DEF Follows, TextsOf
  <2>3. b[m].kind = "text"
    <3>1. b[m].text # <<>>
      BY <2>2, NotEmpty, Zenon
    <3> QED BY <2>1, <3>1, BodyIs
  <2>4. DOMAIN t2[m] = {1} /\ t2[m][1].kind = "mark"
    BY <1>6, <1>9, TextIs
  <2>5. Inner(b[m]) = {}
    BY <2>1, <2>3, BodyIs
  <2> QED BY <2>1, <2>3, <2>4, <2>5 DEF NothingLeft, Cleared
<1> QED BY <1>7, <1>8, <1>10, <1>11, <1>12, <1>13, TakeMembersIs

----------------------------------------------------------------------------
(***************************************************************************)
(* The walk: what was looked at has nothing left, and the values in it     *)
(* were looked at or are still to be.                                      *)
(***************************************************************************)
Walked(b, t, next) ==
  \E D \in SUBSET DOMAIN b :
    /\ \A n \in D : NothingLeft(b, t, n) /\ Inner(b[n]) \subseteq D \cup ToSet(next)
    /\ 1 \in D \cup ToSet(next)

\* Before a walk nothing was looked at, and all is in the first value.
LEMMA WalkBegins ==
  ASSUME NEW b, IsBody(b), NEW t
  PROVE  <<1>> \in Seq(DOMAIN b) /\ Walked(b, t, <<1>>)
<1>1. 1 \in DOMAIN b
  BY DEF IsBody
<1>2. <<1>> \in Seq(DOMAIN b) /\ ToSet(<<1>>) = {1}
  BY <1>1 DEF ToSet
<1>3. /\ {} \in SUBSET DOMAIN b
      /\ \A n \in {} : NothingLeft(b, t, n) /\ Inner(b[n]) \subseteq {} \cup ToSet(<<1>>)
      /\ 1 \in {} \cup ToSet(<<1>>)
  BY <1>2
<1> QED BY <1>2, <1>3 DEF Walked

\* A visit of the next value, which leaves strings t2 and goes into the values
\* of a sequence; those in it that it does not go into have nothing left.
LEMMA WalkGoesOn ==
  ASSUME NEW b, IsBody(b), NEW t \in Strings(b), NEW t2 \in Strings(b), Follows(b, t, t2),
         NEW next \in Seq(DOMAIN b), next # <<>>, Walked(b, t, next),
         NothingLeft(b, t2, Head(next)),
         NEW into \in Seq(DOMAIN b), NEW Out \in SUBSET DOMAIN b,
         Inner(b[Head(next)]) \subseteq Out \cup ToSet(into),
         \A m \in Out : NothingLeft(b, t2, m) /\ Inner(b[m]) = {}
  PROVE  into \o Tail(next) \in Seq(DOMAIN b) /\ Walked(b, t2, into \o Tail(next))
<1> DEFINE n == Head(next)
           rest == Tail(next)
           later == into \o rest
<1>1. n \in DOMAIN b /\ rest \in Seq(DOMAIN b) /\ ToSet(next) = {n} \cup ToSet(rest)
  BY ToSetOfTail
<1> HIDE DEF rest
<1>2. later \in Seq(DOMAIN b) /\ ToSet(later) = ToSet(into) \cup ToSet(rest)
  BY <1>1, ToSetOfConcat
<1> HIDE DEF later
<1>3. PICK D \in SUBSET DOMAIN b :
        /\ \A m \in D : NothingLeft(b, t, m) /\ Inner(b[m]) \subseteq D \cup ToSet(next)
        /\ 1 \in D \cup ToSet(next)
  BY DEF Walked
<1> DEFINE D2 == D \cup {n} \cup Out
<1>4. D2 \in SUBSET DOMAIN b /\ 1 \in D2 \cup ToSet(later)
  BY <1>1, <1>2, <1>3
<1>5. ASSUME NEW m \in D2
      PROVE  NothingLeft(b, t2, m) /\ Inner(b[m]) \subseteq D2 \cup ToSet(later)
  <2>1. CASE m \in D
    <3>1. NothingLeft(b, t2, m)
      BY <1>3, <2>1, NothingLeftStays
    <3>2. Inner(b[m]) \subseteq D \cup ToSet(next)
      BY <1>3, <2>1
    <3> QED BY <1>1, <1>2, <3>1, <3>2
  <2>2. CASE m = n
    BY <1>2, <2>2
  <2>3. CASE m \in Out
    BY <2>3
  <2> QED BY <2>1, <2>2, <2>3
<1>6. Walked(b, t2, later)
  <2> HIDE DEF D2
  <2> QED BY <1>4, <1>5 DEF Walked
<1> QED BY <1>2, <1>6 DEF later, rest

\* A walk that is over has been everywhere: a value is in one before it.
LEMMA WalkEnds ==
  ASSUME NEW b, IsBody(b), NEW t, Walked(b, t, <<>>)
  PROVE  \A n \in DOMAIN b : NothingLeft(b, t, n)
<1>1. ToSet(<<>>) = {}
  BY DEF ToSet
<1>2. PICK D \in SUBSET DOMAIN b :
        /\ \A m \in D : NothingLeft(b, t, m) /\ Inner(b[m]) \subseteq D
        /\ 1 \in D
  BY <1>1 DEF Walked
<1>3. /\ DOMAIN b = 1 .. Len(b) /\ Len(b) \in Nat
      /\ \A n \in DOMAIN b : n # 1 => \E l \in 1 .. n - 1 : n \in Inner(b[l])
  BY DEF IsBody
<1> DEFINE S == {m \in Nat : \A n \in DOMAIN b : n <= m => n \in D}
<1>4. 0 \in S
  BY <1>3
<1>5. ASSUME NEW m \in Nat, m \in S PROVE m + 1 \in S
  <2> SUFFICES ASSUME NEW n \in DOMAIN b, n <= m + 1 PROVE n \in D
    OBVIOUS
  <2>1. CASE n = 1
    BY <1>2, <2>1
  <2>2. CASE n # 1
    <3>1. PICK l \in 1 .. n - 1 : n \in Inner(b[l])
      BY <1>3, <2>2
    <3>2. l \in DOMAIN b /\ l <= m
      BY <1>3
    <3> QED BY <1>2, <1>5, <3>1, <3>2
  <2> QED BY <2>1, <2>2
<1> HIDE DEF S
<1>6. Nat \subseteq S
  BY <1>4, <1>5, NatsAreReached
<1> QED BY <1>2, <1>3, <1>6 DEF S

----------------------------------------------------------------------------
\* The strings of a body and the files that were taken out of them.
Extracted(b, t, shas) ==
  /\ t \in Strings(b) /\ Follows(b, TextsOf(b), t)
  /\ shas \in Seq(Shas) /\ IsInjective(shas) /\ ToSet(shas) = Marked(b, TextsOf(b), t)

\* In the middle of a walk.
Midway(b, t, shas, next) ==
  Extracted(b, t, shas) /\ next \in Seq(DOMAIN b) /\ Walked(b, t, next)

\* What every visit has to show.
LEMMA VisitOf ==
  ASSUME NEW b, IsBody(b), TextsOf(b) \in Strings(b),
         NEW t, NEW shas, NEW next, Midway(b, t, shas, next), next # <<>>,
         NEW t2 \in Strings(b), Follows(b, t, t2), NothingLeft(b, t2, Head(next)),
         NEW shas2 \in Seq(Shas), IsInjective(shas) => IsInjective(shas2),
         ToSet(shas2) = ToSet(shas) \cup Marked(b, t, t2),
         NEW into \in Seq(DOMAIN b), NEW Out \in SUBSET DOMAIN b,
         Inner(b[Head(next)]) \subseteq Out \cup ToSet(into),
         \A m \in Out : NothingLeft(b, t2, m) /\ Inner(b[m]) = {}
  PROVE  Midway(b, t2, shas2, into \o Tail(next))
<1>1. /\ t \in Strings(b) /\ Follows(b, TextsOf(b), t)
      /\ IsInjective(shas) /\ ToSet(shas) = Marked(b, TextsOf(b), t)
      /\ next \in Seq(DOMAIN b) /\ Walked(b, t, next)
  BY DEF Midway, Extracted
<1>2. /\ Follows(b, TextsOf(b), t2)
      /\ Marked(b, TextsOf(b), t2) = Marked(b, TextsOf(b), t) \cup Marked(b, t, t2)
  BY <1>1, FollowsOn
<1>3. Extracted(b, t2, shas2)
  BY <1>1, <1>2 DEF Extracted
<1>4. into \o Tail(next) \in Seq(DOMAIN b) /\ Walked(b, t2, into \o Tail(next))
  BY <1>1, WalkGoesOn
<1> QED BY <1>3, <1>4 DEF Midway

\* The values in a value are finitely many, and an array has them in a row.
LEMMA InnerIs ==
  ASSUME NEW b, IsBody(b), NEW n \in DOMAIN b
  PROVE  /\ Inner(b[n]) \in SUBSET DOMAIN b /\ IsFiniteSet(Inner(b[n]))
         /\ b[n].kind = "array" => b[n].inner \in Seq(DOMAIN b) /\ ToSet(b[n].inner) = Inner(b[n])
<1>1. /\ DOMAIN b = 1 .. Len(b) /\ Len(b) \in Nat
      /\ \A key \in DOMAIN b[n].inner : b[n].inner[key] \in DOMAIN b
      /\ b[n].kind = "array" => b[n].inner \in Seq(DOMAIN b)
  BY BodyIs
<1>2. Inner(b[n]) \in SUBSET DOMAIN b
  BY <1>1 DEF Inner
<1>3. IsFiniteSet(DOMAIN b)
  BY <1>1, FS_Interval
<1>4. IsFiniteSet(Inner(b[n]))
  BY <1>2, <1>3, FS_Subset
<1> QED BY <1>1, <1>2, <1>4 DEF ToSet, Inner

\* rewriteJSONString
LEMMA TextKeeps ==
  ASSUME NEW b, IsBody(b), TextsOf(b) \in Strings(b),
         NEW t, NEW shas, NEW next, Midway(b, t, shas, next), next # <<>>,
         b[Head(next)].kind = "text"
  PROVE  LET n == Head(next) IN
         Midway(b, [t EXCEPT ![n] = RewriteText(t[n])], TakeText(shas, t[n]), <<>> \o Tail(next))
<1> DEFINE n == Head(next)
           t2 == [t EXCEPT ![n] = RewriteText(t[n])]
           shas2 == TakeText(shas, t[n])
<1>1. t \in Strings(b) /\ shas \in Seq(Shas) /\ next \in Seq(DOMAIN b)
  BY DEF Midway, Extracted
<1>2. n \in DOMAIN b
  BY <1>1, ToSetOfTail
<1>3. /\ t2 \in Strings(b) /\ Follows(b, t, t2) /\ Cleared(t2[n])
      /\ shas2 \in Seq(Shas)
      /\ ToSet(shas2) = ToSet(shas) \cup Marked(b, t, t2)
      /\ IsInjective(shas) => IsInjective(shas2)
  BY <1>1, <1>2, TextVisited
<1>4. NothingLeft(b, t2, n)
  BY <1>3 DEF NothingLeft
<1>5. Inner(b[n]) = {}
  BY <1>2, BodyIs
<1>6. <<>> \in Seq(DOMAIN b) /\ {} \in SUBSET DOMAIN b
      /\ Inner(b[n]) \subseteq {} \cup ToSet(<<>>)
      /\ \A m \in {} : NothingLeft(b, t2, m) /\ Inner(b[m]) = {}
  BY <1>5, EmptySeq
<1> HIDE DEF t2, shas2
<1>7. Midway(b, t2, shas2, <<>> \o Tail(next))
  BY <1>3, <1>4, <1>6, VisitOf
<1> QED BY <1>7 DEF t2, shas2

\* A value that is no string and no object, and what is in it.
LEMMA ElementsKeep ==
  ASSUME NEW b, IsBody(b), TextsOf(b) \in Strings(b),
         NEW t, NEW shas, NEW next, Midway(b, t, shas, next), next # <<>>,
         b[Head(next)].kind \notin {"text", "object"},
         NEW into \in Seq(DOMAIN b), Inner(b[Head(next)]) \subseteq ToSet(into)
  PROVE  Midway(b, t, shas, into \o Tail(next))
<1>1. t \in Strings(b) /\ shas \in Seq(Shas) /\ next \in Seq(DOMAIN b)
  BY DEF Midway, Extracted
<1>2. Follows(b, t, t) /\ Marked(b, t, t) = {}
  BY <1>1, FollowsItself
<1>3. NothingLeft(b, t, Head(next))
  BY DEF NothingLeft
<1>4. /\ ToSet(shas) = ToSet(shas) \cup Marked(b, t, t)
      /\ {} \in SUBSET DOMAIN b /\ Inner(b[Head(next)]) \subseteq {} \cup ToSet(into)
      /\ \A m \in {} : NothingLeft(b, t, m) /\ Inner(b[m]) = {}
  BY <1>2
<1> QED BY <1>1, <1>2, <1>3, <1>4, VisitOf

\* rewriteJSONObject
LEMMA ObjectKeeps ==
  ASSUME NEW b, IsBody(b), TextsOf(b) \in Strings(b),
         NEW t, NEW shas, NEW next, Midway(b, t, shas, next), next # <<>>,
         b[Head(next)].kind = "object",
         NEW order \in SetToSeqs({b[Head(next)].inner[k] :
                                    k \in DOMAIN b[Head(next)].inner \ Taken(b[Head(next)], t)})
  PROVE  LET value == b[Head(next)] IN
         Midway(b, ReplaceMembers(value, t), TakeMembers(shas, value, t), order \o Tail(next))
<1> DEFINE n == Head(next)
           value == b[n]
           taken == Taken(value, t)
           rest == {value.inner[k] : k \in DOMAIN value.inner \ taken}
           Out == {m \in DOMAIN b : \E key \in taken : value.inner[key] = m}
           t2 == ReplaceMembers(value, t)
           shas2 == TakeMembers(shas, value, t)
<1>1. /\ t \in Strings(b) /\ shas \in Seq(Shas) /\ next \in Seq(DOMAIN b)
      /\ Follows(b, TextsOf(b), t)
  BY DEF Midway, Extracted
<1>2. n \in DOMAIN b
  BY <1>1, ToSetOfTail
<1>3. /\ t2 \in Strings(b) /\ Follows(b, t, t2) /\ NothingLeft(b, t2, n)
      /\ \A key \in taken :
           /\ value.inner[key] \in DOMAIN b /\ NothingLeft(b, t2, value.inner[key])
           /\ Inner(b[value.inner[key]]) = {}
      /\ shas2 \in Seq(Shas)
      /\ ToSet(shas2) = ToSet(shas) \cup Marked(b, t, t2)
      /\ IsInjective(shas) => IsInjective(shas2)
  BY <1>1, <1>2, MembersVisited
<1>4. Inner(value) \in SUBSET DOMAIN b /\ IsFiniteSet(Inner(value))
  BY <1>2, InnerIs
<1>5. rest \subseteq Inner(value) /\ Inner(value) \subseteq Out \cup rest
  BY <1>3 DEF Inner
<1>6. IsFiniteSet(rest)
  BY <1>4, <1>5, FS_Subset
<1>7. order \in Seq(rest) /\ ToSet(order) = rest
  <2> HIDE DEF rest
  <2>1. order \in SetToSeqs(rest)
    BY DEF rest
  <2> QED BY <1>6, <2>1, OrderIs
<1>8. order \in Seq(DOMAIN b)
  BY <1>4, <1>5, <1>7, SeqMonotonic
<1>9. /\ Out \in SUBSET DOMAIN b /\ Inner(b[n]) \subseteq Out \cup ToSet(order)
      /\ \A m \in Out : NothingLeft(b, t2, m) /\ Inner(b[m]) = {}
  BY <1>3, <1>5, <1>7
<1> HIDE DEF t2, shas2, Out, rest, taken
<1>10. Midway(b, t2, shas2, order \o Tail(next))
  BY <1>3, <1>8, <1>9, VisitOf
<1> QED BY <1>10 DEF t2, shas2

\* Whether the walk of a side has begun, or is over.
Begun(side) ==
  at \in IF side = "request" THEN {"request", "response", "stored"} ELSE {"response", "stored"}
Finished(side) == at \in IF side = "request" THEN {"response", "stored"} ELSE {"stored"}

\* Types, as far as the walk does not give them.
FilesTypeInv ==
  /\ at \in {"none", "request", "response", "stored"}
  /\ sent \in [Sides -> Requests \cup Responses]
  /\ blobs = [side \in Sides |-> blobs[side]] /\ found = [side \in Sides |-> found[side]]

\* A blob that has its files out and was too large then.
Clipped(side) == at = "stored" /\ blobs[side] = Gone

\* A side that is kept has its files out as far as the walk is; another one
\* has neither strings nor files.
BodyInv(side) ==
  IF Kept(side) /\ Begun(side)
  THEN /\ found[side] \in Seq(Shas) /\ IsInjective(found[side])
       /\ Clipped(side) \/ Extracted(sent[side], blobs[side], found[side])
  ELSE blobs[side] = Gone /\ found[side] = <<>>

\* After its walk a side has nothing left.
FinishedInv(side) ==
  Kept(side) /\ Finished(side) /\ ~Clipped(side) =>
    \A n \in DOMAIN sent[side] : NothingLeft(sent[side], blobs[side], n)

\* On the way, what is still to be looked at is all that may have something
\* left.
WalkInv ==
  IF at \in Sides /\ Kept(at)
  THEN todo \in Seq(DOMAIN sent[at]) /\ Walked(sent[at], blobs[at], todo)
  ELSE todo = <<>>

\* The inductive invariant.  None of the three properties is inductive itself:
\* that no file is left is known of a value only once the walk was there.
FilesInv ==
  /\ FilesTypeInv
  /\ \A side \in Sides : BodyInv(side) /\ FinishedInv(side)
  /\ WalkInv
  /\ at = "stored" => files = MergeExtracted(found["request"], found["response"])

\* What is kept is a body.
LEMMA SentIs ==
  ASSUME FilesTypeInv, NEW side \in Sides, Kept(side)
  PROVE  IsBody(sent[side]) /\ TextsOf(sent[side]) \in Strings(sent[side])
<1>1. sent[side] \in (Requests \cup Responses) \ {Gone}
  BY DEF FilesTypeInv, Kept, RetainableBlob
<1>2. IsBody(sent[side])
  BY <1>1, FilesAssumption
<1>3. \A n \in DOMAIN sent[side] : sent[side][n].text \in Seq(Parts)
  BY <1>2, BodyIs
<1>4. TextsOf(sent[side]) \in Strings(sent[side])
  BY <1>3 DEF TextsOf, Strings
<1> QED BY <1>2, <1>4

\* The invariant holds at first.
LEMMA FilesInitHolds ==
  FilesInit => FilesInv
<1> SUFFICES ASSUME FilesInit PROVE FilesInv
  OBVIOUS
<1>1. PICK a \in Requests, c \in Responses :
        sent = [side \in Sides |-> IF side = "request" THEN a ELSE c]
  BY DEF FilesInit
<1>2. sent \in [Sides -> Requests \cup Responses]
  BY <1>1
<1>3. /\ blobs = [side \in Sides |-> Gone] /\ found = [side \in Sides |-> <<>>]
      /\ todo = <<>> /\ at = "none"
  BY DEF FilesInit
<1>4. FilesTypeInv
  BY <1>2, <1>3 DEF FilesTypeInv
<1>5. \A side \in Sides : BodyInv(side) /\ FinishedInv(side)
  BY <1>3 DEF BodyInv, FinishedInv, Begun, Finished
<1>6. WalkInv
  BY <1>3 DEF WalkInv, Sides
<1> QED BY <1>3, <1>4, <1>5, <1>6 DEF FilesInv

\* extractFiles
LEMMA BeginKeeps ==
  ASSUME FilesInv, NEW side \in Sides, Begin(side)
  PROVE  FilesInv'
<1>1. /\ FilesTypeInv /\ WalkInv
      /\ \A s \in Sides : BodyInv(s) /\ FinishedInv(s)
  BY DEF FilesInv
<1>2. /\ at' = side /\ sent' = sent /\ found' = found /\ files' = files
      /\ \/ at = "none" /\ side = "request"
         \/ at = "request" /\ todo = <<>> /\ side = "response"
      /\ Kept(side) => blobs' = [blobs EXCEPT ![side] = TextsOf(sent[side])] /\ todo' = <<1>>
      /\ ~Kept(side) => blobs' = blobs /\ todo' = todo
  BY DEF Begin
<1>3. /\ side' = side
      /\ \A s \in Sides : Kept(s)' <=> Kept(s)
  BY <1>2 DEF Kept
<1>4. FilesTypeInv'
  BY <1>1, <1>2 DEF FilesTypeInv, Sides
<1>5. ~Begun(side) /\ Begun(side)' /\ ~Finished(side)'
  BY <1>2 DEF Begun, Finished
<1>6. blobs[side] = Gone /\ found[side] = <<>>
  BY <1>1, <1>5 DEF BodyInv
<1>7. ASSUME Kept(side)
      PROVE  /\ Midway(sent[side], blobs'[side], found'[side], todo')
             /\ \A s \in Sides \ {side} : blobs'[s] = blobs[s]
  <2>1. IsBody(sent[side]) /\ TextsOf(sent[side]) \in Strings(sent[side])
    BY <1>1, <1>7, SentIs
  <2>2. /\ blobs'[side] = TextsOf(sent[side]) /\ found'[side] = <<>> /\ todo' = <<1>>
        /\ \A s \in Sides \ {side} : blobs'[s] = blobs[s]
    BY <1>1, <1>2, <1>6, <1>7 DEF FilesTypeInv
  <2>3. /\ Follows(sent[side], TextsOf(sent[side]), TextsOf(sent[side]))
        /\ Marked(sent[side], TextsOf(sent[side]), TextsOf(sent[side])) = {}
    BY <2>1, FollowsItself
  <2>4. <<>> \in Seq(Shas) /\ IsInjective(<<>>) /\ ToSet(<<>>) = {}
    BY EmptySeq DEF IsInjective, ToSet
  <2>5. Extracted(sent[side], TextsOf(sent[side]), <<>>)
    BY <2>1, <2>3, <2>4 DEF Extracted
  <2>6. /\ <<1>> \in Seq(DOMAIN sent[side])
        /\ Walked(sent[side], TextsOf(sent[side]), <<1>>)
    BY <2>1, WalkBegins
  <2> QED BY <2>2, <2>5, <2>6 DEF Midway
<1>8. \A s \in Sides : BodyInv(s)'
  <2> SUFFICES ASSUME NEW s \in Sides PROVE BodyInv(s)'
    OBVIOUS
  <2>1. CASE s = side /\ Kept(side)
    BY <1>2, <1>3, <1>5, <1>7, <2>1 DEF BodyInv, Midway, Extracted
  <2>2. CASE s = side /\ ~Kept(side)
    BY <1>2, <1>3, <1>6, <2>2 DEF BodyInv
  <2>3. CASE s # side
    <3>1. blobs'[s] = blobs[s]
      BY <1>2, <1>7, <2>3
    <3>2. Begun(s)' <=> Begun(s)
      BY <1>2, <2>3 DEF Begun, Sides
    <3> QED BY <1>1, <1>2, <1>3, <3>1, <3>2 DEF BodyInv, Clipped
  <2> QED BY <2>1, <2>2, <2>3
<1>9. \A s \in Sides : FinishedInv(s)'
  <2> SUFFICES ASSUME NEW s \in Sides, Kept(s), Finished(s)',
                      NEW n \in DOMAIN sent[s]
               PROVE  NothingLeft(sent[s], blobs'[s], n)
    BY <1>2, <1>3 DEF FinishedInv
  <2>1. at = "request" /\ side = "response" /\ s = "request" /\ todo = <<>>
    BY <1>2, <1>5 DEF Finished, Sides
  <2>2. blobs'[s] = blobs[s]
    BY <1>2, <1>7, <2>1
  <2>3. IsBody(sent[s])
    BY <1>1, SentIs
  <2>4. Walked(sent[s], blobs[s], <<>>)
    BY <1>1, <2>1 DEF WalkInv
  <2> QED BY <2>2, <2>3, <2>4, WalkEnds
<1>10. WalkInv'
  <2>1. CASE Kept(side)
    BY <1>2, <1>3, <1>7, <2>1 DEF WalkInv, Midway
  <2>2. CASE ~Kept(side)
    <3>1. todo = <<>>
      BY <1>1, <1>2 DEF WalkInv, Sides
    <3> QED BY <1>2, <1>3, <2>2, <3>1 DEF WalkInv
  <2> QED BY <2>1, <2>2
<1> QED
  <2>1. at' # "stored"
    BY <1>2
  <2> QED BY <1>4, <1>8, <1>9, <1>10, <2>1 DEF FilesInv

\* A visit, of whatever is next.
LEMMA VisitKeeps ==
  ASSUME FilesInv, todo # <<>>, UNCHANGED <<sent, at, files>>,
         blobs' = [blobs EXCEPT ![at] = blobs'[at]], found' = [found EXCEPT ![at] = found'[at]],
         Midway(sent[at], blobs'[at], found'[at], todo')
  PROVE  FilesInv'
<1>1. /\ FilesTypeInv /\ WalkInv
      /\ \A s \in Sides : BodyInv(s) /\ FinishedInv(s)
  BY DEF FilesInv
<1>2. at \in Sides /\ Kept(at)
  BY <1>1 DEF WalkInv
<1>3. \A s \in Sides : (Kept(s)' <=> Kept(s)) /\ (Begun(s)' <=> Begun(s))
                       /\ (Finished(s)' <=> Finished(s))
  BY DEF Kept, Begun, Finished
<1>4. Begun(at) /\ ~Finished(at) /\ at # "stored"
  BY <1>2 DEF Begun, Finished, Sides
<1>5. \A s \in Sides \ {at} : blobs'[s] = blobs[s] /\ found'[s] = found[s]
  BY <1>1 DEF FilesTypeInv
<1>6. FilesTypeInv'
  BY <1>1 DEF FilesTypeInv
<1>7. ASSUME NEW s \in Sides PROVE BodyInv(s)' /\ FinishedInv(s)'
  <2>1. CASE s = at
    BY <1>2, <1>3, <1>4, <2>1 DEF BodyInv, FinishedInv, Midway, Extracted
  <2>2. CASE s # at
    BY <1>1, <1>3, <1>4, <1>5, <2>2 DEF BodyInv, FinishedInv, Clipped
  <2> QED BY <2>1, <2>2
<1>8. WalkInv'
  BY <1>2, <1>3 DEF WalkInv, Midway
<1> QED BY <1>4, <1>6, <1>7, <1>8 DEF FilesInv

\* What a visit starts from, and what it leaves.
LEMMA NextIsMidway ==
  ASSUME FilesInv, todo # <<>>
  PROVE  /\ at \in Sides /\ IsBody(sent[at]) /\ TextsOf(sent[at]) \in Strings(sent[at])
         /\ Midway(sent[at], blobs[at], found[at], todo)
         /\ Head(todo) \in DOMAIN sent[at]
<1>1. FilesTypeInv /\ WalkInv /\ \A s \in Sides : BodyInv(s)
  BY DEF FilesInv
<1>2. /\ at \in Sides /\ Kept(at) /\ todo \in Seq(DOMAIN sent[at])
      /\ Walked(sent[at], blobs[at], todo)
  BY <1>1 DEF WalkInv
<1>3. Extracted(sent[at], blobs[at], found[at])
  BY <1>1, <1>2 DEF BodyInv, Begun, Clipped, Sides
<1>4. Head(todo) \in DOMAIN sent[at]
  BY <1>2, ToSetOfTail
<1> QED BY <1>1, <1>2, <1>3, <1>4, SentIs DEF Midway

\* The same, of the strings, files and values that a visit leaves.
LEMMA LeaveKeeps ==
  ASSUME FilesInv, todo # <<>>, NEW texts, NEW shas, NEW into, Leave(texts, shas, into),
         Midway(sent[at], texts, shas, into \o Tail(todo))
  PROVE  FilesInv'
<1>1. at \in Sides /\ FilesTypeInv
  BY NextIsMidway DEF FilesInv
<1>2. /\ blobs' = [blobs EXCEPT ![at] = texts] /\ found' = [found EXCEPT ![at] = shas]
      /\ todo' = into \o Tail(todo) /\ UNCHANGED <<sent, at, files>>
  BY DEF Leave
<1>3. blobs'[at] = texts /\ found'[at] = shas
  BY <1>1, <1>2 DEF FilesTypeInv
<1> QED BY <1>2, <1>3, VisitKeeps

LEMMA VisitTextKeeps ==
  ASSUME FilesInv, VisitText
  PROVE  FilesInv'
<1>1. todo # <<>> /\ sent[at][Head(todo)].kind = "text"
  BY DEF VisitText, NextIs
<1>2. PICK t : t = blobs[at]
  OBVIOUS
<1>3. PICK texts : texts = [t EXCEPT ![Head(todo)] = RewriteText(t[Head(todo)])]
  OBVIOUS
<1>4. PICK shas : shas = TakeText(found[at], t[Head(todo)])
  OBVIOUS
<1>5. PICK into : into = <<>>
  OBVIOUS
<1>6. Leave(texts, shas, into)
  BY <1>2, <1>3, <1>4, <1>5 DEF VisitText
<1>7. Midway(sent[at], texts, shas, into \o Tail(todo))
  BY <1>1, <1>2, <1>3, <1>4, <1>5, NextIsMidway, TextKeeps
<1> QED BY <1>1, <1>6, <1>7, LeaveKeeps

LEMMA VisitArrayKeeps ==
  ASSUME FilesInv, VisitArray
  PROVE  FilesInv'
<1>1. todo # <<>> /\ sent[at][Head(todo)].kind = "array"
  BY DEF VisitArray, NextIs
<1>2. PICK texts : texts = blobs[at]
  OBVIOUS
<1>3. PICK shas : shas = found[at]
  OBVIOUS
<1>4. PICK into : into = sent[at][Head(todo)].inner
  OBVIOUS
<1>5. Leave(texts, shas, into)
  BY <1>2, <1>3, <1>4 DEF VisitArray
<1>6. into \in Seq(DOMAIN sent[at]) /\ Inner(sent[at][Head(todo)]) \subseteq ToSet(into)
  BY <1>1, <1>4, NextIsMidway, InnerIs
<1>7. Midway(sent[at], texts, shas, into \o Tail(todo))
  BY <1>1, <1>2, <1>3, <1>6, NextIsMidway, ElementsKeep
<1> QED BY <1>1, <1>5, <1>7, LeaveKeeps

LEMMA VisitObjectKeeps ==
  ASSUME FilesInv, VisitObject
  PROVE  FilesInv'
<1>1. todo # <<>> /\ sent[at][Head(todo)].kind = "object"
  BY DEF VisitObject, NextIs
<1>2. PICK value, t, f : value = sent[at][Head(todo)] /\ t = blobs[at] /\ f = found[at]
  OBVIOUS
<1>3. PICK into \in SetToSeqs({value.inner[k] : k \in DOMAIN value.inner \ Taken(value, t)}) :
        Leave(ReplaceMembers(value, t), TakeMembers(f, value, t), into)
  BY <1>2 DEF VisitObject
<1>4. PICK texts, shas : texts = ReplaceMembers(value, t) /\ shas = TakeMembers(f, value, t)
  OBVIOUS
<1>5. Leave(texts, shas, into)
  BY <1>3, <1>4
<1>6. Midway(sent[at], texts, shas, into \o Tail(todo))
  BY <1>1, <1>2, <1>3, <1>4, NextIsMidway, ObjectKeeps
<1> QED BY <1>1, <1>5, <1>6, LeaveKeeps

LEMMA VisitOtherKeeps ==
  ASSUME FilesInv, VisitOther
  PROVE  FilesInv'
<1>1. todo # <<>> /\ sent[at][Head(todo)].kind = "other"
  BY DEF VisitOther, NextIs
<1>2. PICK texts, shas, into : texts = blobs[at] /\ shas = found[at] /\ into = <<>>
  OBVIOUS
<1>3. Leave(texts, shas, into)
  BY <1>2 DEF VisitOther
<1>4. Inner(sent[at][Head(todo)]) = {}
  BY <1>1, NextIsMidway, BodyIs
<1>5. into \in Seq(DOMAIN sent[at]) /\ Inner(sent[at][Head(todo)]) \subseteq ToSet(into)
  BY <1>2, <1>4, EmptySeq
<1>6. Midway(sent[at], texts, shas, into \o Tail(todo))
  BY <1>1, <1>2, <1>5, NextIsMidway, ElementsKeep
<1> QED BY <1>1, <1>3, <1>6, LeaveKeeps

\* Record, once both bodies are walked: a blob is as it was, or clipped.
LEMMA StoreKeeps ==
  ASSUME FilesInv, Store
  PROVE  FilesInv'
<1>1. /\ FilesTypeInv /\ WalkInv
      /\ \A s \in Sides : BodyInv(s) /\ FinishedInv(s)
  BY DEF FilesInv
<1>2. /\ at = "response" /\ todo = <<>> /\ at' = "stored"
      /\ files' = MergeExtracted(found["request"], found["response"])
      /\ sent' = sent /\ found' = found /\ todo' = todo
      /\ blobs' = [side \in Sides |-> IF Kept(side) THEN ClipBlob(blobs[side]) ELSE Gone]
  BY DEF Store
<1>3. \A s \in Sides : (Kept(s)' <=> Kept(s)) /\ Begun(s)' /\ Begun(s) /\ Finished(s)'
  BY <1>2 DEF Kept, Begun, Finished
<1>4. FilesTypeInv'
  BY <1>1, <1>2 DEF FilesTypeInv
<1>5. \A s \in Sides : blobs'[s] = Gone \/ (Kept(s) /\ blobs'[s] = blobs[s])
  BY <1>2 DEF ClipBlob
<1>6. ASSUME NEW s \in Sides PROVE BodyInv(s)' /\ FinishedInv(s)'
  <2>1. CASE blobs'[s] = Gone
    <3>1. Clipped(s)'
      BY <1>2, <2>1 DEF Clipped
    <3>2. Kept(s) => found[s] \in Seq(Shas) /\ IsInjective(found[s])
      BY <1>1, <1>3 DEF BodyInv
    <3>3. ~Kept(s) => found[s] = <<>>
      BY <1>1 DEF BodyInv
    <3> QED BY <1>2, <1>3, <2>1, <3>1, <3>2, <3>3 DEF BodyInv, FinishedInv
  <2>2. CASE Kept(s) /\ blobs'[s] = blobs[s]
    <3>1. ~Clipped(s)
      BY <1>2 DEF Clipped
    <3>2. IsBody(sent[s])
      BY <1>1, <2>2, SentIs
    <3>3. \A n \in DOMAIN sent[s] : NothingLeft(sent[s], blobs[s], n)
      <4>1. CASE s = "request"
        BY <1>1, <1>2, <2>2, <3>1, <4>1 DEF FinishedInv, Finished
      <4>2. CASE s = "response"
        <5>1. Walked(sent[s], blobs[s], <<>>)
          BY <1>1, <1>2, <2>2, <4>2 DEF WalkInv
        <5> QED BY <3>2, <5>1, WalkEnds
      <4> QED BY <4>1, <4>2 DEF Sides
    <3> QED BY <1>1, <1>2, <1>3, <2>2, <3>1, <3>3 DEF BodyInv, FinishedInv
  <2> QED BY <1>5, <2>1, <2>2
<1>7. WalkInv'
  BY <1>2 DEF WalkInv, Sides
<1> QED BY <1>2, <1>4, <1>6, <1>7 DEF FilesInv

\* Every step keeps it.
LEMMA FilesNextHolds ==
  FilesInv /\ [FilesNext]_filesVars => FilesInv'
<1> SUFFICES ASSUME FilesInv, [FilesNext]_filesVars PROVE FilesInv'
  OBVIOUS
<1>1. ASSUME NEW side \in Sides, Begin(side) PROVE FilesInv'
  BY <1>1, BeginKeeps
<1>2. CASE VisitText
  BY <1>2, VisitTextKeeps
<1>3. CASE VisitArray
  BY <1>3, VisitArrayKeeps
<1>4. CASE VisitObject
  BY <1>4, VisitObjectKeeps
<1>5. CASE VisitOther
  BY <1>5, VisitOtherKeeps
<1>6. CASE Store
  BY <1>6, StoreKeeps
<1>7. CASE UNCHANGED filesVars
  BY <1>7 DEF filesVars, FilesInv, FilesTypeInv, BodyInv, FinishedInv, WalkInv, Kept, Begun,
              Finished, Clipped
<1> QED BY <1>1, <1>2, <1>3, <1>4, <1>5, <1>6, <1>7 DEF FilesNext

\* Every behaviour has the invariant.
LEMMA FilesInvHolds ==
  FilesSpec => []FilesInv
BY FilesInitHolds, FilesNextHolds, PTL DEF FilesSpec

\* Nothing but files is ever replaced in a body, each by its own placeholder
\* (rewriteText, rewriteJSONObject), whatever the bodies and their nesting are.
THEOREM OnlyFilesReplacedHolds ==
  FilesSpec => []OnlyFilesReplaced
<1>1. FilesInv => OnlyFilesReplaced
  <2> SUFFICES ASSUME FilesInv, NEW side \in Sides, blobs[side] # Gone,
                      NEW n \in DOMAIN sent[side]
               PROVE  LET old == sent[side][n].text
                          new == blobs[side][n]
                      IN /\ Len(new) = Len(old)
                         /\ \A i \in DOMAIN old : new[i] # old[i] =>
                              /\ IsFile(old[i].data) /\ new[i].data = Digest[old[i].data]
                              /\ new[i].kind = IF old[i].kind = "field" THEN "fieldMark" ELSE "mark"
                              /\ old[i].kind = "plain" =>
                                   \E l \in DOMAIN sent[side], key \in {"data", "b64_json", "data_base64"} :
                                     /\ sent[side][l].kind = "object" /\ key \in DOMAIN sent[side][l].inner
                                     /\ sent[side][l].inner[key] = n
    BY DEF OnlyFilesReplaced
  <2> DEFINE b == sent[side]
             old == b[n].text
             new == blobs[side][n]
  <2>1. Kept(side) /\ Extracted(b, blobs[side], found[side]) /\ FilesTypeInv
    BY DEF FilesInv, BodyInv, Clipped
  <2>2. IsBody(b) /\ TextsOf(b) \in Strings(b)
    BY <2>1, SentIs
  <2>3. blobs[side] \in Strings(b) /\ Follows(b, TextsOf(b), blobs[side]) /\ TextsOf(b)[n] = old
    BY <2>1 DEF Extracted, TextsOf
  <2>4. /\ Len(new) = Len(old)
        /\ \A i \in DOMAIN old :
             /\ old[i] \in Parts
             /\ new[i] = old[i] \/ Replaced(b, n, old[i], new[i])
    BY <2>2, <2>3, FollowsAt
  <2>5. ASSUME NEW i \in DOMAIN old, Replaced(b, n, old[i], new[i])
        PROVE  /\ IsFile(old[i].data) /\ new[i] = Placeholder(old[i])
               /\ old[i].kind = "plain" => IsMember(b, n)
    BY <2>5 DEF Replaced
  <2>6. ASSUME NEW i \in DOMAIN old, Replaced(b, n, old[i], new[i])
        PROVE  /\ new[i].data = Digest[old[i].data]
               /\ new[i].kind = IF old[i].kind = "field" THEN "fieldMark" ELSE "mark"
    BY <2>4, <2>5, <2>6, PlaceholderIs
  <2> HIDE DEF old, new
  <2>7. \A i \in DOMAIN old : new[i] # old[i] =>
          /\ IsFile(old[i].data) /\ new[i].data = Digest[old[i].data]
          /\ new[i].kind = IF old[i].kind = "field" THEN "fieldMark" ELSE "mark"
          /\ old[i].kind = "plain" => IsMember(b, n)
    BY <2>4, <2>5, <2>6
  <2> QED BY <2>4, <2>7 DEF old, new, IsMember
<1> QED BY <1>1, FilesInvHolds, PTL

\* The digests in a body are those of the files found in it.
LEMMA ReplacementsAreMarked ==
  ASSUME FilesTypeInv, NEW side \in Sides, Kept(side),
         Extracted(sent[side], blobs[side], found[side])
  PROVE  Replacements(side) = ToSet(found[side])
<1> DEFINE b == sent[side]
           t == blobs[side]
<1>1. IsBody(b) /\ TextsOf(b) \in Strings(b)
  BY SentIs
<1>2. /\ t \in Strings(b) /\ Follows(b, TextsOf(b), t)
      /\ ToSet(found[side]) = Marked(b, TextsOf(b), t)
  BY DEF Extracted
<1>3. \A n \in DOMAIN b : TextsOf(b)[n] = b[n].text
  BY DEF TextsOf
<1>4. ASSUME NEW n \in DOMAIN b
      PROVE  /\ DOMAIN t[n] = DOMAIN b[n].text
             /\ \A i \in DOMAIN b[n].text : t[n][i] # b[n].text[i] => t[n][i].data \in Shas
  <2> DEFINE t0 == TextsOf(b)
             old == t0[n]
             new == t[n]
  <2>1. old = b[n].text
    BY <1>3
  <2> HIDE DEF b, t, t0
  <2>2. /\ DOMAIN new = DOMAIN old
        /\ \A i \in DOMAIN old :
             old[i] \in Parts /\ (new[i] = old[i] \/ Replaced(b, n, old[i], new[i]))
    BY <1>1, <1>2, FollowsAt DEF t0
  <2> HIDE DEF old, new
  <2>3. \A i \in DOMAIN old : new[i] # old[i] => new[i].data \in Shas
    BY <2>2, ReplacedIs
  <2>4. DOMAIN new = DOMAIN old
    BY <2>2
  <2> QED BY <2>1, <2>3, <2>4 DEF new
<1>5. \A d : d \in Replacements(side) <=>
               \E n \in DOMAIN b : \E i \in DOMAIN t[n] : t[n][i] # b[n].text[i] /\ t[n][i].data = d
  BY DEF Replacements
<1>6. \A d : d \in Marked(b, TextsOf(b), t) <=>
               /\ d \in Shas
               /\ \E n \in DOMAIN b : \E i \in DOMAIN b[n].text :
                    t[n][i] # b[n].text[i] /\ t[n][i].data = d
  BY <1>3 DEF Marked
<1> HIDE DEF b, t
<1>7. \A d : d \in Replacements(side) <=> d \in Marked(b, TextsOf(b), t)
  BY <1>4, <1>5, <1>6
<1> QED BY <1>2, <1>7

\* The placeholders of a stored call are among the files stored with it, are all
\* of them when no blob was clipped, and each file is there once (addExtracted,
\* mergeExtracted, clipBlob), for every request and response.
THEOREM PlaceholdersAreFilesHolds ==
  FilesSpec => []PlaceholdersAreFiles
<1>1. FilesInv => PlaceholdersAreFiles
  <2> SUFFICES ASSUME FilesInv, at = "stored"
               PROVE  PlaceholdersAreFiles
    BY DEF PlaceholdersAreFiles
  <2> DEFINE named == UNION {Replacements(side) : side \in Stored}
  <2>1. /\ FilesTypeInv /\ \A side \in Sides : BodyInv(side)
        /\ files = MergeExtracted(found["request"], found["response"])
    BY DEF FilesInv
  <2>2. \A side \in Sides : Begun(side)
    BY DEF Begun
  <2>3. ASSUME NEW side \in Sides
        PROVE  /\ found[side] \in Seq(Shas) /\ IsInjective(found[side])
               /\ side \in Stored => Replacements(side) = ToSet(found[side])
               /\ ~Kept(side) => ToSet(found[side]) = {}
    <3>1. CASE Kept(side)
      <4>1. found[side] \in Seq(Shas) /\ IsInjective(found[side])
        BY <2>1, <2>2, <3>1 DEF BodyInv
      <4>2. ASSUME side \in Stored PROVE Replacements(side) = ToSet(found[side])
        <5>1. Extracted(sent[side], blobs[side], found[side])
          BY <2>1, <2>2, <3>1, <4>2 DEF BodyInv, Clipped, Stored
        <5> QED BY <2>1, <3>1, <5>1, ReplacementsAreMarked
      <4> QED BY <3>1, <4>1, <4>2
    <3>2. CASE ~Kept(side)
      <4>1. found[side] = <<>> /\ side \notin Stored
        BY <2>1, <3>2 DEF BodyInv, Stored
      <4> QED BY <3>2, <4>1, EmptySeq DEF IsInjective, ToSet
    <3> QED BY <3>1, <3>2
  <2>4. Sides = {"request", "response"} /\ Stored \subseteq Sides
    BY DEF Sides, Stored
  <2>5. /\ ToSet(files) = ToSet(found["request"]) \cup ToSet(found["response"])
        /\ IsInjective(files)
    BY <2>1, <2>3, <2>4, MergeExtractedIs
  <2>6. \A d : d \in named <=> \E side \in Stored : d \in Replacements(side)
    OBVIOUS
  <2>7. \A d : d \in ToSet(files) <=> \E side \in Sides : d \in ToSet(found[side])
    BY <2>4, <2>5
  <2> HIDE DEF named
  <2>8. named \subseteq ToSet(files)
    BY <2>3, <2>4, <2>6, <2>7
  <2>9. ASSUME {side \in Sides : Kept(side)} \subseteq Stored PROVE named = ToSet(files)
    <3>1. \A side \in Sides : side \in Stored \/ ToSet(found[side]) = {}
      BY <2>3, <2>9
    <3>2. \A d : d \in ToSet(files) => d \in named
      BY <2>3, <2>6, <2>7, <3>1
    <3> QED BY <2>8, <3>2
  <2> QED BY <2>5, <2>8, <2>9 DEF PlaceholdersAreFiles, named
<1> QED BY <1>1, FilesInvHolds, PTL

\* No stored body holds a file where one would have been looked for, however
\* deep the value is and in whatever order the maps were ranged over
\* (rewriteJSON).
THEOREM NoPayloadLeftHolds ==
  FilesSpec => []NoPayloadLeft
<1>1. FilesInv => NoPayloadLeft
  <2> SUFFICES ASSUME FilesInv, NEW side \in Stored, NEW n \in DOMAIN sent[side]
               PROVE  LET value == sent[side][n] IN
                      /\ \A i \in DOMAIN blobs[side][n] :
                           blobs[side][n][i].kind \in {"url", "field"} => ~IsFile(blobs[side][n][i].data)
                      /\ value.kind = "object" =>
                           \A key \in ToSet(PayloadKeys(value, TextsOf(sent[side]))) :
                             ~IsFile(StringOf(value, blobs[side], key))
    BY DEF NoPayloadLeft
  <2>1. /\ FilesTypeInv /\ BodyInv(side) /\ FinishedInv(side) /\ side \in Sides
        /\ at = "stored" /\ blobs[side] # Gone
    BY DEF FilesInv, Stored
  <2>2. Kept(side) /\ Extracted(sent[side], blobs[side], found[side])
    BY <2>1 DEF BodyInv, Begun, Clipped
  <2>3. NothingLeft(sent[side], blobs[side], n)
    BY <2>1, <2>2 DEF FinishedInv, Finished, Clipped
  <2>4. Cleared(blobs[side][n])
    <3>1. CASE sent[side][n].kind = "text"
      BY <2>3, <3>1 DEF NothingLeft
    <3>2. CASE sent[side][n].kind # "text"
      <4>1. IsBody(sent[side]) /\ TextsOf(sent[side]) \in Strings(sent[side])
        BY <2>1, <2>2, SentIs
      <4>2. TextsOf(sent[side])[n] = <<>>
        BY <3>2, <4>1, BodyIs DEF TextsOf
      <4>3. DOMAIN blobs[side][n] = DOMAIN TextsOf(sent[side])[n]
        BY <2>2, <4>1, FollowsAt DEF Extracted
      <4>4. DOMAIN <<>> = {}
        OBVIOUS
      <4> QED BY <4>2, <4>3, <4>4 DEF Cleared
    <3> QED BY <3>1, <3>2
  <2> QED BY <2>3, <2>4 DEF NothingLeft, Cleared
<1> QED BY <1>1, FilesInvHolds, PTL
=============================================================================
