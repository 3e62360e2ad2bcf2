---------------------------- MODULE RoutingProofs ----------------------------
(***************************************************************************)
(* Theorems about Routing for configuration files of any length, with any  *)
(* protocols, names and models: what validate accepts is what requests get.*)
(***************************************************************************)
EXTENDS Routing, SeqRunProofs

\* What validate asks of the associations of a model.
ValidRefs(ps, refs) == \A k \in 1 .. Len(refs) : ValidRef(ps, refs[k])

Accepted(ps, ms) == ValidProviders(ps) /\ ValidModels(ps, ms)

Answer(name, q) ==
  LET ps == ProvidersFor(name, q) IN [k \in DOMAIN ps |-> Resolve(ps[k], q, name)]

\* The configuration of a serving process is the file, and the file is valid;
\* the attempts of the last request are what its handler asked for.
RoutingInv ==
  /\ file \in [providers : ProviderLists, models : ModelLists]
  /\ phase \in {"start", "serving", "exited"}
  /\ phase = "serving" =>
       /\ providers = file.providers /\ models = file.models
       /\ Accepted(providers, models)
  /\ asked = NoRequest => attempts = <<>>
  /\ asked # NoRequest =>
       /\ phase = "serving" /\ asked.protocol \in Protocols
       /\ attempts = Answer(asked.model, asked.protocol)

\* At start-up and after every request.
THEOREM Invariant == Spec => []RoutingInv
<1>1. Init => RoutingInv
  BY DEF Init, RoutingInv
<1>2. RoutingInv /\ [Next]_vars => RoutingInv'
  <2> SUFFICES ASSUME RoutingInv, [Next]_vars PROVE RoutingInv'
    OBVIOUS
  <2>1. CASE Load
    BY <2>1 DEF Load, RoutingInv, Accepted, Answer
  <2>2. ASSUME NEW name \in ClientModels, NEW q \in Protocols, Request(name, q)
        PROVE  RoutingInv'
    <3>1. /\ phase = "serving" /\ UNCHANGED <<file, providers, models, phase>>
          /\ asked' = [model |-> name, protocol |-> q]
          /\ attempts' = Answer(name, q)
      BY <2>2 DEF Request, Answer
    <3>2. Answer(name, q)' = Answer(name, q)
      BY <3>1 DEF Answer, ProvidersFor
    <3>3. asked' # NoRequest /\ asked'.model = name /\ asked'.protocol = q
      BY <3>1, RoutingAssumption DEF NoRequest
    <3>4. (asked' # NoRequest => attempts' = Answer(asked.model, asked.protocol)')
      BY <3>1, <3>2, <3>3 DEF Answer, ProvidersFor
    <3> QED BY <3>1, <3>3, <3>4 DEF RoutingInv, Accepted
  <2>3. CASE UNCHANGED vars
    BY <2>3 DEF vars, RoutingInv, Answer, ProvidersFor
  <2> QED BY <2>1, <2>2, <2>3 DEF Next
<1> QED
  BY <1>1, <1>2, PTL DEF Spec

----------------------------------------------------------------------------
\* A name validate saw once is found, and at its only place.
LEMMA FirstOfUnique ==
  ASSUME NEW T, NEW list \in Seq(T), UniqueNames(list), NEW k \in 1 .. Len(list)
  PROVE  Known(list, list[k].name) /\ First(list, list[k].name) = list[k]
<1>1. DOMAIN list = 1 .. Len(list) /\ Len(list) \in Nat
  BY LenProperties
<1> DEFINE P(i) == /\ i \in DOMAIN list /\ list[i].name = list[k].name
                   /\ \A j \in DOMAIN list : list[j].name = list[k].name => i <= j
<1>2. P(k)
  <2>1. \A j \in DOMAIN list : list[j].name = list[k].name => j = k
    BY <1>1 DEF UniqueNames
  <2> QED BY <1>1, <2>1
<1>3. \A i : P(i) => i = k
  BY <1>1 DEF UniqueNames
<1>4. First(list, list[k].name) = list[CHOOSE i \in DOMAIN list :
         /\ list[i].name = list[k].name
         /\ \A j \in DOMAIN list : list[j].name = list[k].name => i <= j]
  BY DEF First
<1>5. (CHOOSE i \in DOMAIN list :
         /\ list[i].name = list[k].name
         /\ \A j \in DOMAIN list : list[j].name = list[k].name => i <= j) = k
  BY <1>2, <1>3
<1> QED
  BY <1>1, <1>4, <1>5 DEF Known

\* c.provider of a known name is a provider of that name.
LEMMA KnownProvider ==
  ASSUME NEW ps \in Seq(AnyProvider), UniqueNames(ps), NEW name, Known(ps, name)
  PROVE  First(ps, name) \in AnyProvider /\ First(ps, name).name = name
<1>1. PICK k \in 1 .. Len(ps) : ps[k].name = name
  BY LenProperties DEF Known
<1>2. First(ps, name) = ps[k]
  BY <1>1, FirstOfUnique
<1> QED
  BY <1>1, <1>2, ElementOfSeq

\* bind keeps the name, lets the association's model through and only the
\* blocks of its protocols.
LEMMA BoundProvider ==
  ASSUME NEW p \in AnyProvider, NEW ref \in AnyRef
  PROVE  /\ Bind(p, ref) \in AnyProvider
         /\ Bind(p, ref).name = p.name
         /\ Bind(p, ref).model = IF ref.model # "" THEN ref.model ELSE p.model
         /\ \A q \in Protocols :
              Bind(p, ref).endpoints[q] =
                IF q \in ToSet(ref.protocols) THEN p.endpoints[q] ELSE NoBlock
<1> DEFINE model == IF ref.model # "" THEN ref.model ELSE p.model
           blocks == [q \in Protocols |->
                        IF q \in ToSet(ref.protocols) THEN p.endpoints[q] ELSE NoBlock]
<1>1. Bind(p, ref) = [name |-> p.name, model |-> model, endpoints |-> blocks]
  BY DEF Bind
<1>2. p.name \in STRING /\ model \in STRING /\ p.endpoints \in [Protocols -> Block]
  BY DEF AnyProvider, AnyRef
<1>3. blocks \in [Protocols -> Block]
  <2> DEFINE e == p.endpoints
             mine == ToSet(ref.protocols)
  <2>1. e \in [Protocols -> Block] /\ NoBlock \in Block
    BY <1>2 DEF Block
  <2>2. blocks = [q \in Protocols |-> IF q \in mine THEN e[q] ELSE NoBlock]
    OBVIOUS
  <2> HIDE DEF e, mine, blocks
  <2> QED BY <2>1, <2>2
<1>4. \A q \in Protocols :
        blocks[q] = IF q \in ToSet(ref.protocols) THEN p.endpoints[q] ELSE NoBlock
  OBVIOUS
<1> HIDE DEF model, blocks
<1>5. /\ Bind(p, ref) \in AnyProvider /\ Bind(p, ref).name = p.name
      /\ Bind(p, ref).model = model /\ Bind(p, ref).endpoints = blocks
  BY <1>1, <1>2, <1>3 DEF AnyProvider
<1> QED
  BY <1>4, <1>5 DEF model

\* One association more, of those that list the protocol.
LEMMA ListingSteps ==
  ASSUME NEW q
  PROVE  /\ Run(Listing(q), <<>>, <<>>) = <<>>
         /\ \A rs \in Seq(AnyRef) :
              /\ Run(Listing(q), <<>>, rs) \in Seq(AnyRef)
              /\ \A r \in AnyRef :
                   Run(Listing(q), <<>>, Append(rs, r)) =
                     IF q \in ToSet(r.protocols)
                     THEN Append(Run(Listing(q), <<>>, rs), r)
                     ELSE Run(Listing(q), <<>>, rs)
<1> DEFINE step == Listing(q)
           none == <<>>
<1>1. step \in Steps(Seq(AnyRef), AnyRef)
  BY AppendProperties DEF Listing, Steps
<1>6. \A a \in Seq(AnyRef), r \in AnyRef :
        step[<<a, r>>] = IF q \in ToSet(r.protocols) THEN Append(a, r) ELSE a
  BY DEF Listing
<1>2. none \in Seq(AnyRef)
  BY EmptySeq
<1> HIDE DEF step, none
<1>3. Run(step, none, <<>>) = none
  BY <1>1, <1>2, RunEmpty
<1>4. ASSUME NEW rs \in Seq(AnyRef)
      PROVE  Run(step, none, rs) \in Seq(AnyRef)
  BY <1>1, <1>2, RunInDomain
<1>5. ASSUME NEW rs \in Seq(AnyRef), NEW r \in AnyRef
      PROVE  Run(step, none, Append(rs, r)) = step[<<Run(step, none, rs), r>>]
  BY <1>1, <1>2, RunAppend
<1>7. ASSUME NEW rs \in Seq(AnyRef), NEW r \in AnyRef
      PROVE  Run(step, none, Append(rs, r)) =
               IF q \in ToSet(r.protocols) THEN Append(Run(step, none, rs), r)
               ELSE Run(step, none, rs)
  BY <1>4, <1>5, <1>6
<1> QED
  BY <1>3, <1>4, <1>7 DEF step, none

\* One association more, of those whose provider is collected: a valid one is
\* exactly when it lists the protocol.
LEMMA CollectSteps ==
  ASSUME NEW ps \in Seq(AnyProvider), UniqueNames(ps), NEW q \in Protocols
  PROVE  /\ Run(Collect(ps, q), <<>>, <<>>) = <<>>
         /\ \A rs \in Seq(AnyRef) :
              /\ Run(Collect(ps, q), <<>>, rs) \in Seq(AnyProvider)
              /\ \A r \in AnyRef : ValidRef(ps, r) =>
                   Run(Collect(ps, q), <<>>, Append(rs, r)) =
                     IF q \in ToSet(r.protocols)
                     THEN Append(Run(Collect(ps, q), <<>>, rs), Bind(First(ps, r.name), r))
                     ELSE Run(Collect(ps, q), <<>>, rs)
<1> DEFINE step == Collect(ps, q)
           none == <<>>
           bound(r) == Bind(First(ps, r.name), r)
<1>1. \A r \in AnyRef : Known(ps, r.name) => bound(r) \in AnyProvider
  BY KnownProvider, BoundProvider
<1>2. step \in Steps(Seq(AnyProvider), AnyRef)
  BY <1>1, AppendProperties DEF Collect, Steps
<1>8. \A a \in Seq(AnyProvider), r \in AnyRef :
        step[<<a, r>>] = IF Known(ps, r.name) /\ bound(r).endpoints[q] # NoBlock
                         THEN Append(a, bound(r)) ELSE a
  BY DEF Collect
<1>3. none \in Seq(AnyProvider)
  BY EmptySeq
<1>4. ASSUME NEW r \in AnyRef, ValidRef(ps, r)
      PROVE  /\ Known(ps, r.name)
             /\ bound(r).endpoints[q] # NoBlock <=> q \in ToSet(r.protocols)
  <2>1. Known(ps, r.name)
    BY <1>4 DEF ValidRef
  <2>2. bound(r).endpoints[q] =
          IF q \in ToSet(r.protocols) THEN First(ps, r.name).endpoints[q] ELSE NoBlock
    <3> DEFINE p == First(ps, r.name)
    <3>1. p \in AnyProvider
      BY <2>1, KnownProvider
    <3> HIDE DEF p
    <3>2. Bind(p, r).endpoints[q] =
            IF q \in ToSet(r.protocols) THEN p.endpoints[q] ELSE NoBlock
      BY <3>1, BoundProvider
    <3> QED BY <3>2 DEF p
  <2>3. q \in ToSet(r.protocols) => First(ps, r.name).endpoints[q] # NoBlock
    BY <1>4 DEF ValidRef, ToSet
  <2> QED BY <2>1, <2>2, <2>3
<1> HIDE DEF step, none, bound
<1>5. Run(step, none, <<>>) = none
  BY <1>2, <1>3, RunEmpty
<1>6. ASSUME NEW rs \in Seq(AnyRef)
      PROVE  Run(step, none, rs) \in Seq(AnyProvider)
  BY <1>2, <1>3, RunInDomain
<1>7. ASSUME NEW rs \in Seq(AnyRef), NEW r \in AnyRef, ValidRef(ps, r)
      PROVE  Run(step, none, Append(rs, r)) =
               IF q \in ToSet(r.protocols)
               THEN Append(Run(step, none, rs), bound(r)) ELSE Run(step, none, rs)
  <2>1. Run(step, none, Append(rs, r)) = step[<<Run(step, none, rs), r>>]
    BY <1>2, <1>3, RunAppend
  <2> QED BY <1>4, <1>6, <1>7, <1>8, <2>1
<1> QED
  BY <1>5, <1>6, <1>7 DEF step, none, bound

----------------------------------------------------------------------------
Collected(ps, q, rs) == Run(Collect(ps, q), <<>>, rs)
Listed(q, rs) == Run(Listing(q), <<>>, rs)

\* What is collected are the providers of the listing associations, bound and
\* in their order.
Matches(ps, q, out, list) ==
  /\ Len(out) = Len(list)
  /\ \A k \in 1 .. Len(list) :
       /\ out[k] = Bind(First(ps, list[k].name), list[k])
       /\ q \in ToSet(list[k].protocols)
       /\ ValidRef(ps, list[k])

\* providersFor of valid associations is what they list, bound.
LEMMA CollectedAsListed ==
  ASSUME NEW ps \in Seq(AnyProvider), UniqueNames(ps), NEW q \in Protocols
  PROVE  \A rs \in Seq(AnyRef) :
           ValidRefs(ps, rs) => Matches(ps, q, Collected(ps, q, rs), Listed(q, rs))
<1> DEFINE S == {rs \in Seq(AnyRef) :
                   ValidRefs(ps, rs) => Matches(ps, q, Collected(ps, q, rs), Listed(q, rs))}
<1>1. <<>> \in S
  <2>1. /\ Collected(ps, q, <<>>) = <<>> /\ Listed(q, <<>>) = <<>>
        /\ <<>> \in Seq(AnyRef) /\ Len(<<>>) = 0
    BY CollectSteps, ListingSteps, EmptySeq DEF Collected, Listed
  <2>2. Matches(ps, q, <<>>, <<>>)
    BY <2>1 DEF Matches
  <2> QED BY <2>1, <2>2
<1>2. ASSUME NEW rs \in Seq(AnyRef), NEW r \in AnyRef, rs \in S
      PROVE  Append(rs, r) \in S
  <2> DEFINE longer == Append(rs, r)
             out == Collected(ps, q, rs)
             list == Listed(q, rs)
             bound == Bind(First(ps, r.name), r)
  <2>1. /\ longer \in Seq(AnyRef) /\ Len(longer) = Len(rs) + 1 /\ Len(rs) \in Nat
        /\ \A k \in 1 .. Len(rs) : longer[k] = rs[k]
        /\ longer[Len(rs) + 1] = r
    BY AppendProperties, LenProperties
  <2>2. SUFFICES ASSUME ValidRefs(ps, longer)
                 PROVE  Matches(ps, q, Collected(ps, q, longer), Listed(q, longer))
    BY <2>1
  <2>3. ValidRefs(ps, rs) /\ ValidRef(ps, r)
    <3> HIDE DEF longer
    <3>1. \A k \in 1 .. Len(rs) : k \in 1 .. Len(longer)
      BY <2>1
    <3>2. Len(rs) + 1 \in 1 .. Len(longer)
      BY <2>1
    <3> QED BY <2>1, <2>2, <3>1, <3>2 DEF ValidRefs
  <2>4. Matches(ps, q, out, list)
    BY <1>2, <2>3
  <2>5. /\ out \in Seq(AnyProvider) /\ list \in Seq(AnyRef)
        /\ Collected(ps, q, longer) = IF q \in ToSet(r.protocols) THEN Append(out, bound) ELSE out
        /\ Listed(q, longer) = IF q \in ToSet(r.protocols) THEN Append(list, r) ELSE list
    BY <2>3, CollectSteps, ListingSteps DEF Collected, Listed
  <2>6. CASE q \in ToSet(r.protocols)
    <3>1. bound \in AnyProvider
      BY <2>3, KnownProvider, BoundProvider DEF ValidRef
    <3> HIDE DEF bound, out, list
    <3> DEFINE out2 == Append(out, bound)
               list2 == Append(list, r)
    <3>2. /\ Len(out) \in Nat /\ Len(list) \in Nat
          /\ Len(out2) = Len(out) + 1 /\ Len(list2) = Len(list) + 1
          /\ \A k \in 1 .. Len(out) : out2[k] = out[k]
          /\ \A k \in 1 .. Len(list) : list2[k] = list[k]
          /\ out2[Len(out) + 1] = bound /\ list2[Len(list) + 1] = r
      BY <2>5, <3>1, AppendProperties, LenProperties
    <3> HIDE DEF out2, list2
    <3>3. Len(out2) = Len(list2)
      BY <2>4, <3>2 DEF Matches
    <3>4. ASSUME NEW k \in 1 .. Len(list2)
          PROVE  /\ out2[k] = Bind(First(ps, list2[k].name), list2[k])
                 /\ q \in ToSet(list2[k].protocols)
                 /\ ValidRef(ps, list2[k])
      <4>1. CASE k \in 1 .. Len(list)
        BY <2>4, <3>2, <4>1 DEF Matches
      <4>2. CASE k = Len(list) + 1
        <5>1. out2[k] = bound /\ list2[k] = r
          BY <2>4, <3>2, <4>2 DEF Matches
        <5> QED BY <2>3, <2>6, <5>1 DEF bound
      <4> QED BY <3>2, <4>1, <4>2
    <3> QED BY <2>5, <2>6, <3>3, <3>4 DEF Matches, out2, list2
  <2>7. CASE q \notin ToSet(r.protocols)
    BY <2>4, <2>5, <2>7
  <2> QED BY <2>6, <2>7
<1> HIDE DEF S
<1>3. Seq(AnyRef) \subseteq S
  BY <1>1, <1>2, SeqsAreReached
<1> QED
  BY <1>3 DEF S

\* The listing associations are those of the model that list the protocol.
Lists(q, rs, list) ==
  /\ \A k \in 1 .. Len(list) : \E j \in 1 .. Len(rs) : rs[j] = list[k]
  /\ \A j \in 1 .. Len(rs) :
       q \in ToSet(rs[j].protocols) => \E k \in 1 .. Len(list) : list[k] = rs[j]

Distinct(list) ==
  \A i, k \in 1 .. Len(list) : list[i].name = list[k].name => i = k

\* The listing neither invents, loses nor repeats an association.
LEMMA ListedAll ==
  ASSUME NEW q
  PROVE  \A rs \in Seq(AnyRef) :
           Lists(q, rs, Listed(q, rs)) /\ (Distinct(rs) => Distinct(Listed(q, rs)))
<1> DEFINE S == {rs \in Seq(AnyRef) :
                   Lists(q, rs, Listed(q, rs)) /\ (Distinct(rs) => Distinct(Listed(q, rs)))}
<1>1. <<>> \in S
  <2>1. Listed(q, <<>>) = <<>> /\ <<>> \in Seq(AnyRef) /\ Len(<<>>) = 0
    BY ListingSteps, EmptySeq DEF Listed
  <2>2. Lists(q, <<>>, <<>>) /\ Distinct(<<>>)
    BY <2>1 DEF Lists, Distinct
  <2> QED BY <2>1, <2>2
<1>2. ASSUME NEW rs \in Seq(AnyRef), NEW r \in AnyRef, rs \in S
      PROVE  Append(rs, r) \in S
  <2> DEFINE longer == Append(rs, r)
             list == Listed(q, rs)
             list2 == Append(list, r)
  <2>1. /\ longer \in Seq(AnyRef) /\ Len(longer) = Len(rs) + 1 /\ Len(rs) \in Nat
        /\ \A k \in 1 .. Len(rs) : longer[k] = rs[k]
        /\ longer[Len(rs) + 1] = r
    BY AppendProperties, LenProperties
  <2>2. /\ list \in Seq(AnyRef)
        /\ Listed(q, longer) = IF q \in ToSet(r.protocols) THEN list2 ELSE list
    BY ListingSteps DEF Listed
  <2>3. Lists(q, rs, list) /\ (Distinct(rs) => Distinct(list))
    BY <1>2
  <2> HIDE DEF list
  <2>4. /\ Len(list) \in Nat /\ Len(list2) = Len(list) + 1
        /\ \A k \in 1 .. Len(list) : list2[k] = list[k]
        /\ list2[Len(list) + 1] = r
    BY <2>2, AppendProperties, LenProperties
  <2> HIDE DEF longer, list2
  <2>5. Distinct(longer) => Distinct(rs) /\ \A k \in 1 .. Len(list) : list[k].name # r.name
    <3> SUFFICES ASSUME Distinct(longer)
                 PROVE  Distinct(rs) /\ \A k \in 1 .. Len(list) : list[k].name # r.name
      OBVIOUS
    <3>1. \A k \in 1 .. Len(rs) : k \in 1 .. Len(longer) /\ k # Len(rs) + 1
      BY <2>1
    <3>2. Len(rs) + 1 \in 1 .. Len(longer)
      BY <2>1
    <3>3. Distinct(rs)
      BY <2>1, <3>1 DEF Distinct
    <3>4. \A k \in 1 .. Len(rs) : rs[k].name # r.name
      BY <2>1, <3>1, <3>2 DEF Distinct
    <3>5. \A k \in 1 .. Len(list) : \E j \in 1 .. Len(rs) : rs[j] = list[k]
      BY <2>3 DEF Lists
    <3> QED BY <3>3, <3>4, <3>5
  <2>6. CASE q \in ToSet(r.protocols)
    <3>1. ASSUME NEW k \in 1 .. Len(list2) PROVE \E j \in 1 .. Len(longer) : longer[j] = list2[k]
      <4>1. CASE k \in 1 .. Len(list)
        <5>1. PICK j \in 1 .. Len(rs) : rs[j] = list[k]
          BY <2>3, <4>1 DEF Lists
        <5>2. j \in 1 .. Len(longer)
          BY <2>1
        <5> QED BY <2>1, <2>4, <4>1, <5>1, <5>2
      <4>2. CASE k = Len(list) + 1
        <5>1. Len(rs) + 1 \in 1 .. Len(longer)
          BY <2>1
        <5> QED BY <2>1, <2>4, <4>2, <5>1
      <4> QED BY <2>4, <4>1, <4>2
    <3>2. ASSUME NEW j \in 1 .. Len(longer), q \in ToSet(longer[j].protocols)
          PROVE  \E k \in 1 .. Len(list2) : list2[k] = longer[j]
      <4>1. CASE j \in 1 .. Len(rs)
        <5>1. PICK k \in 1 .. Len(list) : list[k] = rs[j]
          BY <2>1, <2>3, <3>2, <4>1 DEF Lists
        <5>2. k \in 1 .. Len(list2)
          BY <2>4
        <5> QED BY <2>1, <2>4, <4>1, <5>1, <5>2
      <4>2. CASE j = Len(rs) + 1
        <5>1. Len(list) + 1 \in 1 .. Len(list2)
          BY <2>4
        <5> QED BY <2>1, <2>4, <4>2, <5>1
      <4> QED BY <2>1, <4>1, <4>2
    <3>3. ASSUME Distinct(longer) PROVE Distinct(list2)
      <4> SUFFICES ASSUME NEW i \in 1 .. Len(list2), NEW k \in 1 .. Len(list2),
                          list2[i].name = list2[k].name
                   PROVE  i = k
        BY DEF Distinct
      <4>1. \A n \in 1 .. Len(list2) : n \in 1 .. Len(list) \/ n = Len(list) + 1
        BY <2>4
      <4>2. CASE i \in 1 .. Len(list) /\ k \in 1 .. Len(list)
        BY <2>3, <2>4, <2>5, <3>3, <4>2 DEF Distinct
      <4>3. CASE i \in 1 .. Len(list) /\ k = Len(list) + 1
        BY <2>4, <2>5, <3>3, <4>3
      <4>4. CASE i = Len(list) + 1 /\ k \in 1 .. Len(list)
        BY <2>4, <2>5, <3>3, <4>4
      <4> QED BY <4>1, <4>2, <4>3, <4>4
    <3>4. Lists(q, longer, list2)
      BY <3>1, <3>2 DEF Lists
    <3> QED BY <2>1, <2>2, <2>6, <3>3, <3>4 DEF longer
  <2>7. CASE q \notin ToSet(r.protocols)
    <3>1. Lists(q, longer, list)
      <4>1. ASSUME NEW k \in 1 .. Len(list) PROVE \E j \in 1 .. Len(longer) : longer[j] = list[k]
        <5>1. PICK j \in 1 .. Len(rs) : rs[j] = list[k]
          BY <2>3 DEF Lists
        <5>2. j \in 1 .. Len(longer)
          BY <2>1
        <5> QED BY <2>1, <5>1, <5>2
      <4>2. ASSUME NEW j \in 1 .. Len(longer), q \in ToSet(longer[j].protocols)
            PROVE  \E k \in 1 .. Len(list) : list[k] = longer[j]
        <5>1. j \in 1 .. Len(rs)
          BY <2>1, <2>7, <4>2
        <5> QED BY <2>1, <2>3, <4>2, <5>1 DEF Lists
      <4> QED BY <4>1, <4>2 DEF Lists
    <3> QED BY <2>1, <2>2, <2>3, <2>5, <2>7, <3>1 DEF longer
  <2> QED BY <2>6, <2>7
<1> HIDE DEF S
<1>3. Seq(AnyRef) \subseteq S
  BY <1>1, <1>2, SeqsAreReached
<1> QED
  BY <1>3 DEF S

----------------------------------------------------------------------------
\* What a serving process has: every model's associations are valid.
LEMMA Serving ==
  ASSUME RoutingInv, phase = "serving"
  PROVE  /\ providers \in Seq(AnyProvider) /\ UniqueNames(providers)
         /\ models \in Seq(AnyModel) /\ UniqueNames(models)
         /\ DOMAIN models = 1 .. Len(models)
         /\ \A m \in 1 .. Len(models) :
              /\ models[m].name # "" /\ models[m].refs \in Seq(AnyRef)
              /\ ValidRefs(providers, models[m].refs) /\ Distinct(models[m].refs)
<1>1. /\ file.providers \in ProviderLists /\ file.models \in ModelLists
      /\ providers = file.providers /\ models = file.models
      /\ ValidProviders(providers) /\ ValidModels(providers, models)
  BY DEF RoutingInv, Accepted
<1>2. providers \in Seq(AnyProvider) /\ models \in Seq(AnyModel)
  BY <1>1, RoutingAssumption
<1>3. UniqueNames(providers) /\ UniqueNames(models) /\ DOMAIN models = 1 .. Len(models)
  BY <1>1, <1>2, LenProperties DEF ValidProviders, ValidModels
<1>4. ASSUME NEW m \in 1 .. Len(models)
      PROVE  /\ models[m].name # "" /\ models[m].refs \in Seq(AnyRef)
             /\ ValidRefs(providers, models[m].refs) /\ Distinct(models[m].refs)
  <2> DEFINE refs == models[m].refs
  <2>1. refs \in Seq(AnyRef)
    <3>1. models[m] \in AnyModel
      BY <1>2, ElementOfSeq
    <3> QED BY <3>1 DEF AnyModel
  <2>2. DOMAIN refs = 1 .. Len(refs)
    BY <2>1, LenProperties
  <2>3. UniqueNames(refs) /\ \A j \in DOMAIN refs : ValidRef(providers, refs[j])
    BY <1>1, <1>3 DEF ValidModels
  <2>4. models[m].name # ""
    BY <1>3 DEF UniqueNames
  <2> HIDE DEF refs
  <2>5. ValidRefs(providers, refs) /\ Distinct(refs)
    BY <2>2, <2>3 DEF ValidRefs, Distinct, UniqueNames
  <2> QED BY <2>1, <2>4, <2>5 DEF refs
<1> QED
  BY <1>2, <1>3, <1>4

\* What resolve makes of a provider that bind was given.
LEMMA ResolvedAsConfigured ==
  ASSUME NEW p \in AnyProvider, NEW ref \in AnyRef, NEW q \in Protocols, NEW name,
         q \in ToSet(ref.protocols), p.endpoints[q] # NoBlock
  PROVE  /\ Resolve(Bind(p, ref), q, name).provider = p.name
         /\ Resolve(Bind(p, ref), q, name) =
              [provider |-> p.name, ok |-> TRUE, model |-> ConfiguredModel(p, ref, q, name)]
<1> DEFINE b == Bind(p, ref)
           ep == p.endpoints[q]
           own == IF ref.model # "" THEN ref.model ELSE p.model
           effective == IF ep \notin {"", NoBlock} THEN ep ELSE IF own # "" THEN own ELSE name
<1>1. b.endpoints[q] = ep /\ b.name = p.name /\ b.model = own
  BY BoundProvider
<1>2. (ep # NoBlock) = TRUE
  OBVIOUS
<1> HIDE DEF b, ep, own
<1>3. Resolve(b, q, name) = [provider |-> p.name, ok |-> ep # NoBlock, model |-> effective]
  BY <1>1 DEF Resolve
<1>4. Resolve(b, q, name) = [provider |-> p.name, ok |-> TRUE, model |-> effective]
  BY <1>2, <1>3
<1>5. ConfiguredModel(p, ref, q, name) = effective
  BY <1>2 DEF ConfiguredModel, Override, ep, own
<1>6. Resolve(b, q, name).provider = p.name
  <2>1. \A x, y, z : [provider |-> x, ok |-> y, model |-> z].provider = x
    OBVIOUS
  <2> HIDE DEF effective
  <2> QED BY <1>3, <2>1, Zenon
<1> QED
  BY <1>4, <1>5, <1>6 DEF b

\* The answer to a request for a model of the configuration.
LEMMA AnswerOf ==
  ASSUME RoutingInv, phase = "serving", NEW q \in Protocols, NEW m \in 1 .. Len(models)
  PROVE  LET list == Listed(q, models[m].refs)
             out == ProvidersFor(models[m].name, q)
         IN /\ out \in Seq(AnyProvider) /\ list \in Seq(AnyRef)
            /\ Matches(providers, q, out, list)
            /\ Lists(q, models[m].refs, list) /\ Distinct(list)
<1> DEFINE refs == models[m].refs
<1>1. /\ providers \in Seq(AnyProvider) /\ UniqueNames(providers)
      /\ models \in Seq(AnyModel) /\ UniqueNames(models)
      /\ refs \in Seq(AnyRef) /\ ValidRefs(providers, refs) /\ Distinct(refs)
  BY Serving
<1>2. Known(models, models[m].name) /\ First(models, models[m].name) = models[m]
  BY <1>1, FirstOfUnique
<1>3. ProvidersFor(models[m].name, q) = Collected(providers, q, refs)
  BY <1>2 DEF ProvidersFor, Collected
<1> HIDE DEF refs
<1>4. Collected(providers, q, refs) \in Seq(AnyProvider) /\ Listed(q, refs) \in Seq(AnyRef)
  BY <1>1, CollectSteps, ListingSteps DEF Collected, Listed
<1>5. Matches(providers, q, Collected(providers, q, refs), Listed(q, refs))
  BY <1>1, CollectedAsListed
<1>6. Lists(q, refs, Listed(q, refs)) /\ Distinct(Listed(q, refs))
  BY <1>1, ListedAll
<1> QED
  BY <1>3, <1>4, <1>5, <1>6 DEF refs

\* One attempt of the answer, and the association it comes from.
LEMMA AttemptOf ==
  ASSUME RoutingInv, phase = "serving", NEW q \in Protocols, NEW m \in 1 .. Len(models),
         NEW k \in 1 .. Len(Listed(q, models[m].refs))
  PROVE  LET list == Listed(q, models[m].refs)
             out == ProvidersFor(models[m].name, q)
             answer == [provider |-> list[k].name, ok |-> TRUE,
                        model |-> ConfiguredModel(First(providers, list[k].name), list[k], q,
                                                  models[m].name)]
         IN /\ k \in DOMAIN out /\ out[k].name = list[k].name
            /\ Resolve(out[k], q, models[m].name).provider = list[k].name
            /\ Resolve(out[k], q, models[m].name) = answer
<1> DEFINE list == Listed(q, models[m].refs)
           out == ProvidersFor(models[m].name, q)
           ref == list[k]
           p == First(providers, ref.name)
<1>1. /\ out \in Seq(AnyProvider) /\ list \in Seq(AnyRef) /\ k \in 1 .. Len(list)
      /\ Matches(providers, q, out, list)
      /\ providers \in Seq(AnyProvider) /\ UniqueNames(providers)
  BY AnswerOf, Serving
<1> HIDE DEF list, out
<1>2. /\ out[k] = Bind(p, ref) /\ q \in ToSet(ref.protocols) /\ ValidRef(providers, ref)
      /\ ref \in AnyRef /\ k \in DOMAIN out
  BY <1>1, ElementOfSeq, LenProperties DEF Matches
<1> HIDE DEF ref
<1>3. p \in AnyProvider /\ p.name = ref.name /\ p.endpoints[q] # NoBlock
  BY <1>1, <1>2, KnownProvider DEF ValidRef, ToSet
<1> HIDE DEF p
<1> DEFINE b == Bind(p, ref)
<1>4. b.name = ref.name
  BY <1>2, <1>3, BoundProvider
<1>5. /\ Resolve(b, q, models[m].name).provider = p.name
      /\ Resolve(b, q, models[m].name) =
           [provider |-> p.name, ok |-> TRUE,
            model |-> ConfiguredModel(p, ref, q, models[m].name)]
  BY <1>2, <1>3, ResolvedAsConfigured
<1> HIDE DEF b
<1>6. /\ k \in DOMAIN out /\ out[k].name = ref.name
      /\ Resolve(out[k], q, models[m].name).provider = ref.name
  BY <1>2, <1>3, <1>4, <1>5 DEF b
<1>7. Resolve(out[k], q, models[m].name) =
        [provider |-> ref.name, ok |-> TRUE,
         model |-> ConfiguredModel(p, ref, q, models[m].name)]
  BY <1>2, <1>3, <1>5, Zenon DEF b
<1> QED
  BY <1>6, <1>7 DEF p, ref, list, out

\* The model a request named, if the configuration has it.
LEMMA AskedModel ==
  ASSUME RoutingInv, phase = "serving", NEW name
  PROVE  \/ /\ ~Known(models, name) /\ \A q : ProvidersFor(name, q) = <<>>
            /\ {m \in ToSet(file.models) : m.name = name} = {}
         \/ \E m \in 1 .. Len(models) :
              /\ models[m].name = name
              /\ {x \in ToSet(file.models) : x.name = name} = {models[m]}
<1>1. models = file.models /\ UniqueNames(models) /\ DOMAIN models = 1 .. Len(models)
  BY Serving DEF RoutingInv
<1>2. CASE Known(models, name)
  <2>1. PICK m \in 1 .. Len(models) : models[m].name = name
    BY <1>1, <1>2 DEF Known
  <2>2. \A x \in ToSet(models) : x.name = name => x = models[m]
    BY <1>1, <2>1 DEF ToSet, UniqueNames
  <2>3. models[m] \in ToSet(models)
    BY <1>1 DEF ToSet
  <2> QED BY <1>1, <2>1, <2>2, <2>3
<1>3. CASE ~Known(models, name)
  <2>1. \A q : ProvidersFor(name, q) = <<>>
    BY <1>3 DEF ProvidersFor
  <2>2. \A x \in ToSet(models) : x.name # name
    BY <1>3 DEF Known, ToSet
  <2> QED BY <1>1, <1>3, <2>1, <2>2
<1> QED
  BY <1>2, <1>3

\* bind and the two filters between the file and a request (providersFor,
\* config.go) neither lose nor reorder nor change an association: a copy that
\* was shared, a filter by the provider's blocks alone or another precedence
\* of the models would break it.
THEOREM RoutesAreTheFiles == Spec => []RoutedAsConfigured
<1>1. RoutingInv => RoutedAsConfigured
  <2> SUFFICES ASSUME RoutingInv, asked # NoRequest
               PROVE  attempts = Configured(asked.model, asked.protocol)
    BY DEF RoutedAsConfigured
  <2> DEFINE name == asked.model
             q == asked.protocol
             named == {x \in ToSet(file.models) : x.name = name}
             out == ProvidersFor(name, q)
  <2>1. /\ phase = "serving" /\ q \in Protocols /\ providers = file.providers
        /\ attempts = [k \in DOMAIN out |-> Resolve(out[k], q, name)]
    BY DEF RoutingInv, Answer
  <2> HIDE DEF name, q
  <2>2. CASE named = {} /\ out = <<>>
    <3>1. attempts = <<>>
      BY <2>1, <2>2
    <3>2. Configured(name, q) = <<>>
      BY <2>2 DEF Configured
    <3> QED BY <3>1, <3>2 DEF name, q
  <2>3. ASSUME NEW m \in 1 .. Len(models), models[m].name = name, named = {models[m]}
        PROVE  attempts = Configured(name, q)
    <3> DEFINE list == Listed(q, models[m].refs)
               answer(k) == [provider |-> list[k].name, ok |-> TRUE,
                             model |-> ConfiguredModel(First(file.providers, list[k].name),
                                                       list[k], q, name)]
    <3>1. (CHOOSE x \in named : TRUE) = models[m]
      BY <2>3
    <3>2. Configured(name, q) = [k \in DOMAIN list |-> answer(k)]
      <4> HIDE DEF answer
      <4> QED BY <2>3, <3>1 DEF Configured, Listed, answer
    <3>3. /\ out \in Seq(AnyProvider) /\ list \in Seq(AnyRef) /\ Len(out) = Len(list)
      BY <2>1, <2>3, AnswerOf DEF Matches
    <3>4. ASSUME NEW k \in 1 .. Len(list) PROVE Resolve(out[k], q, name) = answer(k)
      BY <2>1, <2>3, <3>4, AttemptOf
    <3> HIDE DEF out, list, answer
    <3>5. DOMAIN out = 1 .. Len(list) /\ DOMAIN list = 1 .. Len(list)
      BY <3>3, LenProperties
    <3> QED BY <2>1, <3>2, <3>4, <3>5
  <2> QED BY <2>1, <2>2, <2>3, AskedModel DEF name, q
<1> QED
  BY <1>1, Invariant, PTL

\* Every attempt of a request is with another provider: validate refuses an
\* association that names one twice, and no filter repeats one.
THEOREM AttemptsAreFailovers == Spec => []NoProviderTwice
<1>1. RoutingInv => NoProviderTwice
  <2> SUFFICES ASSUME RoutingInv PROVE NoProviderTwice
    OBVIOUS
  <2>1. CASE attempts = <<>>
    BY <2>1 DEF NoProviderTwice, IsInjective
  <2>2. CASE asked # NoRequest
    <3> DEFINE name == asked.model
               q == asked.protocol
               out == ProvidersFor(name, q)
    <3>1. /\ phase = "serving" /\ q \in Protocols
          /\ attempts = [k \in DOMAIN out |-> Resolve(out[k], q, name)]
      BY <2>2 DEF RoutingInv, Answer
    <3> HIDE DEF name, q
    <3>2. CASE out = <<>>
      BY <3>1, <3>2 DEF NoProviderTwice, IsInjective
    <3>3. ASSUME NEW m \in 1 .. Len(models), models[m].name = name PROVE NoProviderTwice
      <4> DEFINE list == Listed(q, models[m].refs)
      <4>1. /\ out \in Seq(AnyProvider) /\ Len(out) = Len(list) /\ Distinct(list)
        BY <3>1, <3>3, AnswerOf DEF Matches
      <4>2. ASSUME NEW k \in 1 .. Len(list)
            PROVE  Resolve(out[k], q, name).provider = list[k].name
        BY <3>1, <3>3, <4>2, AttemptOf
      <4> HIDE DEF out, list
      <4>3. DOMAIN out = 1 .. Len(list)
        BY <4>1, LenProperties
      <4>4. \A k \in 1 .. Len(list) : attempts[k].provider = list[k].name
        BY <3>1, <4>2, <4>3
      <4>5. DOMAIN attempts = 1 .. Len(list)
        BY <3>1, <4>3
      <4> QED BY <4>1, <4>4, <4>5 DEF NoProviderTwice, IsInjective, Distinct
    <3> QED BY <3>1, <3>2, <3>3, AskedModel
  <2> QED BY <2>1, <2>2 DEF RoutingInv
<1> QED
  BY <1>1, Invariant, PTL

\* What validate accepted can be used: no association is left out of every
\* answer, for want of a block or behind another of its name.
THEOREM AllIsReachable == Spec => []NothingUnreachable
<1>1. RoutingInv => NothingUnreachable
  <2> SUFFICES ASSUME RoutingInv, phase = "serving",
                      NEW m \in DOMAIN models, NEW r \in DOMAIN models[m].refs,
                      NEW q \in ToSet(models[m].refs[r].protocols)
               PROVE  \E p \in ToSet(ProvidersFor(models[m].name, q)) :
                        p.name = models[m].refs[r].name
    BY DEF NothingUnreachable
  <2> DEFINE refs == models[m].refs
             list == Listed(q, refs)
             out == ProvidersFor(models[m].name, q)
  <2>1. m \in 1 .. Len(models) /\ refs \in Seq(AnyRef) /\ ValidRefs(providers, refs)
    BY Serving
  <2>2. r \in 1 .. Len(refs)
    BY <2>1, LenProperties
  <2>3. q \in Protocols
    BY <2>1, <2>2 DEF ValidRefs, ValidRef, ToSet
  <2>4. Lists(q, refs, list)
    BY <2>1, <2>3, AnswerOf
  <2>5. PICK k \in 1 .. Len(list) : list[k] = refs[r]
    BY <2>2, <2>4 DEF Lists
  <2>6. k \in DOMAIN out /\ out[k].name = list[k].name
    BY <2>1, <2>3, AttemptOf
  <2> HIDE DEF out, list, refs
  <2>7. out[k] \in ToSet(out) /\ out[k].name = refs[r].name
    BY <2>5, <2>6 DEF ToSet
  <2> QED BY <2>7 DEF out, refs
<1> QED
  BY <1>1, Invariant, PTL
=============================================================================
