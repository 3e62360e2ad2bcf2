------------------------------ MODULE Routing ------------------------------
(***************************************************************************)
(* The configuration (config.go): validate decides at start-up whether the *)
(* process serves at all, and from then on every request asks the          *)
(* configuration in memory which providers may answer it, in which order   *)
(* and under which upstream model.                                         *)
(***************************************************************************)
EXTENDS SequencesExt, SeqRun

CONSTANTS
  Protocols,      \* the known protocols
  ProviderLists,  \* what providers: may be in a config file
  ModelLists,     \* what models: may be in a config file
  ClientModels    \* what clients ask for

\* A provider: its name, its default model and one endpoint for each protocol:
\* NoBlock, or the model of the block; no model has that name.  "" is an empty
\* or absent string.
NoBlock == "-"

Block == STRING \cup {NoBlock}
AnyProvider == [name : STRING, model : STRING, endpoints : [Protocols -> Block]]

\* An association of a model with a provider, and a model.
AnyRef == [name : STRING, model : STRING, protocols : Seq(STRING)]
AnyModel == [name : STRING, refs : Seq(AnyRef)]

ASSUME RoutingAssumption ==
  /\ ProviderLists \subseteq Seq(AnyProvider)
  /\ ModelLists \subseteq Seq(AnyModel)
  /\ "" \notin Protocols

VARIABLES
  file,       \* the config file: providers and models
  providers,  \* c.Providers
  models,     \* c.Models
  phase,      \* "start", "serving", "exited"
  asked,      \* the last request: model and protocol
  attempts    \* the attempts it may make: provider, resolve's ok and model

vars == <<file, providers, models, phase, asked, attempts>>

----------------------------------------------------------------------------
\* c.model and c.provider: the first of that name; callers check it exists.
Known(list, name) == \E k \in DOMAIN list : list[k].name = name

First(list, name) ==
  list[CHOOSE k \in DOMAIN list :
         /\ list[k].name = name
         /\ \A j \in DOMAIN list : list[j].name = name => k <= j]

\* bind: the association's model replaces the provider's, and only the blocks
\* of its protocols stay.
Bind(p, ref) ==
  [name |-> p.name,
   model |-> IF ref.model # "" THEN ref.model ELSE p.model,
   endpoints |-> [q \in Protocols |->
                    IF q \in ToSet(ref.protocols) THEN p.endpoints[q] ELSE NoBlock]]

\* The loops of providers and providersFor: an association of an unknown
\* provider is skipped, one without a block for the protocol is left out.
Collect(ps, q) ==
  [a \in Seq(AnyProvider) \X AnyRef |->
     LET ref == a[2] IN
     IF Known(ps, ref.name) /\ Bind(First(ps, ref.name), ref).endpoints[q] # NoBlock
     THEN Append(a[1], Bind(First(ps, ref.name), ref)) ELSE a[1]]

ProvidersFor(name, q) ==
  IF Known(models, name)
  THEN Run(Collect(providers, q), <<>>, First(models, name).refs)
  ELSE <<>>

\* resolve, and what forward makes of an empty model: the client's is kept.
Resolve(p, q, name) ==
  LET ep == p.endpoints[q] IN
  [provider |-> p.name,
   ok |-> ep # NoBlock,
   model |-> IF ep \notin {"", NoBlock} THEN ep
             ELSE IF p.model # "" THEN p.model ELSE name]

----------------------------------------------------------------------------
UniqueNames(list) ==
  /\ \A k \in DOMAIN list : list[k].name # ""
  /\ \A j, k \in DOMAIN list : list[j].name = list[k].name => j = k

\* Every block's URL is taken to be valid.
ValidProvider(p) == \E q \in Protocols : p.endpoints[q] # NoBlock

ValidProviders(ps) ==
  /\ ps # <<>>
  /\ UniqueNames(ps)
  /\ \A k \in DOMAIN ps : ValidProvider(ps[k])

\* Mutant: the protocols are not compared with the provider's blocks.
ValidRefUnchecked(ps, ref) ==
  /\ Known(ps, ref.name)
  /\ ref.protocols # <<>>
  /\ IsInjective(ref.protocols)
  /\ \A k \in DOMAIN ref.protocols : ref.protocols[k] \in Protocols

ValidRef(ps, ref) ==
  /\ Known(ps, ref.name)
  /\ ref.protocols # <<>>
  /\ IsInjective(ref.protocols)
  /\ \A k \in DOMAIN ref.protocols :
       /\ ref.protocols[k] \in Protocols
       /\ First(ps, ref.name).endpoints[ref.protocols[k]] # NoBlock

\* Mutant: a model may name a provider twice.
ValidModelsTwice(ps, ms) ==
  /\ ms # <<>>
  /\ UniqueNames(ms)
  /\ \A k \in DOMAIN ms :
       /\ ms[k].refs # <<>>
       /\ \A j \in DOMAIN ms[k].refs : ValidRef(ps, ms[k].refs[j])

ValidModels(ps, ms) ==
  /\ ms # <<>>
  /\ UniqueNames(ms)
  /\ \A k \in DOMAIN ms :
       /\ ms[k].refs # <<>>
       /\ UniqueNames(ms[k].refs)
       /\ \A j \in DOMAIN ms[k].refs : ValidRef(ps, ms[k].refs[j])

----------------------------------------------------------------------------
NoRequest == [model |-> "", protocol |-> ""]

Init ==
  /\ file \in [providers : ProviderLists, models : ModelLists]
  /\ providers = <<>> /\ models = <<>>
  /\ phase = "start"
  /\ asked = NoRequest /\ attempts = <<>>

\* loadConfig: an invalid file ends the process.
Load ==
  /\ phase = "start"
  /\ IF ValidProviders(file.providers) /\ ValidModels(file.providers, file.models)
     THEN /\ providers' = file.providers /\ models' = file.models
          /\ phase' = "serving"
     ELSE phase' = "exited" /\ UNCHANGED <<providers, models>>
  /\ UNCHANGED <<file, asked, attempts>>

\* Mutant: bind works on the provider in the configuration, not on a copy.
RequestBindsInPlace(name, q) ==
  /\ phase = "serving"
  /\ asked' = [model |-> name, protocol |-> q]
  /\ attempts' = LET ps == ProvidersFor(name, q) IN
                 [k \in DOMAIN ps |-> Resolve(ps[k], q, name)]
  /\ providers' =
       IF ~Known(models, name) THEN providers
       ELSE LET refs == First(models, name).refs IN
            [k \in DOMAIN providers |->
               IF Known(refs, providers[k].name)
               THEN Bind(providers[k], First(refs, providers[k].name))
               ELSE providers[k]]
  /\ UNCHANGED <<file, models, phase>>

\* ServeHTTP asks for the providers, forward resolves each in its turn.
Request(name, q) ==
  /\ phase = "serving"
  /\ asked' = [model |-> name, protocol |-> q]
  /\ attempts' = LET ps == ProvidersFor(name, q) IN
                 [k \in DOMAIN ps |-> Resolve(ps[k], q, name)]
  /\ UNCHANGED <<file, providers, models, phase>>

Next == Load \/ \E name \in ClientModels, q \in Protocols : Request(name, q)

Spec == Init /\ [][Next]_vars

----------------------------------------------------------------------------
\* The table of README.md ("## Config") read over the file alone: the
\* associations of the model that list the protocol, in their order; the
\* block's model overrides the association's, that the provider's, and if all
\* are empty the client's is kept.
Override(model, by) == IF by # "" THEN by ELSE model

ConfiguredModel(p, ref, q, name) ==
  Override(Override(Override(name, p.model), ref.model), p.endpoints[q])

Listing(q) ==
  [a \in Seq(AnyRef) \X AnyRef |->
     IF q \in ToSet(a[2].protocols) THEN Append(a[1], a[2]) ELSE a[1]]

Configured(name, q) ==
  LET named == {m \in ToSet(file.models) : m.name = name}
      listed == Run(Listing(q), <<>>, (CHOOSE m \in named : TRUE).refs)
  IN IF named = {} THEN <<>>
     ELSE [k \in DOMAIN listed |->
             [provider |-> listed[k].name, ok |-> TRUE,
              model |-> ConfiguredModel(First(file.providers, listed[k].name),
                                        listed[k], q, name)]]

\* Every request gets exactly what the file says, also after other requests
\* for other protocols went through the same providers; and resolve never
\* fails, so that forward's "has no endpoint" error (proxy.go:248) is dead.
RoutedAsConfigured ==
  asked # NoRequest => attempts = Configured(asked.model, asked.protocol)

\* No request tries one provider twice: a second attempt would not be a
\* failover.
NoProviderTwice == IsInjective([k \in DOMAIN attempts |-> attempts[k].provider])

\* A process that serves can use all it was given: for every association of
\* every model, and every protocol it lists, there is an attempt.
NothingUnreachable ==
  phase = "serving" =>
    \A m \in DOMAIN models : \A r \in DOMAIN models[m].refs :
      LET ref == models[m].refs[r] IN
      \A q \in ToSet(ref.protocols) :
        \E p \in ToSet(ProvidersFor(models[m].name, q)) : p.name = ref.name
=============================================================================
