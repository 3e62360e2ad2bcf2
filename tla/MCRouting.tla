----------------------------- MODULE MCRouting -----------------------------
(***************************************************************************)
(* Instance of Routing for TLC: two protocols, config files that use and   *)
(* misuse everything validate looks at.                                    *)
(***************************************************************************)
EXTENDS Routing

Provider(name, model, chat, msgs) ==
  [name |-> name, model |-> model, endpoints |-> [chat |-> chat, msgs |-> msgs]]

SomeProviders ==
  {Provider("", "", "", ""), Provider("p", "", "", ""),
   Provider("p", "pm", "em", NoBlock), Provider("q", "qm", "", NoBlock),
   Provider("q", "", "em", ""), Provider("q", "", NoBlock, NoBlock)}

Ref(name, model, protocols) ==
  [name |-> name, model |-> model, protocols |-> protocols]

SomeRefs ==
  {Ref("p", "", <<"chat">>), Ref("p", "rm", <<"chat", "msgs">>),
   Ref("p", "rm", <<>>), Ref("q", "", <<"msgs">>), Ref("q", "rm", <<"chat">>),
   Ref("q", "", <<"chat", "chat">>), Ref("q", "", <<"grpc">>),
   Ref("x", "", <<"chat">>)}

Model(name, refs) == [name |-> name, refs |-> refs]

SomeModels ==
  {Model("m", refs) : refs \in BoundedSeq(SomeRefs, 2)}

OtherModels ==
  {Model("m", <<Ref("p", "", <<"chat">>)>>), Model("n", <<Ref("p", "", <<"msgs">>)>>),
   Model("n", <<Ref("q", "", <<"chat">>)>>), Model("", <<Ref("q", "", <<"chat">>)>>)}

SomeProviderLists == BoundedSeq(SomeProviders, 2)
SomeModelLists ==
  {<<>>} \cup {<<m>> : m \in SomeModels} \cup (SomeModels \X OtherModels)
=============================================================================
