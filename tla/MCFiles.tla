------------------------------ MODULE MCFiles ------------------------------
(***************************************************************************)
(* Instance of Files for TLC: objects of every protocol's shape, right and *)
(* slightly wrong, alone and in pairs.                                     *)
(***************************************************************************)
EXTENDS Files

\* Two payloads of the same bytes, padded or not; "tiny" is below 32 bytes.
SomeDigest == [a |-> "A", aRaw |-> "A", b |-> "B"]

\* The file of a is shorter than a placeholder, that of b is longer.
SomeLength == [a |-> 2, aRaw |-> 2, b |-> 4]

\* JSON as a tree,
Str(kind, data) == [text |-> <<[kind |-> kind, data |-> data]>>]
Plain(data) == Str("plain", data)
Obj(o) == [object |-> o]
Arr(s) == [array |-> s]
Other == [other |-> 1]

\* and as the values of a body, from a position on.
Value(kind, text, inner) == [kind |-> kind, text |-> text, inner |-> inner]
RECURSIVE Values(_, _)
Values(tree, n) ==
  LET Into(members, keys) ==
        FoldLeft(LAMBDA acc, k :
                   LET m == n + 1 + Len(acc.values)
                   IN [values |-> acc.values \o Values(members[k], m),
                       inner |-> acc.inner @@ (k :> m)],
                 [values |-> <<>>, inner |-> <<>>], keys)
  IN CASE "text" \in DOMAIN tree -> <<Value("text", tree.text, <<>>)>>
       [] "other" \in DOMAIN tree -> <<Value("other", <<>>, <<>>)>>
       [] "array" \in DOMAIN tree ->
            LET all == Into(tree.array, [i \in 1 .. Len(tree.array) |-> i])
            IN <<Value("array", <<>>, [i \in 1 .. Len(tree.array) |-> all.inner[i]])>>
                 \o all.values
       [] "object" \in DOMAIN tree ->
            LET all == Into(tree.object, SetToSeq(DOMAIN tree.object))
            IN <<Value("object", <<>>, all.inner)>> \o all.values

Sources ==
  {Obj([type |-> Plain(t), data |-> v]) :
     t \in {"base64", "mixed"}, v \in {Plain("a"), Plain("tiny"), Str("url", "b")}}
Named ==
  {Obj([b64_json |-> v]) : v \in {Plain("a"), Plain("tiny"), Str("url", "aRaw")}}
    \cup {Obj([type |-> Plain("base64"), format |-> Plain("wav"), data |-> Plain("b"),
               b64_json |-> Plain("b")])}
Formats ==
  {Obj([format |-> Plain(f), data |-> Plain("aRaw"), data_base64 |-> Plain("b")]) :
     f \in {"wav", "png", "hi"}}
    \cup {Obj([type |-> Plain(t), format |-> Plain("png"), data_base64 |-> Plain("a")]) :
            t \in {"image", "box"}}
Lines ==
  {[text |-> <<[kind |-> "field", data |-> p], [kind |-> "mark", data |-> "A"],
               [kind |-> "url", data |-> q]>>] : p, q \in {"a", "b", "tiny"}}
Items == Sources \cup Named \cup Formats \cup Lines \cup {Other, Plain("a")}

SomeRequests == {Values(Arr(<<v, w>>), 1) : v, w \in Items}
SomeResponses ==
  {Gone}
    \cup {Values(v, 1) : v \in Lines}
    \cup {Values(Obj([inner |-> v, data |-> Str("url", "aRaw")]), 1) : v \in Named}
=============================================================================
