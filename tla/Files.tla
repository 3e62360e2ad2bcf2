------------------------------- MODULE Files -------------------------------
(***************************************************************************)
(* File extraction (files.go, Record in db.go): before a call is stored,   *)
(* the base64 files in its request and its response are taken out, a       *)
(* placeholder with the file's digest in their place.  A body is its JSON  *)
(* values in the order in which they begin, so that a value comes after    *)
(* the one it is in; rewriteJSON is a walk over them, from a value into    *)
(* those that are in it.  Only strings change: a string is the sequence of *)
(* the things that matter in it:                                           *)
(*   plain - text, or the whole of a base64 payload;                       *)
(*   url   - a data URL of an image, a video, an audio or a PDF;           *)
(*   field - "b64_json":"..." inside a text, as in a recorded SSE line;    *)
(*   mark  - "<file:digest>", or fieldMark when it is in a field.          *)
(***************************************************************************)
EXTENDS SeqRun, SequencesExt

CONSTANTS
  Digest,      \* what the payloads that decode to a file's size decode to
  Requests,    \* request bodies
  Responses,   \* response bodies
  Retain,      \* whether blobs are kept at all (detail_retain)
  Length,      \* how long a payload is in its body,
  MarkLength,  \* and a placeholder: 71, longer than a file of 32 bytes
  MaxMediumBlob,  \* how much of that a blob may have (all else in a body
                  \* is taken to be as long before as after, and not counted)
  Gone         \* a body that is empty, a blob that is not stored

AudioFormats == {"wav", "mp3"}    \* the keys of audioFormats, as modelled
ImageFormats == {"png", "jpg"}    \* the keys of systemOneImageFormats

\* fileFromBase64: payloads of other encodings or sizes are no files.
IsFile(payload) == payload \in DOMAIN Digest
Shas == {Digest[payload] : payload \in DOMAIN Digest}

\* The words the code compares with are too short for files.
Words == {"", "base64", "image"} \cup AudioFormats \cup ImageFormats

Parts == [kind : {"plain", "url", "field", "mark", "fieldMark"}, data : STRING]

\* A value has parts, if it is a string, and the values that are in it, by
\* key or by index, if it is an object or an array.
Inner(value) == {value.inner[k] : k \in DOMAIN value.inner}
IsValue(value, below) ==
  /\ value.text \in Seq(Parts) /\ Inner(value) \subseteq below
  /\ value.kind # "text" => value.text = <<>>
  /\ value.kind = "array" => value.inner \in Seq(below)
  /\ value.kind \notin {"array", "object"} => Inner(value) = {}
IsBody(body) ==
  /\ Len(body) \in Nat \ {0} /\ DOMAIN body = 1 .. Len(body)
  /\ \A n \in DOMAIN body : IsValue(body[n], n + 1 .. Len(body))
  /\ \A n \in DOMAIN body : n # 1 => \E l \in 1 .. n - 1 : n \in Inner(body[l])

ASSUME FilesAssumption ==
  /\ DOMAIN Digest \subseteq STRING /\ Shas \subseteq STRING
  /\ DOMAIN Digest \cap Words = {}
  /\ Length \in [DOMAIN Digest -> Nat] /\ {MarkLength, MaxMediumBlob} \subseteq Nat
  /\ \A body \in (Requests \cup Responses) \ {Gone} : IsBody(body)

VARIABLES
  sent,    \* request and response as the proxy hands them to Record
  blobs,   \* the strings of both as far as they are rewritten, then as they
           \* are stored, Gone if they are not
  found,   \* the files of both, in the order they were found
  todo,    \* the values that are still to be looked at
  at,      \* the body that is walked: "none", a side, or "stored" after both
  files    \* the files Record stores with the call

filesVars == <<sent, blobs, found, todo, at, files>>
Sides == {"request", "response"}

----------------------------------------------------------------------------
\* Mutant: the name of the field goes with its value.
PlaceholderBare(part) == [kind |-> "mark", data |-> Digest[part.data]]

\* filePlaceholder, for a part or for a whole string.
Placeholder(part) == [kind |-> IF part.kind = "field" THEN "fieldMark" ELSE "mark",
                      data |-> Digest[part.data]]

\* addExtracted: the same bytes are one file, however they were encoded.
AddExtracted(shas, sha) == IF sha \in ToSet(shas) THEN shas ELSE Append(shas, sha)

\* The files among the payloads of a sequence, added in its order.
Taking(payload) ==
  [a \in Seq(Shas) \X DOMAIN payload |->
     IF IsFile(payload[a[2]]) THEN AddExtracted(a[1], Digest[payload[a[2]]]) ELSE a[1]]
Take(shas, payload, s) == Run(Taking(payload), shas, s)

\* Mutant: the response's files just follow the request's.
MergeExtractedPlain(a, b) == a \o b

\* mergeExtracted
Merging == [a \in Seq(Shas) \X Shas |-> AddExtracted(a[1], a[2])]
MergeExtracted(a, b) == Run(Merging, a, b)

----------------------------------------------------------------------------
\* Mutant: fields are not looked for.
RewriteTextUrls(text) ==
  [i \in DOMAIN text |-> IF text[i].kind = "url" /\ IsFile(text[i].data)
                         THEN Placeholder(text[i]) ELSE text[i]]

\* rewriteText
RewriteText(text) ==
  [i \in DOMAIN text |-> IF text[i].kind \in {"url", "field"} /\ IsFile(text[i].data)
                         THEN Placeholder(text[i]) ELSE text[i]]

\* Its two passes over the text: data URLs first, then fields.
OfKind(text, kind) ==
  [part \in ToSet(text) |-> IF part.kind = kind THEN part.data ELSE ""]
TakeText(shas, text) ==
  Take(Take(shas, OfKind(text, "url"), text), OfKind(text, "field"), text)

\* rawJSONString of a member: "" when it is absent or no string.  Only a plain
\* string can be a payload, a type or a format.
IsPlain(text) == Len(text) = 1 /\ text[1].kind = "plain"
StringOf(value, texts, key) ==
  IF key \in DOMAIN value.inner /\ IsPlain(texts[value.inner[key]])
  THEN texts[value.inner[key]][1].data ELSE ""

\* The members of an object that may be a file as they stand, in the order of
\* rewriteJSONObject; one that was replaced is no payload any more.
\* systemOneAssetMime guards the last.
PayloadKeys(value, texts) ==
  LET type == StringOf(value, texts, "type")
      format == StringOf(value, texts, "format")
  IN (IF type = "base64" THEN <<"data">> ELSE <<>>)
     \o <<"b64_json">>
     \o (IF format \in AudioFormats THEN <<"data">> ELSE <<>>)
     \o (IF format \in ImageFormats /\ type \in {"", "image"}
         THEN <<"data_base64">> ELSE <<>>)

\* Those that are files, and the strings with placeholders for them.
Taken(value, texts) ==
  {key \in ToSet(PayloadKeys(value, texts)) : IsFile(StringOf(value, texts, key))}
ReplaceMembers(value, texts) ==
  [n \in DOMAIN texts |-> IF \E key \in Taken(value, texts) : value.inner[key] = n
                          THEN <<Placeholder(texts[n][1])>> ELSE texts[n]]
TakeMembers(shas, value, texts) ==
  LET keys == PayloadKeys(value, texts)
  IN Take(shas, [key \in ToSet(keys) |-> StringOf(value, texts, key)], keys)

----------------------------------------------------------------------------
FilesInit ==
  /\ \E a \in Requests, b \in Responses :
       sent = [side \in Sides |-> IF side = "request" THEN a ELSE b]
  /\ blobs = [side \in Sides |-> Gone]
  /\ found = [side \in Sides |-> <<>>]
  /\ todo = <<>> /\ at = "none" /\ files = <<>>

TextsOf(body) == [n \in DOMAIN body |-> body[n].text]

\* How long a body is, as far as its files and placeholders make it.
PartLength(part) ==
  CASE part.kind \in {"mark", "fieldMark"} -> MarkLength
    [] IsFile(part.data) -> Length[part.data]
    [] OTHER -> 0
LengthOf(texts) ==
  FoldSeq(LAMBDA text, n : n + FoldSeq(LAMBDA part, m : m + PartLength(part), 0, text),
          0, texts)

\* retainableBlob: no files are taken from what is too large as it was sent,
\* and without retention from nothing.
RetainableBlob(body) == body # Gone /\ LengthOf(TextsOf(body)) <= MaxMediumBlob
Kept(side) == Retain /\ RetainableBlob(sent[side])

\* clipBlob, of a body with its placeholders: it can be the longer for them.
ClipBlob(texts) == IF LengthOf(texts) <= MaxMediumBlob THEN texts ELSE Gone

\* extractFiles, of the request and then of the response.
Begin(side) ==
  /\ \/ at = "none" /\ side = "request"
     \/ at = "request" /\ todo = <<>> /\ side = "response"
  /\ at' = side
  /\ IF Kept(side)
     THEN /\ blobs' = [blobs EXCEPT ![side] = TextsOf(sent[side])]
          /\ todo' = <<1>>
     ELSE UNCHANGED <<blobs, todo>>
  /\ UNCHANGED <<sent, found, files>>

\* rewriteJSON, by the first character of the next value.
NextIs(kind) == todo # <<>> /\ sent[at][Head(todo)].kind = kind

\* What a value leaves: strings, files, and the values in it that are next.
Leave(texts, shas, inner) ==
  /\ blobs' = [blobs EXCEPT ![at] = texts]
  /\ found' = [found EXCEPT ![at] = shas]
  /\ todo' = inner \o Tail(todo)
  /\ UNCHANGED <<sent, at, files>>

\* rewriteJSONString
VisitText ==
  /\ NextIs("text")
  /\ LET n == Head(todo)
         text == blobs[at][n]
     IN Leave([blobs[at] EXCEPT ![n] = RewriteText(text)], TakeText(found[at], text), <<>>)

\* rewriteJSONArray
VisitArray ==
  /\ NextIs("array")
  /\ Leave(blobs[at], found[at], sent[at][Head(todo)].inner)

\* rewriteJSONObject: the known members, then whatever they left untouched;
\* a map is ranged over in any order.
VisitObject ==
  /\ NextIs("object")
  /\ LET value == sent[at][Head(todo)]
         texts == blobs[at]
         rest == {value.inner[k] : k \in DOMAIN value.inner \ Taken(value, texts)}
     IN \E order \in SetToSeqs(rest) :
          Leave(ReplaceMembers(value, texts), TakeMembers(found[at], value, texts), order)

VisitOther ==
  /\ NextIs("other")
  /\ Leave(blobs[at], found[at], <<>>)

\* Record, up to the INSERT: the blobs are clipped, their files are not.  So one
\* that retainableBlob let through may not survive, whatever its comment says.
Store ==
  /\ at = "response" /\ todo = <<>>
  /\ at' = "stored"
  /\ blobs' = [side \in Sides |-> IF Kept(side) THEN ClipBlob(blobs[side]) ELSE Gone]
  /\ files' = MergeExtracted(found["request"], found["response"])
  /\ UNCHANGED <<sent, found, todo>>

FilesNext ==
  \/ \E side \in Sides : Begin(side)
  \/ VisitText \/ VisitArray \/ VisitObject \/ VisitOther
  \/ Store

FilesSpec == FilesInit /\ [][FilesNext]_filesVars

----------------------------------------------------------------------------
\* What is stored is what was sent, each file replaced by the placeholder of
\* its own digest and nothing else touched, wherever in the body it is and
\* however the maps are ranged over; a string that is just text, even one that
\* looks like a file, only as the member of an object that the protocols have
\* files in.
OnlyFilesReplaced ==
  \A side \in Sides : blobs[side] # Gone =>
    \A n \in DOMAIN sent[side] :
      LET old == sent[side][n].text
          new == blobs[side][n]
      IN /\ Len(new) = Len(old)
         /\ \A i \in DOMAIN old : new[i] # old[i] =>
              /\ IsFile(old[i].data) /\ new[i].data = Digest[old[i].data]
              /\ new[i].kind = IF old[i].kind = "field" THEN "fieldMark" ELSE "mark"
              /\ old[i].kind = "plain" =>
                   \E l \in DOMAIN sent[side], key \in {"data", "b64_json", "data_base64"} :
                     /\ sent[side][l].kind = "object" /\ key \in DOMAIN sent[side][l].inner
                     /\ sent[side][l].inner[key] = n

\* The digests that were put into a body.
Replacements(side) ==
  UNION {{blobs[side][n][i].data :
            i \in {j \in DOMAIN blobs[side][n] : blobs[side][n][j] # sent[side][n].text[j]}} :
         n \in DOMAIN sent[side]}

Stored == {side \in Sides : at = "stored" /\ blobs[side] # Gone}

\* The stored request and response name no file but those that are stored with
\* the call, and together all of them, unless a body outgrew its column with
\* its placeholders: what was taken out of that one is stored all the same.
\* Each is stored once: two rows of llm_call_files for the same call and digest
\* would be refused, and the call left without files.
PlaceholdersAreFiles ==
  at = "stored" =>
    LET named == UNION {Replacements(side) : side \in Stored}
    IN /\ named \subseteq ToSet(files)
       /\ {side \in Sides : Kept(side)} \subseteq Stored => named = ToSet(files)
       /\ IsInjective(files)

\* No stored blob still holds a file as a data URL, as b64_json in a text or in
\* a member that may be a file: the detail page shows no payload it could link.
NoPayloadLeft ==
  \A side \in Stored : \A n \in DOMAIN sent[side] :
    LET value == sent[side][n] IN
    /\ \A i \in DOMAIN blobs[side][n] :
         blobs[side][n][i].kind \in {"url", "field"} => ~IsFile(blobs[side][n][i].data)
    /\ value.kind = "object" =>
         \A key \in ToSet(PayloadKeys(value, TextsOf(sent[side]))) :
           ~IsFile(StringOf(value, blobs[side], key))
=============================================================================
