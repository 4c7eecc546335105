---------------------- MODULE ProviderRounds_proofs ----------------------
(***************************************************************************)
(* Proofs about the rounds of a turn with its provider, for any number of   *)
(* rounds, calls, parts, reloads and faults: types, that the cache has what *)
(* a follow-up needs unless its response was never completed, and that the  *)
(* text of the turn is what the gateway sent.                               *)
(***************************************************************************)
EXTENDS ProviderRounds, TLAPS

\* Where the loop is decides what it holds: calls belong to the response that
\* is being read or was read last, which is the previous one when it is
\* answered, and the last round asks for none.
Progress ==
    /\ stage = "idle" => provider = 0 /\ round = 0
    /\ stage # "idle" => provider \in Providers /\ round \in Rounds
    /\ stage \in {"idle", "asking"} => calls = << >>
    /\ stage = "idle" => previous = 0
    /\ stage = "asking" => previous = round - 1
    /\ stage = "streaming" => previous = round \/ (previous = round - 1 /\ calls = << >>)
    /\ stage = "tools" => previous = round
    /\ stage \in {"streaming", "tools"} /\ previous = round => round < MaxRounds
    /\ stage = "streaming" /\ api[provider] = "chat" /\ stream.items # << >> => round < MaxRounds

Typed == RoundsTypeOK /\ Progress

\* The steps of the decoder share their types.
LEMMA StreamTypes ==
    ASSUME RoundsTypeOK, NEW i \in Items, NEW n \in 1..MaxParts
    PROVE  /\ [stream EXCEPT !.items = Append(@, i)]
                \in [named : BOOLEAN, parts : SUBSET (1..MaxParts), items : Seq(Items),
                     finished : BOOLEAN, kept : BOOLEAN]
           /\ [stream EXCEPT !.parts = @ \union {n}]
                \in [named : BOOLEAN, parts : SUBSET (1..MaxParts), items : Seq(Items),
                     finished : BOOLEAN, kept : BOOLEAN]
           /\ [stream EXCEPT !.parts = @ \union {n}, !.items = Append(@, i)]
                \in [named : BOOLEAN, parts : SUBSET (1..MaxParts), items : Seq(Items),
                     finished : BOOLEAN, kept : BOOLEAN]
<1>1. Append(stream.items, i) \in Seq(Items) /\ stream.parts \union {n} \in SUBSET (1..MaxParts)
  BY DEF RoundsTypeOK
<1> QED
  BY <1>1 DEF RoundsTypeOK

\* What the cache keeps has the type of a request.
LEMMA CacheTypes ==
    ASSUME RoundsTypeOK, NEW items \in Seq(Items), Cached(items)
    PROVE  cache' \in [Providers -> [Rounds -> Seq(Items)]]
  BY DEF RoundsTypeOK, Cached

\* Saying a part keeps the types of the text.
LEMMA SaysTypes ==
    ASSUME RoundsTypeOK, round \in Rounds, NEW n \in 1..MaxParts, CameIn(n), Says(n) \/ text' = text
    PROVE  /\ text' \in Seq(Rounds \X (1..MaxParts))
           /\ sent' \in SUBSET (Rounds \X (1..MaxParts))
<1>1. <<round, n>> \in Rounds \X (1..MaxParts)
  OBVIOUS
<1>2. text' \in Seq(Rounds \X (1..MaxParts))
  <2>1. text \in Seq(Rounds \X (1..MaxParts))
    BY DEF RoundsTypeOK
  <2>2. Append(text, <<round, n>>) \in Seq(Rounds \X (1..MaxParts))
    BY <1>1, <2>1
  <2> QED
    BY <2>1, <2>2 DEF Says
<1>3. sent' \in SUBSET (Rounds \X (1..MaxParts))
  BY <1>1 DEF RoundsTypeOK, CameIn
<1> QED
  BY <1>2, <1>3

\* A response that is completed keeps what was read of it, and is kept itself
\* or leaves the cache as it was.
LEMMA CompletedDoes ==
    ASSUME RoundsTypeOK, stage = "streaming" => provider \in Providers /\ round \in Rounds, Completed
    PROVE  /\ stage = "streaming" /\ api[provider] = "responses" /\ ~stream.finished
           /\ UNCHANGED <<api, installed, provider, stage, round, previous, request, sent, calls,
                          outputs, text, failure, storeFaults>>
           /\ stream' \in [named : BOOLEAN, parts : SUBSET (1..MaxParts), items : Seq(Items),
                            finished : BOOLEAN, kept : BOOLEAN]
           /\ stream'.items = stream.items /\ stream'.parts = stream.parts
           /\ stream'.finished
           /\ \/ Cached(stream.items) /\ cache'[provider][round] = stream.items
              \/ cache' = cache /\ stream'.kept = stream.kept
<1>1. CASE CacheCompleted
  BY <1>1 DEF Completed, CacheCompleted, Cached, Streaming, Decode, RoundsTypeOK
<1>2. CASE Decode([stream EXCEPT !.finished = TRUE]) /\ UNCHANGED cache
  BY <1>2 DEF Completed, Streaming, Decode, RoundsTypeOK
<1> QED
  BY <1>1, <1>2 DEF Completed

\* Types and the progress of the loop are kept by every step.
LEMMA TypedKept == Typed /\ [RoundsNext]_roundsVars => Typed'
<1> SUFFICES ASSUME RoundsTypeOK, Progress, [RoundsNext]_roundsVars PROVE RoundsTypeOK' /\ Progress'
  BY DEF Typed
<1> USE ProviderRoundsAssumption DEF Providers, Rounds
<1>1. CASE Begin
  BY <1>1 DEF Begin, RoundsTypeOK, Progress
<1>2. CASE Reload
  <2>1. installed' \in Providers
    BY <1>2 DEF Reload, RoundsTypeOK
  <2>2. RoundsTypeOK'
    BY <1>2, <2>1 DEF Reload, RoundsTypeOK
  <2>3. Progress'
    BY <1>2 DEF Reload, Progress
  <2> QED
    BY <2>2, <2>3
<1>3. CASE Ask
  <2>1. Mapped \in Seq(Items)
    <3>1. Input \in Items
      BY DEF Input, Item, Items
    <3>2. previous # 0 => provider \in Providers /\ previous \in Rounds
      BY <1>3 DEF Ask, RoundsTypeOK, Progress
    <3>3. previous # 0 => cache[provider][previous] \in Seq(Items)
      BY <3>2 DEF RoundsTypeOK
    <3>4. outputs \in Seq(Items)
      BY DEF RoundsTypeOK
    <3> QED
      BY <3>1, <3>3, <3>4 DEF Mapped, Client
  <2>2. << >> \in Seq(Items)
    OBVIOUS
  <2>3. RoundsTypeOK'
    <3>1. Closed \in [named : BOOLEAN, parts : SUBSET (1..MaxParts), items : Seq(Items),
                     finished : BOOLEAN, kept : BOOLEAN]
      BY <2>2 DEF Closed
    <3>2. stream' \in [named : BOOLEAN, parts : SUBSET (1..MaxParts), items : Seq(Items),
                       finished : BOOLEAN, kept : BOOLEAN]
      <4>1. stream' = Closed \/ stream' = stream
        BY <1>3 DEF Ask
      <4> QED
        BY <3>1, <4>1 DEF RoundsTypeOK
    <3>4. request' \in Seq(Items) /\ outputs' \in Seq(Items)
      BY <1>3, <2>1, <2>2 DEF Ask, RoundsTypeOK
    <3>3. /\ stage' \in {"streaming", "failed"}
          /\ failure' \in {failure, "miss"}
      BY <1>3 DEF Ask, Fails
    <3> QED
      BY <1>3, <3>2, <3>3, <3>4 DEF Ask, RoundsTypeOK
  <2>4. Progress'
    BY <1>3 DEF Ask, Fails, Closed, Progress, RoundsTypeOK
  <2> QED
    BY <2>3, <2>4
<1>4. CASE Created
  BY <1>4 DEF Created, Streaming, Decode, RoundsTypeOK, Progress
<1>5. ASSUME NEW n \in 1..MaxParts, TextDelta(n) PROVE RoundsTypeOK' /\ Progress'
  <2>1. round \in Rounds
    BY <1>5 DEF TextDelta, Progress
  <2>2. Item("text", round, n) \in Items
    BY <2>1 DEF Item, Items
  <2>3. /\ text' \in Seq(Rounds \X (1..MaxParts))
        /\ sent' \in SUBSET (Rounds \X (1..MaxParts))
    BY <1>5, <2>1, SaysTypes DEF TextDelta
  <2>4. stream' \in [named : BOOLEAN, parts : SUBSET (1..MaxParts), items : Seq(Items),
                     finished : BOOLEAN, kept : BOOLEAN]
    BY <1>5, <2>2, StreamTypes DEF TextDelta, Decode
  <2>5. stream'.items = stream.items
    BY <1>5 DEF TextDelta, Decode, RoundsTypeOK
  <2>6. RoundsTypeOK'
    BY <1>5, <2>3, <2>4 DEF TextDelta, Decode, RoundsTypeOK
  <2>7. Progress'
    BY <1>5, <2>5 DEF TextDelta, Decode, Progress
  <2> QED
    BY <2>6, <2>7
<1>6. ASSUME NEW n \in 1..MaxParts, TextDone(n) PROVE RoundsTypeOK' /\ Progress'
  <2>1. round \in Rounds /\ api[provider] = "responses"
    BY <1>6 DEF TextDone, Streaming, Progress
  <2>2. Item("text", round, n) \in Items
    BY <2>1 DEF Item, Items
  <2>3. /\ text' \in Seq(Rounds \X (1..MaxParts))
        /\ sent' \in SUBSET (Rounds \X (1..MaxParts))
    <3>1. CameIn(n) /\ (Says(n) \/ text' = text)
      BY <1>6 DEF TextDone
    <3> QED
      BY <2>1, <3>1, SaysTypes
  <2>4. stream' \in [named : BOOLEAN, parts : SUBSET (1..MaxParts), items : Seq(Items),
                     finished : BOOLEAN, kept : BOOLEAN]
    BY <1>6, <2>2, StreamTypes DEF TextDone, Decode
  <2>5. RoundsTypeOK'
    BY <1>6, <2>3, <2>4 DEF TextDone, Decode, RoundsTypeOK
  <2>6. Progress'
    BY <1>6, <2>1 DEF TextDone, Decode, Progress
  <2> QED
    BY <2>5, <2>6
<1>7. CASE CallDone
  <2> DEFINE item == Item("call", round, Len(calls) + 1)
  <2>1. round \in Rounds /\ round < MaxRounds /\ api[provider] = "responses" /\ stage = "streaming"
    BY <1>7 DEF CallDone, Streaming, Progress
  <2>2. item \in Items
    BY <2>1 DEF Item, Items, RoundsTypeOK
  <2>3. CASE /\ previous' = round
             /\ calls' = Append(calls, item)
             /\ Decode([stream EXCEPT !.items = Append(@, item)])
             /\ UNCHANGED <<stage, failure>>
    <3>1. calls' \in Seq(Items)
      BY <2>2, <2>3 DEF RoundsTypeOK
    <3>2. stream' \in [named : BOOLEAN, parts : SUBSET (1..MaxParts), items : Seq(Items),
                       finished : BOOLEAN, kept : BOOLEAN]
      <4>1. Append(stream.items, item) \in Seq(Items)
        BY <2>2 DEF RoundsTypeOK
      <4> QED
        BY <2>3, <4>1 DEF Decode, RoundsTypeOK
    <3>3. RoundsTypeOK'
      BY <1>7, <2>1, <2>3, <3>1, <3>2 DEF CallDone, Decode, RoundsTypeOK
    <3>4. Progress'
      BY <1>7, <2>1, <2>3 DEF CallDone, Decode, Progress
    <3> QED
      BY <3>3, <3>4
  <2>4. CASE Fails("upstream") /\ Decode(stream) /\ UNCHANGED <<previous, calls>>
    BY <1>7, <2>4, <2>1 DEF CallDone, Fails, Decode, RoundsTypeOK, Progress
  <2> QED
    BY <1>7, <2>3, <2>4 DEF CallDone
<1>8. CASE Completed
  <2>1. stream.items \in Seq(Items) /\ (stage = "streaming" => provider \in Providers /\ round \in Rounds)
    BY DEF RoundsTypeOK, Progress
  <2>2. cache' \in [Providers -> [Rounds -> Seq(Items)]]
    <3>1. CASE Cached(stream.items)
      BY <2>1, <3>1, CacheTypes
    <3>2. CASE cache' = cache
      BY <3>2 DEF RoundsTypeOK
    <3> QED
      BY <1>8, <2>1, <3>1, <3>2, CompletedDoes
  <2>3. RoundsTypeOK'
    BY <1>8, <2>1, <2>2, CompletedDoes DEF RoundsTypeOK
  <2>4. Progress'
    BY <1>8, <2>1, CompletedDoes DEF Progress
  <2> QED
    BY <2>3, <2>4
<1>9. CASE DraftDelta
  <2> DEFINE item == Item("call", round, Len(stream.items) + 1)
  <2>1. stream.items \in Seq(Items) /\ round \in Rounds
    BY <1>9 DEF DraftDelta, Streaming, RoundsTypeOK, Progress
  <2>2. item \in Items
    BY <2>1 DEF Item, Items
  <2>3. stream' = [stream EXCEPT !.items = Append(@, item)]
    BY <1>9 DEF DraftDelta, Decode
  <2>4. stream' \in [named : BOOLEAN, parts : SUBSET (1..MaxParts), items : Seq(Items),
                     finished : BOOLEAN, kept : BOOLEAN]
    <3>1. Append(stream.items, item) \in Seq(Items)
      BY <2>1, <2>2
    <3> QED
      BY <2>3, <3>1 DEF RoundsTypeOK
  <2>5. RoundsTypeOK'
    BY <1>9, <2>4 DEF DraftDelta, Decode, RoundsTypeOK
  <2>6. Progress'
    BY <1>9 DEF DraftDelta, Streaming, Decode, Progress
  <2> QED
    BY <2>5, <2>6
<1>10. CASE Finish
  <2>1. round \in Rounds /\ provider \in Providers /\ stage = "streaming" /\ api[provider] = "chat"
    BY <1>10 DEF Finish, Streaming, Progress
  <2>2. CASE /\ stream.items # << >>
             /\ previous' = round
             /\ calls' = stream.items
             /\ Cached(request \o << Item("text", round, 0) >> \o stream.items)
             /\ Decode([stream EXCEPT !.finished = TRUE, !.kept = TRUE])
             /\ UNCHANGED <<stage, failure>>
    <3>1. Item("text", round, 0) \in Items
      BY <2>1 DEF Item, Items
    <3>2. request \o << Item("text", round, 0) >> \o stream.items \in Seq(Items)
      BY <3>1 DEF RoundsTypeOK
    <3>3. cache' \in [Providers -> [Rounds -> Seq(Items)]]
      BY <2>2, <3>2, CacheTypes
    <3>4. RoundsTypeOK'
      BY <1>10, <2>1, <2>2, <3>3 DEF Finish, Decode, RoundsTypeOK
    <3>5. Progress'
      BY <1>10, <2>1, <2>2 DEF Finish, Decode, Progress
    <3> QED
      BY <3>4, <3>5
  <2>3. CASE /\ stream.items = << >>
             /\ Decode([stream EXCEPT !.finished = TRUE])
             /\ UNCHANGED <<stage, previous, cache, calls, failure>>
    BY <1>10, <2>1, <2>3 DEF Finish, Decode, RoundsTypeOK, Progress
  <2>4. CASE Fails("upstream") /\ Decode(stream) /\ UNCHANGED <<previous, cache, calls>>
    BY <1>10, <2>1, <2>4 DEF Finish, Fails, Decode, RoundsTypeOK, Progress
  <2> QED
    BY <1>10, <2>2, <2>3, <2>4 DEF Finish
<1>11. CASE Broken
  BY <1>11 DEF Broken, Fails, Decode, RoundsTypeOK, Progress
<1>12. CASE ResponseEnds
  BY <1>12 DEF ResponseEnds, Fails, RoundsTypeOK, Progress
<1>13. CASE CallTool
  <2>1. calls \in Seq(Items) /\ calls # << >> /\ outputs \in Seq(Items)
    BY <1>13 DEF CallTool, RoundsTypeOK
  <2>2. Tail(calls) \in Seq(Items) /\ Head(calls) \in Items
    BY <2>1
  <2>3. Answered \in Items
    BY <2>2 DEF Answered, Item, Items
  <2>4. Append(outputs, Answered) \in Seq(Items)
    BY <2>1, <2>3
  <2>5. RoundsTypeOK'
    <3>1. calls' \in Seq(Items) /\ outputs' \in Seq(Items)
      BY <1>13, <2>1, <2>2, <2>4 DEF CallTool
    <3>2. storeFaults' \in 0..MaxStoreFaults
      <4>1. storeFaults' = storeFaults \/ (storeFaults > 0 /\ storeFaults' = storeFaults - 1)
        BY <1>13 DEF CallTool, StoreFault
      <4>2. storeFaults \in 0..MaxStoreFaults /\ MaxStoreFaults \in Nat
        BY ProviderRoundsAssumption DEF RoundsTypeOK
      <4> QED
        BY <4>1, <4>2
    <3>3. stage' \in {"tools", "failed"} /\ failure' \in {failure, "store"}
      BY <1>13 DEF CallTool, Fails
    <3>4. UNCHANGED <<api, installed, provider, round, previous, request, cache, stream,
                      text, sent>>
      BY <1>13 DEF CallTool
    <3> QED
      BY <3>1, <3>2, <3>3, <3>4 DEF RoundsTypeOK
  <2>6. Progress'
    BY <1>13 DEF CallTool, StoreFault, Fails, RoundsTypeOK, Progress
  <2> QED
    BY <2>5, <2>6
<1>14. CASE NextRound
  BY <1>14 DEF NextRound, RoundsTypeOK, Progress
<1>15. CASE UNCHANGED roundsVars
  <2>1. RoundsTypeOK'
    BY <1>15 DEF roundsVars, RoundsTypeOK
  <2>2. Progress'
    BY <1>15 DEF roundsVars, Progress
  <2> QED
    BY <2>1, <2>2
<1> QED
  BY <1>1, <1>2, <1>3, <1>4, <1>5, <1>6, <1>7, <1>8, <1>9, <1>10, <1>11, <1>12, <1>13,
     <1>14, <1>15 DEF RoundsNext, Loop, Gateway

\* Types and progress are invariants.
LEMMA TypedInvariant == RoundsSpec => []Typed
<1>1. RoundsInit => Typed
  BY ProviderRoundsAssumption
  DEF RoundsInit, Typed, RoundsTypeOK, Progress, Closed, Providers, Rounds
<1> QED
  BY <1>1, TypedKept, PTL DEF RoundsSpec

---------------------------------------------------------------------------
\* A response that was completed under an id and asked for tools is in the
\* cache of the provider that the turn took, until it is followed up.
Kept ==
    /\ stream.kept => stream.finished
    /\ stage = "streaming" /\ previous = round /\ api[provider] = "responses" =>
          stream.items # << >>
    /\ stage = "streaming" /\ previous = round /\ api[provider] = "chat" => stream.finished
    /\ stage \in {"streaming", "tools"} /\ previous = round /\ stream.kept =>
          cache[provider][round] # << >>
    /\ stage = "asking" /\ previous # 0 /\ stream.kept => cache[provider][previous] # << >>
    /\ failure = "miss" => stage = "failed" /\ ~stream.kept

\* What is appended to is not empty.
LEMMA AppendNotEmpty ==
    ASSUME NEW S, NEW q \in Seq(S), NEW e \in S
    PROVE  Append(q, e) # << >>
<1>1. Len(Append(q, e)) = Len(q) + 1 /\ Len(q) \in Nat
  OBVIOUS
<1> QED
  BY <1>1

\* What is cached is found.
LEMMA CachedFound ==
    ASSUME RoundsTypeOK, provider \in Providers, round \in Rounds, NEW items, Cached(items)
    PROVE  cache'[provider][round] = items
  BY DEF RoundsTypeOK, Cached

\* Nobody but the decoder of the round writes the cache, and a reload does
\* not change the turn's provider.
LEMMA KeptKept == Typed /\ Kept /\ [RoundsNext]_roundsVars => Kept'
<1> SUFFICES ASSUME RoundsTypeOK, Progress, Kept, [RoundsNext]_roundsVars PROVE Kept'
  BY DEF Typed
<1> USE ProviderRoundsAssumption DEF Providers, Rounds
<1>0. stage = "streaming" => /\ round \in Nat \ {0} /\ round \in Rounds /\ provider \in Providers
                             /\ previous # round => previous = round - 1
  BY DEF Progress
<1>1. CASE Begin \/ Reload
  BY <1>1 DEF Begin, Reload, Kept, RoundsTypeOK, Progress
<1>2. CASE Ask
  <2>1. CASE Hit /\ stage' = "streaming" /\ stream' = Closed /\ UNCHANGED failure
    <3>1. previous # round /\ ~stream'.finished /\ ~stream'.kept
      BY <1>2, <2>1 DEF Ask, Progress, RoundsTypeOK, Closed
    <3> QED
      BY <1>2, <2>1, <3>1 DEF Ask, Kept, RoundsTypeOK
  <2>2. CASE ~Hit /\ Fails("miss") /\ UNCHANGED stream
    BY <1>2, <2>2 DEF Ask, Fails, Hit, Client, Kept
  <2> QED
    BY <1>2, <2>1, <2>2 DEF Ask
<1>3. CASE Created \/ Broken
  BY <1>3 DEF Created, Broken, Fails, Streaming, Decode, Kept, RoundsTypeOK
<1>4. ASSUME NEW n \in 1..MaxParts, TextDelta(n) PROVE Kept'
  BY <1>4 DEF TextDelta, Decode, Kept, RoundsTypeOK
<1>5. ASSUME NEW n \in 1..MaxParts, TextDone(n) PROVE Kept'
  <2>1. Item("text", round, n) \in Items
    BY <1>0, <1>5 DEF TextDone, Streaming, Item, Items
  <2>2. Append(stream.items, Item("text", round, n)) # << >>
    BY <2>1, AppendNotEmpty DEF RoundsTypeOK
  <2>3. stream'.items # << >> /\ ~stream'.finished
    BY <1>5, <2>2 DEF TextDone, Streaming, Decode, RoundsTypeOK
  <2> QED
    BY <1>5, <2>3 DEF TextDone, Streaming, Decode, Kept
<1>6. CASE CallDone
  <2> DEFINE item == Item("call", round, Len(calls) + 1)
  <2>1. item \in Items
    BY <1>0, <1>6 DEF CallDone, Streaming, Item, Items, RoundsTypeOK
  <2>2. Append(stream.items, item) # << >>
    BY <2>1, AppendNotEmpty DEF RoundsTypeOK
  <2>3. CASE Decode([stream EXCEPT !.items = Append(@, item)]) /\ UNCHANGED <<stage, failure>>
    <3>1. stream'.items # << >> /\ ~stream'.finished
      <4>1. stream' = [stream EXCEPT !.items = Append(@, item)] /\ ~stream.finished
        BY <1>6, <2>3 DEF CallDone, Streaming, Decode
      <4> HIDE DEF item
      <4> QED
        BY <2>2, <4>1 DEF RoundsTypeOK
    <3>2. UNCHANGED <<stage, failure, api, provider, round, cache>>
      BY <1>6, <2>3 DEF CallDone, Decode
    <3>3. stage = "streaming" /\ api[provider] = "responses" /\ stream'.kept = stream.kept
      <4>1. stream' = [stream EXCEPT !.items = Append(@, item)]
        BY <2>3 DEF Decode
      <4> HIDE DEF item
      <4> QED
        BY <1>6, <4>1 DEF CallDone, Streaming, RoundsTypeOK
    <3>4. ~stream.kept
      BY <1>6 DEF CallDone, Streaming, Kept
    <3> HIDE DEF item
    <3> QED
      BY <3>1, <3>2, <3>3, <3>4 DEF Kept
  <2>4. CASE Fails("upstream") /\ Decode(stream)
    BY <1>6, <2>4 DEF CallDone, Streaming, Fails, Decode, Kept
  <2> QED
    BY <1>6, <2>3, <2>4 DEF CallDone
<1>7. CASE Completed
  <2>1. CASE cache'[provider][round] = stream.items
    BY <1>0, <1>7, <2>1, CompletedDoes DEF Kept
  <2>2. CASE cache' = cache /\ stream'.kept = stream.kept
    BY <1>0, <1>7, <2>2, CompletedDoes DEF Kept
  <2> QED
    BY <1>0, <1>7, <2>1, <2>2, CompletedDoes
<1>8. CASE DraftDelta
  BY <1>8 DEF DraftDelta, Streaming, Decode, Kept, RoundsTypeOK
<1>9. CASE Finish
  <2> DEFINE all == request \o << Item("text", round, 0) >> \o stream.items
  <2>1. stage = "streaming" /\ api[provider] = "chat" /\ ~stream.finished
    BY <1>9 DEF Finish, Streaming
  <2>2. CASE /\ Cached(all) /\ previous' = round /\ UNCHANGED <<stage, failure>>
             /\ Decode([stream EXCEPT !.finished = TRUE, !.kept = TRUE])
    <3>1. Item("text", round, 0) \in Items
      BY <1>0, <2>1 DEF Item, Items
    <3>2. all # << >>
      BY <3>1 DEF RoundsTypeOK
    <3>3. cache'[provider][round] # << >>
      <4> HIDE DEF all
      <4> QED
        BY <1>0, <2>1, <2>2, <3>2, CachedFound
    <3>4. UNCHANGED <<api, provider, round>> /\ stream'.finished
      BY <2>2 DEF Decode, RoundsTypeOK
    <3> QED
      BY <2>1, <2>2, <3>3, <3>4 DEF Kept
  <2>3. CASE stream.items = << >> /\ UNCHANGED <<stage, previous, cache, failure>>
    <3>1. previous # round
      BY <2>1 DEF Kept
    <3>2. /\ UNCHANGED <<api, provider, round, stage, previous, cache, failure>>
          /\ stream'.kept = stream.kept /\ (stream'.kept => stream'.finished)
      BY <1>9, <2>1, <2>3 DEF Finish, Decode, RoundsTypeOK, Kept
    <3> QED
      BY <2>1, <3>1, <3>2 DEF Kept
  <2>4. CASE Fails("upstream") /\ Decode(stream)
    BY <1>9, <2>1, <2>4 DEF Finish, Fails, Decode, Kept
  <2> QED
    BY <1>9, <2>2, <2>3, <2>4 DEF Finish
<1>10. CASE ResponseEnds
  BY <1>10 DEF ResponseEnds, Fails, Kept, RoundsTypeOK
<1>11. CASE CallTool
  BY <1>11 DEF CallTool, StoreFault, Fails, Kept, RoundsTypeOK
<1>12. CASE NextRound
  BY <1>12 DEF NextRound, Kept, RoundsTypeOK, Progress
<1>13. CASE UNCHANGED roundsVars
  BY <1>13 DEF roundsVars, Kept
<1> QED
  BY <1>1, <1>2, <1>3, <1>4, <1>5, <1>6, <1>7, <1>8, <1>9, <1>10, <1>11, <1>12, <1>13
  DEF RoundsNext, Loop, Gateway

\* A follow-up misses the cache only after a response that was never
\* completed under an id, whichever providers are installed meanwhile.
THEOREM NoOtherMiss == RoundsSpec => []CompletedIsFound
<1>1. RoundsInit => Kept
  BY DEF RoundsInit, Closed, Kept
<1>2. Kept => CompletedIsFound
  BY DEF Kept, CompletedIsFound
<1> QED
  BY <1>1, <1>2, KeptKept, TypedInvariant, PTL DEF RoundsSpec

---------------------------------------------------------------------------
\* The text so far is the parts that were sent, in the order of the rounds,
\* and the decoder of the round knows which of its parts those are.
Spoken ==
    /\ TextOnce
    /\ \A i \in DOMAIN text : text[i][1] <= round
    /\ stage \in {"idle", "asking"} => \A i \in DOMAIN text : text[i][1] < round
    /\ stage = "streaming" => \A n \in 1..MaxParts : n \in stream.parts <=> <<round, n>> \in sent

\* A part that was not sent may be said.
LEMMA SaysOnce ==
    ASSUME RoundsTypeOK, round \in Rounds, NEW n \in 1..MaxParts, CameIn(n), Says(n),
           <<round, n>> \notin sent,
           TextOnce, \A i \in DOMAIN text : text[i][1] <= round
    PROVE  TextOnce' /\ \A i \in DOMAIN text' : text'[i][1] <= round
<1> DEFINE part == <<round, n>>
<1>1. text \in Seq(Rounds \X (1..MaxParts)) /\ part \in Rounds \X (1..MaxParts)
  BY DEF RoundsTypeOK
<1>2. text' = Append(text, part) /\ sent' = sent \union {part}
  BY DEF CameIn, Says
<1>3. /\ Len(text) \in Nat /\ DOMAIN text = 1..Len(text)
      /\ DOMAIN text' = 1..(Len(text) + 1)
      /\ text'[Len(text) + 1] = part
      /\ \A i \in 1..Len(text) : text'[i] = text[i]
  BY <1>1, <1>2
<1>4. part[1] = round
  OBVIOUS
<1>5. part \notin {text[i] : i \in DOMAIN text}
  BY DEF TextOnce
<1>6. {text'[i] : i \in DOMAIN text'} = sent'
  <2>1. {text'[i] : i \in DOMAIN text'} = {text[i] : i \in DOMAIN text} \union {part}
    <3> HIDE DEF part
    <3> QED
      BY <1>3
  <2> QED
    BY <1>2, <2>1 DEF TextOnce
<1>7. ASSUME NEW i \in DOMAIN text', NEW j \in DOMAIN text', i < j
      PROVE  text'[i][1] <= text'[j][1] /\ text'[i] # text'[j]
  <2>1. i \in 1..Len(text)
    BY <1>3, <1>7
  <2>2. CASE j \in 1..Len(text)
    BY <1>3, <1>7, <2>1, <2>2 DEF TextOnce
  <2>3. CASE j = Len(text) + 1
    <3>1. text'[j] = part /\ text'[i] = text[i] /\ text[i][1] <= round
      BY <1>3, <2>1, <2>3
    <3>2. text[i] # part
      BY <1>3, <1>5, <2>1
    <3> QED
      BY <1>4, <3>1, <3>2
  <2> QED
    BY <1>3, <2>2, <2>3
<1>8. ASSUME NEW i \in DOMAIN text' PROVE text'[i][1] <= round
  <2>1. CASE i \in 1..Len(text)
    BY <1>3, <2>1
  <2>2. CASE i = Len(text) + 1
    <3>1. text'[i][1] = round
      BY <1>3, <1>4, <2>2
    <3> QED
      BY <3>1 DEF Rounds
  <2> QED
    BY <1>3, <2>1, <2>2
<1> QED
  BY <1>6, <1>7, <1>8 DEF TextOnce

\* Steps that leave the text alone.
LEMMA TextUnchanged == UNCHANGED <<text, sent>> /\ TextOnce => TextOnce'
  BY DEF TextOnce

\* A part is said by its first event and by no other.
LEMMA SpokenKept == Typed /\ Spoken /\ [RoundsNext]_roundsVars => Spoken'
<1> SUFFICES ASSUME RoundsTypeOK, Progress, Spoken, [RoundsNext]_roundsVars PROVE Spoken'
  BY DEF Typed
<1> USE ProviderRoundsAssumption DEF Providers, Rounds
<1>0. /\ round \in Nat /\ text \in Seq(Rounds \X (1..MaxParts))
      /\ \A i \in DOMAIN text : text[i][1] \in Nat
      /\ stage = "streaming" => round \in Rounds
  <2>1. round \in Nat /\ text \in Seq(Rounds \X (1..MaxParts))
    BY DEF RoundsTypeOK
  <2>2. \A i \in DOMAIN text : text[i] \in Rounds \X (1..MaxParts)
    BY <2>1
  <2>3. \A part \in Rounds \X (1..MaxParts) : part[1] \in Nat
    OBVIOUS
  <2> QED
    BY <2>1, <2>2, <2>3 DEF Progress
<1>1. CASE Begin \/ Reload
  <2>1. UNCHANGED <<text, sent, stream>> /\ (round' = round \/ (round' = 1 /\ stage = "idle"))
    BY <1>1 DEF Begin, Reload
  <2>2. stage = "idle" => round = 0
    BY DEF Progress
  <2>3. \A i \in DOMAIN text : text[i][1] <= round'
    BY <1>0, <2>1, <2>2 DEF Spoken
  <2>4. stage' \in {"idle", "asking"} => \A i \in DOMAIN text : text[i][1] < round'
    BY <1>0, <1>1, <2>1, <2>2 DEF Spoken, Begin, Reload
  <2>5. stage' = "streaming" => stage = "streaming" /\ round' = round
    BY <1>1 DEF Begin, Reload
  <2> QED
    BY <2>1, <2>3, <2>4, <2>5, TextUnchanged DEF Spoken
<1>2. CASE Ask
  <2>1. UNCHANGED <<text, sent, round>> /\ stage = "asking" /\ stage' \in {"streaming", "failed"}
    BY <1>2 DEF Ask, Fails
  <2>2. stage' = "streaming" => stream'.parts = {}
    BY <1>2 DEF Ask, Fails, Closed
  <2>3. ASSUME NEW n \in 1..MaxParts PROVE <<round, n>> \notin sent
    <3>1. \A i \in DOMAIN text : text[i] # <<round, n>>
      BY <1>0, <2>1 DEF Spoken
    <3> QED
      BY <3>1 DEF Spoken, TextOnce
  <2> QED
    BY <2>1, <2>2, <2>3, TextUnchanged DEF Spoken
<1>3. CASE Created \/ CallDone \/ Completed \/ DraftDelta \/ Finish \/ Broken
  <2>1. UNCHANGED <<text, sent, round>> /\ stream'.parts = stream.parts
    BY <1>3 DEF Created, CallDone, Completed, CacheCompleted, DraftDelta, Finish, Broken,
                Decode, RoundsTypeOK
  <2>2. stage = "streaming" /\ stage' \in {"streaming", "failed"}
    BY <1>3 DEF Created, CallDone, Completed, DraftDelta, Finish, Broken, Streaming, Fails
  <2> QED
    BY <2>1, <2>2, TextUnchanged DEF Spoken
<1>4. ASSUME NEW n \in 1..MaxParts,
             TextDelta(n) \/ (TextDone(n) /\ ~Streamed(n)) PROVE Spoken'
  <2>1. CameIn(n) /\ Says(n) /\ UNCHANGED <<stage, round>> /\ stage = "streaming"
    BY <1>4 DEF TextDelta, TextDone, Streaming, Decode
  <2>2. <<round, n>> \notin sent
    BY <1>4, <2>1 DEF TextDelta, Streamed, Spoken
  <2>3. TextOnce' /\ \A i \in DOMAIN text' : text'[i][1] <= round
    BY <1>0, <2>1, <2>2, SaysOnce DEF Spoken
  <2>4. stream'.parts = stream.parts \union {n}
    BY <1>4 DEF TextDelta, TextDone, Decode, RoundsTypeOK
  <2>5. ASSUME NEW m \in 1..MaxParts
        PROVE  m \in stream'.parts <=> <<round, m>> \in sent'
    BY <2>1, <2>4 DEF Spoken, CameIn
  <2> QED
    BY <2>1, <2>3, <2>5 DEF Spoken
<1>5. ASSUME NEW n \in 1..MaxParts, TextDone(n) /\ Streamed(n) PROVE Spoken'
  <2>1. UNCHANGED <<text, stage, round>> /\ CameIn(n) /\ stage = "streaming"
    BY <1>5 DEF TextDone, Streaming, Decode
  <2>2. stream'.parts = stream.parts
    <3>1. stream \in [named : BOOLEAN, parts : SUBSET (1..MaxParts), items : Seq(Items),
                      finished : BOOLEAN, kept : BOOLEAN]
      BY DEF RoundsTypeOK
    <3>2. /\ n \in stream.parts
          /\ \E items : stream' = [stream EXCEPT !.parts = @ \union {n}, !.items = items]
      BY <1>5 DEF TextDone, Decode, Streamed
    <3> QED
      BY <3>1, <3>2
  <2>3. sent' = sent
    <3>1. <<round, n>> \in sent
      BY <1>5, <2>1 DEF Streamed, Spoken
    <3> QED
      BY <2>1, <3>1 DEF CameIn
  <2> QED
    BY <2>1, <2>2, <2>3, TextUnchanged DEF Spoken
<1>6. CASE ResponseEnds \/ CallTool
  <2>1. /\ UNCHANGED <<text, sent, stream, round>>
        /\ stage' \in {"tools", "answered", "failed"}
    BY <1>6 DEF ResponseEnds, CallTool, Fails
  <2> QED
    BY <2>1, TextUnchanged DEF Spoken
<1>7. CASE NextRound
  <2>1. UNCHANGED <<text, sent>> /\ round' = round + 1 /\ stage' = "asking"
    BY <1>7 DEF NextRound
  <2>2. \A i \in DOMAIN text : text[i][1] < round' /\ text[i][1] <= round'
    BY <1>0, <2>1 DEF Spoken
  <2> QED
    BY <2>1, <2>2, TextUnchanged DEF Spoken
<1>8. CASE UNCHANGED roundsVars
  BY <1>8, TextUnchanged DEF roundsVars, Spoken
<1> QED
  BY <1>1, <1>2, <1>3, <1>4, <1>5, <1>6, <1>7, <1>8 DEF RoundsNext, Loop, Gateway

\* The assistant's text is every part the gateway sent, once, whichever of
\* its events carried it, in the order of the rounds.
THEOREM TextComplete == RoundsSpec => []TextOnce
<1>1. RoundsInit => Spoken
  BY DEF RoundsInit, Spoken, TextOnce
<1>2. Spoken => TextOnce
  BY DEF Spoken
<1> QED
  BY <1>1, <1>2, SpokenKept, TypedInvariant, PTL DEF RoundsSpec

---------------------------------------------------------------------------
\* The items of response r that ask for its calls 1 to k, each once.
Asks(items, r, k) ==
    /\ \A i \in 1..Len(items) :
          \/ items[i].kind = "text"
          \/ items[i].kind = "call" /\ items[i].response = r /\ items[i].n \in 1..k
    /\ \A n \in 1..k : \E i \in 1..Len(items) : items[i] = Item("call", r, n)
    /\ \A i, j \in 1..Len(items) : items[i].kind = "call" /\ items[i] = items[j] => i = j

\* A conversation in which every call of an earlier response has its output,
\* and the calls 1 to k of response r are still without one.
Owes(items, r, k) ==
    /\ \A i \in 1..Len(items) : items[i].kind = "call" =>
          \/ /\ items[i].response < r
             /\ \E j \in 1..Len(items) :
                    j > i /\ items[j] = Item("output", items[i].response, items[i].n)
          \/ items[i].response = r /\ items[i].n \in 1..k
    /\ \A n \in 1..k : \E i \in 1..Len(items) : items[i] = Item("call", r, n)
    /\ \A j \in 1..Len(items) : items[j].kind = "output" =>
          /\ items[j].response < r
          /\ \E i \in 1..Len(items) :
                 j > i /\ items[i] = Item("call", items[j].response, items[j].n)
    /\ \A i, j \in 1..Len(items) :
          items[i].kind \in {"call", "output"} /\ items[i] = items[j] => i = j

\* The calls that are left after k of them, and their outputs so far.
Left(k) == \A i \in 1..Len(calls) : calls[i] = Item("call", round, k + i)
Given(r) == \A i \in 1..Len(outputs) : outputs[i] = Item("output", r, i)

\* What the turn's cache has of a response, if it was completed.
Stored(r, k) == cache[provider][r] # << >> => Owes(cache[provider][r], r, k)

\* Nothing is cached for a response before it is completed.
Fresh ==
    /\ \A p \in Providers, r \in Rounds : r > round => cache[p][r] = << >>
    /\ stage = "asking" => cache[provider][round] = << >>
    /\ stage = "streaming" /\ ~stream.finished => cache[provider][round] = << >>

\* What the next request is made of: what the cache has of the response, and
\* an output for each of its calls.
Following ==
    /\ stage = "asking" /\ previous # 0 =>
          Len(outputs) > 0 /\ Given(previous) /\ Stored(previous, Len(outputs))
    /\ stage = "tools" =>
          /\ Len(outputs) + Len(calls) > 0
          /\ Left(Len(outputs)) /\ Given(round) /\ Stored(round, Len(outputs) + Len(calls))

\* The request owes no output, and the decoder has the calls it has seen.
Reading ==
    stage = "streaming" =>
        /\ outputs = << >> /\ Left(0)
        /\ Owes(request, round, 0)
        /\ round > 1 => \E i \in 1..Len(request) :
               request[i].kind = "call" /\ request[i].response = round - 1
        /\ api[provider] = "responses" => Asks(stream.items, round, Len(calls))
        /\ api[provider] = "chat" =>
              /\ Asks(stream.items, round, Len(stream.items))
              /\ \A i \in 1..Len(stream.items) : stream.items[i] = Item("call", round, i)
              /\ ~stream.finished => calls = << >>
        /\ previous = round => Stored(round, Len(calls))

\* The request has an output for every call, and what is read, called and
\* cached of the response makes the next one so.
Answering == Fresh /\ Following /\ Reading

\* The elements of two sequences put together.
LEMMA Joined ==
    ASSUME NEW S, NEW a \in Seq(S), NEW b \in Seq(S)
    PROVE  /\ Len(a) \in Nat /\ Len(b) \in Nat
           /\ a \o b \in Seq(S) /\ Len(a \o b) = Len(a) + Len(b)
           /\ \A i \in 1..Len(a) : (a \o b)[i] = a[i] /\ a[i] \in S
           /\ \A i \in 1..Len(b) : /\ (a \o b)[Len(a) + i] = b[i] /\ b[i] \in S
                                   /\ Len(a) + i \in 1..(Len(a) + Len(b))
           /\ \A i \in 1..(Len(a) + Len(b)) :
                 i \in 1..Len(a) \/ (\E j \in 1..Len(b) : i = Len(a) + j)
<1>1. /\ Len(a) \in Nat /\ Len(b) \in Nat
      /\ a \o b \in Seq(S) /\ Len(a \o b) = Len(a) + Len(b)
      /\ \A i \in 1..Len(a) : (a \o b)[i] = a[i] /\ a[i] \in S
  OBVIOUS
<1>2. \A m, n \in Nat : \A i \in 1..n : m + i \in 1..(m + n)
  OBVIOUS
<1>3. \A i \in 1..Len(b) : (a \o b)[Len(a) + i] = b[i] /\ b[i] \in S
  OBVIOUS
<1>4. ASSUME NEW i \in 1..(Len(a) + Len(b)), i \notin 1..Len(a)
      PROVE  \E j \in 1..Len(b) : i = Len(a) + j
  <2>1. i - Len(a) \in 1..Len(b) /\ i = Len(a) + (i - Len(a))
    BY <1>1, <1>4
  <2> QED
    BY <2>1
<1> QED
  BY <1>1, <1>2, <1>3, <1>4

\* The fields of an item.
LEMMA ItemIs ==
    /\ \A kind, r, n : /\ Item(kind, r, n).kind = kind /\ Item(kind, r, n).response = r
                       /\ Item(kind, r, n).n = n
    /\ \A i \in Items : i.response \in Nat /\ i.n \in Nat
  BY ProviderRoundsAssumption DEF Item, Items

\* The items of one response owe what they ask for.
LEMMA AsksOwes ==
    ASSUME NEW b \in Seq(Items), NEW r \in Nat, NEW k \in Nat, Asks(b, r, k)
    PROVE  Owes(b, r, k)
  BY DEF Asks, Owes

\* What a response asks for is owed after a conversation that owed nothing.
LEMMA OwesJoin ==
    ASSUME NEW a \in Seq(Items), NEW b \in Seq(Items), NEW r \in Nat, NEW k \in Nat,
           Owes(a, r, 0), Asks(b, r, k)
    PROVE  Owes(a \o b, r, k)
<1> DEFINE m == Len(a)
           n == Len(b)
           c == a \o b
<1>1. /\ m \in Nat /\ n \in Nat /\ Len(c) = m + n
      /\ \A i \in 1..m : c[i] = a[i] /\ a[i] \in Items
      /\ \A i \in 1..n : c[m + i] = b[i] /\ b[i] \in Items /\ m + i \in 1..(m + n)
      /\ \A i \in 1..(m + n) : i \in 1..m \/ (\E j \in 1..n : i = m + j)
  BY Joined
<1>2. \A i \in 1..m : i \in 1..(m + n)
  BY <1>1
<1>3. /\ \A i \in 1..m : a[i].kind = "call" =>
            /\ a[i].response < r
            /\ \E j \in 1..m : j > i /\ a[j] = Item("output", a[i].response, a[i].n)
      /\ \A j \in 1..m : a[j].kind = "output" =>
            /\ a[j].response < r
            /\ \E i \in 1..m : j > i /\ a[i] = Item("call", a[j].response, a[j].n)
      /\ \A i, j \in 1..m : a[i].kind \in {"call", "output"} /\ a[i] = a[j] => i = j
  <2>1. ASSUME NEW i \in 1..m, a[i].kind = "call"
        PROVE  /\ a[i].response < r
               /\ \E j \in 1..m : j > i /\ a[j] = Item("output", a[i].response, a[i].n)
    <3>1. a[i].n \notin 1..0
      OBVIOUS
    <3> QED
      BY <2>1, <3>1 DEF Owes
  <2>2. \A j \in 1..m : a[j].kind = "output" =>
            /\ a[j].response < r
            /\ \E i \in 1..m : j > i /\ a[i] = Item("call", a[j].response, a[j].n)
    BY DEF Owes
  <2>3. \A i, j \in 1..m : a[i].kind \in {"call", "output"} /\ a[i] = a[j] => i = j
    BY DEF Owes
  <2> QED
    BY <2>1, <2>2, <2>3
<1>4. /\ \A i \in 1..n : \/ b[i].kind = "text"
                         \/ b[i].kind = "call" /\ b[i].response = r /\ b[i].n \in 1..k
      /\ \A x \in 1..k : \E i \in 1..n : b[i] = Item("call", r, x)
      /\ \A i, j \in 1..n : b[i].kind = "call" /\ b[i] = b[j] => i = j
  BY DEF Asks
<1> HIDE DEF m, n, c
<1>5. ASSUME NEW i \in 1..(m + n), c[i].kind = "call"
      PROVE  \/ /\ c[i].response < r
                /\ \E j \in 1..(m + n) : j > i /\ c[j] = Item("output", c[i].response, c[i].n)
             \/ c[i].response = r /\ c[i].n \in 1..k
  <2>1. CASE i \in 1..m
    <3>1. c[i] = a[i]
      BY <1>1, <2>1
    <3>2. PICK j \in 1..m : j > i /\ a[j] = Item("output", a[i].response, a[i].n)
      BY <1>3, <1>5, <2>1, <3>1
    <3>3. j \in 1..(m + n) /\ c[j] = a[j]
      BY <1>1, <1>2, <3>2
    <3>4. c[i].response < r
      BY <1>3, <1>5, <2>1, <3>1
    <3> QED
      BY <3>1, <3>2, <3>3, <3>4
  <2>2. ASSUME NEW j \in 1..n, i = m + j PROVE c[i].response = r /\ c[i].n \in 1..k
    <3>1. c[i] = b[j]
      BY <1>1, <2>2
    <3> QED
      BY <1>4, <1>5, <3>1
  <2> QED
    BY <1>1, <2>1, <2>2
<1>6. \A x \in 1..k : \E i \in 1..(m + n) : c[i] = Item("call", r, x)
  <2> SUFFICES ASSUME NEW x \in 1..k PROVE \E i \in 1..(m + n) : c[i] = Item("call", r, x)
    OBVIOUS
  <2>1. PICK i \in 1..n : b[i] = Item("call", r, x)
    BY <1>4
  <2>2. m + i \in 1..(m + n) /\ c[m + i] = b[i]
    BY <1>1, <2>1
  <2> QED
    BY <2>1, <2>2
<1>7. ASSUME NEW j \in 1..(m + n), c[j].kind = "output"
      PROVE  /\ c[j].response < r
             /\ \E i \in 1..(m + n) : j > i /\ c[i] = Item("call", c[j].response, c[j].n)
  <2>1. j \in 1..m
    <3>1. ASSUME NEW i \in 1..n, j = m + i PROVE FALSE
      <4>1. c[j] = b[i]
        BY <1>1, <3>1
      <4> QED
        BY <1>4, <1>7, <4>1
    <3> QED
      BY <1>1, <3>1
  <2>2. c[j] = a[j]
    BY <1>1, <2>1
  <2>3. PICK i \in 1..m : j > i /\ a[i] = Item("call", a[j].response, a[j].n)
    BY <1>3, <1>7, <2>1, <2>2
  <2>4. i \in 1..(m + n) /\ c[i] = a[i] /\ c[j].response < r
    BY <1>1, <1>2, <1>3, <1>7, <2>1, <2>2, <2>3
  <2> QED
    BY <2>2, <2>3, <2>4
<1>8. ASSUME NEW i \in 1..(m + n), NEW j \in 1..(m + n),
             c[i].kind \in {"call", "output"}, c[i] = c[j]
      PROVE  i = j
  <2>1. ASSUME NEW x \in 1..m, NEW y \in 1..n, c[x] = c[m + y], c[x].kind \in {"call", "output"}
        PROVE  FALSE
    <3>1. c[x] = a[x] /\ c[m + y] = b[y] /\ a[x] \in Items
      BY <1>1
    <3>2. b[y].kind = "call" /\ b[y].response = r
      BY <1>4, <2>1, <3>1
    <3>3. a[x].kind = "call" /\ a[x].response = r
      BY <2>1, <3>1, <3>2
    <3>4. a[x].response < r
      BY <1>3, <3>3
    <3> QED
      BY <3>3, <3>4
  <2>2. CASE i \in 1..m /\ j \in 1..m
    BY <1>1, <1>3, <1>8, <2>2
  <2>3. CASE i \in 1..m /\ j \notin 1..m
    BY <1>1, <1>8, <2>1, <2>3
  <2>4. CASE i \notin 1..m /\ j \in 1..m
    BY <1>1, <1>8, <2>1, <2>4
  <2>5. CASE i \notin 1..m /\ j \notin 1..m
    <3>1. PICK x \in 1..n : i = m + x
      BY <1>1, <2>5
    <3>2. PICK y \in 1..n : j = m + y
      BY <1>1, <2>5
    <3>3. c[i] = b[x] /\ c[j] = b[y]
      BY <1>1, <3>1, <3>2
    <3>4. b[x].kind = "call" /\ b[x] = b[y]
      BY <1>4, <1>8, <3>3
    <3>5. x = y
      BY <1>4, <3>4
    <3> QED
      BY <3>1, <3>2, <3>5
  <2> QED
    BY <2>2, <2>3, <2>4, <2>5
<1> QED
  BY <1>1, <1>5, <1>6, <1>7, <1>8 DEF Owes, c

\* The elements of a sequence that is appended to.
LEMMA Appended ==
    ASSUME NEW S, NEW b \in Seq(S), NEW t \in S
    PROVE  /\ Len(b) \in Nat
           /\ Append(b, t) \in Seq(S) /\ Len(Append(b, t)) = Len(b) + 1
           /\ \A i \in 1..Len(b) : Append(b, t)[i] = b[i] /\ b[i] \in S /\ i \in 1..(Len(b) + 1)
           /\ Append(b, t)[Len(b) + 1] = t /\ Len(b) + 1 \in 1..(Len(b) + 1)
           /\ \A i \in 1..(Len(b) + 1) : i \in 1..Len(b) \/ i = Len(b) + 1
  OBVIOUS

\* A part of the text asks for nothing.
LEMMA AsksText ==
    ASSUME NEW b \in Seq(Items), NEW r \in Nat, NEW k \in Nat, Asks(b, r, k),
           NEW t \in Items, t.kind = "text"
    PROVE  Asks(Append(b, t), r, k)
<1> DEFINE n == Len(b)
           c == Append(b, t)
<1>1. /\ n \in Nat /\ Len(c) = n + 1
      /\ \A i \in 1..n : c[i] = b[i] /\ b[i] \in Items /\ i \in 1..(n + 1)
      /\ c[n + 1] = t /\ n + 1 \in 1..(n + 1)
      /\ \A i \in 1..(n + 1) : i \in 1..n \/ i = n + 1
  BY Appended
<1>2. /\ \A i \in 1..n : \/ b[i].kind = "text"
                         \/ b[i].kind = "call" /\ b[i].response = r /\ b[i].n \in 1..k
      /\ \A x \in 1..k : \E i \in 1..n : b[i] = Item("call", r, x)
      /\ \A i, j \in 1..n : b[i].kind = "call" /\ b[i] = b[j] => i = j
  BY DEF Asks
<1> HIDE DEF n, c
<1>3. \A i \in 1..(n + 1) : \/ c[i].kind = "text"
                            \/ c[i].kind = "call" /\ c[i].response = r /\ c[i].n \in 1..k
  <2> SUFFICES ASSUME NEW i \in 1..(n + 1)
               PROVE  \/ c[i].kind = "text"
                      \/ c[i].kind = "call" /\ c[i].response = r /\ c[i].n \in 1..k
    OBVIOUS
  <2>1. CASE i \in 1..n
    <3>1. c[i] = b[i]
      BY <1>1, <2>1
    <3> QED
      BY <1>2, <2>1, <3>1
  <2>2. CASE i = n + 1
    BY <1>1, <2>2
  <2> QED
    BY <1>1, <2>1, <2>2
<1>4. \A x \in 1..k : \E i \in 1..(n + 1) : c[i] = Item("call", r, x)
  <2> SUFFICES ASSUME NEW x \in 1..k PROVE \E i \in 1..(n + 1) : c[i] = Item("call", r, x)
    OBVIOUS
  <2>1. PICK i \in 1..n : b[i] = Item("call", r, x)
    BY <1>2
  <2>2. i \in 1..(n + 1) /\ c[i] = b[i]
    BY <1>1, <2>1
  <2> QED
    BY <2>1, <2>2
<1>5. \A i, j \in 1..(n + 1) : c[i].kind = "call" /\ c[i] = c[j] => i = j
  BY <1>1, <1>2
<1> QED
  BY <1>1, <1>3, <1>4, <1>5 DEF Asks, c

\* The next call is asked for once.
LEMMA AsksCall ==
    ASSUME NEW b \in Seq(Items), NEW r \in 0..MaxRounds, NEW k \in Nat, Asks(b, r, k)
    PROVE  Asks(Append(b, Item("call", r, k + 1)), r, k + 1)
<1> DEFINE t == Item("call", r, k + 1)
           n == Len(b)
           c == Append(b, t)
<1>0. t \in Items /\ t.kind = "call" /\ t.response = r /\ t.n = k + 1
  BY DEF Item, Items
<1>1. /\ n \in Nat /\ Len(c) = n + 1
      /\ \A i \in 1..n : c[i] = b[i] /\ b[i] \in Items /\ i \in 1..(n + 1)
      /\ c[n + 1] = t /\ n + 1 \in 1..(n + 1)
      /\ \A i \in 1..(n + 1) : i \in 1..n \/ i = n + 1
  BY <1>0, Appended
<1>2. /\ \A i \in 1..n : \/ b[i].kind = "text"
                         \/ b[i].kind = "call" /\ b[i].response = r /\ b[i].n \in 1..k
      /\ \A x \in 1..k : \E i \in 1..n : b[i] = Item("call", r, x)
      /\ \A i, j \in 1..n : b[i].kind = "call" /\ b[i] = b[j] => i = j
  BY DEF Asks
<1>3. /\ \A x \in 1..(k + 1) : x \in 1..k \/ x = k + 1
      /\ \A x \in 1..k : x \in 1..(k + 1) /\ x # k + 1
      /\ k + 1 \in 1..(k + 1)
  OBVIOUS
<1>4. t = Item("call", r, k + 1)
  OBVIOUS
<1> HIDE DEF n, c, t
<1>5. \A i \in 1..(n + 1) : \/ c[i].kind = "text"
                            \/ c[i].kind = "call" /\ c[i].response = r /\ c[i].n \in 1..(k + 1)
  BY <1>0, <1>1, <1>2, <1>3
<1>6. \A x \in 1..(k + 1) : \E i \in 1..(n + 1) : c[i] = Item("call", r, x)
  BY <1>1, <1>2, <1>3, <1>4
<1>7. \A i \in 1..n : c[i] # c[n + 1]
  <2> SUFFICES ASSUME NEW i \in 1..n, b[i] = t PROVE FALSE
    BY <1>1
  <2> QED
    BY <1>0, <1>2, <1>3
<1>8. \A i, j \in 1..(n + 1) : c[i].kind = "call" /\ c[i] = c[j] => i = j
  BY <1>1, <1>2, <1>7
<1> QED
  BY <1>1, <1>5, <1>6, <1>8 DEF Asks, c, t

\* A response that has said nothing, or only the text of a chat.
LEMMA AsksNothing ==
    ASSUME NEW r \in 0..MaxRounds
    PROVE  /\ Asks(<< >>, r, 0) /\ Asks(<<Item("text", r, 0)>>, r, 0)
           /\ Owes(<<Input>>, r, 0)
           /\ << >> \in Seq(Items) /\ <<Item("text", r, 0)>> \in Seq(Items)
<1>1. Item("text", r, 0) \in Items /\ Item("text", r, 0).kind = "text"
  BY DEF Item, Items
<1>2. Asks(<< >>, r, 0)
  BY DEF Asks
<1>3. Asks(<<Item("text", r, 0)>>, r, 0)
  BY <1>1 DEF Asks
<1>4. Input.kind = "input"
  BY DEF Input, Item
<1>5. Owes(<<Input>>, r, 0)
  BY <1>4 DEF Owes
<1> QED
  BY <1>1, <1>2, <1>3, <1>5

\* Outputs for all that is owed leave nothing owed.
LEMMA OwesAnswered ==
    ASSUME NEW a \in Seq(Items), NEW b \in Seq(Items), NEW r \in 0..MaxRounds,
           Owes(a, r, Len(b)), \A i \in 1..Len(b) : b[i] = Item("output", r, i)
    PROVE  /\ Owes(a \o b, r + 1, 0)
           /\ Len(b) > 0 => \E i \in 1..Len(a \o b) :
                 (a \o b)[i].kind = "call" /\ (a \o b)[i].response = r
<1> DEFINE m == Len(a)
           n == Len(b)
           c == a \o b
<1>1. /\ m \in Nat /\ n \in Nat /\ Len(c) = m + n
      /\ \A i \in 1..m : c[i] = a[i] /\ a[i] \in Items
      /\ \A i \in 1..n : c[m + i] = b[i] /\ b[i] \in Items /\ m + i \in 1..(m + n)
      /\ \A i \in 1..(m + n) : i \in 1..m \/ (\E j \in 1..n : i = m + j)
  BY Joined
<1>2. /\ \A i \in 1..m : i \in 1..(m + n)
      /\ \A i \in 1..m, j \in 1..n : m + j > i
  BY <1>1
<1>3. /\ \A i \in 1..m : a[i].kind = "call" =>
            \/ /\ a[i].response < r
               /\ \E j \in 1..m : j > i /\ a[j] = Item("output", a[i].response, a[i].n)
            \/ a[i].response = r /\ a[i].n \in 1..n
      /\ \A x \in 1..n : \E i \in 1..m : a[i] = Item("call", r, x)
      /\ \A j \in 1..m : a[j].kind = "output" =>
            /\ a[j].response < r
            /\ \E i \in 1..m : j > i /\ a[i] = Item("call", a[j].response, a[j].n)
      /\ \A i, j \in 1..m : a[i].kind \in {"call", "output"} /\ a[i] = a[j] => i = j
  BY DEF Owes
<1>4. \A i \in 1..n : b[i] = Item("output", r, i)
  OBVIOUS
<1>5. /\ \A i \in 1..n : b[i].kind = "output" /\ b[i].response = r /\ b[i].n = i
      /\ r < r + 1 /\ \A x \in Nat : x < r => x < r + 1
  BY <1>4, ItemIs
<1>6. \A x : ~(x \in 1..0)
  OBVIOUS
<1> HIDE DEF m, n, c
<1>7. ASSUME NEW i \in 1..(m + n), c[i].kind = "call"
      PROVE  /\ c[i].response < r + 1
             /\ \E j \in 1..(m + n) : j > i /\ c[j] = Item("output", c[i].response, c[i].n)
  <2>1. i \in 1..m /\ c[i] = a[i] /\ a[i] \in Items
    <3>1. ASSUME NEW x \in 1..n, i = m + x PROVE FALSE
      <4>1. c[i] = b[x]
        BY <1>1, <3>1
      <4> QED
        BY <1>5, <1>7, <4>1
    <3>2. i \in 1..m
      BY <1>1, <3>1
    <3> QED
      BY <1>1, <3>2
  <2>2. CASE /\ a[i].response < r
             /\ \E j \in 1..m : j > i /\ a[j] = Item("output", a[i].response, a[i].n)
    <3>1. PICK j \in 1..m : j > i /\ a[j] = Item("output", a[i].response, a[i].n)
      BY <2>2
    <3>2. j \in 1..(m + n) /\ c[j] = a[j]
      BY <1>1, <1>2, <3>1
    <3>3. c[i].response < r + 1
      BY <1>5, <2>1, <2>2, ItemIs
    <3> QED
      BY <2>1, <3>1, <3>2, <3>3
  <2>3. CASE a[i].response = r /\ a[i].n \in 1..n
    <3>1. PICK x \in 1..n : a[i].n = x
      BY <2>3
    <3>2. m + x \in 1..(m + n) /\ c[m + x] = Item("output", r, x) /\ m + x > i
      BY <1>1, <1>2, <1>4, <2>1, <3>1
    <3>3. c[i].response < r + 1
      BY <1>5, <2>1, <2>3
    <3> QED
      BY <2>1, <2>3, <3>1, <3>2, <3>3
  <2>4. a[i].kind = "call"
    BY <1>7, <2>1
  <2> QED
    BY <1>3, <2>1, <2>2, <2>3, <2>4
<1>8. ASSUME NEW j \in 1..(m + n), c[j].kind = "output"
      PROVE  /\ c[j].response < r + 1
             /\ \E i \in 1..(m + n) : j > i /\ c[i] = Item("call", c[j].response, c[j].n)
  <2>1. CASE j \in 1..m
    <3>1. c[j] = a[j] /\ a[j] \in Items /\ a[j].kind = "output"
      BY <1>1, <1>8, <2>1
    <3>2. a[j].response < r
      BY <1>3, <2>1, <3>1
    <3>3. PICK i \in 1..m : j > i /\ a[i] = Item("call", a[j].response, a[j].n)
      BY <1>3, <2>1, <3>1
    <3>4. i \in 1..(m + n) /\ c[i] = a[i]
      BY <1>1, <1>2, <3>3
    <3>5. c[j].response < r + 1
      BY <1>5, <3>1, <3>2, ItemIs
    <3> QED
      BY <3>1, <3>3, <3>4, <3>5
  <2>2. ASSUME NEW x \in 1..n, j = m + x
        PROVE  /\ c[j].response < r + 1
               /\ \E i \in 1..(m + n) : j > i /\ c[i] = Item("call", c[j].response, c[j].n)
    <3>1. c[j] = b[x] /\ b[x].response = r /\ b[x].n = x
      BY <1>1, <1>5, <2>2
    <3>2. PICK i \in 1..m : a[i] = Item("call", r, x)
      BY <1>3, <2>2
    <3>3. i \in 1..(m + n) /\ c[i] = a[i] /\ j > i
      BY <1>1, <1>2, <2>2, <3>2
    <3>4. c[j].response < r + 1
      BY <1>5, <3>1
    <3> QED
      BY <3>1, <3>2, <3>3, <3>4
  <2> QED
    BY <1>1, <2>1, <2>2
<1>9. ASSUME NEW i \in 1..(m + n), NEW j \in 1..(m + n),
             c[i].kind \in {"call", "output"}, c[i] = c[j]
      PROVE  i = j
  <2>1. ASSUME NEW x \in 1..m, NEW y \in 1..n, c[x] = c[m + y] PROVE FALSE
    <3>1. c[x] = a[x] /\ c[m + y] = b[y] /\ a[x] \in Items
      BY <1>1
    <3>2. a[x].kind = "output" /\ a[x].response = r
      BY <1>5, <2>1, <3>1
    <3>3. a[x].response < r
      BY <1>3, <3>2
    <3> QED
      BY <3>2, <3>3
  <2>2. CASE i \in 1..m /\ j \in 1..m
    BY <1>1, <1>3, <1>9, <2>2
  <2>3. CASE i \in 1..m /\ j \notin 1..m
    BY <1>1, <1>9, <2>1, <2>3
  <2>4. CASE i \notin 1..m /\ j \in 1..m
    BY <1>1, <1>9, <2>1, <2>4
  <2>5. CASE i \notin 1..m /\ j \notin 1..m
    <3>1. PICK x \in 1..n : i = m + x
      BY <1>1, <2>5
    <3>2. PICK y \in 1..n : j = m + y
      BY <1>1, <2>5
    <3>3. c[i] = b[x] /\ c[j] = b[y]
      BY <1>1, <3>1, <3>2
    <3>4. b[x].n = x /\ b[y].n = y
      BY <1>5
    <3> QED
      BY <1>9, <3>1, <3>2, <3>3, <3>4
  <2> QED
    BY <2>2, <2>3, <2>4, <2>5
<1>10. n > 0 => \E i \in 1..(m + n) : c[i].kind = "call" /\ c[i].response = r
  <2> SUFFICES ASSUME n > 0
               PROVE  \E i \in 1..(m + n) : c[i].kind = "call" /\ c[i].response = r
    OBVIOUS
  <2>1. 1 \in 1..n
    BY <1>1
  <2>2. PICK i \in 1..m : a[i] = Item("call", r, 1)
    BY <1>3, <2>1
  <2>3. i \in 1..(m + n) /\ c[i] = a[i]
    BY <1>1, <1>2, <2>2
  <2> QED
    BY <2>2, <2>3, ItemIs
<1>11. Owes(c, r + 1, 0)
  BY <1>1, <1>6, <1>7, <1>8, <1>9 DEF Owes
<1> QED
  BY <1>1, <1>10, <1>11 DEF c, n

\* A step that fails the turn, or ends it, leaves nothing to answer.
LEMMA Over ==
    ASSUME Answering, stage' \notin {"asking", "streaming", "tools"}, UNCHANGED <<cache, round>>
    PROVE  Answering'
  BY DEF Answering, Fresh, Following, Reading

\* The requests are answered by every step.
LEMMA AnsweringStep == Typed /\ Answering /\ [RoundsNext]_roundsVars => Answering'
<1> SUFFICES ASSUME RoundsTypeOK, Progress, Answering, [RoundsNext]_roundsVars PROVE Answering'
  BY DEF Typed
<1> USE ProviderRoundsAssumption DEF Providers, Rounds
<1>0. /\ round \in 0..MaxRounds /\ MaxRounds \in Nat /\ previous \in 0..MaxRounds
      /\ stage # "idle" => provider \in Providers /\ round \in Rounds
      /\ stream.items \in Seq(Items) /\ calls \in Seq(Items) /\ outputs \in Seq(Items)
      /\ request \in Seq(Items) /\ Len(stream.items) \in Nat /\ Len(calls) \in Nat
      /\ Len(outputs) \in Nat
  <2>1. /\ round \in 0..MaxRounds /\ MaxRounds \in Nat /\ previous \in 0..MaxRounds
        /\ stream.items \in Seq(Items) /\ calls \in Seq(Items) /\ outputs \in Seq(Items)
        /\ request \in Seq(Items)
    BY DEF RoundsTypeOK
  <2>2. stage # "idle" => provider \in Providers /\ round \in Rounds
    BY DEF Progress
  <2>3. Len(stream.items) \in Nat /\ Len(calls) \in Nat /\ Len(outputs) \in Nat
    BY <2>1
  <2> QED
    BY <2>1, <2>2, <2>3
<1>a. /\ api[provider] \in {"responses", "chat"} \/ stage = "idle"
      /\ \A p \in Providers, r \in Rounds : cache[p][r] \in Seq(Items)
  BY <1>0 DEF RoundsTypeOK
<1>1. CASE Begin
  <2>1. /\ stage' = "asking" /\ round = 0 /\ round' = 1 /\ previous = 0 /\ provider' \in Providers
        /\ UNCHANGED <<previous, cache>>
    BY <1>1 DEF Begin, RoundsTypeOK, Progress
  <2>2. Fresh'
    BY <2>1 DEF Answering, Fresh
  <2> QED
    BY <2>1, <2>2 DEF Answering, Following, Reading
<1>2. CASE Reload
  BY <1>2 DEF Reload, Answering, Fresh, Following, Reading, Left, Given, Stored
<1>3. CASE Ask
  <2>1. stage = "asking" /\ calls = << >> /\ previous = round - 1 /\ round \in Rounds
    BY <1>3, <1>0 DEF Ask, Progress
  <2>2. CASE /\ Hit
             /\ stage' = "streaming"
             /\ request' = Mapped
             /\ outputs' = << >>
             /\ stream' = Closed
    <3>1. /\ UNCHANGED <<api, provider, round, previous, cache, calls>>
          /\ stream'.items = << >> /\ ~stream'.finished
      BY <1>3, <2>2 DEF Ask, Closed
    <3>2. /\ Owes(request', round, 0)
          /\ round > 1 => \E i \in 1..Len(request') :
                request'[i].kind = "call" /\ request'[i].response = round - 1
      <4>1. CASE previous = 0
        <5>1. request' = <<Input>> /\ ~(round > 1)
          BY <2>1, <2>2, <4>1 DEF Mapped
        <5> QED
          BY <1>0, <5>1, AsksNothing
      <4>2. CASE previous # 0
        <5> DEFINE kept == cache[provider][previous]
        <5>1. previous \in Rounds /\ previous + 1 = round
          BY <1>0, <2>1, <4>2
        <5>2. request' = kept \o outputs /\ kept # << >>
          BY <2>2, <4>2 DEF Mapped, Hit, Client
        <5>3. Len(outputs) > 0 /\ Given(previous) /\ Stored(previous, Len(outputs))
          BY <2>1, <4>2 DEF Answering, Following
        <5>4. Owes(kept, previous, Len(outputs))
          BY <5>2, <5>3 DEF Stored
        <5>5. kept \in Seq(Items) /\ \A i \in 1..Len(outputs) : outputs[i] = Item("output", previous, i)
          BY <1>0, <1>a, <2>1, <5>1, <5>3 DEF Given
        <5> HIDE DEF kept
        <5>6. /\ Owes(kept \o outputs, previous + 1, 0)
              /\ Len(outputs) > 0 => \E i \in 1..Len(kept \o outputs) :
                    (kept \o outputs)[i].kind = "call" /\ (kept \o outputs)[i].response = previous
          <6>1. previous \in 0..MaxRounds /\ outputs \in Seq(Items)
            BY <1>0
          <6>2. kept \in Seq(Items)
            BY <5>5
          <6>3. \A i \in 1..Len(outputs) : outputs[i] = Item("output", previous, i)
            BY <5>5
          <6> QED
            BY <5>4, <6>1, <6>2, <6>3, OwesAnswered
        <5>7. previous = round - 1
          BY <2>1
        <5> QED
          BY <5>1, <5>2, <5>3, <5>6, <5>7
      <4> QED
        BY <4>1, <4>2
    <3>3. Fresh'
      BY <2>1, <2>2, <3>1 DEF Answering, Fresh
    <3>4. Asks(stream'.items, round, 0) /\ Len(stream'.items) = 0 /\ Len(calls) = 0
      BY <1>0, <2>1, <3>1, AsksNothing
    <3>5. previous # round
      BY <1>0, <2>1
    <3>6. Left(0)'
      BY <2>1, <3>1 DEF Left
    <3>7. Reading'
      BY <1>a, <2>1, <2>2, <3>1, <3>2, <3>4, <3>5, <3>6 DEF Reading
    <3> QED
      BY <2>2, <3>3, <3>7 DEF Answering, Following
  <2>3. CASE ~Hit /\ Fails("miss")
    BY <1>3, <2>3, Over DEF Ask, Fails
  <2> QED
    BY <1>3, <2>2, <2>3 DEF Ask
<1>4. CASE Created
  <2>1. /\ UNCHANGED <<api, provider, round, request, outputs, stage, previous, cache, calls>>
        /\ stream'.items = stream.items /\ stream'.finished = stream.finished
    BY <1>4 DEF Created, Decode, RoundsTypeOK
  <2>2. stage = "streaming"
    BY <1>4 DEF Created, Streaming
  <2> QED
    BY <2>1, <2>2 DEF Answering, Fresh, Following, Reading, Left, Stored
<1>5. ASSUME NEW n \in 1..MaxParts, TextDelta(n) PROVE Answering'
  <2>1. /\ UNCHANGED <<api, provider, round, request, outputs, stage, previous, cache, calls>>
        /\ stream'.items = stream.items /\ stream'.finished = stream.finished
    BY <1>5 DEF TextDelta, Decode, RoundsTypeOK
  <2>2. stage = "streaming"
    BY <1>5 DEF TextDelta
  <2> QED
    BY <2>1, <2>2 DEF Answering, Fresh, Following, Reading, Left, Stored
<1>6. ASSUME NEW n \in 1..MaxParts, TextDone(n) PROVE Answering'
  <2> DEFINE part == Item("text", round, n)
  <2>1. stage = "streaming" /\ api[provider] = "responses" /\ ~stream.finished
    BY <1>6 DEF TextDone, Streaming
  <2>2. /\ UNCHANGED <<api, provider, round, request, outputs, stage, previous, cache, calls>>
        /\ stream'.items = Append(stream.items, part) /\ stream'.finished = stream.finished
    BY <1>6 DEF TextDone, Decode, RoundsTypeOK
  <2>3. part \in Items /\ part.kind = "text"
    BY <1>0, <2>1 DEF Item, Items
  <2>4. Asks(stream.items, round, Len(calls))
    BY <2>1 DEF Answering, Reading
  <2>5. Asks(stream'.items, round, Len(calls))
    <3> HIDE DEF part
    <3>1. Asks(Append(stream.items, part), round, Len(calls))
      BY <1>0, <2>3, <2>4, AsksText
    <3> QED
      BY <2>2, <3>1
  <2>6. UNCHANGED <<api, provider, round, request, outputs, stage, previous, cache, calls>>
    BY <2>2
  <2>7. ~stream'.finished
    BY <2>1, <2>2
  <2> QED
    BY <2>1, <2>5, <2>6, <2>7 DEF Answering, Fresh, Following, Reading, Left, Stored
<1>7. CASE CallDone
  <2> DEFINE item == Item("call", round, Len(calls) + 1)
  <2>1. stage = "streaming" /\ api[provider] = "responses" /\ ~stream.finished /\ round \in Rounds
    BY <1>0, <1>7 DEF CallDone, Streaming
  <2>2. CASE /\ previous' = round
             /\ calls' = Append(calls, item)
             /\ Decode([stream EXCEPT !.items = Append(@, item)])
             /\ UNCHANGED <<stage, failure>>
    <3>1. item \in Items
      BY <1>0, <2>1 DEF Item, Items
    <3>2. UNCHANGED <<api, provider, round, request, outputs, stage, cache>>
      BY <1>7, <2>2 DEF CallDone, Decode
    <3>3. stream'.items = Append(stream.items, item) /\ ~stream'.finished
      BY <2>1, <2>2 DEF Decode, RoundsTypeOK
    <3>4. Len(calls') = Len(calls) + 1
      BY <1>0, <2>2, <3>1
    <3>5. Asks(stream'.items, round, Len(calls'))
      <4>1. Asks(stream.items, round, Len(calls))
        BY <2>1 DEF Answering, Reading
      <4>2. Asks(Append(stream.items, item), round, Len(calls) + 1)
        BY <1>0, <4>1, AsksCall
      <4> QED
        BY <3>3, <3>4, <4>2
    <3>6. Left(0)'
      <4>1. \A i \in 1..Len(calls) : calls[i] = Item("call", round, 0 + i)
        BY <2>1 DEF Answering, Reading, Left
      <4>2. ASSUME NEW i \in 1..Len(calls') PROVE calls'[i] = Item("call", round, 0 + i)
        <5>1. CASE i \in 1..Len(calls)
          <6>1. calls'[i] = calls[i]
            BY <1>0, <2>2, <3>1, <5>1
          <6> QED
            BY <4>1, <5>1, <6>1
        <5>2. CASE i = Len(calls) + 1
          <6>1. calls'[i] = item /\ 0 + i = Len(calls) + 1
            BY <1>0, <2>2, <3>1, <5>2
          <6> QED
            BY <6>1
        <5> QED
          BY <1>0, <3>4, <5>1, <5>2
      <4> QED
        BY <3>2, <4>2 DEF Left
    <3>7. cache[provider][round] = << >>
      BY <2>1 DEF Answering, Fresh
    <3>8. Fresh' /\ Following'
      BY <2>1, <3>2, <3>7 DEF Answering, Fresh, Following
    <3>9. Reading'
      BY <2>1, <3>2, <3>5, <3>6, <3>7 DEF Answering, Reading, Stored
    <3> QED
      BY <3>8, <3>9 DEF Answering
  <2>3. CASE Fails("upstream") /\ Decode(stream) /\ UNCHANGED <<previous, calls>>
    BY <1>7, <2>3, Over DEF CallDone, Fails, Decode
  <2> QED
    BY <1>7, <2>2, <2>3 DEF CallDone
<1>8. CASE Completed
  <2>1. stage = "streaming" /\ api[provider] = "responses" /\ ~stream.finished /\ round \in Rounds
        /\ provider \in Providers
    BY <1>0, <1>8, CompletedDoes
  <2>2. UNCHANGED <<api, provider, round, request, outputs, stage, previous, calls>>
    BY <1>0, <1>8, CompletedDoes
  <2>3. stream'.items = stream.items /\ stream'.finished
    BY <1>0, <1>8, CompletedDoes
  <2>4. /\ cache'[provider][round] \in {stream.items, cache[provider][round]}
        /\ \A p \in Providers, r \in Rounds : r # round => cache'[p][r] = cache[p][r]
    <3>1. CASE Cached(stream.items)
      BY <2>1, <3>1 DEF Cached, RoundsTypeOK
    <3>2. CASE cache' = cache
      BY <3>2
    <3> QED
      BY <1>0, <1>8, <3>1, <3>2, CompletedDoes
  <2>5. Asks(stream.items, round, Len(calls))
    BY <2>1 DEF Answering, Reading
  <2>6. Owes(stream.items, round, Len(calls))
    BY <1>0, <2>5, AsksOwes
  <2>7. Fresh' /\ Following'
    <3>1. ASSUME NEW p \in Providers, NEW r \in Rounds, r > round PROVE cache'[p][r] = << >>
      <4>1. r # round
        BY <2>1, <3>1 DEF Rounds
      <4>2. cache[p][r] = << >>
        BY <3>1 DEF Answering, Fresh
      <4> QED
        BY <2>4, <4>1, <4>2
    <3> QED
      BY <2>1, <2>2, <2>3, <3>1 DEF Fresh, Following
  <2>8. Reading'
    BY <2>1, <2>2, <2>3, <2>4, <2>5, <2>6 DEF Answering, Reading, Left, Stored
  <2> QED
    BY <2>7, <2>8 DEF Answering
<1>9. CASE DraftDelta
  <2> DEFINE item == Item("call", round, Len(stream.items) + 1)
  <2>1. stage = "streaming" /\ api[provider] = "chat" /\ ~stream.finished /\ round \in Rounds
    BY <1>0, <1>9 DEF DraftDelta, Streaming
  <2>2. UNCHANGED <<api, provider, round, request, outputs, stage, previous, cache, calls>>
    BY <1>9 DEF DraftDelta, Decode
  <2>3. stream'.items = Append(stream.items, item) /\ ~stream'.finished
    BY <1>9, <2>1 DEF DraftDelta, Decode, RoundsTypeOK
  <2>4. item \in Items
    BY <1>0, <2>1 DEF Item, Items
  <2>5. Len(stream'.items) = Len(stream.items) + 1
    BY <1>0, <2>3, <2>4
  <2>6. Asks(stream'.items, round, Len(stream'.items))
    <3>1. Asks(stream.items, round, Len(stream.items))
      BY <2>1 DEF Answering, Reading
    <3>2. Asks(Append(stream.items, item), round, Len(stream.items) + 1)
      BY <1>0, <3>1, AsksCall
    <3> QED
      BY <2>3, <2>5, <3>2
  <2>7. ASSUME NEW i \in 1..Len(stream'.items) PROVE stream'.items[i] = Item("call", round, i)
    <3>1. CASE i \in 1..Len(stream.items)
      <4>1. stream'.items[i] = stream.items[i]
        BY <1>0, <2>3, <2>4, <3>1
      <4> QED
        BY <2>1, <3>1, <4>1 DEF Answering, Reading
    <3>2. CASE i = Len(stream.items) + 1
      <4>1. stream'.items[i] = item
        BY <1>0, <2>3, <2>4, <3>2
      <4> QED
        BY <3>2, <4>1
    <3> QED
      BY <1>0, <2>5, <3>1, <3>2
  <2>8. cache[provider][round] = << >> /\ calls = << >>
    BY <2>1 DEF Answering, Fresh, Reading
  <2>9. Reading'
    BY <2>1, <2>2, <2>3, <2>6, <2>7, <2>8 DEF Answering, Reading, Left, Stored
  <2>10. Fresh' /\ Following'
    BY <2>1, <2>2, <2>8 DEF Answering, Fresh, Following
  <2> QED
    BY <2>9, <2>10 DEF Answering
<1>10. CASE Finish
  <2>1. stage = "streaming" /\ api[provider] = "chat" /\ ~stream.finished /\ round \in Rounds
        /\ provider \in Providers
    BY <1>0, <1>10 DEF Finish, Streaming
  <2>2. /\ Asks(stream.items, round, Len(stream.items))
        /\ \A i \in 1..Len(stream.items) : stream.items[i] = Item("call", round, i)
        /\ calls = << >> /\ cache[provider][round] = << >> /\ Owes(request, round, 0)
    BY <2>1 DEF Answering, Fresh, Reading
  <2>3. CASE /\ previous' = round
             /\ calls' = stream.items
             /\ Cached(request \o << Item("text", round, 0) >> \o stream.items)
             /\ Decode([stream EXCEPT !.finished = TRUE, !.kept = TRUE])
             /\ UNCHANGED <<stage, failure>>
    <3> DEFINE said == << Item("text", round, 0) >>
               spoken == request \o said
               all == spoken \o stream.items
    <3>1. said \in Seq(Items) /\ Asks(said, round, 0)
      BY <1>0, AsksNothing
    <3>2. spoken \in Seq(Items) /\ Owes(spoken, round, 0)
      <4> HIDE DEF said
      <4>1. spoken \in Seq(Items)
        BY <1>0, <3>1
      <4>2. Owes(spoken, round, 0)
        BY <1>0, <2>2, <3>1, OwesJoin
      <4> QED
        BY <4>1, <4>2
    <3>3. Owes(all, round, Len(stream.items))
      <4> HIDE DEF spoken
      <4> QED
        BY <1>0, <2>2, <3>2, OwesJoin
    <3>4. Cached(all)
      BY <2>3
    <3> HIDE DEF all
    <3>5. /\ cache'[provider][round] = all
          /\ \A p \in Providers, r \in Rounds : r # round => cache'[p][r] = cache[p][r]
      BY <2>1, <3>4 DEF Cached, RoundsTypeOK
    <3>6. UNCHANGED <<api, provider, round, request, outputs, stage>>
      BY <2>3 DEF Decode
    <3>7. stream'.items = stream.items /\ stream'.finished
      BY <2>3 DEF Decode, RoundsTypeOK
    <3>8. calls' = stream.items
      BY <2>3
    <3>9. Left(0)'
      <4>1. \A i \in 1..Len(calls') : calls'[i] = Item("call", round, i) /\ 0 + i = i
        BY <2>2, <3>8
      <4> QED
        BY <3>6, <4>1 DEF Left
    <3>10. Fresh' /\ Following'
      <4>1. ASSUME NEW p \in Providers, NEW r \in Rounds, r > round PROVE cache'[p][r] = << >>
        <5>1. r # round
          BY <1>0, <4>1
        <5>2. cache'[p][r] = cache[p][r]
          BY <3>5, <5>1
        <5>3. cache[p][r] = << >>
          BY <4>1 DEF Answering, Fresh
        <5> QED
          BY <5>2, <5>3
      <4> QED
        BY <2>1, <3>6, <3>7, <4>1 DEF Fresh, Following
    <3>11. Stored(round, Len(calls))'
      BY <3>3, <3>5, <3>6, <3>8 DEF Stored
    <3>12. Reading'
      BY <2>1, <2>2, <3>6, <3>7, <3>9, <3>11 DEF Answering, Reading
    <3> QED
      BY <3>10, <3>12 DEF Answering
  <2>4. CASE /\ Decode([stream EXCEPT !.finished = TRUE])
             /\ UNCHANGED <<stage, previous, cache, calls, failure>>
    <3>1. UNCHANGED <<api, provider, round, request, outputs, stage, previous, cache, calls>>
      BY <2>4 DEF Decode
    <3>2. stream'.items = stream.items /\ stream'.finished
      BY <2>4 DEF Decode, RoundsTypeOK
    <3> QED
      BY <2>1, <3>1, <3>2 DEF Answering, Fresh, Following, Reading, Left, Stored
  <2>5. CASE Fails("upstream") /\ Decode(stream) /\ UNCHANGED <<previous, cache, calls>>
    BY <2>5, Over DEF Fails, Decode
  <2> QED
    BY <1>10, <2>3, <2>4, <2>5 DEF Finish
<1>11. CASE Broken
  BY <1>11, Over DEF Broken, Fails, Decode
<1>12. CASE ResponseEnds
  <2>1. CASE calls # << >> /\ stage' = "tools"
    <3>1. /\ UNCHANGED <<api, provider, round, cache, stream, calls, outputs>>
          /\ stage = "streaming"
      BY <1>12 DEF ResponseEnds
    <3>2. previous = round /\ Len(calls) > 0 /\ outputs = << >> /\ Len(outputs) = 0
      BY <1>0, <2>1, <3>1 DEF Progress, Answering, Reading
    <3>3. Len(outputs) + Len(calls) = Len(calls)
      BY <1>0, <3>2
    <3>4. Left(0) /\ Stored(round, Len(calls))
      BY <3>1, <3>2 DEF Answering, Reading
    <3>5. Left(Len(outputs))' /\ Given(round)' /\ Stored(round, Len(outputs) + Len(calls))'
      BY <3>1, <3>2, <3>3, <3>4 DEF Left, Given, Stored
    <3>6. Following'
      BY <2>1, <3>1, <3>2, <3>3, <3>5 DEF Following
    <3> QED
      BY <2>1, <3>1, <3>6 DEF Answering, Fresh, Reading
  <2>2. CASE stage' \in {"answered", "failed"}
    BY <1>12, <2>2, Over DEF ResponseEnds
  <2> QED
    BY <1>12, <2>1, <2>2 DEF ResponseEnds, Fails
<1>13. CASE CallTool
  <2>1. stage = "tools" /\ calls # << >> /\ UNCHANGED <<provider, round, cache>>
    BY <1>13 DEF CallTool
  <2>2. CASE /\ outputs' = Append(outputs, Answered)
             /\ calls' = Tail(calls)
             /\ UNCHANGED <<stage, failure, storeFaults>>
    <3> DEFINE k == Len(outputs)
    <3>1. /\ Left(k) /\ Given(round) /\ Stored(round, k + Len(calls))
      BY <2>1 DEF Answering, Following
    <3>2. 1 \in 1..Len(calls) /\ Head(calls) = calls[1] /\ Len(calls) > 0
      BY <1>0, <2>1
    <3>3. Head(calls) = Item("call", round, k + 1)
      BY <3>1, <3>2 DEF Left
    <3>4. Answered = Item("output", round, k + 1)
      BY <3>3, ItemIs DEF Answered
    <3>5. Item("output", round, k + 1) \in Items
      BY <1>0 DEF Item, Items
    <3>6. /\ Len(outputs') = k + 1
          /\ \A i \in 1..k : outputs'[i] = outputs[i]
          /\ outputs'[k + 1] = Item("output", round, k + 1)
          /\ Len(calls') + 1 = Len(calls)
          /\ \A i \in 1..Len(calls') : calls'[i] = calls[i + 1] /\ i + 1 \in 1..Len(calls)
      BY <1>0, <2>1, <2>2, <3>4, <3>5
    <3>7. Given(round)'
      <4>1. ASSUME NEW i \in 1..Len(outputs') PROVE outputs'[i] = Item("output", round, i)
        <5>1. CASE i \in 1..k
          BY <3>1, <3>6, <5>1 DEF Given
        <5>2. CASE i = k + 1
          BY <3>6, <5>2
        <5> QED
          BY <1>0, <3>6, <5>1, <5>2
      <4> QED
        BY <2>1, <4>1 DEF Given
    <3>8. Left(Len(outputs))'
      <4>1. ASSUME NEW i \in 1..Len(calls') PROVE calls'[i] = Item("call", round, Len(outputs') + i)
        <5>1. calls'[i] = calls[i + 1] /\ i + 1 \in 1..Len(calls)
          BY <3>6
        <5>2. calls[i + 1] = Item("call", round, k + (i + 1))
          BY <3>1, <5>1 DEF Left
        <5>3. k + (i + 1) = Len(outputs') + i
          <6>1. Len(outputs') = k + 1 /\ k \in Nat /\ i \in Int
            BY <1>0, <3>6
          <6> QED
            BY <6>1
        <5> QED
          BY <5>1, <5>2, <5>3
      <4> QED
        BY <2>1, <4>1 DEF Left
    <3>9. /\ Len(outputs') + Len(calls') = k + Len(calls) /\ Len(outputs') + Len(calls') > 0
      <4>1. Len(outputs') = k + 1 /\ k \in Nat /\ Len(calls') + 1 = Len(calls) /\ Len(calls) \in Nat
            /\ Len(calls') \in Int
        <5>1. calls' \in Seq(Items)
          BY <1>0, <2>1, <2>2
        <5>2. Len(calls') \in Nat
          BY <5>1
        <5> QED
          BY <1>0, <3>6, <5>2
      <4> QED
        BY <4>1
    <3>10. Stored(round, Len(outputs) + Len(calls))'
      BY <2>1, <3>1, <3>9 DEF Stored
    <3>11. Following'
      BY <2>1, <2>2, <3>7, <3>8, <3>9, <3>10 DEF Following
    <3> QED
      BY <2>1, <2>2, <3>11 DEF Answering, Fresh, Reading
  <2>3. CASE Fails("store")
    BY <2>1, <2>3, Over DEF Fails
  <2> QED
    BY <1>13, <2>2, <2>3 DEF CallTool
<1>14. CASE NextRound
  <2>1. /\ stage = "tools" /\ stage' = "asking" /\ round' = round + 1 /\ calls = << >>
        /\ UNCHANGED <<provider, previous, cache, outputs>>
    BY <1>14 DEF NextRound
  <2>2. previous = round /\ round < MaxRounds /\ round + 1 \in Rounds /\ provider \in Providers
    BY <1>0, <2>1 DEF Progress
  <2>3. Len(outputs) > 0 /\ Given(round) /\ Stored(round, Len(outputs))
    <3>1. Len(calls) = 0 /\ Len(outputs) + Len(calls) = Len(outputs)
      BY <1>0, <2>1
    <3> QED
      BY <2>1, <3>1 DEF Answering, Following
  <2>4. \A p \in Providers, r \in Rounds : r > round => cache[p][r] = << >>
    BY DEF Answering, Fresh
  <2>5. Fresh'
    <3>1. cache[provider][round + 1] = << >>
      BY <1>0, <2>2, <2>4
    <3>2. \A p \in Providers, r \in Rounds : r > round + 1 => cache[p][r] = << >>
      BY <1>0, <2>4
    <3> QED
      BY <2>1, <3>1, <3>2 DEF Fresh
  <2>6. Given(previous)' /\ Stored(previous, Len(outputs))'
    BY <2>1, <2>2, <2>3 DEF Given, Stored
  <2> QED
    BY <2>1, <2>3, <2>5, <2>6 DEF Answering, Following, Reading
<1>15. CASE UNCHANGED roundsVars
  BY <1>15 DEF roundsVars, Answering, Fresh, Following, Reading, Left, Given, Stored
<1> QED
  BY <1>1, <1>2, <1>3, <1>4, <1>5, <1>6, <1>7, <1>8, <1>9, <1>10, <1>11, <1>12, <1>13,
     <1>14, <1>15 DEF RoundsNext, Loop, Gateway

\* An output and its call are compared field by field.
LEMMA OutputOf ==
    ASSUME NEW call \in Items, NEW output \in Items
    PROVE  /\ output = [call EXCEPT !.kind = "output"]
                <=> output = Item("output", call.response, call.n)
           /\ call.kind = "call" /\ output.kind = "output" =>
                (output = Item("output", call.response, call.n)
                    <=> call = Item("call", output.response, output.n))
  BY DEF Item, Items

\* The items a request answers with an output, and those that are outputs.
LEMMA Places ==
    ASSUME RoundsTypeOK
    PROVE  /\ request \in Seq(Items)
           /\ \A i \in 1..Len(request) : request[i] \in Items
           /\ At("call") = {i \in 1..Len(request) : request[i].kind = "call"}
           /\ At("output") = {i \in 1..Len(request) : request[i].kind = "output"}
  BY DEF RoundsTypeOK, At

\* A request that owes nothing to its round, and has a call of the one
\* before, is what the gateway asks for.
LEMMA OwesNothing == RoundsTypeOK /\ Progress /\ Reading => EveryCallAnswered
<1> SUFFICES ASSUME RoundsTypeOK, Progress, Reading, stage = "streaming", previous # 0, previous < round
             PROVE  /\ \E i \in At("call") : request[i].response = previous
                    /\ \A i \in At("call") : \E j \in At("output") :
                          j > i /\ request[j] = [request[i] EXCEPT !.kind = "output"]
                    /\ \A j \in At("output") : \E i \in At("call") :
                          j > i /\ request[j] = [request[i] EXCEPT !.kind = "output"]
                    /\ \A i, j \in At("call") \union At("output") :
                          request[i] = request[j] => i = j
  BY DEF EveryCallAnswered
<1> DEFINE n == Len(request)
<1>1. /\ \A i \in 1..n : request[i] \in Items
      /\ At("call") = {i \in 1..n : request[i].kind = "call"}
      /\ At("output") = {i \in 1..n : request[i].kind = "output"}
  BY Places
<1>2. previous = round - 1 /\ round > 1
  BY ProviderRoundsAssumption DEF Progress, RoundsTypeOK, Rounds
<1>3. \E i \in 1..n : request[i].kind = "call" /\ request[i].response = round - 1
  BY <1>2 DEF Reading
<1>4. Owes(request, round, 0)
  BY DEF Reading
<1>5. \A x : ~(x \in 1..0)
  OBVIOUS
<1>6. /\ \A i \in 1..n : request[i].kind = "call" => \E j \in 1..n :
            j > i /\ request[j] = Item("output", request[i].response, request[i].n)
      /\ \A j \in 1..n : request[j].kind = "output" => \E i \in 1..n :
            j > i /\ request[i] = Item("call", request[j].response, request[j].n)
      /\ \A i, j \in 1..n :
            request[i].kind \in {"call", "output"} /\ request[i] = request[j] => i = j
  BY <1>4, <1>5 DEF Owes
<1> HIDE DEF n
<1>7. ASSUME NEW i \in 1..n, NEW j \in 1..n, request[i].kind = "call",
             request[j].kind = "output",
             \/ request[j] = Item("output", request[i].response, request[i].n)
             \/ request[i] = Item("call", request[j].response, request[j].n)
      PROVE  request[j] = [request[i] EXCEPT !.kind = "output"]
  <2> DEFINE call == request[i]
             output == request[j]
  <2>1. call \in Items /\ output \in Items
    BY <1>1
  <2>2. call.kind = "call" /\ output.kind = "output"
    BY <1>7
  <2>3. \/ output = Item("output", call.response, call.n)
        \/ call = Item("call", output.response, output.n)
    BY <1>7
  <2> HIDE DEF call, output
  <2>4. output = [call EXCEPT !.kind = "output"]
    BY <2>1, <2>2, <2>3, OutputOf
  <2> QED
    BY <2>4 DEF call, output
<1>8. ASSUME NEW i \in At("call")
      PROVE  \E j \in At("output") : j > i /\ request[j] = [request[i] EXCEPT !.kind = "output"]
  <2>1. i \in 1..n /\ request[i].kind = "call"
    BY <1>1
  <2>2. PICK j \in 1..n :
            j > i /\ request[j] = Item("output", request[i].response, request[i].n)
    BY <1>6, <2>1
  <2>3. request[j].kind = "output" /\ j \in At("output")
    BY <1>1, <2>2, ItemIs
  <2>4. request[j] = [request[i] EXCEPT !.kind = "output"]
    BY <1>7, <2>1, <2>2, <2>3
  <2> QED
    BY <2>2, <2>3, <2>4
<1>9. ASSUME NEW j \in At("output")
      PROVE  \E i \in At("call") : j > i /\ request[j] = [request[i] EXCEPT !.kind = "output"]
  <2>1. j \in 1..n /\ request[j].kind = "output"
    BY <1>1
  <2>2. PICK i \in 1..n :
            j > i /\ request[i] = Item("call", request[j].response, request[j].n)
    BY <1>6, <2>1
  <2>3. request[i].kind = "call" /\ i \in At("call")
    BY <1>1, <2>2, ItemIs
  <2>4. request[j] = [request[i] EXCEPT !.kind = "output"]
    BY <1>7, <2>1, <2>2, <2>3
  <2> QED
    BY <2>2, <2>3, <2>4
<1>10. \E i \in At("call") : request[i].response = previous
  BY <1>1, <1>2, <1>3
<1>11. \A i, j \in At("call") \union At("output") : request[i] = request[j] => i = j
  BY <1>1, <1>6
<1> QED
  BY <1>8, <1>9, <1>10, <1>11

\* Every request but the first asks the gateway for an answer to the calls of
\* the response it follows, each with its output, with either client and
\* whatever happened in between.
THEOREM CallsAnswered == RoundsSpec => []EveryCallAnswered
<1>1. RoundsInit => Answering
  BY ProviderRoundsAssumption
  DEF RoundsInit, Answering, Fresh, Following, Reading, Providers, Rounds
<1>2. Typed /\ Answering => EveryCallAnswered
  BY OwesNothing DEF Typed, Answering
<1> QED
  BY <1>1, <1>2, AnsweringStep, TypedInvariant, PTL DEF RoundsSpec
==========================================================================
