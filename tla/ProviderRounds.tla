-------------------------- MODULE ProviderRounds --------------------------
(***************************************************************************)
(* The rounds of one turn with its provider: the loop of run_turn_body      *)
(* (send/turn/body.rs), the two clients that keep what a next round needs   *)
(* in a cache of their own (link_client, chat_client), the tool calls in    *)
(* between, and an admin who replaces the provider meanwhile (http/state.rs,*)
(* send/mod.rs).  BashTool has what a call of bash does.                    *)
(*                                                                         *)
(* The gateway is not under our control: it sends events in any order its   *)
(* API allows and may stop at any time.                                     *)
(***************************************************************************)
EXTENDS Integers, Sequences

CONSTANTS
    MaxRounds,      \* bound: responses of the turn; the last one asks for no tool
    MaxCalls,       \* bound: function calls of one response
    MaxParts,       \* bound: text parts of one response
    MaxReloads,     \* bound: provider configurations applied during the turn
    MaxStoreFaults  \* bound: calls of the store that fail

ASSUME ProviderRoundsAssumption ==
    /\ MaxRounds \in Nat \ {0} /\ MaxCalls \in Nat /\ MaxParts \in Nat
    /\ MaxReloads \in Nat /\ MaxStoreFaults \in Nat

VARIABLES
    api,         \* the API of each provider that gets installed
    installed,   \* the provider of SessionProviderConfig
    provider,    \* the one the turn took at its start
    stage,       \* where the loop is
    round,       \* the request that is under way; a response's id is its round
    previous,    \* previous_response_id, 0 for none
    request,     \* the input items of the round's request
    cache,       \* response_cache of each provider
    stream,      \* the decoder of the round's response, and whether it is cached
    sent,        \* history: text parts the gateway has sent something of
    calls,       \* the function calls of this round that are left
    outputs,     \* function_call_outputs
    text,        \* assistant_text
    failure,     \* why the turn failed
    storeFaults  \* calls that may still fail

roundsVars == <<api, installed, provider, stage, round, previous, request, cache,
                stream, sent, calls, outputs, text, failure, storeFaults>>

Providers == 1..(MaxReloads + 1)
Rounds == 1..MaxRounds

Item(kind, response, n) == [kind |-> kind, response |-> response, n |-> n]
Input == Item("input", 0, 0)
Items == [kind : {"input", "text", "call", "output"}, response : 0..MaxRounds, n : Nat]
Closed == [named |-> FALSE, parts |-> {}, items |-> << >>, finished |-> FALSE,
           kept |-> FALSE]

RoundsTypeOK ==
    /\ api \in [Providers -> {"responses", "chat"}]
    /\ installed \in Providers /\ provider \in Providers \union {0}
    /\ stage \in {"idle", "asking", "streaming", "tools", "answered", "failed"}
    /\ round \in 0..MaxRounds /\ previous \in 0..MaxRounds
    /\ request \in Seq(Items)
    /\ cache \in [Providers -> [Rounds -> Seq(Items)]]
    /\ stream \in [named : BOOLEAN, parts : SUBSET (1..MaxParts), items : Seq(Items),
                   finished : BOOLEAN, kept : BOOLEAN]
    /\ sent \in SUBSET (Rounds \X (1..MaxParts))
    /\ calls \in Seq(Items) /\ outputs \in Seq(Items)
    /\ text \in Seq(Rounds \X (1..MaxParts))
    /\ failure \in {"none", "miss", "upstream", "store", "silent"}
    /\ storeFaults \in 0..MaxStoreFaults

RoundsInit ==
    /\ api \in [Providers -> {"responses", "chat"}]
    /\ installed = 1 /\ provider = 0
    /\ stage = "idle" /\ round = 0 /\ previous = 0
    /\ request = << >>
    /\ cache = [p \in Providers |-> [r \in Rounds |-> << >>]]
    /\ stream = Closed
    /\ sent = {} /\ calls = << >> /\ outputs = << >> /\ text = << >>
    /\ failure = "none" /\ storeFaults = MaxStoreFaults

StoreFault == storeFaults > 0 /\ storeFaults' = storeFaults - 1

Fails(reason) == stage' = "failed" /\ failure' = reason

---------------------------------------------------------------------------
(* Requests.                                                               *)

\* SessionSendService::start takes the provider for the whole turn.
Begin ==
    /\ stage = "idle"
    /\ provider' = installed
    /\ stage' = "asking" /\ round' = 1
    /\ UNCHANGED <<api, installed, previous, request, cache, stream, sent,
                   calls, outputs, text, failure, storeFaults>>

\* replace_provider_config: a new client, with an empty cache.
Reload ==
    /\ installed < MaxReloads + 1
    /\ installed' = installed + 1
    /\ UNCHANGED <<api, provider, stage, round, previous, request, cache, stream,
                   sent, calls, outputs, text, failure, storeFaults>>

\* Mutant: the follow-up goes to the provider that is installed now.
MutantClient == installed

\* deps.provider.
Client == provider

\* map_input and map_messages: without a previous response the transcript,
\* else what the cache has of it and the outputs.  cache_response_output and
\* cached_followup_messages never store an empty list.
Hit == previous # 0 => cache[Client][previous] # << >>
Mapped == IF previous = 0 THEN << Input >> ELSE cache[Client][previous] \o outputs

\* The request is mapped and sent; a miss fails the turn.
Ask ==
    /\ stage = "asking"
    /\ \/ /\ Hit
          /\ stage' = "streaming"
          /\ request' = Mapped
          /\ outputs' = << >>
          /\ stream' = Closed
          /\ UNCHANGED failure
       \/ ~Hit /\ Fails("miss") /\ UNCHANGED <<request, outputs, stream>>
    /\ UNCHANGED <<api, installed, provider, round, previous, cache, sent,
                   calls, text, storeFaults>>

---------------------------------------------------------------------------
(* Responses.                                                              *)

Streaming(a) == stage = "streaming" /\ api[provider] = a /\ ~stream.finished

\* The loop leaves what it has not read of the response.
Decode(fields) ==
    /\ stream' = fields
    /\ UNCHANGED <<api, installed, provider, round, request, outputs, storeFaults>>

\* cache_response_output and cache_response_messages.
Cached(items) == cache' = [cache EXCEPT ![provider][round] = items]

\* Something of part n came in.
CameIn(n) == sent' = sent \union {<<round, n>>}

Says(n) == text' = Append(text, <<round, n>>)

\* response.created or response.in_progress.
Created ==
    /\ Streaming("responses") /\ ~stream.named
    /\ Decode([stream EXCEPT !.named = TRUE])
    /\ UNCHANGED <<stage, previous, cache, sent, calls, text, failure>>

\* response.output_text.delta, one for a part; delta.content of a chat chunk.
TextDelta(n) ==
    /\ stage = "streaming" /\ ~stream.finished /\ <<round, n>> \notin sent
    /\ n = 1 \/ <<round, n - 1>> \in sent
    /\ CameIn(n) /\ Says(n)
    /\ Decode([stream EXCEPT !.parts = @ \union {n}])
    /\ UNCHANGED <<stage, previous, cache, calls, failure>>

PartIsDone(n) == \E i \in DOMAIN stream.items : stream.items[i] = Item("text", round, n)

\* Mutant: the text is left to the deltas, whether or not there were any.
MutantStreamed(n) == TRUE

\* streamed_text_parts.
Streamed(n) == n \in stream.parts

\* response.output_text.done, which carries the whole part, and the message's
\* response.output_item.done.
TextDone(n) ==
    /\ Streaming("responses") /\ ~PartIsDone(n)
    /\ n = 1 \/ PartIsDone(n - 1)
    /\ CameIn(n)
    /\ IF Streamed(n) THEN UNCHANGED text ELSE Says(n)
    /\ Decode([stream EXCEPT !.parts = @ \union {n},
                             !.items = Append(@, Item("text", round, n))])
    /\ UNCHANGED <<stage, previous, cache, calls, failure>>

\* response.output_item.done of a function call: it is requested at once.  It
\* is an error before the response has an id, and when a field is missing or
\* the arguments do not parse.
CallDone ==
    /\ Streaming("responses") /\ round < MaxRounds /\ Len(calls) < MaxCalls
    /\ LET item == Item("call", round, Len(calls) + 1) IN
       \/ /\ stream.named
          /\ previous' = round
          /\ calls' = Append(calls, item)
          /\ Decode([stream EXCEPT !.items = Append(@, item)])
          /\ UNCHANGED <<stage, failure>>
       \/ Fails("upstream") /\ Decode(stream) /\ UNCHANGED <<previous, calls>>
    /\ UNCHANGED <<cache, sent, text>>

\* Mutant: an item that is a call is not kept.
MutantCacheCompleted ==
    /\ Cached(SelectSeq(stream.items, LAMBDA i : i.kind # "call"))
    /\ Decode([stream EXCEPT !.named = TRUE, !.finished = TRUE, !.kept = TRUE])

\* cache_completed_response, of a response.completed with an id: the items of
\* this response are kept, not those it answered.
CacheCompleted ==
    /\ Cached(stream.items)
    /\ Decode([stream EXCEPT !.named = TRUE, !.finished = TRUE, !.kept = TRUE])

\* response.completed; without an id the response is over and nothing of it is
\* kept.
Completed ==
    /\ Streaming("responses")
    /\ \/ CacheCompleted
       \/ Decode([stream EXCEPT !.finished = TRUE]) /\ UNCHANGED cache
    /\ UNCHANGED <<stage, previous, sent, calls, text, failure>>

\* delta.tool_calls of a chat chunk: a draft, merged by its index.
DraftDelta ==
    /\ Streaming("chat") /\ round < MaxRounds /\ Len(stream.items) < MaxCalls
    /\ Decode([stream EXCEPT !.items = Append(@, Item("call", round, Len(@) + 1))])
    /\ UNCHANGED <<stage, previous, cache, sent, calls, text, failure>>

\* finish_reason: the drafts become calls, and the whole conversation with
\* them is cached; a draft without a name or with bad arguments is an error.
Finish ==
    /\ Streaming("chat")
    /\ \/ /\ stream.items # << >>
          /\ previous' = round
          /\ calls' = stream.items
          /\ Cached(request \o << Item("text", round, 0) >> \o stream.items)
          /\ Decode([stream EXCEPT !.finished = TRUE, !.kept = TRUE])
          /\ UNCHANGED <<stage, failure>>
       \/ /\ stream.items = << >>
          /\ Decode([stream EXCEPT !.finished = TRUE])
          /\ UNCHANGED <<stage, previous, cache, calls, failure>>
       \/ /\ stream.items # << >>
          /\ Fails("upstream") /\ Decode(stream) /\ UNCHANGED <<previous, cache, calls>>
    /\ UNCHANGED <<sent, text>>

\* The connection fails, or a frame does not parse.
Broken ==
    /\ stage = "streaming" /\ ~stream.finished
    /\ Fails("upstream")
    /\ Decode(stream)
    /\ UNCHANGED <<previous, cache, sent, calls, text>>

\* The response is over, with its last event or because the connection was
\* closed before; drafts that were not finished are lost then.
ResponseEnds ==
    /\ stage = "streaming"
    /\ \/ calls # << >> /\ stage' = "tools" /\ UNCHANGED failure
       \/ calls = << >> /\ text # << >> /\ stage' = "answered" /\ UNCHANGED failure
       \/ calls = << >> /\ text = << >> /\ Fails("silent")
    /\ UNCHANGED <<api, installed, provider, round, previous, request, cache,
                   stream, sent, calls, outputs, text, storeFaults>>

---------------------------------------------------------------------------
(* Tool calls.                                                             *)

Answered == Item("output", Head(calls).response, Head(calls).n)

\* append_tool_call, dispatch, append_tool_result.  Every tool call has an
\* output: a failed one tells the model what failed.
CallTool ==
    /\ stage = "tools" /\ calls # << >>
    /\ \/ /\ outputs' = Append(outputs, Answered)
          /\ calls' = Tail(calls)
          /\ UNCHANGED <<stage, failure, storeFaults>>
       \/ StoreFault /\ Fails("store") /\ UNCHANGED <<calls, outputs>>
    /\ UNCHANGED <<api, installed, provider, round, previous, request, cache, stream,
                   sent, text>>

NextRound ==
    /\ stage = "tools" /\ calls = << >>
    /\ stage' = "asking" /\ round' = round + 1
    /\ UNCHANGED <<api, installed, provider, previous, request, cache, stream,
                   sent, calls, outputs, text, failure, storeFaults>>

Gateway ==
    \/ Created \/ CallDone \/ Completed \/ DraftDelta \/ Finish \/ Broken
    \/ \E n \in 1..MaxParts : TextDelta(n) \/ TextDone(n)

Loop == Begin \/ Ask \/ ResponseEnds \/ CallTool \/ NextRound

RoundsNext == Loop \/ Gateway \/ Reload

RoundsSpec == RoundsInit /\ [][RoundsNext]_roundsVars

---------------------------------------------------------------------------
(* Properties.                                                             *)

At(kind) == {i \in DOMAIN request : request[i].kind = kind}

\* What a follow-up request carries is what the gateway asks of it: the calls
\* of the response it answers, each followed by exactly one output, and no
\* output without its call; with either client (link_client/mod.rs:144,
\* chat_client/mod.rs:324).
EveryCallAnswered ==
    stage = "streaming" /\ previous # 0 /\ previous < round =>
        /\ \E i \in At("call") : request[i].response = previous
        /\ \A i \in At("call") :
            \E j \in At("output") : j > i /\ request[j] = [request[i] EXCEPT !.kind = "output"]
        /\ \A j \in At("output") :
            \E i \in At("call") : j > i /\ request[j] = [request[i] EXCEPT !.kind = "output"]
        /\ \A i, j \in At("call") \union At("output") : request[i] = request[j] => i = j

\* A follow-up misses the cache only if the response that asked for the tools
\* was never completed, or completed without an id to find it under; replacing
\* the provider during the turn does not lose it (link_client/mod.rs:170, :220,
\* link_client/events.rs:207).
CompletedIsFound == failure = "miss" => ~stream.kept

\* Every part the gateway sent something of is in the text of the turn, once,
\* whether it came in deltas, in its done event or in both, and in the order of
\* the rounds (link_client/events.rs:117, :129).
TextOnce ==
    /\ {text[i] : i \in DOMAIN text} = sent
    /\ \A i, j \in DOMAIN text : i < j =>
        text[i][1] <= text[j][1] /\ text[i] # text[j]
==========================================================================
