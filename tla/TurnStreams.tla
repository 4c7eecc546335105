--------------------------- MODULE TurnStreams ---------------------------
(***************************************************************************)
(* How the turns of one session reach the clients that asked for them: the *)
(* event stream of a send (handler/session.rs), and the reply store and its *)
(* event streams (http/protocol_reply.rs, handler/stim.rs).  All of it      *)
(* lives in one process and is lost with it.                                *)
(*                                                                         *)
(* Of a turn only the order of its visible steps is kept: the lock, its     *)
(* deltas, its end.  SessionTurn has the rest, lapses of live leases too.   *)
(***************************************************************************)
EXTENDS Integers, Sequences, FiniteSets

CONSTANTS
    Turns,          \* requests for a turn: sends and protocol replies
    NoTurn,         \* the lock is free
    Clients,        \* clients that follow a reply
    ReplyCapacity,  \* events a reply's broadcast channel keeps (64 in the code)
    MaxDeltas,      \* bound: text deltas of one turn
    MaxFaults       \* bound: failed calls, panics and restarts

ASSUME TurnStreamsAssumption ==
    /\ NoTurn \notin Turns
    /\ ReplyCapacity \in Nat \ {0}
    /\ MaxDeltas \in Nat \ {0} /\ MaxFaults \in Nat

VARIABLES
    lock,      \* the turn that has the session
    pc,        \* the next step of each turn's request
    kind,      \* "send" or "reply", once asked for
    deltas,    \* text deltas the provider has sent
    queue,     \* the unbounded channel from the turn to its stream
    relay,     \* who reads that channel: the HTTP response or the reply task
    answer,    \* what the response of a send has carried
    replies,   \* the reply store; the id is the index, next_reply the length + 1
    handle,    \* the reply id each submission got back
    client,    \* the clients and their connections
    faults     \* calls that may still fail, panics and restarts to come

vars == <<lock, pc, kind, deltas, queue, relay, answer, replies, handle, client,
          faults>>

Running == {"startup", "body", "hooks", "failing"}
Over == {"refused", "ended", "failed", "dead"}

NoQueue == [events |-> << >>, open |-> FALSE, senders |-> FALSE]
NoAnswer == [text |-> << >>, status |-> "pending"]
Away == [pc |-> "away", reply |-> 0, todo |-> << >>, over |-> FALSE, pos |-> 0,
         lagged |-> FALSE, got |-> << >>]

Statuses == {"pending", "streaming", "completed", "failed"}
\* The items of a turn's stream: its deltas, numbered, then how it ended.
Frames == [kind : {"delta"}, n : 1..MaxDeltas] \union
          [kind : {"completed", "failed"}, n : {0}]
Text(n) == [kind |-> "delta", n |-> n]
Last(how) == [kind |-> how, n |-> 0]
Answers == [text : Seq(1..MaxDeltas), status : Statuses]
Events == [sequence : Nat \ {0}, event : Frames]
Replies == [turn : Turns, text : Seq(1..MaxDeltas), status : Statuses,
            events : Seq(Events), next_sequence : Nat \ {0}, terminal : BOOLEAN]

TypeOK ==
    /\ lock \in Turns \union {NoTurn}
    /\ pc \in [Turns -> {"idle", "asked"} \union Running \union Over]
    /\ kind \in [Turns -> {"none", "send", "reply"}]
    /\ deltas \in [Turns -> 0..MaxDeltas]
    /\ queue \in [Turns -> [events : Seq(Frames), open : BOOLEAN, senders : BOOLEAN]]
    /\ relay \in [Turns -> {"none", "starting", "streaming", "done"}]
    /\ answer \in [Turns -> Answers]
    /\ replies \in Seq(Replies)
    /\ handle \in [Turns -> Nat]
    /\ client \in [Clients -> [
           pc : {"away", "history", "live", "done"},
           reply : Nat, todo : Seq(Events), over : BOOLEAN, pos : Nat,
           lagged : BOOLEAN, got : Seq(Events)]]
    /\ faults \in 0..MaxFaults

Init ==
    /\ lock = NoTurn
    /\ pc = [t \in Turns |-> "idle"]
    /\ kind = [t \in Turns |-> "none"]
    /\ deltas = [t \in Turns |-> 0]
    /\ queue = [t \in Turns |-> NoQueue]
    /\ relay = [t \in Turns |-> "none"]
    /\ answer = [t \in Turns |-> NoAnswer]
    /\ replies = << >>
    /\ handle = [t \in Turns |-> 0]
    /\ client = [c \in Clients |-> Away]
    /\ faults = MaxFaults

Fault == faults > 0 /\ faults' = faults - 1

Goto(t, step) == pc' = [pc EXCEPT ![t] = step]

\* tx.send: nothing happens when the receiver is gone.
Sent(t, frame) ==
    IF queue[t].open THEN [queue[t] EXCEPT !.events = Append(@, frame)] ELSE queue[t]

\* The last word of the turn's task, whose senders are dropped with it.
LastSent(t, frame) == [Sent(t, frame) EXCEPT !.senders = FALSE]

---------------------------------------------------------------------------
(* The reply store.                                                        *)

\* Mutant: events are numbered from zero.
MutantNewReply(t) == [turn |-> t, text |-> << >>, status |-> "pending", events |-> << >>,
                      next_sequence |-> 0, terminal |-> FALSE]

\* create_reply: a record with a channel of its own.
NewReply(t) == [turn |-> t, text |-> << >>, status |-> "pending", events |-> << >>,
                next_sequence |-> 1, terminal |-> FALSE]

\* update, with the mutations of emit_text_delta, complete and fail: a
\* terminal record takes no more events.
Updated(r, frame) ==
    LET told == [r EXCEPT
            !.events = Append(@, [sequence |-> r.next_sequence, event |-> frame]),
            !.next_sequence = @ + 1] IN
    IF r.terminal THEN r
    ELSE IF frame.kind = "delta"
    THEN [told EXCEPT !.status = "streaming", !.text = Append(@, frame.n)]
    ELSE [told EXCEPT !.status = frame.kind, !.terminal = TRUE]

Update(t, frame) ==
    replies' = [replies EXCEPT ![handle[t]] = Updated(@, frame)]

---------------------------------------------------------------------------
(* Requests.                                                               *)

\* send_session: the handler itself asks for the turn.
AskSend(t) ==
    /\ pc[t] = "idle"
    /\ Goto(t, "asked")
    /\ kind' = [kind EXCEPT ![t] = "send"]
    /\ UNCHANGED <<lock, deltas, queue, relay, answer, replies, handle, client,
                   faults>>

\* start_protocol_reply: the handle is returned, a task asks for the turn.
\* The fixed message is in the ledger by then.
AskReply(t) ==
    /\ pc[t] = "idle"
    /\ Goto(t, "asked")
    /\ kind' = [kind EXCEPT ![t] = "reply"]
    /\ replies' = Append(replies, NewReply(t))
    /\ handle' = [handle EXCEPT ![t] = Len(replies')]
    /\ relay' = [relay EXCEPT ![t] = "starting"]
    /\ UNCHANGED <<lock, deltas, queue, answer, client, faults>>

\* start_turn_stream: the channel, and a task for the turn.
Start(t) ==
    /\ pc[t] = "asked"
    /\ lock = NoTurn
    /\ lock' = t
    /\ Goto(t, "startup")
    /\ queue' = [queue EXCEPT ![t] = [events |-> << >>, open |-> TRUE, senders |-> TRUE]]
    /\ relay' = [relay EXCEPT ![t] = "streaming"]
    /\ UNCHANGED <<kind, deltas, answer, replies, handle, client, faults>>

\* Busy, or a lock that cannot be asked: a send is answered 409 or 500, a
\* reply fails with reply_start_failed.
Refuse(t) ==
    /\ pc[t] = "asked"
    /\ \/ lock # NoTurn /\ UNCHANGED faults
       \/ lock = NoTurn /\ Fault
    /\ Goto(t, "refused")
    /\ relay' = [relay EXCEPT ![t] = "done"]
    /\ \/ /\ kind[t] = "send"
          /\ answer' = [answer EXCEPT ![t].status = "failed"]
          /\ UNCHANGED replies
       \/ /\ kind[t] = "reply"
          /\ Update(t, Last("failed"))
          /\ UNCHANGED answer
    /\ UNCHANGED <<lock, kind, deltas, queue, handle, client>>

---------------------------------------------------------------------------
(* The turn's task.                                                        *)

\* run_turn_startup stores the text of a send; publish_turn_started.
StartUp(t) ==
    /\ pc[t] = "startup"
    /\ Goto(t, "body")
    /\ UNCHANGED <<lock, kind, deltas, queue, relay, answer, replies, handle,
                   client, faults>>

\* run_turn_body, a delta from the provider.
Delta(t) ==
    /\ pc[t] = "body" /\ deltas[t] < MaxDeltas
    /\ deltas' = [deltas EXCEPT ![t] = @ + 1]
    /\ queue' = [queue EXCEPT ![t] = Sent(t, Text(deltas'[t]))]
    /\ UNCHANGED <<lock, pc, kind, relay, answer, replies, handle, client,
                   faults>>

\* Mutant: Completed is emitted with the release, before the hooks ran.
MutantRecord(t) ==
    /\ pc[t] = "body" /\ deltas[t] > 0
    /\ lock' = NoTurn
    /\ Goto(t, "hooks")
    /\ queue' = [queue EXCEPT ![t] = Sent(t, Last("completed"))]
    /\ UNCHANGED <<kind, deltas, relay, answer, replies, handle, client, faults>>

\* The provider is done, the assistant message is appended and referenced and
\* the turn completed; finish_turn_run releases the lock.
Record(t) ==
    /\ pc[t] = "body" /\ deltas[t] > 0
    /\ lock' = NoTurn
    /\ Goto(t, "hooks")
    /\ UNCHANGED <<kind, deltas, queue, relay, answer, replies, handle, client,
                   faults>>

\* The hooks ran; emit_turn_completed_event.
End(t) ==
    /\ pc[t] = "hooks"
    /\ Goto(t, "ended")
    /\ queue' = [queue EXCEPT ![t] = LastSent(t, Last("completed"))]
    /\ UNCHANGED <<lock, kind, deltas, relay, answer, replies, handle, client,
                   faults>>

\* A step fails: the provider says nothing, or a call errs.  The guard is
\* released on the way out; where the code drops it instead (start_turn) or
\* its release fails, the key goes a little later, which no client is told.
Err(t) ==
    /\ \/ pc[t] = "body" /\ deltas[t] = 0 /\ UNCHANGED faults
       \/ pc[t] \in {"startup", "body", "hooks"} /\ Fault
    /\ lock' = IF pc[t] = "hooks" THEN lock ELSE NoTurn
    /\ Goto(t, "failing")
    /\ UNCHANGED <<kind, deltas, queue, relay, answer, replies, handle, client>>

\* What start_turn_stream's task does with the error.
Fail(t) ==
    /\ pc[t] = "failing"
    /\ Goto(t, "failed")
    /\ queue' = [queue EXCEPT ![t] = LastSent(t, Last("failed"))]
    /\ UNCHANGED <<lock, kind, deltas, relay, answer, replies, handle, client,
                   faults>>

\* A panic ends the task without a word.
Panic(t) ==
    /\ pc[t] \in Running /\ Fault
    /\ Goto(t, "dead")
    /\ queue' = [queue EXCEPT ![t].senders = FALSE]
    /\ UNCHANGED <<lock, kind, deltas, relay, answer, replies, handle, client>>

\* The key of a turn that left its guard behind expires.
Lapse ==
    /\ lock # NoTurn /\ pc[lock] = "dead"
    /\ lock' = NoTurn
    /\ UNCHANGED <<pc, kind, deltas, queue, relay, answer, replies, handle,
                   client, faults>>

---------------------------------------------------------------------------
(* The reader of the turn's stream.                                        *)

\* What the next item makes of a send's response or of the reply.
Told(t, frame) ==
    \/ /\ kind[t] = "send"
       /\ answer' = [answer EXCEPT ![t] =
              IF frame.kind = "delta"
              THEN [text |-> Append(@.text, frame.n), status |-> "streaming"]
              ELSE [@ EXCEPT !.status = frame.kind]]
       /\ UNCHANGED replies
    \/ /\ kind[t] = "reply"
       /\ Update(t, frame)
       /\ UNCHANGED answer

\* The loop over the stream, which ends with the first terminal item.
Relay(t) ==
    /\ relay[t] = "streaming" /\ queue[t].events # << >>
    /\ LET frame == Head(queue[t].events)
           last == frame.kind # "delta" IN
       /\ Told(t, frame)
       /\ queue' = [queue EXCEPT ![t].events = IF last THEN << >> ELSE Tail(@),
                                 ![t].open = ~last]
       /\ relay' = [relay EXCEPT ![t] = IF last THEN "done" ELSE @]
    /\ UNCHANGED <<lock, pc, kind, deltas, handle, client, faults>>

\* Mutant: the reply task ends with the stream.
MutantRelayEnds(t) ==
    /\ relay[t] = "streaming" /\ queue[t].events = << >> /\ ~queue[t].senders
    /\ relay' = [relay EXCEPT ![t] = "done"]
    /\ queue' = [queue EXCEPT ![t].open = FALSE]
    /\ UNCHANGED <<lock, pc, kind, deltas, answer, replies, handle, client, faults>>

\* The stream ended without either: a reply fails with
\* reply_stream_incomplete, a send's response carries [DONE] and no more.
RelayEnds(t) ==
    /\ relay[t] = "streaming" /\ queue[t].events = << >> /\ ~queue[t].senders
    /\ \/ /\ kind[t] = "reply"
          /\ Update(t, Last("failed"))
       \/ /\ kind[t] = "send"
          /\ UNCHANGED replies
    /\ relay' = [relay EXCEPT ![t] = "done"]
    /\ queue' = [queue EXCEPT ![t].open = FALSE]
    /\ UNCHANGED <<lock, pc, kind, deltas, answer, handle, client, faults>>

\* The client of a send goes away: the receiver is dropped, the turn goes on.
Leave(t) ==
    /\ kind[t] = "send" /\ relay[t] = "streaming"
    /\ relay' = [relay EXCEPT ![t] = "done"]
    /\ queue' = [queue EXCEPT ![t].events = << >>, ![t].open = FALSE]
    /\ UNCHANGED <<lock, pc, kind, deltas, answer, replies, handle, client,
                   faults>>

---------------------------------------------------------------------------
(* Clients that follow a reply: stream_reply_events.                       *)

Set(c, fields) == client' = [client EXCEPT ![c] = fields]

\* subscribe: the history, the receiver and terminal at one moment.
Subscribe(c, t) ==
    /\ client[c].pc = "away" /\ handle[t] \in 1..Len(replies)
    /\ LET r == replies[handle[t]] IN
       Set(c, [Away EXCEPT !.pc = "history", !.reply = handle[t], !.todo = r.events,
                           !.over = r.terminal, !.pos = Len(r.events)])
    /\ UNCHANGED <<lock, pc, kind, deltas, queue, relay, answer, replies,
                   handle, faults>>

\* Mutant: the receiver is created when the history has been sent.
MutantReadHistory(c) ==
    /\ client[c].pc = "history"
    /\ IF client[c].todo # << >>
       THEN Set(c, [client[c] EXCEPT !.got = Append(@, Head(client[c].todo)),
                                     !.todo = Tail(@)])
       ELSE Set(c, [client[c] EXCEPT !.pc = IF client[c].over THEN "done" ELSE "live",
                                     !.pos = Len(replies[client[c].reply].events)])
    /\ UNCHANGED <<lock, pc, kind, deltas, queue, relay, answer, replies, handle,
                   faults>>

\* The history goes out at the client's pace.
ReadHistory(c) ==
    /\ client[c].pc = "history"
    /\ IF client[c].todo # << >>
       THEN Set(c, [client[c] EXCEPT !.got = Append(@, Head(client[c].todo)),
                                     !.todo = Tail(@)])
       ELSE Set(c, [client[c] EXCEPT !.pc = IF client[c].over THEN "done" ELSE "live"])
    /\ UNCHANGED <<lock, pc, kind, deltas, queue, relay, answer, replies,
                   handle, faults>>

\* A broadcast receiver that is behind by more than the capacity goes on
\* with the oldest event that is kept.
Behind(c, log) == Len(log) - client[c].pos > ReplyCapacity

CatchUp(c, log) ==
    Set(c, [client[c] EXCEPT !.pos = Len(log) - ReplyCapacity, !.lagged = TRUE])

ReadReply(c) ==
    /\ client[c].pc = "live"
    /\ LET r == replies[client[c].reply]
           next == r.events[client[c].pos + 1] IN
       \/ /\ Behind(c, r.events)
          /\ CatchUp(c, r.events)
       \/ /\ ~Behind(c, r.events)
          /\ client[c].pos < Len(r.events)
          /\ Set(c, [client[c] EXCEPT !.got = Append(@, next), !.pos = @ + 1,
                 !.pc = IF next.event.kind # "delta" THEN "done" ELSE @])
    /\ UNCHANGED <<lock, pc, kind, deltas, queue, relay, answer, replies,
                   handle, faults>>

---------------------------------------------------------------------------

\* The process dies and comes back: what it kept in memory is gone, reply
\* ids start over, connections break.  Clients keep the handles they got.
Restart ==
    /\ Fault
    /\ pc' = [t \in Turns |-> IF pc[t] \in {"asked"} \union Running THEN "dead" ELSE pc[t]]
    /\ queue' = [t \in Turns |-> NoQueue]
    /\ relay' = [t \in Turns |-> IF relay[t] = "none" THEN "none" ELSE "done"]
    /\ replies' = << >>
    /\ client' = [c \in Clients |-> Away]
    /\ UNCHANGED <<lock, kind, deltas, answer, handle>>

TurnStep(t) ==
    \/ Start(t) \/ Refuse(t) \/ StartUp(t) \/ Delta(t) \/ Record(t) \/ End(t)
    \/ Err(t) \/ Fail(t)

Follow(c) == ReadHistory(c) \/ ReadReply(c)

Next ==
    \/ \E t \in Turns : AskSend(t) \/ AskReply(t) \/ TurnStep(t) \/ Panic(t)
                        \/ Relay(t) \/ RelayEnds(t) \/ Leave(t)
    \/ \E c \in Clients : \/ \E t \in Turns : Subscribe(c, t)
                          \/ Follow(c)
    \/ Lapse \/ Restart

Spec == Init /\ [][Next]_vars

\* Tasks that can run do, streams of providers end, and clients read on.
Fairness ==
    /\ \A t \in Turns : WF_vars(TurnStep(t)) /\ WF_vars(Relay(t) \/ RelayEnds(t))
    /\ \A c \in Clients : WF_vars(Follow(c))

LiveSpec == Spec /\ Fairness

---------------------------------------------------------------------------
(* Properties.                                                             *)

\* What a client that follows a reply has received is a run of the reply's
\* events from the first one, without repetition or gap between the history
\* and the channel; a receiver that lagged may miss some, never the terminal
\* one, and the stream is ended after it and only then (protocol_reply.rs:94,
\* stim.rs:97).
ReaderSeesRun ==
    \A c \in Clients : client[c].pc \in {"history", "live", "done"} =>
        LET got == client[c].got
            events == replies[client[c].reply].events IN
        /\ \A i \in DOMAIN got : got[i] = events[got[i].sequence]
        /\ \A i \in 1..(Len(got) - 1) : got[i].sequence < got[i + 1].sequence
        /\ ~client[c].lagged => got = SubSeq(events, 1, Len(got))
        /\ \A i \in DOMAIN got : got[i].event.kind # "delta" => i = Len(got)
        /\ client[c].pc = "done" => got # << >> /\ got[Len(got)].event.kind # "delta"

\* What a response or a reply says of a turn is so: it is completed only if
\* the turn was, after the release and the hooks, and then its
\* text is the whole text of the assistant message (stim.rs:400, turn.rs:246).
Saying(t) == IF kind[t] = "send" THEN answer[t] ELSE replies[handle[t]]

AnswerIsOutcome ==
    \A t \in Turns :
        kind[t] = "send" \/ (kind[t] = "reply" /\ handle[t] \in 1..Len(replies)
                             /\ replies[handle[t]].turn = t) =>
            /\ Saying(t).text = [i \in 1..Len(Saying(t).text) |-> i]
            /\ Saying(t).status = "completed" =>
                  /\ pc[t] = "ended"
                  /\ Len(Saying(t).text) = deltas[t]

\* Every request for a turn is answered, whether or not its client stayed: a
\* reply gets its terminal event unless the process restarts, and a client
\* that follows one comes to the end of the stream (stim.rs:404, :438, :101).
StreamsEnd ==
    /\ \A t \in Turns :
        pc[t] = "asked" ~> /\ pc[t] \in Over
                           /\ \/ kind[t] = "send"
                              \/ handle[t] > Len(replies)
                              \/ replies[handle[t]].terminal
                              \/ replies[handle[t]].turn # t
    /\ \A c \in Clients :
        client[c].pc \in {"history", "live"} ~> client[c].pc \in {"done", "away"}
==========================================================================
