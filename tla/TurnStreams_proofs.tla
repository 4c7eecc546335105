------------------------- MODULE TurnStreams_proofs -------------------------
(***************************************************************************)
(* Proofs about the streams of a session's turns (TurnStreams), for any     *)
(* number of turns, clients, deltas and faults and any channel capacity.    *)
(***************************************************************************)
EXTENDS TurnStreams, TLAPS

---------------------------------------------------------------------------
(* The inductive invariants.                                                *)

ClientStates == [
    pc : {"away", "history", "live", "done"},
    reply : Nat, todo : Seq(Events), over : BOOLEAN, pos : Nat,
    lagged : BOOLEAN, got : Seq(Events)]

Queues == [events : Seq(Frames), open : BOOLEAN, senders : BOOLEAN]

\* A client that follows a reply follows one that is there.
Subscribed ==
    \A c \in Clients : client[c].pc # "away" => client[c].reply \in 1..Len(replies)

TypeInv == TypeOK /\ Subscribed

IsDelta(e) == e.event.kind = "delta"
IsLast(frame) == frame.kind # "delta"

\* The events of a reply are numbered from one, and only the last one of a
\* terminal record is not a delta.
Logged(r) ==
    /\ r.next_sequence = Len(r.events) + 1
    /\ r.terminal => Len(r.events) > 0
    /\ \A i \in 1..Len(r.events) :
          /\ r.events[i].sequence = i
          /\ IsDelta(r.events[i]) <=> ~(r.terminal /\ i = Len(r.events))

\* Where a client is in the events of the reply that it follows.
Follows(d, r) ==
    /\ d.pos <= Len(r.events)
    /\ d.over => r.terminal /\ d.pos = Len(r.events)
    /\ d.pc \in {"history", "live"} /\ ~d.over => \A i \in 1..d.pos : IsDelta(r.events[i])
    /\ d.pc = "history" =>
          /\ ~d.lagged /\ Len(d.got) + Len(d.todo) = d.pos
          /\ \A i \in 1..Len(d.todo) : d.todo[i] = r.events[Len(d.got) + i]
    /\ d.pc = "live" => ~d.over /\ (~d.lagged => Len(d.got) = d.pos)
    /\ d.pc = "done" => Len(d.got) > 0 /\ ~IsDelta(d.got[Len(d.got)])
    /\ \A i \in 1..Len(d.got) :
          /\ d.got[i].sequence \in 1..d.pos
          /\ d.got[i] = r.events[d.got[i].sequence]
          /\ ~d.lagged => d.got[i].sequence = i
          /\ ~IsDelta(d.got[i]) => i = Len(d.got)
    /\ \A i \in 1..(Len(d.got) - 1) : d.got[i].sequence < d.got[i + 1].sequence

Reading ==
    /\ \A h \in 1..Len(replies) : Logged(replies[h])
    /\ \A c \in Clients : client[c].pc # "away" => Follows(client[c], replies[client[c].reply])

Whole(text) == \A i \in 1..Len(text) : text[i] = i

\* The reply is the turn's own, not one of the same number after a restart.
Ours(t) ==
    kind[t] = "reply" /\ handle[t] \in 1..Len(replies) /\ replies[handle[t]].turn = t

\* What the channel holds: the deltas not told yet, and how the turn ended.
Queued(events, told, sent, p) ==
    /\ told <= sent
    /\ Len(events) = sent - told + (IF p \in {"ended", "failed"} THEN 1 ELSE 0)
    /\ \A i \in 1..Len(events) : events[i] =
          IF i <= sent - told THEN Text(told + i)
          ELSE Last(IF p = "ended" THEN "completed" ELSE "failed")

\* What has been said of a turn, if there is an answer to say it in.
Said(t) == IF kind[t] = "send" \/ Ours(t) THEN Saying(t) ELSE NoAnswer

\* A turn, its channel, and what has been said of it to whoever asked for it.
View(t) == [
    pc |-> pc[t], kind |-> kind[t], relay |-> relay[t], deltas |-> deltas[t],
    open |-> queue[t].open, events |-> queue[t].events, ours |-> Ours(t),
    text |-> Said(t).text, status |-> Said(t).status,
    over |-> Ours(t) /\ replies[handle[t]].terminal]

\* A stream that is read holds what has not been told yet; what has been told
\* is the text from its start, and completed only if the turn is.
Tells(v) ==
    /\ v.pc = "idle" <=> v.kind = "none"
    /\ v.pc \in {"idle", "asked"} => v.relay # "streaming" /\ v.deltas = 0
    /\ v.pc = "asked" =>
          /\ v.text = << >> /\ v.status = "pending"
          /\ v.kind = "reply" => v.ours /\ ~v.over
    /\ v.relay = "streaming" =>
          /\ v.open /\ v.pc # "refused" /\ v.status \in {"pending", "streaming"}
          /\ v.kind = "reply" => v.ours /\ ~v.over
          /\ Queued(v.events, Len(v.text), v.deltas, v.pc)
    /\ v.kind = "send" \/ v.ours =>
          /\ Whole(v.text)
          /\ v.status = "completed" => v.pc = "ended" /\ Len(v.text) = v.deltas

Telling ==
    \A t \in Turns : /\ kind[t] # "send" => answer[t] = NoAnswer
                     /\ Tells(View(t))

---------------------------------------------------------------------------
(* Sequences and frames.                                                    *)

\* An appended element follows those that were there.
LEMMA Appended ==
    ASSUME NEW S, NEW s \in Seq(S), NEW e \in S
    PROVE  /\ Len(s) \in Nat
           /\ Append(s, e) \in Seq(S) /\ Len(Append(s, e)) = Len(s) + 1
           /\ Append(s, e)[Len(s) + 1] = e
           /\ \A i \in 1..Len(s) : s[i] \in S /\ Append(s, e)[i] = s[i]
  OBVIOUS

\* What is left when the first element is taken.
LEMMA Taken ==
    ASSUME NEW S, NEW s \in Seq(S), s # << >>
    PROVE  /\ Head(s) \in S /\ Head(s) = s[1] /\ Tail(s) \in Seq(S)
           /\ Len(s) \in Nat /\ Len(s) > 0 /\ Len(Tail(s)) = Len(s) - 1
           /\ \A i \in 1..Len(Tail(s)) : Tail(s)[i] = s[i + 1]
  OBVIOUS

\* The frames a turn sends.
LEMMA FrameTyped ==
    /\ \A n \in 1..MaxDeltas : Text(n) \in Frames /\ Text(n).kind = "delta" /\ Text(n).n = n
    /\ \A how \in {"completed", "failed"} : Last(how) \in Frames /\ Last(how).kind = how
    /\ \A f \in Frames : /\ f.kind \in {"delta", "completed", "failed"}
                         /\ f.kind = "delta" => f.n \in 1..MaxDeltas
  BY DEF Text, Last, Frames

\* A record once it is told a frame.
LEMMA UpdatedIs ==
    ASSUME NEW r \in Replies, NEW frame \in Frames
    PROVE  /\ Updated(r, frame) \in Replies /\ Updated(r, frame).turn = r.turn
           /\ r.terminal => Updated(r, frame) = r
           /\ ~r.terminal =>
                 /\ Updated(r, frame).events =
                       Append(r.events, [sequence |-> r.next_sequence, event |-> frame])
                 /\ Updated(r, frame).next_sequence = r.next_sequence + 1
                 /\ Updated(r, frame).terminal = (frame.kind # "delta")
                 /\ Updated(r, frame).text =
                       IF frame.kind = "delta" THEN Append(r.text, frame.n) ELSE r.text
                 /\ Updated(r, frame).status =
                       IF frame.kind = "delta" THEN "streaming" ELSE frame.kind
<1>1. /\ r.turn \in Turns /\ r.text \in Seq(1..MaxDeltas) /\ r.status \in Statuses
      /\ r.events \in Seq(Events) /\ r.next_sequence \in Nat \ {0} /\ r.terminal \in BOOLEAN
  BY DEF Replies
<1>2. CASE r.terminal
  BY <1>2 DEF Updated
<1> DEFINE event == [sequence |-> r.next_sequence, event |-> frame]
           events == Append(r.events, event)
<1>3. events \in Seq(Events)
  BY <1>1 DEF Events
<1>4. CASE ~r.terminal /\ frame.kind = "delta"
  <2>1. Append(r.text, frame.n) \in Seq(1..MaxDeltas)
    BY <1>1, <1>4, FrameTyped
  <2>2. Updated(r, frame) =
          [turn |-> r.turn, text |-> Append(r.text, frame.n), status |-> "streaming",
           events |-> events, next_sequence |-> r.next_sequence + 1, terminal |-> r.terminal]
    BY <1>4 DEF Updated, Replies
  <2> HIDE DEF events
  <2> QED
    BY <1>1, <1>3, <1>4, <2>1, <2>2 DEF Replies, Statuses, events
<1>5. CASE ~r.terminal /\ frame.kind # "delta"
  <2>1. frame.kind \in {"completed", "failed"}
    BY <1>5, FrameTyped
  <2>2. Updated(r, frame) =
          [turn |-> r.turn, text |-> r.text, status |-> frame.kind,
           events |-> events, next_sequence |-> r.next_sequence + 1, terminal |-> TRUE]
    BY <1>5 DEF Updated, Replies
  <2> HIDE DEF events
  <2>3. Updated(r, frame) \in Replies
    BY <1>1, <1>3, <2>1, <2>2 DEF Replies, Statuses
  <2>4. /\ Updated(r, frame).turn = r.turn /\ Updated(r, frame).text = r.text
        /\ Updated(r, frame).status = frame.kind /\ Updated(r, frame).events = events
        /\ Updated(r, frame).next_sequence = r.next_sequence + 1
        /\ Updated(r, frame).terminal = TRUE
    BY <2>2
  <2> QED
    BY <1>5, <2>3, <2>4 DEF events
<1> QED
  BY <1>2, <1>4, <1>5

\* The store once a turn is told of.
LEMMA UpdateTyped ==
    ASSUME replies \in Seq(Replies), NEW t \in Turns, NEW frame \in Frames, Update(t, frame)
    PROVE  /\ replies' \in Seq(Replies) /\ Len(replies') = Len(replies) /\ Len(replies) \in Nat
           /\ \A h \in 1..Len(replies) : h # handle[t] => replies'[h] = replies[h]
           /\ handle[t] \in 1..Len(replies) =>
                 replies'[handle[t]] = Updated(replies[handle[t]], frame)
<1>1. Len(replies) \in Nat /\ DOMAIN replies = 1..Len(replies)
      /\ \A h \in 1..Len(replies) : replies[h] \in Replies
  OBVIOUS
<1>2. \A h \in 1..Len(replies) :
        replies'[h] = IF h = handle[t] THEN Updated(replies[h], frame) ELSE replies[h]
  BY <1>1 DEF Update
<1>3. ASSUME NEW h \in 1..Len(replies) PROVE replies'[h] \in Replies
  <2>1. replies[h] \in Replies
    BY <1>1
  <2>2. Updated(replies[h], frame) \in Replies
    BY <2>1, UpdatedIs
  <2> QED
    BY <1>2, <2>1, <2>2
<1>4. DOMAIN replies' = 1..Len(replies) /\ replies' = [h \in 1..Len(replies) |-> replies'[h]]
  BY <1>1 DEF Update
<1>5. replies' \in [1..Len(replies) -> Replies]
  BY <1>3, <1>4
<1>6. replies' \in Seq(Replies) /\ Len(replies') = Len(replies)
  BY <1>1, <1>5
<1> QED
  BY <1>1, <1>2, <1>6

---------------------------------------------------------------------------
(* What the steps make of the channels, the answers and the clients.        *)

\* A channel after a send on it.
LEMMA SentIs ==
    ASSUME NEW t \in Turns, NEW frame \in Frames, queue[t] \in Queues
    PROVE  /\ queue[t].events \in Seq(Frames)
           /\ Sent(t, frame) \in Queues /\ LastSent(t, frame) \in Queues
           /\ Sent(t, frame).open = queue[t].open /\ LastSent(t, frame).open = queue[t].open
           /\ LastSent(t, frame).events = Sent(t, frame).events
           /\ Sent(t, frame).events = IF queue[t].open THEN Append(queue[t].events, frame)
                                      ELSE queue[t].events
<1> DEFINE q == queue[t]
           s == Sent(t, frame)
           l == LastSent(t, frame)
<1>1. s = IF q.open THEN [q EXCEPT !.events = Append(q.events, frame)] ELSE q
  BY DEF Sent
<1>2. l = [s EXCEPT !.senders = FALSE]
  BY DEF LastSent
<1>3. q \in Queues
  OBVIOUS
<1> HIDE DEF q, s, l
<1>4. q.events \in Seq(Frames)
  BY <1>3 DEF Queues
<1> DEFINE e == Append(q.events, frame)
<1>5. e \in Seq(Frames)
  BY <1>4
<1> HIDE DEF e
<1>6. s = IF q.open THEN [q EXCEPT !.events = e] ELSE q
  BY <1>1 DEF e
<1>7. s \in Queues /\ s.open = q.open /\ s.events = IF q.open THEN e ELSE q.events
  BY <1>3, <1>5, <1>6 DEF Queues
<1>8. l \in Queues /\ l.open = s.open /\ l.events = s.events
  BY <1>2, <1>7 DEF Queues
<1> QED
  BY <1>4, <1>7, <1>8 DEF q, s, l, e

\* A client that subscribes has the history and the receiver of the reply.
LEMMA SubscribeIs ==
    ASSUME client \in [Clients -> ClientStates], replies \in Seq(Replies),
           handle \in [Turns -> Nat], NEW c \in Clients, NEW t \in Turns, Subscribe(c, t)
    PROVE  /\ client' \in [Clients -> ClientStates]
           /\ \A x \in Clients : x # c => client'[x] = client[x]
           /\ handle[t] \in 1..Len(replies)
           /\ client'[c].pc = "history" /\ client'[c].reply = handle[t]
           /\ client'[c].todo = replies[handle[t]].events
           /\ client'[c].over = replies[handle[t]].terminal
           /\ client'[c].pos = Len(replies[handle[t]].events)
           /\ client'[c].lagged = FALSE /\ client'[c].got = << >>
<1> DEFINE h == handle[t]
           events == replies[h].events
           over == replies[h].terminal
           pos == Len(events)
           a == Away
           d == [a EXCEPT !.pc = "history", !.reply = h, !.todo = events, !.over = over,
                          !.pos = pos]
<1>1. h \in 1..Len(replies) /\ replies[h] \in Replies
  BY DEF Subscribe
<1>2. h \in Nat /\ events \in Seq(Events) /\ over \in BOOLEAN
  BY <1>1 DEF Replies
<1>3. pos \in Nat
  BY <1>2
<1>4. a \in ClientStates /\ a.lagged = FALSE /\ a.got = << >>
  BY DEF Away, ClientStates
<1>5. client' = [client EXCEPT ![c] = d]
  BY DEF Subscribe, Set
<1> HIDE DEF h, events, over, pos, a
<1>6. /\ d \in ClientStates /\ d.pc = "history" /\ d.reply = h /\ d.todo = events
      /\ d.over = over /\ d.pos = pos /\ d.lagged = a.lagged /\ d.got = a.got
  BY <1>2, <1>3, <1>4 DEF ClientStates
<1> HIDE DEF d
<1>7. client' \in [Clients -> ClientStates] /\ client'[c] = d
      /\ \A x \in Clients : x # c => client'[x] = client[x]
  BY <1>5, <1>6
<1> QED
  BY <1>1, <1>4, <1>6, <1>7 DEF h, events, over, pos

\* The fields of a client's state.
LEMMA ClientFields ==
    ASSUME NEW d \in ClientStates
    PROVE  /\ d.got \in Seq(Events) /\ d.todo \in Seq(Events)
           /\ d.pos \in Nat /\ d.reply \in Nat
           /\ d.over \in BOOLEAN /\ d.lagged \in BOOLEAN
           /\ d.pc \in {"away", "history", "live", "done"}
  BY DEF ClientStates

\* A client that reads its history takes the next event of it, or goes on.
LEMMA ReadHistoryIs ==
    ASSUME client \in [Clients -> ClientStates], NEW c \in Clients, ReadHistory(c)
    PROVE  /\ client' \in [Clients -> ClientStates]
           /\ \A x \in Clients : x # c => client'[x] = client[x]
           /\ client[c].pc = "history"
           /\ client'[c].reply = client[c].reply /\ client'[c].over = client[c].over
           /\ client'[c].pos = client[c].pos /\ client'[c].lagged = client[c].lagged
           /\ \/ /\ client[c].todo # << >>
                 /\ client'[c].got = Append(client[c].got, Head(client[c].todo))
                 /\ client'[c].todo = Tail(client[c].todo)
                 /\ client'[c].pc = "history"
              \/ /\ client[c].todo = << >>
                 /\ client'[c].got = client[c].got /\ client'[c].todo = client[c].todo
                 /\ client'[c].pc = IF client[c].over THEN "done" ELSE "live"
<1> DEFINE d == client[c]
           got == Append(d.got, Head(d.todo))
           todo == Tail(d.todo)
           step == IF d.over THEN "done" ELSE "live"
<1>1. d \in ClientStates /\ d.pc = "history"
  BY DEF ReadHistory
<1>2. IF d.todo # << >>
      THEN client' = [client EXCEPT ![c] = [d EXCEPT !.got = got, !.todo = todo]]
      ELSE client' = [client EXCEPT ![c] = [d EXCEPT !.pc = step]]
  BY DEF ReadHistory, Set
<1> HIDE DEF d, got, todo, step
<1>3. d.got \in Seq(Events) /\ d.todo \in Seq(Events)
  BY <1>1, ClientFields
<1>4. CASE d.todo # << >>
  <2> DEFINE e == [d EXCEPT !.got = got, !.todo = todo]
  <2>1. got \in Seq(Events) /\ todo \in Seq(Events)
    BY <1>3, <1>4 DEF got, todo
  <2>2. client' = [client EXCEPT ![c] = e]
    BY <1>2, <1>4
  <2>3. /\ e \in ClientStates /\ e.reply = d.reply /\ e.over = d.over /\ e.pos = d.pos
        /\ e.lagged = d.lagged /\ e.got = got /\ e.todo = todo /\ e.pc = d.pc
    BY <1>1, <2>1 DEF ClientStates
  <2> HIDE DEF e
  <2>4. client' \in [Clients -> ClientStates] /\ client'[c] = e
        /\ \A x \in Clients : x # c => client'[x] = client[x]
    BY <2>2, <2>3
  <2> QED
    BY <1>1, <1>4, <2>3, <2>4 DEF d, got, todo
<1>5. CASE d.todo = << >>
  <2> DEFINE e == [d EXCEPT !.pc = step]
  <2>1. step \in {"done", "live"}
    BY DEF step
  <2>2. client' = [client EXCEPT ![c] = e]
    BY <1>2, <1>5
  <2>3. /\ e \in ClientStates /\ e.reply = d.reply /\ e.over = d.over /\ e.pos = d.pos
        /\ e.lagged = d.lagged /\ e.got = d.got /\ e.todo = d.todo /\ e.pc = step
    BY <1>1, <2>1 DEF ClientStates
  <2> HIDE DEF e
  <2>4. client' \in [Clients -> ClientStates] /\ client'[c] = e
        /\ \A x \in Clients : x # c => client'[x] = client[x]
    BY <2>2, <2>3
  <2> QED
    BY <1>1, <1>5, <2>3, <2>4 DEF d, step
<1> QED
  BY <1>4, <1>5

\* A client that reads the channel takes the next event of the reply, or
\* skips to the oldest one that is kept.
LEMMA ReadReplyIs ==
    ASSUME client \in [Clients -> ClientStates], NEW c \in Clients, ReadReply(c),
           NEW log \in Seq(Events), log = replies[client[c].reply].events
    PROVE  /\ client' \in [Clients -> ClientStates]
           /\ \A x \in Clients : x # c => client'[x] = client[x]
           /\ client[c].pc = "live"
           /\ client'[c].reply = client[c].reply /\ client'[c].over = client[c].over
           /\ client'[c].todo = client[c].todo
           /\ \/ /\ Len(log) - client[c].pos > ReplyCapacity
                 /\ client'[c].pos = Len(log) - ReplyCapacity
                 /\ client'[c].lagged = TRUE
                 /\ client'[c].got = client[c].got /\ client'[c].pc = "live"
              \/ /\ client[c].pos < Len(log)
                 /\ client'[c].pos = client[c].pos + 1
                 /\ client'[c].lagged = client[c].lagged
                 /\ client'[c].got = Append(client[c].got, log[client[c].pos + 1])
                 /\ client'[c].pc = IF IsDelta(log[client[c].pos + 1]) THEN "live" ELSE "done"
<1> USE TurnStreamsAssumption
<1> DEFINE d == client[c]
           next == log[d.pos + 1]
           got == Append(d.got, next)
           pos == d.pos + 1
           behind == Len(log) - ReplyCapacity
           step == IF next.event.kind # "delta" THEN "done" ELSE d.pc
<1>1. d \in ClientStates /\ d.pc = "live"
  BY DEF ReadReply
<1>2. \/ /\ Len(log) - d.pos > ReplyCapacity
         /\ client' = [client EXCEPT ![c] = [d EXCEPT !.pos = behind, !.lagged = TRUE]]
      \/ /\ d.pos < Len(log)
         /\ client' = [client EXCEPT ![c] = [d EXCEPT !.got = got, !.pos = pos, !.pc = step]]
  BY DEF ReadReply, Behind, CatchUp, Set
<1>3. step = IF IsDelta(next) THEN "live" ELSE "done"
  BY <1>1 DEF IsDelta
<1> HIDE DEF d, next, got, pos, behind, step
<1>4. d.got \in Seq(Events) /\ d.pos \in Nat /\ Len(log) \in Nat
  BY <1>1, ClientFields
<1>5. CASE /\ Len(log) - d.pos > ReplyCapacity
           /\ client' = [client EXCEPT ![c] = [d EXCEPT !.pos = behind, !.lagged = TRUE]]
  <2> DEFINE e == [d EXCEPT !.pos = behind, !.lagged = TRUE]
  <2>5. Len(log) - d.pos > ReplyCapacity
    BY <1>5
  <2>1. behind \in Nat
    BY <1>4, <2>5 DEF behind
  <2>2. client' = [client EXCEPT ![c] = e]
    BY <1>5
  <2>3. /\ e \in ClientStates /\ e.reply = d.reply /\ e.over = d.over /\ e.pos = behind
        /\ e.lagged = TRUE /\ e.got = d.got /\ e.todo = d.todo /\ e.pc = d.pc
    BY <1>1, <2>1 DEF ClientStates
  <2> HIDE DEF e
  <2>4. client' \in [Clients -> ClientStates] /\ client'[c] = e
        /\ \A x \in Clients : x # c => client'[x] = client[x]
    BY <2>2, <2>3
  <2> QED
    BY <1>1, <2>3, <2>4, <2>5 DEF d, behind
<1>6. CASE /\ d.pos < Len(log)
           /\ client' = [client EXCEPT ![c] = [d EXCEPT !.got = got, !.pos = pos, !.pc = step]]
  <2> DEFINE e == [d EXCEPT !.got = got, !.pos = pos, !.pc = step]
  <2>1. next \in Events
    BY <1>4, <1>6 DEF next
  <2>2. got \in Seq(Events) /\ pos \in Nat /\ step \in {"live", "done"}
    BY <1>3, <1>4, <2>1 DEF got, pos
  <2>3. client' = [client EXCEPT ![c] = e]
    BY <1>6
  <2>4. /\ e \in ClientStates /\ e.reply = d.reply /\ e.over = d.over /\ e.pos = pos
        /\ e.lagged = d.lagged /\ e.got = got /\ e.todo = d.todo /\ e.pc = step
    BY <1>1, <2>2 DEF ClientStates
  <2>6. d.pos < Len(log)
    BY <1>6
  <2> HIDE DEF e
  <2>5. client' \in [Clients -> ClientStates] /\ client'[c] = e
        /\ \A x \in Clients : x # c => client'[x] = client[x]
    BY <2>3, <2>4
  <2> QED
    BY <1>1, <1>3, <2>4, <2>5, <2>6 DEF d, got, pos, next
<1> QED
  BY <1>2, <1>5, <1>6

\* What a step leaves of the other turns' channels, and of its own.
Channel(t, events, open) ==
    /\ queue' \in [Turns -> Queues]
    /\ \A u \in Turns : u # t => queue'[u] = queue[u]
    /\ queue'[t].events = events /\ queue'[t].open = open

\* A turn's steps leave its channel as it was, or one event longer.
LEMMA TurnChannel ==
    ASSUME queue \in [Turns -> Queues], deltas \in [Turns -> 0..MaxDeltas], NEW t \in Turns
    PROVE  /\ Start(t) => Channel(t, << >>, TRUE)
           /\ Refuse(t) \/ StartUp(t) \/ Record(t) \/ Err(t) \/ Panic(t)
                  => Channel(t, queue[t].events, queue[t].open)
           /\ Delta(t) => Channel(t, Sent(t, Text(deltas[t] + 1)).events, queue[t].open)
           /\ End(t) => Channel(t, Sent(t, Last("completed")).events, queue[t].open)
           /\ Fail(t) => Channel(t, Sent(t, Last("failed")).events, queue[t].open)
<1> USE TurnStreamsAssumption
<1>1. queue[t] \in Queues /\ deltas[t] \in 0..MaxDeltas
  OBVIOUS
<1>2. ASSUME NEW q \in Queues, queue' = [queue EXCEPT ![t] = q]
      PROVE  Channel(t, q.events, q.open)
  BY <1>2 DEF Channel
<1>3. ASSUME Start(t) PROVE Channel(t, << >>, TRUE)
  <2> DEFINE q == [events |-> << >>, open |-> TRUE, senders |-> TRUE]
  <2>1. q \in Queues /\ q.events = << >> /\ q.open = TRUE
    <3>1. << >> \in Seq(Frames)
      OBVIOUS
    <3> QED
      BY <3>1 DEF Queues
  <2>2. queue' = [queue EXCEPT ![t] = q]
    BY <1>3 DEF Start
  <2> HIDE DEF q
  <2>3. Channel(t, q.events, q.open)
    BY <1>2, <2>1, <2>2
  <2> QED
    BY <2>1, <2>3
<1>4. ASSUME Refuse(t) \/ StartUp(t) \/ Record(t) \/ Err(t)
      PROVE  Channel(t, queue[t].events, queue[t].open)
  <2>1. queue' = queue
    BY <1>4 DEF Refuse, StartUp, Record, Err
  <2> QED
    BY <2>1 DEF Channel
<1>5. ASSUME Panic(t) PROVE Channel(t, queue[t].events, queue[t].open)
  <2> DEFINE q == queue[t]
             r == [q EXCEPT !.senders = FALSE]
  <2>1. queue' = [queue EXCEPT ![t] = r]
    BY <1>5 DEF Panic
  <2>2. q \in Queues
    BY <1>1
  <2> HIDE DEF q
  <2>3. r \in Queues /\ r.events = q.events /\ r.open = q.open
    BY <2>2 DEF Queues
  <2> HIDE DEF r
  <2>4. Channel(t, r.events, r.open)
    BY <1>2, <2>1, <2>3
  <2> QED
    BY <2>3, <2>4 DEF q
<1>6. ASSUME Delta(t) PROVE Channel(t, Sent(t, Text(deltas[t] + 1)).events, queue[t].open)
  <2>1. deltas[t] < MaxDeltas /\ deltas' = [deltas EXCEPT ![t] = @ + 1]
        /\ queue' = [queue EXCEPT ![t] = Sent(t, Text(deltas'[t]))]
    BY <1>6 DEF Delta
  <2>2. deltas'[t] = deltas[t] + 1 /\ deltas[t] + 1 \in 1..MaxDeltas
    BY <1>1, <2>1
  <2> DEFINE frame == Text(deltas[t] + 1)
             q == Sent(t, frame)
  <2>3. frame \in Frames
    BY <2>2, FrameTyped
  <2>4. queue' = [queue EXCEPT ![t] = q]
    BY <2>1, <2>2
  <2> HIDE DEF frame
  <2>5. q \in Queues /\ q.open = queue[t].open
    BY <1>1, <2>3, SentIs
  <2> HIDE DEF q
  <2>6. Channel(t, q.events, q.open)
    BY <1>2, <2>4, <2>5
  <2> QED
    BY <2>5, <2>6 DEF q, frame
<1>7. ASSUME NEW frame \in Frames, queue' = [queue EXCEPT ![t] = LastSent(t, frame)]
      PROVE  Channel(t, Sent(t, frame).events, queue[t].open)
  <2> DEFINE q == LastSent(t, frame)
  <2>1. q \in Queues /\ q.open = queue[t].open /\ q.events = Sent(t, frame).events
    BY <1>1, SentIs
  <2>2. queue' = [queue EXCEPT ![t] = q]
    BY <1>7
  <2> HIDE DEF q
  <2>3. Channel(t, q.events, q.open)
    BY <1>2, <2>1, <2>2
  <2> QED
    BY <2>1, <2>3
<1>8. Last("completed") \in Frames /\ Last("failed") \in Frames
  BY FrameTyped
<1>9. End(t) => Channel(t, Sent(t, Last("completed")).events, queue[t].open)
  BY <1>7, <1>8 DEF End
<1>10. Fail(t) => Channel(t, Sent(t, Last("failed")).events, queue[t].open)
  BY <1>7, <1>8 DEF Fail
<1> QED
  BY <1>3, <1>4, <1>5, <1>6, <1>9, <1>10

\* The reader takes the first event, and closes the channel with the last.
LEMMA ReaderChannel ==
    ASSUME queue \in [Turns -> Queues], NEW t \in Turns
    PROVE  /\ Relay(t) => \/ /\ IsLast(Head(queue[t].events))
                             /\ Channel(t, << >>, FALSE)
                          \/ /\ ~IsLast(Head(queue[t].events))
                             /\ Channel(t, Tail(queue[t].events), TRUE)
           /\ RelayEnds(t) => Channel(t, queue[t].events, FALSE)
           /\ Leave(t) => Channel(t, << >>, FALSE)
<1> DEFINE q == queue[t]
<1>1. q \in Queues
  OBVIOUS
<1>2. q.events \in Seq(Frames) /\ << >> \in Seq(Frames)
  BY <1>1 DEF Queues
<1>3. ASSUME NEW e \in Seq(Frames), NEW o \in BOOLEAN,
             queue' = [queue EXCEPT ![t] = [q EXCEPT !.events = e, !.open = o]]
      PROVE  Channel(t, e, o)
  <2> DEFINE r == [q EXCEPT !.events = e, !.open = o]
  <2>1. queue' = [queue EXCEPT ![t] = r]
    BY <1>3
  <2> HIDE DEF q
  <2>2. r \in Queues /\ r.events = e /\ r.open = o
    BY <1>1 DEF Queues
  <2> HIDE DEF r
  <2> QED
    BY <2>1, <2>2 DEF Channel
<1>4. ASSUME Relay(t)
      PROVE  \/ IsLast(Head(q.events)) /\ Channel(t, << >>, FALSE)
             \/ ~IsLast(Head(q.events)) /\ Channel(t, Tail(q.events), TRUE)
  <2> DEFINE last == IsLast(Head(q.events))
             e == IF last THEN << >> ELSE Tail(q.events)
             o == ~last
  <2>1. q.events # << >>
        /\ queue' = [queue EXCEPT ![t].events = IF last THEN << >> ELSE Tail(q.events),
                                  ![t].open = ~last]
    BY <1>4 DEF Relay, IsLast
  <2>2. queue' = [queue EXCEPT ![t] = [q EXCEPT !.events = e, !.open = o]]
    BY <2>1
  <2>3. e \in Seq(Frames) /\ o \in BOOLEAN
    BY <1>2, <2>1
  <2> HIDE DEF e, o
  <2>4. Channel(t, e, o)
    BY <1>3, <2>2, <2>3
  <2> QED
    BY <2>4 DEF e, o
<1>5. ASSUME RelayEnds(t) PROVE Channel(t, q.events, FALSE)
  <2> DEFINE r == [q EXCEPT !.open = FALSE]
  <2>1. queue' = [queue EXCEPT ![t] = r]
    BY <1>5 DEF RelayEnds
  <2> HIDE DEF q
  <2>2. r \in Queues /\ r.events = q.events /\ r.open = FALSE
    BY <1>1 DEF Queues
  <2> HIDE DEF r
  <2> QED
    BY <2>1, <2>2 DEF Channel
<1>6. ASSUME Leave(t) PROVE Channel(t, << >>, FALSE)
  <2>1. queue' = [queue EXCEPT ![t] = [q EXCEPT !.events = << >>, !.open = FALSE]]
    BY <1>6 DEF Leave
  <2> HIDE DEF q
  <2> QED
    BY <1>2, <1>3, <2>1
<1> QED
  BY <1>4, <1>5, <1>6

\* What an item makes of an answer.
LEMMA ToldIs ==
    ASSUME answer \in [Turns -> Answers], NEW t \in Turns, NEW frame \in Frames,
           Told(t, frame)
    PROVE  /\ answer' \in [Turns -> Answers]
           /\ \A u \in Turns : u # t => answer'[u] = answer[u]
           /\ \/ /\ kind[t] = "send" /\ UNCHANGED replies
                 /\ answer'[t].text = IF IsLast(frame) THEN answer[t].text
                                      ELSE Append(answer[t].text, frame.n)
                 /\ answer'[t].status = IF IsLast(frame) THEN frame.kind ELSE "streaming"
              \/ kind[t] = "reply" /\ Update(t, frame) /\ UNCHANGED answer
<1> DEFINE a == answer[t]
<1>1. a \in Answers
  OBVIOUS
<1>2. a.text \in Seq(1..MaxDeltas) /\ a.status \in Statuses
  BY <1>1 DEF Answers
<1>3. /\ frame.kind \in {"delta", "completed", "failed"}
      /\ frame.kind = "delta" => frame.n \in 1..MaxDeltas
  BY FrameTyped
<1>4. ASSUME NEW b \in Answers, answer' = [answer EXCEPT ![t] = b]
      PROVE  /\ answer' \in [Turns -> Answers] /\ answer'[t] = b
             /\ \A u \in Turns : u # t => answer'[u] = answer[u]
  BY <1>4
<1>5. CASE kind[t] = "reply" /\ Update(t, frame) /\ UNCHANGED answer
  BY <1>5
<1>6. CASE /\ kind[t] = "send" /\ UNCHANGED replies
           /\ answer' = [answer EXCEPT ![t] =
                  IF frame.kind = "delta"
                  THEN [text |-> Append(@.text, frame.n), status |-> "streaming"]
                  ELSE [@ EXCEPT !.status = frame.kind]]
  <2>1. CASE ~IsLast(frame)
    <3> DEFINE text == Append(a.text, frame.n)
               b == [text |-> text, status |-> "streaming"]
    <3>1. text \in Seq(1..MaxDeltas)
      BY <1>2, <1>3, <2>1 DEF IsLast
    <3>2. answer' = [answer EXCEPT ![t] = b]
      BY <1>6, <2>1 DEF IsLast
    <3>5. kind[t] = "send" /\ UNCHANGED replies
      BY <1>6
    <3> HIDE DEF text
    <3>3. b \in Answers /\ b.text = text /\ b.status = "streaming"
      BY <3>1 DEF Answers, Statuses
    <3> HIDE DEF b
    <3>4. /\ answer' \in [Turns -> Answers] /\ answer'[t] = b
          /\ \A u \in Turns : u # t => answer'[u] = answer[u]
      BY <1>4, <3>2, <3>3
    <3> QED
      BY <2>1, <3>3, <3>4, <3>5 DEF text
  <2>2. CASE IsLast(frame)
    <3> DEFINE how == frame.kind
               b == [a EXCEPT !.status = how]
    <3>1. how \in Statuses
      BY <1>3, <2>2 DEF IsLast, Statuses
    <3>2. answer' = [answer EXCEPT ![t] = b]
      BY <1>6, <2>2 DEF IsLast
    <3>5. kind[t] = "send" /\ UNCHANGED replies
      BY <1>6
    <3> HIDE DEF how, a
    <3>3. b \in Answers /\ b.text = a.text /\ b.status = how
      BY <1>1, <3>1 DEF Answers
    <3> HIDE DEF b
    <3>4. /\ answer' \in [Turns -> Answers] /\ answer'[t] = b
          /\ \A u \in Turns : u # t => answer'[u] = answer[u]
      BY <1>4, <3>2, <3>3
    <3> QED
      BY <2>2, <3>3, <3>4, <3>5 DEF how, a
  <2> QED
    BY <2>1, <2>2
<1> QED
  BY <1>5, <1>6 DEF Told

\* What a refusal makes of it.
LEMMA RefuseIs ==
    ASSUME answer \in [Turns -> Answers], NEW t \in Turns, Refuse(t)
    PROVE  /\ answer' \in [Turns -> Answers]
           /\ \A u \in Turns : u # t => answer'[u] = answer[u]
           /\ \/ /\ kind[t] = "send" /\ UNCHANGED replies
                 /\ answer'[t].text = answer[t].text /\ answer'[t].status = "failed"
              \/ kind[t] = "reply" /\ Update(t, Last("failed")) /\ UNCHANGED answer
<1> DEFINE a == answer[t]
<1>1. a \in Answers
  OBVIOUS
<1>2. CASE kind[t] = "reply" /\ Update(t, Last("failed")) /\ UNCHANGED answer
  BY <1>2
<1>3. CASE /\ kind[t] = "send" /\ UNCHANGED replies
           /\ answer' = [answer EXCEPT ![t].status = "failed"]
  <2> DEFINE b == [a EXCEPT !.status = "failed"]
  <2>1. answer' = [answer EXCEPT ![t] = b]
    BY <1>3
  <2>2. kind[t] = "send" /\ UNCHANGED replies
    BY <1>3
  <2> HIDE DEF a
  <2>3. b \in Answers /\ b.text = a.text /\ b.status = "failed"
    BY <1>1 DEF Answers, Statuses
  <2> HIDE DEF b
  <2> QED
    BY <2>1, <2>2, <2>3 DEF a
<1> QED
  BY <1>2, <1>3 DEF Refuse

---------------------------------------------------------------------------
(* Types.                                                                   *)

Types ==
    /\ lock \in Turns \union {NoTurn}
    /\ pc \in [Turns -> {"idle", "asked"} \union Running \union Over]
    /\ kind \in [Turns -> {"none", "send", "reply"}] /\ deltas \in [Turns -> 0..MaxDeltas]
    /\ queue \in [Turns -> Queues]
    /\ relay \in [Turns -> {"none", "starting", "streaming", "done"}]
    /\ answer \in [Turns -> Answers] /\ replies \in Seq(Replies)
    /\ handle \in [Turns -> Nat] /\ client \in [Clients -> ClientStates]
    /\ faults \in 0..MaxFaults

\* Types is the type invariant with its records named.
LEMMA TypesAre ==
    TypeOK <=> Types
  BY DEF TypeOK, Types, ClientStates, Queues

\* A step keeps the types, and the clients at replies that are there.
LEMMA TypeStep ==
    ASSUME TypeInv, [Next]_vars
    PROVE  TypeInv'
<1> USE TurnStreamsAssumption
<1>1. Types /\ Subscribed
  BY TypesAre DEF TypeInv
<1> SUFFICES Types' /\ Subscribed'
  BY TypesAre, PTL DEF TypeInv
<1>2. Len(replies) \in Nat /\ \A h \in 1..Len(replies) : replies[h] \in Replies
  BY <1>1 DEF Types
<1>3. Last("completed") \in Frames /\ Last("failed") \in Frames
  BY FrameTyped
<1>4. {"startup", "body", "hooks", "failing", "refused", "ended", "failed", "dead"} \subseteq
          {"idle", "asked"} \union Running \union Over
  BY DEF Running, Over
<1>5. Fault => faults' \in 0..MaxFaults
  BY <1>1 DEF Fault, Types
<1>6. ASSUME UNCHANGED <<client, replies>> PROVE Subscribed'
  BY <1>1, <1>6 DEF Subscribed
<1>7. ASSUME NEW t \in Turns, NEW frame \in Frames, Update(t, frame)
      PROVE  /\ replies' \in Seq(Replies)
             /\ UNCHANGED client => Subscribed'
  <2>1. replies' \in Seq(Replies) /\ Len(replies') = Len(replies)
    BY <1>1, <1>7, UpdateTyped DEF Types
  <2> QED
    BY <1>1, <2>1 DEF Subscribed
<1>8. ASSUME NEW t \in Turns, AskSend(t) PROVE Types' /\ Subscribed'
  BY <1>1, <1>6, <1>8 DEF AskSend, Goto, Types
<1>9. ASSUME NEW t \in Turns, AskReply(t) PROVE Types' /\ Subscribed'
  <2>1. NewReply(t) \in Replies
    <3>1. << >> \in Seq(1..MaxDeltas) /\ << >> \in Seq(Events)
      OBVIOUS
    <3> QED
      BY <3>1 DEF NewReply, Replies, Statuses
  <2>2. replies' = Append(replies, NewReply(t))
    BY <1>9 DEF AskReply
  <2>3. replies' \in Seq(Replies) /\ Len(replies') = Len(replies) + 1
    BY <1>1, <2>1, <2>2 DEF Types
  <2>4. handle' \in [Turns -> Nat]
    BY <1>1, <1>2, <1>9, <2>3 DEF AskReply, Types
  <2>5. Subscribed'
    BY <1>1, <1>2, <1>9, <2>3 DEF AskReply, Subscribed
  <2>6. pc' \in [Turns -> {"idle", "asked"} \union Running \union Over]
        /\ kind' \in [Turns -> {"none", "send", "reply"}]
        /\ relay' \in [Turns -> {"none", "starting", "streaming", "done"}]
    BY <1>1, <1>9 DEF AskReply, Goto, Types
  <2> QED
    BY <1>1, <1>9, <2>3, <2>4, <2>5, <2>6 DEF AskReply, Types
<1>10. ASSUME NEW t \in Turns, TurnStep(t) \/ Panic(t) PROVE Types' /\ Subscribed'
  <2>1. queue' \in [Turns -> Queues]
    BY <1>1, <1>10, TurnChannel DEF Types, TurnStep, Channel
  <2>2. pc' \in [Turns -> {"idle", "asked"} \union Running \union Over]
    <3>1. ASSUME NEW step \in {"startup", "body", "hooks", "failing", "refused", "ended",
                               "failed", "dead"},
                 Goto(t, step)
          PROVE  pc' \in [Turns -> {"idle", "asked"} \union Running \union Over]
      BY <1>1, <1>4, <3>1 DEF Goto, Types
    <3>2. CASE Start(t) \/ Refuse(t) \/ StartUp(t) \/ Record(t) \/ End(t)
      BY <3>1, <3>2 DEF Start, Refuse, StartUp, Record, End
    <3>3. CASE Delta(t)
      BY <1>1, <3>3 DEF Delta, Types
    <3>4. CASE Err(t) \/ Fail(t) \/ Panic(t)
      BY <3>1, <3>4 DEF Err, Fail, Panic
    <3> QED
      BY <1>10, <3>2, <3>3, <3>4 DEF TurnStep
  <2>3. deltas' \in [Turns -> 0..MaxDeltas]
    <3>1. CASE Delta(t)
      <4>1. deltas[t] + 1 \in 0..MaxDeltas
        BY <1>1, <3>1 DEF Delta, Types
      <4> QED
        BY <1>1, <3>1, <4>1 DEF Delta, Types
    <3>2. CASE ~Delta(t)
      BY <1>1, <1>10, <3>2
         DEF TurnStep, Panic, Start, Refuse, StartUp, Record, End, Err, Fail, Types
    <3> QED
      BY <3>1, <3>2
  <2>4. lock' \in Turns \union {NoTurn}
    BY <1>1, <1>10 DEF TurnStep, Start, Refuse, StartUp, Delta, Record, End, Err, Fail, Panic, Types
  <2>5. relay' \in [Turns -> {"none", "starting", "streaming", "done"}]
    BY <1>1, <1>10 DEF TurnStep, Start, Refuse, StartUp, Delta, Record, End, Err, Fail, Panic, Types
  <2>6. faults' \in 0..MaxFaults
    BY <1>1, <1>5, <1>10 DEF TurnStep, Start, Refuse, StartUp, Delta, Record, End, Err, Fail, Panic, Types
  <2>7. UNCHANGED <<kind, handle, client>>
    BY <1>10 DEF TurnStep, Start, Refuse, StartUp, Delta, Record, End, Err, Fail, Panic
  <2>8. answer' \in [Turns -> Answers] /\ replies' \in Seq(Replies) /\ Subscribed'
    <3>1. CASE Refuse(t)
      <4>1. /\ answer' \in [Turns -> Answers]
            /\ (UNCHANGED replies \/ Update(t, Last("failed")))
        BY <1>1, <3>1, RefuseIs DEF Types
      <4>2. CASE UNCHANGED replies
        BY <1>1, <1>6, <2>7, <4>1, <4>2 DEF Types
      <4>3. CASE Update(t, Last("failed"))
        BY <1>3, <1>7, <2>7, <4>1, <4>3
      <4> QED
        BY <4>1, <4>2, <4>3
    <3>2. CASE ~Refuse(t)
      <4>1. UNCHANGED <<answer, replies>>
        BY <1>10, <3>2 DEF TurnStep, Start, StartUp, Delta, Record, End, Err, Fail, Panic
      <4> QED
        BY <1>1, <1>6, <2>7, <4>1 DEF Types
    <3> QED
      BY <3>1, <3>2
  <2> QED
    BY <1>1, <2>1, <2>2, <2>3, <2>4, <2>5, <2>6, <2>7, <2>8 DEF Types
<1>11. ASSUME NEW t \in Turns, Relay(t) \/ RelayEnds(t) \/ Leave(t) PROVE Types' /\ Subscribed'
  <2>1. queue' \in [Turns -> Queues]
    BY <1>1, <1>11, ReaderChannel DEF Types, Channel
  <2>2. relay' \in [Turns -> {"none", "starting", "streaming", "done"}]
    BY <1>1, <1>11 DEF Relay, RelayEnds, Leave, Types
  <2>3. UNCHANGED <<lock, pc, kind, deltas, handle, client, faults>>
    BY <1>11 DEF Relay, RelayEnds, Leave
  <2>4. answer' \in [Turns -> Answers]
        /\ (UNCHANGED replies \/ (\E frame \in Frames : Update(t, frame)))
    <3>1. CASE Relay(t)
      <4> DEFINE frame == Head(queue[t].events)
      <4>1. queue[t].events \in Seq(Frames) /\ queue[t].events # << >>
        BY <1>1, <3>1 DEF Relay, Types, Queues
      <4>2. frame \in Frames /\ Told(t, frame)
        BY <3>1, <4>1 DEF Relay
      <4> HIDE DEF frame
      <4> QED
        BY <1>1, <4>2, ToldIs DEF Types
    <3>2. CASE RelayEnds(t) \/ Leave(t)
      BY <1>1, <1>3, <3>2 DEF RelayEnds, Leave, Types
    <3> QED
      BY <1>11, <3>1, <3>2
  <2>5. replies' \in Seq(Replies) /\ Subscribed'
    BY <1>1, <1>6, <1>7, <2>3, <2>4 DEF Types
  <2> QED
    BY <1>1, <2>1, <2>2, <2>3, <2>4, <2>5 DEF Types
<1>12. ASSUME NEW c \in Clients, (\E t \in Turns : Subscribe(c, t)) \/ Follow(c)
       PROVE  Types' /\ Subscribed'
  <2>1. UNCHANGED <<lock, pc, kind, deltas, queue, relay, answer, replies, handle, faults>>
    BY <1>12 DEF Subscribe, Follow, ReadHistory, ReadReply
  <2>2. /\ client' \in [Clients -> ClientStates]
        /\ \A x \in Clients : x # c => client'[x] = client[x]
        /\ client'[c].reply \in 1..Len(replies)
    <3>1. CASE \E t \in Turns : Subscribe(c, t)
      BY <1>1, <3>1, SubscribeIs DEF Types
    <3>2. CASE ReadHistory(c)
      BY <1>1, <3>2, ReadHistoryIs DEF Types, Subscribed
    <3>3. CASE ReadReply(c)
      <4>1. client[c].reply \in 1..Len(replies)
        BY <1>1, <3>3 DEF ReadReply, Subscribed
      <4>2. replies[client[c].reply] \in Replies
        BY <1>2, <4>1
      <4>3. replies[client[c].reply].events \in Seq(Events)
        BY <4>2 DEF Replies
      <4> QED
        BY <1>1, <3>3, <4>1, <4>3, ReadReplyIs DEF Types
    <3> QED
      BY <1>12, <3>1, <3>2, <3>3 DEF Follow
  <2>3. Subscribed'
    BY <1>1, <2>1, <2>2 DEF Subscribed
  <2> QED
    BY <1>1, <2>1, <2>2, <2>3 DEF Types
<1>13. CASE Lapse
  BY <1>1, <1>6, <1>13 DEF Lapse, Types
<1>14. CASE Restart
  <2>1. NoQueue \in Queues
    <3>1. << >> \in Seq(Frames)
      OBVIOUS
    <3> QED
      BY <3>1 DEF NoQueue, Queues
  <2>2. queue' \in [Turns -> Queues]
    BY <1>14, <2>1 DEF Restart
  <2>3. Away \in ClientStates /\ Away.pc = "away"
    BY DEF Away, ClientStates
  <2>4. client' \in [Clients -> ClientStates] /\ Subscribed'
    BY <1>14, <2>3 DEF Restart, Subscribed
  <2>5. pc' \in [Turns -> {"idle", "asked"} \union Running \union Over]
    BY <1>1, <1>4, <1>14 DEF Restart, Types
  <2>6. relay' \in [Turns -> {"none", "starting", "streaming", "done"}]
    BY <1>1, <1>14 DEF Restart, Types
  <2>7. replies' \in Seq(Replies)
    BY <1>14 DEF Restart
  <2> QED
    BY <1>1, <1>5, <1>14, <2>2, <2>4, <2>5, <2>6, <2>7 DEF Restart, Types
<1>15. CASE UNCHANGED vars
  BY <1>1, <1>6, <1>15 DEF vars, Types
<1> QED
  BY <1>8, <1>9, <1>10, <1>11, <1>12, <1>13, <1>14, <1>15 DEF Next

\* The program starts with everything empty.
LEMMA TypeInit == Init => TypeInv
<1> SUFFICES ASSUME Init PROVE Types /\ Subscribed
  BY TypesAre DEF TypeInv
<1> USE TurnStreamsAssumption
<1>1. NoQueue \in Queues
  <2>1. << >> \in Seq(Frames)
    OBVIOUS
  <2> QED
    BY <2>1 DEF NoQueue, Queues
<1>2. Away \in ClientStates /\ Away.pc = "away"
  BY DEF Away, ClientStates
<1>3. NoAnswer \in Answers
  <2>1. << >> \in Seq(1..MaxDeltas)
    OBVIOUS
  <2> QED
    BY <2>1 DEF NoAnswer, Answers, Statuses
<1> QED
  BY <1>1, <1>2, <1>3 DEF Init, Types, Subscribed

\* Every variable keeps its type.
THEOREM TypeCorrect == Spec => []TypeOK
<1>1. Spec => []TypeInv
  BY TypeInit, TypeStep, PTL DEF Spec
<1>2. TypeInv => TypeOK
  BY DEF TypeInv
<1> QED
  BY <1>1, <1>2, PTL

---------------------------------------------------------------------------
(* What clients receive.                                                    *)

\* The fields of a record.
LEMMA ReplyFields ==
    ASSUME NEW r \in Replies
    PROVE  /\ r.events \in Seq(Events) /\ Len(r.events) \in Nat
           /\ \A i \in 1..Len(r.events) : r.events[i] \in Events
           /\ r.text \in Seq(1..MaxDeltas) /\ Len(r.text) \in Nat
           /\ r.next_sequence \in Nat /\ r.terminal \in BOOLEAN
<1>1. r.events \in Seq(Events) /\ r.text \in Seq(1..MaxDeltas)
      /\ r.next_sequence \in Nat /\ r.terminal \in BOOLEAN
  BY DEF Replies
<1> QED
  BY <1>1

\* A record that has been told more than another one.
Longer(r, s) ==
    /\ Len(r.events) <= Len(s.events)
    /\ \A i \in 1..Len(r.events) : s.events[i] = r.events[i]
    /\ r.terminal => s = r

\* An update numbers its event in turn, and keeps the earlier ones.
LEMMA LoggedUpdated ==
    ASSUME NEW r \in Replies, NEW frame \in Frames, Logged(r)
    PROVE  Logged(Updated(r, frame)) /\ Longer(r, Updated(r, frame))
<1>1. CASE r.terminal
  <2>1. Updated(r, frame) = r
    BY <1>1, UpdatedIs
  <2> QED
    BY <2>1, ReplyFields DEF Longer
<1>2. CASE ~r.terminal
  <2> DEFINE s == Updated(r, frame)
             e == [sequence |-> r.next_sequence, event |-> frame]
             n == Len(r.events)
  <2>1. s.events = Append(r.events, e) /\ s.next_sequence = r.next_sequence + 1
        /\ s.terminal = (frame.kind # "delta")
    BY <1>2, UpdatedIs
  <2>2. r.events \in Seq(Events) /\ n \in Nat /\ r.next_sequence = n + 1
        /\ \A i \in 1..n : r.events[i].sequence = i /\ IsDelta(r.events[i])
    BY <1>2, ReplyFields DEF Logged
  <2>3. e \in Events /\ e.sequence = n + 1 /\ e.event = frame
    BY <2>2 DEF Events
  <2> HIDE DEF s, e, n
  <2>4. Len(s.events) = n + 1 /\ s.events[n + 1] = e
        /\ \A i \in 1..n : s.events[i] = r.events[i]
    BY <2>1, <2>2, <2>3, Appended DEF n
  <2>5. \A i \in 1..(n + 1) : i \in 1..n \/ i = n + 1
    BY <2>2
  <2>6. s.terminal <=> ~IsDelta(e)
    BY <2>1, <2>3 DEF IsDelta
  <2>7. \A i \in 1..(n + 1) : s.events[i].sequence = i
    BY <2>2, <2>3, <2>4, <2>5
  <2>8. \A i \in 1..(n + 1) : IsDelta(s.events[i]) <=> ~(s.terminal /\ i = n + 1)
    <3>1. TAKE i \in 1..(n + 1)
    <3>2. CASE i \in 1..n
      <4>1. i # n + 1
        BY <2>2, <3>2
      <4>2. s.events[i] = r.events[i] /\ IsDelta(r.events[i])
        BY <2>2, <2>4, <3>2
      <4>3. IsDelta(s.events[i])
        BY <4>2
      <4> QED
        BY <4>1, <4>3
    <3>3. CASE i = n + 1
      BY <2>4, <2>6, <3>3
    <3> QED
      BY <2>5, <3>2, <3>3
  <2>9. Logged(s)
    BY <2>1, <2>2, <2>4, <2>7, <2>8 DEF Logged
  <2>10. Longer(r, s)
    BY <1>2, <2>2, <2>4 DEF Longer, n
  <2> QED
    BY <2>9, <2>10 DEF s
<1> QED
  BY <1>1, <1>2, ReplyFields

\* A client is where it was when its reply is told more.
LEMMA FollowsLonger ==
    ASSUME NEW d \in ClientStates, NEW r \in Replies, NEW s \in Replies,
           Follows(d, r), Longer(r, s)
    PROVE  Follows(d, s)
<1>1. CASE r.terminal
  BY <1>1 DEF Longer
<1>2. CASE ~r.terminal
  <2> DEFINE old == r.events
             new == s.events
  <2>1. /\ d.pos \in Nat /\ Len(old) \in Nat /\ Len(new) \in Nat
        /\ Len(d.got) \in Nat /\ Len(d.todo) \in Nat
    BY ClientFields, ReplyFields
  <2>2. d.pos <= Len(old) /\ Len(old) <= Len(new) /\ \A i \in 1..Len(old) : new[i] = old[i]
    BY DEF Follows, Longer
  <2>3. \A i \in 1..d.pos : new[i] = old[i]
    BY <2>1, <2>2
  <2>4. ~d.over
    BY <1>2 DEF Follows
  <2>5. \A i \in 1..Len(d.got) : d.got[i] = new[d.got[i].sequence]
    <3>1. ASSUME NEW i \in 1..Len(d.got)
          PROVE  d.got[i].sequence \in 1..d.pos /\ d.got[i] = old[d.got[i].sequence]
      BY DEF Follows
    <3> HIDE DEF old, new
    <3> QED
      BY <2>3, <3>1
  <2>6. d.pc = "history" => \A i \in 1..Len(d.todo) : d.todo[i] = new[Len(d.got) + i]
    <3> SUFFICES ASSUME d.pc = "history", NEW i \in 1..Len(d.todo)
                 PROVE  d.todo[i] = new[Len(d.got) + i]
      OBVIOUS
    <3>1. Len(d.got) + Len(d.todo) = d.pos /\ d.todo[i] = old[Len(d.got) + i]
      BY DEF Follows
    <3>2. \A a, b, p \in Nat : \A j \in 1..b : a + b = p => a + j \in 1..p
      OBVIOUS
    <3>3. Len(d.got) + i \in 1..d.pos
      BY <2>1, <3>1, <3>2
    <3> QED
      BY <2>3, <3>1, <3>3
  <2>7. d.pos <= Len(new)
    BY <2>1, <2>2
  <2>8. d.pc \in {"history", "live"} => \A i \in 1..d.pos : IsDelta(new[i])
    BY <2>3, <2>4 DEF Follows
  <2> HIDE DEF old, new
  <2> QED
    BY <2>4, <2>5, <2>6, <2>7, <2>8 DEF Follows, new
<1> QED
  BY <1>1, <1>2, ReplyFields

\* A client that subscribes is at the end of what has been told.
LEMMA FollowsFirst ==
    ASSUME NEW d \in ClientStates, NEW r \in Replies, Logged(r),
           d.pc = "history", d.todo = r.events, d.over = r.terminal, d.pos = Len(r.events),
           d.lagged = FALSE, d.got = << >>
    PROVE  Follows(d, r)
<1>1. Len(r.events) \in Nat /\ Len(d.got) = 0
  BY ReplyFields
<1>2. \A i \in 1..Len(r.events) : ~r.terminal => IsDelta(r.events[i])
  BY DEF Logged
<1>3. \A i \in 1..Len(d.todo) : d.todo[i] = r.events[Len(d.got) + i]
  BY <1>1
<1>4. \A i \in 1..Len(d.got) : FALSE
  BY <1>1
<1>5. \A i \in 1..(Len(d.got) - 1) : FALSE
  BY <1>1
<1>6. d.pos <= Len(r.events) /\ Len(d.got) + Len(d.todo) = d.pos
  BY <1>1
<1> QED
  BY <1>2, <1>3, <1>4, <1>5, <1>6 DEF Follows

\* One more event received.
LEMMA GotMore ==
    ASSUME NEW d \in ClientStates, NEW x \in ClientStates, NEW r \in Replies, NEW e \in Events,
           Follows(d, r), x.got = Append(d.got, e), x.lagged = d.lagged,
           d.pos <= x.pos, x.pos <= Len(r.events), e.sequence \in 1..x.pos,
           e = r.events[e.sequence],
           ~d.lagged => e.sequence = Len(d.got) + 1,
           \A i \in 1..Len(d.got) : IsDelta(d.got[i]),
           \A i \in 1..Len(d.got) : d.got[i].sequence < e.sequence
    PROVE  /\ Len(x.got) = Len(d.got) + 1 /\ x.got[Len(x.got)] = e
           /\ \A i \in 1..Len(x.got) :
                 /\ x.got[i].sequence \in 1..x.pos
                 /\ x.got[i] = r.events[x.got[i].sequence]
                 /\ ~x.lagged => x.got[i].sequence = i
                 /\ ~IsDelta(x.got[i]) => i = Len(x.got)
           /\ \A i \in 1..(Len(x.got) - 1) : x.got[i].sequence < x.got[i + 1].sequence
<1> DEFINE n == Len(d.got)
<1>1. d.got \in Seq(Events) /\ n \in Nat /\ d.pos \in Nat /\ x.pos \in Nat
  BY ClientFields
<1>2. Len(x.got) = n + 1 /\ x.got[n + 1] = e /\ \A i \in 1..n : x.got[i] = d.got[i]
  BY <1>1, Appended
<1>3. \A i \in 1..(n + 1) : i \in 1..n \/ i = n + 1
  BY <1>1
<1>4. \A i \in 1..n : /\ d.got[i].sequence \in 1..d.pos
                      /\ d.got[i] = r.events[d.got[i].sequence]
                      /\ ~d.lagged => d.got[i].sequence = i
  BY DEF Follows
<1>5. \A i \in 1..n : d.got[i].sequence \in 1..x.pos
  BY <1>1, <1>4
<1> HIDE DEF n
<1>6. ASSUME NEW i \in 1..(n + 1)
      PROVE  /\ x.got[i].sequence \in 1..x.pos
             /\ x.got[i] = r.events[x.got[i].sequence]
             /\ ~x.lagged => x.got[i].sequence = i
             /\ ~IsDelta(x.got[i]) => i = n + 1
  <2>1. CASE i \in 1..n
    <3>1. x.got[i] = d.got[i] /\ IsDelta(d.got[i])
      BY <1>2, <2>1 DEF n
    <3>2. IsDelta(x.got[i])
      BY <3>1
    <3> QED
      BY <1>4, <1>5, <2>1, <3>1, <3>2
  <2>2. CASE i = n + 1
    BY <1>2, <2>2 DEF n
  <2> QED
    BY <1>3, <2>1, <2>2
<1>7. ASSUME NEW i \in 1..n PROVE x.got[i].sequence < x.got[i + 1].sequence
  <2>1. CASE i = n
    <3>1. x.got[i] = d.got[i] /\ x.got[i + 1] = e
      BY <1>2, <2>1
    <3> QED
      BY <3>1 DEF n
  <2>2. CASE i # n
    <3>1. i \in 1..(n - 1) /\ i + 1 \in 1..n
      BY <1>1, <2>2
    <3>2. x.got[i] = d.got[i] /\ x.got[i + 1] = d.got[i + 1]
      BY <1>2, <3>1
    <3>3. d.got[i].sequence < d.got[i + 1].sequence
      BY <3>1 DEF Follows, n
    <3> QED
      BY <3>2, <3>3
  <2> QED
    BY <2>1, <2>2
<1>8. Len(x.got) - 1 = n
  BY <1>1, <1>2
<1> QED
  BY <1>2, <1>6, <1>7, <1>8 DEF n

\* A client that takes an event of its history, or has taken the last one.
LEMMA FollowsHistory ==
    ASSUME NEW d \in ClientStates, NEW x \in ClientStates, NEW r \in Replies,
           Logged(r), Follows(d, r), d.pc = "history",
           x.over = d.over, x.pos = d.pos, x.lagged = d.lagged,
           \/ /\ d.todo # << >> /\ x.got = Append(d.got, Head(d.todo))
              /\ x.todo = Tail(d.todo) /\ x.pc = "history"
           \/ /\ d.todo = << >> /\ x.got = d.got /\ x.todo = d.todo
              /\ x.pc = IF d.over THEN "done" ELSE "live"
    PROVE  Follows(x, r)
<1> DEFINE n == Len(d.got)
           m == Len(r.events)
<1>1. /\ d.got \in Seq(Events) /\ d.todo \in Seq(Events) /\ n \in Nat /\ Len(d.todo) \in Nat
      /\ d.pos \in Nat /\ m \in Nat
  BY ClientFields, ReplyFields
<1>2. /\ d.pos <= m /\ (d.over => r.terminal /\ d.pos = m)
      /\ ~d.lagged /\ n + Len(d.todo) = d.pos
      /\ \A i \in 1..Len(d.todo) : d.todo[i] = r.events[n + i]
      /\ \A i \in 1..n : d.got[i].sequence = i /\ d.got[i] = r.events[i]
  <2>1. d.pos <= m /\ (d.over => r.terminal /\ d.pos = m)
    BY DEF Follows
  <2>2. /\ ~d.lagged /\ n + Len(d.todo) = d.pos
        /\ \A i \in 1..Len(d.todo) : d.todo[i] = r.events[n + i]
    BY DEF Follows
  <2>3. \A i \in 1..n : /\ d.got[i] = r.events[d.got[i].sequence]
                        /\ ~d.lagged => d.got[i].sequence = i
    BY DEF Follows
  <2> HIDE DEF n, m
  <2>4. \A i \in 1..n : d.got[i].sequence = i /\ d.got[i] = r.events[i]
    BY <2>2, <2>3
  <2> QED
    BY <2>1, <2>2, <2>4
<1>3. ~d.over => \A i \in 1..d.pos : IsDelta(r.events[i])
  BY DEF Follows
<1>7. d.pos <= m /\ n + Len(d.todo) = d.pos
  BY <1>2
<1>4. \A i \in 1..m : /\ r.events[i].sequence = i
                      /\ IsDelta(r.events[i]) <=> ~(r.terminal /\ i = m)
  BY DEF Logged
<1>5. CASE /\ d.todo # << >> /\ x.got = Append(d.got, Head(d.todo))
           /\ x.todo = Tail(d.todo) /\ x.pc = "history"
  <2> DEFINE e == Head(d.todo)
  <2>1. /\ e \in Events /\ e = d.todo[1] /\ Len(d.todo) > 0
        /\ Len(x.todo) = Len(d.todo) - 1
        /\ \A i \in 1..Len(x.todo) : x.todo[i] = d.todo[i + 1]
    BY <1>1, <1>5, Taken
  <2>0. Len(d.todo) > 0 /\ Len(x.todo) = Len(d.todo) - 1
    BY <2>1
  <2>2. /\ n + 1 \in 1..d.pos /\ n + 1 \in 1..m /\ 1 \in 1..Len(d.todo)
        /\ (n + 1) + (Len(d.todo) - 1) = d.pos
        /\ \A i \in 1..(Len(d.todo) - 1) :
              i + 1 \in 1..Len(d.todo) /\ n + (i + 1) = (n + 1) + i
    <3> DEFINE k == Len(d.todo)
               p == d.pos
    <3>1. n \in Nat /\ k \in Nat /\ p \in Nat /\ m \in Nat
      BY <1>1
    <3>2. n + k = p /\ p <= m /\ k > 0
      BY <1>7, <2>0
    <3> HIDE DEF n, k, p, m
    <3>3. /\ n + 1 \in 1..p /\ n + 1 \in 1..m /\ 1 \in 1..k
          /\ (n + 1) + (k - 1) = p
          /\ \A i \in 1..(k - 1) : i + 1 \in 1..k /\ n + (i + 1) = (n + 1) + i
      BY <3>1, <3>2
    <3> QED
      BY <3>3 DEF k, p
  <2>3. e = r.events[n + 1] /\ e.sequence = n + 1
    BY <1>2, <1>4, <2>1, <2>2
  <2>4. \A i \in 1..n : IsDelta(d.got[i])
    <3>1. \A i \in 1..n : i \in 1..m /\ i # m
      BY <1>1, <2>2
    <3> QED
      BY <1>2, <1>4, <3>1
  <2>5. \A i \in 1..n : d.got[i].sequence < e.sequence
    BY <1>1, <1>2, <2>3
  <2> HIDE DEF e
  <2>6. /\ Len(x.got) = n + 1
        /\ \A i \in 1..Len(x.got) :
              /\ x.got[i].sequence \in 1..x.pos
              /\ x.got[i] = r.events[x.got[i].sequence]
              /\ ~x.lagged => x.got[i].sequence = i
              /\ ~IsDelta(x.got[i]) => i = Len(x.got)
        /\ \A i \in 1..(Len(x.got) - 1) : x.got[i].sequence < x.got[i + 1].sequence
    <3>1. x.got = Append(d.got, e)
      BY <1>5 DEF e
    <3>2. e.sequence \in 1..x.pos /\ d.pos <= x.pos /\ x.pos <= m
      BY <1>1, <1>2, <2>2, <2>3
    <3>3. e = r.events[e.sequence] /\ (~d.lagged => e.sequence = n + 1)
      BY <2>3
    <3>4. e \in Events /\ x.lagged = d.lagged /\ x.pos <= Len(r.events)
      BY <2>1, <3>2
    <3>5. /\ Len(x.got) = Len(d.got) + 1
          /\ \A i \in 1..Len(x.got) :
                /\ x.got[i].sequence \in 1..x.pos
                /\ x.got[i] = r.events[x.got[i].sequence]
                /\ ~x.lagged => x.got[i].sequence = i
                /\ ~IsDelta(x.got[i]) => i = Len(x.got)
          /\ \A i \in 1..(Len(x.got) - 1) : x.got[i].sequence < x.got[i + 1].sequence
      BY <2>4, <2>5, <3>1, <3>2, <3>3, <3>4, GotMore
    <3> QED
      BY <3>5
  <2>7. ASSUME NEW i \in 1..Len(x.todo) PROVE x.todo[i] = r.events[Len(x.got) + i]
    <3>1. i + 1 \in 1..Len(d.todo) /\ n + (i + 1) = (n + 1) + i
      BY <2>0, <2>2
    <3>2. x.todo[i] = d.todo[i + 1] /\ d.todo[i + 1] = r.events[n + (i + 1)]
      BY <1>2, <2>1, <3>1
    <3> QED
      BY <2>6, <3>1, <3>2
  <2>10. Len(x.got) = n + 1
    BY <2>6
  <2>8. Len(x.got) + Len(x.todo) = x.pos
    BY <2>0, <2>2, <2>10
  <2>9. x.pc = "history"
    BY <1>5
  <2> QED
    BY <1>2, <1>3, <2>6, <2>7, <2>8, <2>9 DEF Follows
<1>6. CASE /\ d.todo = << >> /\ x.got = d.got /\ x.todo = d.todo
           /\ x.pc = IF d.over THEN "done" ELSE "live"
  <2>1. n = d.pos
    BY <1>1, <1>2, <1>6
  <2>2. d.over => n > 0 /\ ~IsDelta(d.got[n])
    <3> SUFFICES ASSUME d.over PROVE n > 0 /\ ~IsDelta(d.got[n])
      OBVIOUS
    <3>1. n = m /\ r.terminal /\ m > 0
      BY <1>2, <2>1 DEF Logged
    <3>2. n \in 1..n /\ n \in 1..m
      BY <1>1, <3>1
    <3>3. d.got[n] = r.events[n] /\ ~IsDelta(r.events[n])
      BY <1>2, <1>4, <3>1, <3>2
    <3> QED
      BY <1>1, <3>1, <3>3
  <2>3. /\ x.got = d.got
        /\ x.pc = "done" => d.over
        /\ x.pc = "live" => ~d.over
        /\ x.pc # "history" /\ (x.over <=> d.over) /\ x.pos = d.pos /\ ~x.lagged
    BY <1>2, <1>6
  <2>4. /\ x.pos <= m /\ (x.over => r.terminal /\ x.pos = m)
        /\ x.pc \in {"history", "live"} /\ ~x.over => \A i \in 1..x.pos : IsDelta(r.events[i])
        /\ x.pc = "live" => ~x.over /\ Len(x.got) = x.pos
        /\ x.pc = "done" => Len(x.got) > 0 /\ ~IsDelta(x.got[Len(x.got)])
    BY <1>2, <1>3, <2>1, <2>2, <2>3
  <2>5. /\ \A i \in 1..n :
              /\ d.got[i].sequence \in 1..d.pos
              /\ d.got[i] = r.events[d.got[i].sequence]
              /\ d.got[i].sequence = i
              /\ ~IsDelta(d.got[i]) => i = n
        /\ \A i \in 1..(n - 1) : d.got[i].sequence < d.got[i + 1].sequence
    BY <1>2 DEF Follows
  <2>6. /\ \A i \in 1..Len(x.got) :
              /\ x.got[i].sequence \in 1..x.pos
              /\ x.got[i] = r.events[x.got[i].sequence]
              /\ ~x.lagged => x.got[i].sequence = i
              /\ ~IsDelta(x.got[i]) => i = Len(x.got)
        /\ \A i \in 1..(Len(x.got) - 1) : x.got[i].sequence < x.got[i + 1].sequence
    BY <2>3, <2>5
  <2> QED
    BY <2>3, <2>4, <2>6 DEF Follows
<1> QED
  BY <1>5, <1>6

\* A client that takes the next event of the channel, or skips some.
LEMMA FollowsChannel ==
    ASSUME NEW d \in ClientStates, NEW x \in ClientStates, NEW r \in Replies,
           Logged(r), Follows(d, r), d.pc = "live",
           x.over = d.over, x.todo = d.todo,
           \/ /\ Len(r.events) - d.pos > ReplyCapacity
              /\ x.pos = Len(r.events) - ReplyCapacity /\ x.lagged = TRUE
              /\ x.got = d.got /\ x.pc = "live"
           \/ /\ d.pos < Len(r.events) /\ x.pos = d.pos + 1 /\ x.lagged = d.lagged
              /\ x.got = Append(d.got, r.events[d.pos + 1])
              /\ x.pc = IF IsDelta(r.events[d.pos + 1]) THEN "live" ELSE "done"
    PROVE  Follows(x, r)
<1> USE TurnStreamsAssumption
<1> DEFINE n == Len(d.got)
           m == Len(r.events)
<1>1. d.got \in Seq(Events) /\ n \in Nat /\ d.pos \in Nat /\ m \in Nat
  BY ClientFields, ReplyFields
<1>2. /\ d.pos <= m /\ ~d.over /\ (~d.lagged => n = d.pos)
      /\ \A i \in 1..d.pos : IsDelta(r.events[i])
      /\ \A i \in 1..n : /\ d.got[i].sequence \in 1..d.pos
                         /\ d.got[i] = r.events[d.got[i].sequence]
                         /\ ~d.lagged => d.got[i].sequence = i
                         /\ ~IsDelta(d.got[i]) => i = n
      /\ \A i \in 1..(n - 1) : d.got[i].sequence < d.got[i + 1].sequence
  BY DEF Follows
<1>3. \A i \in 1..m : /\ r.events[i].sequence = i
                      /\ IsDelta(r.events[i]) <=> ~(r.terminal /\ i = m)
  BY DEF Logged
<1>4. CASE /\ m - d.pos > ReplyCapacity
           /\ x.pos = m - ReplyCapacity /\ x.lagged = TRUE
           /\ x.got = d.got /\ x.pc = "live"
  <2>1. x.pos \in Nat /\ x.pos < m /\ d.pos <= x.pos
    BY <1>1, <1>4
  <2>2. \A i \in 1..x.pos : i \in 1..m /\ i # m
    BY <1>1, <2>1
  <2>3. \A i \in 1..x.pos : IsDelta(r.events[i])
    BY <1>3, <2>2
  <2>4. \A i \in 1..n : d.got[i].sequence \in 1..x.pos
    BY <1>1, <1>2, <2>1
  <2>5. x.pos <= m
    BY <1>1, <2>1
  <2>6. x.pc = "live" /\ ~x.over /\ x.lagged = TRUE /\ x.got = d.got
    BY <1>2, <1>4
  <2> QED
    BY <1>2, <2>3, <2>4, <2>5, <2>6 DEF Follows
<1>5. CASE /\ d.pos < m /\ x.pos = d.pos + 1 /\ x.lagged = d.lagged
           /\ x.got = Append(d.got, r.events[d.pos + 1])
           /\ x.pc = IF IsDelta(r.events[d.pos + 1]) THEN "live" ELSE "done"
  <2> DEFINE e == r.events[d.pos + 1]
  <2>1. d.pos + 1 \in 1..m /\ x.pos \in Nat /\ x.pos <= m /\ d.pos <= x.pos
    BY <1>1, <1>5
  <2>2. e \in Events /\ e.sequence = d.pos + 1 /\ e = r.events[e.sequence]
    BY <1>3, <2>1, ReplyFields
  <2>3. \A i \in 1..n : IsDelta(d.got[i]) /\ d.got[i].sequence < e.sequence
    <3>1. \A j \in 1..d.pos : j < d.pos + 1
      BY <1>1
    <3> TAKE i \in 1..n
    <3>2. d.got[i].sequence \in 1..d.pos /\ d.got[i] = r.events[d.got[i].sequence]
      BY <1>2
    <3>3. IsDelta(r.events[d.got[i].sequence])
      BY <1>2, <3>2
    <3>4. d.got[i].sequence < d.pos + 1
      BY <3>1, <3>2
    <3> HIDE DEF e
    <3>5. d.got[i].sequence < e.sequence
      BY <2>2, <3>4
    <3>6. IsDelta(d.got[i])
      BY <3>2, <3>3
    <3> QED
      BY <3>5, <3>6
  <2>4. e.sequence \in 1..x.pos /\ (~d.lagged => e.sequence = n + 1)
    BY <1>1, <1>2, <1>5, <2>2
  <2>5. x.got = Append(d.got, e) /\ x.lagged = d.lagged
    BY <1>5
  <2>6. \A i \in 1..x.pos : i \in 1..d.pos \/ i = d.pos + 1
    BY <1>1, <1>5
  <2> HIDE DEF e
  <2>7. /\ Len(x.got) = n + 1 /\ x.got[Len(x.got)] = e
        /\ \A i \in 1..Len(x.got) :
              /\ x.got[i].sequence \in 1..x.pos
              /\ x.got[i] = r.events[x.got[i].sequence]
              /\ ~x.lagged => x.got[i].sequence = i
              /\ ~IsDelta(x.got[i]) => i = Len(x.got)
        /\ \A i \in 1..(Len(x.got) - 1) : x.got[i].sequence < x.got[i + 1].sequence
    BY <2>1, <2>2, <2>3, <2>4, <2>5, GotMore
  <2>8. x.pc = IF IsDelta(e) THEN "live" ELSE "done"
    BY <1>5 DEF e
  <2>9. IsDelta(e) => \A i \in 1..x.pos : IsDelta(r.events[i])
    BY <1>2, <2>6 DEF e
  <2>10. /\ x.pos <= m /\ ~x.over /\ Len(x.got) > 0
         /\ (~x.lagged => Len(x.got) = x.pos)
    BY <1>1, <1>2, <1>5, <2>1, <2>5, <2>7
  <2> QED
    BY <2>7, <2>8, <2>9, <2>10 DEF Follows
<1> QED
  BY <1>4, <1>5

\* A step keeps the records numbered, and every client in place.
LEMMA ReadingStep ==
    ASSUME TypeInv, TypeInv', Reading, [Next]_vars
    PROVE  Reading'
<1>1. Types /\ Types' /\ Subscribed
  BY TypesAre, PTL DEF TypeInv
<1>2. Len(replies) \in Nat /\ \A h \in 1..Len(replies) : replies[h] \in Replies /\ Logged(replies[h])
  BY <1>1 DEF Types, Reading
<1>3. Len(replies') \in Nat /\ \A h \in 1..Len(replies') : replies'[h] \in Replies
  BY <1>1 DEF Types
<1>4. \A c \in Clients : client[c].pc # "away" =>
          /\ client[c] \in ClientStates /\ client[c].reply \in 1..Len(replies)
          /\ Follows(client[c], replies[client[c].reply])
  BY <1>1 DEF Reading, Subscribed, Types
<1>5. ASSUME NEW r \in Replies PROVE Longer(r, r)
  BY ReplyFields DEF Longer
<1>6. ASSUME UNCHANGED client, Len(replies) <= Len(replies'),
             \A h \in 1..Len(replies) : Longer(replies[h], replies'[h]),
             \A h \in 1..Len(replies') : Logged(replies'[h])
      PROVE  Reading'
  <2>1. ASSUME NEW c \in Clients, client[c].pc # "away"
        PROVE  Follows(client[c], replies'[client[c].reply])
    <3> DEFINE h == client[c].reply
    <3>1. h \in 1..Len(replies) /\ h \in 1..Len(replies')
      BY <1>2, <1>3, <1>4, <1>6, <2>1
    <3>2. /\ Follows(client[c], replies[h]) /\ Longer(replies[h], replies'[h])
          /\ client[c] \in ClientStates /\ replies[h] \in Replies /\ replies'[h] \in Replies
      BY <1>2, <1>3, <1>4, <1>6, <2>1, <3>1
    <3> QED
      BY <3>2, FollowsLonger
  <2> QED
    BY <1>6, <2>1 DEF Reading
<1>7. ASSUME UNCHANGED <<client, replies>> PROVE Reading'
  BY <1>7 DEF Reading
<1>8. ASSUME NEW t \in Turns, NEW frame \in Frames, Update(t, frame), UNCHANGED client
      PROVE  Reading'
  <2>1. /\ Len(replies') = Len(replies)
        /\ \A h \in 1..Len(replies) : h # handle[t] => replies'[h] = replies[h]
        /\ handle[t] \in 1..Len(replies) =>
              replies'[handle[t]] = Updated(replies[handle[t]], frame)
    BY <1>1, <1>8, UpdateTyped DEF Types
  <2>2. ASSUME NEW h \in 1..Len(replies)
        PROVE  Logged(replies'[h]) /\ Longer(replies[h], replies'[h])
    <3>1. CASE h = handle[t]
      BY <1>2, <2>1, <3>1, LoggedUpdated
    <3>2. CASE h # handle[t]
      BY <1>2, <1>5, <2>1, <3>2
    <3> QED
      BY <3>1, <3>2
  <2> QED
    BY <1>2, <1>6, <1>8, <2>1, <2>2
<1>9. ASSUME NEW t \in Turns, AskReply(t) PROVE Reading'
  <2> DEFINE r == NewReply(t)
  <2>1. replies' = Append(replies, r) /\ UNCHANGED client
    BY <1>9 DEF AskReply
  <2>2. Logged(r) /\ r \in Replies
    <3>1. r.events = << >> /\ r.next_sequence = 1 /\ r.terminal = FALSE
      BY DEF NewReply
    <3>2. << >> \in Seq(1..MaxDeltas) /\ << >> \in Seq(Events)
      OBVIOUS
    <3>3. r \in Replies
      BY <3>2 DEF NewReply, Replies, Statuses
    <3> HIDE DEF r
    <3> QED
      BY <3>1, <3>3 DEF Logged
  <2> HIDE DEF r
  <2>3. Len(replies') = Len(replies) + 1 /\ replies'[Len(replies) + 1] = r
        /\ \A h \in 1..Len(replies) : replies'[h] = replies[h]
    BY <1>1, <2>1, <2>2, Appended DEF Types
  <2>4. \A h \in 1..Len(replies) : Longer(replies[h], replies'[h])
    BY <1>2, <1>5, <2>3
  <2>5. \A h \in 1..Len(replies') : h \in 1..Len(replies) \/ h = Len(replies) + 1
    BY <1>2, <2>3
  <2>6. \A h \in 1..Len(replies') : Logged(replies'[h])
    BY <1>2, <2>2, <2>3, <2>5
  <2>7. Len(replies) <= Len(replies')
    BY <1>2, <2>3
  <2> QED
    BY <1>6, <2>1, <2>4, <2>6, <2>7
<1>10. ASSUME NEW t \in Turns, TurnStep(t) \/ Panic(t) PROVE Reading'
  <2>1. UNCHANGED client
    BY <1>10 DEF TurnStep, Start, Refuse, StartUp, Delta, Record, End, Err, Fail, Panic
  <2>2. CASE Refuse(t)
    <3>1. UNCHANGED replies \/ Update(t, Last("failed"))
      BY <1>1, <2>2, RefuseIs DEF Types
    <3> QED
      BY <1>7, <1>8, <2>1, <3>1, FrameTyped
  <2>3. CASE ~Refuse(t)
    <3>1. UNCHANGED replies
      BY <1>10, <2>3 DEF TurnStep, Start, StartUp, Delta, Record, End, Err, Fail, Panic
    <3> QED
      BY <1>7, <2>1, <3>1
  <2> QED
    BY <2>2, <2>3
<1>11. ASSUME NEW t \in Turns, Relay(t) \/ RelayEnds(t) \/ Leave(t) PROVE Reading'
  <2>1. UNCHANGED client
    BY <1>11 DEF Relay, RelayEnds, Leave
  <2>2. CASE Relay(t)
    <3> DEFINE frame == Head(queue[t].events)
    <3>1. queue[t].events \in Seq(Frames) /\ queue[t].events # << >>
      BY <1>1, <2>2 DEF Relay, Types, Queues
    <3>2. frame \in Frames /\ Told(t, frame)
      BY <2>2, <3>1 DEF Relay
    <3> HIDE DEF frame
    <3>3. UNCHANGED replies \/ Update(t, frame)
      BY <1>1, <3>2, ToldIs DEF Types
    <3> QED
      BY <1>7, <1>8, <2>1, <3>2, <3>3
  <2>3. CASE RelayEnds(t) \/ Leave(t)
    <3>1. UNCHANGED replies \/ Update(t, Last("failed"))
      BY <2>3 DEF RelayEnds, Leave
    <3> QED
      BY <1>7, <1>8, <2>1, <3>1, FrameTyped
  <2> QED
    BY <1>11, <2>2, <2>3
<1>12. ASSUME NEW c \in Clients, (\E t \in Turns : Subscribe(c, t)) \/ Follow(c)
       PROVE  Reading'
  <2>1. UNCHANGED replies
    BY <1>12 DEF Subscribe, Follow, ReadHistory, ReadReply
  <2>2. \A x \in Clients : client'[x] \in ClientStates
    BY <1>1 DEF Types
  <2>3. /\ \A x \in Clients : x # c => client'[x] = client[x]
        /\ Follows(client'[c], replies[client'[c].reply])
    <3>1. ASSUME NEW t \in Turns, Subscribe(c, t)
          PROVE  /\ \A x \in Clients : x # c => client'[x] = client[x]
                 /\ Follows(client'[c], replies[client'[c].reply])
      <4> DEFINE x == client'[c]
                 r == replies[handle[t]]
      <4>1. /\ \A y \in Clients : y # c => client'[y] = client[y]
            /\ handle[t] \in 1..Len(replies)
            /\ x.pc = "history" /\ x.reply = handle[t] /\ x.todo = r.events
            /\ x.over = r.terminal /\ x.pos = Len(r.events)
            /\ x.lagged = FALSE /\ x.got = << >>
        BY <1>1, <3>1, SubscribeIs DEF Types
      <4>2. x \in ClientStates /\ r \in Replies /\ Logged(r)
        BY <1>2, <2>2, <4>1
      <4>3. Follows(x, r)
        <5> HIDE DEF x, r
        <5> QED
          BY <4>1, <4>2, FollowsFirst
      <4> QED
        BY <4>1, <4>3
    <3> DEFINE d == client[c]
               x == client'[c]
               r == replies[d.reply]
    <3>2. ASSUME Follow(c)
          PROVE  d \in ClientStates /\ x \in ClientStates /\ r \in Replies
                 /\ Logged(r) /\ Follows(d, r)
      <4>1. d.pc # "away"
        BY <3>2 DEF Follow, ReadHistory, ReadReply
      <4> QED
        BY <1>2, <1>4, <2>2, <4>1
    <3>3. CASE ReadHistory(c)
      <4>1. /\ \A y \in Clients : y # c => client'[y] = client[y]
            /\ d.pc = "history" /\ x.reply = d.reply
            /\ x.over = d.over /\ x.pos = d.pos /\ x.lagged = d.lagged
            /\ \/ /\ d.todo # << >> /\ x.got = Append(d.got, Head(d.todo))
                  /\ x.todo = Tail(d.todo) /\ x.pc = "history"
               \/ /\ d.todo = << >> /\ x.got = d.got /\ x.todo = d.todo
                  /\ x.pc = IF d.over THEN "done" ELSE "live"
        BY <1>1, <3>3, ReadHistoryIs DEF Types
      <4>2. Follows(x, r)
        <5>1. d \in ClientStates /\ x \in ClientStates /\ r \in Replies
              /\ Logged(r) /\ Follows(d, r)
          BY <3>2, <3>3 DEF Follow
        <5> HIDE DEF d, x, r
        <5> QED
          BY <4>1, <5>1, FollowsHistory
      <4> QED
        BY <4>1, <4>2
    <3>4. CASE ReadReply(c)
      <4>1. d \in ClientStates /\ x \in ClientStates /\ r \in Replies
            /\ Logged(r) /\ Follows(d, r)
        BY <3>2, <3>4 DEF Follow
      <4>2. r.events \in Seq(Events)
        BY <4>1, ReplyFields
      <4>5. PICK log \in Seq(Events) : log = r.events
        BY <4>2
      <4>6. /\ \A y \in Clients : y # c => client'[y] = client[y]
            /\ d.pc = "live" /\ x.reply = d.reply /\ x.over = d.over /\ x.todo = d.todo
            /\ \/ /\ Len(log) - d.pos > ReplyCapacity
                  /\ x.pos = Len(log) - ReplyCapacity /\ x.lagged = TRUE
                  /\ x.got = d.got /\ x.pc = "live"
               \/ /\ d.pos < Len(log) /\ x.pos = d.pos + 1 /\ x.lagged = d.lagged
                  /\ x.got = Append(d.got, log[d.pos + 1])
                  /\ x.pc = IF IsDelta(log[d.pos + 1]) THEN "live" ELSE "done"
        <5>1. client \in [Clients -> ClientStates] /\ log = replies[client[c].reply].events
          BY <1>1, <4>5 DEF Types
        <5> QED
          BY <3>4, <4>5, <5>1, ReadReplyIs
      <4>3. /\ \A y \in Clients : y # c => client'[y] = client[y]
            /\ d.pc = "live" /\ x.reply = d.reply /\ x.over = d.over /\ x.todo = d.todo
            /\ \/ /\ Len(r.events) - d.pos > ReplyCapacity
                  /\ x.pos = Len(r.events) - ReplyCapacity /\ x.lagged = TRUE
                  /\ x.got = d.got /\ x.pc = "live"
               \/ /\ d.pos < Len(r.events) /\ x.pos = d.pos + 1 /\ x.lagged = d.lagged
                  /\ x.got = Append(d.got, r.events[d.pos + 1])
                  /\ x.pc = IF IsDelta(r.events[d.pos + 1]) THEN "live" ELSE "done"
        BY <4>5, <4>6
      <4>4. Follows(x, r)
        <5> HIDE DEF d, x, r
        <5> QED
          BY <4>1, <4>3, FollowsChannel
      <4> QED
        BY <4>3, <4>4
    <3> QED
      BY <1>12, <3>1, <3>3, <3>4 DEF Follow
  <2> QED
    BY <1>2, <1>4, <2>1, <2>3 DEF Reading
<1>13. CASE Lapse
  BY <1>7, <1>13 DEF Lapse
<1>14. CASE Restart
  <2>1. Len(replies') = 0 /\ \A c \in Clients : client'[c].pc = "away"
    BY <1>14 DEF Restart, Away
  <2>2. \A h \in 1..Len(replies') : FALSE
    BY <2>1
  <2> QED
    BY <2>1, <2>2 DEF Reading
<1>15. CASE UNCHANGED vars
  BY <1>7, <1>15 DEF vars
<1>16. ASSUME NEW t \in Turns, AskSend(t) PROVE Reading'
  BY <1>7, <1>16 DEF AskSend
<1> QED
  BY <1>9, <1>10, <1>11, <1>12, <1>13, <1>14, <1>15, <1>16 DEF Next

\* A sequence that agrees with another one from the start is its beginning.
LEMMA Beginning ==
    ASSUME NEW S, NEW s \in Seq(S), NEW e \in Seq(S), Len(s) <= Len(e),
           \A i \in 1..Len(s) : s[i] = e[i]
    PROVE  s = SubSeq(e, 1, Len(s))
<1> DEFINE b == SubSeq(e, 1, Len(s))
<1>1. Len(s) \in Nat /\ Len(e) \in Nat
  OBVIOUS
<1>2. b \in Seq(S) /\ Len(b) = Len(s) /\ \A i \in 1..Len(s) : b[i] = e[i]
  BY <1>1
<1> HIDE DEF b
<1>3. DOMAIN b = 1..Len(b) /\ DOMAIN s = 1..Len(s)
  BY <1>2
<1>4. s = b
  BY <1>2, <1>3
<1> QED
  BY <1>4 DEF b

\* What a client that follows a reply has received is a run of the reply's
\* events, for any number of clients, deltas and faults and any capacity of
\* the channel: stream_reply_events and subscribe of the reply store.
THEOREM ReadersSeeRun == Spec => []ReaderSeesRun
<1>1. Init => Reading
  BY DEF Init, Reading, Away
<1>2. Spec => [](TypeInv /\ Reading)
  BY <1>1, TypeInit, TypeStep, ReadingStep, PTL DEF Spec
<1>3. TypeInv /\ Reading => ReaderSeesRun
  <2> SUFFICES ASSUME TypeInv, Reading, NEW c \in Clients,
                      client[c].pc \in {"history", "live", "done"}
               PROVE  LET got == client[c].got
                          events == replies[client[c].reply].events IN
                      /\ \A i \in DOMAIN got : got[i] = events[got[i].sequence]
                      /\ \A i \in 1..(Len(got) - 1) : got[i].sequence < got[i + 1].sequence
                      /\ ~client[c].lagged => got = SubSeq(events, 1, Len(got))
                      /\ \A i \in DOMAIN got : got[i].event.kind # "delta" => i = Len(got)
                      /\ client[c].pc = "done" =>
                            got # << >> /\ got[Len(got)].event.kind # "delta"
    BY DEF ReaderSeesRun
  <2> DEFINE d == client[c]
             r == replies[d.reply]
             got == d.got
             events == r.events
  <2>1. d \in ClientStates /\ r \in Replies /\ Follows(d, r)
    <3>1. Types /\ Subscribed /\ d.pc # "away"
      BY TypesAre DEF TypeInv
    <3>2. d \in ClientStates /\ d.reply \in 1..Len(replies)
      BY <3>1 DEF Types, Subscribed
    <3> QED
      BY <3>1, <3>2 DEF Types, Reading
  <2>2. /\ got \in Seq(Events) /\ events \in Seq(Events) /\ Len(got) \in Nat
        /\ Len(events) \in Nat /\ d.pos \in Nat /\ DOMAIN got = 1..Len(got)
    BY <2>1, ClientFields, ReplyFields
  <2>3. /\ d.pos <= Len(events)
        /\ \A i \in 1..Len(got) :
              /\ got[i].sequence \in 1..d.pos
              /\ got[i] = events[got[i].sequence]
              /\ ~d.lagged => got[i].sequence = i
              /\ ~IsDelta(got[i]) => i = Len(got)
        /\ \A i \in 1..(Len(got) - 1) : got[i].sequence < got[i + 1].sequence
        /\ d.pc = "done" => Len(got) > 0 /\ ~IsDelta(got[Len(got)])
    BY <2>1 DEF Follows
  <2> HIDE DEF got, events, r, d
  <2>4. ASSUME ~d.lagged PROVE got = SubSeq(events, 1, Len(got))
    <3>1. \A i \in 1..Len(got) : got[i] = events[i]
      BY <2>3, <2>4
    <3>2. Len(got) <= Len(events)
      <4>1. CASE Len(got) = 0
        BY <2>2, <4>1
      <4>2. CASE Len(got) # 0
        <5>1. Len(got) \in 1..Len(got)
          BY <2>2, <4>2
        <5>2. Len(got) \in 1..d.pos
          BY <2>3, <2>4, <5>1
        <5>3. d.pos <= Len(events)
          BY <2>3
        <5> QED
          BY <2>2, <5>2, <5>3
      <4> QED
        BY <4>1, <4>2
    <3> QED
      BY <2>2, <3>1, <3>2, Beginning
  <2>5. d.pc = "done" => got # << >> /\ got[Len(got)].event.kind # "delta"
    <3>1. d.pc = "done" => Len(got) > 0 /\ ~IsDelta(got[Len(got)])
      BY <2>3
    <3>2. Len(got) > 0 => got # << >>
      BY <2>2
    <3> QED
      BY <3>1, <3>2 DEF IsDelta
  <2>6. \A i \in DOMAIN got : got[i].event.kind # "delta" => i = Len(got)
    BY <2>2, <2>3 DEF IsDelta
  <2>7. \A i \in DOMAIN got : got[i] = events[got[i].sequence]
    BY <2>2, <2>3
  <2> QED
    BY <2>3, <2>4, <2>5, <2>6, <2>7 DEF got, events, r, d
<1> QED
  BY <1>2, <1>3, PTL

---------------------------------------------------------------------------
(* What a turn's answer says of it.                                         *)

Views == [
    pc : {"idle", "asked"} \union Running \union Over, kind : {"none", "send", "reply"},
    relay : {"none", "starting", "streaming", "done"}, deltas : 0..MaxDeltas,
    open : BOOLEAN, events : Seq(Frames), ours : BOOLEAN, text : Seq(1..MaxDeltas),
    status : Statuses, over : BOOLEAN]

Ending(p) == Last(IF p = "ended" THEN "completed" ELSE "failed")

\* The fields of a view.
LEMMA ViewFields ==
    ASSUME NEW v \in Views
    PROVE  /\ v.events \in Seq(Frames) /\ Len(v.events) \in Nat
           /\ v.text \in Seq(1..MaxDeltas) /\ Len(v.text) \in Nat
           /\ v.deltas \in Nat /\ v.deltas \in 0..MaxDeltas
           /\ v.ours \in BOOLEAN /\ v.over \in BOOLEAN /\ v.open \in BOOLEAN
           /\ v.kind \in {"none", "send", "reply"}
<1> USE TurnStreamsAssumption
<1>1. /\ v.events \in Seq(Frames) /\ v.text \in Seq(1..MaxDeltas) /\ v.deltas \in 0..MaxDeltas
      /\ v.ours \in BOOLEAN /\ v.over \in BOOLEAN /\ v.open \in BOOLEAN
      /\ v.kind \in {"none", "send", "reply"}
  BY DEF Views
<1> QED
  BY <1>1

\* A delta sent to the channel is the next one to be told after the others.
LEMMA QueuedDelta ==
    ASSUME NEW events \in Seq(Frames), NEW told \in Nat, NEW sent \in Nat,
           sent + 1 \in 1..MaxDeltas, NEW p, p \notin {"ended", "failed"},
           Queued(events, told, sent, p)
    PROVE  Queued(Append(events, Text(sent + 1)), told, sent + 1, p)
<1> DEFINE n == Len(events)
           e == Text(sent + 1)
           more == Append(events, e)
<1>1. n \in Nat /\ e \in Frames
  BY FrameTyped
<1> HIDE DEF e
<1>2. Len(more) = n + 1 /\ more[n + 1] = e /\ \A i \in 1..n : more[i] = events[i]
  BY <1>1, Appended
<1>3. told <= sent /\ n = sent - told
  BY DEF Queued
<1>4. \A i \in 1..n : i <= sent - told /\ events[i] = Text(told + i)
  BY <1>1, <1>3 DEF Queued
<1> HIDE DEF more, n
<1>5. told <= sent + 1 /\ n + 1 = (sent + 1) - told /\ told + (n + 1) = sent + 1
  BY <1>1, <1>3
<1>6. ASSUME NEW i \in 1..(n + 1)
      PROVE  i <= (sent + 1) - told /\ more[i] = Text(told + i)
  <2>1. i \in 1..n \/ i = n + 1
    BY <1>1
  <2>2. i <= (sent + 1) - told
    BY <1>1, <1>5
  <2>3. CASE i \in 1..n
    BY <1>2, <1>4, <2>2, <2>3
  <2>4. CASE i = n + 1
    BY <1>2, <1>5, <2>2, <2>4 DEF e
  <2> QED
    BY <2>1, <2>3, <2>4
<1>7. Queued(more, told, sent + 1, p)
  BY <1>2, <1>5, <1>6 DEF Queued
<1> QED
  BY <1>7 DEF more, e

\* What a turn says last follows the deltas.
LEMMA QueuedLast ==
    ASSUME NEW events \in Seq(Frames), NEW told \in Nat, NEW sent \in Nat,
           NEW p, p \notin {"ended", "failed"}, NEW q \in {"ended", "failed"},
           Queued(events, told, sent, p)
    PROVE  Queued(Append(events, Ending(q)), told, sent, q)
<1> DEFINE n == Len(events)
           e == Ending(q)
           more == Append(events, e)
<1>1. n \in Nat /\ e \in Frames
  BY FrameTyped DEF Ending
<1> HIDE DEF e
<1>2. Len(more) = n + 1 /\ more[n + 1] = e /\ \A i \in 1..n : more[i] = events[i]
  BY <1>1, Appended
<1>3. told <= sent /\ n = sent - told
  BY DEF Queued
<1>4. \A i \in 1..n : i <= sent - told /\ events[i] = Text(told + i)
  BY <1>1, <1>3 DEF Queued
<1> HIDE DEF more, n
<1>5. n + 1 = (sent - told) + 1 /\ ~(n + 1 <= sent - told)
  BY <1>1, <1>3
<1>6. ASSUME NEW i \in 1..(n + 1)
      PROVE  more[i] = IF i <= sent - told THEN Text(told + i) ELSE e
  <2>1. i \in 1..n \/ i = n + 1
    BY <1>1
  <2>3. CASE i \in 1..n
    BY <1>2, <1>4, <2>3
  <2>4. CASE i = n + 1
    BY <1>2, <1>5, <2>4
  <2> QED
    BY <2>1, <2>3, <2>4
<1>7. Queued(more, told, sent, q)
  BY <1>2, <1>3, <1>5, <1>6 DEF Queued, e, Ending
<1> QED
  BY <1>7 DEF more, e

\* The first event of a channel is the next delta, or how the turn ended.
LEMMA QueuedFirst ==
    ASSUME NEW events \in Seq(Frames), NEW told \in Nat, NEW sent \in Nat, NEW p,
           events # << >>, Queued(events, told, sent, p)
    PROVE  \/ Head(events) = Text(told + 1) /\ Queued(Tail(events), told + 1, sent, p)
           \/ Head(events) = Ending(p) /\ told = sent /\ p \in {"ended", "failed"}
<1> DEFINE n == Len(events)
           rest == Tail(events)
           m == IF p \in {"ended", "failed"} THEN 1 ELSE 0
<1>1. /\ n \in Nat /\ n > 0 /\ Len(rest) = n - 1 /\ Head(events) = events[1]
      /\ \A i \in 1..Len(rest) : rest[i] = events[i + 1]
  BY Taken
<1>2. told <= sent /\ n = (sent - told) + m
  BY DEF Queued
<1>3. \A i \in 1..n : events[i] = IF i <= sent - told THEN Text(told + i) ELSE Ending(p)
  BY DEF Queued, Ending
<1>4. m \in {0, 1} /\ (m = 1 <=> p \in {"ended", "failed"})
  OBVIOUS
<1>5. 1 \in 1..n
  BY <1>1
<1> HIDE DEF n, rest
<1>6. CASE told = sent
  <2>1. n = m
    <3> HIDE DEF m
    <3> QED
      BY <1>2, <1>4, <1>6
  <2>2. m = 1
    BY <1>1, <1>4, <2>1
  <2>3. ~(1 <= sent - told)
    BY <1>6
  <2> QED
    BY <1>1, <1>3, <1>4, <1>5, <1>6, <2>2, <2>3
<1>7. CASE told # sent
  <2> HIDE DEF m
  <2>1. 1 <= sent - told /\ told + 1 <= sent /\ Len(rest) = (sent - (told + 1)) + m
    BY <1>1, <1>2, <1>4, <1>7
  <2>2. ASSUME NEW i \in 1..(n - 1)
        PROVE  rest[i] = IF i <= sent - (told + 1) THEN Text((told + 1) + i) ELSE Ending(p)
    <3>1. /\ i + 1 \in 1..n /\ told + (i + 1) = (told + 1) + i
          /\ i + 1 <= sent - told <=> i <= sent - (told + 1)
      BY <1>1
    <3>2. rest[i] = events[i + 1]
      BY <1>1
    <3> QED
      BY <1>3, <3>1, <3>2
  <2>3. Queued(rest, told + 1, sent, p)
    BY <1>1, <2>1, <2>2 DEF Queued, Ending, m
  <2>4. Head(events) = Text(told + 1)
    BY <1>1, <1>3, <1>5, <2>1
  <2> QED
    BY <2>3, <2>4 DEF rest
<1> QED
  BY <1>6, <1>7

\* Steps of the turn that say nothing: it goes on, or dies.
LEMMA TellsOn ==
    ASSUME NEW v \in Views, NEW w \in Views, Tells(v), v.pc \in Running,
           w.pc \in Running \union {"dead"}, w.kind = v.kind, w.relay = v.relay,
           w.deltas = v.deltas, w.open = v.open, w.events = v.events, w.ours = v.ours,
           w.text = v.text, w.status = v.status, w.over = v.over
    PROVE  Tells(w)
<1>1. /\ v.pc \notin {"idle", "asked", "refused", "ended", "failed"}
      /\ w.pc \notin {"idle", "asked", "refused", "ended", "failed"}
  BY DEF Running
<1>2. v.status = "completed" => ~(v.kind = "send" \/ v.ours)
  BY <1>1 DEF Tells
<1>3. v.relay = "streaming" => Queued(w.events, Len(w.text), w.deltas, w.pc)
  BY <1>1 DEF Tells, Queued
<1> QED
  BY <1>1, <1>2, <1>3 DEF Tells

\* A turn starts with an empty channel.
LEMMA TellsStart ==
    ASSUME NEW v \in Views, NEW w \in Views, Tells(v), v.pc = "asked", w.pc = "startup",
           w.kind = v.kind, w.relay = "streaming", w.deltas = v.deltas, w.open = TRUE,
           w.events = << >>, w.ours = v.ours, w.text = v.text, w.status = v.status,
           w.over = v.over
    PROVE  Tells(w)
<1>1. /\ v.kind # "none" /\ v.deltas = 0 /\ v.text = << >> /\ v.status = "pending"
      /\ v.kind = "reply" => v.ours /\ ~v.over
  BY DEF Tells
<1>2. Len(w.events) = 0 /\ Len(w.text) = 0 /\ w.deltas = 0
  BY <1>1
<1>3. \A i \in 1..Len(w.events) : FALSE
  BY <1>2
<1>4. Queued(w.events, Len(w.text), w.deltas, w.pc)
  BY <1>2, <1>3 DEF Queued
<1>5. Whole(w.text)
  BY <1>1, <1>2 DEF Whole
<1> QED
  BY <1>1, <1>4, <1>5 DEF Tells

\* A turn is refused: its answer has no text and fails.
LEMMA TellsRefused ==
    ASSUME NEW v \in Views, NEW w \in Views, Tells(v), v.pc = "asked", w.pc = "refused",
           w.kind = v.kind, w.relay = "done", w.text = v.text, w.status = "failed"
    PROVE  Tells(w)
<1>1. v.kind # "none" /\ v.text = << >>
  BY DEF Tells
<1>2. Whole(w.text)
  BY <1>1 DEF Whole
<1> QED
  BY <1>1, <1>2 DEF Tells

\* The turn sends a delta.
LEMMA TellsDelta ==
    ASSUME NEW v \in Views, NEW w \in Views, Tells(v), v.pc = "body", w.pc = "body",
           w.kind = v.kind, w.relay = v.relay, w.deltas = v.deltas + 1, w.open = v.open,
           v.open => w.events = Append(v.events, Text(v.deltas + 1)),
           w.ours = v.ours, w.text = v.text, w.status = v.status, w.over = v.over
    PROVE  Tells(w)
<1>1. v.status = "completed" => ~(v.kind = "send" \/ v.ours)
  BY DEF Tells
<1>2. v.relay = "streaming" => Queued(w.events, Len(w.text), w.deltas, w.pc)
  <2> SUFFICES ASSUME v.relay = "streaming" PROVE Queued(w.events, Len(w.text), w.deltas, w.pc)
    OBVIOUS
  <2>1. v.open /\ Queued(v.events, Len(v.text), v.deltas, "body")
    BY DEF Tells
  <2>2. v.deltas + 1 \in 1..MaxDeltas
    <3>1. v.deltas \in 0..MaxDeltas /\ w.deltas \in 0..MaxDeltas
      BY ViewFields
    <3> QED
      BY <3>1, TurnStreamsAssumption
  <2>3. v.events \in Seq(Frames) /\ Len(v.text) \in Nat /\ v.deltas \in Nat
    BY ViewFields
  <2>4. Queued(Append(v.events, Text(v.deltas + 1)), Len(v.text), v.deltas + 1, "body")
    BY <2>1, <2>2, <2>3, QueuedDelta
  <2> QED
    BY <2>1, <2>4
<1> QED
  BY <1>1, <1>2 DEF Tells

\* The turn says how it ended.
LEMMA TellsEnd ==
    ASSUME NEW v \in Views, NEW w \in Views, Tells(v), v.pc \in {"hooks", "failing"},
           w.pc \in {"ended", "failed"}, w.kind = v.kind, w.relay = v.relay,
           w.deltas = v.deltas, w.open = v.open,
           v.open => w.events = Append(v.events, Ending(w.pc)),
           w.ours = v.ours, w.text = v.text, w.status = v.status, w.over = v.over
    PROVE  Tells(w)
<1>1. v.status = "completed" => ~(v.kind = "send" \/ v.ours)
  BY DEF Tells
<1>2. v.relay = "streaming" => Queued(w.events, Len(w.text), w.deltas, w.pc)
  <2> SUFFICES ASSUME v.relay = "streaming" PROVE Queued(w.events, Len(w.text), w.deltas, w.pc)
    OBVIOUS
  <2>1. v.open /\ Queued(v.events, Len(v.text), v.deltas, v.pc)
    BY DEF Tells
  <2>2. v.events \in Seq(Frames) /\ Len(v.text) \in Nat /\ v.deltas \in Nat
        /\ v.pc \notin {"ended", "failed"}
    BY ViewFields
  <2>3. Queued(Append(v.events, Ending(w.pc)), Len(v.text), v.deltas, w.pc)
    BY <2>1, <2>2, QueuedLast
  <2> QED
    BY <2>1, <2>3
<1> QED
  BY <1>1, <1>2 DEF Tells

\* A delta after the text of the others is the next one of the whole.
LEMMA WholeMore ==
    ASSUME NEW text \in Seq(1..MaxDeltas), Whole(text), Len(text) + 1 \in 1..MaxDeltas
    PROVE  /\ Whole(Append(text, Len(text) + 1))
           /\ Len(Append(text, Len(text) + 1)) = Len(text) + 1
<1> DEFINE n == Len(text)
           more == Append(text, n + 1)
<1>1. n \in Nat /\ Len(more) = n + 1 /\ more[n + 1] = n + 1 /\ \A i \in 1..n : more[i] = text[i]
  OBVIOUS
<1>2. \A i \in 1..n : text[i] = i
  BY DEF Whole
<1> HIDE DEF n, more
<1>3. \A i \in 1..(n + 1) : i \in 1..n \/ i = n + 1
  BY <1>1
<1>4. Whole(more)
  BY <1>1, <1>2, <1>3 DEF Whole
<1> QED
  BY <1>1, <1>4 DEF more, n

\* The reader tells the first event of the channel.
LEMMA TellsFirst ==
    ASSUME NEW v \in Views, NEW w \in Views, Tells(v), v.relay = "streaming",
           v.events # << >>, w.pc = v.pc, w.kind = v.kind, w.deltas = v.deltas,
           w.ours = v.ours,
           NEW frame \in Frames, frame = Head(v.events),
           w.text = IF IsLast(frame) THEN v.text ELSE Append(v.text, frame.n),
           w.status = IF IsLast(frame) THEN frame.kind ELSE "streaming",
           IF IsLast(frame) THEN w.relay = "done"
           ELSE /\ w.relay = "streaming" /\ w.open = TRUE
                /\ w.events = Tail(v.events) /\ ~w.over
    PROVE  Tells(w)
<1>1. /\ v.pc \notin {"idle", "asked", "refused"}
      /\ v.kind = "send" \/ v.ours
      /\ v.kind = "reply" => v.ours
      /\ Queued(v.events, Len(v.text), v.deltas, v.pc)
      /\ Whole(v.text) /\ v.kind # "none"
  BY DEF Tells, Views
<1>2. /\ v.events \in Seq(Frames) /\ v.text \in Seq(1..MaxDeltas) /\ Len(v.text) \in Nat
      /\ v.deltas \in Nat /\ v.deltas \in 0..MaxDeltas
  BY ViewFields
<1>3. \/ frame = Text(Len(v.text) + 1) /\ Queued(Tail(v.events), Len(v.text) + 1, v.deltas, v.pc)
      \/ frame = Ending(v.pc) /\ Len(v.text) = v.deltas /\ v.pc \in {"ended", "failed"}
  BY <1>1, <1>2, QueuedFirst
<1>4. CASE frame = Text(Len(v.text) + 1) /\ Queued(Tail(v.events), Len(v.text) + 1, v.deltas, v.pc)
  <2>1. frame.n = Len(v.text) + 1 /\ ~IsLast(frame)
    BY <1>4 DEF Text, IsLast
  <2>2. Len(v.text) + 1 \in 1..MaxDeltas
    BY <2>1, FrameTyped DEF IsLast
  <2>3. w.text = Append(v.text, Len(v.text) + 1)
    BY <2>1
  <2>4. Whole(w.text) /\ Len(w.text) = Len(v.text) + 1
    BY <1>1, <1>2, <2>2, <2>3, WholeMore
  <2>5. Queued(w.events, Len(w.text), w.deltas, w.pc)
    BY <1>4, <2>1, <2>4
  <2>6. w.status = "streaming" /\ w.relay = "streaming" /\ w.open = TRUE /\ ~w.over
    BY <2>1
  <2> QED
    BY <1>1, <2>4, <2>5, <2>6 DEF Tells
<1>5. CASE frame = Ending(v.pc) /\ Len(v.text) = v.deltas /\ v.pc \in {"ended", "failed"}
  <2>1. frame.kind = IF v.pc = "ended" THEN "completed" ELSE "failed"
    BY <1>5 DEF Ending, Last
  <2>2. IsLast(frame)
    BY <2>1 DEF IsLast
  <2>3. w.text = v.text /\ w.status = frame.kind /\ w.relay = "done"
    BY <2>2
  <2> QED
    BY <1>1, <1>5, <2>1, <2>3 DEF Tells
<1> QED
  BY <1>3, <1>4, <1>5

\* The reader is gone: what was told stays, or the answer fails.
LEMMA TellsOver ==
    ASSUME NEW v \in Views, NEW w \in Views, Tells(v), v.relay = "streaming",
           w.pc = v.pc, w.kind = v.kind, w.relay = "done", w.deltas = v.deltas,
           w.ours = v.ours, w.text = v.text, w.status \in {v.status, "failed"}
    PROVE  Tells(w)
<1>1. v.pc \notin {"idle", "asked"}
  BY DEF Tells
<1> QED
  BY <1>1 DEF Tells

\* A turn is asked for.
LEMMA TellsAsked ==
    ASSUME NEW v \in Views, NEW w \in Views, Tells(v), v.pc = "idle", w.pc = "asked",
           w.kind \in {"send", "reply"}, w.relay # "streaming", w.deltas = v.deltas,
           w.text = << >>, w.status = "pending", w.kind = "reply" => w.ours /\ ~w.over
    PROVE  Tells(w)
<1>1. Whole(w.text)
  BY DEF Whole
<1> QED
  BY <1>1 DEF Tells

\* The process restarts: the records are gone, what a response carried stays.
LEMMA TellsLost ==
    ASSUME NEW v \in Views, NEW w \in Views, Tells(v),
           w.pc = IF v.pc \in {"asked"} \union Running THEN "dead" ELSE v.pc,
           w.kind = v.kind, w.relay # "streaming", w.deltas = v.deltas, ~w.ours,
           v.kind = "send" => w.text = v.text /\ w.status = v.status
    PROVE  Tells(w)
<1>1. /\ v.pc = "idle" <=> w.pc = "idle"
      /\ w.pc # "asked"
      /\ v.pc = "ended" => w.pc = "ended"
      /\ v.pc = "idle" => w.deltas = 0
  BY DEF Running, Tells
<1> QED
  BY <1>1 DEF Tells

\* A view is of its type.
LEMMA ViewTyped ==
    ASSUME Types, NEW t \in Turns
    PROVE  View(t) \in Views
<1>1. /\ pc[t] \in {"idle", "asked"} \union Running \union Over
      /\ kind[t] \in {"none", "send", "reply"}
      /\ relay[t] \in {"none", "starting", "streaming", "done"} /\ deltas[t] \in 0..MaxDeltas
      /\ queue[t] \in Queues /\ answer[t] \in Answers
  BY DEF Types
<1>2. queue[t].open \in BOOLEAN /\ queue[t].events \in Seq(Frames)
  BY <1>1 DEF Queues
<1>3. Ours(t) \in BOOLEAN /\ (Ours(t) => kind[t] = "reply" /\ replies[handle[t]] \in Replies)
  BY DEF Ours, Types
<1>4. Said(t).text \in Seq(1..MaxDeltas) /\ Said(t).status \in Statuses
  <2>1. CASE kind[t] = "send"
    BY <1>1, <2>1 DEF Said, Saying, Answers
  <2>2. CASE Ours(t)
    BY <1>3, <2>2 DEF Said, Saying, Replies
  <2>3. CASE kind[t] # "send" /\ ~Ours(t)
    <3>1. << >> \in Seq(1..MaxDeltas)
      OBVIOUS
    <3> QED
      BY <2>3, <3>1 DEF Said, NoAnswer, Statuses
  <2> QED
    BY <2>1, <2>2, <2>3
<1>5. (Ours(t) /\ replies[handle[t]].terminal) \in BOOLEAN
  OBVIOUS
<1> DEFINE text == Said(t).text
           status == Said(t).status
           ours == Ours(t)
           over == ours /\ replies[handle[t]].terminal
           open == queue[t].open
           events == queue[t].events
<1>6. ours \in BOOLEAN /\ over \in BOOLEAN /\ text \in Seq(1..MaxDeltas) /\ status \in Statuses
      /\ open \in BOOLEAN /\ events \in Seq(Frames)
  BY <1>2, <1>3, <1>4, <1>5
<1>7. View(t) = [
          pc |-> pc[t], kind |-> kind[t], relay |-> relay[t], deltas |-> deltas[t],
          open |-> open, events |-> events, ours |-> ours, text |-> text, status |-> status,
          over |-> over]
  BY DEF View
<1> HIDE DEF text, status, ours, over, open, events
<1> QED
  BY <1>1, <1>6, <1>7 DEF Views

\* Views are of their type, before a step and after it.
LEMMA ViewsTyped ==
    /\ Types => \A t \in Turns : View(t) \in Views
    /\ Types' => \A t \in Turns : View(t)' \in Views
<1>1. Types => \A t \in Turns : View(t) \in Views
  BY ViewTyped
<1>2. Types' => (\A t \in Turns : View(t) \in Views)'
  BY <1>1, PTL
<1> QED
  BY <1>1, <1>2

\* A step of others leaves a turn's view as it is.
LEMMA ViewKept ==
    ASSUME NEW t \in Turns, pc'[t] = pc[t], kind'[t] = kind[t], relay'[t] = relay[t],
           deltas'[t] = deltas[t], queue'[t] = queue[t], answer'[t] = answer[t],
           handle'[t] = handle[t],
           Ours(t)' <=> Ours(t), Ours(t) => replies'[handle[t]] = replies[handle[t]]
    PROVE  View(t)' = View(t)
<1>1. Said(t)' = Said(t)
  <2>1. CASE kind[t] = "send"
    BY <2>1 DEF Said, Saying
  <2>2. CASE Ours(t) /\ kind[t] # "send"
    BY <2>2 DEF Said, Saying
  <2>3. CASE kind[t] # "send" /\ ~Ours(t)
    BY <2>3 DEF Said
  <2> QED
    BY <2>1, <2>2, <2>3
<1>2. (Ours(t) /\ replies[handle[t]].terminal)' = (Ours(t) /\ replies[handle[t]].terminal)
  <2>1. CASE Ours(t)
    BY <2>1
  <2>2. CASE ~Ours(t)
    BY <2>2
  <2> QED
    BY <2>1, <2>2
<1>3. Ours(t)' = Ours(t)
  BY DEF Ours
<1> QED
  BY <1>1, <1>2, <1>3 DEF View

\* An update of a turn's own record touches no other turn's.
LEMMA OthersUpdated ==
    ASSUME Types, NEW t \in Turns, NEW frame \in Frames, Ours(t), Update(t, frame),
           UNCHANGED <<kind, handle>>, NEW u \in Turns, u # t
    PROVE  /\ Ours(u)' <=> Ours(u)
           /\ Ours(u) => replies'[handle[u]] = replies[handle[u]]
<1>1. /\ Len(replies') = Len(replies) /\ Len(replies) \in Nat
      /\ \A h \in 1..Len(replies) : h # handle[t] => replies'[h] = replies[h]
      /\ replies'[handle[t]] = Updated(replies[handle[t]], frame)
      /\ handle[t] \in 1..Len(replies) /\ replies[handle[t]].turn = t
  BY UpdateTyped DEF Types, Ours
<1>2. replies[handle[t]] \in Replies
  BY <1>1 DEF Types
<1>3. replies'[handle[t]].turn = t
  <2> DEFINE r == replies[handle[t]]
             s == replies'[handle[t]]
  <2>1. r \in Replies /\ r.turn = t /\ s = Updated(r, frame)
    BY <1>1, <1>2
  <2> HIDE DEF r, s
  <2>2. s.turn = t
    BY <2>1, UpdatedIs
  <2> QED
    BY <2>2 DEF s
<1>4. CASE handle[u] = handle[t]
  BY <1>1, <1>3, <1>4 DEF Ours
<1>5. CASE handle[u] # handle[t]
  BY <1>1, <1>5 DEF Ours
<1> QED
  BY <1>4, <1>5

\* What an update of a turn's own record says of it.
LEMMA OwnUpdated ==
    ASSUME Types, NEW t \in Turns, NEW frame \in Frames, Ours(t), Update(t, frame),
           UNCHANGED <<kind, handle>>, ~replies[handle[t]].terminal
    PROVE  /\ Ours(t)' /\ (replies'[handle[t]].terminal <=> IsLast(frame))
           /\ Said(t)'.text = IF IsLast(frame) THEN Said(t).text
                              ELSE Append(Said(t).text, frame.n)
           /\ Said(t)'.status = IF IsLast(frame) THEN frame.kind ELSE "streaming"
<1> DEFINE r == replies[handle[t]]
           s == replies'[handle[t]]
<1>1. /\ Len(replies') = Len(replies) /\ s = Updated(r, frame)
      /\ handle[t] \in 1..Len(replies) /\ r.turn = t /\ kind[t] = "reply"
  BY UpdateTyped DEF Types, Ours
<1>2. r \in Replies /\ ~r.terminal
  BY <1>1 DEF Types
<1> HIDE DEF r, s
<1>3. /\ s.turn = t
      /\ s.terminal = (frame.kind # "delta")
      /\ s.text = IF frame.kind = "delta" THEN Append(r.text, frame.n) ELSE r.text
      /\ s.status = IF frame.kind = "delta" THEN "streaming" ELSE frame.kind
  BY <1>1, <1>2, UpdatedIs
<1>4. Ours(t)'
  BY <1>1, <1>3 DEF Ours, s
<1>5. Said(t) = r
  BY <1>1 DEF Said, Saying, r
<1>6. Said(t)' = s
  BY <1>1, <1>4 DEF Said, Saying, s
<1>7. /\ s.terminal <=> IsLast(frame)
      /\ s.text = IF IsLast(frame) THEN r.text ELSE Append(r.text, frame.n)
      /\ s.status = IF IsLast(frame) THEN frame.kind ELSE "streaming"
  BY <1>3 DEF IsLast
<1>8. replies'[handle[t]].terminal <=> IsLast(frame)
  BY <1>7 DEF s
<1> QED
  BY <1>4, <1>5, <1>6, <1>7, <1>8

\* The fields of a turn's view, before and after a step that leaves what has
\* been said of the turn.
LEMMA ViewIs ==
    ASSUME NEW t \in Turns
    PROVE  /\ View(t).pc = pc[t] /\ View(t).kind = kind[t] /\ View(t).relay = relay[t]
           /\ View(t).deltas = deltas[t] /\ View(t).open = queue[t].open
           /\ View(t).events = queue[t].events /\ View(t).ours = Ours(t)
           /\ View(t).text = Said(t).text /\ View(t).status = Said(t).status
           /\ View(t).over = (Ours(t) /\ replies[handle[t]].terminal)
  BY DEF View

\* So are those of the view after it.
LEMMA ViewThen ==
    ASSUME NEW t \in Turns
    PROVE  /\ View(t)'.pc = pc'[t] /\ View(t)'.kind = kind'[t] /\ View(t)'.relay = relay'[t]
           /\ View(t)'.deltas = deltas'[t] /\ View(t)'.open = queue'[t].open
           /\ View(t)'.events = queue'[t].events /\ View(t)'.ours = Ours(t)'
           /\ View(t)'.text = Said(t)'.text /\ View(t)'.status = Said(t)'.status
           /\ View(t)'.over = (Ours(t)' /\ replies'[handle'[t]].terminal)
  BY DEF View

\* Nothing is said when neither the answers nor the records change.
LEMMA SaidKept ==
    ASSUME NEW t \in Turns, UNCHANGED <<kind, replies, handle>>, answer'[t] = answer[t]
    PROVE  /\ Said(t)' = Said(t) /\ Ours(t)' = Ours(t)
           /\ (Ours(t)' /\ replies'[handle'[t]].terminal)
                  = (Ours(t) /\ replies[handle[t]].terminal)
  BY DEF Said, Saying, Ours

\* The view of the turn that takes a step of its task.
LEMMA TaskTells ==
    ASSUME Types, Types', NEW t \in Turns, TurnStep(t) \/ Panic(t), ~Refuse(t),
           Tells(View(t))
    PROVE  /\ Tells(View(t)')
           /\ UNCHANGED <<kind, answer, replies, handle>>
           /\ \A u \in Turns : u # t =>
                 /\ pc'[u] = pc[u] /\ relay'[u] = relay[u] /\ deltas'[u] = deltas[u]
                 /\ queue'[u] = queue[u]
<1> DEFINE v == View(t)
           w == View(t)'
<1>1. UNCHANGED <<kind, answer, replies, handle>>
  BY DEF TurnStep, Start, StartUp, Delta, Record, End, Err, Fail, Panic
<1>2. v \in Views /\ w \in Views
  BY ViewsTyped
<1>3. /\ w.kind = v.kind /\ w.ours = v.ours /\ w.text = v.text /\ w.status = v.status
      /\ w.over = v.over
  BY <1>1, ViewIs, ViewThen, SaidKept
<1>4. queue \in [Turns -> Queues] /\ deltas \in [Turns -> 0..MaxDeltas]
  BY DEF Types
<1>5. /\ v.pc = pc[t] /\ v.relay = relay[t] /\ v.deltas = deltas[t]
      /\ v.open = queue[t].open /\ v.events = queue[t].events
      /\ w.pc = pc'[t] /\ w.relay = relay'[t] /\ w.deltas = deltas'[t]
      /\ w.open = queue'[t].open /\ w.events = queue'[t].events
  BY ViewIs, ViewThen
<1>6. \A u \in Turns : u # t =>
          /\ pc'[u] = pc[u] /\ relay'[u] = relay[u] /\ deltas'[u] = deltas[u]
  <2>1. /\ pc \in [Turns -> {"idle", "asked"} \union Running \union Over]
        /\ relay \in [Turns -> {"none", "starting", "streaming", "done"}]
    BY DEF Types
  <2>2. \E step : Goto(t, step) \/ UNCHANGED pc
    BY DEF TurnStep, Start, StartUp, Delta, Record, End, Err, Fail, Panic
  <2>3. \/ UNCHANGED relay
        \/ relay' = [relay EXCEPT ![t] = "streaming"]
    BY DEF TurnStep, Start, StartUp, Delta, Record, End, Err, Fail, Panic
  <2>4. \/ UNCHANGED deltas
        \/ deltas' = [deltas EXCEPT ![t] = @ + 1]
    BY DEF TurnStep, Start, StartUp, Delta, Record, End, Err, Fail, Panic
  <2>5. \A u \in Turns : u # t => pc'[u] = pc[u]
    BY <2>1, <2>2 DEF Goto
  <2>6. \A u \in Turns : u # t => relay'[u] = relay[u]
    BY <2>1, <2>3
  <2>7. \A u \in Turns : u # t => deltas'[u] = deltas[u]
    BY <1>4, <2>4
  <2> QED
    BY <2>5, <2>6, <2>7
<1>7. queue[t] \in Queues /\ Tells(v)
  BY <1>4
<1>8. \A u \in Turns : u # t => queue'[u] = queue[u]
  BY <1>4, TurnChannel DEF TurnStep, Channel
<1> HIDE DEF v, w
<1>9. CASE Start(t)
  <2>1. Channel(t, << >>, TRUE)
    BY <1>4, <1>9, TurnChannel
  <2>2. queue'[t].events = << >> /\ queue'[t].open = TRUE
    BY <2>1 DEF Channel
  <2>3. pc[t] = "asked" /\ pc'[t] = "startup" /\ relay'[t] = "streaming" /\ deltas'[t] = deltas[t]
    BY <1>9 DEF Start, Goto, Types
  <2>4. Tells(w)
    BY <1>2, <1>3, <1>5, <1>7, <2>2, <2>3, TellsStart
  <2> QED
    BY <1>1, <1>6, <1>8, <2>4 DEF w
<1>10. CASE StartUp(t) \/ Record(t) \/ Err(t) \/ Panic(t)
  <2>1. queue'[t].events = queue[t].events /\ queue'[t].open = queue[t].open
    BY <1>4, <1>10, TurnChannel DEF Channel
  <2>2. /\ pc[t] \in Running /\ pc'[t] \in Running \union {"dead"}
        /\ relay'[t] = relay[t] /\ deltas'[t] = deltas[t]
    BY <1>10 DEF StartUp, Record, Err, Panic, Goto, Types, Running
  <2>3. Tells(w)
    BY <1>2, <1>3, <1>5, <1>7, <2>1, <2>2, TellsOn
  <2> QED
    BY <1>1, <1>6, <1>8, <2>3 DEF w
<1>11. CASE Delta(t)
  <2>1. queue'[t].events = Sent(t, Text(deltas[t] + 1)).events /\ queue'[t].open = queue[t].open
    BY <1>4, <1>11, TurnChannel DEF Channel
  <2>2. /\ pc[t] = "body" /\ pc'[t] = "body"
        /\ relay'[t] = relay[t] /\ deltas'[t] = deltas[t] + 1
    BY <1>11 DEF Delta, Types
  <2>3. Text(deltas[t] + 1) \in Frames
    <3>1. deltas[t] + 1 \in 1..MaxDeltas
      BY <1>4, <1>11, TurnStreamsAssumption DEF Delta
    <3> QED
      BY <3>1, FrameTyped
  <2>4. queue[t].open => queue'[t].events = Append(queue[t].events, Text(deltas[t] + 1))
    BY <1>7, <2>1, <2>3, SentIs
  <2>5. Tells(w)
    BY <1>2, <1>3, <1>5, <1>7, <2>1, <2>2, <2>4, TellsDelta
  <2> QED
    BY <1>1, <1>6, <1>8, <2>5 DEF w
<1>12. CASE End(t) \/ Fail(t)
  <2>1. /\ pc[t] \in {"hooks", "failing"} /\ pc'[t] \in {"ended", "failed"}
        /\ relay'[t] = relay[t] /\ deltas'[t] = deltas[t]
    BY <1>12 DEF End, Fail, Goto, Types
  <2>2. queue'[t].events = Sent(t, Ending(pc'[t])).events /\ queue'[t].open = queue[t].open
    <3>1. CASE End(t)
      <4>1. pc'[t] = "ended"
        BY <3>1 DEF End, Goto, Types
      <4> QED
        BY <1>4, <3>1, <4>1, TurnChannel DEF Channel, Ending
    <3>2. CASE Fail(t)
      <4>1. pc'[t] = "failed"
        BY <3>2 DEF Fail, Goto, Types
      <4> QED
        BY <1>4, <3>2, <4>1, TurnChannel DEF Channel, Ending
    <3> QED
      BY <1>12, <3>1, <3>2
  <2>3. Ending(pc'[t]) \in Frames
    BY FrameTyped DEF Ending
  <2>4. queue[t].open => queue'[t].events = Append(queue[t].events, Ending(pc'[t]))
    BY <1>7, <2>2, <2>3, SentIs
  <2>5. Tells(w)
    BY <1>2, <1>3, <1>5, <1>7, <2>1, <2>2, <2>4, TellsEnd
  <2> QED
    BY <1>1, <1>6, <1>8, <2>5 DEF w
<1> QED
  BY <1>9, <1>10, <1>11, <1>12 DEF TurnStep

\* A step keeps every turn's answer in step with the turn.
LEMMA TellingStep ==
    ASSUME TypeInv, TypeInv', Telling, [Next]_vars
    PROVE  Telling'
<1>1. Types /\ Types'
  BY TypesAre, PTL DEF TypeInv
<1>2. \A t \in Turns : Tells(View(t)) /\ (kind[t] # "send" => answer[t] = NoAnswer)
  BY DEF Telling
<1>3. ASSUME NEW t \in Turns,
             UNCHANGED <<kind, handle>>,
             \A u \in Turns : u # t => answer'[u] = answer[u],
             kind[t] = "send" \/ UNCHANGED answer,
             \A u \in Turns : u # t => View(u)' = View(u),
             Tells(View(t)')
      PROVE  Telling'
  <2>1. \A u \in Turns : Tells(View(u)')
    BY <1>2, <1>3
  <2>2. \A u \in Turns : kind'[u] # "send" => answer'[u] = NoAnswer
    BY <1>2, <1>3
  <2> QED
    BY <2>1, <2>2 DEF Telling
<1>4. ASSUME \A u \in Turns : View(u)' = View(u), UNCHANGED <<kind, answer>>
      PROVE  Telling'
  <2>1. \A u \in Turns : Tells(View(u)')
    BY <1>2, <1>4
  <2>2. \A u \in Turns : kind'[u] # "send" => answer'[u] = NoAnswer
    BY <1>2, <1>4
  <2> QED
    BY <2>1, <2>2 DEF Telling
<1>5. ASSUME UNCHANGED <<pc, kind, relay, deltas, queue, answer, handle, replies>>
      PROVE  Telling'
  <2>1. \A u \in Turns : View(u)' = View(u)
    BY <1>5 DEF View, Said, Saying, Ours
  <2> QED
    BY <1>4, <1>5, <2>1
\* The others' views when their own variables stay.
<1>6. ASSUME NEW t \in Turns, UNCHANGED <<kind, handle>>,
             \A u \in Turns : u # t =>
                 /\ pc'[u] = pc[u] /\ relay'[u] = relay[u] /\ deltas'[u] = deltas[u]
                 /\ queue'[u] = queue[u] /\ answer'[u] = answer[u],
             \/ UNCHANGED replies
             \/ Ours(t) /\ \E frame \in Frames : Update(t, frame)
      PROVE  \A u \in Turns : u # t => View(u)' = View(u)
  <2> SUFFICES ASSUME NEW u \in Turns, u # t PROVE View(u)' = View(u)
    OBVIOUS
  <2>1. (Ours(u)' <=> Ours(u)) /\ (Ours(u) => replies'[handle[u]] = replies[handle[u]])
    <3>1. CASE UNCHANGED replies
      BY <1>6, <3>1 DEF Ours
    <3>2. CASE Ours(t) /\ \E frame \in Frames : Update(t, frame)
      BY <1>1, <1>6, <3>2, OthersUpdated
    <3> QED
      BY <1>6, <3>1, <3>2
  <2> QED
    BY <1>6, <2>1, ViewKept
<1>7. ASSUME NEW t \in Turns, (TurnStep(t) \/ Panic(t)) /\ ~Refuse(t) PROVE Telling'
  <2>1. /\ Tells(View(t)')
        /\ UNCHANGED <<kind, answer, replies, handle>>
        /\ \A u \in Turns : u # t =>
              /\ pc'[u] = pc[u] /\ relay'[u] = relay[u] /\ deltas'[u] = deltas[u]
              /\ queue'[u] = queue[u]
    BY <1>1, <1>2, <1>7, TaskTells
  <2>2. \A u \in Turns : u # t => View(u)' = View(u)
    BY <1>6, <2>1
  <2> QED
    BY <1>3, <2>1, <2>2
<1>8. ASSUME NEW t \in Turns PROVE View(t) \in Views /\ View(t)' \in Views
  BY <1>1, ViewsTyped
<1>9. ASSUME NEW t \in Turns, Refuse(t) PROVE Telling'
  <2> DEFINE v == View(t)
             w == View(t)'
  <2>1. /\ pc[t] = "asked" /\ pc'[t] = "refused" /\ relay'[t] = "done"
        /\ UNCHANGED <<kind, deltas, queue, handle>>
        /\ \A u \in Turns : u # t => pc'[u] = pc[u] /\ relay'[u] = relay[u]
    BY <1>1, <1>9 DEF Refuse, Goto, Types
  <2>2. /\ \A u \in Turns : u # t => answer'[u] = answer[u]
        /\ \/ /\ kind[t] = "send" /\ UNCHANGED replies
              /\ answer'[t].text = answer[t].text /\ answer'[t].status = "failed"
           \/ kind[t] = "reply" /\ Update(t, Last("failed")) /\ UNCHANGED answer
    BY <1>1, <1>9, RefuseIs DEF Types
  <2>3. /\ v.pc = pc[t] /\ v.kind = kind[t] /\ v.text = Said(t).text
        /\ v.ours = Ours(t) /\ v.over = (Ours(t) /\ replies[handle[t]].terminal)
        /\ w.pc = pc'[t] /\ w.kind = kind'[t] /\ w.relay = relay'[t]
        /\ w.text = Said(t)'.text /\ w.status = Said(t)'.status
    BY ViewIs, ViewThen
  <2>4. Tells(v) /\ v \in Views /\ w \in Views
    BY <1>2, <1>8
  <2>5. CASE kind[t] = "send" /\ UNCHANGED replies
             /\ answer'[t].text = answer[t].text /\ answer'[t].status = "failed"
    <3>1. Said(t)'.text = Said(t).text /\ Said(t)'.status = "failed"
      BY <2>1, <2>5 DEF Said, Saying
    <3>2. w.pc = "refused" /\ w.relay = "done" /\ w.text = v.text /\ w.status = "failed"
          /\ v.pc = "asked" /\ w.kind = v.kind
      BY <2>1, <2>3, <3>1
    <3>3. Tells(w)
      <4> HIDE DEF v, w
      <4> QED
        BY <2>4, <3>2, TellsRefused
    <3>4. \A u \in Turns : u # t => View(u)' = View(u)
      BY <1>6, <2>1, <2>2, <2>5
    <3> QED
      BY <1>3, <2>1, <2>2, <2>5, <3>3, <3>4
  <2>6. CASE kind[t] = "reply" /\ Update(t, Last("failed")) /\ UNCHANGED answer
    <3>1. Ours(t) /\ ~replies[handle[t]].terminal
      <4>1. v.pc = "asked" /\ v.kind = "reply"
        BY <2>1, <2>3, <2>6
      <4>2. v.ours /\ ~v.over
        <5> HIDE DEF v
        <5> QED
          BY <2>4, <4>1 DEF Tells
      <4> QED
        BY <2>3, <4>2
    <3>2. Last("failed") \in Frames /\ Last("failed").kind = "failed" /\ IsLast(Last("failed"))
      BY FrameTyped DEF IsLast
    <3>3. Said(t)'.text = Said(t).text /\ Said(t)'.status = "failed"
      BY <1>1, <2>1, <2>6, <3>1, <3>2, OwnUpdated
    <3>4. w.pc = "refused" /\ w.relay = "done" /\ w.text = v.text /\ w.status = "failed"
          /\ v.pc = "asked" /\ w.kind = v.kind
      BY <2>1, <2>3, <3>3
    <3>5. Tells(w)
      <4> HIDE DEF v, w
      <4> QED
        BY <2>4, <3>4, TellsRefused
    <3>6. \A u \in Turns : u # t => View(u)' = View(u)
      BY <1>6, <2>1, <2>2, <2>6, <3>1, <3>2
    <3> QED
      BY <1>3, <2>1, <2>2, <2>6, <3>5, <3>6
  <2> QED
    BY <2>2, <2>5, <2>6
<1>10. ASSUME NEW t \in Turns, Relay(t) PROVE Telling'
  <2> DEFINE v == View(t)
             w == View(t)'
             frame == Head(queue[t].events)
  <2>1. /\ relay[t] = "streaming" /\ queue[t].events # << >>
        /\ relay'[t] = IF IsLast(frame) THEN "done" ELSE "streaming"
        /\ UNCHANGED <<pc, kind, deltas, handle>>
        /\ \A u \in Turns : u # t => relay'[u] = relay[u]
    BY <1>1, <1>10 DEF Relay, Types, IsLast
  <2>2. queue \in [Turns -> Queues] /\ queue[t].events \in Seq(Frames)
    BY <1>1 DEF Types, Queues
  <2>3. frame \in Frames /\ Told(t, frame)
    BY <1>10, <2>1, <2>2 DEF Relay
  <2>4. /\ \A u \in Turns : u # t => queue'[u] = queue[u]
        /\ ~IsLast(frame) => queue'[t].events = Tail(queue[t].events) /\ queue'[t].open = TRUE
    BY <1>10, <2>2, ReaderChannel DEF Channel
  <2>5. /\ v.pc = pc[t] /\ v.kind = kind[t] /\ v.relay = relay[t] /\ v.deltas = deltas[t]
        /\ v.events = queue[t].events /\ v.ours = Ours(t)
        /\ v.text = Said(t).text /\ v.over = (Ours(t) /\ replies[handle[t]].terminal)
        /\ w.pc = pc'[t] /\ w.kind = kind'[t] /\ w.relay = relay'[t] /\ w.deltas = deltas'[t]
        /\ w.open = queue'[t].open /\ w.events = queue'[t].events /\ w.ours = Ours(t)'
        /\ w.text = Said(t)'.text /\ w.status = Said(t)'.status
        /\ w.over = (Ours(t)' /\ replies'[handle'[t]].terminal)
    BY ViewIs, ViewThen
  <2>6. Tells(v) /\ v \in Views /\ w \in Views
    BY <1>2, <1>8
  <2>7. /\ \A u \in Turns : u # t => answer'[u] = answer[u]
        /\ \/ /\ kind[t] = "send" /\ UNCHANGED replies
              /\ answer'[t].text = IF IsLast(frame) THEN answer[t].text
                                   ELSE Append(answer[t].text, frame.n)
              /\ answer'[t].status = IF IsLast(frame) THEN frame.kind ELSE "streaming"
           \/ kind[t] = "reply" /\ Update(t, frame) /\ UNCHANGED answer
    <3> HIDE DEF frame
    <3> QED
      BY <1>1, <2>3, ToldIs DEF Types
  <2> HIDE DEF frame
  <2>8. kind[t] = "reply" => Ours(t) /\ ~replies[handle[t]].terminal
    <3>1. v.kind = "reply" => v.ours /\ ~v.over
      <4>1. v.relay = "streaming"
        BY <2>1, <2>5
      <4> HIDE DEF v
      <4> QED
        BY <2>6, <4>1 DEF Tells
    <3> QED
      BY <2>5, <3>1
  <2>9. /\ Said(t)'.text = IF IsLast(frame) THEN Said(t).text ELSE Append(Said(t).text, frame.n)
        /\ Said(t)'.status = IF IsLast(frame) THEN frame.kind ELSE "streaming"
        /\ Ours(t)' = Ours(t)
        /\ ~IsLast(frame) => ~(Ours(t)' /\ replies'[handle'[t]].terminal)
    <3>1. CASE kind[t] = "send"
      <4>1. ~Ours(t) /\ ~Ours(t)' /\ Said(t) = answer[t] /\ Said(t)' = answer'[t]
        BY <2>1, <3>1 DEF Ours, Said, Saying
      <4>2. Ours(t)' = Ours(t)
        BY <4>1 DEF Ours
      <4> QED
        BY <2>7, <3>1, <4>1, <4>2
    <3>2. CASE kind[t] = "reply" /\ Update(t, frame)
      <4>1. Ours(t) /\ ~replies[handle[t]].terminal
        BY <2>8, <3>2
      <4>2. /\ Ours(t)' /\ (replies'[handle[t]].terminal <=> IsLast(frame))
            /\ Said(t)'.text = IF IsLast(frame) THEN Said(t).text
                               ELSE Append(Said(t).text, frame.n)
            /\ Said(t)'.status = IF IsLast(frame) THEN frame.kind ELSE "streaming"
        BY <1>1, <2>1, <2>3, <3>2, <4>1, OwnUpdated
      <4>3. Ours(t)' = Ours(t)
        BY <4>1, <4>2 DEF Ours
      <4>4. handle'[t] = handle[t]
        BY <2>1
      <4> QED
        BY <4>2, <4>3, <4>4
    <3> QED
      BY <2>7, <3>1, <3>2
  <2>10. /\ v.relay = "streaming" /\ v.events # << >> /\ frame = Head(v.events)
         /\ w.pc = v.pc /\ w.kind = v.kind /\ w.deltas = v.deltas /\ w.ours = v.ours
         /\ w.text = IF IsLast(frame) THEN v.text ELSE Append(v.text, frame.n)
         /\ w.status = IF IsLast(frame) THEN frame.kind ELSE "streaming"
    BY <2>1, <2>5, <2>9 DEF frame
  <2>11. IF IsLast(frame) THEN w.relay = "done"
         ELSE /\ w.relay = "streaming" /\ w.open = TRUE
              /\ w.events = Tail(v.events) /\ ~w.over
    BY <2>1, <2>4, <2>5, <2>9
  <2>12. Tells(w)
    <3> HIDE DEF v, w
    <3> QED
      BY <2>3, <2>6, <2>10, <2>11, TellsFirst
  <2>13. \A u \in Turns : u # t => View(u)' = View(u)
    <3>1. UNCHANGED replies \/ (Ours(t) /\ \E f \in Frames : Update(t, f))
      BY <2>3, <2>7, <2>8
    <3> QED
      BY <1>6, <2>1, <2>4, <2>7, <3>1
  <2> QED
    BY <1>3, <2>1, <2>7, <2>12, <2>13
<1>11. ASSUME NEW t \in Turns, RelayEnds(t) \/ Leave(t) PROVE Telling'
  <2> DEFINE v == View(t)
             w == View(t)'
  <2>1. /\ relay[t] = "streaming" /\ relay'[t] = "done"
        /\ UNCHANGED <<pc, kind, deltas, answer, handle>>
        /\ UNCHANGED replies \/ (kind[t] = "reply" /\ Update(t, Last("failed")))
        /\ \A u \in Turns : u # t => relay'[u] = relay[u]
    BY <1>1, <1>11 DEF RelayEnds, Leave, Types
  <2>2. queue \in [Turns -> Queues]
    BY <1>1 DEF Types
  <2>3. \A u \in Turns : u # t => queue'[u] = queue[u]
    BY <1>11, <2>2, ReaderChannel DEF Channel
  <2>4. /\ v.pc = pc[t] /\ v.kind = kind[t] /\ v.relay = relay[t] /\ v.deltas = deltas[t]
        /\ v.ours = Ours(t) /\ v.over = (Ours(t) /\ replies[handle[t]].terminal)
        /\ v.text = Said(t).text /\ v.status = Said(t).status
        /\ w.pc = pc'[t] /\ w.kind = kind'[t] /\ w.relay = relay'[t] /\ w.deltas = deltas'[t]
        /\ w.ours = Ours(t)' /\ w.text = Said(t)'.text /\ w.status = Said(t)'.status
    BY ViewIs, ViewThen
  <2>5. Tells(v) /\ v \in Views /\ w \in Views
    BY <1>2, <1>8
  <2>6. kind[t] = "reply" => Ours(t) /\ ~replies[handle[t]].terminal
    <3>1. v.kind = "reply" => v.ours /\ ~v.over
      <4>1. v.relay = "streaming"
        BY <2>1, <2>4
      <4> HIDE DEF v
      <4> QED
        BY <2>5, <4>1 DEF Tells
    <3> QED
      BY <2>4, <3>1
  <2>7. Last("failed") \in Frames /\ Last("failed").kind = "failed" /\ IsLast(Last("failed"))
    BY FrameTyped DEF IsLast
  <2>8. Ours(t)' = Ours(t) /\ Said(t)'.text = Said(t).text
        /\ Said(t)'.status \in {Said(t).status, "failed"}
    <3>1. CASE UNCHANGED replies
      <4>1. Said(t)' = Said(t) /\ Ours(t)' = Ours(t)
        BY <2>1, <3>1, SaidKept
      <4> QED
        BY <4>1
    <3>2. CASE kind[t] = "reply" /\ Update(t, Last("failed"))
      <4>1. /\ Ours(t)' /\ Said(t)'.text = Said(t).text /\ Said(t)'.status = "failed"
        BY <1>1, <2>1, <2>6, <2>7, <3>2, OwnUpdated
      <4>2. Ours(t)' = Ours(t)
        BY <2>6, <3>2, <4>1 DEF Ours
      <4> QED
        BY <4>1, <4>2
    <3> QED
      BY <2>1, <3>1, <3>2
  <2>9. /\ v.relay = "streaming" /\ w.pc = v.pc /\ w.kind = v.kind /\ w.relay = "done"
        /\ w.deltas = v.deltas /\ w.ours = v.ours /\ w.text = v.text
        /\ w.status \in {v.status, "failed"}
    BY <2>1, <2>4, <2>8
  <2>10. Tells(w)
    <3> HIDE DEF v, w
    <3> QED
      BY <2>5, <2>9, TellsOver
  <2>11. \A u \in Turns : u # t => View(u)' = View(u)
    <3>1. UNCHANGED replies \/ (Ours(t) /\ \E f \in Frames : Update(t, f))
      BY <2>1, <2>6, <2>7
    <3> QED
      BY <1>6, <2>1, <2>3, <3>1
  <2> QED
    BY <1>3, <2>1, <2>10, <2>11
<1>12. ASSUME NEW t \in Turns, AskSend(t) PROVE Telling'
  <2> DEFINE v == View(t)
             w == View(t)'
  <2>1. /\ pc[t] = "idle" /\ pc'[t] = "asked" /\ kind'[t] = "send"
        /\ UNCHANGED <<deltas, queue, relay, answer, replies, handle>>
        /\ \A u \in Turns : u # t => pc'[u] = pc[u] /\ kind'[u] = kind[u]
    BY <1>1, <1>12 DEF AskSend, Goto, Types
  <2>2. Tells(v) /\ v \in Views /\ w \in Views
    BY <1>2, <1>8
  <2>3. /\ v.pc = pc[t] /\ v.kind = kind[t] /\ v.relay = relay[t] /\ v.deltas = deltas[t]
        /\ w.pc = pc'[t] /\ w.kind = kind'[t] /\ w.relay = relay'[t] /\ w.deltas = deltas'[t]
        /\ w.text = Said(t)'.text /\ w.status = Said(t)'.status
    BY ViewIs, ViewThen
  <2>4. v.kind = "none" /\ v.relay # "streaming"
    <3>1. v.pc = "idle"
      BY <2>1, <2>3
    <3> HIDE DEF v
    <3> QED
      BY <2>2, <3>1 DEF Tells
  <2>5. Said(t)'.text = << >> /\ Said(t)'.status = "pending"
    <3>1. answer[t] = NoAnswer /\ Said(t)' = answer'[t]
      BY <1>2, <2>1, <2>3, <2>4 DEF Said, Saying
    <3> QED
      BY <2>1, <3>1 DEF NoAnswer
  <2>6. /\ v.pc = "idle" /\ w.pc = "asked" /\ w.kind = "send" /\ w.relay # "streaming"
        /\ w.deltas = v.deltas /\ w.text = << >> /\ w.status = "pending"
    BY <2>1, <2>3, <2>4, <2>5
  <2>7. Tells(w)
    <3> HIDE DEF v, w
    <3> QED
      BY <2>2, <2>6, TellsAsked
  <2>8. \A u \in Turns : u # t => View(u)' = View(u)
    <3> SUFFICES ASSUME NEW u \in Turns, u # t PROVE View(u)' = View(u)
      OBVIOUS
    <3>1. (Ours(u)' <=> Ours(u)) /\ (Ours(u) => replies'[handle[u]] = replies[handle[u]])
      BY <2>1 DEF Ours
    <3> QED
      BY <2>1, <3>1, ViewKept
  <2>9. \A u \in Turns : Tells(View(u)')
    BY <1>2, <2>7, <2>8
  <2>10. \A u \in Turns : kind'[u] # "send" => answer'[u] = NoAnswer
    BY <1>2, <2>1
  <2> QED
    BY <2>9, <2>10 DEF Telling
<1>13. ASSUME NEW t \in Turns, AskReply(t) PROVE Telling'
  <2> DEFINE v == View(t)
             w == View(t)'
             r == NewReply(t)
             n == Len(replies)
  <2>1. /\ pc[t] = "idle" /\ pc'[t] = "asked" /\ kind'[t] = "reply"
        /\ relay'[t] = "starting" /\ handle'[t] = Len(replies')
        /\ replies' = Append(replies, r)
        /\ UNCHANGED <<deltas, queue, answer>>
        /\ \A u \in Turns : u # t => /\ pc'[u] = pc[u] /\ kind'[u] = kind[u]
                                     /\ relay'[u] = relay[u] /\ handle'[u] = handle[u]
    BY <1>1, <1>13 DEF AskReply, Goto, Types
  <2>2. Tells(v) /\ v \in Views /\ w \in Views
    BY <1>2, <1>8
  <2>3. /\ v.pc = pc[t] /\ v.kind = kind[t] /\ v.deltas = deltas[t]
        /\ w.pc = pc'[t] /\ w.kind = kind'[t] /\ w.relay = relay'[t] /\ w.deltas = deltas'[t]
        /\ w.text = Said(t)'.text /\ w.status = Said(t)'.status /\ w.ours = Ours(t)'
        /\ w.over = (Ours(t)' /\ replies'[handle'[t]].terminal)
    BY ViewIs, ViewThen
  <2>4. v.kind = "none"
    <3>1. v.pc = "idle"
      BY <2>1, <2>3
    <3> HIDE DEF v
    <3> QED
      BY <2>2, <3>1 DEF Tells
  <2>5. /\ r \in Replies /\ r.turn = t /\ r.text = << >> /\ r.status = "pending"
        /\ r.terminal = FALSE
    <3>1. << >> \in Seq(1..MaxDeltas) /\ << >> \in Seq(Events)
      OBVIOUS
    <3> QED
      BY <3>1 DEF NewReply, Replies, Statuses
  <2> HIDE DEF r
  <2>6. /\ n \in Nat /\ Len(replies') = n + 1 /\ replies'[n + 1] = r
        /\ \A h \in 1..n : replies'[h] = replies[h]
    BY <1>1, <2>1, <2>5, Appended DEF Types
  <2>7. Ours(t)' /\ Said(t)'.text = << >> /\ Said(t)'.status = "pending"
        /\ ~replies'[handle'[t]].terminal
    <3>1. handle'[t] = n + 1 /\ n + 1 \in 1..Len(replies')
      BY <2>1, <2>6
    <3>2. Ours(t)'
      BY <2>1, <2>5, <2>6, <3>1 DEF Ours
    <3>3. Said(t)' = r
      BY <2>1, <2>6, <3>1, <3>2 DEF Said, Saying
    <3> QED
      BY <2>5, <2>6, <3>1, <3>2, <3>3
  <2>8. /\ v.pc = "idle" /\ w.pc = "asked" /\ w.kind = "reply" /\ w.relay # "streaming"
        /\ w.deltas = v.deltas /\ w.text = << >> /\ w.status = "pending"
        /\ w.ours /\ ~w.over
    BY <2>1, <2>3, <2>7
  <2>9. Tells(w)
    <3> HIDE DEF v, w
    <3> QED
      BY <2>2, <2>8, TellsAsked
  <2>10. \A u \in Turns : u # t => View(u)' = View(u)
    <3> SUFFICES ASSUME NEW u \in Turns, u # t PROVE View(u)' = View(u)
      OBVIOUS
    <3>1. (Ours(u)' <=> Ours(u)) /\ (Ours(u) => replies'[handle[u]] = replies[handle[u]])
      <4>1. CASE handle[u] \in 1..n
        <5>1. handle[u] \in 1..Len(replies') /\ replies'[handle[u]] = replies[handle[u]]
          BY <2>6, <4>1
        <5> QED
          BY <2>1, <4>1, <5>1 DEF Ours
      <4>2. CASE handle[u] = n + 1
        <5>1. handle[u] \notin 1..n /\ replies'[handle[u]].turn = t
          BY <2>5, <2>6, <4>2
        <5> QED
          BY <2>1, <5>1 DEF Ours
      <4>3. CASE handle[u] \notin 1..n /\ handle[u] # n + 1
        <5>1. handle[u] \notin 1..Len(replies')
          <6>1. \A h \in 1..(n + 1) : h \in 1..n \/ h = n + 1
            BY <2>6
          <6> QED
            BY <2>6, <4>3, <6>1
        <5> QED
          BY <2>1, <4>3, <5>1 DEF Ours
      <4> QED
        BY <4>1, <4>2, <4>3
    <3> QED
      BY <2>1, <3>1, ViewKept
  <2>11. \A u \in Turns : Tells(View(u)')
    BY <1>2, <2>9, <2>10
  <2>12. \A u \in Turns : kind'[u] # "send" => answer'[u] = NoAnswer
    BY <1>2, <2>1, <2>3, <2>4
  <2> QED
    BY <2>11, <2>12 DEF Telling
<1>14. CASE Restart
  <2>1. UNCHANGED <<kind, deltas, answer, handle>> /\ replies' = << >>
    BY <1>14 DEF Restart
  <2>2. ASSUME NEW t \in Turns PROVE Tells(View(t)')
    <3> DEFINE v == View(t)
               w == View(t)'
    <3>1. /\ v.pc = pc[t] /\ v.kind = kind[t] /\ v.deltas = deltas[t]
          /\ v.text = Said(t).text /\ v.status = Said(t).status
          /\ w.pc = pc'[t] /\ w.kind = kind'[t] /\ w.relay = relay'[t] /\ w.deltas = deltas'[t]
          /\ w.text = Said(t)'.text /\ w.status = Said(t)'.status /\ w.ours = Ours(t)'
      BY ViewIs, ViewThen
    <3>2. /\ pc'[t] = IF pc[t] \in {"asked"} \union Running THEN "dead" ELSE pc[t]
          /\ relay'[t] # "streaming"
      BY <1>14 DEF Restart
    <3>3. ~Ours(t)'
      <4>1. Len(replies') = 0
        BY <2>1
      <4>2. handle'[t] \notin 1..Len(replies')
        BY <4>1
      <4> QED
        BY <4>2 DEF Ours
    <3>4. kind[t] = "send" => Said(t)' = Said(t)
      BY <2>1 DEF Said, Saying
    <3>5. /\ w.pc = IF v.pc \in {"asked"} \union Running THEN "dead" ELSE v.pc
          /\ w.kind = v.kind /\ w.relay # "streaming" /\ w.deltas = v.deltas /\ ~w.ours
          /\ v.kind = "send" => w.text = v.text /\ w.status = v.status
      BY <2>1, <3>1, <3>2, <3>3, <3>4
    <3>6. Tells(v) /\ v \in Views /\ w \in Views
      BY <1>2, <1>8
    <3> HIDE DEF v, w
    <3>7. Tells(w)
      BY <3>5, <3>6, TellsLost
    <3> QED
      BY <3>7 DEF w
  <2> QED
    BY <1>2, <2>1, <2>2 DEF Telling
<1>15. CASE Lapse \/ UNCHANGED vars
  BY <1>5, <1>15 DEF Lapse, vars
<1>16. ASSUME NEW c \in Clients, (\E t \in Turns : Subscribe(c, t)) \/ Follow(c)
       PROVE  Telling'
  BY <1>5, <1>16 DEF Subscribe, Follow, ReadHistory, ReadReply
<1> QED
  BY <1>7, <1>9, <1>10, <1>11, <1>12, <1>13, <1>14, <1>15, <1>16 DEF Next, TurnStep

\* What a response or a reply says of a turn is so, for any number of turns,
\* deltas and faults: run_turn's end, stream_turn_events and the reply task.
THEOREM AnswersAreOutcomes == Spec => []AnswerIsOutcome
<1>1. Init => Telling
  <2> SUFFICES ASSUME Init, NEW t \in Turns
               PROVE  (kind[t] # "send" => answer[t] = NoAnswer) /\ Tells(View(t))
    BY DEF Telling
  <2> DEFINE v == View(t)
  <2>1. /\ v.pc = "idle" /\ v.kind = "none" /\ v.relay = "none" /\ v.deltas = 0
        /\ v.ours = FALSE
    <3>1. ~Ours(t)
      BY DEF Init, Ours
    <3>2. Ours(t) = FALSE
      BY <3>1 DEF Ours
    <3> QED
      BY <3>2, ViewIs DEF Init
  <2>2. Tells(v)
    <3> HIDE DEF v
    <3> QED
      BY <2>1 DEF Tells
  <2> QED
    BY <2>2 DEF Init
<1>2. Spec => [](TypeInv /\ Telling)
  BY <1>1, TypeInit, TypeStep, TellingStep, PTL DEF Spec
<1>3. TypeInv /\ Telling => AnswerIsOutcome
  <2> SUFFICES ASSUME TypeInv, Telling, NEW t \in Turns, kind[t] = "send" \/ Ours(t)
               PROVE  /\ Saying(t).text = [i \in 1..Len(Saying(t).text) |-> i]
                      /\ Saying(t).status = "completed" =>
                            pc[t] = "ended" /\ Len(Saying(t).text) = deltas[t]
    BY DEF AnswerIsOutcome, Ours
  <2> DEFINE v == View(t)
             text == v.text
  <2>1. v \in Views /\ Tells(v)
    BY TypesAre, ViewsTyped DEF TypeInv, Telling
  <2>2. /\ v.kind = kind[t] /\ v.ours = Ours(t) /\ v.pc = pc[t] /\ v.deltas = deltas[t]
        /\ v.text = Saying(t).text /\ v.status = Saying(t).status
    BY ViewIs DEF Said
  <2>3. v.kind = "send" \/ v.ours
    BY <2>2
  <2> HIDE DEF v
  <2>4. Whole(text) /\ (v.status = "completed" => v.pc = "ended" /\ Len(text) = v.deltas)
    BY <2>1, <2>3 DEF Tells
  <2>5. text \in Seq(1..MaxDeltas)
    BY <2>1, ViewFields
  <2> HIDE DEF text
  <2>6. text = [i \in 1..Len(text) |-> i]
    <3>1. Len(text) \in Nat /\ DOMAIN text = 1..Len(text)
          /\ text = [i \in 1..Len(text) |-> text[i]]
      BY <2>5
    <3>2. \A i \in 1..Len(text) : text[i] = i
      BY <2>4 DEF Whole
    <3> QED
      BY <3>1, <3>2
  <2> QED
    BY <2>2, <2>4, <2>6 DEF text
<1> QED
  BY <1>2, <1>3, PTL

=============================================================================
