-------------------------- MODULE MessageLedger --------------------------
(***************************************************************************)
(* The public message ledger of one session as stim envelopes change it:    *)
(* santi-api/src/handler/stim.rs over append_message and                    *)
(* apply_message_event of the Postgres and the SQLite adapter.  No lock is  *)
(* taken here.                                                              *)
(*                                                                         *)
(* A call is one submission of an envelope; submitting an envelope again is *)
(* another call.  In Postgres a call is a READ COMMITTED transaction: what  *)
(* it read may be old when it writes, what it writes is seen by all at its  *)
(* commit, which is one step here because row locks and unique keys make    *)
(* conflicting writers wait for each other.  In SQLite every statement      *)
(* stands alone.                                                            *)
(***************************************************************************)
EXTENDS MessageEdit

CONSTANTS
    Calls,         \* submissions
    Envelopes,     \* the envelopes that may be submitted
    NoEnvelope,    \* nothing submitted yet
    MessageIds,    \* message ids
    Deployments,   \* the deployments looked at: TRUE is SQLite, FALSE Postgres
    MaxFaults      \* bound: failed calls and clients that hang up

Edits == {"patch", "insert", "remove", "fix"}

ASSUME MessageLedgerAssumption ==
    /\ NoEnvelope \notin Envelopes
    /\ IsFiniteSet(MessageIds)
    /\ \A e \in Envelopes :
          /\ e.message \in MessageIds
          /\ e.op \in Edits \union {"create"}
          /\ e.base \in Nat /\ e.fixed \in BOOLEAN
    /\ Deployments \subseteq BOOLEAN
    /\ MaxFaults \in Nat

VARIABLES
    standalone,   \* the adapters this process was started with
    session,      \* the session's row exists
    messages,     \* the rows of the messages that exist, by id
    events,       \* message_events: the envelopes whose edits were logged
    pc,           \* the ledger call each submission is about to make
    env,          \* its envelope
    local,        \* the row it is going to write
    answer,       \* what its client was told
    replies,      \* protocol replies started for each message
    faults,       \* calls that may still fail
    piped         \* history: messages edited while an edit was under way

vars == <<standalone, session, messages, events, pc, env, local, answer,
          replies, faults, piped>>

Stored == DOMAIN messages

Row(seq, author, parts, fixed, version) ==
    [seq |-> seq, author |-> author, parts |-> parts, fixed |-> fixed, version |-> version]

RowTyped(row) ==
    /\ row.seq \in Nat \ {0}
    /\ row.fixed \in BOOLEAN
    /\ row.version \in Nat \ {0}

TypeOK ==
    /\ standalone \in Deployments /\ session \in BOOLEAN
    /\ Stored \subseteq MessageIds /\ \A m \in Stored : RowTyped(messages[m])
    /\ events \subseteq Envelopes
    /\ pc \in [Calls -> {"idle", "session", "bootstrap", "number", "insert",
                         "load", "write", "read", "done"}]
    /\ env \in [Calls -> Envelopes \union {NoEnvelope}]
    /\ DOMAIN local = Calls
    /\ \A c \in Calls : pc[c] \in {"insert", "write"} => RowTyped(local[c])
    /\ answer \in [Calls -> [result : {"none", "rejected", "error", "applied"},
                             version : Nat]]
    /\ replies \in [MessageIds -> Nat]
    /\ faults \in Nat
    /\ piped \subseteq MessageIds

NoAnswer == [result |-> "none", version |-> 0]

Init ==
    /\ standalone \in Deployments
    /\ session = FALSE
    /\ messages = << >>
    /\ events = {}
    /\ pc = [c \in Calls |-> "idle"]
    /\ env = [c \in Calls |-> NoEnvelope]
    /\ local = [c \in Calls |-> NoEnvelope]
    /\ answer = [c \in Calls |-> NoAnswer]
    /\ replies = [m \in MessageIds |-> 0]
    /\ faults = MaxFaults
    /\ piped = {}

Rows == {messages[m] : m \in Stored}

\* MAX(session_seq), zero in an empty session.
LastSeq == Max({0} \union {row.seq : row \in Rows})

---------------------------------------------------------------------------
(* How a ledger call ends.                                                  *)

Goes(c, next) ==
    /\ pc' = [pc EXCEPT ![c] = next]
    /\ UNCHANGED <<answer, replies>>

Ends(c, result, version) ==
    /\ pc' = [pc EXCEPT ![c] = "done"]
    /\ answer' = [answer EXCEPT ![c] = [result |-> result, version |-> version]]
    /\ UNCHANGED replies

\* An applied fix starts a protocol reply before it is acknowledged.
Applied(c, version) ==
    /\ pc' = [pc EXCEPT ![c] = "done"]
    /\ answer' = [answer EXCEPT ![c] = [result |-> "applied", version |-> version]]
    /\ replies' = IF env[c].op = "fix"
                  THEN [replies EXCEPT ![env[c].message] = @ + 1] ELSE replies

\* Mutant: Postgres reads the row back after its commit as well.
MutantTook(c, version) ==
    \/ UNCHANGED faults /\ Goes(c, "read")
    \/ ~standalone /\ faults > 0 /\ faults' = faults - 1 /\ Ends(c, "error", 0)

\* The statement took effect.  Postgres answers with the row, SQLite reads it
\* back in another call; or the answer is lost, or the client hung up.
Took(c, version) ==
    \/ UNCHANGED faults /\ standalone /\ Goes(c, "read")
    \/ UNCHANGED faults /\ ~standalone /\ Applied(c, version)
    \/ ~standalone /\ faults > 0 /\ faults' = faults - 1 /\ Ends(c, "error", 0)

\* A ledger call fails, or the client hangs up: nothing more is done.
Fails(c) ==
    /\ pc[c] \notin {"idle", "done"}
    /\ faults > 0 /\ faults' = faults - 1
    /\ Ends(c, "error", 0)
    /\ UNCHANGED <<standalone, session, messages, events, env, local, piped>>

---------------------------------------------------------------------------
(* apply_stim_envelope.                                                     *)

Submit(c) ==
    /\ pc[c] = "idle"
    /\ \E e \in Envelopes : env' = [env EXCEPT ![c] = e]
    /\ Goes(c, "session")
    /\ UNCHANGED <<standalone, session, messages, events, local, faults, piped>>

FirstCall(c) == IF env[c].op = "create" THEN "number" ELSE "load"

\* get_session: an unknown session is rejected, or bootstrapped.
GetSession(c) ==
    /\ pc[c] = "session"
    /\ CASE session                          -> Goes(c, FirstCall(c))
         [] ~session /\ env[c].bootstrap     -> Goes(c, "bootstrap")
         [] ~session /\ ~env[c].bootstrap    -> Ends(c, "rejected", 0)
    /\ UNCHANGED <<standalone, session, messages, events, env, local, faults, piped>>

\* create_session: the id is unique, so of two bootstraps one gets an Err.
Bootstrap(c) ==
    /\ pc[c] = "bootstrap"
    /\ session' = TRUE
    /\ \/ session /\ Ends(c, "error", 0) /\ UNCHANGED faults
       \/ ~session /\ Goes(c, FirstCall(c)) /\ UNCHANGED faults
       \/ faults > 0 /\ faults' = faults - 1 /\ Ends(c, "error", 0)
    /\ UNCHANGED <<standalone, messages, events, env, local, piped>>

---------------------------------------------------------------------------
(* append_message.                                                          *)

\* The SQLite ledger keeps the text of all parts as one part (content_to_text; what
\* it puts between them is left out).
Content(parts) ==
    IF standalone THEN << [text |-> FlattenSeq([i \in DOMAIN parts |-> parts[i].text])] >>
    ELSE parts

\* Mutant: the highest sequence is not incremented.
MutantNumber(c) ==
    /\ pc[c] = "number"
    /\ local' = [local EXCEPT ![c] =
          Row(LastSeq, env[c].sender, Content(env[c].parts), env[c].fixed, 1)]
    /\ Goes(c, "insert")
    /\ UNCHANGED <<standalone, session, messages, events, env, faults, piped>>

\* MAX(session_seq) + 1 is read.
Number(c) ==
    /\ pc[c] = "number"
    /\ local' = [local EXCEPT ![c] =
          Row(LastSeq + 1, env[c].sender, Content(env[c].parts), env[c].fixed, 1)]
    /\ Goes(c, "insert")
    /\ UNCHANGED <<standalone, session, messages, events, env, faults, piped>>

Unused(m, seq) == m \notin Stored /\ \A row \in Rows : row.seq # seq

\* The ledger with c's row in it.
WithLocal(c) ==
    [m \in Stored \union {env[c].message} |->
        IF m = env[c].message THEN local[c] ELSE messages[m]]

\* Mutant: no unique key over session and sequence.
MutantInsert(c) ==
    /\ pc[c] = "insert"
    /\ env[c].message \notin Stored
    /\ messages' = WithLocal(c)
    /\ Took(c, 1)
    /\ UNCHANGED <<standalone, session, events, env, local, piped>>

\* The row is inserted under its unique keys, the message's id and the number.
Insert(c) ==
    /\ pc[c] = "insert"
    /\ Unused(env[c].message, local[c].seq)
    /\ messages' = WithLocal(c)
    /\ Took(c, 1)
    /\ UNCHANGED <<standalone, session, events, env, local, piped>>

\* The id was used before, or another append took the number.
InsertRefused(c) ==
    /\ pc[c] = "insert"
    /\ ~Unused(env[c].message, local[c].seq)
    /\ Ends(c, "error", 0)
    /\ UNCHANGED <<standalone, session, messages, events, env, local, faults, piped>>

---------------------------------------------------------------------------
(* apply_message_event.                                                     *)

\* The checks on the row that was read.
May(row, e) ==
    /\ row.author = e.sender
    /\ row.version = e.base
    /\ ~row.fixed
    /\ Fits(e.op, row.parts, e.parts)

After(row, e) ==
    Row(row.seq, row.author, Edited(e.op, row.parts, e.parts),
        e.op = "fix", row.version + 1)

\* Another edit of the message is between its read and its answer.
UnderWay(m, c) ==
    \E d \in Calls \ {c} : /\ pc[d] \in {"write", "read"}
                           /\ env[d].message = m /\ env[d].op \in Edits

\* Mutant: a fixed message is not refused.
MutantLoad(c) ==
    /\ pc[c] = "load"
    /\ LET m == env[c].message
       IN  /\ m \in Stored
           /\ messages[m].author = env[c].sender
           /\ messages[m].version = env[c].base
           /\ Fits(env[c].op, messages[m].parts, env[c].parts)
           /\ local' = [local EXCEPT ![c] = After(messages[m], env[c])]
           /\ piped' = IF UnderWay(m, c) THEN piped \union {m} ELSE piped
    /\ Goes(c, "write")
    /\ UNCHANGED <<standalone, session, messages, events, env, faults>>

\* The row is read, checked, and the new row computed.
Load(c) ==
    /\ pc[c] = "load"
    /\ LET m == env[c].message
       IN  /\ m \in Stored /\ May(messages[m], env[c])
           /\ local' = [local EXCEPT ![c] = After(messages[m], env[c])]
           /\ piped' = IF UnderWay(m, c) THEN piped \union {m} ELSE piped
    /\ Goes(c, "write")
    /\ UNCHANGED <<standalone, session, messages, events, env, faults>>

\* There is no such message, or it may not be edited so.
LoadRefused(c) ==
    /\ pc[c] = "load"
    /\ LET m == env[c].message
       IN  ~(m \in Stored /\ May(messages[m], env[c]))
    /\ Ends(c, "error", 0)
    /\ UNCHANGED <<standalone, session, messages, events, env, local, faults, piped>>

Logged(e) == \E l \in events : l.id = e.id

\* Mutant: message_events has no primary key.
MutantWrite(c) ==
    /\ pc[c] = "write"
    /\ messages' = WithLocal(c)
    /\ events' = IF standalone THEN events ELSE events \union {env[c]}
    /\ Took(c, local[c].version)
    /\ UNCHANGED <<standalone, session, env, local, piped>>

\* Mutant: the event is not logged.
MutantWriteUnlogged(c) ==
    /\ pc[c] = "write"
    /\ messages' = WithLocal(c)
    /\ Took(c, local[c].version)
    /\ UNCHANGED <<standalone, session, events, env, local, piped>>

\* Postgres logs the event, whose id is unique, and updates the row; SQLite
\* updates the row.  The UPDATE looks at the id only.
Write(c) ==
    /\ pc[c] = "write"
    /\ standalone \/ ~Logged(env[c])
    /\ messages' = WithLocal(c)
    /\ events' = IF standalone THEN events ELSE events \union {env[c]}
    /\ Took(c, local[c].version)
    /\ UNCHANGED <<standalone, session, env, local, piped>>

\* The event's id is in the log: the envelope was applied before.
WriteRefused(c) ==
    /\ pc[c] = "write"
    /\ ~standalone /\ Logged(env[c])
    /\ Ends(c, "error", 0)
    /\ UNCHANGED <<standalone, session, messages, events, env, local, faults, piped>>

\* SQLite: an append answers with the session's last message, an edit with the
\* message as it is now.
ReadBack(c) ==
    /\ pc[c] = "read"
    /\ \E m \in Stored :
          /\ IF env[c].op = "create" THEN messages[m].seq = LastSeq ELSE m = env[c].message
          /\ Applied(c, messages[m].version)
    /\ UNCHANGED <<standalone, session, messages, events, env, local, faults, piped>>

---------------------------------------------------------------------------
Next ==
    \E c \in Calls :
        \/ Submit(c) \/ GetSession(c) \/ Bootstrap(c)
        \/ Number(c) \/ Insert(c) \/ InsertRefused(c)
        \/ Load(c) \/ LoadRefused(c) \/ Write(c) \/ WriteRefused(c)
        \/ ReadBack(c) \/ Fails(c)

Spec == Init /\ [][Next]_vars

---------------------------------------------------------------------------
(* Appends race for MAX + 1 and some fail, yet the session's sequence has no  *)
(* gap and no number twice.                                                   *)
SeqsAreDense ==
    /\ {row.seq : row \in Rows} = 1..Cardinality(Stored)
    /\ \A m, n \in Stored : messages[m].seq = messages[n].seq => m = n

(* Every version of a hosted message but the first is accounted for in the    *)
(* event log, whatever edits overlapped.                                      *)
LogCoversVersions ==
    ~standalone => \A m \in Stored : \A v \in 1..(messages[m].version - 1) :
        \E e \in events : e.message = m /\ e.base = v

(* An acknowledged edit is told the version it made: always in Postgres, which *)
(* reloads inside the transaction; in SQLite, which reads the row back, unless *)
(* edits of the message overlapped.                                            *)
AckIsOwnVersion ==
    \A c \in Calls :
        answer[c].result = "applied" /\ env[c].op \in Edits =>
            \/ answer[c].version = env[c].base + 1
            \/ standalone /\ env[c].message \in piped

(* An envelope that is submitted again is applied once in Postgres, whatever   *)
(* else is going on.                                                           *)
EnvelopeAppliedOnce ==
    ~standalone => \A c, d \in Calls :
        /\ env[c] = env[d] /\ env[c] # NoEnvelope
        /\ answer[c].result = "applied" /\ answer[d].result = "applied"
        => c = d

(* As long as an author waits for the answer of one edit before sending the    *)
(* next one, every change of a message is one edit by its author, based on the *)
(* version it replaces, of a message that is not fixed.  Other authors, other   *)
(* messages, retries and failures do not matter.                               *)
EditsAreAtomic ==
    [][\A m \in Stored \ piped' :
          messages'[m] # messages[m] =>
              \E e \in Envelopes :
                  /\ e.message = m /\ May(messages[m], e)
                  /\ messages'[m] = After(messages[m], e)]_vars

(* Then a message that was fixed by an edit has exactly one reply started for  *)
(* it, unless a failure came between.                                          *)
RepliedOnce ==
    \A m \in MessageIds \ piped :
        /\ replies[m] <= 1
        /\ /\ faults = MaxFaults
           /\ m \in Stored /\ messages[m].fixed /\ messages[m].version > 1
           /\ \A c \in Calls : env[c] # NoEnvelope /\ env[c].message = m => pc[c] # "read"
           => replies[m] = 1

ItemLists(objects) ==
    BoundedSeq([index : -1..(MaxParts + MaxItems), part : objects], MaxItems)

(* What an applied edit makes of the parts is what the client asked for: every *)
(* field of a patched part has the last value given for it, removals drop       *)
(* exactly the indexes named, inserted parts are found at the indexes asked for. *)
(* It does not depend on the state and is looked at once, before the first      *)
(* submission.                                                                  *)
EditsAreExact ==
    (\A c \in Calls : pc[c] = "idle") => \A parts \in BoundedSeq(Parts, MaxParts) :
        /\ \A items \in ItemLists(Merges) :
              PatchFits(parts, items) => PatchExact(parts, items)
        /\ \A items \in ItemLists(Parts) :
              /\ RemoveFits(parts, items) => RemoveExact(parts, items)
              /\ InsertFits(parts, items) => InsertExact(parts, items)

(* docs/contracts/data-model/session-message-model.md:327: fixed messages      *)
(* cannot mutate further.                                                      *)
FixedNeverChanges ==
    [][\A m \in Stored : messages[m].fixed => messages'[m] = messages[m]]_vars
==========================================================================
