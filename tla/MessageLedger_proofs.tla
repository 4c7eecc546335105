----------------------- MODULE MessageLedger_proofs -----------------------
(***************************************************************************)
(* Proofs about the public message ledger, for any envelopes, any number of *)
(* submissions and failures, on either deployment, and about what edits make *)
(* of the parts of a message, for any parts and any number of items.        *)
(***************************************************************************)
EXTENDS MessageLedger, FiniteSetTheorems, SequenceTheorems, TLAPS

\* A submission is at the ledger calls of its envelope's operation.
Shape ==
    \A c \in Calls :
        /\ pc[c] # "idle" => env[c] \in Envelopes
        /\ pc[c] \in {"number", "insert"} => env[c].op = "create"
        /\ pc[c] \in {"load", "write"} => env[c].op \in Edits

\* A number that was taken for an insert is at most one ahead; an edited row
\* keeps the number of the row it replaces.
Numbers ==
    /\ SeqsAreDense
    /\ \A c \in Calls :
          /\ pc[c] = "insert" => local[c].seq \in 1..(Cardinality(Stored) + 1)
          /\ pc[c] = "write" =>
                /\ env[c].message \in Stored
                /\ local[c].seq = messages[env[c].message].seq

TypeInv == TypeOK /\ Shape /\ Numbers

(* The sequence of a session ends at the number of its messages. *)
LEMMA LastIsCount ==
    ASSUME TypeOK, SeqsAreDense
    PROVE  /\ Cardinality(Stored) \in Nat /\ IsFiniteSet(Stored)
           /\ LastSeq = Cardinality(Stored)
<1>1. IsFiniteSet(Stored)
  BY MessageLedgerAssumption, FS_Subset DEF TypeOK
<1>2. Cardinality(Stored) \in Nat
  BY <1>1, FS_CardinalityType
<1> DEFINE K == Cardinality(Stored)
           S == {0} \union 1..K
<1>3. LastSeq = Max(S)
  BY DEF LastSeq, SeqsAreDense
<1>4. K \in S /\ \A y \in S : K >= y
  BY <1>2
<1>5. \A x \in S : (\A y \in S : x >= y) => x = K
  BY <1>2
<1> HIDE DEF S
<1>6. Max(S) = K
  BY <1>4, <1>5 DEF Max
<1> QED
  BY <1>1, <1>2, <1>3, <1>6

(* What ends a submission or takes it further changes no more than that. *)
LEMMA MovesTyped ==
    ASSUME TypeOK, NEW c \in Calls, NEW next, NEW result, NEW version,
           \/ /\ Goes(c, next)
              /\ next \in {"session", "bootstrap", "number", "insert", "load", "write", "read"}
           \/ Ends(c, result, version) /\ result \in {"rejected", "error"} /\ version = 0
           \/ /\ Applied(c, version)
              /\ version \in Nat /\ env[c] \in Envelopes
    PROVE  /\ pc' \in [Calls -> {"idle", "session", "bootstrap", "number", "insert",
                                 "load", "write", "read", "done"}]
           /\ answer' \in [Calls -> [result : {"none", "rejected", "error", "applied"},
                                     version : Nat]]
           /\ replies' \in [MessageIds -> Nat]
           /\ \A d \in Calls \ {c} : pc'[d] = pc[d]
           /\ pc'[c] \in {next, "done"}
<1>1. CASE /\ Goes(c, next)
           /\ next \in {"session", "bootstrap", "number", "insert", "load", "write", "read"}
  BY <1>1 DEF Goes, TypeOK
<1>2. CASE Ends(c, result, version) /\ result \in {"rejected", "error"} /\ version = 0
  BY <1>2 DEF Ends, TypeOK
<1>3. CASE Applied(c, version) /\ version \in Nat /\ env[c] \in Envelopes
  BY <1>3, MessageLedgerAssumption DEF Applied, TypeOK
<1> QED
  BY <1>1, <1>2, <1>3

(* A row keeps its type when it is edited. *)
LEMMA AfterTyped ==
    ASSUME NEW row, RowTyped(row), NEW e
    PROVE  RowTyped(After(row, e)) /\ After(row, e).seq = row.seq
  BY DEF RowTyped, After, Row

(* What a row that is inserted or updated does to the ledger. *)
LEMMA WithLocalIs ==
    ASSUME NEW c \in Calls
    PROVE  /\ DOMAIN WithLocal(c) = Stored \union {env[c].message}
           /\ WithLocal(c)[env[c].message] = local[c]
           /\ \A m \in Stored : m # env[c].message => WithLocal(c)[m] = messages[m]
  BY DEF WithLocal, Stored

(* An insert appends the next number. *)
LEMMA InsertNumbers ==
    ASSUME TypeInv, NEW c \in Calls, Insert(c)
    PROVE  Numbers'
<1> DEFINE K == Cardinality(Stored)
           M == env[c].message
<1>1. K \in Nat /\ IsFiniteSet(Stored)
  BY LastIsCount DEF TypeInv, Numbers
<1>2. /\ pc[c] = "insert" /\ M \notin Stored
      /\ messages' = WithLocal(c)
      /\ \A m \in Stored : messages[m].seq # local[c].seq
  BY DEF Insert, Unused, Rows
<1>3. /\ Stored' = Stored \union {M}
      /\ messages'[M] = local[c]
      /\ \A m \in Stored : messages'[m] = messages[m]
  BY <1>2, WithLocalIs DEF Stored
<1>4. Cardinality(Stored') = K + 1
  BY <1>1, <1>2, <1>3, FS_AddElement
<1>5. \A m \in Stored : messages[m].seq \in 1..K
  BY DEF TypeInv, Numbers, SeqsAreDense, Rows
<1>6. {messages[m].seq : m \in Stored} = 1..K
  BY DEF TypeInv, Numbers, SeqsAreDense, Rows
<1>7. local[c].seq = K + 1
  <2>1. local[c].seq \in 1..(K + 1)
    BY <1>2 DEF TypeInv, Numbers
  <2>2. local[c].seq \notin 1..K
    BY <1>2, <1>6
  <2> QED
    BY <1>1, <2>1, <2>2
<1>8. {messages'[m].seq : m \in Stored'} = 1..(K + 1)
  <2>1. {messages'[m].seq : m \in Stored'} = {messages[m].seq : m \in Stored} \union {K + 1}
    BY <1>2, <1>3, <1>7
  <2>2. 1..K \union {K + 1} = 1..(K + 1)
    BY <1>1
  <2> QED
    BY <1>6, <2>1, <2>2
<1>9. SeqsAreDense'
  <2>1. \A m, n \in Stored' : messages'[m].seq = messages'[n].seq => m = n
    BY <1>1, <1>2, <1>3, <1>5, <1>7 DEF TypeInv, Numbers, SeqsAreDense
  <2>2. {row.seq : row \in Rows'} = {messages'[m].seq : m \in Stored'}
    BY DEF Rows
  <2>3. {row.seq : row \in Rows'} = 1..Cardinality(Stored')
    BY <1>4, <1>8, <2>2
  <2> QED
    BY <2>1, <2>3 DEF SeqsAreDense
<1>10. ASSUME NEW d \in Calls, pc'[d] = "insert"
       PROVE  local'[d].seq \in 1..(Cardinality(Stored') + 1)
  <2>1. pc[d] = "insert" /\ local' = local
    BY <1>10 DEF Insert, Took, Goes, Applied, Ends, TypeInv, TypeOK
  <2>2. local[d].seq \in 1..(K + 1)
    BY <2>1 DEF TypeInv, Numbers
  <2> QED
    BY <1>1, <1>4, <2>1, <2>2
<1>11. ASSUME NEW d \in Calls, pc'[d] = "write"
       PROVE  /\ env'[d].message \in Stored'
              /\ local'[d].seq = messages'[env'[d].message].seq
  <2>1. pc[d] = "write" /\ UNCHANGED <<local, env>>
    BY <1>11 DEF Insert, Took, Goes, Applied, Ends, TypeInv, TypeOK
  <2> QED
    BY <1>3, <2>1 DEF TypeInv, Numbers
<1> QED
  BY <1>9, <1>10, <1>11 DEF Numbers

(* An update keeps every number. *)
LEMMA WriteNumbers ==
    ASSUME TypeInv, NEW c \in Calls, Write(c)
    PROVE  Numbers' /\ Stored' = Stored
<1>1. messages' = WithLocal(c) /\ local' = local
  BY DEF Write
<1>2. Stored' = Stored /\ \A m \in Stored : messages'[m].seq = messages[m].seq
  <2>1. env[c].message \in Stored /\ local[c].seq = messages[env[c].message].seq
    BY DEF Write, TypeInv, Numbers
  <2> QED
    BY <1>1, <2>1, WithLocalIs DEF Stored
<1>3. {row.seq : row \in Rows'} = {row.seq : row \in Rows}
  <2>1. {row.seq : row \in Rows'} = {messages'[m].seq : m \in Stored'}
    BY DEF Rows
  <2>2. {row.seq : row \in Rows} = {messages[m].seq : m \in Stored}
    BY DEF Rows
  <2>3. {messages'[m].seq : m \in Stored'} = {messages[m].seq : m \in Stored}
    BY <1>2
  <2> QED
    BY <2>1, <2>2, <2>3
<1>4. SeqsAreDense'
  <2>1. {row.seq : row \in Rows'} = 1..Cardinality(Stored')
    BY <1>2, <1>3 DEF TypeInv, Numbers, SeqsAreDense
  <2>2. \A m, n \in Stored' : messages'[m].seq = messages'[n].seq => m = n
    BY <1>2 DEF TypeInv, Numbers, SeqsAreDense
  <2> QED
    BY <2>1, <2>2 DEF SeqsAreDense
<1>5. /\ \A d \in Calls : pc'[d] \in {"insert", "write"} => pc[d] = pc'[d]
      /\ env' = env
  BY DEF Write, Took, Goes, Applied, Ends, TypeInv, TypeOK
<1> QED
  BY <1>1, <1>2, <1>4, <1>5 DEF TypeInv, Numbers

(* An action that leaves the ledger alone keeps the types. *)
LEMMA QuietTyped ==
    ASSUME TypeInv, NEW c \in Calls, NEW next, NEW result, NEW version,
           \/ Goes(c, next) /\ next \in {"bootstrap", FirstCall(c)}
           \/ Ends(c, result, version) /\ result \in {"rejected", "error"} /\ version = 0
           \/ Applied(c, version) /\ version \in Nat,
           pc[c] # "idle",
           UNCHANGED <<standalone, messages, events, env, local>>,
           session' \in BOOLEAN, faults' \in Nat, piped' \subseteq MessageIds
    PROVE  TypeInv'
<1> USE DEF TypeInv
<1>0. env[c] \in Envelopes /\ env[c].op \in Edits \union {"create"}
  BY MessageLedgerAssumption DEF Shape
<1>1. /\ pc' \in [Calls -> {"idle", "session", "bootstrap", "number", "insert",
                             "load", "write", "read", "done"}]
      /\ answer' \in [Calls -> [result : {"none", "rejected", "error", "applied"},
                                 version : Nat]]
      /\ replies' \in [MessageIds -> Nat]
      /\ \A d \in Calls \ {c} : pc'[d] = pc[d]
      /\ pc'[c] \in {"bootstrap", FirstCall(c), "done"}
  <2>1. CASE Goes(c, next) /\ next \in {"bootstrap", FirstCall(c)}
    BY <2>1, MovesTyped DEF FirstCall
  <2>2. CASE \/ Ends(c, result, version) /\ result \in {"rejected", "error"} /\ version = 0
             \/ Applied(c, version) /\ version \in Nat
    <3>1. pc' = [pc EXCEPT ![c] = "done"]
      BY <2>2 DEF Ends, Applied
    <3> QED
      BY <1>0, <2>2, <3>1, MovesTyped DEF TypeOK
  <2> QED
    BY <2>1, <2>2
<1>2. Stored' = Stored /\ Rows' = Rows
  BY DEF Stored, Rows
<1>3. \A d \in Calls : pc'[d] \in {"insert", "write"} => pc[d] = pc'[d]
  BY <1>1 DEF FirstCall
<1>4. TypeOK'
  BY <1>1, <1>2, <1>3 DEF TypeOK, RowTyped
<1>5. Shape'
  BY <1>0, <1>1, <1>3 DEF Shape, FirstCall
<1>6. Numbers'
  BY <1>2, <1>3 DEF Numbers, SeqsAreDense
<1> QED
  BY <1>4, <1>5, <1>6

(* Every step keeps the invariant. *)
LEMMA TypeStep ==
    ASSUME TypeInv, [Next]_vars
    PROVE  TypeInv'
<1> USE MessageLedgerAssumption
<1>1. ASSUME NEW c \in Calls, Submit(c)
      PROVE  TypeInv'
  <2>1. Goes(c, "session") /\ pc[c] = "idle"
        /\ UNCHANGED <<standalone, session, messages, events, local, faults, piped>>
    BY <1>1 DEF Submit
  <2>2. PICK e \in Envelopes : env' = [env EXCEPT ![c] = e]
    BY <1>1 DEF Submit
  <2>3. pc' = [pc EXCEPT ![c] = "session"]
    BY <2>1 DEF Goes
  <2>4. Stored' = Stored /\ Rows' = Rows
    BY <2>1 DEF Stored, Rows
  <2>5. TypeOK'
    BY <2>1, <2>2, <2>3, <2>4, MovesTyped DEF TypeInv, TypeOK, RowTyped
  <2>6. Shape'
    BY <2>2, <2>3 DEF TypeInv, TypeOK, Shape
  <2>7. Numbers'
    <3>1. \A d \in Calls : pc'[d] \in {"insert", "write"} => pc[d] = pc'[d] /\ env'[d] = env[d]
      BY <2>2, <2>3 DEF TypeInv, TypeOK
    <3> QED
      BY <2>1, <2>4, <3>1 DEF TypeInv, Numbers, SeqsAreDense
  <2> QED
    BY <2>5, <2>6, <2>7 DEF TypeInv
<1>2. ASSUME NEW c \in Calls, GetSession(c)
      PROVE  TypeInv'
  <2>1. \/ Goes(c, FirstCall(c)) \/ Goes(c, "bootstrap") \/ Ends(c, "rejected", 0)
    BY <1>2 DEF GetSession, TypeInv, TypeOK
  <2>2. /\ pc[c] = "session" /\ session \in BOOLEAN /\ faults \in Nat /\ piped \subseteq MessageIds
        /\ UNCHANGED <<standalone, session, messages, events, env, local, faults, piped>>
    BY <1>2 DEF GetSession, TypeInv, TypeOK
  <2> QED
    BY <2>1, <2>2, QuietTyped
<1>3. ASSUME NEW c \in Calls, Bootstrap(c)
      PROVE  TypeInv'
  <2>1. /\ pc[c] = "bootstrap" /\ session' \in BOOLEAN /\ faults' \in Nat
        /\ piped' \subseteq MessageIds
        /\ UNCHANGED <<standalone, messages, events, env, local>>
        /\ Goes(c, FirstCall(c)) \/ Ends(c, "error", 0)
    BY <1>3 DEF Bootstrap, TypeInv, TypeOK
  <2> QED
    BY <2>1, QuietTyped
<1>4. ASSUME NEW c \in Calls,
             \/ Fails(c) \/ InsertRefused(c) \/ LoadRefused(c) \/ WriteRefused(c)
      PROVE  TypeInv'
  <2>1. /\ pc[c] # "idle" /\ session' \in BOOLEAN /\ faults' \in Nat
        /\ piped' \subseteq MessageIds
        /\ UNCHANGED <<standalone, messages, events, env, local>>
        /\ Ends(c, "error", 0)
    BY <1>4 DEF Fails, InsertRefused, LoadRefused, WriteRefused, TypeInv, TypeOK
  <2> QED
    BY <2>1, QuietTyped
<1>5. ASSUME NEW c \in Calls, ReadBack(c)
      PROVE  TypeInv'
  <2>1. /\ pc[c] # "idle" /\ session' \in BOOLEAN /\ faults' \in Nat
        /\ piped' \subseteq MessageIds
        /\ UNCHANGED <<standalone, messages, events, env, local>>
    BY <1>5 DEF ReadBack, TypeInv, TypeOK
  <2>2. PICK m \in Stored : Applied(c, messages[m].version)
    BY <1>5 DEF ReadBack
  <2>3. messages[m].version \in Nat
    BY DEF TypeInv, TypeOK, RowTyped
  <2> QED
    BY <2>1, <2>2, <2>3, QuietTyped
<1>6. ASSUME NEW c \in Calls, Number(c)
      PROVE  TypeInv'
  <2>1. /\ pc[c] = "number" /\ pc' = [pc EXCEPT ![c] = "insert"]
        /\ UNCHANGED <<standalone, session, messages, events, env, faults, piped, answer, replies>>
    BY <1>6 DEF Number, Goes
  <2>2. Cardinality(Stored) \in Nat /\ LastSeq = Cardinality(Stored)
    BY LastIsCount DEF TypeInv, Numbers
  <2>3. local' = [local EXCEPT ![c] =
          Row(LastSeq + 1, env[c].sender, Content(env[c].parts), env[c].fixed, 1)]
    BY <1>6 DEF Number
  <2>4. env[c] \in Envelopes /\ env[c].op = "create"
    BY <2>1 DEF TypeInv, Shape
  <2>5. RowTyped(local'[c]) /\ local'[c].seq = Cardinality(Stored) + 1
    BY <2>2, <2>3, <2>4 DEF TypeInv, TypeOK, RowTyped, Row
  <2>6. \A d \in Calls \ {c} : local'[d] = local[d]
    BY <2>3 DEF TypeInv, TypeOK
  <2>7. Stored' = Stored /\ Rows' = Rows
    BY <2>1 DEF Stored, Rows
  <2>8. TypeOK'
    BY <2>1, <2>3, <2>5, <2>6, <2>7 DEF TypeInv, TypeOK, RowTyped
  <2>9. Shape'
    BY <2>1, <2>4 DEF TypeInv, TypeOK, Shape
  <2>10. Numbers'
    BY <2>1, <2>2, <2>5, <2>6, <2>7 DEF TypeInv, TypeOK, Numbers, SeqsAreDense
  <2> QED
    BY <2>8, <2>9, <2>10 DEF TypeInv
<1>7. ASSUME NEW c \in Calls, Load(c)
      PROVE  TypeInv'
  <2> DEFINE M == env[c].message
  <2>1. /\ pc[c] = "load" /\ pc' = [pc EXCEPT ![c] = "write"]
        /\ UNCHANGED <<standalone, session, messages, events, env, faults, answer, replies>>
        /\ M \in Stored /\ piped' \in {piped, piped \union {M}}
        /\ local' = [local EXCEPT ![c] = After(messages[M], env[c])]
    BY <1>7 DEF Load, Goes
  <2>2. /\ RowTyped(local'[c]) /\ local'[c].seq = messages[M].seq
        /\ \A d \in Calls \ {c} : local'[d] = local[d]
    BY <2>1, AfterTyped DEF TypeInv, TypeOK
  <2>3. Stored' = Stored /\ Rows' = Rows
    BY <2>1 DEF Stored, Rows
  <2>4. TypeOK'
    BY <2>1, <2>2, <2>3 DEF TypeInv, TypeOK, RowTyped
  <2>5. Shape'
    BY <2>1 DEF TypeInv, TypeOK, Shape
  <2>6. Numbers'
    BY <2>1, <2>2, <2>3 DEF TypeInv, TypeOK, Numbers, SeqsAreDense
  <2> QED
    BY <2>4, <2>5, <2>6 DEF TypeInv
<1>8. ASSUME NEW c \in Calls, Insert(c) \/ Write(c)
      PROVE  TypeInv'
  <2>1. /\ pc[c] \in {"insert", "write"} /\ messages' = WithLocal(c)
        /\ UNCHANGED <<standalone, session, env, local, piped>>
        /\ events' \in {events, events \union {env[c]}}
        /\ env[c] \in Envelopes
        /\ Took(c, 1) \/ Took(c, local[c].version)
    BY <1>8 DEF Insert, Write, TypeInv, Shape
  <2>2. RowTyped(local[c])
    BY <2>1 DEF TypeInv, TypeOK
  <2>3. local[c].version \in Nat
    BY <2>2 DEF RowTyped
  <2>4. /\ faults' \in Nat
        /\ \/ Goes(c, "read") \/ Ends(c, "error", 0)
           \/ Applied(c, 1) \/ Applied(c, local[c].version)
    BY <2>1 DEF Took, TypeInv, TypeOK
  <2>5. /\ pc' \in [Calls -> {"idle", "session", "bootstrap", "number", "insert",
                               "load", "write", "read", "done"}]
        /\ answer' \in [Calls -> [result : {"none", "rejected", "error", "applied"},
                                   version : Nat]]
        /\ replies' \in [MessageIds -> Nat]
        /\ \A d \in Calls \ {c} : pc'[d] = pc[d]
        /\ pc'[c] \in {"read", "done"}
    <3>1. pc'[c] \in {"read", "done"}
      BY <2>4 DEF Goes, Ends, Applied, TypeInv, TypeOK
    <3> QED
      BY <2>1, <2>3, <2>4, <3>1, MovesTyped DEF TypeInv
  <2>6. Stored' \subseteq MessageIds /\ \A m \in Stored' : RowTyped(messages'[m])
    <3>1. Stored' = Stored \union {env[c].message}
      BY <2>1, WithLocalIs DEF Stored
    <3>2. env[c].message \in MessageIds
      BY <2>1
    <3> QED
      BY <2>1, <2>2, <3>1, <3>2, WithLocalIs DEF TypeInv, TypeOK
  <2>7. TypeOK'
    BY <2>1, <2>4, <2>5, <2>6 DEF TypeInv, TypeOK, RowTyped
  <2>8. Shape'
    BY <2>1, <2>5 DEF TypeInv, Shape
  <2>9. Numbers'
    BY <1>8, InsertNumbers, WriteNumbers
  <2> QED
    BY <2>7, <2>8, <2>9 DEF TypeInv
<1>9. CASE UNCHANGED vars
  <2>1. Stored' = Stored /\ Rows' = Rows
    BY <1>9 DEF vars, Stored, Rows
  <2>2. TypeOK' /\ Shape'
    BY <1>9, <2>1 DEF vars, TypeInv, TypeOK, RowTyped, Shape
  <2>3. Numbers'
    BY <1>9, <2>1 DEF vars, TypeInv, Numbers, SeqsAreDense
  <2> QED
    BY <2>2, <2>3 DEF TypeInv
<1> QED
  BY <1>1, <1>2, <1>3, <1>4, <1>5, <1>6, <1>7, <1>8, <1>9 DEF Next

(* The initial state satisfies the invariant. *)
LEMMA TypeInit == Init => TypeInv
<1> SUFFICES ASSUME Init PROVE TypeInv
  OBVIOUS
<1> USE MessageLedgerAssumption
<1>1. Stored = {}
  BY DEF Init, Stored
<1>2. TypeOK
  BY <1>1 DEF Init, TypeOK, NoAnswer
<1>3. Shape
  BY DEF Init, Shape
<1>4. SeqsAreDense
  <2>1. Cardinality(Stored) = 0
    BY <1>1, FS_EmptySet
  <2>2. {row.seq : row \in Rows} = {}
    BY <1>1 DEF Rows
  <2> QED
    BY <1>1, <2>1, <2>2 DEF SeqsAreDense
<1>5. Numbers
  BY <1>4 DEF Init, Numbers
<1> QED
  BY <1>2, <1>3, <1>5 DEF TypeInv

(* Types, shape and numbering are invariant. *)
LEMMA TypeInvariant == Spec => []TypeInv
  BY TypeInit, TypeStep, PTL DEF Spec

(* Every variable of the ledger keeps its type. *)
THEOREM TypeCorrect == Spec => []TypeOK
<1>1. TypeInv => TypeOK
  BY DEF TypeInv
<1> QED
  BY <1>1, TypeInvariant, PTL

(* However appends race, the session's sequence has no gap and no twins. *)
THEOREM DenseSequence == Spec => []SeqsAreDense
<1>1. TypeInv => SeqsAreDense
  BY DEF TypeInv, Numbers
<1> QED
  BY <1>1, TypeInvariant, PTL

---------------------------------------------------------------------------
(* What a submission that is under way knows of its message.                *)

Editing(c) == pc[c] \in {"write", "read"} /\ env[c].op \in Edits

\* Nobody has been acknowledged yet who is not done; Postgres never reads back.
Answered ==
    \A c \in Calls :
        /\ pc[c] # "done" => answer[c].result # "applied"
        /\ ~standalone => pc[c] # "read"

\* The version that is going to be written.
Versions ==
    \A c \in Calls :
        /\ pc[c] = "insert" => local[c].version = 1
        /\ pc[c] = "write" => local[c].version = env[c].base + 1

\* Two edits of one message at the same time leave a trace.
Overlaps ==
    \A c, d \in Calls :
        c # d /\ Editing(c) /\ Editing(d) /\ env[c].message = env[d].message
            => env[c].message \in piped

\* Without overlaps, what was read is still there at the write, and what was
\* written at the read back.
Fresh ==
    \A c \in Calls :
        LET m == env[c].message
        IN  Editing(c) /\ m \notin piped =>
                /\ m \in Stored
                /\ pc[c] = "write" => /\ May(messages[m], env[c])
                                      /\ local[c] = After(messages[m], env[c])
                /\ pc[c] = "read" => messages[m].version = env[c].base + 1

EditInv == TypeInv /\ Answered /\ Versions /\ Overlaps /\ Fresh

\* A version that was made by an edit in the log.
Covered(m, v) == \E e \in events : e.message = m /\ e.base = v

\* The versions before the one that was read are accounted for, too.
LogInv ==
    /\ LogCoversVersions
    /\ ~standalone => \A c \in Calls : pc[c] = "write" =>
          \A v \in 1..(env[c].base - 1) : Covered(env[c].message, v)

\* What Postgres acknowledged is in the ledger or in the log.
Recorded ==
    ~standalone => \A c \in Calls : answer[c].result = "applied" =>
        IF env[c].op = "create" THEN env[c].message \in Stored ELSE Logged(env[c])

LedgerInv == EditInv /\ LogInv /\ Recorded /\ AckIsOwnVersion /\ EnvelopeAppliedOnce
\* A step of c leaves the other submissions alone.
OthersRest(c) ==
    /\ \A d \in Calls \ {c} :
          /\ pc'[d] = pc[d] /\ env'[d] = env[d]
          /\ local'[d] = local[d] /\ answer'[d] = answer[d]
    /\ standalone' = standalone

\* A step of c that neither loads nor writes a row and acknowledges nothing.
Quiet(c) ==
    /\ OthersRest(c)
    /\ UNCHANGED <<messages, events, piped>>
    /\ pc'[c] \notin {"write", "read"}
    /\ pc'[c] = "insert" => local'[c].version = 1
    /\ answer'[c].result # "applied"

(* Most steps are like that. *)
LEMMA QuietSteps ==
    ASSUME LedgerInv, NEW c \in Calls,
           \/ Submit(c) \/ GetSession(c) \/ Bootstrap(c) \/ Number(c) \/ InsertRefused(c)
           \/ LoadRefused(c) \/ WriteRefused(c) \/ Fails(c)
    PROVE  Quiet(c)
<1>0. TypeOK /\ Answered
  BY DEF LedgerInv, EditInv, TypeInv
<1>1. CASE Submit(c)
  BY <1>0, <1>1 DEF Quiet, OthersRest, Submit, Goes, TypeOK, Answered
<1>2. CASE GetSession(c)
  <2>1. Goes(c, FirstCall(c)) \/ Goes(c, "bootstrap") \/ Ends(c, "rejected", 0)
    BY <1>0, <1>2 DEF GetSession, TypeOK
  <2> QED
    BY <1>0, <1>2, <2>1 DEF Quiet, OthersRest, GetSession, Goes, Ends, FirstCall, TypeOK, Answered
<1>3. CASE Bootstrap(c)
  BY <1>0, <1>3 DEF Quiet, OthersRest, Bootstrap, Goes, Ends, FirstCall, TypeOK, Answered
<1>4. CASE Number(c)
  BY <1>0, <1>4 DEF Quiet, OthersRest, Number, Goes, TypeOK, Answered, Row
<1>5. CASE InsertRefused(c) \/ LoadRefused(c) \/ WriteRefused(c) \/ Fails(c)
  BY <1>0, <1>5 DEF Quiet, OthersRest, InsertRefused, LoadRefused, WriteRefused, Fails, Ends, TypeOK
<1> QED
  BY <1>1, <1>2, <1>3, <1>4, <1>5

(* They keep the invariant. *)
LEMMA QuietKeeps ==
    ASSUME LedgerInv, TypeInv', NEW c \in Calls, Quiet(c)
    PROVE  LedgerInv'
<1>1. Stored' = Stored
  BY DEF Quiet, Stored
<1>2. \A d \in Calls : Editing(d)' => d # c /\ Editing(d)
  BY DEF Quiet, OthersRest, Editing
<1>3. Answered'
  BY DEF LedgerInv, EditInv, Answered, Quiet, OthersRest
<1>4. Versions'
  BY DEF LedgerInv, EditInv, Versions, Quiet, OthersRest
<1>5. Overlaps'
  BY <1>2 DEF LedgerInv, EditInv, Overlaps, Quiet, OthersRest
<1>6. Fresh'
  BY <1>1, <1>2 DEF LedgerInv, EditInv, Fresh, Quiet, OthersRest
<1>7. LogInv'
  BY <1>1 DEF LedgerInv, LogInv, LogCoversVersions, Covered, Quiet, OthersRest
<1>8. Recorded'
  BY <1>1 DEF LedgerInv, Recorded, Logged, Quiet, OthersRest
<1>9. AckIsOwnVersion'
  BY DEF LedgerInv, AckIsOwnVersion, Quiet, OthersRest
<1>10. EnvelopeAppliedOnce'
  BY DEF LedgerInv, EnvelopeAppliedOnce, Quiet, OthersRest
<1> QED
  BY <1>3, <1>4, <1>5, <1>6, <1>7, <1>8, <1>9, <1>10 DEF LedgerInv, EditInv

(* A row that is read is fresh, and a second edit of it is noticed. *)
LEMMA LoadKeeps ==
    ASSUME LedgerInv, TypeInv', NEW c \in Calls, Load(c)
    PROVE  LedgerInv'
<1> DEFINE M == env[c].message
<1>1. /\ pc[c] = "load" /\ M \in Stored /\ May(messages[M], env[c])
      /\ UNCHANGED <<standalone, messages, events, env, answer>>
      /\ pc' = [pc EXCEPT ![c] = "write"]
      /\ local' = [local EXCEPT ![c] = After(messages[M], env[c])]
      /\ piped' = IF UnderWay(M, c) THEN piped \union {M} ELSE piped
  BY DEF Load, Goes
<1>2. TypeOK /\ env[c].op \in Edits
  BY <1>1 DEF LedgerInv, EditInv, TypeInv, Shape
<1>3. OthersRest(c) /\ pc'[c] = "write" /\ local'[c] = After(messages[M], env[c])
  BY <1>1, <1>2 DEF OthersRest, TypeOK
<1>4. Stored' = Stored
  BY <1>1 DEF Stored
<1>5. Answered'
  BY <1>1, <1>3 DEF LedgerInv, EditInv, Answered, OthersRest
<1>6. Versions'
  <2>1. local'[c].version = env[c].base + 1
    BY <1>1, <1>3 DEF After, Row, May
  <2> QED
    BY <1>1, <1>3, <2>1 DEF LedgerInv, EditInv, Versions, OthersRest
<1>7. Overlaps'
  <2>1. ASSUME NEW d \in Calls, d # c, Editing(d), env[d].message = M
        PROVE  M \in piped'
    BY <1>1, <2>1 DEF UnderWay, Editing
  <2>2. \A d \in Calls \ {c} : Editing(d)' = Editing(d)
    BY <1>1, <1>3 DEF OthersRest, Editing
  <2>3. piped \subseteq piped'
    BY <1>1
  <2> QED
    BY <1>1, <2>1, <2>2, <2>3 DEF LedgerInv, EditInv, Overlaps
<1>8. Fresh'
  <2>1. \A d \in Calls \ {c} : Editing(d)' = Editing(d)
    BY <1>1, <1>3 DEF OthersRest, Editing
  <2>2. piped \subseteq piped'
    BY <1>1
  <2> QED
    BY <1>1, <1>3, <1>4, <2>1, <2>2 DEF LedgerInv, EditInv, Fresh, OthersRest
<1>9. LogInv'
  <2>1. LogCoversVersions'
    BY <1>1, <1>4 DEF LedgerInv, LogInv, LogCoversVersions
  <2>2. ASSUME ~standalone
        PROVE  \A v \in 1..(env[c].base - 1) : Covered(M, v)
    BY <1>1, <2>2 DEF LedgerInv, LogInv, LogCoversVersions, Covered, May
  <2> QED
    BY <1>1, <1>3, <2>1, <2>2 DEF LedgerInv, LogInv, Covered, OthersRest
<1>10. Recorded' /\ EnvelopeAppliedOnce'
  BY <1>1, <1>4 DEF LedgerInv, Recorded, Logged, EnvelopeAppliedOnce
<1>11. AckIsOwnVersion'
  BY <1>1 DEF LedgerInv, AckIsOwnVersion
<1> QED
  BY <1>5, <1>6, <1>7, <1>8, <1>9, <1>10, <1>11 DEF LedgerInv, EditInv
\* How a statement that took effect leaves its submission.
Leaves(c, version) ==
    \/ standalone /\ pc'[c] = "read" /\ UNCHANGED answer
    \/ /\ ~standalone /\ pc'[c] = "done"
       /\ answer'[c] = [result |-> "applied", version |-> version]
    \/ ~standalone /\ pc'[c] = "done" /\ answer'[c].result = "error"

\* A statement that took effect touches no other submission.
LEMMA TookLeaves ==
    ASSUME TypeOK, NEW c \in Calls, NEW version, Took(c, version),
           UNCHANGED <<standalone, env, local>>
    PROVE  OthersRest(c) /\ Leaves(c, version)
<1>1. CASE standalone /\ Goes(c, "read")
  BY <1>1 DEF Goes, OthersRest, Leaves, TypeOK
<1>2. CASE ~standalone /\ Applied(c, version)
  BY <1>2 DEF Applied, OthersRest, Leaves, TypeOK
<1>3. CASE ~standalone /\ Ends(c, "error", 0)
  BY <1>3 DEF Ends, OthersRest, Leaves, TypeOK
<1> QED
  BY <1>1, <1>2, <1>3 DEF Took

(* A new message disturbs no edit: its id was not in use. *)
LEMMA InsertKeeps ==
    ASSUME LedgerInv, TypeInv', NEW c \in Calls, Insert(c)
    PROVE  LedgerInv'
<1> DEFINE M == env[c].message
<1>0. TypeOK /\ pc[c] = "insert" /\ env[c].op = "create" /\ env[c].op \notin Edits
      /\ local[c].version = 1
  BY DEF LedgerInv, EditInv, TypeInv, Shape, Insert, Versions, Edits
<1>1. /\ M \notin Stored /\ messages' = WithLocal(c)
      /\ UNCHANGED <<standalone, env, local, events, piped>> /\ Took(c, 1)
  BY DEF Insert, Unused
<1>2. /\ Stored' = Stored \union {M} /\ messages'[M] = local[c]
      /\ \A m \in Stored : messages'[m] = messages[m]
  BY <1>1, WithLocalIs DEF Stored
<1>3. OthersRest(c) /\ Leaves(c, 1)
  BY <1>0, <1>1, TookLeaves
<1>4. \A d \in Calls : Editing(d)' => d # c /\ Editing(d)
  BY <1>0, <1>1, <1>3 DEF OthersRest, Editing
<1>5. Answered'
  BY <1>0, <1>1, <1>3 DEF LedgerInv, EditInv, Answered, OthersRest, Leaves
<1>6. Versions'
  BY <1>1, <1>3 DEF LedgerInv, EditInv, Versions, OthersRest, Leaves
<1>7. Overlaps'
  BY <1>1, <1>4 DEF LedgerInv, EditInv, Overlaps
<1>8. Fresh'
  BY <1>1, <1>2, <1>3, <1>4 DEF LedgerInv, EditInv, Fresh, OthersRest
<1>9. LogInv'
  <2>1. LogCoversVersions'
    BY <1>0, <1>1, <1>2 DEF LedgerInv, LogInv, LogCoversVersions
  <2> QED
    BY <1>1, <1>3, <2>1 DEF LedgerInv, LogInv, Covered, OthersRest, Leaves
<1>10. Recorded'
  BY <1>0, <1>1, <1>2, <1>3 DEF LedgerInv, Recorded, Logged, OthersRest
<1>11. AckIsOwnVersion'
  BY <1>0, <1>1, <1>3 DEF LedgerInv, AckIsOwnVersion, OthersRest
<1>12. EnvelopeAppliedOnce'
  <2>1. ASSUME ~standalone, NEW d \in Calls \ {c}, answer[d].result = "applied"
        PROVE  env[d] # env[c]
    BY <1>0, <1>1, <2>1 DEF LedgerInv, Recorded
  <2> QED
    BY <1>1, <1>3, <2>1 DEF LedgerInv, EnvelopeAppliedOnce, OthersRest
<1> QED
  BY <1>5, <1>6, <1>7, <1>8, <1>9, <1>10, <1>11, <1>12 DEF LedgerInv, EditInv

(* An update replaces the row that was read, or the message was edited at the *)
(* same time by somebody else.                                                *)
LEMMA WriteKeeps ==
    ASSUME LedgerInv, TypeInv', NEW c \in Calls, Write(c)
    PROVE  LedgerInv'
<1> DEFINE M == env[c].message
<1>0. /\ TypeOK /\ pc[c] = "write" /\ env[c].op \in Edits /\ env[c].op # "create"
      /\ env[c] \in Envelopes /\ M \in Stored /\ local[c].version = env[c].base + 1
      /\ Editing(c)
  BY DEF LedgerInv, EditInv, TypeInv, Shape, Numbers, Write, Versions, Edits, Editing
<1>1. /\ messages' = WithLocal(c)
      /\ standalone \/ ~Logged(env[c])
      /\ events' = IF standalone THEN events ELSE events \union {env[c]}
      /\ UNCHANGED <<standalone, env, local, piped>> /\ Took(c, local[c].version)
  BY DEF Write
<1>2. /\ Stored' = Stored /\ messages'[M] = local[c]
      /\ \A m \in Stored : m # M => messages'[m] = messages[m]
  <2>1. Stored \union {M} = Stored
    BY <1>0
  <2> QED
    BY <1>1, <2>1, WithLocalIs DEF Stored
<1>3. OthersRest(c) /\ Leaves(c, local[c].version)
  BY <1>0, <1>1, TookLeaves
<1>4. \A d \in Calls : Editing(d)' => Editing(d)
  BY <1>0, <1>1, <1>3 DEF OthersRest, Editing
<1>5. Answered'
  BY <1>0, <1>1, <1>3 DEF LedgerInv, EditInv, Answered, OthersRest, Leaves
<1>6. Versions'
  BY <1>1, <1>3 DEF LedgerInv, EditInv, Versions, OthersRest, Leaves
<1>7. Overlaps'
  BY <1>1, <1>4 DEF LedgerInv, EditInv, Overlaps
<1>8. Fresh'
  <2>1. ASSUME NEW d \in Calls \ {c}, Editing(d)', env[d].message \notin piped
        PROVE  env[d].message # M
    BY <1>0, <1>4, <2>1 DEF LedgerInv, EditInv, Overlaps
  <2>2. pc'[c] # "write"
    BY <1>3 DEF Leaves
  <2> QED
    BY <1>0, <1>1, <1>2, <1>3, <1>4, <2>1, <2>2 DEF LedgerInv, EditInv, Fresh, OthersRest
<1>9. LogInv'
  <2>1. ASSUME ~standalone, NEW v \in 1..(env[c].base)
        PROVE  \E e \in events' : e.message = M /\ e.base = v
    <3>1. env[c].base \in Nat
      BY <1>0, MessageLedgerAssumption
    <3>2. CASE v = env[c].base
      BY <1>1, <2>1, <3>2
    <3>3. CASE v \in 1..(env[c].base - 1)
      BY <1>0, <1>1, <2>1, <3>3 DEF LedgerInv, LogInv, Covered
    <3> QED
      BY <2>1, <3>1, <3>2, <3>3
  <2>2. events \subseteq events'
    BY <1>1
  <2>3. LogCoversVersions'
    <3>1. SUFFICES ASSUME ~standalone, NEW m \in Stored,
                          NEW v \in 1..(messages'[m].version - 1)
                   PROVE  \E e \in events' : e.message = m /\ e.base = v
      BY <1>1, <1>2 DEF LogCoversVersions
    <3>2. CASE m = M
      <4>1. local[c].version - 1 = env[c].base
        BY <1>0, MessageLedgerAssumption
      <4> QED
        BY <1>2, <2>1, <3>1, <3>2, <4>1
    <3>3. CASE m # M
      BY <1>2, <2>2, <3>1, <3>3 DEF LedgerInv, LogInv, LogCoversVersions
    <3> QED
      BY <3>2, <3>3
  <2> QED
    BY <1>1, <1>3, <2>2, <2>3 DEF LedgerInv, LogInv, Covered, OthersRest, Leaves
<1>10. Recorded'
  <2>1. ~standalone => Logged(env[c])'
    BY <1>1 DEF Logged
  <2>2. \A e : Logged(e) => Logged(e)'
    BY <1>1 DEF Logged
  <2> QED
    BY <1>0, <1>1, <1>2, <1>3, <2>1, <2>2 DEF LedgerInv, Recorded, OthersRest
<1>11. AckIsOwnVersion'
  BY <1>0, <1>1, <1>3 DEF LedgerInv, EditInv, Answered, AckIsOwnVersion, OthersRest, Leaves
<1>12. EnvelopeAppliedOnce'
  <2>1. ASSUME ~standalone, NEW d \in Calls \ {c}, answer[d].result = "applied"
        PROVE  env[d] # env[c]
    BY <1>0, <1>1, <2>1 DEF LedgerInv, Recorded
  <2> QED
    BY <1>1, <1>3, <2>1 DEF LedgerInv, EnvelopeAppliedOnce, OthersRest
<1> QED
  BY <1>5, <1>6, <1>7, <1>8, <1>9, <1>10, <1>11, <1>12 DEF LedgerInv, EditInv

(* SQLite tells the version that is there. *)
LEMMA ReadBackKeeps ==
    ASSUME LedgerInv, TypeInv', NEW c \in Calls, ReadBack(c)
    PROVE  LedgerInv'
<1>1. /\ pc[c] = "read" /\ standalone
      /\ UNCHANGED <<standalone, messages, events, env, local, piped>>
  BY DEF ReadBack, LedgerInv, EditInv, Answered, TypeInv, TypeOK
<1>2. PICK m \in Stored :
          /\ env[c].op # "create" => m = env[c].message
          /\ Applied(c, messages[m].version)
  BY DEF ReadBack
<1>3. /\ OthersRest(c) /\ pc'[c] = "done"
      /\ answer'[c] = [result |-> "applied", version |-> messages[m].version]
  BY <1>1, <1>2 DEF Applied, OthersRest, LedgerInv, EditInv, TypeInv, TypeOK
<1>4. Stored' = Stored
  BY <1>1 DEF Stored
<1>5. \A d \in Calls : Editing(d)' => d # c /\ Editing(d)
  BY <1>1, <1>3 DEF OthersRest, Editing
<1>6. Answered' /\ Versions'
  BY <1>1, <1>3 DEF LedgerInv, EditInv, Answered, Versions, OthersRest
<1>7. Overlaps' /\ Fresh'
  BY <1>1, <1>3, <1>4, <1>5 DEF LedgerInv, EditInv, Overlaps, Fresh, OthersRest
<1>8. LogInv' /\ Recorded' /\ EnvelopeAppliedOnce'
  <2>1. standalone'
    BY <1>1
  <2> QED
    BY <2>1 DEF LogInv, LogCoversVersions, Recorded, EnvelopeAppliedOnce
<1>9. AckIsOwnVersion'
  <2>1. ASSUME env[c].op \in Edits, env[c].message \notin piped
        PROVE  answer'[c].version = env[c].base + 1
    <3>1. env[c].op # "create" /\ Editing(c)
      BY <1>1, <2>1 DEF Edits, Editing
    <3> QED
      BY <1>1, <1>2, <1>3, <2>1, <3>1 DEF LedgerInv, EditInv, Fresh
  <2> QED
    BY <1>1, <1>3, <2>1 DEF LedgerInv, AckIsOwnVersion, OthersRest
<1> QED
  BY <1>6, <1>7, <1>8, <1>9 DEF LedgerInv, EditInv

(* Every step keeps the invariant of the ledger. *)
LEMMA LedgerStep ==
    ASSUME LedgerInv, TypeInv', [Next]_vars
    PROVE  LedgerInv'
<1>1. ASSUME NEW c \in Calls,
             \/ Submit(c) \/ GetSession(c) \/ Bootstrap(c) \/ Number(c) \/ InsertRefused(c)
             \/ LoadRefused(c) \/ WriteRefused(c) \/ Fails(c)
      PROVE  LedgerInv'
  BY <1>1, QuietSteps, QuietKeeps
<1>2. ASSUME NEW c \in Calls, Load(c) \/ Insert(c) \/ Write(c) \/ ReadBack(c)
      PROVE  LedgerInv'
  BY <1>2, LoadKeeps, InsertKeeps, WriteKeeps, ReadBackKeeps
<1>3. CASE UNCHANGED vars
  <2>1. Stored' = Stored
    BY <1>3 DEF vars, Stored
  <2>2. EditInv'
    BY <1>3, <2>1 DEF vars, LedgerInv, EditInv, Answered, Versions, Overlaps, Fresh, Editing
  <2>3. LogInv'
    BY <1>3, <2>1 DEF vars, LedgerInv, LogInv, LogCoversVersions, Covered
  <2>4. Recorded' /\ AckIsOwnVersion' /\ EnvelopeAppliedOnce'
    BY <1>3, <2>1 DEF vars, LedgerInv, Recorded, Logged, AckIsOwnVersion, EnvelopeAppliedOnce
  <2> QED
    BY <2>2, <2>3, <2>4 DEF LedgerInv
<1> QED
  BY <1>1, <1>2, <1>3 DEF Next

(* The invariant of the ledger. *)
LEMMA LedgerInvariant == Spec => []LedgerInv
<1>1. Init => LedgerInv
  <2> SUFFICES ASSUME Init PROVE LedgerInv
    OBVIOUS
  <2>1. /\ TypeInv /\ Stored = {}
        /\ \A c \in Calls : pc[c] = "idle" /\ answer[c].result = "none" /\ ~Editing(c)
    BY TypeInit DEF Init, Stored, NoAnswer, Editing
  <2>2. EditInv
    BY <2>1 DEF EditInv, Answered, Versions, Overlaps, Fresh
  <2>3. LogInv
    BY <2>1 DEF LogInv, LogCoversVersions
  <2>4. Recorded /\ AckIsOwnVersion /\ EnvelopeAppliedOnce
    BY <2>1 DEF Recorded, AckIsOwnVersion, EnvelopeAppliedOnce
  <2> QED
    BY <2>2, <2>3, <2>4 DEF LedgerInv
<1>2. LedgerInv /\ TypeInv' /\ [Next]_vars => LedgerInv'
  BY LedgerStep
<1> QED
  BY <1>1, <1>2, TypeInvariant, PTL DEF Spec

(* Postgres: every version but the first has an edit in the event log. *)
THEOREM EventLogComplete == Spec => []LogCoversVersions
<1>1. LedgerInv => LogCoversVersions
  BY DEF LedgerInv, LogInv
<1> QED
  BY <1>1, LedgerInvariant, PTL

(* An acknowledged edit is told its own version, but for overlaps in SQLite. *)
THEOREM AcknowledgedVersion == Spec => []AckIsOwnVersion
<1>1. LedgerInv => AckIsOwnVersion
  BY DEF LedgerInv
<1> QED
  BY <1>1, LedgerInvariant, PTL

(* Postgres: an envelope submitted again is not applied again. *)
THEOREM AppliedOnce == Spec => []EnvelopeAppliedOnce
<1>1. LedgerInv => EnvelopeAppliedOnce
  BY DEF LedgerInv
<1> QED
  BY <1>1, LedgerInvariant, PTL

(* Without overlapping edits of one message every change of it is one edit. *)
THEOREM AtomicEdits == Spec => EditsAreAtomic
<1> DEFINE Change(m) ==
        messages'[m] # messages[m] =>
            \E e \in Envelopes :
                /\ e.message = m /\ May(messages[m], e)
                /\ messages'[m] = After(messages[m], e)
           Step == \A m \in Stored \ piped' : Change(m)
<1>1. ASSUME LedgerInv, [Next]_vars
      PROVE  Step
  <2>1. ASSUME NEW c \in Calls, Write(c), NEW m \in Stored \ piped'
        PROVE  Change(m)
    <3>1. /\ env[c] \in Envelopes /\ Editing(c) /\ pc[c] = "write" /\ piped' = piped
          /\ messages' = WithLocal(c)
      BY <1>1, <2>1 DEF LedgerInv, EditInv, TypeInv, Shape, Write, Editing
    <3>2. CASE m = env[c].message
      <4>1. May(messages[m], env[c]) /\ local[c] = After(messages[m], env[c])
        BY <1>1, <2>1, <3>1, <3>2 DEF LedgerInv, EditInv, Fresh
      <4> QED
        BY <3>1, <3>2, <4>1, WithLocalIs
    <3>3. CASE m # env[c].message
      BY <2>1, <3>1, <3>3, WithLocalIs
    <3> QED
      BY <3>2, <3>3
  <2>2. ASSUME NEW c \in Calls, Insert(c), NEW m \in Stored
        PROVE  messages'[m] = messages[m]
    BY <2>2, WithLocalIs DEF Insert, Unused
  <2>3. ASSUME NEW c \in Calls,
               \/ Submit(c) \/ GetSession(c) \/ Bootstrap(c) \/ Number(c) \/ InsertRefused(c)
               \/ Load(c) \/ LoadRefused(c) \/ WriteRefused(c) \/ ReadBack(c) \/ Fails(c)
        PROVE  messages' = messages
    BY <2>3 DEF Submit, GetSession, Bootstrap, Number, InsertRefused, Load, LoadRefused,
                WriteRefused, ReadBack, Fails
  <2> QED
    BY <1>1, <2>1, <2>2, <2>3 DEF Next, vars
<1>2. LedgerInv /\ [Next]_vars => [Step]_vars
  BY <1>1
<1> QED
  BY <1>2, LedgerInvariant, PTL DEF Spec, EditsAreAtomic
---------------------------------------------------------------------------
(* Replies.                                                                 *)

\* A fixed message that was not edited by two at once has its reply, or its
\* submission is about to start it, or something failed.
ReplyInv ==
    /\ faults <= MaxFaults
    /\ \A m \in MessageIds \ piped :
          /\ replies[m] \in {0, 1}
          /\ replies[m] = 1 => /\ m \in Stored /\ messages[m].fixed
                              /\ \A c \in Calls : Editing(c) => env[c].message # m
          /\ \A c \in Calls : pc[c] = "read" /\ env[c].op = "fix" /\ env[c].message = m
                => messages[m].fixed
          /\ faults = MaxFaults /\ m \in Stored /\ messages[m].fixed /\ messages[m].version > 1
                => \/ replies[m] = 1
                   \/ \E c \in Calls : /\ pc[c] = "read" /\ env[c].op = "fix"
                                       /\ env[c].message = m

(* Steps that start no reply and write no row. *)
LEMMA ReplyQuiet ==
    ASSUME LedgerInv, ReplyInv, NEW c \in Calls, Quiet(c),
           replies' = replies, faults' <= faults, faults \in Nat, faults' \in Nat,
           pc[c] = "read" => faults' < faults
    PROVE  ReplyInv'
<1>1. Stored' = Stored /\ MaxFaults \in Nat
  BY MessageLedgerAssumption DEF Quiet, Stored
<1>2. \A d \in Calls : Editing(d)' => d # c /\ Editing(d)
  BY DEF Quiet, OthersRest, Editing
<1>3. faults' <= MaxFaults /\ (faults' = MaxFaults => faults = MaxFaults /\ pc[c] # "read")
  BY <1>1 DEF ReplyInv
<1> QED
  BY <1>1, <1>2, <1>3 DEF ReplyInv, Quiet, OthersRest

(* Every step keeps it. *)
LEMMA ReplyStep ==
    ASSUME LedgerInv, LedgerInv', ReplyInv, [Next]_vars
    PROVE  ReplyInv'
<1>0. TypeOK /\ Shape /\ faults \in Nat /\ MaxFaults \in Nat
  BY MessageLedgerAssumption DEF LedgerInv, EditInv, TypeInv, TypeOK
<1>1. ASSUME NEW c \in Calls,
             \/ Submit(c) \/ GetSession(c) \/ Bootstrap(c) \/ Number(c) \/ InsertRefused(c)
             \/ LoadRefused(c) \/ WriteRefused(c) \/ Fails(c)
      PROVE  ReplyInv'
  <2>1. Quiet(c)
    BY <1>1, QuietSteps
  <2>2. /\ replies' = replies /\ faults' \in {faults, faults - 1}
        /\ faults' # faults => faults > 0
        /\ pc[c] = "read" => faults' # faults
    <3>1. CASE Submit(c) \/ Number(c) \/ InsertRefused(c) \/ LoadRefused(c) \/ WriteRefused(c)
      BY <1>0, <3>1 DEF Submit, Number, InsertRefused, LoadRefused, WriteRefused, Goes, Ends, TypeOK
    <3>2. CASE GetSession(c)
      <4>1. Goes(c, FirstCall(c)) \/ Goes(c, "bootstrap") \/ Ends(c, "rejected", 0)
        BY <1>0, <3>2 DEF GetSession, TypeOK
      <4> QED
        BY <3>2, <4>1 DEF GetSession, Goes, Ends
    <3>3. CASE Bootstrap(c)
      BY <1>0, <3>3 DEF Bootstrap, Goes, Ends
    <3>4. CASE Fails(c)
      BY <1>0, <3>4 DEF Fails, Ends
    <3> QED
      BY <1>1, <3>1, <3>2, <3>3, <3>4
  <2>3. faults' \in Nat /\ faults' <= faults /\ (pc[c] = "read" => faults' < faults)
    BY <1>0, <2>2
  <2> QED
    BY <1>0, <2>1, <2>2, <2>3, ReplyQuiet
<1>2. ASSUME NEW c \in Calls, Load(c)
      PROVE  ReplyInv'
  <2> DEFINE M == env[c].message
  <2>1. /\ pc[c] = "load" /\ ~messages[M].fixed /\ M \in Stored
        /\ UNCHANGED <<messages, env, faults, replies>> /\ piped \subseteq piped'
        /\ pc' = [pc EXCEPT ![c] = "write"]
    BY <1>2 DEF Load, Goes, May
  <2>2. Stored' = Stored
    BY <2>1 DEF Stored
  <2>3. \A d \in Calls : /\ Editing(d)' => Editing(d) \/ d = c
                         /\ pc'[d] = "read" <=> pc[d] = "read"
    BY <1>0, <2>1 DEF Editing, TypeOK
  <2> QED
    BY <2>1, <2>2, <2>3 DEF ReplyInv
<1>3. ASSUME NEW c \in Calls, Insert(c)
      PROVE  ReplyInv'
  <2> DEFINE M == env[c].message
  <2>1. /\ pc[c] = "insert" /\ env[c].op = "create" /\ env[c].op \notin Edits /\ M \notin Stored
        /\ env[c].op # "fix" /\ M \in MessageIds
        /\ UNCHANGED <<env, piped>> /\ Took(c, 1) /\ local[c].version = 1
    BY <1>0, <1>3, MessageLedgerAssumption
       DEF Shape, Insert, Unused, Edits, LedgerInv, EditInv, Versions
  <2>2. /\ Stored' = Stored \union {M} /\ messages'[M] = local[c]
        /\ \A m \in Stored : messages'[m] = messages[m]
    <3>1. messages' = WithLocal(c)
      BY <1>3 DEF Insert
    <3> QED
      BY <2>1, <3>1, WithLocalIs DEF Stored
  <2>3. /\ replies' = replies /\ faults' \in Nat /\ faults' <= faults
        /\ OthersRest(c)
    <3>1. UNCHANGED <<standalone, env, local>>
      BY <1>3 DEF Insert
    <3> QED
      BY <1>0, <2>1, <3>1, TookLeaves DEF Took, Goes, Applied, Ends
  <2>4. \A d \in Calls : Editing(d)' => d # c /\ Editing(d)
    BY <2>1, <2>3 DEF OthersRest, Editing
  <2>5. \A d \in Calls : /\ pc'[d] = "read" /\ env'[d].op = "fix" => d # c /\ pc[d] = "read"
                         /\ pc[d] = "read" => d # c /\ pc'[d] = "read"
    BY <2>1, <2>3 DEF OthersRest
  <2>6. faults' <= MaxFaults /\ (faults' = MaxFaults => faults = MaxFaults)
    BY <1>0, <2>3 DEF ReplyInv
  <2>7. ~(messages'[M].version > 1)
    BY <2>1, <2>2
  <2>8. \A d \in Calls : /\ pc[d] = "read" /\ env[d].op = "fix" /\ env[d].message \notin piped
                            => env[d].message \in Stored
    BY DEF LedgerInv, EditInv, Fresh, Editing, Edits
  <2> QED
    BY <2>1, <2>2, <2>3, <2>4, <2>5, <2>6, <2>7, <2>8 DEF ReplyInv
<1>4. ASSUME NEW c \in Calls, Write(c)
      PROVE  ReplyInv'
  <2> DEFINE M == env[c].message
             R == local[c]
  <2>1. /\ pc[c] = "write" /\ env[c].op \in Edits /\ Editing(c) /\ M \in Stored /\ M \in MessageIds
        /\ UNCHANGED <<env, piped, standalone, local>> /\ Took(c, R.version)
    BY <1>0, <1>4, MessageLedgerAssumption
       DEF Shape, Write, Editing, LedgerInv, EditInv, TypeInv, Numbers
  <2>2. /\ Stored' = Stored /\ messages'[M] = R
        /\ \A m \in Stored : m # M => messages'[m] = messages[m]
    <3>1. Stored \union {M} = Stored
      BY <2>1
    <3> QED
      BY <1>4, <3>1, WithLocalIs DEF Write, Stored
  <2>3. OthersRest(c) /\ Leaves(c, R.version)
    BY <1>0, <2>1, TookLeaves
  <2>4. \A d \in Calls : Editing(d)' => Editing(d)
    BY <2>1, <2>3 DEF OthersRest, Editing
  <2>5. M \notin piped => /\ R.fixed <=> env[c].op = "fix"
                         /\ replies[M] = 0
                         /\ \A d \in Calls \ {c} : Editing(d) => env[d].message # M
    <3>1. M \notin piped => R = After(messages[M], env[c])
      BY <2>1 DEF LedgerInv, EditInv, Fresh
    <3>2. M \notin piped => replies[M] = 0
      BY <2>1 DEF ReplyInv
    <3>3. ASSUME M \notin piped, NEW d \in Calls \ {c}, Editing(d)
          PROVE  env[d].message # M
      BY <2>1, <3>3 DEF LedgerInv, EditInv, Overlaps
    <3>4. M \notin piped => R.fixed = (env[c].op = "fix")
      BY <3>1 DEF After, Row
    <3> QED
      BY <3>2, <3>3, <3>4
  <2>6. /\ faults' \in Nat /\ faults' <= faults /\ faults' <= MaxFaults
        /\ faults' = MaxFaults => faults = MaxFaults /\ faults' = faults
    BY <1>0, <2>1 DEF Took, ReplyInv
  <2>7. \A m \in MessageIds : m # M => replies'[m] = replies[m]
    BY <1>0, <2>1 DEF Took, Goes, Applied, Ends, TypeOK
  <2>8. \/ pc'[c] = "read" /\ replies' = replies
        \/ /\ pc'[c] = "done"
           /\ replies' = IF env[c].op = "fix" THEN [replies EXCEPT ![M] = @ + 1] ELSE replies
        \/ pc'[c] = "done" /\ replies' = replies /\ faults' # faults
    BY <1>0, <2>1 DEF Took, Goes, Applied, Ends, TypeOK
  <2>9. \A m \in MessageIds \ piped : m # M =>
            \A d \in Calls : env[d].message = m => d # c
    OBVIOUS
  <2>10. \A d \in Calls : d # c => /\ Editing(d)' <=> Editing(d)
                                  /\ pc'[d] = pc[d]
    BY <2>1, <2>3 DEF OthersRest, Editing
  <2>11. ASSUME NEW m \in MessageIds \ piped, m # M
         PROVE  /\ replies'[m] \in {0, 1}
                /\ replies'[m] = 1 => /\ m \in Stored' /\ messages'[m].fixed
                                     /\ \A d \in Calls : Editing(d)' => env'[d].message # m
                /\ \A d \in Calls : pc'[d] = "read" /\ env'[d].op = "fix" /\ env'[d].message = m
                      => messages'[m].fixed
                /\ faults' = MaxFaults /\ m \in Stored' /\ messages'[m].fixed
                      /\ messages'[m].version > 1
                      => \/ replies'[m] = 1
                         \/ \E d \in Calls : /\ pc'[d] = "read" /\ env'[d].op = "fix"
                                             /\ env'[d].message = m
    <3>1. \A d \in Calls : pc[d] = "read" /\ env[d].op = "fix" /\ env[d].message = m => m \in Stored
      BY <2>11 DEF LedgerInv, EditInv, Fresh, Editing, Edits
    <3> QED
      BY <2>1, <2>2, <2>4, <2>6, <2>7, <2>10, <2>11, <3>1 DEF ReplyInv
  <2>12. ASSUME M \notin piped
         PROVE  /\ replies'[M] \in {0, 1}
                /\ replies'[M] = 1 => /\ M \in Stored' /\ messages'[M].fixed
                                     /\ \A d \in Calls : Editing(d)' => env'[d].message # M
                /\ \A d \in Calls : pc'[d] = "read" /\ env'[d].op = "fix" /\ env'[d].message = M
                      => messages'[M].fixed
                /\ faults' = MaxFaults /\ messages'[M].fixed
                      => \/ replies'[M] = 1
                         \/ \E d \in Calls : /\ pc'[d] = "read" /\ env'[d].op = "fix"
                                             /\ env'[d].message = M
    <3>1. \/ replies'[M] = 0
          \/ replies'[M] = 1 /\ env[c].op = "fix" /\ pc'[c] = "done"
      BY <1>0, <2>1, <2>5, <2>8, <2>12 DEF TypeOK
    <3>2. replies'[M] = 0 /\ env[c].op = "fix" => pc'[c] = "read" \/ faults' # faults
      BY <1>0, <2>1, <2>5, <2>8, <2>12 DEF TypeOK
    <3>3. pc'[c] = "done" => ~Editing(c)'
      BY DEF Editing
    <3>4. \A d \in Calls : pc'[d] = "read" /\ env'[d].op = "fix" /\ env'[d].message = M => d = c
      BY <2>1, <2>5, <2>10, <2>12 DEF Editing, Edits
    <3> QED
      BY <2>1, <2>2, <2>5, <2>6, <2>10, <2>12, <3>1, <3>2, <3>3, <3>4
  <2> QED
    BY <2>1, <2>2, <2>6, <2>11, <2>12 DEF ReplyInv
<1>5. ASSUME NEW c \in Calls, ReadBack(c)
      PROVE  ReplyInv'
  <2> DEFINE M == env[c].message
  <2>1. /\ pc[c] = "read" /\ env[c] \in Envelopes /\ M \in MessageIds
        /\ UNCHANGED <<messages, env, piped, faults>>
        /\ pc' = [pc EXCEPT ![c] = "done"]
        /\ replies' = IF env[c].op = "fix" THEN [replies EXCEPT ![M] = @ + 1] ELSE replies
    BY <1>0, <1>5, MessageLedgerAssumption DEF ReadBack, Applied, Shape
  <2>2. Stored' = Stored
    BY <2>1 DEF Stored
  <2>3. \A d \in Calls : /\ Editing(d)' <=> Editing(d) /\ d # c
                         /\ pc'[d] = "read" <=> pc[d] = "read" /\ d # c
    BY <1>0, <2>1 DEF Editing, TypeOK
  <2>4. CASE env[c].op # "fix"
    <3>1. replies' = replies
      BY <2>1, <2>4
    <3> QED
      BY <2>1, <2>2, <2>3, <2>4, <3>1 DEF ReplyInv
  <2>5. CASE env[c].op = "fix"
    <3>1. Editing(c) /\ \A m \in MessageIds : replies'[m] = IF m = M THEN replies[m] + 1 ELSE replies[m]
      BY <1>0, <2>1, <2>5 DEF Editing, Edits, TypeOK
    <3>2. M \notin piped =>
              /\ replies[M] = 0 /\ messages[M].fixed /\ M \in Stored
              /\ \A d \in Calls \ {c} : Editing(d) => env[d].message # M
      BY <2>1, <2>5, <3>1 DEF ReplyInv, LedgerInv, EditInv, Overlaps, Fresh
    <3>3. M \notin piped => replies'[M] = 1
      BY <2>1, <3>1, <3>2
    <3> QED
      BY <2>1, <2>2, <2>3, <2>5, <3>1, <3>2, <3>3 DEF ReplyInv
  <2> QED
    BY <2>4, <2>5
<1>6. CASE UNCHANGED vars
  <2>1. Stored' = Stored /\ \A c \in Calls : Editing(c)' = Editing(c)
    BY <1>6 DEF vars, Stored, Editing
  <2> QED
    BY <1>6, <2>1 DEF vars, ReplyInv
<1> QED
  BY <1>1, <1>2, <1>3, <1>4, <1>5, <1>6 DEF Next

(* A message that was fixed has one reply, unless something failed or its *)
(* edits overlapped.                                                      *)
THEOREM OneReply == Spec => []RepliedOnce
<1>1. Init => ReplyInv
  <2> SUFFICES ASSUME Init PROVE ReplyInv
    OBVIOUS
  <2> QED
    BY MessageLedgerAssumption DEF Init, ReplyInv, Stored
<1>2. LedgerInv /\ LedgerInv' /\ ReplyInv /\ [Next]_vars => ReplyInv'
  BY ReplyStep
<1>3. LedgerInv /\ ReplyInv => RepliedOnce
  <2> SUFFICES ASSUME LedgerInv, ReplyInv, NEW m \in MessageIds \ piped
               PROVE  /\ replies[m] <= 1
                      /\ /\ faults = MaxFaults
                         /\ m \in Stored /\ messages[m].fixed /\ messages[m].version > 1
                         /\ \A c \in Calls : env[c] # NoEnvelope /\ env[c].message = m => pc[c] # "read"
                         => replies[m] = 1
    BY DEF RepliedOnce
  <2>1. \A c \in Calls : pc[c] = "read" => env[c] # NoEnvelope
    BY MessageLedgerAssumption DEF LedgerInv, EditInv, TypeInv, Shape
  <2> QED
    BY <2>1 DEF ReplyInv
<1> QED
  BY <1>1, <1>2, <1>3, LedgerInvariant, PTL DEF Spec

---------------------------------------------------------------------------
(* The edits, for any parts and any number of items.                        *)

(* Induction.  The library's theorem takes a predicate; here it is a set.  That *)
(* a set of numbers has a least one follows from the finite sets 0..(n - 1)     *)
(* being well founded.                                                          *)
LEMMA Least ==
    ASSUME NEW T \in SUBSET Nat, T # {}
    PROVE  \E m \in T : \A n \in T : m <= n
<1> DEFINE R == StrictSubsetOrdering(Nat)
           Below == {0..(n - 1) : n \in T}
<1>1. IsWellFoundedOn(R, FiniteSubsetsOf(Nat))
  BY FS_StrictSubsetOrderingWellFounded
<1>2. Below \subseteq FiniteSubsetsOf(Nat) /\ Below # {}
  <2>1. ASSUME NEW n \in T PROVE IsFiniteSet(0..(n - 1)) /\ 0..(n - 1) \subseteq Nat
    BY FS_Interval
  <2> QED
    BY <2>1 DEF FiniteSubsetsOf
<1>3. PICK S \in Below : \A U \in Below : <<U, S>> \notin R
  <2> HIDE DEF Below, R
  <2> QED
    BY <1>1, <1>2, WFMin
<1>4. PICK m \in T : S = 0..(m - 1)
  BY <1>3
<1>5. ASSUME NEW n \in T, n < m PROVE FALSE
  <2>1. 0..(n - 1) \in Below /\ 0..(n - 1) \subseteq S /\ n \in S /\ n \notin 0..(n - 1)
    BY <1>4, <1>5
  <2>2. <<0..(n - 1), S>> \in R
    BY <2>1, <1>2, <1>3 DEF StrictSubsetOrdering, FiniteSubsetsOf
  <2> QED
    BY <2>1, <2>2, <1>3
<1> QED
  BY <1>5

(* What holds at the start of a loop and is kept by each of its n rounds holds *)
(* after every one of them.                                                    *)
LEMMA UpTo ==
    ASSUME NEW n \in Nat, NEW T, 0 \in T, \A k \in 0..(n - 1) : k \in T => k + 1 \in T
    PROVE  0..n \subseteq T
<1> DEFINE D == (0..n) \ T
<1> SUFFICES ASSUME D # {} PROVE FALSE
  OBVIOUS
<1>1. PICK m \in D : \A k \in D : m <= k
  <2>1. D \in SUBSET Nat
    OBVIOUS
  <2> HIDE DEF D
  <2> QED
    BY <2>1, Least
<1>2. m # 0 /\ m - 1 \in 0..(n - 1)
  BY <1>1
<1>3. m - 1 \in T
  BY <1>1, <1>2
<1>4. (m - 1) + 1 = m
  BY <1>2
<1> QED
  BY <1>1, <1>2, <1>3, <1>4

(* What the rounds 1 to n of a loop make, one after the other. *)
Results(n, V, a, F) ==
    \E g \in [0..n -> V] : g[0] = a /\ \A k \in 1..n : g[k] = F[<<k, g[k - 1]>>]

(* A loop of n rounds that starts from a, each round a function of its number *)
(* and of what the one before it made, has its sequence of results.           *)
LEMMA Loop ==
    ASSUME NEW n \in Nat, NEW V, NEW a \in V, NEW F \in [(1..n) \X V -> V]
    PROVE  Results(n, V, a, F)
<1> DEFINE Runs(m, g) == g[0] = a /\ \A k \in 1..m : g[k] = F[<<k, g[k - 1]>>]
           T == {m \in 0..n : \E g \in [0..m -> V] : Runs(m, g)}
<1>1. 0 \in T
  <2> DEFINE z == [k \in 0..0 |-> a]
  <2>1. z \in [0..0 -> V] /\ z[0] = a
    OBVIOUS
  <2> HIDE DEF z
  <2>2. Runs(0, z)
    BY <2>1
  <2> QED
    BY <2>1, <2>2
<1>2. ASSUME NEW m \in 0..(n - 1), m \in T PROVE m + 1 \in T
  <2>1. PICK g \in [0..m -> V] : Runs(m, g)
    BY <1>2
  <2> DEFINE h == [k \in 0..(m + 1) |-> IF k <= m THEN g[k] ELSE F[<<m + 1, g[m]>>]]
  <2>2. h \in [0..(m + 1) -> V]
    OBVIOUS
  <2>3. ASSUME NEW k \in 1..(m + 1) PROVE h[k] = F[<<k, h[k - 1]>>]
    <3>1. CASE k <= m
      BY <2>1, <3>1
    <3>2. CASE k = m + 1
      <4>1. h[k] = F[<<m + 1, g[m]>>] /\ h[k - 1] = g[m] /\ k - 1 = m
        BY <3>2
      <4> QED
        BY <3>2, <4>1
    <3> QED
      BY <3>1, <3>2
  <2>4. h[0] = a
    BY <2>1
  <2> HIDE DEF h
  <2>5. Runs(m + 1, h)
    BY <2>3, <2>4
  <2> QED
    BY <2>2, <2>5
<1>3. 0..n \subseteq T
  <2> HIDE DEF T
  <2> QED
    BY <1>1, <1>2, UpTo
<1> QED
  BY <1>3 DEF Results

(* What is where after an insertion. *)
LEMMA InsertAtIs ==
    ASSUME NEW S, NEW s \in Seq(S), NEW i \in 1..(Len(s) + 1), NEW e \in S
    PROVE  /\ InsertAt(s, i, e) \in Seq(S)
           /\ Len(InsertAt(s, i, e)) = Len(s) + 1
           /\ \A j \in 1..(Len(s) + 1) :
                 InsertAt(s, i, e)[j] = IF j < i THEN s[j] ELSE IF j = i THEN e ELSE s[j - 1]
<1> DEFINE a == SubSeq(s, 1, i - 1)
           b == SubSeq(s, i, Len(s))
<1>1. a \in Seq(S) /\ Len(a) = i - 1 /\ \A j \in 1..(i - 1) : a[j] = s[j]
  OBVIOUS
<1>2. b \in Seq(S) /\ Len(b) = Len(s) - i + 1 /\ \A j \in 1..(Len(s) - i + 1) : b[j] = s[i + j - 1]
  OBVIOUS
<1> HIDE DEF a, b
<1>3. InsertAt(s, i, e) = a \o <<e>> \o b
  BY DEF InsertAt, a, b
<1> DEFINE c == a \o <<e>>
<1>4. /\ c \in Seq(S) /\ Len(c) = i
      /\ \A j \in 1..i : c[j] = IF j < i THEN s[j] ELSE e
  BY <1>1
<1> HIDE DEF c
<1>5. InsertAt(s, i, e) = c \o b
  BY <1>3 DEF c
<1>6. /\ InsertAt(s, i, e) \in Seq(S)
      /\ Len(InsertAt(s, i, e)) = Len(s) + 1
  <2>1. c \o b \in Seq(S) /\ Len(c \o b) = Len(c) + Len(b)
    BY ONLY <1>2, <1>4, ConcatProperties
  <2> QED
    BY <1>2, <1>4, <1>5, <2>1
<1>7. ASSUME NEW j \in 1..i
      PROVE  InsertAt(s, i, e)[j] = IF j < i THEN s[j] ELSE e
  BY <1>2, <1>4, <1>5
<1>8. ASSUME NEW j \in (i + 1)..(Len(s) + 1) PROVE InsertAt(s, i, e)[j] = s[j - 1]
  <2>1. j - i \in 1..(Len(s) - i + 1) /\ i + (j - i) - 1 = j - 1
    OBVIOUS
  <2>2. InsertAt(s, i, e)[j] = b[j - i]
    BY <1>2, <1>4, <1>5, <2>1
  <2> QED
    BY <1>2, <2>1, <2>2
<1> QED
  BY <1>6, <1>7, <1>8

(* What is where after a removal. *)
LEMMA RemoveAtIs ==
    ASSUME NEW S, NEW s \in Seq(S), NEW i \in 1..Len(s)
    PROVE  /\ RemoveAt(s, i) \in Seq(S)
           /\ Len(RemoveAt(s, i)) = Len(s) - 1
           /\ \A j \in 1..(Len(s) - 1) :
                 RemoveAt(s, i)[j] = IF j < i THEN s[j] ELSE s[j + 1]
<1> DEFINE a == SubSeq(s, 1, i - 1)
           b == SubSeq(s, i + 1, Len(s))
<1>1. a \in Seq(S) /\ Len(a) = i - 1 /\ \A j \in 1..(i - 1) : a[j] = s[j]
  OBVIOUS
<1>2. b \in Seq(S) /\ Len(b) = Len(s) - i /\ \A j \in 1..(Len(s) - i) : b[j] = s[i + j]
  OBVIOUS
<1> HIDE DEF a, b
<1>3. RemoveAt(s, i) = a \o b
  BY DEF RemoveAt, a, b
<1> QED
  BY <1>1, <1>2, <1>3

(* Strictly increasing on 1..n. *)
Increasing(f, n) == \A a, b \in 1..n : a < b => f[a] < f[b]

(* Counting up to an element of a set that is enumerated in ascending order gives *)
(* its place in it.                                                               *)
LEMMA Enumerated ==
    ASSUME NEW K \in SUBSET Nat, NEW n \in Nat, NEW f \in [1..n -> K], Increasing(f, n),
           \A i \in K : \E k \in 1..n : f[k] = i
    PROVE  /\ Cardinality(K) = n
           /\ \A k \in 1..n :
                 (CHOOSE i \in K : Cardinality({j \in K : j <= i}) = k) = f[k]
<1>0. \A a, b \in 1..n : f[a] \in Nat /\ (f[a] <= f[b] <=> a <= b)
  <2> SUFFICES ASSUME NEW a \in 1..n, NEW b \in 1..n
               PROVE  f[a] \in Nat /\ (f[a] <= f[b] <=> a <= b)
    OBVIOUS
  <2>1. f[a] \in Nat /\ f[b] \in Nat
    OBVIOUS
  <2>2. (a < b => f[a] < f[b]) /\ (b < a => f[b] < f[a])
    BY DEF Increasing
  <2> QED
    BY <2>1, <2>2
<1>1. ASSUME NEW k \in 0..n, NEW U, U = {f[a] : a \in 1..k}
      PROVE  Cardinality(U) = k
  <2>1. f \in [1..n -> K] /\ \A a, b \in 1..k : f[a] = f[b] => a = b
    BY <1>0
  <2> DEFINE h == [a \in 1..k |-> f[a]]
  <2>2. h \in Bijection(1..k, U)
    <3>1. h \in [1..k -> U]
      BY <1>1
    <3>2. \A a, b \in 1..k : h[a] = h[b] => a = b
      BY <2>1
    <3>3. \A i \in U : \E a \in 1..k : h[a] = i
      BY <1>1
    <3> HIDE DEF h
    <3> QED
      BY <3>1, <3>2, <3>3 DEF Bijection, Injection, Surjection, IsInjective
  <2>3. ExistsBijection(1..k, U)
    BY <2>2 DEF ExistsBijection
  <2> QED
    BY <2>3, FS_CountingElements
<1>2. K = {f[a] : a \in 1..n}
  OBVIOUS
<1>3. Cardinality(K) = n
  <2>1. n \in 0..n
    OBVIOUS
  <2>2. Cardinality({f[a] : a \in 1..n}) = n
    BY <1>1, <2>1
  <2> QED
    BY <1>2, <2>2
<1>4. ASSUME NEW k \in 1..n PROVE Cardinality({j \in K : j <= f[k]}) = k
  <2>1. \A a \in 1..n : f[a] <= f[k] <=> a \in 1..k
    BY <1>0
  <2>2. {j \in K : j <= f[k]} = {f[a] : a \in 1..k}
    <3>1. ASSUME NEW j \in K, j <= f[k] PROVE j \in {f[a] : a \in 1..k}
      BY <2>1, <3>1
    <3>2. ASSUME NEW a \in 1..k PROVE f[a] \in K /\ f[a] <= f[k]
      BY <2>1
    <3> QED
      BY <3>1, <3>2
  <2> QED
    BY <1>1, <2>2
<1>5. ASSUME NEW k \in 1..n
      PROVE  (CHOOSE i \in K : Cardinality({j \in K : j <= i}) = k) = f[k]
  <2> DEFINE P(i) == Cardinality({j \in K : j <= i}) = k
  <2>1. \A i \in K : P(i) <=> i = f[k]
    <3> SUFFICES ASSUME NEW i \in K, P(i) PROVE i = f[k]
      BY <1>4
    <3>1. PICK a \in 1..n : f[a] = i
      OBVIOUS
    <3> QED
      BY <1>4, <3>1
  <2> HIDE DEF P
  <2>2. (CHOOSE i \in K : P(i)) = f[k]
    BY <2>1, Zenon
  <2> QED
    BY <2>2 DEF P
<1> QED
  BY <1>3, <1>5

(* An item's place is one of 1..n, and items before it have smaller ones. *)
LEMMA Places ==
    ASSUME NEW n \in Nat, NEW items, DOMAIN items = 1..n,
           \A k \in 1..n : items[k].index \in Int
    PROVE  \A a, b \in 1..n :
              /\ Place(items, a) \in 1..n
              /\ Before(items, a, b) => Place(items, a) < Place(items, b)
<1> DEFINE Upto(k) == {l \in 1..n : l = k \/ Before(items, l, k)}
<1>1. ASSUME NEW a \in 1..n
      PROVE  /\ Place(items, a) = Cardinality(Upto(a)) /\ IsFiniteSet(Upto(a))
             /\ Place(items, a) \in 1..n
  <2>1. Upto(a) \in SUBSET (1..n) /\ a \in Upto(a)
    OBVIOUS
  <2>2. IsFiniteSet(1..n) /\ Cardinality(1..n) = n
    BY FS_Interval
  <2>3. Place(items, a) = Cardinality(Upto(a))
    BY DEF Place
  <2> HIDE DEF Upto
  <2>4. IsFiniteSet(Upto(a)) /\ Cardinality(Upto(a)) <= n
    BY <2>1, <2>2, FS_Subset
  <2>5. Cardinality(Upto(a)) \in Nat /\ Cardinality(Upto(a)) # 0
    BY <2>1, <2>4, FS_CardinalityType, FS_EmptySet
  <2> QED
    BY <2>3, <2>4, <2>5
<1>2. ASSUME NEW a \in 1..n, NEW b \in 1..n, Before(items, a, b)
      PROVE  Place(items, a) < Place(items, b)
  <2>1. Upto(a) \in SUBSET Upto(b)
    BY <1>2 DEF Before
  <2>2. b \in Upto(b) /\ b \notin Upto(a)
    BY <1>2 DEF Before
  <2> HIDE DEF Upto
  <2>3. Cardinality(Upto(a)) <= Cardinality(Upto(b))
        /\ Cardinality(Upto(a)) # Cardinality(Upto(b))
    BY <1>1, <2>1, <2>2, FS_Subset
  <2> QED
    BY <1>1, <2>3
<1> QED
  BY <1>1, <1>2

(* p is the order in which the items are sorted: each before the next. *)
Sorts(p, items, n) ==
    /\ p \in [1..n -> 1..n]
    /\ Sorted(items) = [k \in 1..n |-> items[p[k]]]
    /\ \A k \in 1..n : \E a \in 1..n : p[a] = k
    /\ \A a, b \in 1..n : a < b => Before(items, p[a], p[b])

(* Sorting permutes the items, so that each is before the next. *)
LEMMA SortedIs ==
    ASSUME NEW n \in Nat, NEW items, DOMAIN items = 1..n,
           \A k \in 1..n : items[k].index \in Int
    PROVE  \E p : Sorts(p, items, n)
<1> DEFINE place == [k \in 1..n |-> Place(items, k)]
           p == [k \in 1..n |-> CHOOSE a \in 1..n : Place(items, a) = k]
<1>1. place \in [1..n -> 1..n]
  BY Places
<1>2. \A a, b \in 1..n : a = b \/ Before(items, a, b) \/ Before(items, b, a)
  BY DEF Before
<1>3. \A a, b \in 1..n : place[a] = place[b] => a = b
  <2> SUFFICES ASSUME NEW a \in 1..n, NEW b \in 1..n, a # b PROVE place[a] # place[b]
    OBVIOUS
  <2>1. place[a] = Place(items, a) /\ place[b] = Place(items, b)
    OBVIOUS
  <2> HIDE DEF place
  <2>2. place[a] \in Nat /\ place[b] \in Nat
    <3>1. place[a] \in 1..n /\ place[b] \in 1..n
      BY ONLY a \in 1..n, b \in 1..n, <1>1, Zenon
    <3> QED
      BY ONLY <3>1, n \in Nat
  <2>3. place[a] < place[b] \/ place[b] < place[a]
    BY <1>2, <2>1, Places
  <2> QED
    BY <2>2, <2>3
<1>4. \A k \in 1..n : \E a \in 1..n : place[a] = k
  <2>1. place \in Injection(1..n, 1..n)
    <3> HIDE DEF place
    <3> QED
      BY <1>1, <1>3 DEF Injection, IsInjective
  <2> HIDE DEF place
  <2>2. IsFiniteSet(1..n)
    BY FS_Interval
  <2>3. place \in Surjection(1..n, 1..n)
    BY <2>1, <2>2, FS_Injection
  <2> QED
    BY <2>3 DEF Surjection
<1>5. \A k \in 1..n : p[k] \in 1..n /\ Place(items, p[k]) = k
  BY <1>4
<1>6. p \in [1..n -> 1..n]
  BY <1>5
<1>7. Sorted(items) = [k \in 1..n |-> items[p[k]]]
  BY DEF Sorted
<1> HIDE DEF p
<1>8. \A k \in 1..n : p[Place(items, k)] = k
  BY <1>1, <1>3, <1>5
<1>9. ASSUME NEW a \in 1..n, NEW b \in 1..n, a < b PROVE Before(items, p[a], p[b])
  <2>1. /\ p[a] \in 1..n /\ p[b] \in 1..n
        /\ Place(items, p[a]) = a /\ Place(items, p[b]) = b
    BY <1>5
  <2>2. p[a] # p[b]
    BY <1>9, <2>1
  <2>3. ~Before(items, p[b], p[a])
    <3>1. Before(items, p[b], p[a]) => Place(items, p[b]) < Place(items, p[a])
      BY <2>1, Places
    <3> QED
      BY <1>9, <2>1, <3>1
  <2> QED
    BY <1>2, <2>1, <2>2, <2>3
<1> QED
  BY <1>1, <1>6, <1>7, <1>8, <1>9 DEF Sorts

(* The greatest of a set of numbers is what no other exceeds. *)
LEMMA MaxIs ==
    ASSUME NEW S \in SUBSET Int, NEW m \in S, \A k \in S : k <= m
    PROVE  Max(S) = m
<1> DEFINE P(x) == \A y \in S : x >= y
<1>1. \A x \in S : P(x) <=> x = m
  OBVIOUS
<1> HIDE DEF P
<1>2. (CHOOSE x \in S : P(x)) = m
  BY <1>1, Zenon
<1> QED
  BY <1>2 DEF Max, P

(* The patches, one after the other, leave every field with the last value given *)
(* for it.                                                                       *)
LEMMA PatchedIs ==
    ASSUME NEW parts \in Seq(Parts), NEW M, NEW items \in Seq([index : Int, part : M]),
           PatchFits(parts, items)
    PROVE  PatchExact(parts, items)
<1>0. \A k \in 1..Len(items) : items[k].index \in Int
  <2>1. \A k \in 1..Len(items) : items[k] \in [index : Int, part : M]
    BY ElementOfSeq
  <2> QED
    BY <2>1
<1> DEFINE n == Len(items)
           At(k) == items[k].index + 1
           By(i, field, k) == {l \in Giving(items, i, field) : l <= k}
           Value(i, field, k) ==
              IF By(i, field, k) = {} THEN parts[i][field]
              ELSE items[Max(By(i, field, k))].part[field]
           State(k) == [i \in DOMAIN parts |-> [field \in DOMAIN parts[i] |-> Value(i, field, k)]]
           Step(f, k) == [f EXCEPT ![items[k].index + 1] = Merged(@, items[k].part)]
           after[k \in 0..n] == IF k = 0 THEN parts ELSE Step(after[k - 1], k)
           g == [k \in 0..n |-> State(k)]
<1>1. n \in Nat /\ DOMAIN items = 1..n /\ DOMAIN parts = 1..Len(parts)
  OBVIOUS
<1>2. ASSUME NEW k \in 1..n PROVE At(k) \in DOMAIN parts
  <2>1. items[k].index \in Indexes(items) /\ items[k].index \in Int
    BY <1>0, <1>1 DEF Indexes
  <2>2. items[k].index \in 0..(Len(parts) - 1)
    BY <2>1 DEF PatchFits, ValidIndex
  <2> QED
    BY <1>1, <2>2
<1>3. State(0) = parts
  <2>1. \A i, field : By(i, field, 0) = {}
    BY <1>1 DEF Giving
  <2>2. \A i \in DOMAIN parts : parts[i] = [field \in DOMAIN parts[i] |-> parts[i][field]]
    BY MessageEditAssumption
  <2>3. State(0) = [i \in DOMAIN parts |-> [field \in DOMAIN parts[i] |-> parts[i][field]]]
    BY <2>1
  <2> QED
    BY <2>2, <2>3
<1>4. ASSUME NEW k \in 1..n, NEW i \in DOMAIN parts, NEW field
      PROVE  Value(i, field, k) =
                IF i = At(k) /\ field \in DOMAIN items[k].part
                THEN items[k].part[field] ELSE Value(i, field, k - 1)
  <2>1. CASE i = At(k) /\ field \in DOMAIN items[k].part
    <3>1. k \in By(i, field, k) /\ By(i, field, k) \in SUBSET Int
          /\ \A l \in By(i, field, k) : l <= k
      BY <1>1, <2>1 DEF Giving
    <3> HIDE DEF By
    <3>2. Max(By(i, field, k)) = k
      BY <3>1, MaxIs
    <3> QED
      BY <2>1, <3>1, <3>2
  <2>2. CASE ~(i = At(k) /\ field \in DOMAIN items[k].part)
    <3>1. k \notin Giving(items, i, field)
      BY <1>1, <2>2 DEF Giving
    <3>2. By(i, field, k) = By(i, field, k - 1)
      BY <1>1, <3>1 DEF Giving
    <3> HIDE DEF By
    <3> QED
      BY <2>2, <3>2
  <2> QED
    BY <2>1, <2>2
<1>5. ASSUME NEW k \in 1..n
      PROVE  State(k) = Step(State(k - 1), k)
  <2> HIDE DEF Value
  <2>1. ASSUME NEW i \in DOMAIN parts, i # At(k) PROVE State(k)[i] = State(k - 1)[i]
    BY <1>4, <2>1
  <2>2. State(k)[At(k)] = Merged(State(k - 1)[At(k)], items[k].part)
    BY <1>2, <1>4 DEF Merged
  <2>3. /\ DOMAIN State(k) = DOMAIN parts
        /\ State(k) = [i \in DOMAIN parts |-> State(k)[i]]
        /\ DOMAIN State(k - 1) = DOMAIN parts
    OBVIOUS
  <2>4. Step(State(k - 1), k) =
          [i \in DOMAIN parts |->
             IF i = At(k) THEN Merged(State(k - 1)[At(k)], items[k].part) ELSE State(k - 1)[i]]
    <3> HIDE DEF State
    <3> QED
      BY <1>2, <2>3
  <2> HIDE DEF State, Step
  <2> QED
    BY <1>2, <2>1, <2>2, <2>3, <2>4
<1>6. Patched(parts, items) = after[n]
  BY DEF Patched
<1> HIDE DEF State, Step
<1>7. g = [k \in 0..n |-> IF k = 0 THEN parts ELSE Step(g[k - 1], k)]
  BY <1>3, <1>5
<1> HIDE DEF g
<1>8. after = [k \in 0..n |-> IF k = 0 THEN parts ELSE Step(after[k - 1], k)]
  BY <1>7, Zenon
<1> HIDE DEF after
<1>9. 0..n \subseteq {k \in 0..n : after[k] = g[k]}
  <2> DEFINE T == {k \in 0..n : after[k] = g[k]}
  <2>1. 0 \in T
    BY <1>1, <1>7, <1>8
  <2>2. ASSUME NEW k \in 0..(n - 1), k \in T PROVE k + 1 \in T
    <3>1. k + 1 \in 0..n /\ k + 1 # 0 /\ (k + 1) - 1 = k
      BY <1>1
    <3> QED
      BY <1>7, <1>8, <2>2, <3>1
  <2> HIDE DEF T
  <2>3. 0..n \subseteq T
    BY <1>1, <2>1, <2>2, UpTo
  <2> QED
    BY <2>3 DEF T
<1>10. Patched(parts, items) = State(n)
  BY <1>1, <1>6, <1>9 DEF g
<1>11. \A i, field : By(i, field, n) = Giving(items, i, field)
  BY <1>1 DEF Giving
<1>12. ASSUME NEW i, NEW field
       PROVE  Value(i, field, n) = IF Giving(items, i, field) = {} THEN parts[i][field]
                                   ELSE items[Max(Giving(items, i, field))].part[field]
  BY <1>11
<1> HIDE DEF Value
<1> QED
  BY <1>10, <1>12 DEF PatchExact, State

(* f leads, in ascending order, to the n positions that no item names. *)
Spared(parts, items, n, f) ==
    /\ f \in [1..n -> DOMAIN parts] /\ Increasing(f, n)
    /\ \A i \in DOMAIN parts : (\E j \in 1..n : f[j] = i) <=> i - 1 \notin Indexes(items)

(* The parts that no item names are those an ascending enumeration of their *)
(* positions leads to.                                                      *)
LEMMA OthersAre ==
    ASSUME NEW S, NEW parts \in Seq(S), NEW items,
           NEW n \in Nat, NEW f, Spared(parts, items, n, f)
    PROVE  Others(parts, items) = [j \in 1..n |-> parts[f[j]]]
<1> DEFINE kept == {i \in DOMAIN parts : i - 1 \notin Indexes(items)}
<1>1. kept \in SUBSET Nat /\ f \in [1..n -> kept]
      /\ Increasing(f, n) /\ \A i \in kept : \E k \in 1..n : f[k] = i
  BY DEF Spared
<1>2. Others(parts, items) =
        [k \in 1..Cardinality(kept) |->
            parts[CHOOSE i \in kept : Cardinality({j \in kept : j <= i}) = k]]
  BY DEF Others
<1> HIDE DEF kept
<1>3. /\ Cardinality(kept) = n
      /\ \A k \in 1..n : (CHOOSE i \in kept : Cardinality({j \in kept : j <= i}) = k) = f[k]
  BY <1>1, Enumerated, ZenonT(60)
<1> QED
  BY <1>2, <1>3

(* The removals, from the last to the first, leave the parts that no item names. *)
LEMMA RemovedIs ==
    ASSUME NEW S, NEW parts \in Seq(S), NEW items
    PROVE  RemoveExact(parts, items)
<1> DEFINE n == Len(parts)
           R == Indexes(items)
           V == Seq(S)
           Round(k, s) == IF n - k \in R THEN RemoveAt(s, n - k + 1) ELSE s
           F == [p \in (1..n) \X V |->
                    IF n - p[1] + 1 \in 1..Len(p[2]) THEN Round(p[1], p[2]) ELSE p[2]]
           after[k \in 0..n] == IF k = 0 THEN parts ELSE Round(k, after[k - 1])
<1>1. n \in Nat /\ DOMAIN parts = 1..n /\ parts \in V
  OBVIOUS
<1>2. ASSUME NEW k \in 1..n, NEW s \in V, n - k + 1 \in 1..Len(s)
      PROVE  /\ Round(k, s) \in V
             /\ Len(Round(k, s)) = IF n - k \in R THEN Len(s) - 1 ELSE Len(s)
             /\ \A j \in 1..Len(Round(k, s)) :
                   Round(k, s)[j] = IF n - k \in R /\ j > n - k THEN s[j + 1] ELSE s[j]
  <2>1. CASE n - k \in R
    <3>1. /\ RemoveAt(s, n - k + 1) \in Seq(S)
          /\ Len(RemoveAt(s, n - k + 1)) = Len(s) - 1
          /\ \A j \in 1..(Len(s) - 1) :
                RemoveAt(s, n - k + 1)[j] = IF j < n - k + 1 THEN s[j] ELSE s[j + 1]
      BY <1>2, RemoveAtIs
    <3> QED
      BY <1>1, <2>1, <3>1
  <2>2. CASE n - k \notin R
    BY <2>2
  <2> QED
    BY <2>1, <2>2
<1> HIDE DEF Round, R, after
<1>3. ASSUME NEW p \in (1..n) \X V PROVE F[p] \in V
  BY <1>2
<1>4. F \in [(1..n) \X V -> V]
  BY <1>3
<1>5. PICK g \in [0..n -> V] : g[0] = parts /\ \A k \in 1..n : g[k] = F[<<k, g[k - 1]>>]
  <2> HIDE DEF F, V, n
  <2>1. n \in Nat /\ parts \in V
    BY <1>1
  <2>2. Results(n, V, parts, F)
    BY <1>4, <2>1, Loop
  <2> QED
    BY <2>2 DEF Results
<1> HIDE DEF F
<1> DEFINE Left(k, f) ==
              /\ n - k <= Len(g[k]) /\ \A j \in 1..(n - k) : f[j] = j
              /\ Increasing(f, Len(g[k]))
              /\ \A j \in 1..Len(g[k]) : g[k][j] = parts[f[j]]
              /\ \A i \in 1..n : (\E j \in 1..Len(g[k]) : f[j] = i) <=> i <= n - k \/ i - 1 \notin R
           T == {k \in 0..n : \E f \in [1..Len(g[k]) -> 1..n] : Left(k, f)}
<1> HIDE DEF Left, T
<1>6. 0 \in T
  <2> DEFINE f == [j \in 1..n |-> j]
  <2>1. f \in [1..Len(g[0]) -> 1..n] /\ Left(0, f)
    BY <1>1, <1>5 DEF Increasing, Left
  <2> QED
    BY <1>1, <2>1 DEF T
<1>7. ASSUME NEW k \in 1..n, k - 1 \in T
      PROVE  k \in T /\ g[k] = Round(k, g[k - 1])
  <2> DEFINE s == g[k - 1]
  <2>1. PICK f \in [1..Len(s) -> 1..n] : Left(k - 1, f)
    BY <1>7 DEF T
  <2>2. s \in V /\ k - 1 \in 0..n /\ n - k + 1 \in 1..Len(s) /\ Len(s) \in Nat
    <3>1. k - 1 \in 0..n /\ s \in V
      BY <1>1, <1>5
    <3>2. n - (k - 1) <= Len(s)
      BY <2>1 DEF Left
    <3>3. Len(s) \in Nat
      BY <3>1
    <3> HIDE DEF s, V
    <3> QED
      BY <1>1, <3>1, <3>2, <3>3
  <2>3. g[k] = Round(k, s)
    <3>1. g[k] = F[<<k, s>>] /\ <<k, s>> \in (1..n) \X V
      BY <1>5, <2>2
    <3> QED
      BY <2>2, <3>1 DEF F
  <2>4. CASE n - k \notin R
    <3>1. g[k] = s
      BY <2>3, <2>4 DEF Round
    <3>2. Left(k, f)
      <4>1. ASSUME NEW i \in 1..n
            PROVE  (\E j \in 1..Len(s) : f[j] = i) <=> i <= n - k \/ i - 1 \notin R
        <5>1. (\E j \in 1..Len(s) : f[j] = i) <=> i <= n - (k - 1) \/ i - 1 \notin R
          BY <2>1 DEF Left
        <5> QED
          BY <1>1, <2>4, <5>1
      <4>2. n - k <= Len(s) /\ \A j \in 1..(n - k) : f[j] = j
        BY <1>1, <2>1 DEF Left
      <4> QED
        BY <2>1, <3>1, <4>1, <4>2 DEF Left
    <3> QED
      BY <1>1, <2>1, <2>3, <3>1, <3>2 DEF T
  <2>5. CASE n - k \in R
    <3> DEFINE h == [j \in 1..(Len(s) - 1) |-> IF j > n - k THEN f[j + 1] ELSE f[j]]
    <3>1. /\ g[k] \in V /\ Len(g[k]) = Len(s) - 1
          /\ \A j \in 1..(Len(s) - 1) : g[k][j] = IF j > n - k THEN s[j + 1] ELSE s[j]
      <4>1. /\ Round(k, s) \in V
            /\ Len(Round(k, s)) = IF n - k \in R THEN Len(s) - 1 ELSE Len(s)
            /\ \A j \in 1..Len(Round(k, s)) :
                  Round(k, s)[j] = IF n - k \in R /\ j > n - k THEN s[j + 1] ELSE s[j]
        <5> HIDE DEF s, V, n
        <5> QED
          BY <1>2, <2>2
      <4> QED
        BY <2>3, <2>5, <4>1
    <3>2. /\ n - k + 1 <= Len(s) /\ \A j \in 1..(n - k + 1) : f[j] = j
          /\ \A a, b \in 1..Len(s) : a < b => f[a] < f[b]
          /\ \A j \in 1..Len(s) : s[j] = parts[f[j]]
          /\ \A i \in 1..n : (\E j \in 1..Len(s) : f[j] = i) <=> i <= n - k + 1 \/ i - 1 \notin R
      BY <1>1, <2>1 DEF Increasing, Left
    <3>3. h \in [1..Len(g[k]) -> 1..n]
      BY <1>1, <2>2, <3>1
    <3>4. n - k <= Len(g[k]) /\ \A j \in 1..(n - k) : h[j] = j
      BY <1>1, <2>2, <3>1, <3>2
    <3>5. Increasing(h, Len(g[k]))
      BY <1>1, <2>2, <3>1, <3>2 DEF Increasing
    <3>6. \A j \in 1..Len(g[k]) : g[k][j] = parts[h[j]]
      BY <1>1, <2>2, <3>1, <3>2
    <3>7. ASSUME NEW i \in 1..n
          PROVE  (\E j \in 1..Len(g[k]) : h[j] = i) <=> i <= n - k \/ i - 1 \notin R
      <4>1. ASSUME NEW j \in 1..(Len(s) - 1), h[j] = i PROVE i <= n - k \/ i - 1 \notin R
        <5>1. CASE j <= n - k
          BY <1>1, <3>2, <4>1, <5>1
        <5>2. CASE j > n - k
          <6>1. j + 1 \in 1..Len(s) /\ f[j + 1] = i /\ n - k + 1 \in 1..Len(s) /\ n - k + 1 < j + 1
            BY <1>1, <2>2, <4>1, <5>2
          <6>2. f[n - k + 1] = n - k + 1 /\ f[n - k + 1] < f[j + 1]
            BY <1>1, <3>2, <6>1
          <6>3. n - k + 1 < i
            BY ONLY <6>1, <6>2, Zenon
          <6>4. ~(i <= n - k + 1)
            BY <1>1, <6>3
          <6>5. \E l \in 1..Len(s) : f[l] = i
            BY <6>1
          <6> QED
            BY <3>2, <6>4, <6>5
        <5> QED
          BY <1>1, <5>1, <5>2
      <4>2. ASSUME i <= n - k \/ i - 1 \notin R PROVE \E j \in 1..(Len(s) - 1) : h[j] = i
        <5>1. PICK j \in 1..Len(s) : f[j] = i
          BY <1>1, <3>2, <4>2
        <5>2. CASE j <= n - k
          <6>1. j \in 1..(Len(s) - 1) /\ h[j] = i
            BY <1>1, <2>2, <5>1, <5>2
          <6> HIDE DEF h
          <6> QED
            BY <6>1
        <5>3. CASE j = n - k + 1
          <6>1. j \in 1..(n - k + 1)
            BY <1>1, <2>2, <5>3
          <6>2. i = n - k + 1
            BY <3>2, <5>1, <5>3, <6>1
          <6>3. ~(i <= n - k) /\ i - 1 = n - k
            BY <1>1, <6>2
          <6> QED
            BY <2>5, <4>2, <6>3
        <5>4. CASE j > n - k + 1
          <6>1. j - 1 \in 1..(Len(s) - 1) /\ j - 1 > n - k /\ (j - 1) + 1 = j
            BY <1>1, <2>2, <5>4
          <6>2. h[j - 1] = i
            BY <5>1, <6>1
          <6> HIDE DEF h
          <6> QED
            BY <6>1, <6>2
        <5>5. j <= n - k \/ j = n - k + 1 \/ j > n - k + 1
          BY <1>1, <2>2
        <5> HIDE DEF h
        <5> QED
          BY <5>2, <5>3, <5>4, <5>5
      <4> QED
        BY <3>1, <4>1, <4>2
    <3> HIDE DEF h
    <3>8. Left(k, h)
      BY <3>4, <3>5, <3>6, <3>7 DEF Left
    <3> QED
      BY <1>1, <2>3, <3>3, <3>8 DEF T
  <2> QED
    BY <2>4, <2>5
<1>8. 0..n \subseteq T
  <2>1. ASSUME NEW k \in 0..(n - 1), k \in T PROVE k + 1 \in T
    <3>1. k + 1 \in 1..n /\ (k + 1) - 1 = k
      BY <1>1
    <3> QED
      BY <1>7, <2>1, <3>1
  <2> QED
    BY <1>1, <1>6, <2>1, UpTo
<1>9. g = [k \in 0..n |-> IF k = 0 THEN parts ELSE Round(k, g[k - 1])]
  <2>1. ASSUME NEW k \in 1..n PROVE g[k] = Round(k, g[k - 1])
    <3>1. k - 1 \in 0..n
      BY <1>1
    <3> QED
      BY <1>7, <1>8, <3>1
  <2> QED
    BY <1>1, <1>5, <2>1
<1>10. Removed(parts, items) = after[n]
  BY DEF Removed, Round, R, after
<1>11. after = [k \in 0..n |-> IF k = 0 THEN parts ELSE Round(k, after[k - 1])]
  <2> HIDE DEF n
  <2> QED
    BY <1>9, Zenon DEF after
<1>12. after[n] = g[n]
  <2> DEFINE E == {k \in 0..n : after[k] = g[k]}
  <2>1. 0 \in E
    BY <1>1, <1>5, <1>11
  <2>2. ASSUME NEW k \in 0..(n - 1), k \in E PROVE k + 1 \in E
    <3>1. k + 1 \in 0..n /\ k + 1 # 0 /\ (k + 1) - 1 = k
      BY <1>1
    <3> QED
      BY <1>9, <1>11, <2>2, <3>1
  <2>3. 0..n \subseteq E
    <3> HIDE DEF E
    <3> QED
      BY <1>1, <2>1, <2>2, UpTo
  <2> QED
    BY <1>1, <2>3
<1>13. PICK f \in [1..Len(g[n]) -> 1..n] : Left(n, f)
  BY <1>1, <1>8 DEF T
<1>14. Len(g[n]) \in Nat /\ g[n] \in Seq(S) /\ n - n = 0
  BY <1>1, <1>5
<1>15. Spared(parts, items, Len(g[n]), f)
  <2>1. \A i \in 1..n : (\E j \in 1..Len(g[n]) : f[j] = i) <=> i <= n - n \/ i - 1 \notin R
    BY <1>13 DEF Left
  <2> QED
    BY <1>1, <1>13, <1>14, <2>1 DEF R, Left, Spared
<1>16. Others(parts, items) = [j \in 1..Len(g[n]) |-> parts[f[j]]]
  <2> HIDE DEF n
  <2> QED
    BY <1>14, <1>15, OthersAre
<1>17. g[n] = [j \in 1..Len(g[n]) |-> parts[f[j]]]
  BY <1>13, <1>14 DEF Left
<1> QED
  BY <1>10, <1>12, <1>16, <1>17 DEF RemoveExact

(* Items with as many indexes as there are items have different ones. *)
LEMMA Distinct ==
    ASSUME NEW n \in Nat, NEW items, DOMAIN items = 1..n, Cardinality(Indexes(items)) = n
    PROVE  \A a, b \in 1..n : items[a].index = items[b].index => a = b
<1> DEFINE f == [k \in 1..n |-> items[k].index]
           R == Indexes(items)
<1>1. f \in Surjection(1..n, R)
  <2>1. f \in [1..n -> R] /\ \A i \in R : \E k \in 1..n : f[k] = i
    BY DEF Indexes
  <2> HIDE DEF f
  <2> QED
    BY <2>1 DEF Surjection
<1>2. IsFiniteSet(1..n) /\ Cardinality(1..n) = n
  BY FS_Interval
<1>3. f \in Injection(1..n, R)
  <2>1. Cardinality(R) = n
    OBVIOUS
  <2> HIDE DEF f, R
  <2>2. IsFiniteSet(R)
    BY <1>1, <1>2, FS_Surjection
  <2> QED
    BY <1>1, <1>2, <2>1, <2>2, FS_SurjSameCardinalityImpliesInj
<1>4. \A a, b \in 1..n : f[a] = f[b] => a = b
  <2> HIDE DEF f
  <2> QED
    BY <1>3 DEF Injection, IsInjective
<1> QED
  BY <1>4

(* Inserted at ascending and different indexes, the items are found at these *)
(* indexes, and what is around them is what was there before.                *)
LEMMA InsertedIs ==
    ASSUME NEW S, NEW parts \in Seq(S), NEW items \in Seq([index : Int, part : S]),
           InsertFits(parts, items)
    PROVE  InsertExact(parts, items)
<1> DEFINE m == Len(parts)
           n == Len(items)
<1>0. \A k \in 1..n : items[k].index \in Int /\ items[k].part \in S
  <2>1. \A k \in 1..n : items[k] \in [index : Int, part : S]
    BY ElementOfSeq
  <2> QED
    BY <2>1
<1>1. /\ m \in Nat /\ n \in Nat /\ DOMAIN items = 1..n /\ DOMAIN parts = 1..m
      /\ parts \in Seq(S)
  OBVIOUS
<1> HIDE DEF m, n
<1> SUFFICES ASSUME Cardinality(Indexes(items)) = n
             PROVE  LET made == Inserted(parts, items)
                    IN  /\ \A k \in DOMAIN items : made[items[k].index + 1] = items[k].part
                        /\ Others(made, items) = parts
  BY DEF InsertExact, n
<1>2. \A a, b \in 1..n : items[a].index = items[b].index => a = b
  BY <1>1, Distinct
<1>3. PICK p : Sorts(p, items, n)
  BY <1>0, <1>1, SortedIs
<1>4. /\ p \in [1..n -> 1..n]
      /\ Sorted(items) = [k \in 1..n |-> items[p[k]]]
      /\ \A k \in 1..n : \E a \in 1..n : p[a] = k
      /\ \A a, b \in 1..n : a < b => Before(items, p[a], p[b])
  BY <1>3 DEF Sorts
<1> DEFINE s == Sorted(items)
           At(k) == s[k].index + 1
<1>5. ASSUME NEW k \in 1..n
      PROVE  /\ p[k] \in 1..n /\ s[k] = items[p[k]]
             /\ At(k) \in 1..(m + k) /\ s[k].part \in S
  <2>1. s[k] = items[p[k]] /\ p[k] \in 1..n
    BY <1>4
  <2>2. s[k].index \in 0..(m + k - 1)
    BY <1>1 DEF InsertFits, ValidInsertIndex, m
  <2>3. s[k].part \in S /\ s[k].index \in Int
    BY <1>0, <2>1
  <2> HIDE DEF s
  <2>4. At(k) \in 1..(m + k)
    BY <1>1, <2>2, <2>3
  <2> HIDE DEF At
  <2> QED
    BY <2>1, <2>3, <2>4
<1>6. \A a, b \in 1..n : a < b => At(a) < At(b)
  <2> SUFFICES ASSUME NEW a \in 1..n, NEW b \in 1..n, a < b PROVE At(a) < At(b)
    OBVIOUS
  <2> DEFINE i == p[a]
             j == p[b]
  <2>1. i \in 1..n /\ j \in 1..n /\ s[a] = items[i] /\ s[b] = items[j] /\ Before(items, i, j)
    BY <1>4, <1>5
  <2> HIDE DEF i, j, s
  <2>2. items[i].index \in Int /\ items[j].index \in Int
    BY <1>0, <2>1
  <2>3. i # j
    BY <1>0, <2>1 DEF Before
  <2>4. items[i].index < items[j].index
    BY <1>2, <2>1, <2>2, <2>3 DEF Before
  <2>5. \A x, y \in Int : x < y => x + 1 < y + 1
    OBVIOUS
  <2>6. items[i].index + 1 < items[j].index + 1
    BY ONLY <2>2, <2>4, <2>5, Zenon
  <2> QED
    BY <2>1, <2>6
<1> DEFINE V == Seq(S)
           Round(k, q) == InsertAt(q, s[k].index + 1, s[k].part)
           F == [r \in (1..n) \X V |->
                    IF At(r[1]) \in 1..(Len(r[2]) + 1) THEN Round(r[1], r[2]) ELSE r[2]]
           after[k \in 0..n] == IF k = 0 THEN parts ELSE Round(k, after[k - 1])
<1> HIDE DEF s
<1>7. ASSUME NEW k \in 1..n, NEW q \in V, At(k) \in 1..(Len(q) + 1)
      PROVE  /\ Round(k, q) \in V
             /\ Len(Round(k, q)) = Len(q) + 1
             /\ \A j \in 1..(Len(q) + 1) :
                   Round(k, q)[j] = IF j < At(k) THEN q[j]
                                    ELSE IF j = At(k) THEN s[k].part ELSE q[j - 1]
  <2> DEFINE i == At(k)
             e == s[k].part
  <2>1. e \in S /\ i \in 1..(Len(q) + 1) /\ Round(k, q) = InsertAt(q, i, e)
    BY <1>5, <1>7
  <2> HIDE DEF i, e, Round
  <2>2. /\ InsertAt(q, i, e) \in Seq(S)
        /\ Len(InsertAt(q, i, e)) = Len(q) + 1
        /\ \A j \in 1..(Len(q) + 1) :
              InsertAt(q, i, e)[j] = IF j < i THEN q[j] ELSE IF j = i THEN e ELSE q[j - 1]
    BY <2>1, InsertAtIs
  <2> QED
    BY <2>1, <2>2 DEF i, e
<1> HIDE DEF Round, after
<1>8. ASSUME NEW r \in (1..n) \X V PROVE F[r] \in V
  BY <1>7
<1>9. F \in [(1..n) \X V -> V]
  BY <1>8
<1>10. PICK g \in [0..n -> V] : g[0] = parts /\ \A k \in 1..n : g[k] = F[<<k, g[k - 1]>>]
  <2> HIDE DEF F, V
  <2>1. n \in Nat /\ parts \in V
    BY <1>1 DEF V
  <2>2. Results(n, V, parts, F)
    BY <1>9, <2>1, Loop
  <2> QED
    BY <2>2 DEF Results
<1> HIDE DEF F, At
<1> DEFINE Around(k, h) ==
              /\ h \in [1..m -> 1..(m + k)] /\ Len(g[k]) = m + k
              /\ Increasing(h, m)
              /\ \A j \in 1..m : g[k][h[j]] = parts[j]
              /\ \A l \in 1..k : g[k][At(l)] = s[l].part
              /\ \A i \in 1..(m + k) : (\E j \in 1..m : h[j] = i) <=> \A l \in 1..k : At(l) # i
           T == {k \in 0..n : \E h : Around(k, h)}
<1> HIDE DEF Around, T
<1>11. 0 \in T
  <2> DEFINE h == [j \in 1..m |-> j]
  <2>1. h \in [1..m -> 1..(m + 0)]
    BY <1>1
  <2>2. Around(0, h)
    BY <1>1, <1>10, <2>1 DEF Around, Increasing
  <2> HIDE DEF h
  <2> QED
    BY <1>1, <2>2 DEF T
<1>12. ASSUME NEW k \in 1..n, k - 1 \in T
       PROVE  k \in T /\ g[k] = Round(k, g[k - 1])
  <2> DEFINE q == g[k - 1]
             i0 == At(k)
  <2>1. PICK h : Around(k - 1, h)
    BY <1>12 DEF T
  <2>2. /\ Len(q) = m + k - 1 /\ h \in [1..m -> 1..(m + k - 1)]
        /\ \A a, b \in 1..m : a < b => h[a] < h[b]
        /\ \A j \in 1..m : q[h[j]] = parts[j]
        /\ \A l \in 1..(k - 1) : q[At(l)] = s[l].part
        /\ \A i \in 1..(m + k - 1) :
              (\E j \in 1..m : h[j] = i) <=> \A l \in 1..(k - 1) : At(l) # i
    <3>1. m + (k - 1) = m + k - 1
      BY <1>1
    <3> QED
      BY <2>1, <3>1 DEF Around, Increasing
  <2>3. q \in V /\ i0 \in 1..(m + k) /\ i0 \in 1..(Len(q) + 1) /\ Len(q) + 1 = m + k
    <3>1. k - 1 \in 0..n
      BY <1>1
    <3>2. q \in V
      BY <1>10, <3>1
    <3>3. i0 \in 1..(m + k)
      BY <1>5 DEF At
    <3>4. Len(q) + 1 = m + k
      BY <1>1, <2>2
    <3> QED
      BY <3>2, <3>3, <3>4
  <2>4. g[k] = Round(k, q)
    <3>1. g[k] = F[<<k, q>>] /\ <<k, q>> \in (1..n) \X V
      BY <1>10, <2>3
    <3> QED
      BY <2>3, <3>1 DEF F
  <2>5. /\ Len(g[k]) = m + k
        /\ \A j \in 1..(m + k) :
              g[k][j] = IF j < i0 THEN q[j] ELSE IF j = i0 THEN s[k].part ELSE q[j - 1]
    <3>1. /\ Len(Round(k, q)) = Len(q) + 1
          /\ \A j \in 1..(Len(q) + 1) :
               Round(k, q)[j] = IF j < At(k) THEN q[j]
                                ELSE IF j = At(k) THEN s[k].part ELSE q[j - 1]
      <4> HIDE DEF q, V
      <4> QED
        BY <1>7, <2>3
    <3> QED
      BY <2>3, <2>4, <3>1
  <2>6. ASSUME NEW l \in 1..(k - 1) PROVE At(l) \in 1..(m + k) /\ At(l) < i0
    <3>1. l \in 1..n /\ l < k
      BY <1>1
    <3>2. At(l) \in 1..(m + l) /\ At(k) \in 1..(m + k) /\ At(l) < At(k)
      BY <1>5, <1>6, <3>1
    <3> QED
      BY <1>1, <3>1, <3>2
  <2> DEFINE f == [j \in 1..m |-> IF h[j] < i0 THEN h[j] ELSE h[j] + 1]
  <2>7. ASSUME NEW j \in 1..m
        PROVE  /\ h[j] \in 1..(m + k - 1) /\ f[j] \in 1..(m + k)
               /\ f[j] = IF h[j] < i0 THEN h[j] ELSE h[j] + 1
    <3>1. h[j] \in 1..(m + k - 1)
      BY <2>2
    <3>2. f[j] = IF h[j] < i0 THEN h[j] ELSE h[j] + 1
      OBVIOUS
    <3> HIDE DEF f, i0
    <3> QED
      BY <1>1, <3>1, <3>2
  <2>8. f \in [1..m -> 1..(m + k)]
    BY <2>7
  <2> HIDE DEF f, i0, q
  <2>9. \A a, b \in 1..m : a < b => f[a] < f[b]
    <3> SUFFICES ASSUME NEW a \in 1..m, NEW b \in 1..m, a < b PROVE f[a] < f[b]
      OBVIOUS
    <3>1. h[a] < h[b] /\ h[a] \in Int /\ h[b] \in Int /\ i0 \in Int
      BY <2>2, <2>3, <2>7
    <3>2. /\ f[a] = IF h[a] < i0 THEN h[a] ELSE h[a] + 1
          /\ f[b] = IF h[b] < i0 THEN h[b] ELSE h[b] + 1
      BY <2>7
    <3> QED
      BY <3>1, <3>2
  <2>10. ASSUME NEW j \in 1..m PROVE g[k][f[j]] = parts[j]
    <3>1. h[j] \in 1..(m + k - 1) /\ f[j] \in 1..(m + k) /\ q[h[j]] = parts[j]
      BY <2>2, <2>7
    <3>2. CASE h[j] < i0
      BY <2>5, <2>7, <3>1, <3>2
    <3>3. CASE ~(h[j] < i0)
      <4>1. f[j] = h[j] + 1 /\ ~(f[j] < i0) /\ f[j] # i0 /\ f[j] - 1 = h[j]
        <5>1. f[j] = h[j] + 1 /\ h[j] \in Int /\ i0 \in Int
          BY <2>3, <2>7, <3>3
        <5>2. \A x, y \in Int : ~(x < y) => ~(x + 1 < y) /\ x + 1 # y /\ (x + 1) - 1 = x
          OBVIOUS
        <5>3. ~(h[j] + 1 < i0) /\ h[j] + 1 # i0 /\ (h[j] + 1) - 1 = h[j]
          BY ONLY <3>3, <5>1, <5>2, Zenon
        <5> QED
          BY ONLY <5>1, <5>3, Zenon
      <4> QED
        BY <2>5, <3>1, <4>1
    <3> QED
      BY <3>2, <3>3
  <2>11. ASSUME NEW l \in 1..k PROVE g[k][At(l)] = s[l].part
    <3>1. CASE l = k
      BY <2>3, <2>5, <3>1 DEF i0
    <3>2. CASE l # k
      <4>1. l \in 1..(k - 1)
        BY <3>2
      <4> QED
        BY <2>2, <2>5, <2>6, <4>1
    <3> QED
      BY <3>1, <3>2
  <2>12. ASSUME NEW i \in 1..(m + k)
         PROVE  (\E j \in 1..m : f[j] = i) <=> \A l \in 1..k : At(l) # i
    <3>1. CASE i < i0
      <4>1. i \in 1..(m + k - 1) /\ \A j \in 1..m : f[j] = i <=> h[j] = i
        <5>1. i \in 1..(m + k - 1)
          BY <1>1, <2>3, <3>1
        <5>2. ASSUME NEW j \in 1..m PROVE f[j] = i <=> h[j] = i
          <6>1. /\ h[j] \in Int /\ i0 \in Int /\ i \in Int
                /\ f[j] = IF h[j] < i0 THEN h[j] ELSE h[j] + 1
            BY <2>3, <2>7
          <6> QED
            BY <3>1, <6>1
        <5> QED
          BY <5>1, <5>2
      <4>2. (\A l \in 1..k : At(l) # i) <=> \A l \in 1..(k - 1) : At(l) # i
        <5>1. At(k) # i
          BY <1>1, <2>3, <3>1 DEF i0
        <5>2. \A l \in 1..k : l = k \/ l \in 1..(k - 1)
          BY <1>1
        <5>3. \A l \in 1..(k - 1) : l \in 1..k
          BY <1>1
        <5> QED
          BY <5>1, <5>2, <5>3
      <4> QED
        BY <2>2, <4>1, <4>2
    <3>2. CASE i = i0
      <4>1. ASSUME NEW j \in 1..m PROVE f[j] # i
        <5>1. /\ h[j] \in 1..(m + k - 1)
              /\ f[j] = IF h[j] < i0 THEN h[j] ELSE h[j] + 1
          BY <2>7
        <5> QED
          BY <1>1, <2>3, <3>2, <5>1
      <4> QED
        BY <3>2, <4>1 DEF i0
    <3>3. CASE i > i0
      <4>1. i - 1 \in 1..(m + k - 1) /\ i - 1 >= i0
        BY <1>1, <2>3, <3>3
      <4>2. \A l \in 1..(k - 1) : At(l) # i - 1
        BY <2>3, <2>6, <4>1
      <4>3. PICK j \in 1..m : h[j] = i - 1
        BY <2>2, <4>1, <4>2
      <4>4. f[j] = i
        BY <2>3, <2>7, <4>1, <4>3
      <4>5. ASSUME NEW l \in 1..k PROVE At(l) # i
        <5>1. CASE l = k
          BY <2>3, <3>3, <5>1 DEF i0
        <5>2. CASE l # k
          <6>1. l \in 1..(k - 1)
            BY <5>2
          <6> QED
            BY <2>3, <2>6, <3>3, <6>1
        <5> QED
          BY <5>1, <5>2
      <4> QED
        BY <4>4, <4>5
    <3> QED
      BY <2>3, <3>1, <3>2, <3>3
  <2>13. Around(k, f)
    BY <2>5, <2>8, <2>9, <2>10, <2>11, <2>12 DEF Around, Increasing
  <2>14. k \in 0..n
    BY <1>1
  <2> QED
    BY <2>4, <2>13, <2>14 DEF T, q
<1>13. 0..n \subseteq T
  <2>1. ASSUME NEW k \in 0..(n - 1), k \in T PROVE k + 1 \in T
    <3>1. k + 1 \in 1..n /\ (k + 1) - 1 = k
      BY <1>1
    <3> QED
      BY <1>12, <2>1, <3>1
  <2> QED
    BY <1>1, <1>11, <2>1, UpTo
<1>14. g = [k \in 0..n |-> IF k = 0 THEN parts ELSE Round(k, g[k - 1])]
  <2>1. ASSUME NEW k \in 1..n PROVE g[k] = Round(k, g[k - 1])
    <3>1. k - 1 \in 0..n
      BY <1>1
    <3> QED
      BY <1>12, <1>13, <3>1
  <2> QED
    BY <1>1, <1>10, <2>1
<1>15. Inserted(parts, items) = after[n]
  BY DEF Inserted, Round, s, after, n
<1>16. after = [k \in 0..n |-> IF k = 0 THEN parts ELSE Round(k, after[k - 1])]
  BY <1>14, Zenon DEF after
<1>17. after[n] = g[n]
  <2> DEFINE E == {k \in 0..n : after[k] = g[k]}
  <2>1. 0 \in E
    BY <1>1, <1>10, <1>16
  <2>2. ASSUME NEW k \in 0..(n - 1), k \in E PROVE k + 1 \in E
    <3>1. k + 1 \in 0..n /\ k + 1 # 0 /\ (k + 1) - 1 = k
      BY <1>1
    <3> QED
      BY <1>14, <1>16, <2>2, <3>1
  <2>3. 0..n \subseteq E
    <3> HIDE DEF E
    <3> QED
      BY <1>1, <2>1, <2>2, UpTo
  <2> QED
    BY <1>1, <2>3
<1>18. PICK h : Around(n, h)
  <2>1. n \in 0..n
    BY <1>1
  <2> QED
    BY <1>13, <2>1 DEF T
<1> DEFINE made == g[n]
<1>19. Inserted(parts, items) = made
  BY <1>15, <1>17
<1>20. ASSUME NEW k \in 1..n PROVE \E l \in 1..n : s[l] = items[k]
  <2>1. PICK l \in 1..n : p[l] = k
    BY <1>4
  <2> QED
    BY <1>5, <2>1
<1>21. made \in Seq(S) /\ Len(made) = m + n /\ DOMAIN made = 1..(m + n)
  <2>1. made \in Seq(S)
    BY <1>1, <1>10
  <2>2. Len(made) = m + n
    BY <1>18 DEF Around
  <2> QED
    BY <2>1, <2>2
<1>22. \A k \in DOMAIN items : made[items[k].index + 1] = items[k].part
  <2> SUFFICES ASSUME NEW k \in 1..n PROVE made[items[k].index + 1] = items[k].part
    BY <1>1
  <2>1. PICK l \in 1..n : s[l] = items[k]
    BY <1>20
  <2>2. made[At(l)] = s[l].part
    BY <1>18 DEF Around
  <2> QED
    BY <2>1, <2>2 DEF At
<1>23. Spared(made, items, m, h)
  <2>1. ASSUME NEW i \in 1..(m + n)
        PROVE  (\A l \in 1..n : At(l) # i) <=> i - 1 \notin Indexes(items)
    <3>1. ASSUME NEW l \in 1..n, At(l) = i PROVE i - 1 \in Indexes(items)
      <4>1. p[l] \in DOMAIN items /\ s[l] = items[p[l]]
        BY <1>1, <1>5
      <4>2. s[l].index \in Int
        BY <1>0, <1>1, <4>1
      <4>3. i - 1 = s[l].index
        <5>1. s[l].index + 1 = i
          BY <3>1 DEF At
        <5> QED
          BY <4>2, <5>1
      <4> QED
        BY <4>1, <4>3 DEF Indexes
    <3>2. ASSUME i - 1 \in Indexes(items) PROVE \E l \in 1..n : At(l) = i
      <4>1. PICK k \in 1..n : items[k].index = i - 1
        BY <1>1, <3>2 DEF Indexes
      <4>2. PICK l \in 1..n : s[l] = items[k]
        BY <1>20
      <4> QED
        BY <1>1, <4>1, <4>2 DEF At
    <3> QED
      BY <3>1, <3>2
  <2>2. Increasing(h, m) /\ \A i \in 1..(m + n) : (\E j \in 1..m : h[j] = i) <=> \A l \in 1..n : At(l) # i
    BY <1>18 DEF Around
  <2> QED
    BY <1>18, <1>21, <2>1, <2>2 DEF Spared, Around
<1>24. Others(made, items) = [j \in 1..m |-> made[h[j]]]
  <2> HIDE DEF made
  <2> QED
    BY <1>1, <1>21, <1>23, OthersAre
<1>25. parts = [j \in 1..m |-> made[h[j]]]
  <2>1. \A j \in 1..m : made[h[j]] = parts[j]
    BY <1>18 DEF Around
  <2> QED
    BY <1>1, <2>1
<1> QED
  BY <1>19, <1>22, <1>24, <1>25

(* Whatever the bounds, an applied edit makes of the parts what the client *)
(* asked for.                                                              *)
THEOREM ExactEdits == Spec => []EditsAreExact
<1>1. ASSUME NEW parts \in BoundedSeq(Parts, MaxParts) PROVE parts \in Seq(Parts)
  BY MessageEditAssumption DEF BoundedSeq, SeqOf
<1>2. ASSUME NEW M, NEW items \in ItemLists(M) PROVE items \in Seq([index : Int, part : M])
  <2> DEFINE I == [index : Int, part : M]
  <2>1. PICK m \in 0..MaxItems :
          items \in [1..m -> [index : -1..(MaxParts + MaxItems), part : M]]
    BY MessageEditAssumption DEF ItemLists, BoundedSeq, SeqOf
  <2>2. \A r \in [index : -1..(MaxParts + MaxItems), part : M] : r \in [index : Int, part : M]
    BY MessageEditAssumption
  <2>3. items \in [1..m -> I] /\ m \in Nat
    BY <2>1, <2>2, MessageEditAssumption
  <2> HIDE DEF I
  <2>4. items \in Seq(I)
    BY <2>3
  <2> QED
    BY <2>4 DEF I
<1>3. EditsAreExact
  <2> SUFFICES ASSUME NEW parts \in BoundedSeq(Parts, MaxParts)
               PROVE  /\ \A items \in ItemLists(Merges) :
                            PatchFits(parts, items) => PatchExact(parts, items)
                      /\ \A items \in ItemLists(Parts) :
                            /\ RemoveFits(parts, items) => RemoveExact(parts, items)
                            /\ InsertFits(parts, items) => InsertExact(parts, items)
    BY DEF EditsAreExact
  <2>1. parts \in Seq(Parts)
    BY <1>1
  <2>2. ASSUME NEW items \in ItemLists(Merges), PatchFits(parts, items)
        PROVE  PatchExact(parts, items)
    <3>1. items \in Seq([index : Int, part : Merges])
      BY <1>2
    <3> QED
      BY <2>1, <2>2, <3>1, PatchedIs
  <2>3. ASSUME NEW items \in ItemLists(Parts)
        PROVE  /\ RemoveFits(parts, items) => RemoveExact(parts, items)
               /\ InsertFits(parts, items) => InsertExact(parts, items)
    <3>1. items \in Seq([index : Int, part : Parts])
      BY <1>2
    <3> QED
      BY <2>1, <3>1, RemovedIs, InsertedIs
  <2> QED
    BY <2>2, <2>3
<1> QED
  BY <1>3, PTL
==========================================================================
