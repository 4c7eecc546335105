------------------------- MODULE BashTool_proofs -------------------------
(***************************************************************************)
(* Proofs about one call of the bash tool, for any limits of the            *)
(* configuration and any amount of output: type correctness, and that what  *)
(* the call returns is what happened.                                       *)
(***************************************************************************)
EXTENDS BashTool, TLAPS

\* The limits are numbers, and a capture accepts at least what may be shown.
LEMMA Limits == Truncate \in Nat /\ HardBytes \in Nat /\ Truncate <= HardBytes
  BY BashToolAssumption DEF Truncate, HardBytes, NonzeroOrDefault

\* What is shown is at most what was accepted and at most the limit.
LEMMA ShownBounded ==
    ASSUME NEW n \in Nat
    PROVE  Shown(n) \in 0..Truncate /\ Shown(n) <= n /\ (n >= Truncate => Shown(n) = Truncate)
  BY Limits DEF Shown

\* One read accepts no more than there is and no more than the limit leaves.
LEMMA ReadAccepts ==
    ASSUME BashTypeOK, NEW s \in Streams, Read(s), taken[s] <= written[s]
    PROVE  /\ taken'[s] \in 0..HardBytes /\ taken'[s] <= written[s]
           /\ taken' = [taken EXCEPT ![s] = taken'[s]]
           /\ capture'[s] = "cut" => taken'[s] = HardBytes /\ taken'[s] < written[s]
           /\ \/ capture' = [capture EXCEPT ![s] = "cut"]
              \/ capture' = capture /\ limited' = limited
<1>1. PICK n \in 1..(written[s] - taken[s]) :
         LET remaining == HardBytes - taken[s]
             accepted == IF n < remaining THEN n ELSE remaining IN
         /\ taken' = [taken EXCEPT ![s] = @ + accepted]
         /\ IF accepted < n
            THEN capture' = [capture EXCEPT ![s] = "cut"] /\ limited' = TRUE
            ELSE UNCHANGED <<capture, limited>>
  BY DEF Read
<1>2. /\ n \in Int /\ 1 <= n /\ n <= written[s] - taken[s] /\ HardBytes \in Nat
      /\ taken[s] \in Int /\ 0 <= taken[s] /\ taken[s] <= HardBytes
      /\ written[s] \in Int /\ capture[s] = "reading"
  BY <1>1, Limits, BashToolAssumption DEF BashTypeOK, Read
<1>3. CASE n < HardBytes - taken[s]
  <2>1. /\ taken' = [taken EXCEPT ![s] = @ + n]
        /\ capture' = capture /\ limited' = limited
    BY <1>1, <1>2, <1>3
  <2>2. taken'[s] = taken[s] + n
    BY <2>1 DEF BashTypeOK
  <2>3. taken' = [taken EXCEPT ![s] = taken'[s]]
    BY <2>1, <2>2
  <2>4. taken'[s] \in 0..HardBytes /\ taken'[s] <= written[s]
    BY <1>2, <1>3, <2>2
  <2>5. capture'[s] # "cut"
    BY <1>2, <2>1
  <2> QED
    BY <2>1, <2>3, <2>4, <2>5
<1>4. CASE ~(n < HardBytes - taken[s])
  <2>1. taken' = [taken EXCEPT ![s] = @ + (HardBytes - taken[s])]
    BY <1>1, <1>4
  <2>2. taken'[s] = HardBytes
    BY <1>2, <2>1 DEF BashTypeOK
  <2>3. taken' = [taken EXCEPT ![s] = taken'[s]]
    BY <1>2, <2>1, <2>2
  <2>4. taken'[s] \in 0..HardBytes /\ taken'[s] <= written[s]
    BY <1>2, <1>4, <2>2
  <2>5. CASE HardBytes - taken[s] < n
    <3>1. capture' = [capture EXCEPT ![s] = "cut"]
      BY <1>1, <1>4, <2>5
    <3>2. taken'[s] < written[s]
      BY <1>2, <2>2, <2>5
    <3> QED
      BY <2>2, <2>3, <2>4, <3>1, <3>2
  <2>6. CASE ~(HardBytes - taken[s] < n)
    <3>1. capture' = capture /\ limited' = limited
      BY <1>1, <1>4, <2>6
    <3>2. capture'[s] # "cut"
      BY <1>2, <3>1
    <3> QED
      BY <2>3, <2>4, <3>1, <3>2
  <2> QED
    BY <2>5, <2>6
<1> QED
  BY <1>3, <1>4

---------------------------------------------------------------------------
(* What a capture task has and what the call knows when it waits for them:   *)
(* a cut stream was longer than the limit, a stream at its end has no writer *)
(* and was read to the last byte, the limit was told of a stream that was    *)
(* cut, and what the select saw of the shell is so.                          *)
Captured ==
    \A s \in Streams :
        /\ taken[s] <= written[s]
        /\ capture[s] = "cut" => taken[s] = HardBytes /\ taken[s] < written[s]
        /\ capture[s] = "eof" => taken[s] = written[s] /\ shell.status # "running" /\ ~heir

Notified ==
    /\ limited => \E s \in Streams : capture[s] \in {"cut", "broken"}
    /\ call = "idle" => ~limited /\ \A s \in Streams : capture[s] = "none"

Chosen ==
    call = "joining" =>
        /\ result.feedback \in {"normal", "timeout", "limit"}
        /\ result.feedback = "timeout" => shell.status = "killed" /\ result.code = -1
        /\ result.feedback = "normal" => shell.status = "exited" /\ result.code = shell.code
        /\ result.feedback = "limit" => limited /\ result.code = -1

Collected ==
    call = "returned" /\ result.feedback # "error" =>
        \A s \in Streams : capture[s] \in {"eof", "cut"}

BashInv == BashTypeOK /\ Captured /\ Notified /\ Chosen /\ Collected /\ BashTellsTruth

\* What a call that fails returns.
LEMMA FailureTyped ==
    /\ Failure.feedback = "error"
    /\ Failure \in [feedback : {"none", "error", "normal", "timeout", "limit"},
                   code : {-1, 0, 1}, shown : [Streams -> 0..Truncate],
                   truncated : [Streams -> BOOLEAN]]
<1>1. NoResult \in [feedback : {"none", "error", "normal", "timeout", "limit"},
                   code : {-1, 0, 1}, shown : [Streams -> 0..Truncate],
                   truncated : [Streams -> BOOLEAN]]
  <2>1. [s \in Streams |-> 0] \in [Streams -> 0..Truncate]
    BY Limits
  <2> QED
    BY <2>1 DEF NoResult
<1> QED
  BY <1>1 DEF Failure

\* The types are kept.
LEMMA BashTypesKept == BashTypeOK /\ Captured /\ [BashNext]_bashVars => BashTypeOK'
<1> SUFFICES ASSUME BashTypeOK, Captured, [BashNext]_bashVars PROVE BashTypeOK'
  OBVIOUS
<1> USE BashToolAssumption, Limits DEF BashTypeOK
<1>1. CASE Spawn \/ SpawnFails
  BY <1>1, FailureTyped DEF Spawn, SpawnFails
<1>2. CASE LeaveBehind \/ HeirEnds \/ Exit
  <2>1. CASE Exit
    <3>1. shell' \in [status : {"none", "running", "exited", "killed"}, code : {-1, 0, 1}]
      BY <2>1 DEF Exit
    <3> QED
      BY <2>1, <3>1 DEF Exit
  <2> QED
    BY <1>2, <2>1 DEF LeaveBehind, HeirEnds
<1>3. ASSUME NEW s \in Streams, Write(s) PROVE BashTypeOK'
  BY <1>3 DEF Write
<1>4. ASSUME NEW s \in Streams, Break(s) \/ EndOfFile(s) PROVE BashTypeOK'
  BY <1>4 DEF Break, EndOfFile
<1>5. ASSUME NEW s \in Streams, Read(s) PROVE BashTypeOK'
  <2>1. taken[s] <= written[s]
    BY DEF Captured
  <2>2. /\ taken'[s] \in 0..HardBytes
        /\ taken' = [taken EXCEPT ![s] = taken'[s]]
    BY <1>5, <2>1, ReadAccepts
  <2>3. taken' \in [Streams -> 0..HardBytes]
    BY <2>2
  <2>4. UNCHANGED <<call, shell, heir, written, result>>
    BY <1>5 DEF Read
  <2>5. limited' \in BOOLEAN /\ capture' \in [Streams -> {"none", "reading", "eof", "cut", "broken"}]
    BY <1>5 DEF Read
  <2> QED
    BY <2>3, <2>4, <2>5
<1>6. CASE WaitDone \/ TimeOut \/ LimitHit
  <2>1. CASE WaitDone
    BY <2>1 DEF WaitDone, Selected
  <2>2. CASE TimeOut
    BY <2>2 DEF TimeOut, Kill, Selected
  <2>3. CASE LimitHit
    BY <2>3 DEF LimitHit, Kill, Selected
  <2> QED
    BY <1>6, <2>1, <2>2, <2>3
<1>7. CASE Join
  <2>1. \A s \in Streams : Shown(taken[s]) \in 0..Truncate
    BY ShownBounded
  <2>2. [s \in Streams |-> Shown(taken[s])] \in [Streams -> 0..Truncate]
    BY <2>1
  <2>3. result' \in [feedback : {"none", "error", "normal", "timeout", "limit"},
                   code : {-1, 0, 1}, shown : [Streams -> 0..Truncate],
                   truncated : [Streams -> BOOLEAN]]
    BY <1>7, <2>2 DEF Join
  <2> QED
    BY <1>7, <2>3 DEF Join
<1>8. CASE JoinFails \/ WaitFails
  BY <1>8, FailureTyped DEF JoinFails, WaitFails
<1>9. CASE UNCHANGED bashVars
  BY <1>9 DEF bashVars
<1> QED
  BY <1>1, <1>2, <1>3, <1>4, <1>5, <1>6, <1>7, <1>8, <1>9
  DEF BashNext, Capture, Caller

\* What is known of the streams stays known: a writer that is gone does not
\* come back, and a cut stream is not read on.
LEMMA CapturedKept ==
    BashTypeOK /\ Captured /\ Notified /\ [BashNext]_bashVars => Captured' /\ Notified'
<1> SUFFICES ASSUME BashTypeOK, Captured, Notified, [BashNext]_bashVars
             PROVE  Captured' /\ Notified'
  OBVIOUS
<1> USE BashToolAssumption, Limits DEF BashTypeOK, Captured, Notified
<1>1. CASE Spawn \/ SpawnFails
  BY <1>1 DEF Spawn, SpawnFails
<1>2. CASE LeaveBehind \/ HeirEnds \/ Exit
  BY <1>2 DEF LeaveBehind, HeirEnds, Exit
<1>3. ASSUME NEW s \in Streams, Write(s) PROVE Captured' /\ Notified'
  BY <1>3 DEF Write
<1>4. ASSUME NEW s \in Streams, Break(s) \/ EndOfFile(s) PROVE Captured' /\ Notified'
  BY <1>4 DEF Break, EndOfFile
<1>5. ASSUME NEW s \in Streams, Read(s) PROVE Captured' /\ Notified'
  <2>1. taken[s] <= written[s]
    OBVIOUS
  <2>2. /\ taken'[s] \in 0..HardBytes /\ taken'[s] <= written[s]
        /\ taken' = [taken EXCEPT ![s] = taken'[s]]
        /\ capture'[s] = "cut" => taken'[s] = HardBytes /\ taken'[s] < written[s]
        /\ \/ capture' = [capture EXCEPT ![s] = "cut"]
           \/ capture' = capture /\ limited' = limited
    BY <1>5, <2>1, ReadAccepts
  <2>3. UNCHANGED <<call, shell, heir, written, result>> /\ capture[s] = "reading"
    BY <1>5 DEF Read
  <2>4. Notified'
    BY <2>2, <2>3
  <2>5. \A t \in Streams \ {s} : taken'[t] = taken[t] /\ capture'[t] = capture[t]
    BY <2>2
  <2>6. capture'[s] # "eof"
    BY <2>2, <2>3
  <2>7. Captured'
    BY <2>2, <2>3, <2>5, <2>6
  <2> QED
    BY <2>4, <2>7
<1>6. CASE WaitDone \/ TimeOut \/ LimitHit
  <2>1. CASE WaitDone
    BY <2>1 DEF WaitDone, Selected
  <2>2. CASE TimeOut
    BY <2>2 DEF TimeOut, Kill, Selected
  <2>3. CASE LimitHit
    BY <2>3 DEF LimitHit, Kill, Selected
  <2> QED
    BY <1>6, <2>1, <2>2, <2>3
<1>7. CASE Join \/ JoinFails \/ WaitFails
  BY <1>7 DEF Join, JoinFails, WaitFails
<1>8. CASE UNCHANGED bashVars
  BY <1>8 DEF bashVars
<1> QED
  BY <1>1, <1>2, <1>3, <1>4, <1>5, <1>6, <1>7, <1>8
  DEF BashNext, Capture, Caller

\* The branch of the select is remembered, and it stays right: the shell is
\* gone or told to, and nobody changes what the call has returned.
LEMMA ChosenKept ==
    BashInv /\ [BashNext]_bashVars => Chosen' /\ Collected'
<1> SUFFICES ASSUME BashInv, [BashNext]_bashVars PROVE Chosen' /\ Collected'
  OBVIOUS
<1> USE DEF BashInv, BashTypeOK, Chosen, Collected
<1>1. CASE Spawn \/ SpawnFails
  BY <1>1, FailureTyped DEF Spawn, SpawnFails
<1>2. CASE LeaveBehind \/ HeirEnds \/ Exit
  BY <1>2 DEF LeaveBehind, HeirEnds, Exit
<1>3. ASSUME NEW s \in Streams, Write(s) \/ Break(s) \/ EndOfFile(s)
      PROVE Chosen' /\ Collected'
  BY <1>3 DEF Write, Break, EndOfFile
<1>4. ASSUME NEW s \in Streams, Read(s) PROVE Chosen' /\ Collected'
  <2>1. UNCHANGED <<call, shell, heir, written, result>> /\ capture[s] = "reading"
    BY <1>4 DEF Read
  <2>2. limited => limited'
    BY <1>4 DEF Read
  <2>3. \A t \in Streams \ {s} : capture'[t] = capture[t]
    BY <1>4 DEF Read
  <2> QED
    BY <2>1, <2>2, <2>3
<1>5. CASE WaitDone \/ TimeOut \/ LimitHit
  <2>1. CASE WaitDone
    BY <2>1 DEF WaitDone, Selected
  <2>2. CASE TimeOut
    BY <2>2 DEF TimeOut, Kill, Selected
  <2>3. CASE LimitHit
    BY <2>3 DEF LimitHit, Kill, Selected
  <2> QED
    BY <1>5, <2>1, <2>2, <2>3
<1>6. CASE Join
  BY <1>6 DEF Join
<1>7. CASE JoinFails \/ WaitFails
  BY <1>7, FailureTyped DEF JoinFails, WaitFails
<1>8. CASE UNCHANGED bashVars
  BY <1>8 DEF bashVars
<1> QED
  BY <1>1, <1>2, <1>3, <1>4, <1>5, <1>6, <1>7, <1>8
  DEF BashNext, Capture, Caller

\* A result that is made is true, ...
LEMMA ResultTrue == BashInv /\ Join => BashTellsTruth'
<1> SUFFICES ASSUME BashInv, Join PROVE BashTellsTruth'
  OBVIOUS
<1> DEFINE exceeded == \E s \in Streams : capture[s] = "cut"
<1>1. /\ UNCHANGED <<shell, heir, written, taken, capture, limited>>
      /\ \A s \in Streams : capture[s] \in {"eof", "cut"}
      /\ result'.feedback = (IF exceeded THEN "limit" ELSE result.feedback)
      /\ result'.code = (IF exceeded THEN -1 ELSE result.code)
      /\ \A s \in Streams : result'.shown[s] = Shown(taken[s])
      /\ \A s \in Streams : result'.truncated[s] <=>
                                (capture[s] = "cut" \/ Shown(taken[s]) # taken[s])
      /\ call = "joining"
  BY DEF Join
<1>2. \A s \in Streams : /\ taken[s] \in Nat /\ written[s] \in Nat /\ taken[s] <= written[s]
                         /\ Shown(taken[s]) <= taken[s] /\ Shown(taken[s]) \in Nat
                         /\ capture[s] = "cut" => taken[s] < written[s]
                         /\ capture[s] = "eof" => taken[s] = written[s]
  BY Limits, BashToolAssumption, ShownBounded DEF BashInv, BashTypeOK, Captured
<1>3. \A s \in Streams : IF result'.truncated[s] THEN result'.shown[s] < written'[s]
                         ELSE result'.shown[s] = written'[s]
  <2> SUFFICES ASSUME NEW s \in Streams
               PROVE IF result'.truncated[s] THEN result'.shown[s] < written'[s]
                     ELSE result'.shown[s] = written'[s]
    OBVIOUS
  <2>1. result'.shown[s] = Shown(taken[s]) /\ written'[s] = written[s]
    BY <1>1
  <2>2. ASSUME capture[s] = "cut" PROVE result'.truncated[s] /\ Shown(taken[s]) < written[s]
    BY <1>1, <1>2, <2>2
  <2>3. ASSUME capture[s] = "eof", Shown(taken[s]) # taken[s]
        PROVE result'.truncated[s] /\ Shown(taken[s]) < written[s]
    BY <1>1, <1>2, <2>3
  <2>4. ASSUME capture[s] = "eof", Shown(taken[s]) = taken[s]
        PROVE ~result'.truncated[s] /\ Shown(taken[s]) = written[s]
    BY <1>1, <1>2, <2>4
  <2> QED
    BY <1>1, <2>1, <2>2, <2>3, <2>4
<1>4. exceeded <=> \E s \in Streams : written'[s] > taken'[s]
  BY <1>1, <1>2
<1>5. result.feedback = "limit" => exceeded
  BY <1>1 DEF BashInv, Chosen, Notified
<1>6. result'.feedback = "limit" <=> \E s \in Streams : written'[s] > taken'[s]
  BY <1>1, <1>4, <1>5
<1>7. /\ result'.feedback = "timeout" => shell'.status = "killed"
      /\ result'.feedback = "normal" => shell'.status = "exited"
  BY <1>1 DEF BashInv, Chosen
<1>8. result'.code # -1 => result'.feedback = "normal" /\ result'.code = shell'.code
  BY <1>1 DEF BashInv, Chosen
<1> QED
  BY <1>3, <1>6, <1>7, <1>8 DEF BashTellsTruth

\* ... and stays true: what was read to its end is not written again.
LEMMA ResultStays == BashInv /\ [BashNext]_bashVars => BashTellsTruth'
<1> SUFFICES ASSUME BashInv, [BashNext]_bashVars PROVE BashTellsTruth'
  OBVIOUS
<1>1. CASE Join
  BY <1>1, ResultTrue
<1>2. CASE Spawn \/ SpawnFails
  BY <1>2, FailureTyped DEF Spawn, SpawnFails, BashTellsTruth
<1>3. CASE LeaveBehind \/ HeirEnds
  BY <1>3 DEF LeaveBehind, HeirEnds, BashInv, BashTellsTruth
<1>4. CASE Exit
  BY <1>4 DEF Exit, BashInv, BashTellsTruth, BashTypeOK
<1>5. ASSUME NEW s \in Streams, Write(s) \/ Read(s) \/ EndOfFile(s) \/ Break(s)
      PROVE BashTellsTruth'
  <2>1. call' = call /\ result' = result /\ shell' = shell
    BY <1>5 DEF Write, Read, EndOfFile, Break
  <2>2. SUFFICES ASSUME call = "returned", result.feedback # "error" PROVE FALSE
    BY <1>5, <2>1 DEF BashTellsTruth
  <2> QED
    BY <1>5, <2>2 DEF Write, Read, EndOfFile, Break, BashInv, Captured, Collected
<1>6. CASE WaitDone \/ TimeOut \/ LimitHit
  BY <1>6 DEF WaitDone, TimeOut, LimitHit, Selected, BashTellsTruth
<1>7. CASE JoinFails \/ WaitFails
  BY <1>7, FailureTyped DEF JoinFails, WaitFails, BashTellsTruth
<1>8. CASE UNCHANGED bashVars
  BY <1>8 DEF bashVars, BashInv, BashTellsTruth
<1> QED
  BY <1>1, <1>2, <1>3, <1>4, <1>5, <1>6, <1>7, <1>8
  DEF BashNext, Capture, Caller

\* The invariant, of which types are the first part.
LEMMA BashInvariant == BashSpec => []BashInv
<1>1. BashInit => BashInv
  <2> SUFFICES ASSUME BashInit PROVE BashInv
    OBVIOUS
  <2>1. BashTypeOK
    <3>1. [s \in Streams |-> 0] \in [Streams -> 0..Truncate]
      BY Limits
    <3>2. [s \in Streams |-> 0] \in [Streams -> 0..HardBytes]
      BY Limits
    <3>3. [s \in Streams |-> 0] \in [Streams -> 0..MaxOutput]
      BY BashToolAssumption
    <3> QED
      BY <3>1, <3>2, <3>3 DEF BashInit, BashTypeOK, NoResult
  <2>2. Captured /\ Notified /\ Chosen /\ Collected /\ BashTellsTruth
    BY DEF BashInit, Captured, Notified, Chosen, Collected, BashTellsTruth
  <2> QED
    BY <2>1, <2>2 DEF BashInv
<1>2. BashInv /\ [BashNext]_bashVars => BashInv'
  BY BashTypesKept, CapturedKept, ChosenKept, ResultStays DEF BashInv
<1> QED
  BY <1>1, <1>2, PTL DEF BashSpec

\* The result of a call says what happened to the shell and to its output,
\* whatever the limits are and whoever writes.
THEOREM ResultIsTrue == BashSpec => []BashTellsTruth
<1>1. BashInv => BashTellsTruth
  BY DEF BashInv
<1> QED
  BY <1>1, BashInvariant, PTL
==========================================================================
