----------------------------- MODULE BashTool -----------------------------
(***************************************************************************)
(* One call of the bash tool (runtime/tools.rs, tools/bash_stream.rs): the  *)
(* shell, a process it may leave behind with its pipes, the two tasks that  *)
(* capture them, and the select between the shell, the timeout and the      *)
(* output limit.  A byte stands for a character.                            *)
(***************************************************************************)
EXTENDS Integers

CONSTANTS
    ConfiguredBytes,  \* bash_output_hard_bytes of the configuration
    ConfiguredChars,  \* bash_output_truncate_chars of the configuration
    DefaultBytes,     \* DEFAULT_BASH_OUTPUT_HARD_BYTES
    DefaultChars,     \* DEFAULT_BASH_OUTPUT_TRUNCATE_CHARS
    MaxOutput         \* bound: bytes written to a stream

ASSUME BashToolAssumption ==
    /\ ConfiguredBytes \in Nat /\ ConfiguredChars \in Nat
    /\ DefaultBytes \in Nat \ {0} /\ DefaultChars \in Nat \ {0}
    /\ MaxOutput \in Nat

\* Zero stands for the default.
NonzeroOrDefault(value, default) == IF value = 0 THEN default ELSE value

\* Characters of a stream that the result shows.
Truncate == NonzeroOrDefault(ConfiguredChars, DefaultChars)

\* normalized_hard_bytes: what a capture task accepts is never less than what
\* the result may show.
HardBytes ==
    LET bytes == NonzeroOrDefault(ConfiguredBytes, DefaultBytes) IN
    IF bytes < Truncate THEN Truncate ELSE bytes

VARIABLES
    call,     \* the progress of the call
    shell,    \* the /bin/bash process
    heir,     \* whether a process it started still holds the pipes
    written,  \* bytes written to each pipe
    taken,    \* bytes its task has accepted
    capture,  \* what each task does
    limited,  \* whether limit_sender was used
    result    \* BashToolResultEnvelope, or the error of bash()

bashVars == <<call, shell, heir, written, taken, capture, limited, result>>

Streams == {"stdout", "stderr"}
Shown(n) == IF n < Truncate THEN n ELSE Truncate

NoResult == [feedback |-> "none", code |-> -1, shown |-> [s \in Streams |-> 0],
             truncated |-> [s \in Streams |-> FALSE]]
Failure == [NoResult EXCEPT !.feedback = "error"]

BashTypeOK ==
    /\ call \in {"idle", "selecting", "joining", "returned"}
    /\ shell \in [status : {"none", "running", "exited", "killed"}, code : {-1, 0, 1}]
    /\ heir \in BOOLEAN
    /\ written \in [Streams -> 0..MaxOutput] /\ taken \in [Streams -> 0..HardBytes]
    /\ capture \in [Streams -> {"none", "reading", "eof", "cut", "broken"}]
    /\ limited \in BOOLEAN
    /\ result \in [feedback : {"none", "error", "normal", "timeout", "limit"},
                   code : {-1, 0, 1}, shown : [Streams -> 0..Truncate],
                   truncated : [Streams -> BOOLEAN]]

BashInit ==
    /\ call = "idle"
    /\ shell = [status |-> "none", code |-> -1]
    /\ heir = FALSE
    /\ written = [s \in Streams |-> 0]
    /\ taken = [s \in Streams |-> 0]
    /\ capture = [s \in Streams |-> "none"]
    /\ limited = FALSE
    /\ result = NoResult

\* The directories are made, the shell and the two tasks started.
Spawn ==
    /\ call = "idle"
    /\ call' = "selecting"
    /\ shell' = [status |-> "running", code |-> -1]
    /\ capture' = [s \in Streams |-> "reading"]
    /\ UNCHANGED <<heir, written, taken, limited, result>>

\* The arguments do not parse, or a directory or the shell cannot be had: the
\* error becomes a failed result for the model.  The directory of the artifacts
\* is made when the shell runs already, and its failure leaves it running, with
\* pipes that nobody reads.
SpawnFails ==
    /\ call = "idle"
    /\ call' = "returned"
    /\ result' = Failure
    /\ \/ UNCHANGED <<shell, capture>>
       \/ /\ shell' = [status |-> "running", code |-> -1]
          /\ capture' = [s \in Streams |-> "broken"]
    /\ UNCHANGED <<heir, written, taken, limited>>

---------------------------------------------------------------------------
(* The processes.                                                          *)

\* Someone writes; a write to a pipe whose task has left is an error there.
Write(s) ==
    /\ shell.status = "running" \/ heir
    /\ capture[s] \notin {"cut", "broken"} /\ written[s] < MaxOutput
    /\ written' = [written EXCEPT ![s] = @ + 1]
    /\ UNCHANGED <<call, shell, heir, taken, capture, limited, result>>

\* The shell leaves a process in the background.
LeaveBehind ==
    /\ shell.status = "running" /\ ~heir
    /\ heir' = TRUE
    /\ UNCHANGED <<call, shell, written, taken, capture, limited, result>>

HeirEnds ==
    /\ heir
    /\ heir' = FALSE
    /\ UNCHANGED <<call, shell, written, taken, capture, limited, result>>

\* The shell exits; without a code if a signal ended it.
Exit ==
    /\ shell.status = "running"
    /\ \E code \in {-1, 0, 1} : shell' = [status |-> "exited", code |-> code]
    /\ UNCHANGED <<call, heir, written, taken, capture, limited, result>>

---------------------------------------------------------------------------
(* The capture tasks.                                                      *)

\* One read: what is beyond the hard limit is not kept and ends the task.
Read(s) ==
    /\ capture[s] = "reading"
    /\ \E n \in 1..(written[s] - taken[s]) :
        LET remaining == HardBytes - taken[s]
            accepted == IF n < remaining THEN n ELSE remaining IN
        /\ taken' = [taken EXCEPT ![s] = @ + accepted]
        /\ IF accepted < n
           THEN capture' = [capture EXCEPT ![s] = "cut"] /\ limited' = TRUE
           ELSE UNCHANGED <<capture, limited>>
    /\ UNCHANGED <<call, shell, heir, written, result>>

\* Mutant: the task ends with the shell, whoever else holds the pipe.
MutantEndOfFile(s) ==
    /\ capture[s] = "reading" /\ taken[s] = written[s]
    /\ shell.status # "running"
    /\ capture' = [capture EXCEPT ![s] = "eof"]
    /\ UNCHANGED <<call, shell, heir, written, taken, limited, result>>

\* Every writer has closed the pipe and it is empty.
EndOfFile(s) ==
    /\ capture[s] = "reading" /\ taken[s] = written[s]
    /\ shell.status # "running" /\ ~heir
    /\ capture' = [capture EXCEPT ![s] = "eof"]
    /\ UNCHANGED <<call, shell, heir, written, taken, limited, result>>

\* The artifact cannot be created or written, or not flushed after a cut; both
\* tasks have ended when the call has their output.
Break(s) ==
    /\ capture[s] \in {"reading", "cut"}
    /\ call = "returned" => result.feedback = "error"
    /\ capture' = [capture EXCEPT ![s] = "broken"]
    /\ UNCHANGED <<call, shell, heir, written, taken, limited, result>>

---------------------------------------------------------------------------
(* The call.                                                               *)

\* What the branch of the select leaves for the end.
Selected(feedback, code) ==
    /\ call' = "joining"
    /\ result' = [result EXCEPT !.feedback = feedback, !.code = code]

Kill == shell' = IF shell.status = "running" THEN [shell EXCEPT !.status = "killed"]
                 ELSE shell

WaitDone ==
    /\ call = "selecting" /\ shell.status = "exited"
    /\ Selected("normal", shell.code)
    /\ UNCHANGED <<shell, heir, written, taken, capture, limited>>

\* The wait for the shell is an error: the call leaves the shell and the tasks.
WaitFails ==
    /\ call = "selecting"
    /\ call' = "returned"
    /\ result' = Failure
    /\ UNCHANGED <<shell, heir, written, taken, capture, limited>>

\* The wait is polled before the clock, so that a shell that exited did.
TimeOut ==
    /\ call = "selecting" /\ shell.status = "running"
    /\ Kill
    /\ Selected("timeout", -1)
    /\ UNCHANGED <<heir, written, taken, capture, limited>>

\* Mutant: the shell is left alone.
MutantLimitHit ==
    /\ call = "selecting" /\ limited
    /\ Selected("limit", -1)
    /\ UNCHANGED <<shell, heir, written, taken, capture, limited>>

LimitHit ==
    /\ call = "selecting" /\ limited
    /\ Kill
    /\ Selected("limit", -1)
    /\ UNCHANGED <<heir, written, taken, capture, limited>>

\* Both tasks ended: a limit that was exceeded overrides what the select saw.
Join ==
    /\ call = "joining"
    /\ \A s \in Streams : capture[s] \in {"eof", "cut"}
    /\ LET exceeded == \E s \in Streams : capture[s] = "cut" IN
       result' = [feedback |-> IF exceeded THEN "limit" ELSE result.feedback,
                  code |-> IF exceeded THEN -1 ELSE result.code,
                  shown |-> [s \in Streams |-> Shown(taken[s])],
                  truncated |-> [s \in Streams |->
                      capture[s] = "cut" \/ Shown(taken[s]) # taken[s]]]
    /\ call' = "returned"
    /\ UNCHANGED <<shell, heir, written, taken, capture, limited>>

\* A task that failed fails the call; that of stderr is looked at second.
JoinFails ==
    /\ call = "joining"
    /\ \/ capture["stdout"] = "broken"
       \/ capture["stdout"] \in {"eof", "cut"} /\ capture["stderr"] = "broken"
    /\ result' = Failure
    /\ call' = "returned"
    /\ UNCHANGED <<shell, heir, written, taken, capture, limited>>

Capture == \E s \in Streams : Read(s) \/ EndOfFile(s)
Caller == WaitDone \/ WaitFails \/ TimeOut \/ LimitHit \/ Join \/ JoinFails

BashNext ==
    \/ Spawn \/ SpawnFails \/ LeaveBehind \/ HeirEnds \/ Exit
    \/ \E s \in Streams : Write(s) \/ Break(s)
    \/ Capture \/ Caller

BashSpec == BashInit /\ [][BashNext]_bashVars

\* The tasks and the call do what they can, and the clock runs out.  Nothing is
\* assumed of the processes.
BashFairness == WF_bashVars(Capture) /\ WF_bashVars(Caller)

BashLiveSpec == BashSpec /\ BashFairness

---------------------------------------------------------------------------

\* The result of a call says what happened: output that is not marked as
\* truncated is all that was ever written; an exit code is that of a shell
\* that ended by itself with no stream cut; the feedback tells a limit from a
\* timeout, whichever the select saw first (tools.rs:306, bash_stream.rs:38).
BashTellsTruth ==
    call = "returned" /\ result.feedback # "error" =>
        /\ \A s \in Streams :
            IF result.truncated[s] THEN result.shown[s] < written[s]
            ELSE result.shown[s] = written[s]
        /\ result.feedback = "limit" <=> \E s \in Streams : written[s] > taken[s]
        /\ result.feedback = "timeout" => shell.status = "killed"
        /\ result.feedback = "normal" => shell.status = "exited"
        /\ result.code # -1 => result.feedback = "normal" /\ result.code = shell.code

\* A call of bash returns although its shell never ends by itself and although
\* writers never stop: a timeout or a limit ends the shell, a stream that was cut
\* is not waited for (tools.rs:277, :298).  What may keep it is a process that
\* outlives the shell and never lets go of its pipes.
BashReturns == []<>~heir => (call = "selecting" ~> call = "returned")

\* docs/contracts/data-model/session-message-model.md:262: a timeout and a hard
\* output limit end in a tool result that says so.  Nothing brings that about: a
\* process that the killed shell leaves behind keeps the pipes, and the tasks
\* that read them are joined without a timeout (tools.rs:317).
FallbackIsReported ==
    call = "joining" /\ result.feedback \in {"timeout", "limit"} ~> call = "returned"
==========================================================================
