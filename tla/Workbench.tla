----------------------------- MODULE Workbench -----------------------------
(***************************************************************************)
(* The local workbench server: admission of POST /api/run and the life of  *)
(* one run.                                                                *)
(*                                                                         *)
(* Every connection has a thread of its own (lib.rs).  A run request that  *)
(* passes validation takes the single "active" flag or is refused; the     *)
(* thread that holds it compiles the source, starts the program and polls  *)
(* it (run.rs), while one thread per output stream captures what the       *)
(* program writes and another feeds its standard input.  The program       *)
(* itself is arbitrary: it writes, reads, exits, or does none of these     *)
(* for ever.                                                               *)
(*                                                                         *)
(* Output is counted in units: "Limit" of them are captured per stream     *)
(* (MAX_STDOUT, MAX_STDERR) and "Pipe" of them fit in a pipe.  The program *)
(* writes at most MaxOutput of them to a stream, which bounds the model    *)
(* and not the code.                                                       *)
(***************************************************************************)
EXTENDS Integers, FiniteSets

CONSTANTS
    Conns,      \* connections, each with its thread
    Limit,      \* units captured per stream
    Pipe,       \* units a pipe holds
    Input,      \* units of standard input in a request
    MaxOutput   \* bound: units the program writes to one stream

ASSUME WorkbenchAssumption ==
    /\ Limit \in Nat /\ Input \in Nat /\ MaxOutput \in Nat
    /\ Pipe \in Nat \ {0}

Streams == {"stdout", "stderr"}

VARIABLES
    active,  \* Shared.active
    stage,   \* what a connection's own thread does next
    child,   \* the program of its run
    pipe,    \* units written to a stream and not read yet
    stdin,   \* units of input: [queued: not written yet, piped: written, not read]
    feeding, \* the thread writing standard input has not ended
    capture, \* per stream: [kept, truncated, done, failed] of its capture thread
    written, \* units the program has written to a stream
    late,    \* MAX_EXECUTION has elapsed
    status   \* execution.status, as decided so far

vars == <<active, stage, child, pipe, stdin, feeding, capture, written, late, status>>
running == <<child, pipe, stdin, feeding, capture, written, late>>

Stages == {"reading", "compiling", "spawning", "limits", "waiting", "killing",
           "joining", "reporting", "responding", "closed"}

Status == {"none", "compile-failed", "exited", "timed-out", "output-limit", "failed-to-start"}

TypeOK ==
    /\ active \in BOOLEAN
    /\ stage \in [Conns -> Stages]
    /\ child \in [Conns -> {"none", "running", "exited", "killed"}]
    /\ pipe \in [Conns -> [Streams -> 0..Pipe]]
    /\ stdin \in [Conns -> [queued : 0..Input, piped : 0..Pipe]]
    /\ feeding \in [Conns -> BOOLEAN]
    /\ capture \in [Conns -> [Streams ->
          [kept : 0..Limit, truncated : BOOLEAN, done : BOOLEAN, failed : BOOLEAN]]]
    /\ written \in [Conns -> [Streams -> Nat]]
    /\ late \in [Conns -> BOOLEAN]
    /\ status \in [Conns -> Status]

Idle == [kept |-> 0, truncated |-> FALSE, done |-> TRUE, failed |-> FALSE]

Init ==
    /\ active = FALSE
    /\ stage = [c \in Conns |-> "reading"]
    /\ child = [c \in Conns |-> "none"]
    /\ pipe = [c \in Conns |-> [s \in Streams |-> 0]]
    /\ stdin = [c \in Conns |-> [queued |-> 0, piped |-> 0]]
    /\ feeding = [c \in Conns |-> FALSE]
    /\ capture = [c \in Conns |-> [s \in Streams |-> Idle]]
    /\ written = [c \in Conns |-> [s \in Streams |-> 0]]
    /\ late = [c \in Conns |-> FALSE]
    /\ status = [c \in Conns |-> "none"]

Goto(c, s) == stage' = [stage EXCEPT ![c] = s]

----------------------------------------------------------------------------
(* handle_connection.                                                       *)

\* A request that is refused by validation, or that asks for a page: it is
\* answered without looking at the flag.
Answer(c) ==
    /\ stage[c] = "reading"
    /\ Goto(c, "closed")
    /\ UNCHANGED <<active, running, status>>

\* A valid run request while another run is active: 429.
Refuse(c) ==
    /\ stage[c] = "reading"
    /\ active
    /\ Goto(c, "closed")
    /\ UNCHANGED <<active, running, status>>

\* Mutation: the guard is a temporary, dropped where it is built.
AdmitUnguarded(c) ==
    /\ stage[c] = "reading"
    /\ ~active
    /\ Goto(c, "compiling")
    /\ UNCHANGED <<active, running, status>>

\* compare_exchange(false, true): the guard lives until the response is written.
Admit(c) ==
    /\ stage[c] = "reading"
    /\ ~active
    /\ active' = TRUE
    /\ Goto(c, "compiling")
    /\ UNCHANGED <<running, status>>

\* snacc_driver::build: an in-process call that ends.
CompileFails(c) ==
    /\ stage[c] = "compiling"
    /\ status' = [status EXCEPT ![c] = "compile-failed"]
    /\ Goto(c, "responding")
    /\ UNCHANGED <<active, running>>

Compile(c) ==
    /\ stage[c] = "compiling"
    /\ Goto(c, "spawning")
    /\ UNCHANGED <<active, running, status>>

\* write_response, however it ends, the drop of BusyGuard, and with the thread
\* the end of everything local to the run.
Respond(c) ==
    /\ stage[c] = "responding"
    /\ active' = FALSE
    /\ Goto(c, "closed")
    /\ child' = [child EXCEPT ![c] = "none"]
    /\ pipe' = [pipe EXCEPT ![c] = [s \in Streams |-> 0]]
    /\ stdin' = [stdin EXCEPT ![c] = [queued |-> 0, piped |-> 0]]
    /\ feeding' = [feeding EXCEPT ![c] = FALSE]
    /\ capture' = [capture EXCEPT ![c] = [s \in Streams |-> Idle]]
    /\ written' = [written EXCEPT ![c] = [s \in Streams |-> 0]]
    /\ late' = [late EXCEPT ![c] = FALSE]
    /\ status' = [status EXCEPT ![c] = "none"]

----------------------------------------------------------------------------
(* run_process: the connection's thread.                                    *)

SpawnFails(c) ==
    /\ stage[c] = "spawning"
    /\ status' = [status EXCEPT ![c] = "failed-to-start"]
    /\ Goto(c, "responding")
    /\ UNCHANGED <<active, running>>

Spawn(c) ==
    /\ stage[c] = "spawning"
    /\ child' = [child EXCEPT ![c] = "running"]
    /\ stdin' = [stdin EXCEPT ![c].queued = Input]
    /\ feeding' = [feeding EXCEPT ![c] = TRUE]
    /\ capture' = [capture EXCEPT ![c] = [s \in Streams |-> [Idle EXCEPT !.done = FALSE]]]
    /\ status' = [status EXCEPT ![c] = "exited"]
    /\ Goto(c, "limits")
    /\ UNCHANGED <<active, pipe, written, late>>

\* The top of the polling loop.
CheckLimits(c) ==
    /\ stage[c] = "limits"
    /\ IF \E s \in Streams : capture[c][s].truncated
       THEN /\ status' = [status EXCEPT ![c] = "output-limit"]
            /\ Goto(c, "killing")
       ELSE /\ Goto(c, "waiting")
            /\ UNCHANGED status
    /\ UNCHANGED <<active, running>>

\* try_wait and, when the program still runs, the elapsed time.
TryWait(c) ==
    /\ stage[c] = "waiting"
    /\ \/ /\ child[c] # "running"
          /\ Goto(c, "joining")
          /\ UNCHANGED status
       \/ /\ child[c] = "running" /\ late[c]
          /\ status' = [status EXCEPT ![c] = "timed-out"]
          /\ Goto(c, "killing")
       \/ /\ child[c] = "running" /\ ~late[c]
          /\ Goto(c, "limits")
          /\ UNCHANGED status
    /\ UNCHANGED <<active, running>>

\* try_wait itself reports an error.
TryWaitFails(c) ==
    /\ stage[c] = "waiting"
    /\ status' = [status EXCEPT ![c] = "failed-to-start"]
    /\ Goto(c, "killing")
    /\ UNCHANGED <<active, running>>

\* Mutation: the program is left to end by itself.
WaitWithoutKill(c) ==
    /\ stage[c] = "killing"
    /\ child[c] # "running"
    /\ Goto(c, "joining")
    /\ UNCHANGED <<active, running, status>>

\* kill and wait: the program may have ended by itself just before.
KillAndWait(c) ==
    /\ stage[c] = "killing"
    /\ child' = [child EXCEPT ![c] = IF @ = "running" THEN "killed" ELSE @]
    /\ Goto(c, "joining")
    /\ UNCHANGED <<active, pipe, stdin, feeding, capture, written, late, status>>

\* Mutations: the capture threads, or the thread feeding input, are not joined.
JoinInputOnly(c) ==
    /\ stage[c] = "joining"
    /\ ~feeding[c]
    /\ Goto(c, "reporting")
    /\ UNCHANGED <<active, running, status>>

JoinOutputOnly(c) ==
    /\ stage[c] = "joining"
    /\ \A s \in Streams : capture[c][s].done
    /\ Goto(c, "reporting")
    /\ UNCHANGED <<active, running, status>>

Join(c) ==
    /\ stage[c] = "joining"
    /\ ~feeding[c] /\ \A s \in Streams : capture[c][s].done
    /\ Goto(c, "reporting")
    /\ UNCHANGED <<active, running, status>>

\* Mutation: a program that ended before the limit was seen has "exited".
FinalStatusAsPolled(c) == status[c]

FinalStatus(c) ==
    IF status[c] = "exited" /\ \E s \in Streams : capture[c][s].truncated
    THEN "output-limit" ELSE status[c]

Report(c) ==
    /\ stage[c] = "reporting"
    /\ status' = [status EXCEPT ![c] = FinalStatus(c)]
    /\ Goto(c, "responding")
    /\ UNCHANGED <<active, running>>

----------------------------------------------------------------------------
(* The other threads of a run.                                              *)

Lesser(m, n) == IF m < n THEN m ELSE n

\* Mutation: the last read is kept whole.
CaptureWhole(c, s) ==
    /\ ~capture[c][s].done
    /\ \E n \in 1..pipe[c][s] :
         LET keep == IF capture[c][s].kept < Limit THEN n ELSE 0
         IN  /\ pipe' = [pipe EXCEPT ![c][s] = @ - n]
             /\ capture' = [capture EXCEPT ![c][s].kept = @ + keep,
                                           ![c][s].truncated = @ \/ keep < n]
    /\ UNCHANGED <<active, stage, child, stdin, feeding, written, late, status>>

\* capture_stream reads what is there; beyond the limit it only drains.
Capture(c, s) ==
    /\ ~capture[c][s].done
    /\ \E n \in 1..pipe[c][s] :
         LET keep == Lesser(n, Limit - capture[c][s].kept)
         IN  /\ pipe' = [pipe EXCEPT ![c][s] = @ - n]
             /\ capture' = [capture EXCEPT ![c][s].kept = @ + keep,
                                           ![c][s].truncated = @ \/ keep < n]
    /\ UNCHANGED <<active, stage, child, stdin, feeding, written, late, status>>

\* End of file: the program has ended and the pipe is drained.
CaptureEnds(c, s) ==
    /\ ~capture[c][s].done
    /\ pipe[c][s] = 0 /\ child[c] # "running"
    /\ capture' = [capture EXCEPT ![c][s].done = TRUE]
    /\ UNCHANGED <<active, stage, child, pipe, stdin, feeding, written, late, status>>

\* A read that fails ends the thread like an end of file, and closes the pipe.
CaptureFails(c, s) ==
    /\ ~capture[c][s].done
    /\ capture' = [capture EXCEPT ![c][s].done = TRUE, ![c][s].failed = TRUE]
    /\ pipe' = [pipe EXCEPT ![c][s] = 0]
    /\ UNCHANGED <<active, stage, child, stdin, feeding, written, late, status>>

\* write_all on the program's input.
Feed(c) ==
    /\ feeding[c]
    /\ child[c] = "running" /\ stdin[c].queued > 0 /\ stdin[c].piped < Pipe
    /\ stdin' = [stdin EXCEPT ![c].queued = @ - 1, ![c].piped = @ + 1]
    /\ UNCHANGED <<active, stage, child, pipe, feeding, capture, written, late, status>>

\* Everything is written, or nobody is left to read it.
FeedEnds(c) ==
    /\ feeding[c]
    /\ stdin[c].queued = 0 \/ child[c] # "running"
    /\ feeding' = [feeding EXCEPT ![c] = FALSE]
    /\ UNCHANGED <<active, stage, child, pipe, stdin, capture, written, late, status>>

----------------------------------------------------------------------------
(* The program and the clock.                                               *)

\* A write to a pipe that is closed fails and writes nothing.
ProgramWrites(c, s) ==
    /\ child[c] = "running" /\ ~capture[c][s].done
    /\ pipe[c][s] < Pipe /\ written[c][s] < MaxOutput
    /\ pipe' = [pipe EXCEPT ![c][s] = @ + 1]
    /\ written' = [written EXCEPT ![c][s] = @ + 1]
    /\ UNCHANGED <<active, stage, child, stdin, feeding, capture, late, status>>

ProgramReads(c) ==
    /\ child[c] = "running" /\ stdin[c].piped > 0
    /\ stdin' = [stdin EXCEPT ![c].piped = @ - 1]
    /\ UNCHANGED <<active, stage, child, pipe, feeding, capture, written, late, status>>

ProgramExits(c) ==
    /\ child[c] = "running"
    /\ child' = [child EXCEPT ![c] = "exited"]
    /\ UNCHANGED <<active, stage, pipe, stdin, feeding, capture, written, late, status>>

TimePasses(c) ==
    /\ child[c] = "running" /\ ~late[c]
    /\ late' = [late EXCEPT ![c] = TRUE]
    /\ UNCHANGED <<active, stage, child, pipe, stdin, feeding, capture, written, status>>

----------------------------------------------------------------------------
Polling(c) == CheckLimits(c) \/ TryWait(c) \/ TryWaitFails(c) \/ KillAndWait(c)

Request(c) == Answer(c) \/ Refuse(c) \/ Admit(c)

Thread(c) ==
    \/ CompileFails(c) \/ Compile(c) \/ SpawnFails(c) \/ Spawn(c)
    \/ Polling(c) \/ Join(c) \/ Report(c)

Capturing(c, s) == Capture(c, s) \/ CaptureEnds(c, s)

Program(c) == ProgramReads(c) \/ ProgramExits(c) \/ \E s \in Streams : ProgramWrites(c, s)

Next ==
    \E c \in Conns :
        \/ Request(c) \/ Thread(c) \/ Respond(c) \/ Program(c) \/ TimePasses(c)
        \/ Feed(c) \/ FeedEnds(c)
        \/ \E s \in Streams : Capturing(c, s) \/ CaptureFails(c, s)

\* The server's threads are scheduled and time passes.  Nothing is assumed of
\* the program, of the client (sending its request, reading the response), or of
\* failing reads.
Fairness ==
    \A c \in Conns :
        /\ WF_vars(Thread(c)) /\ WF_vars(Feed(c) \/ FeedEnds(c)) /\ WF_vars(TimePasses(c))
        /\ \A s \in Streams : WF_vars(Capturing(c, s))

Spec == Init /\ [][Next]_vars /\ Fairness

----------------------------------------------------------------------------
Holds(c)    == stage[c] \notin {"reading", "closed"}
Started(c)  == child[c] # "none"
Reported(c) == Started(c) /\ stage[c] = "responding"

\* Two requests never compile or execute at the same time, and the flag tells
\* exactly whether one does (compare_exchange, BusyGuard on every way out).
OneRunAtATime ==
    /\ \A c, d \in Conns : Holds(c) /\ Holds(d) => c = d
    /\ active <=> \E c \in Conns : Holds(c)

\* When the response is built the program is gone and every thread of the run
\* has ended: the build directory can be removed.
RunLeavesNothingBehind ==
    \A c \in Conns : Reported(c) =>
        child[c] # "running" /\ ~feeding[c] /\ \A s \in Streams : capture[c][s].done

\* A report holds the first Limit units of each stream, everything the program
\* wrote up to its end, killed or not, and says of the rest that it is missing.
OutputIsAccountedFor ==
    \A c \in Conns, s \in Streams : Reported(c) /\ ~capture[c][s].failed =>
        /\ capture[c][s].kept = Lesser(written[c][s], Limit)
        /\ capture[c][s].truncated <=> written[c][s] > Limit

\* The status agrees with what happened, whichever of the exit, the deadline
\* and the limit the polling loop saw first.
StatusIsJustified ==
    \A c \in Conns : Reported(c) =>
        LET cut == \E s \in Streams : capture[c][s].truncated
        IN  /\ status[c] = "exited" => child[c] = "exited" /\ ~cut
            /\ status[c] = "output-limit" => cut
            /\ status[c] = "timed-out" => late[c]

\* A run that was admitted gets its response built, whatever its program does.
EveryRunEnds == \A c \in Conns : Holds(c) ~> stage[c] \in {"responding", "closed"}
=============================================================================
