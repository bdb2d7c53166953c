-------------------------- MODULE WorkbenchProofs ---------------------------
(***************************************************************************)
(* The safety of the workbench, proved for any number of connections, any  *)
(* limits and any amount of output: one run at a time, nothing left behind *)
(* by a run, and a report that says what happened.                         *)
(*                                                                         *)
(* A step belongs to one connection and leaves the others' state alone     *)
(* (OthersAreLeft), so the invariant is stated of one connection.          *)
(***************************************************************************)
EXTENDS Workbench, TLAPS

Step(c) ==
    \/ Request(c) \/ Thread(c) \/ Respond(c) \/ Program(c) \/ TimePasses(c)
    \/ Feed(c) \/ FeedEnds(c)
    \/ \E s \in Streams : Capturing(c, s) \/ CaptureFails(c, s)

LEMMA StepOfOne == Next => \E c \in Conns : Step(c)
    BY DEF Next, Step

----------------------------------------------------------------------------
(* Types.                                                                   *)

StreamState == [kept : 0..Limit, truncated : BOOLEAN, done : BOOLEAN, failed : BOOLEAN]
InputState == [queued : 0..Input, piped : 0..Pipe]

LEMMA LesserBounds ==
    ASSUME NEW m \in Int, NEW n \in Int
    PROVE  Lesser(m, n) \in {m, n} /\ Lesser(m, n) <= m /\ Lesser(m, n) <= n
    BY DEF Lesser

LEMMA ThreadType ==
    ASSUME TypeOK, NEW c \in Conns, Request(c) \/ (Thread(c) /\ ~Spawn(c)) \/ TimePasses(c)
    PROVE  TypeOK'
<1> USE DEF TypeOK, Goto, Stages, Status, running
<1>1. CASE Request(c)
    BY <1>1 DEF Request, Answer, Refuse, Admit
<1>2. CASE CompileFails(c) \/ Compile(c) \/ SpawnFails(c)
    BY <1>2 DEF CompileFails, Compile, SpawnFails
<1>3. CASE Polling(c)
    BY <1>3 DEF Polling, CheckLimits, TryWait, TryWaitFails, KillAndWait
<1>4. CASE Join(c)
    BY <1>4 DEF Join
<1>5. CASE Report(c)
    <2>1. FinalStatus(c) \in Status
        BY DEF FinalStatus
    <2> QED BY <1>5, <2>1 DEF Report
<1>6. CASE TimePasses(c)
    BY <1>6 DEF TimePasses
<1> QED
    BY <1>1, <1>2, <1>3, <1>4, <1>5, <1>6 DEF Thread

LEMMA RunType ==
    ASSUME TypeOK, NEW c \in Conns, Spawn(c) \/ Respond(c)
    PROVE  TypeOK'
<1> USE WorkbenchAssumption
<1>1. Idle \in StreamState /\ [Idle EXCEPT !.done = FALSE] \in StreamState
    <2>1. 0 \in 0..Limit
        OBVIOUS
    <2>2. Idle \in StreamState
        BY <2>1 DEF Idle, StreamState
    <2>3. [Idle EXCEPT !.done = FALSE] \in StreamState
        BY <2>2 DEF StreamState
    <2> QED BY <2>2, <2>3
<1>2. CASE Spawn(c)
    <2>1. capture' \in [Conns -> [Streams -> StreamState]]
        BY <1>1, <1>2 DEF Spawn, TypeOK, StreamState
    <2>2. stdin' \in [Conns -> InputState]
        <3> DEFINE given == [stdin[c] EXCEPT !.queued = Input]
        <3>1. given \in InputState /\ stdin \in [Conns -> InputState]
            <4>1. stdin \in [Conns -> InputState] /\ stdin[c] \in InputState
                BY DEF TypeOK, InputState
            <4>2. Input \in 0..Input
                OBVIOUS
            <4>3. given \in InputState
                BY <4>1, <4>2 DEF InputState
            <4> QED BY <4>1, <4>3
        <3>2. stdin' = [stdin EXCEPT ![c] = given]
            BY <1>2, <3>1 DEF Spawn, InputState
        <3> HIDE DEF given
        <3> QED BY <3>1, <3>2
    <2> QED BY <1>2, <2>1, <2>2 DEF Spawn, TypeOK, Goto, Stages, Status, StreamState, InputState
<1>3. CASE Respond(c)
    <2>1. capture' \in [Conns -> [Streams -> StreamState]]
        BY <1>1, <1>3 DEF Respond, TypeOK, StreamState
    <2>2. stdin' \in [Conns -> InputState]
        BY <1>3 DEF Respond, TypeOK, InputState
    <2>3. pipe' \in [Conns -> [Streams -> 0..Pipe]] /\ written' \in [Conns -> [Streams -> Nat]]
        BY <1>3 DEF Respond, TypeOK
    <2> QED BY <1>3, <2>1, <2>2, <2>3
            DEF Respond, TypeOK, Goto, Stages, Status, StreamState, InputState
<1> QED
    BY <1>2, <1>3

LEMMA StreamType ==
    ASSUME TypeOK, NEW c \in Conns, NEW s \in Streams,
           Capturing(c, s) \/ CaptureFails(c, s) \/ ProgramWrites(c, s)
    PROVE  TypeOK'
<1> USE WorkbenchAssumption
<1>1. capture[c][s] \in StreamState /\ pipe[c][s] \in 0..Pipe /\ written[c][s] \in Nat
    BY DEF TypeOK, StreamState
<1>2. ASSUME NEW p \in 0..Pipe, NEW w \in Nat, NEW r \in StreamState,
             pipe' = [pipe EXCEPT ![c][s] = p], written' = [written EXCEPT ![c][s] = w],
             capture' = [capture EXCEPT ![c][s] = r],
             UNCHANGED <<active, stage, child, stdin, feeding, late, status>>
      PROVE  TypeOK'
    <2>1. capture' \in [Conns -> [Streams -> StreamState]]
        BY <1>2 DEF TypeOK, StreamState
    <2>2. pipe' \in [Conns -> [Streams -> 0..Pipe]] /\ written' \in [Conns -> [Streams -> Nat]]
        BY <1>2 DEF TypeOK
    <2> QED BY <1>2, <2>1, <2>2 DEF TypeOK, StreamState
<1>3. /\ pipe = [pipe EXCEPT ![c][s] = pipe[c][s]]
      /\ written = [written EXCEPT ![c][s] = written[c][s]]
    BY DEF TypeOK
<1>4. CASE Capture(c, s)
    <2>1. PICK n \in 1..pipe[c][s] :
            LET keep == Lesser(n, Limit - capture[c][s].kept)
            IN  /\ pipe' = [pipe EXCEPT ![c][s] = @ - n]
                /\ capture' = [capture EXCEPT ![c][s].kept = @ + keep,
                                              ![c][s].truncated = @ \/ keep < n]
        BY <1>4 DEF Capture
    <2> DEFINE keep == Lesser(n, Limit - capture[c][s].kept)
               r == [capture[c][s] EXCEPT !.kept = @ + keep, !.truncated = @ \/ keep < n]
    <2>2. capture[c][s].kept \in 0..Limit /\ n \in Nat /\ n <= pipe[c][s]
        BY <1>1 DEF StreamState
    <2>3. capture[c][s].kept + keep \in 0..Limit
        BY <2>2, LesserBounds
    <2>4. (capture[c][s].truncated \/ keep < n) \in BOOLEAN
        OBVIOUS
    <2>5. r \in StreamState
        BY <1>1, <2>3, <2>4 DEF StreamState
    <2>6. capture' = [capture EXCEPT ![c][s] = r]
        BY <2>1 DEF TypeOK
    <2>7. pipe' = [pipe EXCEPT ![c][s] = pipe[c][s] - n] /\ pipe[c][s] - n \in 0..Pipe
        BY <1>1, <2>1, <2>2 DEF TypeOK
    <2> HIDE DEF r
    <2> QED BY <1>1, <1>2, <1>3, <1>4, <2>5, <2>6, <2>7 DEF Capture
<1>5. CASE CaptureEnds(c, s)
    <2> DEFINE r == [capture[c][s] EXCEPT !.done = TRUE]
    <2>1. r \in StreamState /\ capture' = [capture EXCEPT ![c][s] = r]
        BY <1>1, <1>5 DEF CaptureEnds, TypeOK, StreamState
    <2> HIDE DEF r
    <2> QED BY <1>1, <1>2, <1>3, <1>5, <2>1 DEF CaptureEnds
<1>6. CASE CaptureFails(c, s)
    <2> DEFINE r == [capture[c][s] EXCEPT !.done = TRUE, !.failed = TRUE]
    <2>1. r \in StreamState /\ capture' = [capture EXCEPT ![c][s] = r]
        BY <1>1, <1>6 DEF CaptureFails, TypeOK, StreamState
    <2> HIDE DEF r
    <2>2. 0 \in 0..Pipe /\ pipe' = [pipe EXCEPT ![c][s] = 0]
        BY <1>6 DEF CaptureFails
    <2>3. written' = [written EXCEPT ![c][s] = written[c][s]]
        BY <1>3, <1>6 DEF CaptureFails
    <2> QED BY <1>1, <1>2, <1>6, <2>1, <2>2, <2>3 DEF CaptureFails
<1>7. CASE ProgramWrites(c, s)
    <2>1. /\ pipe' = [pipe EXCEPT ![c][s] = pipe[c][s] + 1] /\ pipe[c][s] + 1 \in 0..Pipe
          /\ written' = [written EXCEPT ![c][s] = written[c][s] + 1] /\ written[c][s] + 1 \in Nat
        BY <1>1, <1>7 DEF ProgramWrites, TypeOK
    <2>2. capture' = [capture EXCEPT ![c][s] = capture[c][s]]
        BY <1>7 DEF ProgramWrites, TypeOK
    <2> QED BY <1>1, <1>2, <1>7, <2>1, <2>2 DEF ProgramWrites
<1> QED
    BY <1>4, <1>5, <1>6, <1>7 DEF Capturing

LEMMA InputType ==
    ASSUME TypeOK, NEW c \in Conns, Feed(c) \/ FeedEnds(c) \/ ProgramReads(c) \/ ProgramExits(c)
    PROVE  TypeOK'
<1>1. CASE FeedEnds(c) \/ ProgramExits(c)
    BY <1>1 DEF FeedEnds, ProgramExits, TypeOK
<1>2. CASE Feed(c) \/ ProgramReads(c)
    <2>1. stdin[c] \in InputState
        BY DEF TypeOK, InputState
    <2>2. stdin' \in [Conns -> InputState]
        <3>1. stdin[c].queued \in 0..Input /\ stdin[c].piped \in 0..Pipe
            BY <2>1 DEF InputState
        <3>2. PICK r \in InputState : stdin' = [stdin EXCEPT ![c] = r]
            <4>1. CASE Feed(c)
                <5> DEFINE r == [stdin[c] EXCEPT !.queued = @ - 1, !.piped = @ + 1]
                <5>1. stdin[c].queued - 1 \in 0..Input /\ stdin[c].piped + 1 \in 0..Pipe
                    BY <3>1, <4>1, WorkbenchAssumption DEF Feed
                <5>2. r \in InputState
                    BY <2>1, <5>1 DEF InputState
                <5>3. stdin' = [stdin EXCEPT ![c] = r]
                    BY <4>1 DEF Feed, TypeOK
                <5> QED BY <5>2, <5>3
            <4>2. CASE ProgramReads(c)
                <5> DEFINE r == [stdin[c] EXCEPT !.piped = @ - 1]
                <5>1. stdin[c].piped - 1 \in 0..Pipe
                    BY <3>1, <4>2, WorkbenchAssumption DEF ProgramReads
                <5>2. r \in InputState
                    BY <2>1, <5>1 DEF InputState
                <5>3. stdin' = [stdin EXCEPT ![c] = r]
                    BY <4>2 DEF ProgramReads, TypeOK
                <5> QED BY <5>2, <5>3
            <4> QED BY <1>2, <4>1, <4>2
        <3> QED BY <3>2 DEF TypeOK, InputState
    <2> QED BY <1>2, <2>2 DEF Feed, ProgramReads, TypeOK, InputState
<1> QED
    BY <1>1, <1>2

LEMMA TypeStep == TypeOK /\ [Next]_vars => TypeOK'
<1> SUFFICES ASSUME TypeOK, [Next]_vars PROVE TypeOK'
    OBVIOUS
<1>1. ASSUME NEW c \in Conns, Step(c) PROVE TypeOK'
    BY <1>1, ThreadType, RunType, StreamType, InputType DEF Step, Thread, Program
<1>2. CASE UNCHANGED vars
    BY <1>2 DEF vars, TypeOK
<1> QED
    BY <1>1, <1>2, StepOfOne

LEMMA TypeBegins == Init => TypeOK
<1>1. 0 \in 0..Limit /\ 0 \in 0..Pipe /\ 0 \in 0..Input
    BY WorkbenchAssumption
<1>2. Idle \in StreamState
    BY <1>1 DEF Idle, StreamState
<1>3. [queued |-> 0, piped |-> 0] \in InputState
    BY <1>1 DEF InputState
<1> SUFFICES ASSUME Init PROVE TypeOK
    OBVIOUS
<1>4. /\ pipe \in [Conns -> [Streams -> 0..Pipe]] /\ stdin \in [Conns -> InputState]
      /\ capture \in [Conns -> [Streams -> StreamState]]
    BY <1>1, <1>2, <1>3 DEF Init
<1> QED
    BY <1>4 DEF Init, TypeOK, Stages, Status, StreamState, InputState

\* The server's state and that of every run keep their types.
THEOREM WorkbenchTypeCorrect == Spec => []TypeOK
    BY TypeBegins, TypeStep, PTL DEF Spec

----------------------------------------------------------------------------
(* Admission.                                                               *)

\* The flag and its holder change together, or not at all.
LEMMA HolderKinds ==
    ASSUME TypeOK, NEW c \in Conns, Step(c)
    PROVE  \/ UNCHANGED active /\ \A d \in Conns : Holds(d)' <=> Holds(d)
           \/ /\ ~active /\ active' /\ Holds(c)'
              /\ \A d \in Conns \ {c} : Holds(d)' <=> Holds(d)
           \/ /\ Holds(c) /\ ~active' /\ ~Holds(c)'
              /\ \A d \in Conns \ {c} : Holds(d)' <=> Holds(d)
<1> USE DEF Holds, Goto, TypeOK
<1>1. CASE Request(c)
    BY <1>1 DEF Request, Answer, Refuse, Admit
<1>2. CASE Thread(c)
    BY <1>2 DEF Thread, CompileFails, Compile, SpawnFails, Spawn, Polling, CheckLimits, TryWait,
                TryWaitFails, KillAndWait, Join, Report
<1>3. CASE Respond(c)
    BY <1>3 DEF Respond
<1>4. CASE Program(c) \/ TimePasses(c) \/ Feed(c) \/ FeedEnds(c)
    BY <1>4 DEF Program, ProgramReads, ProgramExits, ProgramWrites, TimePasses, Feed, FeedEnds
<1>5. CASE \E s \in Streams : Capturing(c, s) \/ CaptureFails(c, s)
    BY <1>5 DEF Capturing, Capture, CaptureEnds, CaptureFails
<1> QED
    BY <1>1, <1>2, <1>3, <1>4, <1>5 DEF Step

LEMMA AdmissionStep == TypeOK /\ OneRunAtATime /\ [Next]_vars => OneRunAtATime'
<1> SUFFICES ASSUME TypeOK, OneRunAtATime, [Next]_vars PROVE OneRunAtATime'
    OBVIOUS
<1>1. ASSUME NEW c \in Conns, Step(c) PROVE OneRunAtATime'
    BY <1>1, HolderKinds DEF OneRunAtATime
<1>2. CASE UNCHANGED vars
    BY <1>2 DEF vars, OneRunAtATime, Holds
<1> QED
    BY <1>1, <1>2, StepOfOne

LEMMA AdmissionBegins == Init => OneRunAtATime
    BY DEF Init, OneRunAtATime, Holds

\* For any number of connections: two runs are never in progress together, and
\* the flag is held exactly while one is.
THEOREM AdmissionCorrect == Spec => []OneRunAtATime
    BY TypeBegins, TypeStep, AdmissionBegins, AdmissionStep, PTL DEF Spec

----------------------------------------------------------------------------
(* One run.                                                                 *)

\* No thread of a run exists.
Quiet(c) ==
    /\ child[c] = "none" /\ ~feeding[c]
    /\ \A s \in Streams : capture[c][s] = Idle /\ pipe[c][s] = 0 /\ written[c][s] = 0

RunInv(c) ==
    /\ stage[c] \in {"reading", "compiling", "spawning", "closed"} => Quiet(c)
    /\ stage[c] \in {"limits", "waiting", "killing", "joining", "reporting"} => child[c] # "none"
    /\ child[c] = "running" => stage[c] \in {"limits", "waiting", "killing"}
    /\ stage[c] \in {"reporting", "responding"} =>
          ~feeding[c] /\ \A s \in Streams : capture[c][s].done

\* What a stream's capture has seen is what was written and is not in the pipe.
StreamInv(c, s) ==
    /\ pipe[c][s] <= written[c][s]
    /\ ~capture[c][s].failed =>
          /\ capture[c][s].kept = Lesser(written[c][s] - pipe[c][s], Limit)
          /\ capture[c][s].truncated <=> written[c][s] - pipe[c][s] > Limit
          /\ capture[c][s].done => pipe[c][s] = 0

Cut(c) == \E s \in Streams : capture[c][s].truncated

\* Why the polling loop stopped.
StatusInv(c) ==
    /\ stage[c] \in {"limits", "waiting"} => status[c] = "exited" /\ child[c] # "killed"
    /\ stage[c] = "killing" => status[c] # "exited"
    /\ status[c] = "exited" /\ stage[c] \in {"joining", "reporting", "responding"} => child[c] = "exited"
    /\ status[c] = "exited" /\ stage[c] = "responding" => ~Cut(c)
    /\ status[c] = "output-limit" => Cut(c)
    /\ status[c] = "timed-out" => late[c]

ConnInv(c) == RunInv(c) /\ StatusInv(c) /\ \A s \in Streams : StreamInv(c, s)

Untouched(d) ==
    UNCHANGED <<stage[d], child[d], pipe[d], feeding[d], capture[d], written[d], late[d], status[d]>>

LEMMA OthersAreLeft ==
    ASSUME TypeOK, NEW c \in Conns, Step(c), NEW d \in Conns, d # c
    PROVE  Untouched(d)
<1> USE DEF Untouched, Goto, TypeOK, running
<1>1. CASE Request(c)
    BY <1>1 DEF Request, Answer, Refuse, Admit
<1>2. CASE Thread(c)
    BY <1>2 DEF Thread, CompileFails, Compile, SpawnFails, Spawn, Polling, CheckLimits, TryWait,
                TryWaitFails, KillAndWait, Join, Report
<1>3. CASE Respond(c)
    BY <1>3 DEF Respond
<1>4. CASE Program(c) \/ TimePasses(c) \/ Feed(c) \/ FeedEnds(c)
    BY <1>4 DEF Program, ProgramReads, ProgramExits, ProgramWrites, TimePasses, Feed, FeedEnds
<1>5. CASE \E s \in Streams : Capturing(c, s) \/ CaptureFails(c, s)
    BY <1>5 DEF Capturing, Capture, CaptureEnds, CaptureFails
<1> QED
    BY <1>1, <1>2, <1>3, <1>4, <1>5 DEF Step

LEMMA UntouchedKeeps ==
    ASSUME NEW d \in Conns, Untouched(d), ConnInv(d)
    PROVE  ConnInv(d)'
    BY DEF Untouched, ConnInv, RunInv, Quiet, StreamInv, StatusInv, Cut

\* The connection's own thread, up to the report.
LEMMA ThreadKeeps ==
    ASSUME TypeOK, NEW c \in Conns, ConnInv(c), Request(c) \/ Polling(c) \/ Join(c) \/ TimePasses(c)
    PROVE  ConnInv(c)'
<1>1. UNCHANGED <<pipe, feeding, capture, written>>
    BY DEF Request, Answer, Refuse, Admit, Polling, CheckLimits, TryWait, TryWaitFails, KillAndWait,
           Join, TimePasses, running
<1>2. \A s \in Streams : StreamInv(c, s)'
    BY <1>1 DEF ConnInv, StreamInv
<1>3. RunInv(c)' /\ StatusInv(c)'
    <2> USE DEF ConnInv, RunInv, Quiet, StatusInv, Cut, Goto, TypeOK, running
    <2>1. CASE Request(c)
        BY <1>1, <2>1 DEF Request, Answer, Refuse, Admit
    <2>2. CASE CheckLimits(c)
        BY <1>1, <2>2 DEF CheckLimits
    <2>3. CASE TryWait(c)
        BY <1>1, <2>3 DEF TryWait
    <2>4. CASE TryWaitFails(c)
        BY <1>1, <2>4 DEF TryWaitFails
    <2>5. CASE KillAndWait(c)
        BY <1>1, <2>5 DEF KillAndWait
    <2>6. CASE Join(c)
        BY <1>1, <2>6 DEF Join
    <2>7. CASE TimePasses(c)
        BY <1>1, <2>7 DEF TimePasses
    <2> QED BY <2>1, <2>2, <2>3, <2>4, <2>5, <2>6, <2>7 DEF Polling
<1> QED
    BY <1>2, <1>3 DEF ConnInv

LEMMA StartKeeps ==
    ASSUME TypeOK, NEW c \in Conns, ConnInv(c), CompileFails(c) \/ Compile(c) \/ SpawnFails(c) \/ Spawn(c)
    PROVE  ConnInv(c)'
<1>1. Quiet(c)
    BY DEF ConnInv, RunInv, CompileFails, Compile, SpawnFails, Spawn
<1>2. CASE CompileFails(c) \/ Compile(c) \/ SpawnFails(c)
    <2>1. UNCHANGED <<pipe, feeding, capture, written, child, late>>
        BY <1>2 DEF CompileFails, Compile, SpawnFails, running
    <2>2. \A s \in Streams : StreamInv(c, s)'
        BY <2>1 DEF ConnInv, StreamInv
    <2>3. Quiet(c)' /\ \A s \in Streams : capture'[c][s].done
        BY <1>1, <2>1 DEF Quiet, Idle
    <2>4. RunInv(c)' /\ StatusInv(c)'
        BY <1>1, <1>2, <2>1, <2>3 DEF CompileFails, Compile, SpawnFails, ConnInv, RunInv, Quiet, StatusInv,
                                      Cut, Goto, TypeOK, running
    <2> QED BY <2>2, <2>4 DEF ConnInv
<1>3. CASE Spawn(c)
    <2>1. /\ child'[c] = "running" /\ stage'[c] = "limits" /\ status'[c] = "exited"
          /\ pipe' = pipe /\ written' = written
          /\ \A s \in Streams : capture'[c][s] = [Idle EXCEPT !.done = FALSE]
        BY <1>3 DEF Spawn, Goto, TypeOK
    <2>2. \A s \in Streams : /\ capture'[c][s].kept = 0 /\ capture'[c][s].truncated = FALSE
                             /\ capture'[c][s].done = FALSE
        BY <2>1 DEF Idle
    <2>3. \A s \in Streams : StreamInv(c, s)'
        BY <1>1, <2>1, <2>2, WorkbenchAssumption DEF Quiet, StreamInv, Lesser
    <2>4. RunInv(c)' /\ StatusInv(c)'
        BY <2>1 DEF RunInv, StatusInv
    <2> QED BY <2>3, <2>4 DEF ConnInv
<1> QED
    BY <1>2, <1>3

LEMMA EndKeeps ==
    ASSUME TypeOK, NEW c \in Conns, ConnInv(c), Report(c) \/ Respond(c)
    PROVE  ConnInv(c)'
<1>1. CASE Report(c)
    <2>1. UNCHANGED <<pipe, feeding, capture, written, child, late>>
        BY <1>1 DEF Report, running
    <2>2. \A s \in Streams : StreamInv(c, s)'
        BY <2>1 DEF ConnInv, StreamInv
    <2>3. stage'[c] = "responding" /\ status'[c] = FinalStatus(c)
        BY <1>1 DEF Report, Goto, TypeOK
    <2>4. RunInv(c)'
        BY <1>1, <2>1, <2>3 DEF Report, ConnInv, RunInv
    <2>5. StatusInv(c)'
        BY <1>1, <2>1, <2>3 DEF Report, ConnInv, StatusInv, FinalStatus, Cut
    <2> QED BY <2>2, <2>4, <2>5 DEF ConnInv
<1>2. CASE Respond(c)
    <2>1. /\ stage'[c] = "closed" /\ status'[c] = "none" /\ child'[c] = "none" /\ feeding'[c] = FALSE
          /\ \A s \in Streams : capture'[c][s] = Idle /\ pipe'[c][s] = 0 /\ written'[c][s] = 0
        BY <1>2 DEF Respond, Goto, TypeOK
    <2>2. Quiet(c)' /\ RunInv(c)' /\ StatusInv(c)'
        BY <2>1 DEF Quiet, RunInv, StatusInv
    <2>3. \A s \in Streams : StreamInv(c, s)'
        BY <2>1, WorkbenchAssumption DEF StreamInv, Idle, Lesser
    <2> QED BY <2>2, <2>3 DEF ConnInv
<1> QED
    BY <1>1, <1>2

\* The feeding thread, and the program apart from its output.
LEMMA InputKeeps ==
    ASSUME TypeOK, NEW c \in Conns, ConnInv(c), Feed(c) \/ FeedEnds(c) \/ ProgramReads(c) \/ ProgramExits(c)
    PROVE  ConnInv(c)'
<1>1. UNCHANGED <<pipe, capture, written, stage, status, late>>
    BY DEF Feed, FeedEnds, ProgramReads, ProgramExits
<1>2. \A s \in Streams : StreamInv(c, s)'
    BY <1>1 DEF ConnInv, StreamInv
<1>3. /\ feeding'[c] => feeding[c]
      /\ child'[c] = child[c] \/ (child[c] = "running" /\ child'[c] = "exited")
    BY DEF Feed, FeedEnds, ProgramReads, ProgramExits, TypeOK
<1>4. RunInv(c)' /\ StatusInv(c)'
    BY <1>1, <1>3 DEF ConnInv, RunInv, Quiet, StatusInv, Cut
<1> QED
    BY <1>2, <1>4 DEF ConnInv

\* Output: what is written into a pipe and read from it.
LEMMA StreamKeeps ==
    ASSUME TypeOK, NEW c \in Conns, ConnInv(c), NEW s \in Streams,
           Capturing(c, s) \/ CaptureFails(c, s) \/ ProgramWrites(c, s)
    PROVE  ConnInv(c)'
<1>1. /\ capture[c][s] \in StreamState /\ pipe[c][s] \in 0..Pipe /\ written[c][s] \in Nat
      /\ Limit \in Nat /\ Pipe \in Nat
    BY WorkbenchAssumption DEF TypeOK, StreamState
<1>2. /\ UNCHANGED <<stage, child, feeding, late, status>>
      /\ \A t \in Streams \ {s} : /\ pipe'[c][t] = pipe[c][t] /\ written'[c][t] = written[c][t]
                                 /\ capture'[c][t] = capture[c][t]
    <2>1. CASE Capture(c, s)
        BY <2>1 DEF Capture, TypeOK
    <2>2. CASE CaptureEnds(c, s)
        BY <2>2 DEF CaptureEnds, TypeOK
    <2>3. CASE CaptureFails(c, s)
        BY <2>3 DEF CaptureFails, TypeOK
    <2>4. CASE ProgramWrites(c, s)
        BY <2>4 DEF ProgramWrites, TypeOK
    <2> QED BY <2>1, <2>2, <2>3, <2>4 DEF Capturing
<1>3. StreamInv(c, s) /\ ~capture[c][s].done
    BY DEF ConnInv, Capturing, Capture, CaptureEnds, CaptureFails, ProgramWrites
<1>4. /\ StreamInv(c, s)'
      /\ capture[c][s].truncated => capture'[c][s].truncated
      /\ stage[c] = "responding" => FALSE
    <2>1. stage[c] # "responding"
        BY <1>3 DEF ConnInv, RunInv
    <2>2. CASE Capture(c, s)
        <3>1. PICK n \in 1..pipe[c][s] :
                LET keep == Lesser(n, Limit - capture[c][s].kept)
                IN  /\ pipe' = [pipe EXCEPT ![c][s] = @ - n]
                    /\ capture' = [capture EXCEPT ![c][s].kept = @ + keep,
                                                  ![c][s].truncated = @ \/ keep < n]
            BY <2>2 DEF Capture
        <3> DEFINE keep == Lesser(n, Limit - capture[c][s].kept)
        <3>2. /\ pipe'[c][s] = pipe[c][s] - n /\ written'[c][s] = written[c][s]
              /\ capture'[c][s].kept = capture[c][s].kept + keep
              /\ capture'[c][s].truncated <=> capture[c][s].truncated \/ keep < n
              /\ capture'[c][s].done = capture[c][s].done /\ capture'[c][s].failed = capture[c][s].failed
            <4> DEFINE r == [capture[c][s] EXCEPT !.kept = @ + keep, !.truncated = @ \/ keep < n]
            <4>1. capture' = [capture EXCEPT ![c][s] = r]
                BY <3>1 DEF TypeOK
            <4>2. capture'[c][s] = r
                BY <4>1 DEF TypeOK
            <4>3. /\ r.kept = capture[c][s].kept + keep /\ r.done = capture[c][s].done
                  /\ r.truncated = (capture[c][s].truncated \/ keep < n)
                  /\ r.failed = capture[c][s].failed
                BY <1>1 DEF StreamState
            <4>4. pipe'[c][s] = pipe[c][s] - n /\ written'[c][s] = written[c][s]
                BY <2>2, <3>1 DEF Capture, TypeOK
            <4> HIDE DEF r, keep
            <4> QED BY <4>2, <4>3, <4>4
        <3>3. capture[c][s].kept \in 0..Limit /\ n \in Nat /\ n <= pipe[c][s]
            BY <1>1 DEF StreamState
        <3>4. ASSUME ~capture[c][s].failed
              PROVE  /\ capture'[c][s].kept = Lesser(written'[c][s] - pipe'[c][s], Limit)
                     /\ capture'[c][s].truncated <=> written'[c][s] - pipe'[c][s] > Limit
            <4> DEFINE seen == written[c][s] - pipe[c][s]
            <4>1. seen \in Nat /\ written'[c][s] - pipe'[c][s] = seen + n
                BY <1>1, <1>3, <3>2, <3>3 DEF StreamInv
            <4>2. capture[c][s].kept = Lesser(seen, Limit) /\ (capture[c][s].truncated <=> seen > Limit)
                BY <1>3, <3>4 DEF StreamInv
            <4> HIDE DEF seen
            <4>3. capture[c][s].kept + keep = Lesser(seen + n, Limit)
                BY <1>1, <3>3, <4>1, <4>2 DEF Lesser
            <4>4. keep < n <=> seen + n > Limit
                BY <1>1, <3>3, <4>1, <4>2 DEF Lesser
            <4>5. seen > Limit => seen + n > Limit
                BY <1>1, <3>3, <4>1
            <4> HIDE DEF keep
            <4> QED BY <3>2, <4>1, <4>2, <4>3, <4>4, <4>5
        <3>5. pipe'[c][s] <= written'[c][s]
            BY <1>1, <1>3, <3>2, <3>3 DEF StreamInv
        <3> QED BY <1>3, <2>1, <3>2, <3>4, <3>5 DEF StreamInv
    <2>3. CASE CaptureEnds(c, s)
        <3>1. /\ pipe' = pipe /\ written' = written /\ pipe[c][s] = 0
              /\ capture'[c][s].kept = capture[c][s].kept
              /\ capture'[c][s].truncated = capture[c][s].truncated
              /\ capture'[c][s].failed = capture[c][s].failed
            BY <2>3 DEF CaptureEnds, TypeOK
        <3> QED BY <1>3, <2>1, <3>1 DEF StreamInv
    <2>4. CASE CaptureFails(c, s)
        <3>1. /\ pipe'[c][s] = 0 /\ written' = written
              /\ capture'[c][s].truncated = capture[c][s].truncated
              /\ capture'[c][s].failed
            BY <2>4 DEF CaptureFails, TypeOK
        <3> QED BY <1>1, <2>1, <3>1 DEF StreamInv
    <2>5. CASE ProgramWrites(c, s)
        <3>1. /\ pipe'[c][s] = pipe[c][s] + 1 /\ written'[c][s] = written[c][s] + 1 /\ capture' = capture
            BY <2>5 DEF ProgramWrites, TypeOK
        <3>2. written'[c][s] - pipe'[c][s] = written[c][s] - pipe[c][s]
            BY <1>1, <3>1
        <3> QED BY <1>1, <1>3, <2>1, <3>1, <3>2 DEF StreamInv
    <2> QED BY <2>2, <2>3, <2>4, <2>5 DEF Capturing
<1>5. \A t \in Streams : StreamInv(c, t)'
    BY <1>2, <1>4 DEF ConnInv, StreamInv
<1>6. Cut(c) => Cut(c)'
    BY <1>2, <1>4 DEF Cut
<1>7. RunInv(c)'
    <2>1. ~Quiet(c)
        BY <1>3 DEF Quiet, Idle
    <2>2. stage[c] \notin {"reading", "compiling", "spawning", "closed", "reporting", "responding"}
        BY <1>3, <2>1 DEF ConnInv, RunInv
    <2> QED BY <1>2, <2>2 DEF ConnInv, RunInv
<1>8. StatusInv(c)'
    BY <1>2, <1>4, <1>6 DEF ConnInv, StatusInv
<1> QED
    BY <1>5, <1>7, <1>8 DEF ConnInv

Conforming == \A d \in Conns : ConnInv(d)

LEMMA RunStep == TypeOK /\ Conforming /\ [Next]_vars => Conforming'
<1> SUFFICES ASSUME TypeOK, Conforming, [Next]_vars, NEW d \in Conns PROVE ConnInv(d)'
    BY DEF Conforming
<1>1. ConnInv(d)
    BY DEF Conforming
<1>2. ASSUME NEW c \in Conns, Step(c) PROVE ConnInv(d)'
    <2>1. CASE d # c
        BY <1>1, <1>2, <2>1, OthersAreLeft, UntouchedKeeps
    <2>2. CASE d = c
        BY <1>1, <1>2, <2>2, ThreadKeeps, StartKeeps, EndKeeps, InputKeeps, StreamKeeps
           DEF Step, Thread, Program
    <2> QED BY <2>1, <2>2
<1>3. CASE UNCHANGED vars
    BY <1>1, <1>3, UntouchedKeeps DEF vars, Untouched
<1> QED
    BY <1>2, <1>3, StepOfOne

LEMMA RunBegins == Init => Conforming
<1> SUFFICES ASSUME Init, NEW d \in Conns PROVE ConnInv(d)
    BY DEF Conforming
<1>1. Quiet(d) /\ stage[d] = "reading" /\ status[d] = "none"
    BY DEF Init, Quiet
<1>2. \A s \in Streams : StreamInv(d, s)
    BY <1>1, WorkbenchAssumption DEF Quiet, StreamInv, Idle, Lesser
<1>3. RunInv(d) /\ StatusInv(d)
    BY <1>1 DEF RunInv, StatusInv, Quiet
<1> QED
    BY <1>2, <1>3 DEF ConnInv

\* For any limits and any amount of output: when a response is built, the
\* program and the threads of its run have ended, the report holds the output up
\* to the limit and says what is missing, and the status is what happened.
THEOREM ReportsCorrect == Spec => [](RunLeavesNothingBehind /\ OutputIsAccountedFor /\ StatusIsJustified)
<1>1. Conforming => RunLeavesNothingBehind
    BY DEF Conforming, ConnInv, RunInv, RunLeavesNothingBehind, Reported
<1>2. TypeOK /\ Conforming => OutputIsAccountedFor
    <2> SUFFICES ASSUME TypeOK, Conforming, NEW c \in Conns, NEW s \in Streams,
                        Reported(c), ~capture[c][s].failed
                 PROVE  /\ capture[c][s].kept = Lesser(written[c][s], Limit)
                        /\ capture[c][s].truncated <=> written[c][s] > Limit
        BY DEF OutputIsAccountedFor
    <2>1. StreamInv(c, s) /\ capture[c][s].done
        BY DEF Conforming, ConnInv, RunInv, Reported
    <2>2. written[c][s] \in Nat /\ pipe[c][s] = 0
        BY <2>1 DEF StreamInv, TypeOK
    <2>3. written[c][s] - pipe[c][s] = written[c][s]
        BY <2>2
    <2> QED BY <2>1, <2>3 DEF StreamInv
<1>3. Conforming => StatusIsJustified
    BY DEF Conforming, ConnInv, StatusInv, StatusIsJustified, Reported, Cut
<1> QED
    BY <1>1, <1>2, <1>3, TypeBegins, TypeStep, RunBegins, RunStep, PTL DEF Spec
=============================================================================
