----------------------------- MODULE TestServer -----------------------------
(***************************************************************************)
(* The Temporary MariaDB Test Server of snekql.testing.mariadb: one        *)
(* context manager that prepares a data directory, runs an optional        *)
(* bootstrap server and then the final one, waits for it to answer, hands  *)
(* it to the caller and stops it.  Every helper process is an              *)
(* owned_process, so the coroutine is a stack of such frames; a frame      *)
(* that is left, in whatever way, first stops and reaps its child.         *)
(*                                                                         *)
(* stack    frames, innermost last: the child's kind, the phase of its     *)
(*          owned_process, the exception its body ended with ("none" when  *)
(*          it ended normally), whether a cancellation came during the     *)
(*          cleanup, and the exit status of a command                      *)
(* proc     the operating system's view of the child of each frame         *)
(* orphans  the children that were let go of while they still ran          *)
(* pc       what the context's body is at                                  *)
(* late     whether the readiness deadline of the current wait has passed  *)
(* cancels  how often Task.cancel was called on the context's task         *)
(* scoped   whether an AnyIO scope around the context is cancelled: it     *)
(*          interrupts every suspension outside the shielded cleanups      *)
(***************************************************************************)
EXTENDS Integers, Sequences, FiniteSets, SequencesExt

CONSTANTS
    Passwords,    \* the passwords a caller may ask for
    None,         \* no password is set
    MaxStarts,    \* bound: contexts entered one after the other
    MaxCancels    \* bound: native cancellations of one context

VARIABLES options, data, pc, stack, proc, orphans, late, cancels, scoped, told, starts

vars == <<options, data, pc, stack, proc, orphans, late, cancels, scoped, told, starts>>

Top == Last(stack)
Below == Front(stack)
WithTop(frame) == Append(Below, frame)
Frame(kind) ==
    [kind |-> kind, phase |-> "spawn", original |-> "none", cancelled |-> FALSE,
     result |-> "none"]

\* What _validate_options lets through of the options that change the course.
Options ==
    {o \in [auth : {"insecure", "password"}, password : Passwords,
            clean_before_start : BOOLEAN, reset_database : BOOLEAN] :
        ~(o.clean_before_start /\ o.reset_database)}

Init ==
    /\ options \in Options
    /\ data = [files |-> "absent", password |-> None, tables |-> FALSE]
    /\ pc = "idle"
    /\ stack = <<>>
    /\ proc = <<>>
    /\ orphans = [install |-> 0, server |-> 0, client |-> 0]
    /\ late = FALSE
    /\ cancels = 0
    /\ scoped = FALSE
    /\ told = [outcome |-> "none", leaked |-> {}]
    /\ starts = 0

----------------------------------------------------------------------------
(* The body of the context between two suspensions.  Body(s, at) puts the   *)
(* context at a step with the given frames; a command step enters the frame *)
(* of its child.                                                            *)

Runs(kind, at, frames) ==
    /\ pc' = at
    /\ stack' = Append(frames, Frame(kind))
    /\ proc' = Append(SubSeq(proc, 1, Len(frames)), "spawning")

\* An exception leaves the innermost frame that is still in its body, or the
\* context when there is none.
Raise(frames, exception, leaked) ==
    IF frames = <<>>
    THEN /\ pc' = "idle"
         /\ stack' = <<>>
         /\ proc' = <<>>
         /\ told' = [outcome |-> exception, leaked |-> told.leaked \cup leaked]
    ELSE /\ stack' = [frames EXCEPT ![Len(frames)].phase = "settle",
                                    ![Len(frames)].original = exception]
         /\ proc' = SubSeq(proc, 1, Len(frames))
         /\ told' = [told EXCEPT !.leaked = @ \cup leaked]
         /\ UNCHANGED pc

\* temporary_mariadb_server and the entry of its context.
Enter(o) ==
    /\ pc = "idle" /\ starts < MaxStarts
    /\ options' = o
    /\ pc' = "paths"
    /\ starts' = starts + 1
    /\ cancels' = 0
    /\ scoped' = FALSE
    /\ late' = FALSE
    /\ told' = [told EXCEPT !.outcome = "none"]
    /\ UNCHANGED <<data, stack, proc, orphans>>

\* _start_process of the bootstrap server or of the final one.
_start_process(at) == Runs("server", at, <<>>)

\* After the data directory: the bootstrap server when a password is to be set.
StartServers ==
    _start_process(IF options.auth = "password" THEN "bootstrap" ELSE "start")

_create_process_paths ==
    /\ pc = "paths"
    /\ \/ pc' = "clean" /\ UNCHANGED <<stack, proc, told>>
       \/ Raise(<<>>, "error", {})
    /\ UNCHANGED <<options, data, orphans, late, cancels, scoped, starts>>

\* clean_before_start removes the directory in a worker thread.
CleanBeforeStart ==
    /\ pc = "clean"
    /\ pc' = "ensure"
    /\ data' = IF options.clean_before_start
               THEN [files |-> "absent", password |-> None, tables |-> FALSE] ELSE data
    /\ UNCHANGED <<options, stack, proc, orphans, late, cancels, scoped, told, starts>>

\* A missing directory is made, an empty one is initialised, one with a mysql
\* directory is reused whether or not its initialisation ever finished, and
\* any other is refused.
_ensure_data_directory ==
    /\ pc = "ensure"
    /\ CASE data.files = "absent" ->
               data' = [data EXCEPT !.files = "empty"] /\ UNCHANGED <<pc, stack, proc, told>>
         [] data.files = "empty" ->
               Runs("install", "install", <<>>) /\ UNCHANGED <<data, told>>
         [] data.files \in {"half", "system"} -> StartServers /\ UNCHANGED <<data, told>>
         [] OTHER -> Raise(<<>>, "error", {}) /\ UNCHANGED data
    /\ UNCHANGED <<options, orphans, late, cancels, scoped, starts>>

\* A probe of _wait_until_ready, unless mariadbd has exited or the deadline
\* has passed.
_wait_until_ready ==
    /\ pc \in {"bootstrap", "start"}
    /\ Len(stack) = 1 /\ Top.phase = "body" /\ ~scoped
    /\ IF late \/ proc[1] = "exited"
       THEN Raise(stack, "error", {})
       ELSE Runs("client", pc, stack) /\ UNCHANGED told
    /\ UNCHANGED <<options, data, orphans, late, cancels, scoped, starts>>

\* The next command of the context once a command of its body has succeeded:
\* _bootstrap_password_auth leaves its server, _start_ready_server creates the
\* database of an insecure server, and the context resets it when asked to.
AfterReset(frames) ==
    /\ pc' = "serving"
    /\ stack' = frames
    /\ proc' = SubSeq(proc, 1, 1)
AfterCreate(frames) ==
    IF options.reset_database THEN Runs("client", "reset", frames) ELSE AfterReset(frames)
AfterReady(frames) ==
    CASE pc = "bootstrap" -> Runs("client", "bootstrap_sql", frames)
      [] pc = "start" /\ options.auth = "insecure" -> Runs("client", "create", frames)
      [] OTHER -> AfterCreate(frames)
AfterBootstrap(frames) ==
    /\ stack' = [frames EXCEPT ![1].phase = "settle"]
    /\ proc' = SubSeq(proc, 1, 1)
    /\ UNCHANGED pc

\* The wait's error reads the log of an insecure server first, where a
\* cancelled scope interrupts it.
NotReady == IF scoped /\ options.auth = "insecure" THEN "cancelled" ELSE "error"

\* The body goes on after a command whose owned_process was left normally.
Continue(frames, result) ==
    CASE pc = "install" /\ result = "ok" -> StartServers /\ UNCHANGED told
      [] pc = "bootstrap_sql" /\ frames = <<>> -> _start_process("start") /\ UNCHANGED told
      [] pc = "serving" -> Raise(<<>>, "returned", {})
      [] pc \in {"bootstrap", "start"} /\ late -> Raise(frames, NotReady, {})
      [] pc \in {"bootstrap", "start"} /\ result = "ok" ->
             AfterReady(frames) /\ UNCHANGED told
      [] pc \in {"bootstrap", "start"} /\ result # "ok" ->
             stack' = frames /\ proc' = SubSeq(proc, 1, 1) /\ UNCHANGED <<pc, told>>
      [] pc = "bootstrap_sql" /\ result = "ok" -> AfterBootstrap(frames) /\ UNCHANGED told
      [] pc = "create" /\ result = "ok" -> AfterCreate(frames) /\ UNCHANGED told
      [] pc = "reset" /\ result = "ok" -> AfterReset(frames) /\ UNCHANGED told
      [] OTHER -> Raise(frames, "error", {})

----------------------------------------------------------------------------
(* owned_process, _finish_cleanup and _stop_process.                        *)

State == proc[Len(proc)]

\* A child that is let go of before it has exited goes on without an owner.
Released ==
    orphans' = IF State \in {"spawning", "running"}
               THEN [orphans EXCEPT ![Top.kind] = @ + 1] ELSE orphans

\* Mutant of _finish_cleanup: a cancellation absorbed while the child is
\* stopped is forgotten when the body had ended normally.
_finish_cleanup_forgetful(failed) ==
    LET leaked == IF failed THEN {Top.kind} ELSE {}
    IN  /\ Released
        /\ CASE Top.original = "late" -> Raise(Below, NotReady, {})
             [] Top.original \notin {"none", "late"} -> Raise(Below, Top.original, leaked)
             [] Top.original = "none" /\ failed -> Raise(Below, "error", leaked)
             [] OTHER -> Continue(Below, Top.result)

\* The cleanup task is done, and has failed when the child could not be
\* reaped.  The exception of the body comes first, then a native cancellation
\* that came meanwhile, then the failure itself; a failure is noted on either.
\* A scope cancelled meanwhile does not reach the shielded wait, and a body
\* that had ended normally goes on to its next suspension.  The CancelledError
\* of the probe's own deadline ("late") is swallowed by its scope together with
\* its note, and the wait reports its error, unless the task or a scope around
\* it is being cancelled.
_finish_cleanup(failed) ==
    LET cancelled == \/ Top.cancelled /\ Top.original \in {"none", "late"}
                     \/ scoped /\ Top.original = "late"
        primary == IF cancelled THEN "cancelled" ELSE Top.original
        leaked == IF failed THEN {Top.kind} ELSE {}
    IN  /\ Released
        /\ CASE primary = "late" -> Raise(Below, "error", {})
             [] primary \notin {"none", "late"} -> Raise(Below, primary, leaked)
             [] primary = "none" /\ failed -> Raise(Below, "error", leaked)
             [] OTHER -> Continue(Below, Top.result)

\* A suspension outside the cleanups, where a cancelled scope interrupts.
Interruptible == stack # <<>> /\ Top.phase \in {"spawn", "body"}

\* The awaited creation settled: the body starts.
Spawned ==
    /\ ~scoped /\ stack # <<>> /\ Top.phase = "spawn" /\ State \in {"running", "exited"}
    /\ stack' = WithTop([Top EXCEPT !.phase = "body"])
    /\ UNCHANGED <<options, data, pc, proc, orphans, late, cancels, scoped, told, starts>>

\* The creation failed with an OSError, which leaves the frame.
SpawnFailed ==
    /\ ~scoped /\ stack # <<>> /\ Top.phase = "spawn" /\ State = "failed"
    /\ stack' = WithTop([Top EXCEPT !.phase = "settle", !.original = "error"])
    /\ UNCHANGED <<options, data, pc, proc, orphans, late, cancels, scoped, told, starts>>

\* communicate() of a command returns once the child has exited.
Communicated ==
    /\ ~scoped /\ stack # <<>> /\ Top.phase = "body"
    /\ Top.kind # "server" /\ State = "exited"
    /\ stack' = WithTop([Top EXCEPT !.phase = "settle"])
    /\ UNCHANGED <<options, data, pc, proc, orphans, late, cancels, scoped, told, starts>>

\* Mutant of Settle: the cleanup does not wait for a creation in progress.
SettleAtOnce ==
    /\ stack # <<>> /\ Top.phase = "settle"
    /\ \/ /\ State = "running"
          /\ stack' = WithTop([Top EXCEPT !.phase = "term"])
          /\ UNCHANGED <<pc, proc, told, orphans>>
       \/ State # "running" /\ _finish_cleanup(FALSE)
    /\ UNCHANGED <<options, data, late, cancels, scoped, starts>>

\* The cleanup task: creation must have settled; a child that still runs is
\* sent SIGTERM, one that has exited is reaped at once, and without a child
\* there is nothing to stop.
Settle ==
    /\ stack # <<>> /\ Top.phase = "settle"
    /\ \/ /\ State = "running"
          /\ stack' = WithTop([Top EXCEPT !.phase = "term"])
          /\ UNCHANGED <<pc, proc, told, orphans>>
       \/ State \in {"exited", "failed"} /\ _finish_cleanup(FALSE)
    /\ UNCHANGED <<options, data, late, cancels, scoped, starts>>

\* The waiter of _stop_process returns.
Reaped ==
    /\ stack # <<>> /\ Top.phase \in {"term", "kill"} /\ State = "exited"
    /\ _finish_cleanup(FALSE)
    /\ UNCHANGED <<options, data, late, cancels, scoped, starts>>

\* Mutant of ShutdownTimeout: the wait after SIGKILL is not bounded.
ShutdownTimeoutOnce ==
    /\ stack # <<>> /\ State = "running" /\ Top.phase = "term"
    /\ stack' = WithTop([Top EXCEPT !.phase = "kill"])
    /\ UNCHANGED <<options, data, pc, proc, orphans, late, cancels, scoped, told, starts>>

\* _SHUTDOWN_TIMEOUT passes: SIGKILL after SIGTERM, failure after SIGKILL.
ShutdownTimeout ==
    /\ stack # <<>> /\ State = "running" /\ Top.phase \in {"term", "kill"}
    /\ \/ /\ Top.phase = "term"
          /\ stack' = WithTop([Top EXCEPT !.phase = "kill"])
          /\ UNCHANGED <<pc, proc, told, orphans>>
       \/ Top.phase = "kill" /\ _finish_cleanup(TRUE)
    /\ UNCHANGED <<options, data, late, cancels, scoped, starts>>

\* A body is interrupted, and its cleanup begins.
Interrupt ==
    /\ stack' = WithTop([Top EXCEPT !.phase = "settle", !.original = "cancelled"])
    /\ UNCHANGED <<pc, proc, told>>

\* Task.cancel of the task the context runs in: a body is interrupted, a
\* cleanup goes on and remembers the cancellation.
Cancel ==
    /\ pc # "idle" /\ cancels < MaxCancels
    /\ cancels' = cancels + 1
    /\ CASE stack = <<>> -> Raise(<<>>, "cancelled", {})
         [] Interruptible -> Interrupt
         [] OTHER ->
                /\ stack' = WithTop([Top EXCEPT !.cancelled = TRUE])
                /\ UNCHANGED <<pc, proc, told>>
    /\ UNCHANGED <<options, data, orphans, late, scoped, starts>>

\* An AnyIO scope around the context is cancelled: a body is interrupted, and
\* a shielded cleanup goes on without noticing.
CancelScope ==
    /\ pc # "idle" /\ ~scoped
    /\ scoped' = TRUE
    /\ CASE stack = <<>> -> Raise(<<>>, "cancelled", {})
         [] Interruptible -> Interrupt
         [] OTHER -> UNCHANGED <<pc, stack, proc, told>>
    /\ UNCHANGED <<options, data, orphans, late, cancels, starts>>

\* AnyIO cancels the task at its first suspension after a shielded cleanup;
\* once the server is handed out, that is one of the caller's.
DeliverCancellation ==
    /\ scoped /\ Interruptible
    /\ Interrupt
    /\ UNCHANGED <<options, data, orphans, late, cancels, scoped, starts>>

\* The readiness deadline: the probe in flight is cancelled by its scope, one
\* that is being cleaned up is shielded from it.
DeadlinePasses ==
    /\ pc \in {"bootstrap", "start"} /\ ~late /\ Top.kind \in {"client", "server"}
    /\ Len(stack) = 2 \/ Top.phase = "body"
    /\ late' = TRUE
    /\ stack' = IF Len(stack) = 2 /\ Top.phase \in {"spawn", "body"}
                THEN WithTop([Top EXCEPT !.phase = "settle", !.original = "late"])
                ELSE stack
    /\ UNCHANGED <<options, data, pc, proc, orphans, cancels, scoped, told, starts>>

\* The caller's block ends, by itself or with an exception of its own.
Leave(exception) ==
    /\ pc = "serving" /\ Top.phase = "body"
    /\ stack' = WithTop([Top EXCEPT !.phase = "settle", !.original = exception])
    /\ UNCHANGED <<options, data, pc, proc, orphans, late, cancels, scoped, told, starts>>

----------------------------------------------------------------------------
(* The operating system and MariaDB, as the code uses them.                 *)

SpawnSettles ==
    /\ stack # <<>> /\ State = "spawning"
    /\ \E s \in {"running", "failed"} : proc' = [proc EXCEPT ![Len(proc)] = s]
    /\ UNCHANGED <<options, data, pc, stack, orphans, late, cancels, scoped, told, starts>>

\* What a command has done by the time it exits.
Done(kind) ==
    CASE kind = "install" -> [data EXCEPT !.files = "system"]
      [] pc = "bootstrap_sql" -> [data EXCEPT !.password = options.password]
      [] pc = "reset" -> [data EXCEPT !.tables = FALSE]
      [] OTHER -> data

\* A command exits: with success when its work is done, which for a client
\* takes a server that runs and a password it knows, or with a failure, when
\* the server may have done the work or not.  An interrupted installer leaves
\* any part of its files.
CommandExits ==
    /\ stack # <<>> /\ Top.kind # "server" /\ State = "running"
    /\ proc' = [proc EXCEPT ![Len(proc)] = "exited"]
    /\ \/ /\ Top.kind = "client" =>
             /\ proc[1] = "running"
             /\ pc # "bootstrap" /\ pc # "bootstrap_sql" /\ options.auth = "password"
                => data.password = options.password
          /\ data' = Done(Top.kind)
          /\ stack' = WithTop([Top EXCEPT !.result = "ok"])
       \/ /\ data' \in IF Top.kind = "install"
                       THEN {[data EXCEPT !.files = f] : f \in {"empty", "partial", "half"}}
                       ELSE {data, Done(Top.kind)}
          /\ stack' = WithTop([Top EXCEPT !.result = "bad"])
    /\ UNCHANGED <<options, pc, orphans, late, cancels, scoped, told, starts>>

\* mariadbd exits: told to, or by itself.
ServerExits ==
    /\ stack # <<>> /\ stack[1].kind = "server" /\ proc[1] = "running"
    /\ proc' = [proc EXCEPT ![1] = "exited"]
    /\ UNCHANGED <<options, data, pc, stack, orphans, late, cancels, scoped, told, starts>>

CallerCreatesTables ==
    /\ pc = "serving" /\ ~data.tables
    /\ data' = [data EXCEPT !.tables = TRUE]
    /\ UNCHANGED <<options, pc, stack, proc, orphans, late, cancels, scoped, told, starts>>
----------------------------------------------------------------------------
Cleanup == Spawned \/ SpawnFailed \/ Communicated \/ Settle \/ Reaped \/ ShutdownTimeout

Next ==
    \/ \E o \in Options : Enter(o)
    \/ _create_process_paths \/ CleanBeforeStart \/ _ensure_data_directory
    \/ _wait_until_ready
    \/ Cleanup
    \/ Cancel \/ CancelScope \/ DeliverCancellation \/ DeadlinePasses
    \/ \E x \in {"none", "error"} : Leave(x)
    \/ SpawnSettles \/ CommandExits \/ ServerExits \/ CallerCreatesTables

\* The event loop runs what is ready, timers fire, and the creation of a
\* process settles; nothing is assumed of the children themselves.
Fairness ==
    /\ WF_vars(Spawned) /\ WF_vars(SpawnFailed) /\ WF_vars(Communicated)
    /\ WF_vars(Settle) /\ WF_vars(Reaped) /\ WF_vars(ShutdownTimeout)
    /\ WF_vars(SpawnSettles)
    /\ WF_vars(DeadlinePasses) /\ WF_vars(_wait_until_ready)
    /\ WF_vars(DeliverCancellation)

Spec == Init /\ [][Next]_vars /\ Fairness

----------------------------------------------------------------------------
\* A mariadbd or an installer that outlives its owned_process has been
\* reported to the caller, whatever interrupted the process's creation, its
\* use or its cleanup, and however often: no start works on a data directory
\* that a process nobody was told of still writes.
OrphansAreReported ==
    \A kind \in {"install", "server"} : orphans[kind] > 0 => kind \in told.leaked

\* The context hands its server out only when nothing forbids it: its task was
\* not cancelled, not even while a successful probe was being cleaned up; the
\* readiness deadline was met; the password is the caller's, also on a
\* directory that an earlier start left with another one; and a reset that was
\* asked for has happened.  A cancelled scope may be pending: see LeavingEnds.
PublishIsEarned ==
    [][pc # "serving" /\ pc' = "serving" =>
         /\ cancels = 0 /\ ~late
         /\ options.auth = "password" => data.password = options.password
         /\ options.reset_database => ~data.tables]_vars

\* A context that is being left ends: however often it is cancelled again, and
\* even when the child ignores both signals.  So does one whose scope is
\* cancelled, also when every one of its own suspensions was shielded and the
\* server has been handed out with the cancellation pending.
LeavingEnds ==
    /\ (pc \in {"start", "serving"} /\ stack # <<>> /\ stack[1].phase \notin {"spawn", "body"})
           ~> pc = "idle"
    /\ scoped ~> pc = "idle"
=============================================================================
