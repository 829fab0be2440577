------------------------------- MODULE Harness -------------------------------
(***************************************************************************)
(* One run of ProcessHarness.start (harness/process.py): a generator that  *)
(* spawns a child process and yields an event for every line the child     *)
(* prints, then one event of its own that says how the run ended.          *)
(*                                                                         *)
(* at says where the generator stands: not started ("new"), suspended at   *)
(* a yield ("suspended", or "final" for its last event), blocked on the    *)
(* child's output ("reading") or on its exit ("waiting"), or "over".  Its  *)
(* consumer resumes it, abandons it (an exception in the consumer's loop   *)
(* drops the generator) or, between two resumptions, calls cancel().  The  *)
(* child writes, closes its output and exits whenever it likes.            *)
(***************************************************************************)
EXTENDS Integers, Sequences

CONSTANTS
    Kind,        \* what the child's lines parse to (_parse_line), members of HarnessEventKind
    Garbled,     \* a line that ends the loop in a ValueError: it is not UTF-8, or
                 \* json.loads refuses a number of more digits than int() takes
    ChildLines,  \* the lines the child may print
    max_turns,   \* the budget's max_turns, 0 for None
    deadline,    \* the budget's deadline_s, in ticks, 0 for None
    PipeSize,    \* lines the pipe takes before the child blocks
    MaxLines,    \* bound: lines the child prints
    MaxNow       \* bound: the clock stops here

Turns    == {"message", "tool_call"}
Verdicts == {"completed", "failed", "cancelled"}

ASSUME HarnessAssumption ==
    /\ Kind \subseteq Turns \cup Verdicts \cup
                      {"spawned", "tool_result", "usage", "hitl_required"}
    /\ Garbled \notin Kind /\ ChildLines \subseteq Kind \cup {Garbled}
    /\ max_turns \in Nat /\ deadline \in Nat
    /\ PipeSize \in Nat \ {0} /\ MaxLines \in Nat /\ MaxNow \in Nat

VARIABLES
    \* ProcessHarness and the locals of its generator.
    at, turns, started, cancelled,
    held,     \* _proc is not None
    event,    \* the event last yielded: its kind, and whose it is
    \* The child and the pipe to it.
    child,    \* "none", "alive" or "dead"
    code,     \* how it exited: "ok" is returncode 0, "error" any other
    pipe,     \* the lines printed and not read
    printed,  \* how many it printed; not read by the program
    eof,      \* the child's end of the pipe is closed
    open,     \* the harness's end is open
    now

generator == <<at, turns, started, cancelled, held, event>>
process   == <<child, code, pipe, printed, eof>>
hvars     == <<generator, process, open, now>>

Event(kind, by) == [kind |-> kind, by |-> by]
NoEvent == Event("none", "none")

HarnessInit ==
    /\ at = "over" /\ turns = 0 /\ started = 0 /\ cancelled = FALSE /\ held = FALSE
    /\ event = NoEvent
    /\ child = "none" /\ code = "none" /\ pipe = <<>> /\ printed = 0 /\ eof = FALSE
    /\ open = FALSE /\ now = 0

-----------------------------------------------------------------------------
(* Pieces of the generator. *)

ExceededLate == \* mutant: one turn too many
    \/ max_turns # 0 /\ turns > max_turns
    \/ deadline # 0 /\ now - started > deadline

\* _budget_exceeded; max_tokens is never looked at.
Exceeded == \/ max_turns # 0 /\ turns >= max_turns
            \/ deadline # 0 /\ now - started > deadline

LeavesChild == \* mutant: the streams are closed, the child is not terminated
    /\ held' = FALSE /\ open' = FALSE
    /\ UNCHANGED process

\* _cleanup: a child that still lives is terminated, in the end killed; both
\* streams are closed.  What the child had printed is lost.
Cleanup ==
    IF held
    THEN /\ held' = FALSE /\ open' = FALSE
         /\ child' = "dead" /\ eof' = TRUE /\ pipe' = <<>>
         /\ code' = IF child = "alive" THEN "error" ELSE code
         /\ UNCHANGED printed
    ELSE UNCHANGED <<held, open, process>>

Yields(place, kind, by) == at' = place /\ event' = Event(kind, by)

WaitsAnyway == \* mutant: a cancelled run is reported by its exit code
    /\ at' = "waiting" /\ UNCHANGED event

\* After the loop over the lines, however it ended.
AfterLoop == \/ cancelled /\ Yields("final", "cancelled", "cancel")
             \/ ~cancelled /\ at' = "waiting" /\ UNCHANGED event

-----------------------------------------------------------------------------
(* start() called: nothing of it runs before the first resumption.  The harness *)
(* is a new one; a child some earlier run left behind is not followed further.   *)

NewGenerator ==
    /\ at' = "new" /\ turns' = 0 /\ started' = 0 /\ cancelled' = FALSE /\ held' = FALSE
    /\ event' = NoEvent
    /\ child' = "none" /\ code' = "none" /\ pipe' = <<>> /\ printed' = 0 /\ eof' = FALSE
    /\ open' = FALSE
    /\ UNCHANGED now

\* The first resumption: a cancel() before it is forgotten.
Spawn ==
    /\ at = "new"
    /\ cancelled' = FALSE
    /\ held' = TRUE /\ open' = TRUE /\ child' = "alive"
    /\ Yields("suspended", "spawned", "harness")
    /\ UNCHANGED <<turns, started, code, pipe, printed, eof, now>>

\* Popen, or the argv builder before it, raises.
SpawnFails ==
    /\ at = "new" /\ at' = "over"
    /\ UNCHANGED <<turns, cancelled, started, held, event, process, open, now>>

\* next() after "spawned": the budget's clock starts here.
ResumeSpawned ==
    /\ at = "suspended" /\ event.by = "harness"
    /\ started' = now /\ at' = "reading"
    /\ UNCHANGED <<turns, cancelled, held, event, process, open, now>>

\* next() after the event of a line, within the budget.
ResumeReading ==
    /\ at = "suspended" /\ event.by = "child" /\ ~Exceeded
    /\ at' = "reading"
    /\ UNCHANGED <<turns, started, cancelled, held, event, process, open, now>>

\* next() after the event of a line that used the budget up.
ResumeExceeded ==
    /\ at = "suspended" /\ event.by = "child" /\ Exceeded
    /\ cancelled' = TRUE /\ Cleanup
    /\ Yields("final", "failed", "budget")
    /\ UNCHANGED <<turns, started, now>>

ReadLine ==
    /\ at = "reading" /\ open
    /\ pipe # <<>> /\ Head(pipe) # Garbled
    /\ pipe' = Tail(pipe)
    /\ turns' = IF Head(pipe) \in Turns THEN turns + 1 ELSE turns
    /\ Yields("suspended", Head(pipe), "child")
    /\ UNCHANGED <<started, cancelled, held, child, code, printed, eof, open, now>>

ReadUntilExit == \* mutant: the loop ends with the child, not with its output
    /\ at = "reading" /\ open /\ eof
    /\ AfterLoop
    /\ UNCHANGED <<turns, started, cancelled, held, process, open, now>>

\* The iteration ends at the end of the output ...
ReadEof ==
    /\ at = "reading" /\ open /\ eof /\ pipe = <<>>
    /\ AfterLoop
    /\ UNCHANGED <<turns, started, cancelled, held, process, open, now>>

ReadUndisturbed == \* mutant: closing the stream does not wake the reader
    /\ at = "reading" /\ open
    /\ \E i \in 1..Len(pipe) : pipe[i] = Garbled
    /\ AfterLoop
    /\ UNCHANGED <<turns, started, cancelled, held, process, open, now>>

\* ... or in a ValueError, which the code takes for a stream that cancel() closed.  A
\* UnicodeDecodeError of the chunk read ahead is one too, and so is what json.loads
\* raises of an overlong number.  (The RecursionError of a line nested too deep is none:
\* it would leave run(), and is left out.)
ReadRaises ==
    /\ at = "reading"
    /\ ~open \/ \E i \in 1..Len(pipe) : pipe[i] = Garbled
    /\ AfterLoop
    /\ UNCHANGED <<turns, started, cancelled, held, process, open, now>>

\* proc.wait() returns.
Collect ==
    /\ at = "waiting" /\ child = "dead"
    /\ Yields("final", IF code = "ok" THEN "completed" ELSE "failed", "exit")
    /\ UNCHANGED <<turns, started, cancelled, held, process, open, now>>

FinishUncleaned == \* mutant: no finally clause
    /\ at = "final" /\ at' = "over"
    /\ UNCHANGED <<turns, started, cancelled, event, held, process, open, now>>

\* next() after the last event: StopIteration, by way of the finally clause.
Finish ==
    /\ at = "final" /\ at' = "over"
    /\ Cleanup
    /\ UNCHANGED <<turns, started, cancelled, event, now>>

\* The consumer drops the generator.  The yield of "spawned" is outside the try
\* statement, so there the finally clause does not run: the pipe is closed with
\* its file object, the child is left alone.
Abandon ==
    /\ at \in {"suspended", "final"} /\ at' = "over"
    /\ \/ /\ event.by = "harness"
          /\ open' = FALSE /\ held' = FALSE /\ UNCHANGED process
       \/ event.by # "harness" /\ Cleanup
    /\ UNCHANGED <<turns, started, cancelled, event, now>>

\* cancel(), called by the consumer between two resumptions.
Cancel ==
    /\ at \in {"new", "suspended", "final"}
    /\ cancelled' = TRUE /\ Cleanup
    /\ UNCHANGED <<at, turns, started, event, now>>

-----------------------------------------------------------------------------
(* The child (external to the repository) and the clock. *)

Prints(line) ==
    /\ child = "alive" /\ ~eof /\ open
    /\ Len(pipe) < PipeSize /\ printed < MaxLines
    /\ pipe' = Append(pipe, line) /\ printed' = printed + 1
    /\ UNCHANGED <<generator, child, code, eof, open, now>>

ClosesOutput ==
    /\ child = "alive" /\ ~eof
    /\ eof' = TRUE
    /\ UNCHANGED <<generator, child, code, pipe, printed, open, now>>

\* With an exit code of its own, or because the harness's end of the pipe is gone.
Exits(how) ==
    /\ child = "alive"
    /\ child' = "dead" /\ eof' = TRUE /\ code' = how
    /\ UNCHANGED <<generator, pipe, printed, open, now>>

Child == \/ \E line \in ChildLines : Prints(line)
         \/ ClosesOutput
         \/ \E how \in {"ok", "error"} : Exits(how)

Passes == now < MaxNow /\ now' = now + 1 /\ UNCHANGED <<generator, process, open>>
===============================================================================
