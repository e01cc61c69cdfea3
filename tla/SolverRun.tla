------------------------------ MODULE SolverRun ------------------------------
(***************************************************************************)
(* One solver invocation: `invoke_solver_with_timeout` and `read_capped`   *)
(* in crates/pitbull-vc/src/solver.rs.                                     *)
(*                                                                         *)
(* Four threads of the wrapper take part: the caller, which polls the      *)
(* child against a kill deadline and then joins the others; a writer       *)
(* feeding the problem to the child's stdin; and one reader each for its   *)
(* stdout and its stderr, which stop past a cap.  The child is a process   *)
(* of its own, connected by three bounded pipes.                           *)
(*                                                                         *)
(* The problem is a number of directives, the last of them (check-sat).    *)
(* Output is a sequence of lines: a verdict, an "(error" report, or        *)
(* chatter.                                                                *)
(***************************************************************************)
EXTENDS Naturals, Sequences, FiniteSets

CONSTANTS
  Directives,    \* directives of the SMT problem
  PipeCap,       \* how much a pipe holds before its writer blocks
  OutCap,        \* STDOUT_CAP_BYTES, in lines
  ErrCap,        \* STDERR_CAP_BYTES, in lines
  MaxChatter,    \* bound: idle lines the child prints on either stream
  ChattyStderr,  \* whether the child may flood its stderr
  HelperMayStay  \* whether the program starts a process of its own that
                 \* inherits the pipes (a wrapper script around the solver)

ASSUME SolverRunAssumption ==
  /\ Directives \in Nat \ {0} /\ PipeCap \in Nat \ {0}
  /\ OutCap \in Nat \ {0} /\ ErrCap \in Nat \ {0}
  /\ MaxChatter \in Nat
  /\ ChattyStderr \in BOOLEAN /\ HelperMayStay \in BOOLEAN

VARIABLES
  pc,        \* the caller: start, poll, overdue, join or returned
  stopped,   \* why polling ended: "no" (child exited), "deadline", "trywait"
  expired,   \* the kill deadline has passed
  result,    \* the SolverResult, once returned
  child,     \* [state, exit]: the solver process
  helper,    \* a process left behind that holds the pipes open
  task,      \* the child's own progress: see Child below
  stdin,     \* directives in the stdin pipe
  writer,    \* [state, written]: the writer thread
  pipe,      \* stream |-> lines in the pipe
  reader     \* stream |-> [state, buf]: the reader threads

vars == <<pc, stopped, expired, result, child, helper, task, stdin, writer, pipe, reader>>

Stream == {"stdout", "stderr"}
Verdict == {"sat", "unsat", "unknown", "timeout"}
Line == Verdict \cup {"(error", "chatter"}
CapOf(s) == IF s = "stdout" THEN OutCap ELSE ErrCap

\* Someone still holds the child's ends of the pipes.
PipesHeld == child.state = "running" \/ helper = "alive"
-----------------------------------------------------------------------------
(***************************************************************************)
(* The child: an honest solver that reads the problem, may reject          *)
(* directives it finds malformed, may fail internally, may print chatter,  *)
(* may crash and may hang.  Honesty is the contract: a rejected directive  *)
(* is reported by an "(error" line, an internal failure by a non-zero      *)
(* exit, and without either the verdict is the truth about the problem.    *)
(***************************************************************************)
\* task.truth     what the whole problem is
\* task.consumed  directives read;  task.rejected  one was dropped
\* task.owes      an "(error" line not printed yet
\* task.broken    internal failure: any verdict, then a non-zero exit
\* task.answer    the verdict printed, or "none"
\* task.chatter   chatter lines printed

ChildUnchanged == UNCHANGED <<pc, stopped, expired, result, helper, writer, reader>>

ChildReads ==
  /\ child.state = "running" /\ ~ task.owes
  /\ stdin > 0
  /\ stdin' = stdin - 1
  /\ \E bad \in BOOLEAN :
       task' = [task EXCEPT !.consumed = @ + 1, !.rejected = @ \/ bad, !.owes = bad]
  /\ UNCHANGED <<child, pipe>> /\ ChildUnchanged

\* A write blocks on a full pipe, and kills the process (SIGPIPE) once the
\* reader has closed its end.
ChildPrints(s, line) ==
  /\ child.state = "running"
  /\ \/ /\ reader[s].state = "reading"
        /\ Len(pipe[s]) < PipeCap
        /\ pipe' = [pipe EXCEPT ![s] = Append(@, line)]
        /\ UNCHANGED child
     \/ /\ reader[s].state # "reading"
        /\ child' = [state |-> "exited", exit |-> "failed"]
        /\ UNCHANGED pipe
  /\ UNCHANGED stdin /\ ChildUnchanged

ChildReportsError ==
  /\ task.owes
  /\ \E s \in Stream : ChildPrints(s, "(error")
  /\ task' = [task EXCEPT !.owes = FALSE]

ChildAnswers ==
  /\ ~ task.owes /\ task.consumed = Directives /\ task.answer = "none"
  /\ \E v \in Verdict, broken \in BOOLEAN :
       /\ ~ task.rejected /\ ~ broken => v \in {task.truth, "unknown", "timeout"}
       /\ ChildPrints("stdout", v)
       /\ task' = [task EXCEPT !.answer = v, !.broken = broken]

ChildChatters ==
  /\ ~ task.owes /\ task.chatter < MaxChatter
  /\ \E s \in Stream : /\ s = "stderr" => ChattyStderr
                       /\ ChildPrints(s, "chatter")
  /\ task' = [task EXCEPT !.chatter = @ + 1]

\* It may crash at any point; it exits cleanly only having answered, with no
\* error left to report.
ChildExits ==
  /\ child.state = "running"
  /\ \E exit \in {"clean", "failed"} :
       /\ exit = "clean" => task.answer # "none" /\ ~ task.owes /\ ~ task.broken
       /\ child' = [state |-> "exited", exit |-> exit]
  /\ UNCHANGED <<task, stdin, pipe>> /\ ChildUnchanged

HelperExits ==
  /\ helper = "alive"
  /\ helper' = "none"
  /\ UNCHANGED <<pc, stopped, expired, result, child, task, stdin, writer, pipe, reader>>

Child == \/ ChildReads \/ ChildReportsError \/ ChildAnswers \/ ChildChatters
         \/ ChildExits \/ HelperExits
-----------------------------------------------------------------------------
(***************************************************************************)
(* The threads of the wrapper.                                             *)
(***************************************************************************)
Start ==
  /\ pc = "start"
  /\ \/ /\ pc' = "poll"
        /\ child' = [state |-> "running", exit |-> "none"]
        /\ helper' \in IF HelperMayStay THEN {"none", "alive"} ELSE {"none"}
        /\ writer' = [writer EXCEPT !.state = "writing"]
        /\ reader' = [s \in Stream |-> [state |-> "reading", buf |-> <<>>]]
        /\ UNCHANGED result
     \* The input is over SMT_INPUT_CAP_BYTES, the program is not found, or
     \* spawning it fails some other way.
     \/ /\ pc' = "returned"
        /\ result' \in {"error", "not-installed"}
        /\ UNCHANGED <<child, helper, writer, reader>>
  /\ UNCHANGED <<stopped, expired, task, stdin, pipe>>

WriterWrites ==
  /\ writer.state = "writing"
  /\ \/ /\ writer.written < Directives /\ PipesHeld /\ stdin < PipeCap
        /\ stdin' = stdin + 1
        /\ writer' = [writer EXCEPT !.written = @ + 1]
     \/ /\ writer.written = Directives
        /\ writer' = [writer EXCEPT !.state = "ok"]
        /\ UNCHANGED stdin
     \/ /\ writer.written < Directives /\ ~ PipesHeld
        /\ writer' = [writer EXCEPT !.state = "brokenpipe"]
        /\ UNCHANGED stdin
  /\ UNCHANGED <<pc, stopped, expired, result, child, helper, task, pipe, reader>>

\* Any other I/O error, or a panic of the thread.
WriterFails ==
  /\ writer.state = "writing" /\ writer.written < Directives
  /\ writer' = [writer EXCEPT !.state = "error"]
  /\ UNCHANGED <<pc, stopped, expired, result, child, helper, task, stdin, pipe, reader>>

\* Variant, used only to test the properties: the cap is off by one.
ReadsPastCap(s) ==
  /\ reader[s].state = "reading"
  /\ \/ /\ pipe[s] # <<>>
        /\ pipe' = [pipe EXCEPT ![s] = Tail(@)]
        /\ reader' = IF Len(reader[s].buf) > CapOf(s)
                     THEN [reader EXCEPT ![s].state = "capped"]
                     ELSE [reader EXCEPT ![s].buf = Append(@, Head(pipe[s]))]
     \/ /\ pipe[s] = <<>> /\ ~ PipesHeld
        /\ reader' = [reader EXCEPT ![s].state = "eof"]
        /\ UNCHANGED pipe
  /\ UNCHANGED <<pc, stopped, expired, result, child, helper, task, stdin, writer>>

\* read_capped: one line past the cap is read to tell truncation from EOF.
ReaderReads(s) ==
  /\ reader[s].state = "reading"
  /\ \/ /\ pipe[s] # <<>>
        /\ pipe' = [pipe EXCEPT ![s] = Tail(@)]
        /\ reader' = IF Len(reader[s].buf) = CapOf(s)
                     THEN [reader EXCEPT ![s].state = "capped"]
                     ELSE [reader EXCEPT ![s].buf = Append(@, Head(pipe[s]))]
     \/ /\ pipe[s] = <<>> /\ ~ PipesHeld
        /\ reader' = [reader EXCEPT ![s].state = "eof"]
        /\ UNCHANGED pipe
  /\ UNCHANGED <<pc, stopped, expired, result, child, helper, task, stdin, writer>>

ReaderFails(s) ==
  /\ reader[s].state = "reading"
  /\ reader' = [reader EXCEPT ![s].state = "error"]
  /\ UNCHANGED <<pc, stopped, expired, result, child, helper, task, stdin, writer, pipe>>

Tick ==
  /\ pc = "poll" /\ ~ expired
  /\ expired' = TRUE
  /\ UNCHANGED <<pc, stopped, result, child, helper, task, stdin, writer, pipe, reader>>

\* Variant, used only to test the properties: no deadline.
PollForever ==
  /\ pc = "poll" /\ child.state = "exited"
  /\ stopped' = "no" /\ pc' = "join"
  /\ UNCHANGED <<expired, result, child, helper, task, stdin, writer, pipe, reader>>

\* try_wait returned a status, or an error (the child is killed and reaped).
Poll ==
  /\ pc = "poll"
  /\ \/ /\ child.state = "exited"
        /\ stopped' = "no" /\ pc' = "join"
        /\ UNCHANGED child
     \/ /\ child.state = "running" /\ expired
        /\ pc' = "overdue"
        /\ UNCHANGED <<child, stopped>>
     \/ /\ stopped' = "trywait" /\ pc' = "join"
        /\ child' = IF child.state = "running"
                    THEN [state |-> "exited", exit |-> "killed"] ELSE child
  /\ UNCHANGED <<expired, result, helper, task, stdin, writer, pipe, reader>>

\* kill and wait: the child may have exited since try_wait looked.
Kill ==
  /\ pc = "overdue"
  /\ child' = IF child.state = "running"
              THEN [state |-> "exited", exit |-> "killed"] ELSE child
  /\ stopped' = "deadline" /\ pc' = "join"
  /\ UNCHANGED <<expired, result, helper, task, stdin, writer, pipe, reader>>

\* Variant, used only to test the properties: some threads are not joined, or none.
ReadersDone == \A s \in Stream : reader[s].state # "reading"
NoJoin == TRUE

\* The three joins block until the threads are through.
ThreadsDone ==
  /\ writer.state # "writing"
  /\ \A s \in Stream : reader[s].state # "reading"

Verdicts(lines) == {k \in DOMAIN lines : lines[k] \in Verdict}
\* Variant, used only to test the properties: nobody looks for (error lines.
ErrorsIgnored(lines) == FALSE

ReportsError(lines) == \E k \in DOMAIN lines : lines[k] = "(error"

\* The refusals, in any order: each of them is an Error (a deadline is a
\* Timeout only if both readers succeeded).
Interpretation ==
  LET out == reader["stdout"].buf
      err == reader["stderr"].buf
  IN  IF stopped = "trywait" \/ \E s \in Stream : reader[s].state = "error"
        THEN "error"
      ELSE IF stopped = "deadline" THEN "timeout"
      ELSE IF \/ writer.state = "error"
              \/ reader["stdout"].state = "capped"
              \/ Cardinality(Verdicts(out)) # 1
              \/ ReportsError(out) \/ ReportsError(err)
              \/ child.exit # "clean"
        THEN "error"
      ELSE out[CHOOSE k \in Verdicts(out) : TRUE]

Interpret ==
  /\ pc = "join" /\ ThreadsDone
  /\ result' = Interpretation
  /\ pc' = "returned"
  /\ UNCHANGED <<stopped, expired, child, helper, task, stdin, writer, pipe, reader>>

\* The call has returned; a helper left behind may still end.
Returned == pc = "returned" /\ UNCHANGED vars

Wrapper == \/ Start \/ Poll \/ Kill \/ Interpret
           \/ WriterWrites
           \/ \E s \in Stream : ReaderReads(s)

Init ==
  /\ pc = "start" /\ stopped = "no" /\ expired = FALSE /\ result = "none"
  /\ child = [state |-> "absent", exit |-> "none"]
  /\ helper = "none"
  /\ \E truth \in {"sat", "unsat"} :
       task = [truth |-> truth, consumed |-> 0, rejected |-> FALSE, owes |-> FALSE,
               broken |-> FALSE, answer |-> "none", chatter |-> 0]
  /\ stdin = 0
  /\ writer = [state |-> "idle", written |-> 0]
  /\ pipe = [s \in Stream |-> <<>>]
  /\ reader = [s \in Stream |-> [state |-> "idle", buf |-> <<>>]]

Next == \/ Wrapper \/ Child \/ Tick \/ Returned
        \/ WriterFails \/ \E s \in Stream : ReaderFails(s)

\* The wrapper's threads run and time passes; nothing is assumed of the child.
Fairness ==
  /\ WF_vars(Start) /\ WF_vars(Poll) /\ WF_vars(Kill) /\ WF_vars(Interpret)
  /\ WF_vars(WriterWrites) /\ WF_vars(ReaderReads("stdout"))
  /\ WF_vars(ReaderReads("stderr")) /\ WF_vars(Tick)

Spec == Init /\ [][Next]_vars /\ Fairness
-----------------------------------------------------------------------------
ProcessType == [state : {"absent", "running", "exited"},
                exit : {"none", "clean", "failed", "killed"}]
TaskType    == [truth : {"sat", "unsat"}, consumed : 0..Directives,
                rejected : BOOLEAN, owes : BOOLEAN, broken : BOOLEAN,
                answer : Verdict \cup {"none"}, chatter : 0..MaxChatter]
WriterType  == [state : {"idle", "writing", "ok", "brokenpipe", "error"},
                written : 0..Directives]
ReaderType  == [state : {"idle", "reading", "eof", "capped", "error"}, buf : Seq(Line)]

\* Type correctness; the pipes and the captured output respect their bounds.
TypeOK ==
  /\ pc \in {"start", "poll", "overdue", "join", "returned"}
  /\ stopped \in {"no", "deadline", "trywait"} /\ expired \in BOOLEAN
  /\ result \in {"none", "sat", "unsat", "unknown", "timeout", "error", "not-installed"}
  /\ child \in ProcessType /\ helper \in {"none", "alive"}
  /\ task \in TaskType /\ writer \in WriterType
  /\ stdin \in 0..PipeCap
  /\ pipe \in [Stream -> Seq(Line)] /\ reader \in [Stream -> ReaderType]
  /\ \A s \in Stream : Len(pipe[s]) <= PipeCap /\ Len(reader[s].buf) <= CapOf(s)

\* A decisive answer is proof: whatever the child rejected, however it failed
\* or was cut off, sat and unsat are returned only when they are the truth
\* about the whole problem.
VerdictIsTruth == result \in {"sat", "unsat"} => result = task.truth

\* Nothing outlives the call: on every path the child is reaped and the three
\* threads are joined.
NothingLeaks ==
  pc = "returned" =>
    /\ child.state # "running"
    /\ writer.state # "writing"
    /\ \A s \in Stream : reader[s].state # "reading"

\* Nothing is lost either: a child that read everything, printed its verdict
\* and exited cleanly before the deadline, with no I/O failure and no excess
\* output, is heard - however the pipes and the threads interleaved.
CleanAnswerIsHeard ==
  /\ pc = "returned" /\ stopped = "no" /\ child.exit = "clean"
  /\ ~ task.rejected
  /\ writer.state # "error"
  /\ \A s \in Stream : reader[s].state \in {"eof", "capped"}
  /\ reader["stdout"].state = "eof"
  => result = task.answer

\* Every invocation returns, also when the child hangs, stops reading, or
\* floods its output - unless a process the child left behind holds the pipes
\* for ever, for the joins have no deadline of their own.
ReturnsUnlessHeld == <>[](helper = "none") => <>(pc = "returned")
=============================================================================
