--------------------------- MODULE SolverRun_proofs ---------------------------
(***************************************************************************)
(* Proofs about one solver invocation, for every size of the problem, of   *)
(* the pipes and of the caps, and every interleaving of the wrapper's      *)
(* threads with the child.                                                 *)
(***************************************************************************)
EXTENDS SolverRun, TLAPS, FiniteSetTheorems

(***************************************************************************)
(* The life of the call, the child and the threads.                        *)
(***************************************************************************)

\* Nothing exists before the call has started, nothing but a helper is left
\* when the joins are through, and what has been read was written.
Lifecycle ==
  /\ stdin + task.consumed = writer.written
  /\ pc \in {"start", "returned"} \/ child.state # "absent"
  /\ pc = "start" => child.state = "absent"
  /\ pc \in {"join", "returned"} => child.state # "running"
  /\ child.state = "absent" =>
       /\ child.exit = "none" /\ writer.state = "idle" /\ helper = "none"
       /\ \A s \in Stream : reader[s].state = "idle"
       /\ ~ task.rejected /\ ~ task.owes /\ task.answer = "none"
  /\ child.state = "running" => child.exit = "none"
  /\ child.state # "absent" => \A s \in Stream : reader[s].state # "idle"
  /\ pc = "returned" => ThreadsDone
  /\ pc # "returned" => result = "none"
  /\ pc = "returned" /\ child.state = "absent" => result \in {"error", "not-installed"}

SafeInv == TypeOK /\ Lifecycle

\* Each step keeps the two.
LEMMA PrintsSafely ==
  ASSUME SafeInv, NEW s \in Stream, NEW line \in Line, ChildPrints(s, line),
         child.state = "running"
  PROVE  /\ pipe' \in [Stream -> Seq(Line)] /\ reader' = reader
         /\ \A t \in Stream : Len(pipe'[t]) <= PipeCap
         /\ child' \in {child, [state |-> "exited", exit |-> "failed"]}
<1>1. CASE UNCHANGED pipe
  BY <1>1 DEF SafeInv, TypeOK, ChildPrints, ChildUnchanged
<1>2. CASE pipe' = [pipe EXCEPT ![s] = Append(@, line)] /\ Len(pipe[s]) < PipeCap
  <2>1. pipe[s] \in Seq(Line) /\ Append(pipe[s], line) \in Seq(Line)
        /\ Len(Append(pipe[s], line)) = Len(pipe[s]) + 1
    BY DEF SafeInv, TypeOK
  <2> QED
    BY <1>2, <2>1, SolverRunAssumption DEF SafeInv, TypeOK, ChildPrints, ChildUnchanged
<1> QED
  BY <1>1, <1>2 DEF ChildPrints

LEMMA SafeInvIsInductive == SafeInv /\ [Next]_vars => SafeInv'
<1> SUFFICES ASSUME SafeInv, [Next]_vars PROVE SafeInv'
  OBVIOUS
<1> USE SolverRunAssumption
<1>1. CASE ChildReads
  <2>1. PICK bad \in BOOLEAN :
          task' = [task EXCEPT !.consumed = @ + 1, !.rejected = @ \/ bad, !.owes = bad]
    BY <1>1 DEF ChildReads
  <2>2. stdin' = stdin - 1 /\ stdin' \in 0..PipeCap /\ child.state = "running"
        /\ UNCHANGED <<pc, stopped, expired, result, child, helper, writer, pipe, reader>>
    BY <1>1 DEF ChildReads, ChildUnchanged, SafeInv, TypeOK
  <2>3. task.consumed + 1 \in 0..Directives /\ (task.rejected \/ bad) \in BOOLEAN
    BY <1>1 DEF ChildReads, SafeInv, TypeOK, Lifecycle, WriterType, TaskType
  <2>4. task' \in TaskType /\ task'.consumed = task.consumed + 1
    BY <2>1, <2>3 DEF SafeInv, TypeOK, TaskType
  <2>5. TypeOK'
    BY <2>2, <2>4 DEF SafeInv, TypeOK
  <2>6. stdin' + task'.consumed = writer'.written
    BY <2>2, <2>4 DEF SafeInv, TypeOK, Lifecycle, TaskType, WriterType
  <2> QED
    BY <2>2, <2>5, <2>6 DEF SafeInv, Lifecycle, ThreadsDone
<1>2. ASSUME NEW s \in Stream, NEW line \in Line, ChildPrints(s, line),
             task' \in TaskType, task'.consumed = task.consumed
      PROVE  SafeInv'
  <2>1. /\ pipe' \in [Stream -> Seq(Line)] /\ reader' = reader
        /\ \A t \in Stream : Len(pipe'[t]) <= PipeCap
        /\ child' \in {child, [state |-> "exited", exit |-> "failed"]}
    BY <1>2, PrintsSafely DEF ChildPrints
  <2>2. child.state = "running" /\ UNCHANGED <<stdin, pc, stopped, expired, result, helper, writer>>
    BY <1>2 DEF ChildPrints, ChildUnchanged
  <2>3. TypeOK'
    BY <1>2, <2>1, <2>2 DEF SafeInv, TypeOK, ProcessType
  <2> QED
    BY <1>2, <2>1, <2>2, <2>3 DEF SafeInv, Lifecycle, ThreadsDone
<1>3. CASE ChildReportsError \/ ChildAnswers \/ ChildChatters
  <2>1. task' \in TaskType /\ task'.consumed = task.consumed
    <3>1. CASE ChildReportsError
      BY <3>1 DEF ChildReportsError, SafeInv, TypeOK, TaskType
    <3>2. CASE ChildAnswers
      <4>1. PICK v \in Verdict, broken \in BOOLEAN :
              task' = [task EXCEPT !.answer = v, !.broken = broken]
        BY <3>2 DEF ChildAnswers
      <4> QED
        BY <4>1 DEF SafeInv, TypeOK, TaskType
    <3>3. CASE ChildChatters
      <4>1. task' = [task EXCEPT !.chatter = @ + 1] /\ task.chatter < MaxChatter
        BY <3>3 DEF ChildChatters
      <4>2. task \in TaskType /\ task.chatter \in 0..MaxChatter
        BY DEF SafeInv, TypeOK, TaskType
      <4>3. task.chatter + 1 \in 0..MaxChatter
        BY <4>1, <4>2
      <4> QED
        BY <4>1, <4>2, <4>3 DEF TaskType
    <3> QED
      BY <1>3, <3>1, <3>2, <3>3
  <2>2. \E s \in Stream, line \in Line : ChildPrints(s, line)
    BY <1>3 DEF ChildReportsError, ChildAnswers, ChildChatters, Line, Stream
  <2> QED
    BY <1>2, <2>1, <2>2
<1>5. CASE ChildExits
  BY <1>5 DEF ChildExits, ChildUnchanged, SafeInv, TypeOK, Lifecycle, ThreadsDone, ProcessType
<1>6. CASE HelperExits
  BY <1>6 DEF HelperExits, SafeInv, TypeOK, Lifecycle, ThreadsDone
<1>7. CASE Start
  <2>1. CASE pc' = "poll"
    <3>1. /\ writer' \in WriterType /\ writer'.state = "writing"
          /\ writer'.written = writer.written
      BY <1>7, <2>1 DEF Start, SafeInv, TypeOK, WriterType
    <3>2. /\ reader' \in [Stream -> ReaderType]
          /\ \A s \in Stream : reader'[s].state = "reading" /\ Len(reader'[s].buf) = 0
      <4>1. <<>> \in Seq(Line) /\ Len(<<>>) = 0
        OBVIOUS
      <4>2. reader' = [s \in Stream |-> [state |-> "reading", buf |-> <<>>]]
        BY <1>7, <2>1 DEF Start
      <4> QED
        BY <4>1, <4>2 DEF ReaderType
    <3>3. child' \in ProcessType /\ child'.state = "running" /\ child'.exit = "none"
      BY <1>7, <2>1 DEF Start, ProcessType
    <3>4. pc = "start" /\ UNCHANGED <<stopped, expired, task, stdin, pipe, result>>
          /\ helper' \in {"none", "alive"}
      BY <1>7, <2>1 DEF Start
    <3>5. TypeOK'
      BY <2>1, <3>1, <3>2, <3>3, <3>4 DEF SafeInv, TypeOK, CapOf
    <3> QED
      BY <2>1, <3>1, <3>2, <3>3, <3>4, <3>5 DEF SafeInv, Lifecycle, ThreadsDone
  <2>2. CASE pc' # "poll"
    BY <1>7, <2>2 DEF Start, SafeInv, TypeOK, Lifecycle, ThreadsDone, Stream
  <2> QED
    BY <2>1, <2>2
<1>8. CASE WriterWrites
  BY <1>8 DEF WriterWrites, WriterType, TaskType, SafeInv, TypeOK, Lifecycle, ThreadsDone, PipesHeld
<1>9. CASE WriterFails
  BY <1>9 DEF WriterFails, WriterType, TaskType, SafeInv, TypeOK, Lifecycle, ThreadsDone
<1>10. ASSUME NEW s \in Stream, ReaderReads(s) PROVE SafeInv'
  <2>1. CASE pipe[s] # <<>>
    <3>1. /\ pipe[s] \in Seq(Line) /\ Head(pipe[s]) \in Line /\ Tail(pipe[s]) \in Seq(Line)
          /\ Len(Tail(pipe[s])) = Len(pipe[s]) - 1
      BY <2>1 DEF SafeInv, TypeOK
    <3>2. pipe' = [pipe EXCEPT ![s] = Tail(@)] /\ reader[s].state = "reading"
      BY <1>10, <2>1 DEF ReaderReads
    <3>3. pipe' \in [Stream -> Seq(Line)] /\ \A t \in Stream : Len(pipe'[t]) <= PipeCap
      BY <3>1, <3>2 DEF SafeInv, TypeOK
    <3>4. CASE Len(reader[s].buf) = CapOf(s)
      <4>1. reader' = [reader EXCEPT ![s].state = "capped"]
        BY <1>10, <2>1, <3>4 DEF ReaderReads
      <4>2. /\ reader' \in [Stream -> ReaderType]
            /\ \A t \in Stream : reader'[t].buf = reader[t].buf
            /\ \A t \in Stream : reader[t].state # "idle" => reader'[t].state # "idle"
        BY <4>1 DEF SafeInv, TypeOK, ReaderType
      <4> QED
        BY <1>10, <3>2, <3>3, <4>2 DEF ReaderReads, SafeInv, TypeOK, Lifecycle, ThreadsDone
    <3>5. CASE Len(reader[s].buf) # CapOf(s)
      <4> DEFINE b == Append(reader[s].buf, Head(pipe[s]))
      <4>1. reader' = [reader EXCEPT ![s].buf = b]
        BY <1>10, <2>1, <3>5 DEF ReaderReads
      <4>2. reader[s].buf \in Seq(Line) /\ b \in Seq(Line) /\ Len(b) = Len(reader[s].buf) + 1
        BY <3>1 DEF SafeInv, TypeOK, ReaderType
      <4>3. CapOf(s) \in Nat /\ Len(reader[s].buf) <= CapOf(s) /\ Len(reader[s].buf) \in Nat
        BY <4>2 DEF SafeInv, TypeOK, CapOf
      <4>4. Len(b) <= CapOf(s)
        BY <3>5, <4>2, <4>3
      <4> HIDE DEF b
      <4>5. /\ reader' \in [Stream -> ReaderType]
            /\ \A t \in Stream : reader'[t].state = reader[t].state
            /\ reader'[s].buf = b /\ \A t \in Stream \ {s} : reader'[t].buf = reader[t].buf
        BY <4>1, <4>2 DEF SafeInv, TypeOK, ReaderType
      <4>6. \A t \in Stream : Len(reader'[t].buf) <= CapOf(t)
        BY <4>4, <4>5 DEF SafeInv, TypeOK
      <4> QED
        BY <1>10, <3>3, <4>5, <4>6 DEF ReaderReads, SafeInv, TypeOK, Lifecycle, ThreadsDone
    <3> QED
      BY <3>4, <3>5
  <2>2. CASE pipe[s] = <<>>
    <3>1. reader' = [reader EXCEPT ![s].state = "eof"] /\ UNCHANGED pipe
      BY <1>10, <2>2 DEF ReaderReads
    <3>2. /\ reader' \in [Stream -> ReaderType]
          /\ \A t \in Stream : reader'[t].buf = reader[t].buf
          /\ \A t \in Stream : reader[t].state # "idle" => reader'[t].state # "idle"
      BY <3>1 DEF SafeInv, TypeOK, ReaderType
    <3> QED
      BY <1>10, <3>1, <3>2 DEF ReaderReads, SafeInv, TypeOK, Lifecycle, ThreadsDone
  <2> QED
    BY <2>1, <2>2
<1>11. ASSUME NEW s \in Stream, ReaderFails(s) PROVE SafeInv'
  <2>1. reader' = [reader EXCEPT ![s].state = "error"]
    BY <1>11 DEF ReaderFails
  <2>2. /\ reader' \in [Stream -> ReaderType]
        /\ \A t \in Stream : reader'[t].buf = reader[t].buf
        /\ \A t \in Stream : reader[t].state # "idle" => reader'[t].state # "idle"
    BY <2>1 DEF SafeInv, TypeOK, ReaderType
  <2> QED
    BY <1>11, <2>2 DEF ReaderFails, SafeInv, TypeOK, Lifecycle, ThreadsDone
<1>12. CASE Tick
  BY <1>12 DEF Tick, SafeInv, TypeOK, Lifecycle, ThreadsDone
<1>13. CASE Poll
  BY <1>13 DEF Poll, ProcessType, SafeInv, TypeOK, Lifecycle, ThreadsDone
<1>14. CASE Kill
  BY <1>14 DEF Kill, ProcessType, SafeInv, TypeOK, Lifecycle, ThreadsDone
<1>15. CASE Interpret
  <2>1. Interpretation \in {"sat", "unsat", "unknown", "timeout", "error"}
    <3> DEFINE out == reader["stdout"].buf
    <3>1. ASSUME Cardinality(Verdicts(out)) = 1
          PROVE  out[CHOOSE k \in Verdicts(out) : TRUE] \in Verdict
      <4>1. Verdicts(out) # {}
        BY <3>1, FS_EmptySet
      <4> QED
        BY <4>1 DEF Verdicts
    <3> QED
      BY <3>1 DEF Interpretation, Verdict
  <2> QED
    BY <1>15, <2>1 DEF Interpret, SafeInv, TypeOK, Lifecycle, ThreadsDone
<1>16. CASE UNCHANGED vars
  BY <1>16 DEF vars, SafeInv, TypeOK, Lifecycle, ThreadsDone
<1> QED
  BY <1>1, <1>3, <1>5, <1>6, <1>7, <1>8, <1>9, <1>10, <1>11, <1>12, <1>13,
     <1>14, <1>15, <1>16 DEF Next, Wrapper, Child, Returned

LEMMA SafeInvAlways == Spec => []SafeInv
<1>1. Init => SafeInv
  <2> SUFFICES ASSUME Init PROVE SafeInv
    OBVIOUS
  <2>1. task \in TaskType /\ task.consumed = 0 /\ ~ task.rejected /\ ~ task.owes
        /\ task.answer = "none"
    <3>1. 0 \in 0..Directives /\ 0 \in 0..MaxChatter
      BY SolverRunAssumption
    <3> QED
      BY <3>1 DEF Init, TaskType
  <2>2. reader \in [Stream -> ReaderType] /\ pipe \in [Stream -> Seq(Line)]
        /\ \A s \in Stream : /\ Len(pipe[s]) = 0 /\ Len(reader[s].buf) = 0
                            /\ reader[s].state = "idle"
    BY DEF Init, ReaderType
  <2>3. child \in ProcessType /\ writer \in WriterType
    BY SolverRunAssumption DEF Init, ProcessType, WriterType
  <2>4. TypeOK
    <3>1. \A s \in Stream : 0 <= PipeCap /\ 0 <= CapOf(s)
      BY SolverRunAssumption DEF CapOf
    <3>2. 0 \in 0..PipeCap
      BY SolverRunAssumption
    <3> QED
      BY <2>1, <2>2, <2>3, <3>1, <3>2 DEF Init, TypeOK
  <2> QED
    BY <2>1, <2>2, <2>4 DEF Init, SafeInv, Lifecycle, ThreadsDone
<1> QED
  BY <1>1, SafeInvIsInductive, PTL DEF Spec

\* Type correctness: the pipes and the captured output stay within their bounds
\* whatever the child prints.
THEOREM SolverRunTypeCorrect == Spec => []TypeOK
<1>1. SafeInv => TypeOK
  BY DEF SafeInv
<1> QED
  BY <1>1, SafeInvAlways, PTL

\* No path of invoke_solver_with_timeout leaves the child or a thread behind.
THEOREM CallLeaksNothing == Spec => []NothingLeaks
<1>1. SafeInv => NothingLeaks
  BY DEF SafeInv, Lifecycle, ThreadsDone, NothingLeaks
<1> QED
  BY <1>1, SafeInvAlways, PTL
-----------------------------------------------------------------------------
(***************************************************************************)
(* The lines on their way from the child to the interpretation.            *)
(***************************************************************************)
Transit(s) == reader[s].buf \o pipe[s]
Holds(lines, line) == \E k \in DOMAIN lines : lines[k] = line

\* An idle stream is empty, a stream at its end is drained for good, and a
\* capped one is full.
Streams ==
  \A s \in Stream :
    /\ reader[s].state = "idle" => reader[s].buf = <<>> /\ pipe[s] = <<>>
    /\ reader[s].state = "eof" => pipe[s] = <<>> /\ child.state # "running"
    /\ reader[s].state = "capped" => Len(reader[s].buf) = CapOf(s)

\* A child that was honest so far.
Honesty ==
  /\ task.owes => task.rejected
  /\ child.exit = "clean" => task.answer # "none" /\ ~ task.owes /\ ~ task.broken
  /\ task.answer # "none" =>
       task.rejected \/ task.broken \/ task.answer \in {task.truth, "unknown", "timeout"}

\* A rejected directive shows somewhere, unless the child died on reporting it.
RejectionShows ==
  task.rejected /\ ~ task.owes /\ child.exit # "failed" =>
    \E s \in Stream : reader[s].state \in {"capped", "error"} \/ Holds(Transit(s), "(error")

NoErrorUnlessRejected ==
  ~ task.rejected => \A s \in Stream : ~ Holds(Transit(s), "(error")

\* stdout carries the verdict once, as long as nothing of it is dropped.
OneVerdict ==
  reader["stdout"].state \notin {"capped", "error"} =>
    IF task.answer = "none" THEN Verdicts(Transit("stdout")) = {}
    ELSE \E k \in DOMAIN Transit("stdout") :
           Verdicts(Transit("stdout")) = {k} /\ Transit("stdout")[k] = task.answer

\* Without chatter, stderr carries error reports only.
QuietStderr ==
  ~ ChattyStderr => \A k \in DOMAIN Transit("stderr") : Transit("stderr")[k] = "(error"

\* The result is what the invocation amounts to.
Interpreted == pc = "returned" /\ child.state # "absent" => result = Interpretation

LineInv == /\ Streams /\ Honesty /\ RejectionShows /\ NoErrorUnlessRejected
           /\ OneVerdict /\ QuietStderr

\* Reading moves the first line of the pipe to the end of the buffer, and
\* printing appends to what is in transit.
LEMMA ReadingShifts ==
  ASSUME NEW S, NEW b \in Seq(S), NEW p \in Seq(S), p # <<>>
  PROVE  Append(b, Head(p)) \o Tail(p) = b \o p
OBVIOUS

LEMMA PrintingExtends ==
  ASSUME NEW S, NEW b \in Seq(S), NEW p \in Seq(S), NEW e \in S
  PROVE  b \o Append(p, e) = Append(b \o p, e)
OBVIOUS

\* All lines of t are lines of u.
Within(t, u) == \A k \in DOMAIN t : \E j \in DOMAIN u : t[k] = u[j]

\* Dropping the first line of the pipe brings no new line.
LEMMA DroppingKeeps ==
  ASSUME NEW S, NEW b \in Seq(S), NEW p \in Seq(S), p # <<>>
  PROVE  Within(b \o Tail(p), b \o p)
<1> SUFFICES ASSUME NEW k \in DOMAIN (b \o Tail(p))
             PROVE  \E j \in DOMAIN (b \o p) : (b \o Tail(p))[k] = (b \o p)[j]
  BY DEF Within
<1>1. CASE k <= Len(b)
  <2>1. k \in DOMAIN (b \o p) /\ (b \o Tail(p))[k] = (b \o p)[k]
    BY <1>1
  <2> QED
    BY <2>1
<1>2. CASE k > Len(b)
  <2>1. k + 1 \in DOMAIN (b \o p) /\ (b \o Tail(p))[k] = (b \o p)[k + 1]
    BY <1>2
  <2> QED
    BY <2>1
<1> QED
  BY <1>1, <1>2

LEMMA AppendHolds ==
  ASSUME NEW S, NEW t \in Seq(S), NEW e \in S, NEW line
  PROVE  Holds(Append(t, e), line) <=> Holds(t, line) \/ e = line
<1>1. /\ DOMAIN Append(t, e) = DOMAIN t \cup {Len(t) + 1}
      /\ \A k \in DOMAIN t : Append(t, e)[k] = t[k]
      /\ Append(t, e)[Len(t) + 1] = e
  OBVIOUS
<1> QED
  BY <1>1 DEF Holds

LEMMA AppendVerdicts ==
  ASSUME NEW S, NEW t \in Seq(S), NEW e \in S
  PROVE  /\ e \notin Verdict => Verdicts(Append(t, e)) = Verdicts(t)
         /\ e \in Verdict => Verdicts(Append(t, e)) = Verdicts(t) \cup {Len(t) + 1}
         /\ \A k \in DOMAIN t : Append(t, e)[k] = t[k]
         /\ DOMAIN t \subseteq DOMAIN Append(t, e)
         /\ Len(t) + 1 \in DOMAIN Append(t, e) /\ Append(t, e)[Len(t) + 1] = e
<1>1. /\ DOMAIN Append(t, e) = DOMAIN t \cup {Len(t) + 1}
      /\ \A k \in DOMAIN t : Append(t, e)[k] = t[k]
      /\ Append(t, e)[Len(t) + 1] = e
      /\ Len(t) + 1 \notin DOMAIN t
  OBVIOUS
<1> QED
  BY <1>1 DEF Verdicts

LEMMA TransitTyped ==
  ASSUME TypeOK, NEW s \in Stream
  PROVE  /\ Transit(s) \in Seq(Line)
         /\ reader[s].buf \in Seq(Line) /\ pipe[s] \in Seq(Line)
BY DEF TypeOK, Transit, ReaderType

\* The child ends, or nothing happens to it, and no line moves.
LEMMA QuietStep ==
  ASSUME LineInv, UNCHANGED <<task, pipe, reader>>,
         \/ UNCHANGED child
         \/ /\ child.state = "running" /\ child'.state = "exited"
            /\ child'.exit = "clean" => task.answer # "none" /\ ~ task.owes /\ ~ task.broken
            /\ child.exit = "none"
  PROVE  LineInv'
<1>1. \A s : Transit(s)' = Transit(s)
  BY DEF Transit
<1>2. Streams'
  BY DEF LineInv, Streams
<1>3. Honesty'
  BY DEF LineInv, Honesty
<1>4. RejectionShows'
  BY <1>1 DEF LineInv, RejectionShows
<1>5. NoErrorUnlessRejected' /\ OneVerdict' /\ QuietStderr'
  BY <1>1 DEF LineInv, NoErrorUnlessRejected, OneVerdict, QuietStderr
<1> QED
  BY <1>2, <1>3, <1>4, <1>5 DEF LineInv

\* The child dies on a line it prints: the reader has gone.
LEMMA PrintIntoClosed ==
  ASSUME SafeInv, LineInv, NEW s \in Stream, UNCHANGED <<pipe, reader>>,
         child.state = "running", reader[s].state # "reading",
         child' = [state |-> "exited", exit |-> "failed"],
         task'.rejected = task.rejected, task'.truth = task.truth,
         task'.owes => task.owes,
         \/ task'.answer = task.answer /\ task'.broken = task.broken
         \/ /\ s = "stdout" /\ task'.answer # "none"
            /\ ~ task.rejected /\ ~ task'.broken =>
                 task'.answer \in {task.truth, "unknown", "timeout"}
  PROVE  LineInv'
<1>1. \A r : Transit(r)' = Transit(r)
  BY DEF Transit
<1>2. reader[s].state \in {"capped", "error"}
  BY DEF SafeInv, TypeOK, ReaderType, Lifecycle, LineInv, Streams
<1>3. Streams'
  BY DEF LineInv, Streams
<1>4. Honesty'
  BY DEF LineInv, Honesty
<1>5. RejectionShows'
  BY DEF RejectionShows
<1>6. NoErrorUnlessRejected' /\ QuietStderr'
  BY <1>1 DEF LineInv, NoErrorUnlessRejected, QuietStderr
<1>7. OneVerdict'
  BY <1>1, <1>2 DEF LineInv, OneVerdict
<1> QED
  BY <1>3, <1>4, <1>5, <1>6, <1>7 DEF LineInv

\* A line enters the pipe: an error report, chatter, or the verdict.
LEMMA PrintIntoPipe ==
  ASSUME SafeInv, LineInv, NEW s \in Stream, NEW line \in Line,
         UNCHANGED <<child, reader>>,
         child.state = "running", reader[s].state = "reading",
         pipe' = [pipe EXCEPT ![s] = Append(@, line)],
         task'.rejected = task.rejected, task'.truth = task.truth,
         line = "(error" => task.rejected,
         \/ line \notin Verdict /\ task'.answer = task.answer /\ task'.broken = task.broken
         \/ /\ line \in Verdict /\ s = "stdout"
            /\ task.answer = "none" /\ task'.answer = line
            /\ ~ task.rejected /\ ~ task'.broken => line \in {task.truth, "unknown", "timeout"},
         \/ task'.owes = task.owes
         \/ line = "(error" /\ ~ task'.owes,
         line = "chatter" /\ s = "stderr" => ChattyStderr,
         line \in Verdict => s = "stdout"
  PROVE  LineInv'
<1>1. Transit(s)' = Append(Transit(s), line)
  <2>1. reader[s].buf \in Seq(Line) /\ pipe[s] \in Seq(Line)
    BY TransitTyped DEF SafeInv
  <2>2. pipe'[s] = Append(pipe[s], line) /\ reader'[s] = reader[s]
    BY DEF SafeInv, TypeOK
  <2>3. reader[s].buf \o Append(pipe[s], line) = Append(reader[s].buf \o pipe[s], line)
    <3> DEFINE b == reader[s].buf
               p == pipe[s]
    <3>1. b \in Seq(Line) /\ p \in Seq(Line)
      BY <2>1
    <3> HIDE DEF b, p
    <3>2. b \o Append(p, line) = Append(b \o p, line)
      BY <3>1, PrintingExtends
    <3> QED
      BY <3>2 DEF b, p
  <2> QED
    BY <2>2, <2>3 DEF Transit
<1>2. \A r \in Stream \ {s} : pipe'[r] = pipe[r] /\ Transit(r)' = Transit(r)
  BY DEF SafeInv, TypeOK, Transit
<1>3. Transit(s) \in Seq(Line)
  BY TransitTyped DEF SafeInv
<1>4. child.exit = "none"
  BY DEF SafeInv, Lifecycle
<1>5. Streams'
  BY <1>2 DEF LineInv, Streams
<1>6. Honesty'
  BY <1>4 DEF LineInv, Honesty, Verdict
<1>7. \A l : Holds(Transit(s)', l) <=> Holds(Transit(s), l) \/ line = l
  BY <1>1, <1>3, AppendHolds
<1>8. RejectionShows'
  BY <1>2, <1>7 DEF LineInv, RejectionShows
<1>9. NoErrorUnlessRejected'
  BY <1>2, <1>7 DEF LineInv, NoErrorUnlessRejected
<1>10. OneVerdict'
  <2> DEFINE t == Transit("stdout")
  <2>1. CASE s # "stdout"
    <3>1. t' = t /\ task'.answer = task.answer
      BY <1>2, <2>1 DEF Stream
    <3> QED
      BY <3>1 DEF LineInv, OneVerdict
  <2>2. CASE s = "stdout"
    <3>1. t' = Append(t, line) /\ t \in Seq(Line)
      BY <1>1, <1>3, <2>2
    <3>2. /\ line \notin Verdict => Verdicts(t') = Verdicts(t)
          /\ line \in Verdict => Verdicts(t') = Verdicts(t) \cup {Len(t) + 1}
          /\ \A k \in DOMAIN t : t'[k] = t[k]
          /\ DOMAIN t \subseteq DOMAIN t'
          /\ Len(t) + 1 \in DOMAIN t' /\ t'[Len(t) + 1] = line
      <4> HIDE DEF t
      <4> QED
        BY <3>1, AppendVerdicts
    <3>3. IF task.answer = "none" THEN Verdicts(t) = {}
          ELSE \E k \in DOMAIN t : Verdicts(t) = {k} /\ t[k] = task.answer
      BY <2>2 DEF LineInv, OneVerdict
    <3> HIDE DEF t
    <3>4. IF task'.answer = "none" THEN Verdicts(t') = {}
          ELSE \E k \in DOMAIN t' : Verdicts(t') = {k} /\ t'[k] = task'.answer
      <4>1. CASE line \notin Verdict
        BY <3>2, <3>3, <4>1
      <4>2. CASE line \in Verdict
        BY <3>2, <3>3, <4>2 DEF Verdict
      <4> QED
        BY <4>1, <4>2
    <3> QED
      BY <3>4 DEF OneVerdict, t
  <2> QED
    BY <2>1, <2>2
<1>11. QuietStderr'
  <2> DEFINE t == Transit("stderr")
  <2>1. CASE s # "stderr"
    <3>1. t' = t
      BY <1>2, <2>1 DEF Stream
    <3> QED
      BY <3>1 DEF LineInv, QuietStderr
  <2>2. CASE s = "stderr"
    <3>1. t' = Append(t, line) /\ t \in Seq(Line)
      BY <1>1, <1>3, <2>2
    <3>2. \A k \in DOMAIN t' : t'[k] = line \/ (k \in DOMAIN t /\ t'[k] = t[k])
      BY <3>1
    <3>3. ~ ChattyStderr => line = "(error"
      BY <2>2 DEF Line
    <3> QED
      BY <3>2, <3>3 DEF LineInv, QuietStderr
  <2> QED
    BY <2>1, <2>2
<1> QED
  BY <1>5, <1>6, <1>8, <1>9, <1>10, <1>11 DEF LineInv

\* A reader takes a line over, or stops.
LEMMA ReadStep ==
  ASSUME SafeInv, LineInv, NEW s \in Stream, ReaderReads(s) \/ ReaderFails(s)
  PROVE  LineInv'
<1>1. /\ UNCHANGED <<child, task>> /\ reader[s].state = "reading"
      /\ \A r \in Stream \ {s} : /\ pipe'[r] = pipe[r] /\ reader'[r] = reader[r]
                                 /\ Transit(r)' = Transit(r)
  BY DEF ReaderReads, ReaderFails, SafeInv, TypeOK, ReaderType, Transit
<1>2. Honesty'
  BY <1>1 DEF LineInv, Honesty
<1>3. CASE reader'[s].state \in {"reading", "eof"}
  <2>1. Transit(s)' = Transit(s)
    <3>1. CASE pipe[s] # <<>>
      <4>1. /\ pipe' = [pipe EXCEPT ![s] = Tail(@)]
            /\ reader' = [reader EXCEPT ![s].buf = Append(@, Head(pipe[s]))]
        BY <1>3, <3>1 DEF ReaderReads, ReaderFails, SafeInv, TypeOK, ReaderType
      <4>2. pipe'[s] = Tail(pipe[s]) /\ reader'[s].buf = Append(reader[s].buf, Head(pipe[s]))
        BY <4>1 DEF SafeInv, TypeOK, ReaderType
      <4>3. reader[s].buf \in Seq(Line) /\ pipe[s] \in Seq(Line)
        BY TransitTyped DEF SafeInv
      <4> QED
        BY <3>1, <4>2, <4>3, ReadingShifts DEF Transit
    <3>2. CASE pipe[s] = <<>>
      <4>1. pipe' = pipe /\ reader'[s].buf = reader[s].buf
        BY <1>3, <3>2 DEF ReaderReads, ReaderFails, SafeInv, TypeOK, ReaderType
      <4> QED
        BY <4>1 DEF Transit
    <3> QED
      BY <3>1, <3>2
  <2>2. \A r \in Stream : Transit(r)' = Transit(r)
    BY <1>1, <2>1
  <2>3. reader'[s].state = "eof" => pipe'[s] = <<>> /\ child'.state # "running"
    BY <1>1 DEF ReaderReads, ReaderFails, SafeInv, TypeOK, ReaderType, PipesHeld
  <2>4. Streams'
    BY <1>1, <1>3, <2>3 DEF LineInv, Streams
  <2>5. RejectionShows'
    BY <1>1, <2>2 DEF LineInv, RejectionShows
  <2>6. NoErrorUnlessRejected' /\ OneVerdict' /\ QuietStderr'
    BY <1>1, <2>2 DEF LineInv, NoErrorUnlessRejected, OneVerdict, QuietStderr, Stream
  <2> QED
    BY <1>2, <2>4, <2>5, <2>6 DEF LineInv
<1>4. CASE reader'[s].state \notin {"reading", "eof"}
  <2>1. /\ reader'[s].state \in {"capped", "error"} /\ reader'[s].buf = reader[s].buf
        /\ reader'[s].state = "capped" => Len(reader[s].buf) = CapOf(s)
        /\ pipe'[s] = pipe[s] \/ (pipe[s] # <<>> /\ pipe'[s] = Tail(pipe[s]))
    BY <1>4 DEF ReaderReads, ReaderFails, SafeInv, TypeOK, ReaderType
  <2>2. Streams'
    BY <1>1, <2>1 DEF LineInv, Streams
  <2>3. RejectionShows'
    BY <1>1, <2>1 DEF RejectionShows
  <2>4. reader[s].buf \in Seq(Line) /\ pipe[s] \in Seq(Line)
    BY TransitTyped DEF SafeInv
  <2>5. Within(Transit(s)', Transit(s))
    <3>1. CASE pipe'[s] = pipe[s]
      <4>1. Transit(s)' = Transit(s)
        BY <2>1, <3>1 DEF Transit
      <4> QED
        BY <4>1 DEF Within
    <3>2. CASE pipe[s] # <<>> /\ pipe'[s] = Tail(pipe[s])
      <4>1. Transit(s)' = reader[s].buf \o Tail(pipe[s])
        BY <2>1, <3>2 DEF Transit
      <4>2. Within(reader[s].buf \o Tail(pipe[s]), reader[s].buf \o pipe[s])
        BY <2>4, <3>2, DroppingKeeps
      <4> QED
        BY <4>1, <4>2 DEF Transit
    <3> QED
      BY <2>1, <3>1, <3>2
  <2>6. NoErrorUnlessRejected' /\ QuietStderr'
    BY <1>1, <2>5 DEF LineInv, NoErrorUnlessRejected, QuietStderr, Holds, Stream, Within
  <2>7. OneVerdict'
    BY <1>1, <2>1 DEF LineInv, OneVerdict, Stream
  <2> QED
    BY <1>2, <2>2, <2>3, <2>6, <2>7 DEF LineInv
<1> QED
  BY <1>3, <1>4

\* The threads start on empty streams.
LEMMA StartStep ==
  ASSUME SafeInv, LineInv, Start, pc' = "poll"
  PROVE  LineInv'
<1>1. /\ reader' = [s \in Stream |-> [state |-> "reading", buf |-> <<>>]]
      /\ UNCHANGED <<task, pipe>> /\ child'.exit = "none"
  BY DEF Start
<1>2. child.state = "absent" /\ \A s \in Stream : reader[s].state = "idle"
  BY DEF Start, SafeInv, Lifecycle
<1>3. \A s \in Stream : reader'[s].buf = reader[s].buf /\ pipe'[s] = pipe[s]
  BY <1>1, <1>2 DEF LineInv, Streams
<1>4. \A s \in Stream : Transit(s)' = Transit(s)
  BY <1>3 DEF Transit
<1>5. Streams'
  BY <1>1 DEF Streams
<1>6. Honesty'
  BY <1>1 DEF LineInv, Honesty
<1>7. RejectionShows'
  BY <1>1, <1>2 DEF RejectionShows, SafeInv, Lifecycle
<1>8. NoErrorUnlessRejected' /\ OneVerdict' /\ QuietStderr'
  BY <1>1, <1>2, <1>4 DEF LineInv, NoErrorUnlessRejected, OneVerdict, QuietStderr, Stream
<1> QED
  BY <1>5, <1>6, <1>7, <1>8 DEF LineInv

\* The child reads a directive, and may reject it.
LEMMA ReadDirectiveStep ==
  ASSUME SafeInv, LineInv, ChildReads
  PROVE  LineInv'
<1>1. PICK bad \in BOOLEAN :
        task' = [task EXCEPT !.consumed = @ + 1, !.rejected = @ \/ bad, !.owes = bad]
  BY DEF ChildReads
<1>2. /\ task'.owes = bad /\ task'.rejected = (task.rejected \/ bad)
      /\ task'.answer = task.answer /\ task'.truth = task.truth /\ task'.broken = task.broken
  BY <1>1 DEF SafeInv, TypeOK, TaskType
<1>3. /\ UNCHANGED <<child, pipe, reader>> /\ ~ task.owes
      /\ child.state = "running" /\ child.exit = "none"
  BY DEF ChildReads, ChildUnchanged, SafeInv, Lifecycle
<1>4. \A s : Transit(s)' = Transit(s)
  BY <1>3 DEF Transit
<1>5. Streams'
  BY <1>3 DEF LineInv, Streams
<1>6. Honesty'
  BY <1>2, <1>3 DEF LineInv, Honesty
<1>7. RejectionShows'
  BY <1>2, <1>3, <1>4 DEF LineInv, RejectionShows
<1>8. NoErrorUnlessRejected' /\ OneVerdict' /\ QuietStderr'
  BY <1>2, <1>3, <1>4 DEF LineInv, NoErrorUnlessRejected, OneVerdict, QuietStderr
<1> QED
  BY <1>5, <1>6, <1>7, <1>8 DEF LineInv

\* What the child prints is honest.
LEMMA PrintStep ==
  ASSUME SafeInv, LineInv, ChildReportsError \/ ChildAnswers \/ ChildChatters
  PROVE  LineInv'
<1>1. task \in TaskType
  BY DEF SafeInv, TypeOK
<1>2. CASE ChildReportsError
  <2>1. PICK s \in Stream : ChildPrints(s, "(error")
    BY <1>2 DEF ChildReportsError
  <2>2. /\ task'.rejected = task.rejected /\ task'.truth = task.truth
        /\ task'.answer = task.answer /\ task'.broken = task.broken /\ ~ task'.owes
    BY <1>1, <1>2 DEF ChildReportsError, TaskType
  <2>3. task.owes /\ task.rejected
    BY <1>2 DEF ChildReportsError, LineInv, Honesty
  <2>4. child.state = "running" /\ UNCHANGED reader
    BY <2>1 DEF ChildPrints, ChildUnchanged
  <2>5. "(error" \in Line /\ "(error" \notin Verdict
    BY DEF Line, Verdict
  <2> QED
    BY <2>1, <2>2, <2>3, <2>4, <2>5, PrintIntoPipe, PrintIntoClosed DEF ChildPrints
<1>3. CASE ChildAnswers
  <2>1. PICK v \in Verdict, broken \in BOOLEAN :
          /\ ~ task.rejected /\ ~ broken => v \in {task.truth, "unknown", "timeout"}
          /\ ChildPrints("stdout", v)
          /\ task' = [task EXCEPT !.answer = v, !.broken = broken]
    BY <1>3 DEF ChildAnswers
  <2>2. /\ task'.rejected = task.rejected /\ task'.truth = task.truth
        /\ task'.answer = v /\ task'.broken = broken /\ task'.owes = task.owes
    BY <1>1, <2>1 DEF TaskType
  <2>3. child.state = "running" /\ UNCHANGED reader
    BY <2>1 DEF ChildPrints, ChildUnchanged
  <2>4. task.answer = "none"
    BY <1>3 DEF ChildAnswers
  <2>5. v \in Line /\ v # "(error" /\ v # "chatter" /\ v # "none" /\ "stdout" \in Stream
    BY DEF Line, Verdict, Stream
  <2> QED
    BY <2>1, <2>2, <2>3, <2>4, <2>5, PrintIntoPipe, PrintIntoClosed DEF ChildPrints
<1>4. CASE ChildChatters
  <2>1. PICK s \in Stream : ChildPrints(s, "chatter") /\ (s = "stderr" => ChattyStderr)
    BY <1>4 DEF ChildChatters
  <2>2. /\ task'.rejected = task.rejected /\ task'.truth = task.truth
        /\ task'.answer = task.answer /\ task'.broken = task.broken /\ task'.owes = task.owes
    BY <1>1, <1>4 DEF ChildChatters, TaskType
  <2>3. child.state = "running" /\ UNCHANGED reader
    BY <2>1 DEF ChildPrints, ChildUnchanged
  <2>4. "chatter" \in Line /\ "chatter" \notin Verdict
    BY DEF Line, Verdict
  <2> QED
    BY <2>1, <2>2, <2>3, <2>4, PrintIntoPipe, PrintIntoClosed DEF ChildPrints
<1> QED
  BY <1>2, <1>3, <1>4

LEMMA LineInvIsInductive == SafeInv /\ LineInv /\ [Next]_vars => LineInv'
<1> SUFFICES ASSUME SafeInv, LineInv, [Next]_vars PROVE LineInv'
  OBVIOUS
<1>1. CASE ChildReads
  BY <1>1, ReadDirectiveStep
<1>2. CASE ChildReportsError \/ ChildAnswers \/ ChildChatters
  BY <1>2, PrintStep
<1>3. CASE ChildExits
  <2>1. UNCHANGED <<task, pipe, reader>> /\ child.state = "running" /\ child.exit = "none"
    BY <1>3 DEF ChildExits, ChildUnchanged, SafeInv, Lifecycle
  <2>2. /\ child'.state = "exited"
        /\ child'.exit = "clean" => task.answer # "none" /\ ~ task.owes /\ ~ task.broken
    BY <1>3 DEF ChildExits
  <2> QED
    BY <2>1, <2>2, QuietStep
<1>4. CASE Start
  <2>1. CASE pc' = "poll"
    BY <1>4, <2>1, StartStep
  <2>2. CASE pc' # "poll"
    BY <1>4, <2>2, QuietStep DEF Start
  <2> QED
    BY <2>1, <2>2
<1>5. CASE Poll \/ Kill
  <2>1. /\ UNCHANGED <<task, pipe, reader>>
        /\ \/ UNCHANGED child
           \/ child.state = "running" /\ child' = [state |-> "exited", exit |-> "killed"]
    BY <1>5 DEF Poll, Kill
  <2>2. child.state = "running" => child.exit = "none"
    BY DEF SafeInv, Lifecycle
  <2> QED
    BY <2>1, <2>2, QuietStep
<1>6. CASE \E s \in Stream : ReaderReads(s) \/ ReaderFails(s)
  BY <1>6, ReadStep
<1>7. CASE HelperExits \/ WriterWrites \/ WriterFails \/ Tick \/ Interpret \/ UNCHANGED vars
  BY <1>7, QuietStep DEF HelperExits, WriterWrites, WriterFails, Tick, Interpret, vars
<1> QED
  BY <1>1, <1>2, <1>3, <1>4, <1>5, <1>6, <1>7 DEF Next, Wrapper, Child, Returned

LEMMA LineInvAlways == Spec => []LineInv
<1>1. Init => LineInv
  <2> SUFFICES ASSUME Init PROVE LineInv
    OBVIOUS
  <2>1. \A s \in Stream : reader[s].buf = <<>> /\ pipe[s] = <<>> /\ reader[s].state = "idle"
    BY DEF Init
  <2>2. \A s \in Stream : Transit(s) = <<>>
    BY <2>1 DEF Transit
  <2>3. ~ task.rejected /\ ~ task.owes /\ task.answer = "none" /\ child.exit = "none"
    BY DEF Init
  <2>4. Streams /\ Honesty /\ RejectionShows
    BY <2>1, <2>3 DEF Streams, Honesty, RejectionShows
  <2>5. NoErrorUnlessRejected /\ OneVerdict /\ QuietStderr
    BY <2>2, <2>3 DEF NoErrorUnlessRejected, OneVerdict, QuietStderr, Holds, Verdicts, Stream
  <2> QED
    BY <2>4, <2>5 DEF LineInv
<1> QED
  BY <1>1, LineInvIsInductive, SafeInvAlways, PTL DEF Spec

\* Once the call has returned, only a helper left behind moves.
LEMMA InterpretedAlways == Spec => []Interpreted
<1>1. Init => Interpreted
  BY DEF Init, Interpreted
<1>2. SafeInv /\ Interpreted /\ [Next]_vars => Interpreted'
  <2> SUFFICES ASSUME SafeInv, Interpreted, [Next]_vars, pc' = "returned",
                      child'.state # "absent"
               PROVE  (result = Interpretation)'
    BY DEF Interpreted
  <2>1. CASE pc = "returned"
    <3>1. UNCHANGED <<pc, stopped, result, child, writer, reader>>
      BY <2>1 DEF Next, Wrapper, Child, Returned, vars, SafeInv, Lifecycle, ThreadsDone,
            ChildReads, ChildReportsError, ChildAnswers, ChildChatters, ChildPrints,
            ChildExits, HelperExits, Start, WriterWrites, WriterFails, ReaderReads,
            ReaderFails, Tick, Poll, Kill, Interpret, Stream
    <3>2. Interpretation' = Interpretation
      BY <3>1 DEF Interpretation
    <3> QED
      BY <2>1, <3>1, <3>2 DEF Interpreted
  <2>2. CASE pc # "returned"
    <3>1. Interpret
      BY <2>2 DEF Next, Wrapper, Child, Returned, vars, SafeInv, Lifecycle, ChildUnchanged,
            ChildReads, ChildReportsError, ChildAnswers, ChildChatters, ChildPrints,
            ChildExits, HelperExits, Start, WriterWrites, WriterFails, ReaderReads,
            ReaderFails, Tick, Poll, Kill
    <3>2. UNCHANGED <<stopped, child, writer, reader>> /\ result' = Interpretation
      BY <3>1 DEF Interpret
    <3>3. Interpretation' = Interpretation
      BY <3>2 DEF Interpretation
    <3> QED
      BY <3>2, <3>3
  <2> QED
    BY <2>1, <2>2
<1> QED
  BY <1>1, <1>2, SafeInvAlways, PTL DEF Spec

-----------------------------------------------------------------------------
(***************************************************************************)
(* What the interpretation says.                                           *)
(***************************************************************************)
LEMMA BufferInTransit ==
  ASSUME TypeOK, NEW s \in Stream, NEW k \in DOMAIN reader[s].buf
  PROVE  k \in DOMAIN Transit(s) /\ Transit(s)[k] = reader[s].buf[k]
<1> DEFINE b == reader[s].buf
           p == pipe[s]
<1>1. b \in Seq(Line) /\ p \in Seq(Line) /\ k \in DOMAIN b
  BY TransitTyped
<1> HIDE DEF b, p
<1>2. k \in DOMAIN (b \o p) /\ (b \o p)[k] = b[k]
  BY <1>1
<1> QED
  BY <1>2 DEF b, p, Transit

\* An answer that is accepted is the child's own, and the child had nothing
\* to confess.
LEMMA AcceptedIsTheAnswer ==
  ASSUME SafeInv, LineInv, pc = "returned", child.state # "absent", ~ ChattyStderr,
         Interpretation \in {"sat", "unsat"}
  PROVE  Interpretation = task.truth
<1> DEFINE out == reader["stdout"].buf
           err == reader["stderr"].buf
<1> USE DEF Stream
<1>1. /\ \A s \in Stream : reader[s].state \in {"eof", "capped"}
      /\ reader["stdout"].state = "eof" /\ child.exit = "clean"
  BY DEF SafeInv, Lifecycle, ThreadsDone, Interpretation, TypeOK, ReaderType
<1>2. /\ Cardinality(Verdicts(out)) = 1 /\ ~ ReportsError(out) /\ ~ ReportsError(err)
      /\ Interpretation = out[CHOOSE k \in Verdicts(out) : TRUE]
  BY DEF Interpretation
<1>3. pipe["stdout"] = <<>> /\ Transit("stdout") = out
  <2>1. out \in Seq(Line) /\ pipe["stdout"] = <<>>
    BY <1>1, TransitTyped DEF SafeInv, LineInv, Streams
  <2> QED
    BY <2>1 DEF Transit
<1>4. task.answer # "none" /\ ~ task.owes /\ ~ task.broken
  BY <1>1 DEF LineInv, Honesty
<1>5. Interpretation = task.answer
  <2>1. PICK k \in DOMAIN out : Verdicts(out) = {k} /\ out[k] = task.answer
    BY <1>1, <1>3, <1>4 DEF LineInv, OneVerdict
  <2>2. (CHOOSE j \in Verdicts(out) : TRUE) = k
    BY <2>1
  <2> QED
    BY <1>2, <2>1, <2>2
<1>6. ~ task.rejected
  <2> SUFFICES ASSUME task.rejected PROVE FALSE
    OBVIOUS
  <2>1. PICK s \in Stream : reader[s].state \in {"capped", "error"} \/ Holds(Transit(s), "(error")
    BY <1>1, <1>4 DEF LineInv, RejectionShows
  <2>2. CASE s = "stdout"
    BY <1>1, <1>2, <1>3, <2>1, <2>2 DEF Holds, ReportsError
  <2>3. CASE s = "stderr" /\ reader["stderr"].state = "eof"
    <3>1. err \in Seq(Line) /\ pipe["stderr"] = <<>>
      BY <2>3, TransitTyped DEF SafeInv, LineInv, Streams
    <3>2. Transit("stderr") = err
      BY <3>1 DEF Transit
    <3> QED
      BY <1>2, <2>1, <2>3, <3>2 DEF Holds, ReportsError
  <2>4. CASE reader["stderr"].state = "capped"
    <3>1. /\ err \in Seq(Line) /\ pipe["stderr"] \in Seq(Line)
          /\ Len(err) = ErrCap /\ ErrCap \in Nat \ {0}
      BY <2>4, TransitTyped, SolverRunAssumption DEF SafeInv, LineInv, Streams, CapOf
    <3>2. 1 \in DOMAIN err /\ 1 \in DOMAIN Transit("stderr") /\ Transit("stderr")[1] = err[1]
      BY <3>1, BufferInTransit DEF SafeInv
    <3>3. err[1] = "(error"
      BY <3>2 DEF LineInv, QuietStderr
    <3> QED
      BY <1>2, <3>2, <3>3 DEF ReportsError
  <2> QED
    BY <1>1, <2>1, <2>2, <2>3, <2>4
<1> QED
  BY <1>4, <1>5, <1>6 DEF LineInv, Honesty

\* Whatever the child rejected, however it failed or was cut off, and however
\* the threads interleaved: sat and unsat are returned only when true of the
\* whole problem - provided the child prints nothing but error reports on its
\* stderr.
THEOREM DecisiveAnswersAreTrue ==
  ASSUME ~ ChattyStderr
  PROVE  Spec => []VerdictIsTruth
<1>1. SafeInv /\ LineInv /\ Interpreted => VerdictIsTruth
  <2> SUFFICES ASSUME SafeInv, LineInv, Interpreted, result \in {"sat", "unsat"}
               PROVE  result = task.truth
    BY DEF VerdictIsTruth
  <2>1. pc = "returned" /\ child.state # "absent"
    BY DEF SafeInv, Lifecycle
  <2>2. result = Interpretation
    BY <2>1 DEF Interpreted
  <2> QED
    BY <2>1, <2>2, AcceptedIsTheAnswer
<1> QED
  BY <1>1, SafeInvAlways, LineInvAlways, InterpretedAlways, PTL

\* A child that answered, exited cleanly in time and met no I/O failure is
\* heard, whatever it printed on stderr.
THEOREM CleanAnswersAreHeard == Spec => []CleanAnswerIsHeard
<1>1. SafeInv /\ LineInv /\ Interpreted => CleanAnswerIsHeard
  <2> SUFFICES ASSUME SafeInv, LineInv, Interpreted,
                      pc = "returned", stopped = "no", child.exit = "clean", ~ task.rejected,
                      writer.state # "error", reader["stdout"].state = "eof",
                      \A s \in Stream : reader[s].state \in {"eof", "capped"}
               PROVE  result = task.answer
    BY DEF CleanAnswerIsHeard
  <2> DEFINE out == reader["stdout"].buf
             err == reader["stderr"].buf
  <2> USE DEF Stream
  <2>1. result = Interpretation
    BY DEF Interpreted, SafeInv, Lifecycle
  <2>2. /\ out \in Seq(Line) /\ err \in Seq(Line) /\ pipe["stderr"] \in Seq(Line)
        /\ pipe["stdout"] = <<>>
    BY TransitTyped DEF SafeInv, LineInv, Streams
  <2>3. Transit("stdout") = out
    BY <2>2 DEF Transit
  <2>4. PICK k \in DOMAIN out : Verdicts(out) = {k} /\ out[k] = task.answer
    BY <2>3 DEF LineInv, OneVerdict, Honesty
  <2>5. Cardinality(Verdicts(out)) = 1 /\ (CHOOSE j \in Verdicts(out) : TRUE) = k
    BY <2>4, FS_Singleton
  <2>6. ~ ReportsError(out)
    BY <2>3 DEF LineInv, NoErrorUnlessRejected, Holds, ReportsError
  <2>7. ~ ReportsError(err)
    <3>1. \A j \in DOMAIN err : j \in DOMAIN Transit("stderr") /\ Transit("stderr")[j] = err[j]
      BY BufferInTransit DEF SafeInv
    <3> QED
      BY <3>1 DEF LineInv, NoErrorUnlessRejected, Holds, ReportsError
  <2> QED
    BY <2>1, <2>4, <2>5, <2>6, <2>7 DEF Interpretation
<1> QED
  BY <1>1, SafeInvAlways, LineInvAlways, InterpretedAlways, PTL
=============================================================================
