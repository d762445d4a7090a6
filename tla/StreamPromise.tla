---------------------------- MODULE StreamPromise ----------------------------
(***************************************************************************)
(* What the streaming protocol of src/src/jsonl.rs promises its caller,    *)
(* without threads or channels: every line of the input that asks for a    *)
(* result is owed exactly one, of the right kind, in input order if that   *)
(* was requested, and the stream ends well only when nothing is owed.      *)
(***************************************************************************)
EXTENDS Integers, Sequences, FiniteSets

CONSTANTS
  WorkerCount,   \* number of worker threads
  WriterFails    \* the result writer may fail

VARIABLES
  lines,         \* the input
  order,         \* "completion" or "input"
  owed,          \* lines that have no result yet
  lost,          \* lines whose worker thread panicked
  written,       \* results written: line, status
  outcome        \* "open", "ok", "error"

pvars == <<lines, order, owed, lost, written, outcome>>

Answerable(ls) == {i \in DOMAIN ls : ls[i].kind \in {"garbled", "version", "job"}}

\* A job line whose identifier an earlier job line of the right version used.
IsDuplicate(ls, i) ==
  \E j \in 1..(i - 1) : ls[j].kind = "job" /\ ls[j].id = ls[i].id

\* The statuses the result of line i may carry.
StatusOf(ls, i) ==
  IF ls[i].kind \in {"garbled", "version"} THEN {"malformed"}
  ELSE IF IsDuplicate(ls, i) THEN {"duplicate"}
  ELSE {"success", "failure"}

\* Every worker thread panicked: nobody is left to answer jobs.
AllLost == Cardinality(lost) >= WorkerCount

PInit ==
  /\ owed = Answerable(lines)
  /\ lost = {}
  /\ written = <<>>
  /\ outcome = "open"

Emit(i, s) ==
  /\ outcome = "open"
  /\ i \in owed
  /\ s \in StatusOf(lines, i)
  /\ order = "input" =>
       /\ \A k \in DOMAIN written : written[k].line < i
       /\ AllLost \/ \A j \in owed : i <= j
  /\ owed' = owed \ {i}
  /\ written' = Append(written, [line |-> i, status |-> s])
  /\ UNCHANGED <<lines, order, lost, outcome>>

\* Only a panic of the thread that runs a job may lose its result, and only
\* that one, as long as one thread is alive.
Lose(i) ==
  /\ outcome = "open"
  /\ i \in owed
  /\ lines[i].kind = "job"
  /\ lost' = lost \cup {i}
  /\ owed' = owed \ {i}
  /\ UNCHANGED <<lines, order, written, outcome>>

Close ==
  /\ outcome = "open"
  /\ owed = {} \/ AllLost
  /\ outcome' = "ok"
  /\ UNCHANGED <<lines, order, owed, lost, written>>

Abort ==
  /\ outcome = "open"
  /\ WriterFails \/ \E i \in DOMAIN lines : lines[i].kind = "io"
  /\ outcome' = "error"
  /\ UNCHANGED <<lines, order, owed, lost, written>>

PNext ==
  \/ \E i \in owed, s \in {"malformed", "duplicate", "success", "failure"} : Emit(i, s)
  \/ \E i \in owed : Lose(i)
  \/ Close
  \/ Abort

\* What may be written, lost and returned, at any time.
Safety == PInit /\ [][PNext]_pvars

\* The stream ends: the caller is not left waiting.
Promise == Safety /\ <>(outcome # "open")
=============================================================================
