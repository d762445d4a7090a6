----------------------------- MODULE JsonlStream -----------------------------
(***************************************************************************)
(* The JSON Lines streaming runner (run_streaming of src/src/jsonl.rs):    *)
(* the main thread reads job lines, answers malformed and duplicate ones   *)
(* itself and sends the others to worker threads through a channel whose   *)
(* receiver the workers share behind a mutex; results come back through a  *)
(* second channel and are written in completion or in input order.         *)
(*                                                                         *)
(* The report of a job is abstracted to its status; lines are identified   *)
(* by their number.                                                        *)
(***************************************************************************)
EXTENDS Integers, Sequences, FiniteSets

CONSTANTS
  Workers,       \* worker threads: config.concurrency.max(1)
  Ids,           \* job identifiers; EmptyId is the empty string
  EmptyId,
  None,          \* no message, no thread
  Orders,        \* output orders explored
  MaxLines,      \* bound on the length of the input
  MaxPanics,     \* bound on the number of panicking worker threads
  WriterFails    \* the writer may fail

ASSUME StreamAssumption ==
  /\ Workers # {} /\ IsFiniteSet(Workers) /\ None \notin Workers
  /\ EmptyId \in Ids
  /\ Orders \subseteq {"completion", "input"}
  /\ MaxLines \in Nat /\ MaxPanics \in Nat
  /\ WriterFails \in BOOLEAN

VARIABLES
  lines,         \* stdin
  order,         \* config.output_order
  pc,            \* the main thread
  next,          \* number of the next line
  seen,          \* seen_ids
  jobs,          \* the job channel
  jobTxOpen,     \* job_tx is alive
  sent,          \* jobs_sent
  pending,       \* pending_order: results and placeholders, input order only
  received,      \* results taken from the result channel (input order)
  out,           \* what the writer has been given
  lock,          \* holder of the job receiver's mutex
  worker,        \* state of each worker thread and the message it works on
  results,       \* the result channel
  lost           \* lines whose worker panicked (the JoinHandle's Err)

mainVars == <<pc, next, seen, jobTxOpen, sent, pending, received, out>>
vars == <<lines, order, pc, next, seen, jobs, jobTxOpen, sent, pending, received, out,
          lock, worker, results, lost>>

-----------------------------------------------------------------------------
Line == [kind : {"blank", "garbled", "version", "job", "io"}, id : Ids]
Status == {"success", "failure", "duplicate", "malformed"}

\* A result, with the line it answers and the slot the job carried (0: no slot).
ResultRec == [line : Nat, status : Status]
Indexed == [line : Nat, status : Status, slot : Nat]
Placeholder == [line |-> 0, status |-> "none"]

\* StreamJobMessage; the cancellation sentinel is a job with an empty id.
Message == [line : Nat, id : Ids, slot : Nat]
Cancel == [line |-> 0, id |-> EmptyId, slot |-> 0]

IsCancel(m) == m.id = EmptyId /\ m.slot = 0

AllDone == \A w \in Workers : worker[w].pc \in {"done", "panicked"}

Init ==
  /\ lines \in UNION {[1..n -> Line] : n \in 0..MaxLines}
  /\ order \in Orders
  /\ pc = "read"
  /\ next = 1
  /\ seen = {}
  /\ jobs = <<>>
  /\ jobTxOpen = TRUE
  /\ sent = 0
  /\ pending = <<>>
  /\ received = 0
  /\ out = <<>>
  /\ lock = None
  /\ worker = [w \in Workers |-> [pc |-> "wait", msg |-> Cancel]]
  /\ results = <<>>
  /\ lost = {}

-----------------------------------------------------------------------------
(* Main thread.                                                            *)

\* write_result(..)?: the line reaches the writer, or run_streaming returns Err.
WriteThen(l, s, then) ==
  \/ /\ out' = Append(out, [line |-> l, status |-> s])
     /\ pc' = then
  \/ /\ WriterFails
     /\ pc' = "error"
     /\ UNCHANGED out

\* A result the main thread makes itself: buffered in its slot or written.
Answer(s) ==
  IF order = "input"
  THEN /\ pending' = Append(pending, [line |-> next, status |-> s])
       /\ UNCHANGED <<out, pc>>
  ELSE WriteThen(next, s, "read") /\ UNCHANGED pending

Current == lines[next]
Reading(kind) == pc = "read" /\ next <= Len(lines) /\ Current.kind = kind

ReadBlank ==
  /\ Reading("blank")
  /\ next' = next + 1
  /\ UNCHANGED <<lines, order, pc, seen, jobs, jobTxOpen, sent, pending, received, out,
                 lock, worker, results, lost>>

\* A line that cannot be read (I/O error, invalid UTF-8) ends the run.
ReadError ==
  /\ Reading("io")
  /\ pc' = "error"
  /\ UNCHANGED <<lines, order, next, seen, jobs, jobTxOpen, sent, pending, received, out,
                 lock, worker, results, lost>>

ReadMalformed ==
  /\ Reading("garbled") \/ Reading("version")
  /\ Answer("malformed")
  /\ next' = next + 1
  /\ UNCHANGED <<lines, order, seen, jobs, jobTxOpen, sent, received, lock, worker,
                 results, lost>>

ReadDuplicate ==
  /\ Reading("job")
  /\ Current.id \in seen
  /\ Answer("duplicate")
  /\ next' = next + 1
  /\ UNCHANGED <<lines, order, seen, jobs, jobTxOpen, sent, received, lock, worker,
                 results, lost>>

\* A new job: placeholder, then send.  The send fails when no worker holds the
\* receiver any more, and the reading loop ends.
Enqueue ==
  /\ Reading("job")
  /\ Current.id \notin seen
  /\ seen' = seen \cup {Current.id}
  /\ pending' = IF order = "input" THEN Append(pending, Placeholder) ELSE pending
  /\ sent' = sent + 1
  /\ next' = next + 1
  /\ IF AllDone
     THEN pc' = "cancel" /\ UNCHANGED jobs
     ELSE /\ jobs' = Append(jobs, [line |-> next, id |-> Current.id,
                                   slot |-> IF order = "input" THEN Len(pending') ELSE 0])
          /\ UNCHANGED pc
  /\ UNCHANGED <<lines, order, jobTxOpen, received, out, lock, worker, results, lost>>

\* The producer closes stdin.
EndOfInput ==
  /\ pc = "read"
  /\ next > Len(lines)
  /\ pc' = "cancel"
  /\ UNCHANGED <<lines, order, next, seen, jobs, jobTxOpen, sent, pending, received, out,
                 lock, worker, results, lost>>

\* Mutant: one sentinel is missing.
CancelsOfShort(n) == [i \in 1..(n - 1) |-> Cancel]

CancelsOf(n) == [i \in 1..n |-> Cancel]

\* Mutant: the sentinels overtake the jobs.
SendCancelsFirst ==
  /\ pc = "cancel"
  /\ jobs' = CancelsOf(Cardinality(Workers)) \o jobs
  /\ jobTxOpen' = FALSE
  /\ pc' = "collect"
  /\ UNCHANGED <<lines, order, next, seen, sent, pending, received, out, lock, worker,
                 results, lost>>

\* One sentinel per worker, then job_tx is dropped.
SendCancels ==
  /\ pc = "cancel"
  /\ jobs' = jobs \o CancelsOf(Cardinality(Workers))
  /\ jobTxOpen' = FALSE
  /\ pc' = "collect"
  /\ UNCHANGED <<lines, order, next, seen, sent, pending, received, out, lock, worker,
                 results, lost>>

\* Mutant: the count that ends the collection is off by one.
CollectSlotShort ==
  /\ pc = "collect" /\ order = "input"
  /\ results # <<>>
  /\ LET r == Head(results)
     IN  pending' = [pending EXCEPT ![r.slot] = [line |-> r.line, status |-> r.status]]
  /\ results' = Tail(results)
  /\ received' = received + 1
  /\ pc' = IF received' + 1 >= sent THEN "flush" ELSE pc
  /\ UNCHANGED <<lines, order, next, seen, jobs, jobTxOpen, sent, out, lock, worker, lost>>

\* Input order: every result goes to its slot, until all have come or every
\* worker is gone ...
CollectSlot ==
  /\ pc = "collect" /\ order = "input"
  /\ results # <<>>
  /\ LET r == Head(results)
     IN  pending' = [pending EXCEPT ![r.slot] = [line |-> r.line, status |-> r.status]]
  /\ results' = Tail(results)
  /\ received' = received + 1
  /\ pc' = IF received' >= sent THEN "flush" ELSE pc
  /\ UNCHANGED <<lines, order, next, seen, jobs, jobTxOpen, sent, out, lock, worker, lost>>

CollectEnds ==
  /\ pc = "collect"
  /\ results = <<>>
  /\ AllDone
  /\ pc' = IF order = "input" THEN "flush" ELSE "join"
  /\ UNCHANGED <<lines, order, next, seen, jobs, jobTxOpen, sent, pending, received, out,
                 lock, worker, results, lost>>

\* ... and then they are written from the front; an empty slot is passed over.
Flush ==
  /\ pc = "flush"
  /\ IF pending = <<>>
     THEN pc' = "join" /\ UNCHANGED <<pending, out>>
     ELSE /\ pending' = Tail(pending)
          /\ IF Head(pending) = Placeholder
             THEN UNCHANGED <<pc, out>>
             ELSE WriteThen(Head(pending).line, Head(pending).status, "flush")
  /\ UNCHANGED <<lines, order, next, seen, jobs, jobTxOpen, sent, received, lock, worker,
                 results, lost>>

\* Completion order: results are written as they come, after the input ended.
WriteCompleted ==
  /\ pc = "collect" /\ order = "completion"
  /\ results # <<>>
  /\ WriteThen(Head(results).line, Head(results).status, "collect")
  /\ results' = Tail(results)
  /\ UNCHANGED <<lines, order, next, seen, jobs, jobTxOpen, sent, pending, received, lock,
                 worker, lost>>

Join ==
  /\ pc = "join"
  /\ AllDone
  /\ pc' = "ok"
  /\ UNCHANGED <<lines, order, next, seen, jobs, jobTxOpen, sent, pending, received, out,
                 lock, worker, results, lost>>

-----------------------------------------------------------------------------
(* Worker threads.  After an error the process exits.                      *)

Running == pc \notin {"ok", "error"}

Lock(w) ==
  /\ Running
  /\ worker[w].pc = "wait"
  /\ lock = None
  /\ lock' = w
  /\ worker' = [worker EXCEPT ![w].pc = "recv"]
  /\ UNCHANGED <<lines, order, mainVars, jobs, results, lost>>

\* Mutant: the guard lives until the job is processed.
ReceiveKeepingLock(w) ==
  /\ Running
  /\ worker[w].pc = "recv"
  /\ jobs # <<>>
  /\ jobs' = Tail(jobs)
  /\ worker' = [worker EXCEPT ![w] =
       IF IsCancel(Head(jobs)) THEN [pc |-> "done", msg |-> Cancel]
       ELSE [pc |-> "busy", msg |-> Head(jobs)]]
  /\ UNCHANGED <<lines, order, mainVars, lock, results, lost>>

\* recv under the mutex.  Its error, a closed and empty channel, cannot come:
\* see NoWorkerStranded.
Receive(w) ==
  /\ Running
  /\ worker[w].pc = "recv"
  /\ jobs # <<>>
  /\ jobs' = Tail(jobs)
  /\ lock' = None
  /\ worker' = [worker EXCEPT ![w] =
       IF IsCancel(Head(jobs)) THEN [pc |-> "done", msg |-> Cancel]
       ELSE [pc |-> "busy", msg |-> Head(jobs)]]
  /\ UNCHANGED <<lines, order, mainVars, results, lost>>

\* process_job: a report or a failure, sent back with the job's slot.
ProcessJob(w) ==
  /\ Running
  /\ worker[w].pc = "busy"
  /\ \E s \in {"success", "failure"} :
       results' = Append(results, [line |-> worker[w].msg.line, status |-> s,
                                   slot |-> worker[w].msg.slot])
  /\ worker' = [worker EXCEPT ![w] = [pc |-> "wait", msg |-> Cancel]]
  /\ UNCHANGED <<lines, order, mainVars, jobs, lock, lost>>

\* A panic inside process_job unwinds the thread: the job has no result, and
\* join()'s error is ignored.
Panic(w) ==
  /\ Running
  /\ Cardinality(lost) < MaxPanics
  /\ worker[w].pc = "busy"
  /\ lost' = lost \cup {worker[w].msg.line}
  /\ worker' = [worker EXCEPT ![w] = [pc |-> "panicked", msg |-> Cancel]]
  /\ UNCHANGED <<lines, order, mainVars, jobs, lock, results>>

ReadLine == ReadBlank \/ ReadError \/ ReadMalformed \/ ReadDuplicate \/ Enqueue

MainStep ==
  SendCancels \/ CollectSlot \/ CollectEnds \/ Flush \/ WriteCompleted \/ Join

WorkerStep(w) == Lock(w) \/ Receive(w) \/ ProcessJob(w) \/ Panic(w)

Next ==
  \/ ReadLine
  \/ EndOfInput
  \/ MainStep
  \/ \E w \in Workers : WorkerStep(w)

Spec == Init /\ [][Next]_vars

\* Every thread is scheduled; stdin may stay silent for ever.
SilentFairness == WF_vars(MainStep) /\ \A w \in Workers : WF_vars(WorkerStep(w))

\* The producer also keeps writing lines and closes stdin in the end.
Fairness == SilentFairness /\ WF_vars(ReadLine \/ EndOfInput)

FairSpec == Spec /\ Fairness
-----------------------------------------------------------------------------
(* Properties.                                                             *)

TypeOK ==
  /\ lines \in Seq(Line)
  /\ order \in {"completion", "input"}
  /\ pc \in {"read", "cancel", "collect", "flush", "join", "ok", "error"}
  /\ next \in 1..(Len(lines) + 1)
  /\ seen \subseteq Ids
  /\ jobs \in Seq(Message)
  /\ jobTxOpen \in BOOLEAN
  /\ sent \in Nat
  /\ pending \in Seq(ResultRec \cup {Placeholder})
  /\ received \in Nat
  /\ out \in Seq(ResultRec)
  /\ lock \in Workers \cup {None}
  /\ worker \in [Workers -> [pc : {"wait", "recv", "busy", "done", "panicked"}, msg : Message]]
  /\ results \in Seq(Indexed)
  /\ lost \subseteq Nat

\* One thread at a time is inside recv, and a thread that works on a job does
\* not hold the others up (the lock guard of run_streaming is dropped before
\* process_job is called).
LockDiscipline ==
  \A w \in Workers : worker[w].pc = "recv" <=> lock = w

\* Threads that still take messages.
Live == {w \in Workers : worker[w].pc \in {"wait", "recv", "busy"}}

\* Once job_tx is dropped the queue still holds a message for every thread that
\* will ask for one, whatever jobs, panics and sentinel look-alikes came before
\* (one cancel per worker, run_streaming): recv never returns Err.
NoWorkerStranded ==
  ~jobTxOpen => Cardinality(Live) <= Len(jobs)

Written == {out[i].line : i \in DOMAIN out}
Asking == {i \in DOMAIN lines : lines[i].kind \in {"garbled", "version", "job"}}
AllPanicked == \A w \in Workers : worker[w].pc = "panicked"

\* No accepted job looks like the sentinel (OneResultPerAcceptedId is about those).
NoLookAlike ==
  order = "input" \/ \A i \in DOMAIN lines : lines[i].kind = "job" => lines[i].id # EmptyId

\* When the run ends well every line that asks for a result has one, or the
\* thread that had it panicked: the count that ends the collection, the slots and
\* the sentinels leave none behind, in a queue, with a worker or in an
\* overwritten slot.
NothingLost ==
  pc = "ok" /\ NoLookAlike => AllPanicked \/ Asking \subseteq Written \cup lost

\* What the caller sees of this state, as the abstract specification's variables.
Answered == Written \cup lost
Outcome == IF pc \in {"ok", "error"} THEN pc ELSE "open"

Abstract == INSTANCE StreamPromise WITH
  WorkerCount <- Cardinality(Workers),
  owed <- Asking \ Answered,
  written <- out,
  outcome <- Outcome

\* The threads and channels implement the promise: each line that asks for a
\* result gets exactly one of the right kind, in input order on request, and the
\* stream ends; a result is lost only by a panic (jsonl.rs: "exactly one per
\* accepted id").
ImplementsPromise == Abstract!Promise

\* jsonl.rs: "A result record written to stdout, exactly one per accepted `id`":
\* when the run ended well, every identifier that was accepted has a result.
OneResultPerAcceptedId ==
  pc = "ok" =>
    \A x \in seen :
      Cardinality({i \in DOMAIN out : /\ lines[out[i].line].id = x
                                      /\ out[i].status \in {"success", "failure"}}) = 1

\* jsonl.rs, OutputOrder::CompletionOrder: "Emit results as soon as each job
\* completes": a finished job's result is written even if stdin stays silent.
EmittedAsCompleted ==
  order = "completion" /\ results # <<>> ~> results = <<>> \/ pc \in {"ok", "error"}
=============================================================================
