-------------------------- MODULE JsonlStreamProofs --------------------------
(***************************************************************************)
(* Theorems about JsonlStream for any number of lines, workers and panics. *)
(***************************************************************************)
EXTENDS JsonlStream, FiniteSetTheorems, SequenceTheorems, TLAPS

-----------------------------------------------------------------------------
(* The records the threads exchange.                                       *)

\* The records the threads exchange, field by field.
LEMMA RecordTypes ==
  /\ Placeholder \notin ResultRec
  /\ Cancel \in Message
  /\ \A l \in Nat, s \in Status : [line |-> l, status |-> s] \in ResultRec
  /\ \A r \in ResultRec : r.line \in Nat /\ r.status \in Status
  /\ \A r \in Indexed : r.line \in Nat /\ r.status \in Status /\ r.slot \in Nat
  /\ \A l \in Nat, s \in Status, k \in Nat :
        [line |-> l, status |-> s, slot |-> k] \in Indexed
  /\ \A l \in Nat, x \in Ids, k \in Nat :
        [line |-> l, id |-> x, slot |-> k] \in Message
  /\ \A m \in Message : m.line \in Nat /\ m.id \in Ids /\ m.slot \in Nat
  /\ {"success", "failure", "malformed", "duplicate"} \subseteq Status
BY StreamAssumption DEF Placeholder, ResultRec, Status, Indexed, Message, Cancel

\* Appending to, replacing in and taking from a sequence keep its type.
LEMMA QueueTypes ==
  ASSUME NEW S, NEW q \in Seq(S)
  PROVE  /\ \A x \in S : Append(q, x) \in Seq(S)
         /\ \A x \in S : \A i : [q EXCEPT ![i] = x] \in Seq(S)
         /\ q # <<>> => Head(q) \in S /\ Tail(q) \in Seq(S)
         /\ \A p \in Seq(S) : q \o p \in Seq(S)
<1>1. ASSUME NEW x \in S, NEW i PROVE [q EXCEPT ![i] = x] \in Seq(S)
  <2>1. q \in [1..Len(q) -> S] /\ Len(q) \in Nat
    OBVIOUS
  <2>2. [q EXCEPT ![i] = x] \in [1..Len(q) -> S]
    BY <2>1
  <2> QED
    BY <2>1, <2>2
<1>2. q # <<>> => Head(q) \in S /\ Tail(q) \in Seq(S)
  OBVIOUS
<1> QED
  BY <1>1, <1>2

\* A write appends one record or fails.
LEMMA WriteType ==
  ASSUME out \in Seq(ResultRec), NEW l \in Nat, NEW s \in Status, NEW then, WriteThen(l, s, then)
  PROVE  out' \in Seq(ResultRec) /\ pc' \in {then, "error"}
<1> DEFINE r == [line |-> l, status |-> s]
<1>1. r \in ResultRec
  BY RecordTypes
<1>2. out' = Append(out, r) \/ out' = out
  BY DEF WriteThen
<1>3. pc' \in {then, "error"}
  BY DEF WriteThen
<1> HIDE DEF r
<1> QED
  BY <1>1, <1>2, <1>3, QueueTypes

\* One sentinel per worker.
LEMMA CancelsType ==
  /\ Cardinality(Workers) \in Nat
  /\ CancelsOf(Cardinality(Workers)) \in Seq(Message)
  /\ Len(CancelsOf(Cardinality(Workers))) = Cardinality(Workers)
  /\ \A i \in 1..Cardinality(Workers) : CancelsOf(Cardinality(Workers))[i] = Cancel
<1>1. Cardinality(Workers) \in Nat
  BY FS_CardinalityType, StreamAssumption
<1>2. Cancel \in Message
  BY RecordTypes
<1> QED
  BY <1>1, <1>2 DEF CancelsOf

-----------------------------------------------------------------------------
\* Every variable keeps its type, whatever the interleaving of the main thread
\* and the workers.
THEOREM TypeCorrect == Spec => []TypeOK
<1> DEFINE Slots == ResultRec \cup {Placeholder}
<1>1. Init => TypeOK
  <2> SUFFICES ASSUME Init PROVE TypeOK
    OBVIOUS
  <2>1. lines \in Seq(Line)
    BY StreamAssumption DEF Init
  <2>2. worker \in [Workers -> [pc : {"wait", "recv", "busy", "done", "panicked"}, msg : Message]]
    BY RecordTypes DEF Init
  <2> QED
    BY <2>1, <2>2, StreamAssumption DEF Init, TypeOK
<1>2. TypeOK /\ [Next]_vars => TypeOK'
  <2> SUFFICES ASSUME TypeOK, [Next]_vars PROVE TypeOK'
    OBVIOUS
  <2> USE DEF TypeOK
  <2>a. ASSUME NEW s \in Status, Answer(s), next <= Len(lines)
        PROVE  pending' \in Seq(Slots) /\ out' \in Seq(ResultRec) /\ pc' \in {pc, "read", "error"}
    <3>1. [line |-> next, status |-> s] \in ResultRec
      BY RecordTypes
    <3> QED
      <4>1. CASE order = "input"
        <5> DEFINE r == [line |-> next, status |-> s]
        <5>1. pending' = Append(pending, r) /\ out' = out /\ pc' = pc
          BY <2>a, <4>1 DEF Answer
        <5> HIDE DEF r
        <5> QED
          BY <5>1, <3>1, QueueTypes DEF r
      <4>2. CASE order # "input"
        BY <2>a, <4>2, WriteType DEF Answer
      <4> QED
        BY <4>1, <4>2
  <2>1. CASE ReadBlank
    BY <2>1 DEF ReadBlank, Reading
  <2>2. CASE ReadError
    BY <2>2 DEF ReadError, Reading
  <2>3. CASE ReadMalformed
    BY <2>3, <2>a, RecordTypes DEF ReadMalformed, Reading
  <2>4. CASE ReadDuplicate
    BY <2>4, <2>a, RecordTypes DEF ReadDuplicate, Reading
  <2>5. CASE Enqueue
    <3>0. next \in 1..Len(lines) /\ next \in Nat
      BY <2>5 DEF Enqueue, Reading
    <3>1. Current \in Line /\ Current.id \in Ids
      <4>1. lines[next] \in Line
        BY <3>0
      <4> QED
        BY <4>1 DEF Line, Current
    <3>2. pending' \in Seq(Slots)
      BY <2>5, QueueTypes DEF Enqueue
    <3>3. \A k \in Nat : [line |-> next, id |-> Current.id, slot |-> k] \in Message
      BY <3>1, RecordTypes
    <3>4. jobs' \in Seq(Message)
      <4> DEFINE k == IF order = "input" THEN Len(pending') ELSE 0
                 j == [line |-> next, id |-> Current.id, slot |-> k]
      <4>1. k \in Nat
        BY <3>2
      <4>2. jobs' = jobs \/ jobs' = Append(jobs, j)
        BY <2>5 DEF Enqueue
      <4>3. j \in Message
        BY <3>3, <4>1
      <4> HIDE DEF j
      <4> QED
        BY <4>2, <4>3, QueueTypes
    <3> QED
      BY <2>5, <3>0, <3>1, <3>2, <3>4 DEF Enqueue
  <2>6. CASE EndOfInput
    BY <2>6 DEF EndOfInput
  <2>7. CASE SendCancels
    <3>1. jobs' \in Seq(Message)
      BY <2>7, CancelsType DEF SendCancels
    <3> QED
      BY <2>7, <3>1 DEF SendCancels
  <2>8. CASE CollectSlot
    <3> DEFINE r == Head(results)
    <3>1. r \in Indexed /\ results' \in Seq(Indexed)
      BY <2>8 DEF CollectSlot
    <3>2. [line |-> r.line, status |-> r.status] \in Slots
      BY <3>1, RecordTypes
    <3>3. pending' \in Seq(Slots)
      <4> HIDE DEF Slots, r
      <4> QED
        BY <2>8, <3>2, QueueTypes DEF CollectSlot, r, Slots
    <3> QED
      BY <2>8, <3>1, <3>3 DEF CollectSlot
  <2>9. CASE CollectEnds
    BY <2>9 DEF CollectEnds
  <2>10. CASE Flush
    <3>1. CASE pending = <<>>
      BY <2>10, <3>1 DEF Flush
    <3>2. CASE pending # <<>>
      <4> DEFINE h == Head(pending)
      <4>1. h \in Slots /\ pending' \in Seq(Slots)
        BY <2>10, <3>2, QueueTypes DEF Flush
      <4>2. h # Placeholder => h.line \in Nat /\ h.status \in Status
        BY <4>1, RecordTypes
      <4>3. out' \in Seq(ResultRec) /\ pc' \in {pc, "flush", "error"}
        BY <2>10, <3>2, <4>2, WriteType DEF Flush
      <4> QED
        BY <2>10, <4>1, <4>3 DEF Flush
    <3> QED
      BY <3>1, <3>2
  <2>11. CASE WriteCompleted
    <3> DEFINE r == Head(results)
    <3>1. r \in Indexed /\ results' \in Seq(Indexed)
      BY <2>11 DEF WriteCompleted
    <3>2. r.line \in Nat /\ r.status \in Status
      BY <3>1, RecordTypes
    <3>3. out' \in Seq(ResultRec) /\ pc' \in {"collect", "error"}
      BY <2>11, <3>2, WriteType DEF WriteCompleted
    <3> QED
      BY <2>11, <3>1, <3>3 DEF WriteCompleted
  <2>12. CASE Join
    BY <2>12 DEF Join
  <2> DEFINE Thread == [pc : {"wait", "recv", "busy", "done", "panicked"}, msg : Message]
  <2>w. ASSUME NEW w \in Workers, NEW p \in {"wait", "recv", "busy", "done", "panicked"},
               NEW m \in Message, worker' = [worker EXCEPT ![w] = [pc |-> p, msg |-> m]]
        PROVE  worker' \in [Workers -> Thread]
    BY <2>w
  <2>13. ASSUME NEW w \in Workers, Lock(w) PROVE TypeOK'
    <3>1. worker' \in [Workers -> Thread]
      BY <2>13 DEF Lock
    <3> QED
      BY <2>13, <3>1 DEF Lock, mainVars
  <2>14. ASSUME NEW w \in Workers, Receive(w) PROVE TypeOK'
    <3>1. Head(jobs) \in Message /\ jobs' \in Seq(Message)
      BY <2>14 DEF Receive
    <3>2. worker' \in [Workers -> Thread]
      BY <2>14, <2>w, <3>1, RecordTypes DEF Receive
    <3> QED
      BY <2>14, <3>1, <3>2 DEF Receive, mainVars
  <2>15. ASSUME NEW w \in Workers, ProcessJob(w) PROVE TypeOK'
    <3>1. worker[w].msg \in Message
      OBVIOUS
    <3>2. results' \in Seq(Indexed)
      BY <2>15, <3>1, RecordTypes DEF ProcessJob
    <3>3. worker' \in [Workers -> Thread]
      BY <2>15, <2>w, RecordTypes DEF ProcessJob
    <3> QED
      BY <2>15, <3>2, <3>3 DEF ProcessJob, mainVars
  <2>16. ASSUME NEW w \in Workers, Panic(w) PROVE TypeOK'
    <3>1. worker[w].msg.line \in Nat
      BY RecordTypes
    <3>2. worker' \in [Workers -> Thread]
      BY <2>16, <2>w, RecordTypes DEF Panic
    <3> QED
      BY <2>16, <3>1, <3>2 DEF Panic, mainVars
  <2>17. CASE UNCHANGED vars
    BY <2>17 DEF vars
  <2> QED
    BY <2>1, <2>2, <2>3, <2>4, <2>5, <2>6, <2>7, <2>8, <2>9, <2>10, <2>11, <2>12,
       <2>13, <2>14, <2>15, <2>16, <2>17
       DEF Next, ReadLine, MainStep, WorkerStep
<1> QED
  BY <1>1, <1>2, PTL DEF Spec
-----------------------------------------------------------------------------
(* The inductive invariant.                                                *)

Busy == {w \in Workers : worker[w].pc = "busy"}

\* job_tx is open exactly as long as the main thread may still send.
Phase ==
  /\ pc \in {"read", "cancel"} => jobTxOpen
  /\ pc \in {"collect", "flush", "join", "ok"} => ~jobTxOpen

\* The queue is some jobs followed by the sentinels: enough of these for every
\* live thread, and no more jobs anywhere than were sent.
Split(k) ==
  /\ k \in 0..Len(jobs)
  /\ \A i \in 1..Len(jobs) : IF i <= k THEN jobs[i].line # 0 ELSE jobs[i] = Cancel
  /\ jobTxOpen => k = Len(jobs)
  /\ ~jobTxOpen => k + Cardinality(Live) <= Len(jobs)
  /\ order = "input" => received + Len(results) + Cardinality(Busy) + k <= sent

QueueShape == \E k \in Nat : Split(k)

\* The sets of live and busy threads are finite.
LEMMA ThreadSets ==
  /\ Live \subseteq Workers /\ Busy \subseteq Workers
  /\ IsFiniteSet(Live) /\ IsFiniteSet(Busy)
  /\ Cardinality(Live) \in Nat /\ Cardinality(Busy) \in Nat
  /\ Cardinality(Live) <= Cardinality(Workers)
BY FS_Subset, FS_CardinalityType, StreamAssumption DEF Live, Busy

\* The length of a sequence is a natural number.
LEMMA LenType ==
  ASSUME NEW S, NEW s \in Seq(S)
  PROVE  Len(s) \in Nat
OBVIOUS

\* A position in a sequence is positive.
LEMMA IndexType ==
  ASSUME NEW S, NEW s \in Seq(S), NEW i \in DOMAIN s
  PROVE  i \in Nat /\ i # 0
OBVIOUS

\* What is left of a budget when its two halves shift by less.
LEMMA BudgetKept ==
  ASSUME NEW r \in Nat, NEW l \in Nat, NEW s \in Nat,
         NEW r1 \in Nat, NEW l1 \in Nat, NEW s1 \in Nat, NEW b \in Nat, NEW k \in Nat,
         r + l + b + k <= s, r1 + l1 - s1 <= r + l - s
  PROVE  r1 + l1 + b + k <= s1
OBVIOUS

\* Steps that neither take nor add a message nor change a thread.
LEMMA QueueFrame ==
  ASSUME TypeOK, TypeOK', QueueShape, UNCHANGED <<jobs, jobTxOpen, order, worker>>,
         received' + Len(results') - sent' <= received + Len(results) - sent
  PROVE  QueueShape'
<1>1. PICK k \in Nat : Split(k)
  BY DEF QueueShape
<1>2. Live' = Live /\ Busy' = Busy
  BY DEF Live, Busy
<1>3. /\ Len(results) \in Nat /\ Len(results') \in Nat /\ received \in Nat
      /\ received' \in Nat /\ sent \in Nat /\ sent' \in Nat
  <2>1. results \in Seq(Indexed) /\ received \in Nat /\ sent \in Nat
    BY DEF TypeOK
  <2>2. results' \in Seq(Indexed) /\ received' \in Nat /\ sent' \in Nat
    BY DEF TypeOK
  <2>3. Len(results) \in Nat
    BY <2>1, LenType
  <2>4. Len(results') \in Nat
    BY <2>2, LenType
  <2> QED
    BY <2>1, <2>2, <2>3, <2>4
<1>4. Cardinality(Busy) \in Nat
  BY ThreadSets
<1>5. order = "input" => received' + Len(results') + Cardinality(Busy) + k <= sent'
  <2>1. order = "input" => received + Len(results) + Cardinality(Busy) + k <= sent
    BY <1>1 DEF Split
  <2> HIDE DEF Split, TypeOK, QueueShape
  <2>2. ASSUME order = "input"
        PROVE  received' + Len(results') + Cardinality(Busy) + k <= sent'
    BY ONLY <1>1, <1>3, <1>4, <2>1, <2>2, BudgetKept,
            received' + Len(results') - sent' <= received + Len(results) - sent
  <2> QED
    BY <2>2
<1>6. jobs' = jobs /\ jobTxOpen' = jobTxOpen /\ order' = order
  OBVIOUS
<1>7. Split(k)'
  BY <1>1, <1>2, <1>5, <1>6 DEF Split
<1> QED
  BY <1>7 DEF QueueShape

\* Every step keeps the phase and the shape of the queue.
LEMMA QueueStep ==
  ASSUME TypeOK, TypeOK', Phase, QueueShape, [Next]_vars
  PROVE  Phase' /\ QueueShape'
<1> USE DEF Phase
<1>0. /\ Len(results) \in Nat /\ received \in Nat /\ sent \in Nat /\ next \in Nat /\ next # 0
      /\ Len(jobs) \in Nat /\ jobs \in Seq(Message) /\ results \in Seq(Indexed)
  BY DEF TypeOK
<1>k. PICK k \in Nat : Split(k)
  BY DEF QueueShape
<1>u. jobTxOpen => k = Len(jobs)
  BY <1>k DEF Split
<1>s. /\ k \in 0..Len(jobs)
      /\ ~jobTxOpen => k + Cardinality(Live) <= Len(jobs)
      /\ order = "input" => received + Len(results) + Cardinality(Busy) + k <= sent
  BY <1>k DEF Split
<1>t. Cardinality(Live) \in Nat /\ Cardinality(Busy) \in Nat
  BY ThreadSets
<1>1. CASE ReadBlank \/ ReadError \/ EndOfInput \/ Join
  BY <1>1, <1>0, QueueFrame DEF ReadBlank, ReadError, EndOfInput, Join, Reading
<1>2. CASE ReadMalformed \/ ReadDuplicate
  <2>1. pc = "read" /\ pc' \in {"read", "error"}
    BY <1>2 DEF ReadMalformed, ReadDuplicate, Reading, Answer, WriteThen
  <2>2. UNCHANGED <<jobs, jobTxOpen, order, worker, received, results, sent>>
    BY <1>2 DEF ReadMalformed, ReadDuplicate
  <2> QED
    BY <1>0, <2>1, <2>2, QueueFrame
<1>3. CASE Enqueue
  <2>1. Phase'
    BY <1>3 DEF Enqueue, Reading
  <2>2. CASE AllDone
    BY <1>3, <1>0, <2>1, <2>2, QueueFrame DEF Enqueue
  <2>3. CASE ~AllDone
    <3>1. PICK s : jobs' = Append(jobs, [line |-> next, id |-> Current.id, slot |-> s])
      BY <1>3, <2>3 DEF Enqueue
    <3>2. Live' = Live /\ Busy' = Busy
      BY <1>3 DEF Enqueue, Live, Busy
    <3>3. jobTxOpen /\ jobTxOpen' /\ sent' = sent + 1 /\ UNCHANGED <<received, results, order>>
      BY <1>3 DEF Enqueue, Reading
    <3>4. k = Len(jobs) /\ Len(jobs') = k + 1
      BY <1>k, <1>0, <3>1, <3>3 DEF Split
    <3>5. ASSUME NEW i \in 1..Len(jobs') PROVE jobs'[i].line # 0
      BY <1>k, <1>0, <3>1, <3>4, <3>5 DEF Split
    <3>6. Split(k + 1)'
      BY <1>k, <1>0, <1>t, <3>2, <3>3, <3>4, <3>5 DEF Split
    <3> QED
      BY <2>1, <3>6 DEF QueueShape
  <2> QED
    BY <2>2, <2>3
<1>4. CASE SendCancels
  <2>1. Phase'
    BY <1>4 DEF SendCancels
  <2> DEFINE n == Cardinality(Workers)
  <2>2. jobs' = jobs \o CancelsOf(n) /\ n \in Nat /\ Len(CancelsOf(n)) = n
        /\ CancelsOf(n) \in Seq(Message)
    BY <1>4, CancelsType DEF SendCancels
  <2>3. k = Len(jobs) /\ ~jobTxOpen' /\ UNCHANGED <<received, results, order, sent>>
    BY <1>4, <1>k DEF SendCancels, Split
  <2>4. Live' = Live /\ Busy' = Busy /\ Cardinality(Live) <= n
    BY <1>4, ThreadSets DEF SendCancels, Live, Busy
  <2>5. Len(jobs') = k + n
    BY <2>2, <2>3, <1>0, ConcatProperties
  <2>6. ASSUME NEW i \in 1..Len(jobs')
        PROVE  IF i <= k THEN jobs'[i].line # 0 ELSE jobs'[i] = Cancel
    <3>1. CASE i <= k
      BY <3>1, <2>2, <2>3, <1>k, <1>0 DEF Split
    <3>2. CASE i > k
      <4>1. i - k \in 1..n /\ jobs'[i] = CancelsOf(n)[i - k]
        BY <3>2, <2>2, <2>3, <2>5, <1>0
      <4> QED
        BY <4>1, <3>2, CancelsType
    <3> QED
      BY <3>1, <3>2, <2>5
  <2>7. Split(k)'
    BY <1>k, <1>0, <1>t, <2>2, <2>3, <2>4, <2>5, <2>6 DEF Split
  <2> QED
    BY <2>1, <2>7 DEF QueueShape
<1>5. CASE CollectSlot
  <2>1. Len(results') = Len(results) - 1 /\ received' = received + 1
    BY <1>5, <1>0 DEF CollectSlot
  <2>2. Phase'
    BY <1>5 DEF CollectSlot
  <2> QED
    BY <1>5, <1>0, <2>1, <2>2, QueueFrame DEF CollectSlot
<1>6. CASE CollectEnds
  BY <1>6, <1>0, QueueFrame DEF CollectEnds
<1>7. CASE Flush
  <2>1. pc = "flush" /\ pc' \in {"flush", "join", "error"}
    BY <1>7 DEF Flush, WriteThen
  <2> QED
    BY <1>7, <1>0, <2>1, QueueFrame DEF Flush
<1>8. CASE WriteCompleted
  <2>1. pc = "collect" /\ pc' \in {"collect", "error"}
    BY <1>8 DEF WriteCompleted, WriteThen
  <2>2. Len(results') = Len(results) - 1
    BY <1>8, <1>0 DEF WriteCompleted
  <2> QED
    BY <1>8, <1>0, <2>1, <2>2, QueueFrame DEF WriteCompleted
<1> DEFINE W == [Workers -> [pc : {"wait", "recv", "busy", "done", "panicked"}, msg : Message]]
<1>w. worker \in W
  BY DEF TypeOK
<1>9. ASSUME NEW w \in Workers, Lock(w) PROVE Phase' /\ QueueShape'
  <2>1. Phase' /\ UNCHANGED <<jobs, jobTxOpen, order, received, results, sent>>
    BY <1>9 DEF Lock, mainVars
  <2>2. Live' = Live /\ Busy' = Busy
    BY <1>9, <1>w DEF Lock, Live, Busy
  <2>3. Split(k)'
    BY <1>k, <2>1, <2>2 DEF Split
  <2> QED
    BY <2>1, <2>3 DEF QueueShape
<1>10. ASSUME NEW w \in Workers, Receive(w) PROVE Phase' /\ QueueShape'
  <2>1. Phase' /\ UNCHANGED <<jobTxOpen, order, received, results, sent>>
    BY <1>10 DEF Receive, mainVars
  <2>2. /\ jobs # <<>> /\ jobs' = Tail(jobs) /\ Len(jobs') = Len(jobs) - 1 /\ Len(jobs) >= 1
        /\ \A i \in 1..Len(jobs') : jobs'[i] = jobs[i + 1]
        /\ Head(jobs) = jobs[1]
    BY <1>10, <1>0 DEF Receive
  <2>a. k # 0 => \A i \in 1..Len(jobs') : IF i <= k - 1 THEN jobs'[i].line # 0 ELSE jobs'[i] = Cancel
    <3> SUFFICES ASSUME k # 0, NEW i \in 1..Len(jobs')
                 PROVE  IF i <= k - 1 THEN jobs'[i].line # 0 ELSE jobs'[i] = Cancel
      OBVIOUS
    <3>1. i + 1 \in 1..Len(jobs) /\ jobs'[i] = jobs[i + 1] /\ (i <= k - 1 <=> i + 1 <= k)
      BY <2>2, <1>0
    <3> QED
      BY <3>1, <1>k DEF Split
  <2>c. k # 0 => /\ k - 1 \in 0..Len(jobs')
                 /\ jobTxOpen' => k - 1 = Len(jobs')
    <3>1. k # 0 => k - 1 \in 0..Len(jobs')
      BY <1>s, <1>0, <2>2
    <3>2. jobTxOpen' => jobTxOpen
      BY <2>1
    <3>3. k = Len(jobs) => k - 1 = Len(jobs')
      BY <2>2
    <3> QED
      BY <1>u, <3>1, <3>2, <3>3
  <2>d. ASSUME k # 0, ~jobTxOpen' => k - 1 + Cardinality(Live') <= Len(jobs'),
               order' = "input" => received' + Len(results') + Cardinality(Busy') + (k - 1) <= sent'
        PROVE  Split(k - 1)'
    BY <2>a, <2>c, <2>d DEF Split
  <2>b. k = 0 => Head(jobs) = Cancel
    BY <1>k, <2>2 DEF Split
  <2>3. w \in Live /\ w \notin Busy /\ worker[w].pc = "recv"
    BY <1>10 DEF Receive, Live, Busy
  <2>4. CASE IsCancel(Head(jobs))
    <3>1. Live' = Live \ {w} /\ Busy' = Busy
      BY <1>10, <1>w, <2>3, <2>4 DEF Receive, Live, Busy
    <3>2. Cardinality(Live') = Cardinality(Live) - 1
      BY <2>3, <3>1, ThreadSets, FS_RemoveElement
    <3>3. CASE k = 0
      <4>1. Split(0)'
        BY <1>k, <1>0, <1>t, <2>1, <2>2, <3>1, <3>2, <3>3 DEF Split
      <4> QED
        BY <2>1, <4>1 DEF QueueShape
    <3>4. CASE k # 0
      <4>a. /\ ~jobTxOpen' => k - 1 + Cardinality(Live') <= Len(jobs')
            /\ order' = "input" => received' + Len(results') + Cardinality(Busy') + (k - 1) <= sent'
        BY <1>s, <1>0, <1>t, <2>1, <2>2, <3>1, <3>2
      <4>1. Split(k - 1)'
        BY <2>d, <3>4, <4>a
      <4> QED
        BY <2>1, <4>1, <3>4 DEF QueueShape
    <3> QED
      BY <3>3, <3>4
  <2>5. CASE ~IsCancel(Head(jobs))
    <3>1. Live' = Live /\ Busy' = Busy \cup {w}
      BY <1>10, <1>w, <2>3, <2>5 DEF Receive, Live, Busy
    <3>2. Cardinality(Busy') = Cardinality(Busy) + 1
      BY <2>3, <3>1, ThreadSets, FS_AddElement
    <3>3. k # 0
      BY <2>b, <2>5 DEF IsCancel, Cancel
    <3>a. /\ ~jobTxOpen' => k - 1 + Cardinality(Live') <= Len(jobs')
          /\ order' = "input" => received' + Len(results') + Cardinality(Busy') + (k - 1) <= sent'
      BY <1>s, <1>0, <1>t, <2>1, <2>2, <3>1, <3>2
    <3>4. Split(k - 1)'
      BY <2>d, <3>3, <3>a
    <3> QED
      BY <2>1, <3>4, <3>3 DEF QueueShape
  <2> QED
    BY <2>4, <2>5
<1>11. ASSUME NEW w \in Workers, ProcessJob(w) PROVE Phase' /\ QueueShape'
  <2>1. Phase' /\ UNCHANGED <<jobs, jobTxOpen, order, received, sent>>
    BY <1>11 DEF ProcessJob, mainVars
  <2>2. w \in Busy /\ Live' = Live /\ Busy' = Busy \ {w}
    BY <1>11, <1>w DEF ProcessJob, Live, Busy
  <2>3. Cardinality(Busy') = Cardinality(Busy) - 1
    BY <2>2, ThreadSets, FS_RemoveElement
  <2>4. Len(results') = Len(results) + 1
    BY <1>11, <1>0 DEF ProcessJob
  <2>5. Split(k)'
    BY <1>k, <1>0, <1>t, <2>1, <2>2, <2>3, <2>4 DEF Split
  <2> QED
    BY <2>1, <2>5 DEF QueueShape
<1>12. ASSUME NEW w \in Workers, Panic(w) PROVE Phase' /\ QueueShape'
  <2>1. Phase' /\ UNCHANGED <<jobs, jobTxOpen, order, received, results, sent>>
    BY <1>12 DEF Panic, mainVars
  <2>2. w \in Busy /\ w \in Live /\ Live' = Live \ {w} /\ Busy' = Busy \ {w}
    BY <1>12, <1>w DEF Panic, Live, Busy
  <2>3. /\ Cardinality(Busy') = Cardinality(Busy) - 1
        /\ Cardinality(Live') = Cardinality(Live) - 1
    BY <2>2, ThreadSets, FS_RemoveElement
  <2>4. Split(k)'
    BY <1>k, <1>0, <1>t, <2>1, <2>3 DEF Split
  <2> QED
    BY <2>1, <2>4 DEF QueueShape
<1>13. CASE UNCHANGED vars
  BY <1>13, <1>0, QueueFrame DEF vars
<1> QED
  BY <1>1, <1>2, <1>3, <1>4, <1>5, <1>6, <1>7, <1>8, <1>9, <1>10, <1>11, <1>12, <1>13
     DEF Next, ReadLine, MainStep, WorkerStep

\* They hold before the first line is read.
LEMMA QueueInit == Init => Phase /\ QueueShape
<1> SUFFICES ASSUME Init PROVE Phase /\ QueueShape
  OBVIOUS
<1>1. Busy = {}
  BY DEF Init, Busy
<1>2. Cardinality(Busy) = 0
  BY <1>1, FS_EmptySet
<1>3. Split(0)
  BY <1>2 DEF Init, Split
<1> QED
  BY <1>3 DEF Init, Phase, QueueShape

\* Once job_tx is dropped, every thread that still takes messages finds one: recv
\* never fails and join is never reached with a thread left behind for want of a
\* sentinel.
THEOREM ThreadsServed == Spec => []NoWorkerStranded
<1>1. TypeOK /\ QueueShape => NoWorkerStranded
  <2> SUFFICES ASSUME TypeOK, QueueShape, ~jobTxOpen PROVE Cardinality(Live) <= Len(jobs)
    BY DEF NoWorkerStranded
  <2>1. PICK k \in Nat : Split(k)
    BY DEF QueueShape
  <2> QED
    BY <2>1, ThreadSets DEF Split, TypeOK
<1>2. TypeOK /\ TypeOK' /\ Phase /\ QueueShape /\ [Next]_vars => (Phase /\ QueueShape)'
  BY QueueStep
<1> QED
  BY <1>1, <1>2, QueueInit, TypeCorrect, PTL DEF Spec
-----------------------------------------------------------------------------
(* Jobs on their way: in the queue, with a worker, in the result channel.  *)

InQueue(js) == {<<js[i].line, js[i].slot>> : i \in {j \in DOMAIN js : js[j].line # 0}}
InHands == {<<worker[w].msg.line, worker[w].msg.slot>> : w \in Busy}
InResults(rs) == {<<rs[i].line, rs[i].slot>> : i \in DOMAIN rs}

Travelling == InQueue(jobs) \cup InHands \cup InResults(results)

\* Sending a job puts its line and slot on their way.
LEMMA QueueAppend ==
  ASSUME NEW js \in Seq(Message), NEW m \in Message, m.line # 0
  PROVE  InQueue(Append(js, m)) = InQueue(js) \cup {<<m.line, m.slot>>}
<1> DEFINE a == Append(js, m)
<1>1. /\ Len(js) \in Nat /\ DOMAIN js = 1..Len(js) /\ DOMAIN a = 1..(Len(js) + 1)
      /\ a[Len(js) + 1] = m /\ \A i \in 1..Len(js) : a[i] = js[i]
  OBVIOUS
<1> HIDE DEF a
<1>2. ASSUME NEW t \in InQueue(a) PROVE t \in InQueue(js) \cup {<<m.line, m.slot>>}
  <2>1. PICK i \in DOMAIN a : a[i].line # 0 /\ t = <<a[i].line, a[i].slot>>
    BY DEF InQueue
  <2>2. CASE i \in 1..Len(js)
    BY <2>1, <2>2, <1>1 DEF InQueue
  <2>3. CASE i = Len(js) + 1
    BY <2>1, <2>3, <1>1
  <2> QED
    BY <2>2, <2>3, <1>1
<1>3. ASSUME NEW t \in InQueue(js) PROVE t \in InQueue(a)
  <2>1. PICK i \in DOMAIN js : js[i].line # 0 /\ t = <<js[i].line, js[i].slot>>
    BY DEF InQueue
  <2>2. i \in DOMAIN a /\ a[i] = js[i]
    BY <1>1
  <2> QED
    BY <2>1, <2>2 DEF InQueue
<1>4. <<m.line, m.slot>> \in InQueue(a)
  <2>1. Len(js) + 1 \in DOMAIN a
    BY <1>1
  <2> QED
    BY <2>1, <1>1 DEF InQueue
<1> QED
  BY <1>2, <1>3, <1>4 DEF a

\* Taking a message takes only that job off the queue.
LEMMA QueueTail ==
  ASSUME NEW js \in Seq(Message), js # <<>>
  PROVE  /\ InQueue(Tail(js)) \subseteq InQueue(js)
         /\ \A t \in InQueue(js) :
              \/ t \in InQueue(Tail(js))
              \/ Head(js).line # 0 /\ t = <<Head(js).line, Head(js).slot>>
         /\ Head(js).line # 0 => <<Head(js).line, Head(js).slot>> \in InQueue(js)
<1> DEFINE a == Tail(js)
<1>1. /\ Len(js) \in Nat /\ Len(js) >= 1 /\ DOMAIN js = 1..Len(js)
      /\ DOMAIN a = 1..(Len(js) - 1)
      /\ Head(js) = js[1] /\ \A i \in 1..(Len(js) - 1) : a[i] = js[i + 1]
  OBVIOUS
<1> HIDE DEF a
<1>2. ASSUME NEW t \in InQueue(a) PROVE t \in InQueue(js)
  <2>1. PICK i \in DOMAIN a : a[i].line # 0 /\ t = <<a[i].line, a[i].slot>>
    BY DEF InQueue
  <2>2. i + 1 \in DOMAIN js /\ a[i] = js[i + 1]
    BY <1>1
  <2> QED
    BY <2>1, <2>2 DEF InQueue
<1>3. ASSUME NEW t \in InQueue(js)
      PROVE  t \in InQueue(a) \/ (Head(js).line # 0 /\ t = <<Head(js).line, Head(js).slot>>)
  <2>1. PICK i \in DOMAIN js : js[i].line # 0 /\ t = <<js[i].line, js[i].slot>>
    BY DEF InQueue
  <2>2. CASE i = 1
    BY <2>1, <2>2, <1>1
  <2>3. CASE i # 1
    <3>1. i - 1 \in DOMAIN a /\ a[i - 1] = js[i]
      BY <2>3, <1>1
    <3> QED
      BY <2>1, <3>1 DEF InQueue
  <2> QED
    BY <2>2, <2>3
<1>4. Head(js).line # 0 => <<Head(js).line, Head(js).slot>> \in InQueue(js)
  <2>1. 1 \in DOMAIN js
    BY <1>1
  <2> QED
    BY <2>1, <1>1 DEF InQueue
<1> QED
  BY <1>2, <1>3, <1>4 DEF a

\* A queue followed by the sentinels, position by position.
LEMMA CancelsAppended ==
  ASSUME NEW js \in Seq(Message), NEW q, q = js \o CancelsOf(Cardinality(Workers))
  PROVE  /\ DOMAIN q = 1..Len(q) /\ Len(js) \in Nat /\ Len(js) <= Len(q) /\ Len(q) \in Nat
         /\ \A i \in 1..Len(q) : IF i <= Len(js) THEN q[i] = js[i] ELSE q[i] = Cancel
<1> DEFINE n == Cardinality(Workers)
           c == CancelsOf(n)
<1>1. n \in Nat /\ c \in Seq(Message) /\ Len(c) = n /\ \A i \in 1..n : c[i] = Cancel
  BY CancelsType
<1> HIDE DEF n, c
<1>2. q = js \o c
  BY DEF c, n
<1>3. /\ q \in Seq(Message) /\ Len(q) = Len(js) + n
      /\ \A i \in 1..(Len(js) + n) : q[i] = IF i <= Len(js) THEN js[i] ELSE c[i - Len(js)]
  <2>1. /\ js \o c \in Seq(Message) /\ Len(js \o c) = Len(js) + Len(c)
        /\ \A i \in 1..(Len(js) + Len(c)) :
              (js \o c)[i] = IF i <= Len(js) THEN js[i] ELSE c[i - Len(js)]
    BY ONLY <1>1, js \in Seq(Message), ConcatProperties
  <2> QED
    BY ONLY <2>1, <1>1, <1>2
<1>4. Len(js) \in Nat /\ Len(q) \in Nat /\ DOMAIN q = 1..Len(q)
  BY <1>3
<1>5. ASSUME NEW i \in 1..Len(q), ~(i <= Len(js)) PROVE q[i] = Cancel
  <2>1. /\ i \in 1..(Len(js) + n) /\ ~(i <= Len(js))
        /\ Len(js) \in Nat /\ n \in Nat
    BY <1>1, <1>3, <1>4, <1>5
  <2>2. i - Len(js) \in 1..n
    BY ONLY <2>1
  <2>3. q[i] = c[i - Len(js)]
    BY <1>3, <2>1
  <2> QED
    BY <2>2, <2>3, <1>1
<1> QED
  BY <1>1, <1>3, <1>4, <1>5

\* Sentinels are not jobs.
LEMMA QueueCancels ==
  ASSUME NEW js \in Seq(Message), NEW q, q = js \o CancelsOf(Cardinality(Workers))
  PROVE  InQueue(q) = InQueue(js)
<1>1. /\ DOMAIN q = 1..Len(q) /\ Len(js) \in Nat /\ Len(js) <= Len(q) /\ Len(q) \in Nat
      /\ \A i \in 1..Len(q) : IF i <= Len(js) THEN q[i] = js[i] ELSE q[i] = Cancel
  BY CancelsAppended
<1>d. DOMAIN js = 1..Len(js)
  OBVIOUS
<1>2. ASSUME NEW t \in InQueue(q) PROVE t \in InQueue(js)
  <2>1. PICK i \in DOMAIN q : q[i].line # 0 /\ t = <<q[i].line, q[i].slot>>
    BY DEF InQueue
  <2>2. i \in DOMAIN js /\ q[i] = js[i]
    BY <1>1, <1>d, <2>1 DEF Cancel
  <2> QED
    BY <2>1, <2>2 DEF InQueue
<1>3. ASSUME NEW t \in InQueue(js) PROVE t \in InQueue(q)
  <2>1. PICK i \in DOMAIN js : js[i].line # 0 /\ t = <<js[i].line, js[i].slot>>
    BY DEF InQueue
  <2>2. i \in DOMAIN q /\ q[i] = js[i]
    BY <1>1, <1>d
  <2> QED
    BY <2>1, <2>2 DEF InQueue
<1> QED
  BY <1>2, <1>3

\* A result sent back is still on its way.
LEMMA ResultsAppend ==
  ASSUME NEW rs \in Seq(Indexed), NEW r \in Indexed
  PROVE  InResults(Append(rs, r)) = InResults(rs) \cup {<<r.line, r.slot>>}
<1> DEFINE a == Append(rs, r)
<1>1. /\ Len(rs) \in Nat /\ DOMAIN rs = 1..Len(rs) /\ DOMAIN a = 1..(Len(rs) + 1)
      /\ a[Len(rs) + 1] = r /\ \A i \in 1..Len(rs) : a[i] = rs[i]
  OBVIOUS
<1> HIDE DEF a
<1>2. ASSUME NEW t \in InResults(a) PROVE t \in InResults(rs) \cup {<<r.line, r.slot>>}
  <2>1. PICK i \in DOMAIN a : t = <<a[i].line, a[i].slot>>
    BY DEF InResults
  <2>2. CASE i \in 1..Len(rs)
    BY <2>1, <2>2, <1>1 DEF InResults
  <2>3. CASE i = Len(rs) + 1
    BY <2>1, <2>3, <1>1
  <2> QED
    BY <2>2, <2>3, <1>1
<1>3. ASSUME NEW t \in InResults(rs) PROVE t \in InResults(a)
  <2>1. PICK i \in DOMAIN rs : t = <<rs[i].line, rs[i].slot>>
    BY DEF InResults
  <2>2. i \in DOMAIN a /\ a[i] = rs[i]
    BY <1>1
  <2> QED
    BY <2>1, <2>2 DEF InResults
<1>4. <<r.line, r.slot>> \in InResults(a)
  <2>1. Len(rs) + 1 \in DOMAIN a
    BY <1>1
  <2> QED
    BY <2>1, <1>1 DEF InResults
<1> QED
  BY <1>2, <1>3, <1>4 DEF a

\* Taking a result takes only that one off the channel.
LEMMA ResultsTail ==
  ASSUME NEW rs \in Seq(Indexed), rs # <<>>
  PROVE  /\ InResults(Tail(rs)) \subseteq InResults(rs)
         /\ <<Head(rs).line, Head(rs).slot>> \in InResults(rs)
         /\ \A t \in InResults(rs) :
              t \in InResults(Tail(rs)) \/ t = <<Head(rs).line, Head(rs).slot>>
<1> DEFINE a == Tail(rs)
<1>1. /\ Len(rs) \in Nat /\ Len(rs) >= 1 /\ DOMAIN rs = 1..Len(rs)
      /\ DOMAIN a = 1..(Len(rs) - 1)
      /\ Head(rs) = rs[1] /\ \A i \in 1..(Len(rs) - 1) : a[i] = rs[i + 1]
  OBVIOUS
<1> HIDE DEF a
<1>2. ASSUME NEW t \in InResults(a) PROVE t \in InResults(rs)
  <2>1. PICK i \in DOMAIN a : t = <<a[i].line, a[i].slot>>
    BY DEF InResults
  <2>2. i + 1 \in DOMAIN rs /\ a[i] = rs[i + 1]
    BY <1>1
  <2> QED
    BY <2>1, <2>2 DEF InResults
<1>3. ASSUME NEW t \in InResults(rs)
      PROVE  t \in InResults(a) \/ t = <<Head(rs).line, Head(rs).slot>>
  <2>1. PICK i \in DOMAIN rs : t = <<rs[i].line, rs[i].slot>>
    BY DEF InResults
  <2>2. CASE i = 1
    BY <2>1, <2>2, <1>1
  <2>3. CASE i # 1
    <3>1. i - 1 \in DOMAIN a /\ a[i - 1] = rs[i]
      BY <2>3, <1>1
    <3> QED
      BY <2>1, <3>1 DEF InResults
  <2> QED
    BY <2>2, <2>3
<1>4. <<Head(rs).line, Head(rs).slot>> \in InResults(rs)
  <2>1. 1 \in DOMAIN rs
    BY <1>1
  <2> QED
    BY <2>1, <1>1 DEF InResults
<1> QED
  BY <1>2, <1>3, <1>4 DEF a

-----------------------------------------------------------------------------
(* Nothing is lost.                                                        *)

\* A job is never taken for a sentinel, so a thread only leaves once the jobs are
\* all taken.
Retirement ==
  NoLookAlike =>
    /\ \A i \in DOMAIN jobs : jobs[i].line # 0 => ~IsCancel(jobs[i])
    /\ (\E w \in Workers : worker[w].pc = "done") =>
         ~jobTxOpen /\ \A i \in DOMAIN jobs : jobs[i] = Cancel

\* A slot belongs to one line, until the results are written from the front.
SlotsDistinct ==
  /\ order = "completion" => pending = <<>>
  /\ order = "input" /\ pc \in {"read", "cancel", "collect"} =>
       \A t \in Travelling :
         /\ t[2] \in DOMAIN pending
         /\ pending[t[2]].line \in {0, t[1]}
         /\ \A u \in Travelling : u[2] = t[2] => u[1] = t[1]

Buffered == {pending[j].line : j \in DOMAIN pending}

\* Where the answer of line i is: written, lost with its thread, in a slot, or
\* still on its way.
Somewhere(i) ==
  i \in Written \/ i \in lost \/ i \in Buffered \/ \E t \in Travelling : t[1] = i

\* Every line that was read and asks for a result is somewhere.
Located ==
  NoLookAlike /\ pc # "error" =>
    AllPanicked \/ \A i \in Asking : i < next => Somewhere(i)

\* What holds from the end of each phase on.
PhaseEnds ==
  /\ NoLookAlike /\ pc \in {"cancel", "collect", "flush", "join", "ok"} =>
       AllPanicked \/ next > Len(lines)
  /\ NoLookAlike /\ pc \in {"flush", "join", "ok"} => AllPanicked \/ Travelling = {}
  /\ pc \in {"join", "ok"} => pending = <<>>

Conservation == Retirement /\ SlotsDistinct /\ Located /\ PhaseEnds

\* The input and its order never change.
LEMMA Stable ==
  ASSUME [Next]_vars
  PROVE  /\ UNCHANGED <<lines, order>>
         /\ NoLookAlike' <=> NoLookAlike
         /\ Asking' = Asking
<1>1. UNCHANGED <<lines, order>>
  BY DEF Next, vars, ReadLine, MainStep, WorkerStep, ReadBlank, ReadError, ReadMalformed,
         ReadDuplicate, Enqueue, EndOfInput, SendCancels, CollectSlot, CollectEnds, Flush,
         WriteCompleted, Join, Lock, Receive, ProcessJob, Panic
<1> QED
  BY <1>1 DEF NoLookAlike, Asking

\* A panicked thread stays so, and with none left no message is taken any more.
LEMMA PanicStable ==
  ASSUME TypeOK, [Next]_vars, AllPanicked
  PROVE  AllPanicked'
<1>1. worker' = worker
  <2>1. ASSUME NEW w \in Workers, WorkerStep(w) PROVE FALSE
    BY <2>1 DEF AllPanicked, WorkerStep, Lock, Receive, ProcessJob, Panic
  <2> QED
    BY <2>1 DEF Next, vars, ReadLine, MainStep, ReadBlank, ReadError, ReadMalformed,
         ReadDuplicate, Enqueue, EndOfInput, SendCancels, CollectSlot, CollectEnds, Flush,
         WriteCompleted, Join
<1> QED
  BY <1>1 DEF AllPanicked

\* Before the sentinels are sent, all threads gone means all threads panicked.
LEMMA GoneMeansPanicked ==
  ASSUME Retirement, NoLookAlike, AllDone, jobTxOpen
  PROVE  AllPanicked
BY DEF Retirement, AllDone, AllPanicked

\* The message a worker takes is a sentinel exactly if it carries no line.
LEMMA HeadOfQueue ==
  ASSUME TypeOK, QueueShape, Retirement, NoLookAlike, jobs # <<>>
  PROVE  /\ Head(jobs) \in Message
         /\ IsCancel(Head(jobs)) <=> Head(jobs).line = 0
         /\ IsCancel(Head(jobs)) => ~jobTxOpen /\ \A i \in DOMAIN jobs : jobs[i] = Cancel
<1>1. /\ Len(jobs) \in Nat /\ Len(jobs) >= 1 /\ DOMAIN jobs = 1..Len(jobs)
      /\ Head(jobs) = jobs[1] /\ Head(jobs) \in Message
  BY DEF TypeOK
<1>2. PICK k \in Nat : Split(k)
  BY DEF QueueShape
<1>3. Head(jobs).line # 0 => ~IsCancel(Head(jobs))
  BY <1>1 DEF Retirement
<1>4. ASSUME Head(jobs).line = 0
      PROVE  IsCancel(Head(jobs)) /\ k = 0
  <2>0. IF 1 <= k THEN Head(jobs).line # 0 ELSE Head(jobs) = Cancel
    <3>1. 1 \in 1..Len(jobs)
      BY <1>1
    <3> QED
      BY <1>1, <1>2, <3>1 DEF Split
  <2>1. k = 0
    BY <2>0, <1>4
  <2>2. Head(jobs) = Cancel
    BY <2>0, <2>1
  <2> QED
    BY <2>1, <2>2 DEF Cancel, IsCancel
<1>5. k = 0 => ~jobTxOpen /\ \A i \in DOMAIN jobs : jobs[i] = Cancel
  BY <1>1, <1>2 DEF Split
<1> QED
  BY <1>1, <1>3, <1>4, <1>5

\* How each step moves the jobs on their way.
LEMMA Moves ==
  ASSUME TypeOK, TypeOK', Phase, QueueShape, Retirement, NoLookAlike, [Next]_vars
  PROVE  /\ Enqueue /\ ~AllDone =>
              \E s : /\ Travelling' = Travelling \cup {<<next, s>>}
                     /\ order = "input" => s = Len(pending')
         /\ ~Enqueue \/ AllDone => Travelling' \subseteq Travelling
         /\ CollectSlot \/ WriteCompleted =>
              <<Head(results).line, Head(results).slot>> \in Travelling
         /\ \A t \in Travelling :
              \/ t \in Travelling'
              \/ t[1] \in lost'
              \/ /\ CollectSlot \/ WriteCompleted
                 /\ t = <<Head(results).line, Head(results).slot>>
<1> DEFINE Goal ==
      /\ Enqueue /\ ~AllDone =>
           \E s : /\ Travelling' = Travelling \cup {<<next, s>>}
                  /\ order = "input" => s = Len(pending')
      /\ ~Enqueue \/ AllDone => Travelling' \subseteq Travelling
      /\ CollectSlot \/ WriteCompleted =>
           <<Head(results).line, Head(results).slot>> \in Travelling
      /\ \A t \in Travelling :
           \/ t \in Travelling'
           \/ t[1] \in lost'
           \/ /\ CollectSlot \/ WriteCompleted
              /\ t = <<Head(results).line, Head(results).slot>>
<1>0. /\ jobs \in Seq(Message) /\ results \in Seq(Indexed) /\ next \in Nat /\ next # 0
      /\ worker \in [Workers -> [pc : {"wait", "recv", "busy", "done", "panicked"}, msg : Message]]
  BY DEF TypeOK
<1>f. worker' = worker => InHands' = InHands
  BY DEF InHands, Busy
<1>m. CASE UNCHANGED <<jobs, worker, results>> /\ ~Enqueue /\ ~CollectSlot /\ ~WriteCompleted
  <2>1. Travelling' = Travelling
    BY <1>m, <1>f DEF Travelling
  <2> QED
    BY <1>m, <2>1
<1>1. CASE Enqueue
  <2>c. ~CollectSlot /\ ~WriteCompleted
    BY <1>1 DEF Enqueue, Reading, CollectSlot, WriteCompleted
  <2>1. CASE AllDone
    <3>1. Travelling' = Travelling
      BY <1>1, <2>1, <1>f DEF Enqueue, Travelling
    <3> QED
      BY <2>1, <2>c, <3>1
  <2>2. CASE ~AllDone
    <3> DEFINE s == IF order = "input" THEN Len(pending') ELSE 0
               j == [line |-> next, id |-> Current.id, slot |-> s]
    <3>1. jobs' = Append(jobs, j) /\ worker' = worker /\ results' = results
      BY <1>1, <2>2 DEF Enqueue
    <3>2. j \in Message
      <4>1. Current \in Line
        BY <1>1 DEF Enqueue, Reading, Current, TypeOK
      <4>2. s \in Nat
        BY DEF TypeOK
      <4> QED
        BY <1>0, <4>1, <4>2, RecordTypes DEF Line
    <3>3. j.line = next /\ j.slot = s
      OBVIOUS
    <3> HIDE DEF j, s
    <3>4. InQueue(jobs') = InQueue(jobs) \cup {<<next, s>>}
      BY <1>0, <3>1, <3>2, <3>3, QueueAppend
    <3>5. Travelling' = Travelling \cup {<<next, s>>}
      BY <3>1, <3>4, <1>f DEF Travelling
    <3>6. order = "input" => s = Len(pending')
      BY DEF s
    <3> QED
      BY <1>1, <2>2, <2>c, <3>5, <3>6
  <2> QED
    BY <2>1, <2>2
<1>2. CASE SendCancels
  <2>1. InQueue(jobs') = InQueue(jobs) /\ worker' = worker /\ results' = results
    BY <1>2, <1>0, QueueCancels DEF SendCancels
  <2>2. Travelling' = Travelling
    BY <2>1, <1>f DEF Travelling
  <2>3. ~Enqueue /\ ~CollectSlot /\ ~WriteCompleted
    BY <1>2 DEF SendCancels, Enqueue, Reading, CollectSlot, WriteCompleted
  <2> QED
    BY <2>2, <2>3
<1>3. CASE CollectSlot \/ WriteCompleted
  <2> DEFINE h == <<Head(results).line, Head(results).slot>>
  <2>1. results # <<>> /\ results' = Tail(results) /\ worker' = worker /\ jobs' = jobs
    BY <1>3 DEF CollectSlot, WriteCompleted
  <2>2. /\ InResults(results') \subseteq InResults(results)
        /\ h \in InResults(results)
        /\ \A t \in InResults(results) : t \in InResults(results') \/ t = h
    BY <1>0, <2>1, ResultsTail
  <2>3. ~Enqueue
    BY <1>3 DEF Enqueue, Reading, CollectSlot, WriteCompleted
  <2> HIDE DEF h
  <2>4. /\ Travelling' \subseteq Travelling /\ h \in Travelling
        /\ \A t \in Travelling : t \in Travelling' \/ t = h
    BY <2>1, <2>2, <1>f DEF Travelling
  <2> QED
    BY <1>3, <2>3, <2>4 DEF h
<1>4. ASSUME NEW w \in Workers, Lock(w) PROVE Goal
  <2>1. InHands' = InHands /\ jobs' = jobs /\ results' = results
    BY <1>4, <1>0 DEF Lock, InHands, Busy
  <2>2. Travelling' = Travelling
    BY <2>1 DEF Travelling
  <2>3. ~Enqueue /\ ~CollectSlot /\ ~WriteCompleted
    BY <1>4, <1>0 DEF Lock, mainVars, Enqueue, CollectSlot, WriteCompleted
  <2> QED
    BY <2>2, <2>3
<1>5. ASSUME NEW w \in Workers, Receive(w) PROVE Goal
  <2> DEFINE h == <<Head(jobs).line, Head(jobs).slot>>
  <2>1. jobs # <<>> /\ jobs' = Tail(jobs) /\ results' = results /\ worker[w].pc = "recv"
    BY <1>5 DEF Receive
  <2>2. /\ InQueue(jobs') \subseteq InQueue(jobs)
        /\ \A t \in InQueue(jobs) : t \in InQueue(jobs') \/ (Head(jobs).line # 0 /\ t = h)
        /\ Head(jobs).line # 0 => h \in InQueue(jobs)
    BY <1>0, <2>1, QueueTail
  <2>3. IF Head(jobs).line = 0 THEN InHands' = InHands ELSE InHands' = InHands \cup {h}
    <3>1. CASE IsCancel(Head(jobs))
      <4>1. worker' = [worker EXCEPT ![w] = [pc |-> "done", msg |-> Cancel]]
        BY <1>5, <3>1 DEF Receive
      <4>2. Head(jobs).line = 0
        BY <2>1, <3>1, HeadOfQueue
      <4> QED
        BY <4>1, <4>2, <1>0, <2>1 DEF InHands, Busy
    <3>2. CASE ~IsCancel(Head(jobs))
      <4>1. worker' = [worker EXCEPT ![w] = [pc |-> "busy", msg |-> Head(jobs)]]
        BY <1>5, <3>2 DEF Receive
      <4>2. Head(jobs).line # 0
        BY <2>1, <3>2, HeadOfQueue
      <4>3. Busy' = Busy \cup {w} /\ w \notin Busy /\ worker'[w].msg = Head(jobs)
            /\ \A v \in Busy : worker'[v] = worker[v]
        BY <4>1, <1>0, <2>1 DEF Busy
      <4> QED
        BY <4>2, <4>3 DEF InHands
    <3> QED
      BY <3>1, <3>2
  <2> HIDE DEF h
  <2>4. Travelling' = Travelling
    BY <2>1, <2>2, <2>3 DEF Travelling
  <2>5. ~Enqueue /\ ~CollectSlot /\ ~WriteCompleted
    BY <1>5, <1>0 DEF Receive, mainVars, Enqueue, CollectSlot, WriteCompleted
  <2> QED
    BY <2>4, <2>5
<1>6. ASSUME NEW w \in Workers, ProcessJob(w) PROVE Goal
  <2> DEFINE m == worker[w].msg
  <2>1. PICK s \in {"success", "failure"} :
          results' = Append(results, [line |-> m.line, status |-> s, slot |-> m.slot])
    BY <1>6 DEF ProcessJob
  <2> DEFINE r == [line |-> m.line, status |-> s, slot |-> m.slot]
  <2>2. r \in Indexed /\ r.line = m.line /\ r.slot = m.slot
    BY <1>0, RecordTypes
  <2> HIDE DEF r
  <2>3. InResults(results') = InResults(results) \cup {<<m.line, m.slot>>}
    BY <1>0, <2>1, <2>2, ResultsAppend DEF r
  <2>4. w \in Busy /\ Busy' = Busy \ {w} /\ \A v \in Busy' : worker'[v] = worker[v]
    BY <1>6, <1>0 DEF ProcessJob, Busy
  <2>5. InHands' \subseteq InHands /\ InHands = InHands' \cup {<<m.line, m.slot>>}
    BY <2>4 DEF InHands
  <2>6. jobs' = jobs
    BY <1>6 DEF ProcessJob
  <2>7. Travelling' = Travelling
    BY <2>3, <2>5, <2>6 DEF Travelling
  <2>8. ~Enqueue /\ ~CollectSlot /\ ~WriteCompleted
    BY <1>6, <1>0 DEF ProcessJob, mainVars, Enqueue, CollectSlot, WriteCompleted
  <2> QED
    BY <2>7, <2>8
<1>7. ASSUME NEW w \in Workers, Panic(w) PROVE Goal
  <2> DEFINE m == worker[w].msg
  <2>1. w \in Busy /\ Busy' = Busy \ {w} /\ \A v \in Busy' : worker'[v] = worker[v]
    BY <1>7, <1>0 DEF Panic, Busy
  <2>2. InHands' \subseteq InHands /\ InHands = InHands' \cup {<<m.line, m.slot>>}
    BY <2>1 DEF InHands
  <2>3. jobs' = jobs /\ results' = results /\ m.line \in lost'
    BY <1>7 DEF Panic
  <2>4. Travelling' \subseteq Travelling
        /\ \A t \in Travelling : t \in Travelling' \/ t[1] \in lost'
    BY <2>2, <2>3 DEF Travelling
  <2>5. ~Enqueue /\ ~CollectSlot /\ ~WriteCompleted
    BY <1>7, <1>0 DEF Panic, mainVars, Enqueue, CollectSlot, WriteCompleted
  <2> QED
    BY <2>4, <2>5
<1>8. CASE ReadBlank \/ ReadError \/ ReadMalformed \/ ReadDuplicate \/ EndOfInput
           \/ CollectEnds \/ Flush \/ Join \/ UNCHANGED vars
  <2>1. UNCHANGED <<jobs, worker, results>>
    BY <1>8 DEF ReadBlank, ReadError, ReadMalformed, ReadDuplicate, EndOfInput, CollectEnds,
                Flush, Join, vars
  <2> QED
    BY <1>1, <1>3, <1>m, <2>1
<1> QED
  BY <1>1, <1>2, <1>3, <1>4, <1>5, <1>6, <1>7, <1>8 DEF Next, ReadLine, MainStep, WorkerStep

\* Retirement is kept: only jobs with a line are sent, and a thread that leaves
\* has seen a sentinel, behind which there are only sentinels.
LEMMA RetirementStep ==
  ASSUME TypeOK, TypeOK', Phase, QueueShape, Retirement, NoLookAlike, [Next]_vars
  PROVE  Retirement'
<1>0. /\ jobs \in Seq(Message) /\ next \in Nat /\ next # 0
      /\ worker \in [Workers -> [pc : {"wait", "recv", "busy", "done", "panicked"}, msg : Message]]
  BY DEF TypeOK
<1>n. NoLookAlike'
  BY Stable
<1>1. CASE UNCHANGED <<jobs, jobTxOpen, worker>>
  BY <1>1, <1>n DEF Retirement
<1>2. CASE Enqueue /\ ~AllDone
  <2> DEFINE s == IF order = "input" THEN Len(pending') ELSE 0
             j == [line |-> next, id |-> Current.id, slot |-> s]
  <2>1. /\ jobs' = Append(jobs, j) /\ worker' = worker
        /\ jobTxOpen /\ jobTxOpen' = jobTxOpen
    BY <1>2 DEF Enqueue, Reading, Phase
  <2>2. ~IsCancel(j)
    <3>1. CASE order = "input"
      <4>1. s = Len(pending) + 1 /\ Len(pending) \in Nat
        BY <1>2, <3>1 DEF Enqueue, TypeOK
      <4> QED
        BY <4>1 DEF IsCancel
    <3>2. CASE order # "input"
      <4>1. next \in DOMAIN lines /\ lines[next].kind = "job"
        BY <1>2, <1>0 DEF Enqueue, Reading, Current, TypeOK
      <4> QED
        BY <3>2, <4>1 DEF NoLookAlike, Current, IsCancel
    <3> QED
      BY <3>1, <3>2
  <2> HIDE DEF j
  <2>3. ASSUME NEW i \in DOMAIN jobs', jobs'[i].line # 0 PROVE ~IsCancel(jobs'[i])
    <3>1. /\ DOMAIN jobs' = 1..(Len(jobs) + 1) /\ jobs'[Len(jobs) + 1] = j
          /\ \A l \in 1..Len(jobs) : jobs'[l] = jobs[l]
          /\ Len(jobs) \in Nat /\ DOMAIN jobs = 1..Len(jobs)
      <4> DEFINE q == Append(jobs, j)
      <4>1. /\ DOMAIN q = 1..(Len(jobs) + 1) /\ q[Len(jobs) + 1] = j
            /\ \A l \in 1..Len(jobs) : q[l] = jobs[l]
            /\ Len(jobs) \in Nat /\ DOMAIN jobs = 1..Len(jobs)
        BY <1>0
      <4> QED
        BY <4>1, <2>1
    <3>2. CASE i = Len(jobs) + 1
      BY <3>1, <3>2, <2>2
    <3>3. CASE i \in 1..Len(jobs)
      BY <3>1, <3>3, <2>3 DEF Retirement
    <3> QED
      BY <3>1, <3>2, <3>3
  <2>4. ~\E w \in Workers : worker'[w].pc = "done"
    BY <2>1 DEF Retirement
  <2> QED
    BY <2>3, <2>4 DEF Retirement
<1>3. CASE Enqueue /\ AllDone
  BY <1>3, <1>1 DEF Enqueue
<1>4. CASE SendCancels
  <2>1. /\ jobs' = jobs \o CancelsOf(Cardinality(Workers)) /\ worker' = worker /\ jobTxOpen
    BY <1>4 DEF SendCancels, Phase
  <2>2. ASSUME NEW i \in DOMAIN jobs', jobs'[i].line # 0 PROVE ~IsCancel(jobs'[i])
    <3>1. i \in DOMAIN jobs /\ jobs'[i] = jobs[i]
      <4>1. /\ DOMAIN jobs' = 1..Len(jobs') /\ Len(jobs) \in Nat /\ Len(jobs') \in Nat
            /\ \A l \in 1..Len(jobs') :
                 IF l <= Len(jobs) THEN jobs'[l] = jobs[l] ELSE jobs'[l] = Cancel
        BY <1>0, <2>1, CancelsAppended
      <4>2. DOMAIN jobs = 1..Len(jobs)
        BY <1>0
      <4> QED
        BY <4>1, <4>2, <2>2 DEF Cancel
    <3> QED
      BY <3>1, <2>2 DEF Retirement
  <2>3. ~\E w \in Workers : worker'[w].pc = "done"
    BY <2>1 DEF Retirement
  <2> QED
    BY <2>2, <2>3 DEF Retirement
<1>5. ASSUME NEW w \in Workers, Receive(w) PROVE Retirement'
  <2>1. /\ jobs # <<>> /\ jobs' = Tail(jobs) /\ jobTxOpen' = jobTxOpen
        /\ worker' = [worker EXCEPT ![w] =
             IF IsCancel(Head(jobs)) THEN [pc |-> "done", msg |-> Cancel]
             ELSE [pc |-> "busy", msg |-> Head(jobs)]]
    BY <1>5 DEF Receive, mainVars
  <2>2. \A i \in DOMAIN jobs' : i + 1 \in DOMAIN jobs /\ jobs'[i] = jobs[i + 1]
    BY <1>0, <2>1
  <2>3. \A i \in DOMAIN jobs' : jobs'[i].line # 0 => ~IsCancel(jobs'[i])
    BY <2>2 DEF Retirement
  <2>4. ASSUME NEW v \in Workers, worker'[v].pc = "done"
        PROVE  ~jobTxOpen /\ \A i \in DOMAIN jobs : jobs[i] = Cancel
    <3>1. CASE v = w
      <4>1. IsCancel(Head(jobs))
        BY <2>1, <2>4, <3>1, <1>0
      <4> QED
        BY <4>1, <2>1, HeadOfQueue
    <3>2. CASE v # w
      <4>1. worker[v].pc = "done"
        BY <2>1, <2>4, <3>2, <1>0
      <4> QED
        BY <4>1 DEF Retirement
    <3> QED
      BY <3>1, <3>2
  <2>5. (\E v \in Workers : worker'[v].pc = "done") =>
          ~jobTxOpen' /\ \A i \in DOMAIN jobs' : jobs'[i] = Cancel
    BY <2>1, <2>2, <2>4
  <2> QED
    BY <2>3, <2>5 DEF Retirement
<1>6. ASSUME NEW w \in Workers, Lock(w) \/ ProcessJob(w) \/ Panic(w) PROVE Retirement'
  <2>1. /\ jobs' = jobs /\ jobTxOpen' = jobTxOpen
        /\ \A v \in Workers : worker'[v].pc = "done" => worker[v].pc = "done"
    BY <1>6, <1>0 DEF Lock, ProcessJob, Panic, mainVars
  <2> QED
    BY <2>1 DEF Retirement
<1>7. CASE ReadBlank \/ ReadError \/ ReadMalformed \/ ReadDuplicate \/ EndOfInput
           \/ CollectSlot \/ CollectEnds \/ Flush \/ WriteCompleted \/ Join \/ UNCHANGED vars
  <2>1. UNCHANGED <<jobs, jobTxOpen, worker>>
    BY <1>7 DEF ReadBlank, ReadError, ReadMalformed, ReadDuplicate, EndOfInput, CollectSlot,
                CollectEnds, Flush, WriteCompleted, Join, vars
  <2> QED
    BY <2>1, <1>1
<1> QED
  BY <1>2, <1>3, <1>4, <1>5, <1>6, <1>7 DEF Next, ReadLine, MainStep, WorkerStep

\* What the steps do to the slots.
LEMMA SlotMoves ==
  ASSUME TypeOK, TypeOK', [Next]_vars
  PROVE  /\ \/ pending' = pending
            \/ /\ Enqueue \/ ReadMalformed \/ ReadDuplicate
               /\ order = "input" /\ pc = "read"
               /\ \E x : pending' = Append(pending, x) /\ (Enqueue => x = Placeholder)
            \/ CollectSlot
            \/ Flush /\ pending # <<>> /\ pending' = Tail(pending)
         /\ Enqueue /\ order = "input" => pending' = Append(pending, Placeholder)
         /\ pc' \in {"read", "cancel", "collect"} => pc \in {"read", "cancel", "collect"}
<1>1. CASE Enqueue
  BY <1>1 DEF Enqueue, Reading, TypeOK
<1>2. CASE ReadMalformed \/ ReadDuplicate
  <2>1. pc = "read" /\ ~Enqueue
    BY <1>2 DEF ReadMalformed, ReadDuplicate, Reading, Enqueue
  <2>2. pending' = pending \/ (order = "input" /\ \E x : pending' = Append(pending, x))
    BY <1>2 DEF ReadMalformed, ReadDuplicate, Answer
  <2> QED
    BY <1>2, <2>1, <2>2
<1>3. CASE Flush
  <2>1. pc = "flush" /\ ~Enqueue /\ pc' \in {"flush", "join", "error"}
    BY <1>3 DEF Flush, WriteThen, Enqueue, Reading
  <2> QED
    BY <1>3, <2>1 DEF Flush
<1>4. CASE CollectSlot
  BY <1>4 DEF CollectSlot, Enqueue, Reading
<1>5. CASE WriteCompleted
  BY <1>5 DEF WriteCompleted, WriteThen, Enqueue, Reading
<1>6. CASE ReadBlank \/ ReadError \/ EndOfInput \/ SendCancels \/ CollectEnds \/ Join \/ UNCHANGED vars
  BY <1>6, <1>1 DEF ReadBlank, ReadError, EndOfInput, SendCancels, CollectEnds, Join, vars, Reading
<1>7. ASSUME NEW w \in Workers, WorkerStep(w)
      PROVE  pending' = pending /\ pc' = pc
  BY <1>7 DEF WorkerStep, Lock, Receive, ProcessJob, Panic, mainVars
<1> QED
  BY <1>1, <1>2, <1>3, <1>4, <1>5, <1>6, <1>7 DEF Next, ReadLine, MainStep

\* Every step keeps the slots apart.
LEMMA SlotsStep ==
  ASSUME TypeOK, TypeOK', Phase, QueueShape, Retirement, SlotsDistinct, NoLookAlike, [Next]_vars
  PROVE  SlotsDistinct'
<1>0. /\ pending \in Seq(ResultRec \cup {Placeholder}) /\ next \in Nat /\ next # 0
      /\ Len(pending) \in Nat /\ DOMAIN pending = 1..Len(pending)
      /\ results \in Seq(Indexed)
  BY DEF TypeOK
<1>o. order' = order
  BY Stable
<1>1. ASSUME order' = "completion" PROVE pending' = <<>>
  <2>1. pending = <<>> /\ order = "completion"
    BY <1>1, <1>o DEF SlotsDistinct
  <2>2. ~CollectSlot
    BY <2>1 DEF CollectSlot
  <2> QED
    BY <2>1, <2>2, SlotMoves
<1>2. ASSUME order' = "input", pc' \in {"read", "cancel", "collect"}, NEW t \in Travelling'
      PROVE  /\ t[2] \in DOMAIN pending'
             /\ pending'[t[2]].line \in {0, t[1]}
             /\ \A u \in Travelling' : u[2] = t[2] => u[1] = t[1]
  <2>0. order = "input" /\ pc \in {"read", "cancel", "collect"}
    BY <1>2, <1>o, SlotMoves
  <2>s. \A v \in Travelling :
          /\ v[2] \in DOMAIN pending
          /\ pending[v[2]].line \in {0, v[1]}
          /\ \A u \in Travelling : u[2] = v[2] => u[1] = v[1]
    BY <2>0 DEF SlotsDistinct
  <2>1. CASE Enqueue /\ ~AllDone
    <3>1. PICK s : Travelling' = Travelling \cup {<<next, s>>} /\ s = Len(pending')
      BY <2>0, <2>1, Moves
    <3>2. pending' = Append(pending, Placeholder)
      BY <2>0, <2>1, SlotMoves
    <3>3. /\ Len(pending') = Len(pending) + 1
          /\ DOMAIN pending' = 1..(Len(pending) + 1)
          /\ \A i \in 1..Len(pending) : pending'[i] = pending[i]
          /\ pending'[Len(pending) + 1] = Placeholder
      BY <1>0, <3>2
    <3>4. CASE t \in Travelling
      BY <1>0, <2>s, <3>1, <3>3, <3>4
    <3>5. CASE t = <<next, s>>
      <4>1. t[2] = Len(pending) + 1 /\ t[1] = next
        BY <3>1, <3>3, <3>5
      <4>2. \A u \in Travelling' : u[2] = t[2] => u[1] = t[1]
        BY <1>0, <2>s, <3>1, <3>3, <3>5, <4>1
      <4>3. pending'[t[2]].line = 0
        BY <3>3, <4>1 DEF Placeholder
      <4> QED
        BY <1>0, <3>3, <4>1, <4>2, <4>3
    <3> QED
      BY <3>1, <3>4, <3>5
  <2>2. CASE ~Enqueue \/ AllDone
    <3>0. Travelling' \subseteq Travelling
      BY <2>2, Moves
    <3>1. t[2] \in DOMAIN pending /\ pending[t[2]].line \in {0, t[1]}
          /\ \A u \in Travelling' : u[2] = t[2] => u[1] = t[1]
      BY <3>0, <2>s
    <3>2. CASE pending' = pending
      BY <3>1, <3>2
    <3>3. ASSUME NEW x, pending' = Append(pending, x)
          PROVE  t[2] \in DOMAIN pending' /\ pending'[t[2]] = pending[t[2]]
      <4> DEFINE p == Append(pending, x)
      <4>1. DOMAIN p = 1..(Len(pending) + 1) /\ \A i \in 1..Len(pending) : p[i] = pending[i]
        BY <1>0
      <4> QED
        BY <1>0, <3>1, <3>3, <4>1
    <3>4. CASE CollectSlot
      <4> DEFINE r == Head(results)
      <4>1. /\ results # <<>>
            /\ pending' = [pending EXCEPT ![r.slot] = [line |-> r.line, status |-> r.status]]
        BY <3>4 DEF CollectSlot
      <4>2. <<r.line, r.slot>> \in Travelling
        BY <3>4, Moves
      <4>3. r.slot = t[2] => r.line = t[1]
        BY <4>2, <3>0, <2>s
      <4>4. DOMAIN pending' = DOMAIN pending
        BY <4>1, <1>0
      <4>5. pending'[t[2]].line \in {0, t[1]}
        <5>1. CASE r.slot = t[2]
          BY <4>1, <4>3, <3>1, <5>1
        <5>2. CASE r.slot # t[2]
          BY <4>1, <3>1, <5>2
        <5> QED
          BY <5>1, <5>2
      <4> QED
        BY <3>1, <4>4, <4>5
    <3>5. CASE Flush
      BY <2>0, <3>5 DEF Flush
    <3> QED
      BY <3>1, <3>2, <3>3, <3>4, <3>5, SlotMoves
  <2> QED
    BY <2>1, <2>2
<1> QED
  BY <1>1, <1>2 DEF SlotsDistinct

\* What a step that does not fail writes.
LEMMA Writes ==
  ASSUME TypeOK, TypeOK', [Next]_vars, pc' # "error"
  PROVE  /\ Written \subseteq Written' /\ lost \subseteq lost'
         /\ WriteCompleted => Head(results).line \in Written'
         /\ (ReadMalformed \/ ReadDuplicate) /\ order # "input" => next \in Written'
         /\ Flush /\ pending # <<>> /\ Head(pending) # Placeholder =>
              Head(pending).line \in Written'
<1>0. out \in Seq(ResultRec)
  BY DEF TypeOK
<1>1. ASSUME NEW l, NEW s, NEW then, WriteThen(l, s, then)
      PROVE  Written \subseteq Written' /\ l \in Written'
  <2> DEFINE r == [line |-> l, status |-> s]
             q == Append(out, r)
  <2>1. out' = q
    BY <1>1 DEF WriteThen
  <2>2. /\ DOMAIN q = 1..(Len(out) + 1) /\ Len(out) \in Nat /\ DOMAIN out = 1..Len(out)
        /\ q[Len(out) + 1] = r /\ \A i \in 1..Len(out) : q[i] = out[i]
    BY <1>0
  <2>3. r.line = l /\ Len(out) + 1 \in DOMAIN q
    BY <2>2
  <2> HIDE DEF q, r
  <2>4. l \in Written'
    BY <2>1, <2>2, <2>3 DEF Written
  <2>5. Written \subseteq Written'
    BY <2>1, <2>2 DEF Written
  <2> QED
    BY <2>4, <2>5
<1>2. CASE out' = out /\ ~WriteCompleted /\ ~ReadMalformed /\ ~ReadDuplicate /\ ~Flush
  <2>1. lost \subseteq lost'
    BY DEF Next, vars, ReadLine, MainStep, WorkerStep, ReadBlank, ReadError, ReadMalformed,
         ReadDuplicate, Enqueue, EndOfInput, SendCancels, CollectSlot, CollectEnds, Flush,
         WriteCompleted, Join, Lock, Receive, ProcessJob, Panic
  <2> QED
    BY <1>2, <2>1 DEF Written
<1>3. CASE ReadMalformed \/ ReadDuplicate
  <2>1. lost' = lost /\ pc = "read"
    BY <1>3 DEF ReadMalformed, ReadDuplicate, Reading
  <2>2. CASE order = "input"
    <3>1. out' = out
      BY <1>3, <2>2 DEF ReadMalformed, ReadDuplicate, Answer
    <3> QED
      BY <2>1, <2>2, <3>1 DEF Written, WriteCompleted, Flush
  <2>3. CASE order # "input"
    <3>1. Written \subseteq Written' /\ next \in Written'
      BY <1>1, <1>3, <2>3 DEF ReadMalformed, ReadDuplicate, Answer
    <3> QED
      BY <2>1, <3>1 DEF WriteCompleted, Flush
  <2> QED
    BY <2>2, <2>3
<1>4. CASE WriteCompleted
  <2>1. Written \subseteq Written' /\ Head(results).line \in Written' /\ lost' = lost
    BY <1>1, <1>4 DEF WriteCompleted
  <2> QED
    BY <1>4, <2>1 DEF WriteCompleted, ReadMalformed, ReadDuplicate, Reading, Flush
<1>5. CASE Flush
  <2>1. lost' = lost /\ pc = "flush"
    BY <1>5 DEF Flush
  <2>2. CASE pending # <<>> /\ Head(pending) # Placeholder
    <3>1. Written \subseteq Written' /\ Head(pending).line \in Written'
      BY <1>1, <1>5, <2>2 DEF Flush
    <3> QED
      BY <2>1, <3>1 DEF WriteCompleted, ReadMalformed, ReadDuplicate, Reading
  <2>3. CASE ~(pending # <<>> /\ Head(pending) # Placeholder)
    <3>1. out' = out
      BY <1>5, <2>3 DEF Flush
    <3> QED
      BY <2>1, <2>3, <3>1 DEF Written, WriteCompleted, ReadMalformed, ReadDuplicate, Reading
  <2> QED
    BY <2>2, <2>3
<1>6. CASE ReadBlank \/ ReadError \/ Enqueue \/ EndOfInput \/ SendCancels \/ CollectSlot
           \/ CollectEnds \/ Join \/ UNCHANGED vars
  <2>1. out' = out
    BY <1>6 DEF ReadBlank, ReadError, Enqueue, EndOfInput, SendCancels, CollectSlot,
                CollectEnds, Join, vars
  <2> QED
    BY <1>2, <1>3, <1>4, <1>5, <2>1
<1>7. ASSUME NEW w \in Workers, WorkerStep(w)
      PROVE  out' = out
  BY <1>7 DEF WorkerStep, Lock, Receive, ProcessJob, Panic, mainVars
<1> QED
  BY <1>2, <1>3, <1>4, <1>5, <1>6, <1>7 DEF Next, ReadLine, MainStep

\* No slot forgets a line, except by writing it.
LEMMA BufferKept ==
  ASSUME TypeOK, TypeOK', Phase, QueueShape, Retirement, SlotsDistinct, NoLookAlike,
         [Next]_vars, pc' # "error", NEW l \in Buffered, l # 0
  PROVE  l \in Buffered' \/ l \in Written'
<1>0. /\ pending \in Seq(ResultRec \cup {Placeholder})
      /\ Len(pending) \in Nat /\ DOMAIN pending = 1..Len(pending)
  BY DEF TypeOK
<1>1. PICK i \in DOMAIN pending : pending[i].line = l
  BY DEF Buffered
<1>2. CASE pending' = pending
  BY <1>1, <1>2 DEF Buffered
<1>3. ASSUME NEW x, pending' = Append(pending, x) PROVE l \in Buffered'
  <2> DEFINE p == Append(pending, x)
  <2>1. DOMAIN p = 1..(Len(pending) + 1) /\ \A j \in 1..Len(pending) : p[j] = pending[j]
    BY <1>0
  <2>2. i \in DOMAIN p /\ p[i] = pending[i]
    BY <1>0, <2>1
  <2> QED
    BY <1>1, <1>3, <2>2 DEF Buffered
<1>4. CASE CollectSlot
  <2> DEFINE r == Head(results)
  <2>1. /\ pending' = [pending EXCEPT ![r.slot] = [line |-> r.line, status |-> r.status]]
        /\ order = "input" /\ pc = "collect"
    BY <1>4 DEF CollectSlot
  <2>2. DOMAIN pending' = DOMAIN pending
    BY <2>1, <1>0
  <2>3. CASE i # r.slot
    <3>1. pending'[i] = pending[i]
      BY <2>1, <2>3
    <3> QED
      BY <1>1, <2>2, <3>1 DEF Buffered
  <2>4. CASE i = r.slot
    <3>1. <<r.line, r.slot>> \in Travelling
      BY <1>4, Moves
    <3>2. pending[r.slot].line \in {0, r.line}
      BY <2>1, <3>1 DEF SlotsDistinct
    <3>3. r.line = l
      BY <1>1, <2>4, <3>2
    <3>4. pending'[i].line = r.line
      BY <1>1, <2>1, <2>4
    <3> QED
      BY <2>2, <3>3, <3>4 DEF Buffered
  <2> QED
    BY <2>3, <2>4
<1>5. CASE Flush /\ pending # <<>> /\ pending' = Tail(pending)
  <2>1. /\ Head(pending) = pending[1] /\ DOMAIN pending' = 1..(Len(pending) - 1)
        /\ \A j \in 1..(Len(pending) - 1) : pending'[j] = pending[j + 1]
    BY <1>0, <1>5
  <2>2. CASE i = 1
    <3>1. Head(pending) # Placeholder
      BY <1>1, <2>1, <2>2 DEF Placeholder
    <3> QED
      BY <1>1, <1>5, <2>1, <2>2, <3>1, Writes
  <2>3. CASE i # 1
    <3>1. i - 1 \in DOMAIN pending' /\ pending'[i - 1] = pending[i]
      BY <1>0, <2>1, <2>3
    <3> QED
      BY <1>1, <3>1 DEF Buffered
  <2> QED
    BY <2>2, <2>3
<1> QED
  BY <1>2, <1>3, <1>4, <1>5, SlotMoves

\* Every line read so far is still somewhere.
LEMMA LocatedStep ==
  ASSUME TypeOK, TypeOK', Phase, QueueShape, Conservation, NoLookAlike, [Next]_vars
  PROVE  Located'
<1> USE DEF Conservation
<1> SUFFICES ASSUME pc' # "error", ~AllPanicked', NEW i \in Asking', i < next'
             PROVE  Somewhere(i)'
  BY DEF Located
<1>0. ~AllPanicked /\ i \in Asking /\ pc # "error"
  <2>1. pc # "error"
    <3>1. pc = "error" => pc' = "error"
      BY DEF Next, vars, ReadLine, MainStep, WorkerStep, ReadBlank, ReadError, ReadMalformed,
         ReadDuplicate, Enqueue, EndOfInput, SendCancels, CollectSlot, CollectEnds, Flush,
         WriteCompleted, Join, Lock, Receive, ProcessJob, Panic, Reading, Running
    <3> QED
      BY <3>1
  <2> QED
    BY <2>1, PanicStable, Stable
<1>i. i \in Nat /\ i # 0 /\ next \in Nat
  <2>1. next \in Nat
    BY DEF TypeOK
  <2>2. i \in DOMAIN lines
    BY <1>0 DEF Asking
  <2>3. lines \in Seq(Line)
    BY DEF TypeOK
  <2>4. i \in Nat /\ i # 0
    BY ONLY <2>2, <2>3, IndexType
  <2> QED
    BY <2>1, <2>4
<1>w. Written \subseteq Written' /\ lost \subseteq lost'
  BY Writes
<1>1. CASE i < next
  <2>0. i \in Written \/ i \in lost \/ i \in Buffered \/ \E t \in Travelling : t[1] = i
    BY <1>0, <1>1 DEF Located, Somewhere
  <2>1. CASE i \in Written \/ i \in lost
    BY <2>1, <1>w DEF Somewhere
  <2>2. CASE i \in Buffered
    BY <2>2, <1>i, BufferKept DEF Somewhere
  <2>3. ASSUME NEW t \in Travelling, t[1] = i PROVE Somewhere(i)'
    <3>1. CASE t \in Travelling' \/ t[1] \in lost'
      BY <2>3, <3>1 DEF Somewhere
    <3>2. CASE WriteCompleted /\ t = <<Head(results).line, Head(results).slot>>
      BY <2>3, <3>2, Writes DEF Somewhere
    <3>3. CASE CollectSlot /\ t = <<Head(results).line, Head(results).slot>>
      <4> DEFINE r == Head(results)
      <4>1. /\ pending' = [pending EXCEPT ![r.slot] = [line |-> r.line, status |-> r.status]]
            /\ order = "input" /\ pc = "collect"
        BY <3>3 DEF CollectSlot
      <4>2. r.slot \in DOMAIN pending /\ r.line = i
        BY <2>3, <3>3, <4>1 DEF SlotsDistinct
      <4>3. r.slot \in DOMAIN pending' /\ pending'[r.slot].line = i
        BY <4>1, <4>2 DEF TypeOK
      <4> QED
        BY <4>3 DEF Somewhere, Buffered
    <3> QED
      BY <3>1, <3>2, <3>3, Moves
  <2> QED
    BY <2>0, <2>1, <2>2, <2>3
<1>2. CASE ~(i < next)
  <2>1. next' # next /\ (next' = next + 1 => i = next)
    BY <1>2, <1>i
  <2>2. CASE ReadBlank
    BY <1>0, <2>1, <2>2 DEF ReadBlank, Reading, Current, Asking
  <2>3. CASE ReadMalformed \/ ReadDuplicate
    <3>1. i = next
      BY <2>1, <2>3 DEF ReadMalformed, ReadDuplicate
    <3>2. CASE order # "input"
      BY <2>3, <3>1, <3>2, Writes DEF Somewhere
    <3>3. CASE order = "input"
      <4>1. PICK s : pending' = Append(pending, [line |-> next, status |-> s])
        BY <2>3, <3>3 DEF ReadMalformed, ReadDuplicate, Answer
      <4> DEFINE r == [line |-> next, status |-> s]
                 p == Append(pending, r)
      <4>2. /\ r.line = next /\ Len(pending) + 1 \in DOMAIN p /\ p[Len(pending) + 1] = r
        BY DEF TypeOK
      <4>3. Len(pending) + 1 \in DOMAIN pending' /\ pending'[Len(pending) + 1].line = i
        BY <3>1, <4>1, <4>2
      <4> QED
        BY <4>3 DEF Somewhere, Buffered
    <3> QED
      BY <3>2, <3>3
  <2>4. CASE Enqueue
    <3>1. i = next /\ jobTxOpen
      BY <2>1, <2>4 DEF Enqueue, Reading, Phase
    <3>2. ~AllDone
      BY <1>0, <3>1, GoneMeansPanicked
    <3>3. PICK s : Travelling' = Travelling \cup {<<next, s>>}
      BY <2>4, <3>2, Moves
    <3>4. <<next, s>> \in Travelling' /\ <<next, s>>[1] = i
      BY <3>1, <3>3
    <3> QED
      BY <3>4 DEF Somewhere
  <2>5. CASE ~ReadBlank /\ ~ReadMalformed /\ ~ReadDuplicate /\ ~Enqueue
    <3>1. next' = next
      BY <2>5 DEF Next, vars, ReadLine, MainStep, WorkerStep, ReadError, EndOfInput, SendCancels,
         CollectSlot, CollectEnds, Flush, WriteCompleted, Join, Lock, Receive, ProcessJob, Panic,
         mainVars
    <3> QED
      BY <2>1, <3>1
  <2> QED
    BY <2>2, <2>3, <2>4, <2>5
<1> QED
  BY <1>1, <1>2

\* Nothing is on its way any more when the count of results is complete.
LEMMA CountComplete ==
  ASSUME TypeOK, QueueShape, order = "input", received >= sent
  PROVE  Travelling = {}
<1>1. PICK k \in Nat : Split(k)
  BY DEF QueueShape
<1>0. /\ Len(results) \in Nat /\ received \in Nat /\ sent \in Nat
      /\ Cardinality(Busy) \in Nat /\ IsFiniteSet(Busy)
      /\ jobs \in Seq(Message) /\ results \in Seq(Indexed)
  BY ThreadSets DEF TypeOK
<1>2. received + Len(results) + Cardinality(Busy) + k <= sent
  BY <1>1 DEF Split
<1>3. Len(results) = 0 /\ Cardinality(Busy) = 0 /\ k = 0
  BY <1>0, <1>2
<1>4. results = <<>> /\ Busy = {}
  BY <1>0, <1>3, FS_EmptySet
<1>5. \A i \in DOMAIN jobs : jobs[i].line = 0
  BY <1>0, <1>1, <1>3 DEF Split, Cancel
<1> QED
  BY <1>4, <1>5 DEF Travelling, InQueue, InHands, InResults

\* Every step keeps what holds from the end of each phase on.
LEMMA PhaseEndsStep ==
  ASSUME TypeOK, TypeOK', Phase, QueueShape, QueueShape', Conservation, NoLookAlike, [Next]_vars
  PROVE  PhaseEnds'
<1> USE DEF Conservation
<1>0. next \in Nat /\ next' \in Nat /\ UNCHANGED <<lines, order>> /\ Len(lines) \in Nat
  BY Stable DEF TypeOK
<1>n. next' = next \/ next' = next + 1
  BY DEF Next, vars, ReadLine, MainStep, WorkerStep, ReadBlank, ReadError, ReadMalformed,
     ReadDuplicate, Enqueue, EndOfInput, SendCancels, CollectSlot, CollectEnds, Flush,
     WriteCompleted, Join, Lock, Receive, ProcessJob, Panic, mainVars
<1> DEFINE Late == {"cancel", "collect", "flush", "join", "ok"}
<1>p. /\ pc' \in Late /\ pc \notin Late => EndOfInput \/ (Enqueue /\ AllDone)
      /\ pc' \in {"flush", "join", "ok"} /\ pc \notin {"flush", "join", "ok"} =>
           \/ CollectEnds
           \/ CollectSlot /\ received' >= sent'
      /\ pc' \in {"join", "ok"} /\ pc \notin {"join", "ok"} =>
           \/ CollectEnds /\ order # "input"
           \/ Flush /\ pending = <<>> /\ pending' = <<>>
      /\ pc \in {"join", "ok"} => pending' = pending
      /\ pc' \in {"flush", "join", "ok"} => ~Enqueue
  <2>1. CASE ReadMalformed \/ ReadDuplicate
    BY <2>1 DEF ReadMalformed, ReadDuplicate, Reading, Answer, WriteThen, Enqueue
  <2>2. CASE Enqueue
    BY <2>2 DEF Enqueue, Reading
  <2>3. CASE Flush
    BY <2>3 DEF Flush, WriteThen, Enqueue, Reading
  <2>4. CASE WriteCompleted
    BY <2>4 DEF WriteCompleted, WriteThen, Enqueue, Reading
  <2>5. CASE CollectSlot
    BY <2>5 DEF CollectSlot, Enqueue, Reading
  <2>6. CASE CollectEnds
    BY <2>6 DEF CollectEnds, Enqueue, Reading
  <2>7. CASE ReadBlank \/ ReadError \/ EndOfInput \/ SendCancels \/ Join
    BY <2>7 DEF ReadBlank, ReadError, EndOfInput, SendCancels, Join, Enqueue, Reading
  <2>8. CASE pc' = pc /\ pending' = pending
    BY <2>8 DEF Enqueue, Reading
  <2>9. ASSUME NEW w \in Workers, WorkerStep(w) PROVE pc' = pc /\ pending' = pending
    BY <2>9 DEF WorkerStep, Lock, Receive, ProcessJob, Panic, mainVars
  <2>10. CASE UNCHANGED vars
    BY <2>8, <2>10 DEF vars
  <2>11. CASE \E w \in Workers : WorkerStep(w)
    BY <2>8, <2>9, <2>11
  <2>12. ReadLine \/ EndOfInput \/ MainStep \/ (\E w \in Workers : WorkerStep(w)) \/ UNCHANGED vars
    BY DEF Next
  <2>13. CASE ReadLine
    BY <2>1, <2>2, <2>7, <2>13 DEF ReadLine
  <2>14. CASE MainStep
    BY <2>3, <2>4, <2>5, <2>6, <2>7, <2>14 DEF MainStep
  <2> QED
    BY <2>7, <2>10, <2>11, <2>12, <2>13, <2>14
<1>1. ASSUME pc' \in Late, ~AllPanicked' PROVE next' > Len(lines')
  <2>0. ~AllPanicked
    BY <1>1, PanicStable
  <2>1. CASE pc \in Late
    <3>1. next > Len(lines)
      BY <2>0, <2>1 DEF PhaseEnds
    <3> QED
      BY <3>1, <1>0, <1>n
  <2>2. CASE EndOfInput
    BY <2>2, <1>0 DEF EndOfInput
  <2>3. CASE Enqueue /\ AllDone
    <3>1. jobTxOpen
      BY <2>3 DEF Enqueue, Reading, Phase
    <3> QED
      BY <2>0, <2>3, <3>1, GoneMeansPanicked
  <2> QED
    BY <1>1, <1>p, <2>1, <2>2, <2>3
<1>2. ASSUME pc' \in {"flush", "join", "ok"}, ~AllPanicked' PROVE Travelling' = {}
  <2>0. ~AllPanicked
    BY <1>2, PanicStable
  <2>1. CASE pc \in {"flush", "join", "ok"}
    <3>1. Travelling = {}
      BY <2>0, <2>1 DEF PhaseEnds
    <3>2. Travelling' \subseteq Travelling
      BY <1>2, <1>p, Moves
    <3> QED
      BY <3>1, <3>2
  <2>2. CASE CollectEnds
    <3>1. results = <<>> /\ AllDone /\ UNCHANGED <<jobs, worker, results>>
      BY <2>2 DEF CollectEnds
    <3>2. \E w \in Workers : worker[w].pc = "done"
      BY <2>0, <3>1 DEF AllDone, AllPanicked
    <3>3. \A i \in DOMAIN jobs : jobs[i] = Cancel
      BY <3>2 DEF Retirement
    <3>4. Busy = {}
      BY <3>1 DEF AllDone, Busy
    <3>5. Travelling = {}
      BY <3>1, <3>3, <3>4 DEF Travelling, InQueue, InHands, InResults, Cancel
    <3>6. Travelling' = Travelling
      BY <3>1 DEF Travelling, InHands, Busy
    <3> QED
      BY <3>5, <3>6
  <2>3. CASE CollectSlot /\ received' >= sent'
    <3>1. order' = "input"
      BY <2>3 DEF CollectSlot
    <3>2. (order = "input" /\ received >= sent => Travelling = {})'
      <4>1. TypeOK /\ QueueShape /\ order = "input" /\ received >= sent => Travelling = {}
        BY CountComplete
      <4> QED
        BY CountComplete, PTL
    <3> QED
      BY <2>3, <3>1, <3>2
  <2> QED
    BY <1>2, <1>p, <2>1, <2>2, <2>3
<1>3. ASSUME pc' \in {"join", "ok"} PROVE pending' = <<>>
  <2>1. CASE pc \in {"join", "ok"}
    BY <1>p, <2>1 DEF PhaseEnds
  <2>2. CASE CollectEnds /\ order # "input"
    <3>1. order = "completion" /\ pending' = pending
      BY <2>2 DEF CollectEnds, TypeOK
    <3> QED
      BY <3>1 DEF SlotsDistinct
  <2> QED
    BY <1>3, <1>p, <2>1, <2>2
<1> QED
  BY <1>1, <1>2, <1>3 DEF PhaseEnds

\* Nothing has been read yet.
LEMMA ConservationInit == Init => Conservation
<1> SUFFICES ASSUME Init PROVE Conservation
  OBVIOUS
<1>1. Travelling = {}
  BY DEF Init, Travelling, InQueue, InHands, InResults, Busy
<1>2. \A i \in Asking : ~(i < next)
  <2>1. lines \in Seq(Line)
    BY StreamAssumption DEF Init
  <2> QED
    BY <2>1 DEF Init, Asking
<1>3. \A w \in Workers : worker[w].pc # "done"
  BY DEF Init
<1> QED
  BY <1>1, <1>2, <1>3 DEF Init, Conservation, Retirement, SlotsDistinct, Located, PhaseEnds

\* Every step keeps all four.
LEMMA ConservationStep ==
  ASSUME TypeOK, TypeOK', Phase, QueueShape, QueueShape', Conservation, NoLookAlike, [Next]_vars
  PROVE  Conservation'
<1>1. Retirement'
  BY RetirementStep DEF Conservation
<1>2. SlotsDistinct'
  BY SlotsStep DEF Conservation
<1>3. Located'
  BY LocatedStep
<1>4. PhaseEnds'
  BY PhaseEndsStep
<1> QED
  BY <1>1, <1>2, <1>3, <1>4 DEF Conservation

\* When the run ends well every line that asks for a result has been answered, or
\* its thread panicked: no job is left in a queue, with a worker or in an
\* overwritten slot, for any number of lines, threads and panics.
THEOREM EveryLineAnswered == Spec => []NothingLost
<1> DEFINE Inv == Phase /\ QueueShape /\ (NoLookAlike => Conservation)
<1>1. Init => Inv
  BY QueueInit, ConservationInit
<1>2. TypeOK /\ TypeOK' /\ Inv /\ [Next]_vars => Inv'
  <2> SUFFICES ASSUME TypeOK, TypeOK', Inv, [Next]_vars PROVE Inv'
    OBVIOUS
  <2>1. Phase' /\ QueueShape'
    BY QueueStep
  <2>2. NoLookAlike' => Conservation'
    BY <2>1, Stable, ConservationStep
  <2> QED
    BY <2>1, <2>2
<1>3. TypeOK /\ Inv => NothingLost
  <2> SUFFICES ASSUME TypeOK, Inv, pc = "ok", NoLookAlike, ~AllPanicked, NEW i \in Asking
               PROVE  i \in Written \/ i \in lost
    BY DEF NothingLost
  <2>1. i < next /\ Travelling = {} /\ pending = <<>>
    BY DEF Conservation, PhaseEnds, Asking, TypeOK
  <2>2. Somewhere(i)
    BY <2>1 DEF Conservation, Located
  <2>3. i \notin Buffered
    BY <2>1 DEF Buffered
  <2> QED
    BY <2>1, <2>2, <2>3 DEF Somewhere
<1> QED
  BY <1>1, <1>2, <1>3, TypeCorrect, PTL DEF Spec

\* One thread at a time waits inside recv, and it is the one that holds the mutex.
THEOREM OneReceiver == Spec => []LockDiscipline
<1>1. Init => LockDiscipline
  BY StreamAssumption DEF Init, LockDiscipline
<1>2. TypeOK /\ LockDiscipline /\ [Next]_vars => LockDiscipline'
  <2> SUFFICES ASSUME TypeOK, LockDiscipline, [Next]_vars PROVE LockDiscipline'
    OBVIOUS
  <2>0. worker \in [Workers -> [pc : {"wait", "recv", "busy", "done", "panicked"}, msg : Message]]
    BY DEF TypeOK
  <2>1. CASE UNCHANGED <<worker, lock>>
    BY <2>1 DEF LockDiscipline
  <2>2. ASSUME NEW w \in Workers, Lock(w) PROVE LockDiscipline'
    BY <2>0, <2>2, StreamAssumption DEF Lock, LockDiscipline
  <2>3. ASSUME NEW w \in Workers, Receive(w) PROVE LockDiscipline'
    BY <2>0, <2>3, StreamAssumption DEF Receive, LockDiscipline
  <2>4. ASSUME NEW w \in Workers, ProcessJob(w) \/ Panic(w) PROVE LockDiscipline'
    BY <2>0, <2>4 DEF ProcessJob, Panic, LockDiscipline
  <2>5. ReadLine \/ EndOfInput \/ MainStep \/ UNCHANGED vars => UNCHANGED <<worker, lock>>
    BY DEF vars, ReadLine, MainStep, ReadBlank, ReadError, ReadMalformed, ReadDuplicate,
       Enqueue, EndOfInput, SendCancels, CollectSlot, CollectEnds, Flush, WriteCompleted, Join
  <2> QED
    BY <2>1, <2>2, <2>3, <2>4, <2>5 DEF Next, WorkerStep
<1> QED
  BY <1>1, <1>2, TypeCorrect, PTL DEF Spec
-----------------------------------------------------------------------------
(* The promise: every answer is in one place at a time, of the right kind  *)
(* and in order.                                                           *)

\* The lines that the entries of a sequence stand for, at most one entry each.
LinesIn(q) == {q[i].line : i \in DOMAIN q} \ {0}
Once(q) == \A i, j \in DOMAIN q : q[i].line # 0 /\ q[i].line = q[j].line => i = j

\* Where the answer of a line can be before it is written or lost.
Queued == LinesIn(jobs)
Handled == {worker[w].msg.line : w \in Busy}
Finished == LinesIn(results)
Slotted == LinesIn(pending)

Singly ==
  /\ Once(jobs) /\ Once(results) /\ Once(pending)
  /\ \A v, w \in Busy : worker[v].msg.line = worker[w].msg.line => v = w

OnePlace ==
  /\ Queued \cap (Handled \cup Finished \cup Slotted \cup Written \cup lost) = {}
  /\ Handled \cap (Finished \cup Slotted \cup Written \cup lost) = {}
  /\ Finished \cap (Slotted \cup Written \cup lost) = {}
  /\ Slotted \cap (Written \cup lost) = {}

\* The lines that reach a worker: jobs with an identifier of their own.
Fresh == {i \in DOMAIN lines : lines[i].kind = "job" /\ ~Abstract!IsDuplicate(lines, i)}

\* The identifiers of the jobs read so far.
SeenExact == seen = {lines[j].id : j \in {k \in 1..(next - 1) : lines[k].kind = "job"}}

\* Only lines that were read and ask for a result have one, of the right kind.
Asked ==
  /\ Queued \cup Handled \cup Finished \cup lost \subseteq Fresh
  /\ \A i \in Queued \cup Handled \cup Finished \cup Slotted \cup Written \cup lost :
       i \in Asking /\ i < next
  /\ \A i \in DOMAIN results :
       results[i].line # 0 /\ results[i].status \in {"success", "failure"}
  /\ \A i \in DOMAIN pending :
       \/ pending[i] = Placeholder
       \/ pending[i].line # 0 /\ pending[i].status \in Abstract!StatusOf(lines, pending[i].line)

\* A line and the slot its answer is in or will be put in.
Claims ==
  Travelling \cup {<<pending[p].line, p>> : p \in {k \in DOMAIN pending : pending[k].line # 0}}

\* The slots are in the order of the lines, and what is written comes before.
InOrder ==
  order = "input" =>
    /\ pc \in {"read", "cancel", "collect"} =>
         Written = {} /\ \A t, u \in Claims : t[2] < u[2] => t[1] < u[1]
    /\ \A p, q \in DOMAIN pending :
         p < q /\ pending[p].line # 0 /\ pending[q].line # 0 => pending[p].line < pending[q].line
    /\ \A i \in Written, j \in Slotted : i < j

\* Each panic loses one line.
Losses ==
  /\ IsFiniteSet(lost)
  /\ Cardinality(lost) = Cardinality({w \in Workers : worker[w].pc = "panicked"})

Places == Singly /\ OnePlace /\ Asked
Promised == SeenExact /\ Places /\ InOrder /\ Losses

-----------------------------------------------------------------------------
(* The lines in a sequence.                                                *)

\* One more entry.
LEMMA LinesAppend ==
  ASSUME NEW S, NEW q \in Seq(S), NEW r \in S
  PROVE  /\ r.line = 0 => LinesIn(Append(q, r)) = LinesIn(q)
         /\ r.line # 0 => LinesIn(Append(q, r)) = LinesIn(q) \cup {r.line}
         /\ Once(q) /\ r.line \notin LinesIn(q) => Once(Append(q, r))
<1> DEFINE a == Append(q, r)
<1>1. /\ Len(q) \in Nat /\ DOMAIN q = 1..Len(q) /\ DOMAIN a = 1..(Len(q) + 1)
      /\ a[Len(q) + 1] = r /\ \A i \in 1..Len(q) : a[i] = q[i]
  OBVIOUS
<1> HIDE DEF a
<1>2. DOMAIN a = DOMAIN q \cup {Len(q) + 1} /\ Len(q) + 1 \notin DOMAIN q
  BY <1>1
<1>3. LinesIn(a) = LinesIn(q) \cup ({r.line} \ {0})
  <2>1. ASSUME NEW x \in LinesIn(a) PROVE x \in LinesIn(q) \cup ({r.line} \ {0})
    <3>1. PICK i \in DOMAIN a : x = a[i].line /\ x # 0
      BY DEF LinesIn
    <3> QED
      BY <3>1, <1>1, <1>2 DEF LinesIn
  <2>2. ASSUME NEW x \in LinesIn(q) PROVE x \in LinesIn(a)
    <3>1. PICK i \in DOMAIN q : x = q[i].line /\ x # 0
      BY DEF LinesIn
    <3>2. i \in DOMAIN a /\ a[i] = q[i]
      BY <1>1, <1>2
    <3> QED
      BY <3>1, <3>2 DEF LinesIn
  <2>3. r.line # 0 => r.line \in LinesIn(a)
    <3>1. Len(q) + 1 \in DOMAIN a
      BY <1>2
    <3> QED
      BY <3>1, <1>1 DEF LinesIn
  <2> QED
    BY <2>1, <2>2, <2>3
<1>4. ASSUME Once(q), r.line \notin LinesIn(q), NEW i \in DOMAIN a, NEW j \in DOMAIN a,
             a[i].line # 0, a[i].line = a[j].line
      PROVE  i = j
  <2>1. CASE i \in DOMAIN q /\ j \in DOMAIN q
    BY <1>1, <1>4, <2>1 DEF Once
  <2>2. \A k \in DOMAIN q : q[k].line # 0 => q[k].line # r.line
    BY <1>4 DEF LinesIn
  <2> QED
    BY <1>1, <1>2, <1>4, <2>1, <2>2
<1> QED
  BY <1>3, <1>4 DEF a, Once

\* One entry less, from the front.
LEMMA LinesTail ==
  ASSUME NEW S, NEW q \in Seq(S), q # <<>>, Once(q)
  PROVE  /\ LinesIn(Tail(q)) = LinesIn(q) \ {Head(q).line}
         /\ Head(q).line # 0 => Head(q).line \in LinesIn(q)
         /\ Once(Tail(q))
<1> DEFINE a == Tail(q)
<1>1. /\ Len(q) \in Nat /\ Len(q) >= 1 /\ DOMAIN q = 1..Len(q)
      /\ DOMAIN a = 1..(Len(q) - 1)
      /\ Head(q) = q[1] /\ \A i \in 1..(Len(q) - 1) : a[i] = q[i + 1]
  OBVIOUS
<1> HIDE DEF a
<1>2. ASSUME NEW i \in DOMAIN a PROVE i + 1 \in DOMAIN q /\ a[i] = q[i + 1] /\ i + 1 # 1
  BY <1>1
<1>3. ASSUME NEW i \in DOMAIN q, i # 1 PROVE i - 1 \in DOMAIN a /\ a[i - 1] = q[i]
  BY <1>1, <1>3
<1>4. 1 \in DOMAIN q
  BY <1>1
<1>5. ASSUME NEW x \in LinesIn(a) PROVE x \in LinesIn(q) \ {Head(q).line}
  <2>1. PICK i \in DOMAIN a : x = a[i].line /\ x # 0
    BY DEF LinesIn
  <2>2. x = q[i + 1].line /\ i + 1 \in DOMAIN q /\ i + 1 # 1
    BY <2>1, <1>2
  <2>3. q[1].line # x
    BY <1>4, <2>1, <2>2 DEF Once
  <2> QED
    BY <1>1, <2>1, <2>2, <2>3 DEF LinesIn
<1>6. ASSUME NEW x \in LinesIn(q), x # Head(q).line PROVE x \in LinesIn(a)
  <2>1. PICK i \in DOMAIN q : x = q[i].line /\ x # 0
    BY DEF LinesIn
  <2>2. i # 1
    BY <1>1, <1>6, <2>1
  <2>3. i - 1 \in DOMAIN a /\ a[i - 1] = q[i]
    BY <1>3, <2>2
  <2> QED
    BY <2>1, <2>3 DEF LinesIn
<1>7. ASSUME NEW i \in DOMAIN a, NEW j \in DOMAIN a, a[i].line # 0, a[i].line = a[j].line
      PROVE  i = j
  <2>1. i + 1 = j + 1
    BY <1>2, <1>7 DEF Once
  <2> QED
    BY <2>1, <1>1
<1>8. Head(q).line # 0 => Head(q).line \in LinesIn(q)
  BY <1>1, <1>4 DEF LinesIn
<1> QED
  BY <1>5, <1>6, <1>7, <1>8 DEF a, Once

\* Sentinels stand for no line.
LEMMA LinesCancels ==
  ASSUME NEW js \in Seq(Message), NEW q, q = js \o CancelsOf(Cardinality(Workers))
  PROVE  LinesIn(q) = LinesIn(js) /\ (Once(js) => Once(q))
<1>1. /\ DOMAIN q = 1..Len(q) /\ Len(js) \in Nat /\ Len(js) <= Len(q) /\ Len(q) \in Nat
      /\ \A i \in 1..Len(q) : IF i <= Len(js) THEN q[i] = js[i] ELSE q[i] = Cancel
  BY CancelsAppended
<1>d. DOMAIN js = 1..Len(js)
  OBVIOUS
<1>2. ASSUME NEW i \in DOMAIN q, q[i].line # 0 PROVE i \in DOMAIN js /\ q[i] = js[i]
  BY <1>1, <1>d, <1>2 DEF Cancel
<1>3. ASSUME NEW i \in DOMAIN js PROVE i \in DOMAIN q /\ q[i] = js[i]
  BY <1>1, <1>d
<1>4. LinesIn(q) \subseteq LinesIn(js)
  BY <1>2 DEF LinesIn
<1>5. LinesIn(js) \subseteq LinesIn(q)
  BY <1>3 DEF LinesIn
<1>6. ASSUME Once(js), NEW i \in DOMAIN q, NEW j \in DOMAIN q, q[i].line # 0,
             q[i].line = q[j].line
      PROVE  i = j
  BY <1>2, <1>6 DEF Once
<1> QED
  BY <1>4, <1>5, <1>6 DEF Once

\* An empty entry filled.
LEMMA LinesReplace ==
  ASSUME NEW S, NEW q \in Seq(S), NEW k \in DOMAIN q, NEW r,
         q[k].line = 0, r.line # 0, r.line \notin LinesIn(q), Once(q)
  PROVE  /\ LinesIn([q EXCEPT ![k] = r]) = LinesIn(q) \cup {r.line}
         /\ Once([q EXCEPT ![k] = r])
<1> DEFINE a == [q EXCEPT ![k] = r]
<1>1. DOMAIN a = DOMAIN q /\ a[k] = r /\ \A i \in DOMAIN q : i # k => a[i] = q[i]
  OBVIOUS
<1> HIDE DEF a
<1>2. ASSUME NEW x \in LinesIn(a) PROVE x \in LinesIn(q) \cup {r.line}
  <2>1. PICK i \in DOMAIN a : x = a[i].line /\ x # 0
    BY DEF LinesIn
  <2> QED
    BY <2>1, <1>1 DEF LinesIn
<1>3. ASSUME NEW x \in LinesIn(q) PROVE x \in LinesIn(a)
  <2>1. PICK i \in DOMAIN q : x = q[i].line /\ x # 0
    BY DEF LinesIn
  <2>2. i \in DOMAIN a /\ a[i] = q[i]
    BY <2>1, <1>1
  <2> QED
    BY <2>1, <2>2 DEF LinesIn
<1>4. r.line \in LinesIn(a)
  BY <1>1 DEF LinesIn
<1>5. \A i \in DOMAIN q : q[i].line # r.line
  BY DEF LinesIn
<1>6. ASSUME NEW i \in DOMAIN a, NEW j \in DOMAIN a, a[i].line # 0, a[i].line = a[j].line
      PROVE  i = j
  BY <1>1, <1>5, <1>6 DEF Once
<1> QED
  BY <1>2, <1>3, <1>4, <1>6 DEF a, Once

\* A write adds one line to what is written, or fails.
LEMMA WriteLine ==
  ASSUME out \in Seq(ResultRec), NEW l, NEW s, NEW then, WriteThen(l, s, then)
  PROVE  \/ /\ out' = Append(out, [line |-> l, status |-> s])
            /\ Written' = Written \cup {l}
            /\ pc' = then
         \/ /\ WriterFails
            /\ out' = out /\ Written' = Written
            /\ pc' = "error"
<1> DEFINE r == [line |-> l, status |-> s]
           q == Append(out, r)
<1>1. CASE out' = q /\ pc' = then
  <2>1. /\ DOMAIN q = 1..(Len(out) + 1) /\ Len(out) \in Nat /\ DOMAIN out = 1..Len(out)
        /\ q[Len(out) + 1] = r /\ \A i \in 1..Len(out) : q[i] = out[i]
    OBVIOUS
  <2>2. r.line = l /\ Len(out) + 1 \in DOMAIN q
    BY <2>1
  <2> HIDE DEF q, r
  <2>3. Written' = Written \cup {l}
    <3>1. l \in Written'
      BY <1>1, <2>1, <2>2 DEF Written
    <3>2. Written \subseteq Written'
      BY <1>1, <2>1 DEF Written
    <3>3. ASSUME NEW x \in Written' PROVE x \in Written \cup {l}
      <4>1. PICK i \in DOMAIN q : x = q[i].line
        BY <1>1 DEF Written
      <4>2. i = Len(out) + 1 \/ (i \in DOMAIN out /\ q[i] = out[i])
        BY <2>1
      <4> QED
        BY <4>1, <4>2, <2>1, <2>2 DEF Written
    <3> QED
      BY <3>1, <3>2, <3>3
  <2> QED
    BY <1>1, <2>3 DEF q, r
<1>2. CASE WriterFails /\ pc' = "error" /\ out' = out
  BY <1>2 DEF Written
<1> QED
  BY <1>1, <1>2 DEF WriteThen

-----------------------------------------------------------------------------
(* Every answer is in one place.                                           *)

\* The line that is read.
LEMMA LineRead ==
  ASSUME TypeOK, pc = "read", next <= Len(lines)
  PROVE  /\ next \in DOMAIN lines /\ next \in Nat /\ next # 0
         /\ Current = lines[next] /\ lines[next] \in Line /\ lines[next].id \in Ids
<1>1. /\ lines \in Seq(Line) /\ next \in 1..(Len(lines) + 1)
  BY DEF TypeOK
<1>2. next \in DOMAIN lines /\ next \in Nat /\ next # 0
  BY <1>1
<1>3. lines[next] \in Line
  BY <1>1, <1>2
<1> QED
  BY <1>2, <1>3 DEF Current, Line

\* What the identifiers seen say of the job that is read.
LEMMA SeenMeansDuplicate ==
  ASSUME TypeOK, SeenExact, NEW i \in DOMAIN lines, i = next
  PROVE  lines[i].id \in seen <=> Abstract!IsDuplicate(lines, i)
BY DEF SeenExact, Abstract!IsDuplicate

\* The kinds of result each line may have.
LEMMA StatusFacts ==
  /\ \A i \in DOMAIN lines : lines[i].kind \in {"garbled", "version"} =>
       Abstract!StatusOf(lines, i) = {"malformed"}
  /\ \A i \in DOMAIN lines : lines[i].kind = "job" /\ Abstract!IsDuplicate(lines, i) =>
       Abstract!StatusOf(lines, i) = {"duplicate"}
  /\ \A i \in Fresh : Abstract!StatusOf(lines, i) = {"success", "failure"}
BY DEF Abstract!StatusOf, Fresh

\* The identifiers seen stay those of the jobs read.
LEMMA SeenStep ==
  ASSUME TypeOK, SeenExact, [Next]_vars
  PROVE  SeenExact'
<1> DEFINE J == {k \in 1..(next - 1) : lines[k].kind = "job"}
<1>0. UNCHANGED lines /\ next \in Nat /\ next # 0
  BY Stable DEF TypeOK
<1>1. CASE UNCHANGED <<seen, next>>
  BY <1>0, <1>1 DEF SeenExact
<1>2. CASE ReadBlank \/ ReadMalformed \/ ReadDuplicate \/ Enqueue
  <2>1. /\ next' = next + 1 /\ next \in DOMAIN lines /\ Current = lines[next]
    BY <1>2, LineRead DEF ReadBlank, ReadMalformed, ReadDuplicate, Enqueue, Reading
  <2>2. J' = IF lines[next].kind = "job" THEN J \cup {next} ELSE J
    <3>1. 1..(next' - 1) = 1..(next - 1) \cup {next}
      BY <1>0, <2>1
    <3> QED
      BY <1>0, <3>1
  <2>3. seen' = IF lines[next].kind = "job" THEN seen \cup {lines[next].id} ELSE seen
    BY <1>2, <2>1 DEF ReadBlank, ReadMalformed, ReadDuplicate, Enqueue, Reading
  <2>4. SeenExact = (seen = {lines[j].id : j \in J})
    BY DEF SeenExact
  <2>5. SeenExact' = (seen' = {lines[j].id : j \in J'})
    BY <1>0 DEF SeenExact
  <2> HIDE DEF J
  <2> QED
    BY <2>2, <2>3, <2>4, <2>5
<1>3. ReadError \/ EndOfInput \/ MainStep \/ (\E w \in Workers : WorkerStep(w)) \/ UNCHANGED vars
        => UNCHANGED <<seen, next>>
  BY DEF vars, MainStep, WorkerStep, ReadError, EndOfInput, SendCancels, CollectSlot,
     CollectEnds, Flush, WriteCompleted, Join, Lock, Receive, ProcessJob, Panic, mainVars
<1> QED
  BY <1>1, <1>2, <1>3 DEF Next, ReadLine

\* Steps that move no answer.
LEMMA PlacesFrame ==
  ASSUME TypeOK, TypeOK', Places, [Next]_vars, next' \in {next, next + 1},
         UNCHANGED <<jobs, worker, results, pending, out, lost>>
  PROVE  Places'
<1>1. /\ Queued' = Queued /\ Finished' = Finished /\ Slotted' = Slotted
      /\ Busy' = Busy /\ Written' = Written
  BY DEF Queued, Finished, Slotted, Busy, Written, LinesIn
<1>2. Handled' = Handled
  BY <1>1 DEF Handled
<1>3. UNCHANGED lines /\ Asking' = Asking /\ Fresh' = Fresh
  BY Stable DEF Fresh
<1>4. \A i : i \in Asking /\ i < next => i < next'
  BY DEF TypeOK, Asking
<1>5. Singly'
  BY <1>1 DEF Places, Singly, Once
<1>6. OnePlace'
  BY <1>1, <1>2 DEF Places, OnePlace
<1>7. Asked'
  BY <1>1, <1>2, <1>3, <1>4 DEF Places, Asked
<1> QED
  BY <1>5, <1>6, <1>7 DEF Places

\* The main thread answers a line that asks for a result with one of the right kind.
LEMMA AnswerIsAsked ==
  ASSUME TypeOK, SeenExact, ReadMalformed \/ ReadDuplicate
  PROVE  \E s : Answer(s) /\ s \in Abstract!StatusOf(lines, next) /\ next \in Asking
<1>0. /\ next \in DOMAIN lines /\ next \in Nat /\ next # 0 /\ Current = lines[next]
  BY LineRead DEF ReadMalformed, ReadDuplicate, Reading
<1>1. CASE ReadMalformed
  BY <1>0, <1>1, StatusFacts DEF ReadMalformed, Reading, Asking
<1>2. CASE ReadDuplicate
  <2>1. lines[next].kind = "job" /\ lines[next].id \in seen
    BY <1>0, <1>2 DEF ReadDuplicate, Reading
  <2>2. Abstract!IsDuplicate(lines, next)
    BY <1>0, <2>1, SeenMeansDuplicate
  <2> QED
    BY <1>0, <1>2, <2>1, <2>2, StatusFacts DEF ReadDuplicate, Asking
<1> QED
  BY <1>1, <1>2

\* A line the main thread answers itself goes to its slot or is written.
LEMMA PlacesAnswered ==
  ASSUME TypeOK, TypeOK', SeenExact, Places, [Next]_vars, ReadMalformed \/ ReadDuplicate
  PROVE  Places'
<1> USE DEF Places
<1>1. /\ UNCHANGED <<lines, order, jobs, worker, results, lost>> /\ next' = next + 1
      /\ pc = "read" /\ next <= Len(lines)
  BY DEF ReadMalformed, ReadDuplicate, Reading
<1>2. /\ next \in DOMAIN lines /\ next \in Nat /\ next # 0 /\ Current = lines[next]
  BY <1>1, LineRead
<1>3. PICK s : Answer(s) /\ s \in Abstract!StatusOf(lines, next) /\ next \in Asking
  BY AnswerIsAsked
<1>4. /\ Queued' = Queued /\ Finished' = Finished /\ Busy' = Busy /\ Handled' = Handled
      /\ Asking' = Asking /\ Fresh' = Fresh
  BY <1>1 DEF Queued, Finished, Busy, Handled, LinesIn, Asking, Fresh
<1>5. next \notin Queued \cup Handled \cup Finished \cup Slotted \cup Written \cup lost
  BY <1>2 DEF Asked
<1>6. CASE order = "input"
  <2> DEFINE r == [line |-> next, status |-> s]
             S == ResultRec \cup {Placeholder}
  <2>1. pending' = Append(pending, r) /\ out' = out /\ Written' = Written
    BY <1>3, <1>6 DEF Answer, Written
  <2>2. pending \in Seq(S) /\ r \in S /\ r.line = next /\ r.status = s
    <3>1. s \in Status
      BY <1>3 DEF Abstract!StatusOf, Status
    <3> QED
      BY <1>2, <3>1, RecordTypes DEF TypeOK
  <2> HIDE DEF r, S
  <2>3. /\ Slotted' = Slotted \cup {next}
        /\ Once(pending')
    BY <1>2, <1>5, <2>1, <2>2, LinesAppend DEF Slotted, Singly
  <2>4. ASSUME NEW i \in DOMAIN pending'
        PROVE  (i \in DOMAIN pending /\ pending'[i] = pending[i]) \/ pending'[i] = r
    BY <2>1, <2>2
  <2>5. Singly'
    BY <1>1, <1>4, <2>3 DEF Singly, Once
  <2>6. OnePlace'
    BY <1>1, <1>4, <1>5, <2>1, <2>3 DEF OnePlace
  <2>7. Asked'
    <3>1. \A i : i \in Asking /\ i < next => i < next'
      BY <1>1, <1>2 DEF TypeOK, Asking
    <3>2. next \in Asking' /\ next < next'
      BY <1>1, <1>2, <1>3, <1>4
    <3>3. r.line # 0 /\ r.status \in Abstract!StatusOf(lines, r.line)
      BY <1>2, <1>3, <2>2
    <3>4. \A i \in DOMAIN pending' :
            \/ pending'[i] = Placeholder
            \/ pending'[i].line # 0 /\ pending'[i].status \in Abstract!StatusOf(lines', pending'[i].line)
      BY <1>1, <2>4, <3>3 DEF Asked
    <3> QED
      BY <1>1, <1>4, <2>1, <2>3, <3>1, <3>2, <3>4 DEF Asked
  <2> QED
    BY <2>5, <2>6, <2>7
<1>7. CASE order # "input"
  <2>1. pending' = pending /\ Slotted' = Slotted /\ WriteThen(next, s, "read")
    BY <1>3, <1>7 DEF Answer, Slotted, LinesIn
  <2>2. Written' = Written \cup {next} \/ Written' = Written
    BY <2>1, WriteLine DEF TypeOK
  <2>3. Singly'
    BY <1>1, <1>4, <2>1 DEF Singly, Once
  <2>4. OnePlace'
    BY <1>1, <1>4, <1>5, <2>1, <2>2 DEF OnePlace
  <2>5. Asked'
    <3>1. \A i : i \in Asking /\ i < next => i < next'
      BY <1>1, <1>2 DEF TypeOK, Asking
    <3>2. next \in Asking' /\ next < next'
      BY <1>1, <1>2, <1>3, <1>4
    <3> QED
      BY <1>1, <1>4, <2>1, <2>2, <3>1, <3>2 DEF Asked
  <2> QED
    BY <2>3, <2>4, <2>5
<1> QED
  BY <1>6, <1>7

\* A job that is sent is in the queue, and its slot is still empty.
LEMMA PlacesSent ==
  ASSUME TypeOK, TypeOK', SeenExact, Places, [Next]_vars, Enqueue
  PROVE  Places'
<1> USE DEF Places
<1>1. /\ UNCHANGED <<lines, order, worker, results, out, lost>> /\ next' = next + 1
      /\ pc = "read" /\ next <= Len(lines) /\ Current.kind = "job" /\ Current.id \notin seen
  BY DEF Enqueue, Reading
<1>2. /\ next \in DOMAIN lines /\ next \in Nat /\ next # 0 /\ Current = lines[next]
      /\ lines[next].id \in Ids
  BY <1>1, LineRead
<1>3. next \in Fresh /\ next \in Asking
  BY <1>1, <1>2, SeenMeansDuplicate DEF Fresh, Asking
<1>4. /\ Written' = Written /\ Finished' = Finished /\ Busy' = Busy /\ Handled' = Handled
      /\ Asking' = Asking /\ Fresh' = Fresh
  BY <1>1 DEF Written, Finished, Busy, Handled, LinesIn, Asking, Fresh
<1>5. next \notin Queued \cup Handled \cup Finished \cup Slotted \cup Written \cup lost
  BY <1>2 DEF Asked
<1>6. /\ Slotted' = Slotted /\ Once(pending')
      /\ \A i \in DOMAIN pending' : (i \in DOMAIN pending /\ pending'[i] = pending[i]) \/ pending'[i] = Placeholder
  <2> DEFINE S == ResultRec \cup {Placeholder}
  <2>1. pending' = pending \/ pending' = Append(pending, Placeholder)
    BY DEF Enqueue
  <2>2. pending \in Seq(S) /\ Placeholder \in S /\ Placeholder.line = 0
    BY DEF TypeOK, Placeholder
  <2> HIDE DEF S
  <2>3. /\ LinesIn(Append(pending, Placeholder)) = LinesIn(pending)
        /\ Once(Append(pending, Placeholder))
        /\ \A i \in DOMAIN Append(pending, Placeholder) :
             \/ i \in DOMAIN pending /\ Append(pending, Placeholder)[i] = pending[i]
             \/ Append(pending, Placeholder)[i] = Placeholder
    <3>1. 0 \notin LinesIn(pending)
      BY DEF LinesIn
    <3> QED
      BY <2>2, <3>1, LinesAppend DEF Singly
  <2>4. Once(pending)
    BY DEF Singly
  <2> QED
    BY <2>1, <2>3, <2>4 DEF Slotted
<1>7. /\ Once(jobs') /\ Queued' \in {Queued, Queued \cup {next}}
  <2>1. CASE jobs' = jobs
    BY <2>1 DEF Queued, Singly, LinesIn
  <2>2. CASE jobs' # jobs
    <3> DEFINE m == [line |-> next, id |-> Current.id,
                     slot |-> IF order = "input" THEN Len(pending') ELSE 0]
    <3>1. jobs' = Append(jobs, m)
      BY <2>2 DEF Enqueue
    <3>2. m \in Message /\ m.line = next /\ jobs \in Seq(Message)
      <4>1. Len(pending') \in Nat
        BY DEF TypeOK
      <4> QED
        BY <1>2, <4>1, RecordTypes DEF TypeOK
    <3> HIDE DEF m
    <3> QED
      BY <1>2, <1>5, <3>1, <3>2, LinesAppend DEF Queued, Singly
  <2> QED
    BY <2>1, <2>2
<1>8. Singly'
  BY <1>1, <1>4, <1>6, <1>7 DEF Singly, Once
<1>9. OnePlace'
  BY <1>1, <1>4, <1>5, <1>6, <1>7 DEF OnePlace
<1>10. Asked'
  <2>1. \A i : i \in Asking /\ i < next => i < next'
    BY <1>1, <1>2 DEF TypeOK, Asking
  <2>2. next \in Asking' /\ next < next' /\ next \in Fresh'
    BY <1>1, <1>2, <1>3, <1>4
  <2>3. \A i \in DOMAIN pending' :
          \/ pending'[i] = Placeholder
          \/ pending'[i].line # 0 /\ pending'[i].status \in Abstract!StatusOf(lines', pending'[i].line)
    BY <1>1, <1>6 DEF Asked
  <2> QED
    BY <1>1, <1>4, <1>6, <1>7, <2>1, <2>2, <2>3 DEF Asked
<1> QED
  BY <1>8, <1>9, <1>10

\* The sentinels answer no line.
LEMMA PlacesCancelled ==
  ASSUME TypeOK, TypeOK', Places, [Next]_vars, SendCancels
  PROVE  Places'
<1> USE DEF Places
<1>1. /\ UNCHANGED <<lines, next, worker, results, pending, out, lost>>
      /\ jobs' = jobs \o CancelsOf(Cardinality(Workers)) /\ jobs \in Seq(Message)
  BY DEF SendCancels, TypeOK
<1>2. Queued' = Queued /\ Once(jobs')
  BY <1>1, LinesCancels DEF Queued, Singly
<1>3. /\ Written' = Written /\ Finished' = Finished /\ Busy' = Busy /\ Handled' = Handled
      /\ Slotted' = Slotted /\ Asking' = Asking /\ Fresh' = Fresh
  BY <1>1 DEF Written, Finished, Busy, Handled, Slotted, LinesIn, Asking, Fresh
<1>4. Singly'
  BY <1>1, <1>2, <1>3 DEF Singly, Once
<1>5. OnePlace'
  BY <1>1, <1>2, <1>3 DEF OnePlace
<1>6. Asked'
  BY <1>1, <1>2, <1>3 DEF Asked
<1> QED
  BY <1>4, <1>5, <1>6

\* A result that is collected goes from the channel to its empty slot.
LEMMA PlacesCollected ==
  ASSUME TypeOK, TypeOK', Phase, QueueShape, Conservation, NoLookAlike, Places, [Next]_vars,
         CollectSlot
  PROVE  Places'
<1> USE DEF Places
<1> DEFINE h == Head(results)
           r == [line |-> h.line, status |-> h.status]
           S == ResultRec \cup {Placeholder}
<1>1. /\ UNCHANGED <<lines, next, jobs, worker, out, lost>> /\ order = "input" /\ pc = "collect"
      /\ results # <<>> /\ results' = Tail(results)
      /\ pending' = [pending EXCEPT ![h.slot] = r]
  BY DEF CollectSlot
<1>2. /\ results \in Seq(Indexed) /\ pending \in Seq(S)
      /\ 1 \in DOMAIN results /\ h = results[1]
      /\ \A i \in DOMAIN results' : i + 1 \in DOMAIN results /\ results'[i] = results[i + 1]
  BY <1>1 DEF TypeOK
<1>3. h.line # 0 /\ h.status \in {"success", "failure"}
  BY <1>2 DEF Asked
<1>4. r.line = h.line /\ r.status = h.status
  OBVIOUS
<1>5. <<h.line, h.slot>> \in Travelling
  BY Moves DEF Conservation
<1>6. h.slot \in DOMAIN pending /\ pending[h.slot].line \in {0, h.line}
  BY <1>1, <1>5 DEF Conservation, SlotsDistinct
<1> HIDE DEF h, r, S
<1>7. /\ Finished' = Finished \ {h.line} /\ h.line \in Finished /\ Once(results')
  BY <1>1, <1>2, <1>3, LinesTail DEF Finished, Singly, h
<1>8. h.line \notin Slotted
  BY <1>7 DEF OnePlace
<1>9. pending[h.slot].line = 0
  BY <1>3, <1>6, <1>8 DEF Slotted, LinesIn
<1>10. Slotted' = Slotted \cup {h.line} /\ Once(pending')
  <2>1. /\ Once(pending) /\ pending \in Seq(S) /\ h.slot \in DOMAIN pending
        /\ pending[h.slot].line = 0 /\ r.line # 0 /\ r.line \notin LinesIn(pending)
    BY <1>2, <1>3, <1>4, <1>6, <1>8, <1>9 DEF Slotted, Singly
  <2>2. /\ LinesIn([pending EXCEPT ![h.slot] = r]) = LinesIn(pending) \cup {r.line}
        /\ Once([pending EXCEPT ![h.slot] = r])
    BY ONLY <2>1, LinesReplace
  <2> QED
    BY <1>1, <1>4, <2>2 DEF Slotted
<1>11. /\ Written' = Written /\ Queued' = Queued /\ Busy' = Busy /\ Handled' = Handled
       /\ Asking' = Asking /\ Fresh' = Fresh
  BY <1>1 DEF Written, Queued, Busy, Handled, LinesIn, Asking, Fresh
<1>12. Singly'
  BY <1>1, <1>7, <1>10, <1>11 DEF Singly, Once
<1>13. OnePlace'
  BY <1>1, <1>7, <1>8, <1>10, <1>11 DEF OnePlace
<1>14. Asked'
  <2>1. \A i \in DOMAIN results' : results'[i].line # 0 /\ results'[i].status \in {"success", "failure"}
    BY <1>2 DEF Asked
  <2>2. r.status \in Abstract!StatusOf(lines, r.line)
    BY <1>3, <1>4, <1>7, StatusFacts DEF Asked
  <2>3. ASSUME NEW i \in DOMAIN pending'
        PROVE  (i \in DOMAIN pending /\ pending'[i] = pending[i]) \/ pending'[i] = r
    BY <1>1, <1>6
  <2>4. \A i \in DOMAIN pending' :
          \/ pending'[i] = Placeholder
          \/ pending'[i].line # 0 /\ pending'[i].status \in Abstract!StatusOf(lines', pending'[i].line)
    BY <1>1, <1>3, <1>4, <2>2, <2>3 DEF Asked
  <2> QED
    BY <1>1, <1>7, <1>10, <1>11, <2>1, <2>4 DEF Asked
<1> QED
  BY <1>12, <1>13, <1>14

\* A slot is emptied from the front: its line is written, or the writer failed.
LEMMA PlacesFlushed ==
  ASSUME TypeOK, TypeOK', Places, [Next]_vars, Flush, pending # <<>>
  PROVE  Places'
<1> USE DEF Places
<1> DEFINE h == Head(pending)
           S == ResultRec \cup {Placeholder}
<1>1. /\ UNCHANGED <<lines, next, jobs, worker, results, lost>>
      /\ pending' = Tail(pending)
      /\ IF h = Placeholder THEN out' = out ELSE WriteThen(h.line, h.status, "flush")
  BY DEF Flush
<1>2. /\ pending \in Seq(S) /\ 1 \in DOMAIN pending /\ h = pending[1]
      /\ \A i \in DOMAIN pending' : i + 1 \in DOMAIN pending /\ pending'[i] = pending[i + 1]
  BY <1>1 DEF TypeOK
<1>3. h = Placeholder <=> h.line = 0
  BY <1>2 DEF Asked, Placeholder
<1> HIDE DEF h, S
<1>4. Slotted' = Slotted \ {h.line} /\ (h.line # 0 => h.line \in Slotted) /\ Once(pending')
  BY <1>1, <1>2, LinesTail DEF Slotted, Singly, h
<1>5. Written' = Written \/ (h.line # 0 /\ Written' = Written \cup {h.line})
  <2>1. CASE h.line = 0
    BY <1>1, <1>3, <2>1 DEF Written
  <2>2. CASE h.line # 0
    BY <1>1, <1>3, <2>2, WriteLine DEF TypeOK
  <2> QED
    BY <2>1, <2>2
<1>6. /\ Finished' = Finished /\ Queued' = Queued /\ Busy' = Busy /\ Handled' = Handled
      /\ Asking' = Asking /\ Fresh' = Fresh
  BY <1>1 DEF Finished, Queued, Busy, Handled, LinesIn, Asking, Fresh
<1>7. Singly'
  BY <1>1, <1>4, <1>6 DEF Singly, Once
<1>8. OnePlace'
  BY <1>1, <1>4, <1>5, <1>6 DEF OnePlace
<1>9. Asked'
  <2>1. \A i \in DOMAIN pending' :
          \/ pending'[i] = Placeholder
          \/ pending'[i].line # 0 /\ pending'[i].status \in Abstract!StatusOf(lines', pending'[i].line)
    BY <1>1, <1>2 DEF Asked
  <2> QED
    BY <1>1, <1>4, <1>5, <1>6, <2>1 DEF Asked
<1> QED
  BY <1>7, <1>8, <1>9

\* A result that is written leaves the channel.
LEMMA PlacesCompleted ==
  ASSUME TypeOK, TypeOK', Places, [Next]_vars, WriteCompleted
  PROVE  Places'
<1> USE DEF Places
<1> DEFINE h == Head(results)
<1>1. /\ UNCHANGED <<lines, next, jobs, worker, pending, lost>>
      /\ results # <<>> /\ results' = Tail(results)
      /\ WriteThen(h.line, h.status, "collect")
  BY DEF WriteCompleted
<1>2. /\ results \in Seq(Indexed) /\ 1 \in DOMAIN results /\ h = results[1]
      /\ \A i \in DOMAIN results' : i + 1 \in DOMAIN results /\ results'[i] = results[i + 1]
  BY <1>1 DEF TypeOK
<1>3. h.line # 0
  BY <1>2 DEF Asked
<1> HIDE DEF h
<1>4. Finished' = Finished \ {h.line} /\ h.line \in Finished /\ Once(results')
  BY <1>1, <1>2, <1>3, LinesTail DEF Finished, Singly, h
<1>5. Written' \in {Written, Written \cup {h.line}}
  BY <1>1, WriteLine DEF TypeOK
<1>6. /\ Slotted' = Slotted /\ Queued' = Queued /\ Busy' = Busy /\ Handled' = Handled
      /\ Asking' = Asking /\ Fresh' = Fresh
  BY <1>1 DEF Slotted, Queued, Busy, Handled, LinesIn, Asking, Fresh
<1>7. Singly'
  BY <1>1, <1>4, <1>6 DEF Singly, Once
<1>8. OnePlace'
  BY <1>1, <1>4, <1>5, <1>6 DEF OnePlace
<1>9. Asked'
  <2>1. \A i \in DOMAIN results' : results'[i].line # 0 /\ results'[i].status \in {"success", "failure"}
    BY <1>2 DEF Asked
  <2> QED
    BY <1>1, <1>4, <1>5, <1>6, <2>1 DEF Asked
<1> QED
  BY <1>7, <1>8, <1>9

\* A job that is taken goes from the queue into the hands of its thread.
LEMMA PlacesTaken ==
  ASSUME TypeOK, TypeOK', QueueShape, Conservation, NoLookAlike, Places, [Next]_vars,
         NEW w \in Workers, Receive(w)
  PROVE  Places'
<1> USE DEF Places
<1> DEFINE h == Head(jobs)
<1>1. /\ UNCHANGED <<lines, next, results, pending, out, lost>>
      /\ jobs # <<>> /\ jobs' = Tail(jobs) /\ worker[w].pc = "recv"
      /\ worker' = [worker EXCEPT ![w] = IF IsCancel(h) THEN [pc |-> "done", msg |-> Cancel]
                                         ELSE [pc |-> "busy", msg |-> h]]
  BY DEF Receive, mainVars
<1>2. jobs \in Seq(Message) /\ worker \in [Workers -> [pc : {"wait", "recv", "busy", "done", "panicked"}, msg : Message]]
  BY DEF TypeOK
<1>3. IsCancel(h) <=> h.line = 0
  BY <1>1, HeadOfQueue DEF Conservation
<1> HIDE DEF h
<1>4. Queued' = Queued \ {h.line} /\ (h.line # 0 => h.line \in Queued) /\ Once(jobs')
  BY <1>1, <1>2, LinesTail DEF Queued, Singly, h
<1>5. /\ Written' = Written /\ Finished' = Finished /\ Slotted' = Slotted
      /\ Asking' = Asking /\ Fresh' = Fresh
  BY <1>1 DEF Written, Finished, Slotted, LinesIn, Asking, Fresh
<1>6. CASE h.line = 0
  <2>1. Busy' = Busy /\ \A v \in Busy : worker'[v] = worker[v]
    BY <1>1, <1>2, <1>3, <1>6 DEF Busy
  <2>2. Handled' = Handled
    BY <2>1 DEF Handled
  <2>3. Singly'
    BY <1>1, <1>4, <2>1 DEF Singly, Once
  <2>4. OnePlace'
    BY <1>1, <1>4, <1>5, <2>2 DEF OnePlace
  <2>5. Asked'
    BY <1>1, <1>4, <1>5, <2>2 DEF Asked
  <2> QED
    BY <2>3, <2>4, <2>5
<1>7. CASE h.line # 0
  <2>1. /\ Busy' = Busy \cup {w} /\ w \notin Busy /\ worker'[w].msg = h
        /\ \A v \in Busy : worker'[v] = worker[v]
    BY <1>1, <1>2, <1>3, <1>7 DEF Busy
  <2>2. Handled' = Handled \cup {h.line}
    BY <2>1 DEF Handled
  <2>3. h.line \notin Handled
    BY <1>4, <1>7 DEF OnePlace
  <2>4. Singly'
    <3>1. ASSUME NEW u \in Busy', NEW v \in Busy', worker'[u].msg.line = worker'[v].msg.line
          PROVE  u = v
      BY <2>1, <2>3, <3>1 DEF Singly, Handled
    <3> QED
      BY <1>1, <1>4, <3>1 DEF Singly, Once
  <2>5. OnePlace'
    BY <1>1, <1>4, <1>5, <1>7, <2>2 DEF OnePlace
  <2>6. Asked'
    BY <1>1, <1>4, <1>5, <1>7, <2>2 DEF Asked
  <2> QED
    BY <2>4, <2>5, <2>6
<1> QED
  BY <1>6, <1>7

\* A job in the hands of a thread, and what is left in hand when it is done.
LEMMA HandReleased ==
  ASSUME TypeOK, Places, NEW w \in Workers, worker[w].pc = "busy", NEW p, p # "busy",
         worker' = [worker EXCEPT ![w] = [pc |-> p, msg |-> Cancel]]
  PROVE  /\ Handled' = Handled \ {worker[w].msg.line}
         /\ worker[w].msg.line \in Handled
         /\ \A u, v \in Busy' : worker'[u].msg.line = worker'[v].msg.line => u = v
<1> DEFINE l == worker[w].msg.line
<1>1. /\ w \in Busy /\ Busy' = Busy \ {w} /\ \A v \in Busy' : worker'[v] = worker[v]
  BY DEF TypeOK, Busy
<1>2. \A v \in Busy' : worker[v].msg.line # l
  BY <1>1 DEF Places, Singly
<1>3. Handled' = Handled \ {l}
  BY <1>1, <1>2 DEF Handled
<1>4. l \in Handled
  BY <1>1 DEF Handled
<1>5. \A u, v \in Busy' : worker'[u].msg.line = worker'[v].msg.line => u = v
  BY <1>1 DEF Places, Singly
<1> QED
  BY <1>3, <1>4, <1>5

\* A job that is done goes into the result channel.
LEMMA PlacesDone ==
  ASSUME TypeOK, TypeOK', Places, [Next]_vars, NEW w \in Workers, ProcessJob(w)
  PROVE  Places'
<1> USE DEF Places
<1> DEFINE l == worker[w].msg.line
<1>1. /\ UNCHANGED <<lines, next, jobs, pending, out, lost>> /\ worker[w].pc = "busy"
      /\ worker' = [worker EXCEPT ![w] = [pc |-> "wait", msg |-> Cancel]]
  BY DEF ProcessJob, mainVars
<1>2. /\ Handled' = Handled \ {l} /\ l \in Handled
      /\ \A u, v \in Busy' : worker'[u].msg.line = worker'[v].msg.line => u = v
  BY <1>1, HandReleased
<1>3. PICK s \in {"success", "failure"} :
        results' = Append(results, [line |-> l, status |-> s, slot |-> worker[w].msg.slot])
  BY DEF ProcessJob
<1> DEFINE r == [line |-> l, status |-> s, slot |-> worker[w].msg.slot]
<1>4. r \in Indexed /\ r.line = l /\ r.status = s /\ results \in Seq(Indexed) /\ results' = Append(results, r)
  <2>1. worker[w].msg \in Message
    BY DEF TypeOK
  <2> QED
    BY <1>3, <2>1, RecordTypes DEF TypeOK
<1> HIDE DEF l, r
<1>5. l # 0 /\ l \notin Finished
  <2>1. l \in Asking
    BY <1>2 DEF Asked
  <2>2. l # 0
    BY <2>1 DEF Asking, TypeOK
  <2> QED
    BY <1>2, <2>2 DEF OnePlace
<1>6. Finished' = Finished \cup {l} /\ Once(results')
  BY <1>4, <1>5, LinesAppend DEF Finished, Singly
<1>7. /\ Written' = Written /\ Queued' = Queued /\ Slotted' = Slotted
      /\ Asking' = Asking /\ Fresh' = Fresh
  BY <1>1 DEF Written, Queued, Slotted, LinesIn, Asking, Fresh
<1>8. Singly'
  BY <1>1, <1>2, <1>6 DEF Singly, Once
<1>9. OnePlace'
  BY <1>1, <1>2, <1>6, <1>7 DEF OnePlace
<1>10. Asked'
  <2>1. ASSUME NEW i \in DOMAIN results'
        PROVE  (i \in DOMAIN results /\ results'[i] = results[i]) \/ results'[i] = r
    BY <1>4
  <2>2. \A i \in DOMAIN results' : results'[i].line # 0 /\ results'[i].status \in {"success", "failure"}
    BY <1>4, <1>5, <2>1 DEF Asked
  <2> QED
    BY <1>1, <1>2, <1>6, <1>7, <2>2 DEF Asked
<1> QED
  BY <1>8, <1>9, <1>10

\* A panic loses the line in hand.
LEMMA PlacesLost ==
  ASSUME TypeOK, TypeOK', Places, [Next]_vars, NEW w \in Workers, Panic(w)
  PROVE  Places'
<1> USE DEF Places
<1> DEFINE l == worker[w].msg.line
<1>1. /\ UNCHANGED <<lines, next, jobs, results, pending, out>> /\ worker[w].pc = "busy"
      /\ worker' = [worker EXCEPT ![w] = [pc |-> "panicked", msg |-> Cancel]]
      /\ lost' = lost \cup {l}
  BY DEF Panic, mainVars
<1>2. /\ Handled' = Handled \ {l} /\ l \in Handled
      /\ \A u, v \in Busy' : worker'[u].msg.line = worker'[v].msg.line => u = v
  BY <1>1, HandReleased
<1> HIDE DEF l
<1>3. /\ Written' = Written /\ Queued' = Queued /\ Slotted' = Slotted /\ Finished' = Finished
      /\ Asking' = Asking /\ Fresh' = Fresh
  BY <1>1 DEF Written, Queued, Slotted, Finished, LinesIn, Asking, Fresh
<1>4. Singly'
  BY <1>1, <1>2 DEF Singly, Once
<1>5. OnePlace'
  BY <1>1, <1>2, <1>3 DEF OnePlace
<1>6. Asked'
  BY <1>1, <1>2, <1>3 DEF Asked
<1> QED
  BY <1>4, <1>5, <1>6

\* Every answer stays in one place.
LEMMA PlacesStep ==
  ASSUME TypeOK, TypeOK', Phase, QueueShape, Conservation, NoLookAlike, SeenExact, Places,
         [Next]_vars
  PROVE  Places'
<1>1. CASE ReadBlank \/ ReadError \/ EndOfInput \/ CollectEnds \/ Join \/ UNCHANGED vars
           \/ (Flush /\ pending = <<>>)
  BY <1>1, PlacesFrame DEF ReadBlank, ReadError, EndOfInput, CollectEnds, Join, vars, Flush
<1>2. ASSUME NEW w \in Workers, Lock(w) PROVE Places'
  <2>1. /\ UNCHANGED <<lines, next, jobs, results, pending, out, lost>>
        /\ Busy' = Busy /\ \A v \in Busy : worker'[v] = worker[v]
    BY <1>2 DEF Lock, mainVars, Busy, TypeOK
  <2>2. /\ Written' = Written /\ Queued' = Queued /\ Slotted' = Slotted
        /\ Finished' = Finished /\ Handled' = Handled /\ Asking' = Asking /\ Fresh' = Fresh
    BY <2>1 DEF Written, Queued, Slotted, Finished, Handled, LinesIn, Asking, Fresh
  <2>3. Singly'
    BY <2>1 DEF Places, Singly, Once
  <2>4. OnePlace'
    BY <2>1, <2>2 DEF Places, OnePlace
  <2>5. Asked'
    BY <2>1, <2>2 DEF Places, Asked
  <2> QED
    BY <2>3, <2>4, <2>5 DEF Places
<1> QED
  BY <1>1, <1>2, PlacesAnswered, PlacesSent, PlacesCancelled, PlacesCollected, PlacesFlushed,
     PlacesCompleted, PlacesTaken, PlacesDone, PlacesLost
     DEF Next, ReadLine, MainStep, WorkerStep

-----------------------------------------------------------------------------
(* Slots and lines are in the same order.                                  *)

\* A claim is for a line that was read, on a slot there is.
LEMMA ClaimFacts ==
  ASSUME TypeOK, Conservation, Places, order = "input", pc \in {"read", "cancel", "collect"},
         NEW c \in Claims
  PROVE  c[1] \in Nat /\ c[1] < next /\ c[2] \in DOMAIN pending
<1>1. c[1] # 0 => c[1] \in Queued \cup Handled \cup Finished \cup Slotted
  BY DEF Claims, Travelling, InQueue, InHands, InResults, Queued, Handled, Finished, Slotted,
     LinesIn
<1>2. c[1] # 0
  <2>1. CASE c \in InQueue(jobs)
    BY <2>1 DEF InQueue
  <2>2. CASE c \in InResults(results)
    BY <2>2 DEF InResults, Places, Asked
  <2>3. CASE c \in InHands
    <3>1. c[1] \in Handled
      BY <2>3 DEF InHands, Handled
    <3> QED
      BY <3>1 DEF Places, Asked, Asking, TypeOK
  <2>4. CASE c \notin Travelling
    BY <2>4 DEF Claims
  <2> QED
    BY <2>1, <2>2, <2>3, <2>4 DEF Travelling
<1>3. c[1] \in Asking /\ c[1] < next
  BY <1>1, <1>2 DEF Places, Asked
<1>4. c[1] \in Nat
  BY <1>3 DEF Asking, TypeOK
<1>5. c[2] \in DOMAIN pending
  BY DEF Claims, Conservation, SlotsDistinct
<1> QED
  BY <1>3, <1>4, <1>5

\* A step claims at most the next slot, for the next line.
LEMMA ClaimsStep ==
  ASSUME TypeOK, TypeOK', Phase, QueueShape, Conservation, NoLookAlike, [Next]_vars,
         order = "input", pc \in {"read", "cancel", "collect"}
  PROVE  Claims' \subseteq Claims \cup {<<next, Len(pending) + 1>>}
<1> DEFINE C(p) == {<<p[i].line, i>> : i \in {k \in DOMAIN p : p[k].line # 0}}
           new == <<next, Len(pending) + 1>>
<1>0. /\ pending \in Seq(ResultRec \cup {Placeholder}) /\ next \in Nat
      /\ Len(pending) \in Nat /\ DOMAIN pending = 1..Len(pending)
  BY DEF TypeOK
<1>1. Claims = Travelling \cup C(pending) /\ Claims' = Travelling' \cup C(pending')
  BY DEF Claims
<1>a. ASSUME NEW x, x.line \in {0, next} PROVE C(Append(pending, x)) \subseteq C(pending) \cup {new}
  <2> DEFINE a == Append(pending, x)
  <2>1. /\ DOMAIN a = 1..(Len(pending) + 1) /\ a[Len(pending) + 1] = x
        /\ \A i \in 1..Len(pending) : a[i] = pending[i]
    BY <1>0
  <2> HIDE DEF a
  <2>2. ASSUME NEW i \in DOMAIN a, a[i].line # 0
        PROVE  <<a[i].line, i>> \in C(pending) \cup {new}
    <3>1. CASE i \in DOMAIN pending
      BY <1>0, <2>1, <2>2, <3>1
    <3>2. CASE i = Len(pending) + 1
      BY <1>a, <2>1, <2>2, <3>2
    <3> QED
      BY <1>0, <2>1, <3>1, <3>2
  <2> QED
    BY <2>2 DEF a
<1>2. CASE Enqueue
  <2>1. C(pending') \subseteq C(pending) \cup {new} /\ Len(pending') = Len(pending) + 1
    <3>1. pending' = Append(pending, Placeholder) /\ Placeholder.line = 0
      BY <1>2, SlotMoves DEF Placeholder
    <3> QED
      BY <1>0, <1>a, <3>1
  <2>2. Travelling' \subseteq Travelling \cup {new}
    BY <1>2, <2>1, Moves DEF Conservation
  <2> HIDE DEF C, new
  <2> QED
    BY <1>1, <2>1, <2>2 DEF new
<1>3. CASE ~Enqueue
  <2>1. Travelling' \subseteq Travelling
    BY <1>3, Moves DEF Conservation
  <2>2. CASE pending' = pending
    BY <1>1, <2>1, <2>2
  <2>3. CASE ReadMalformed \/ ReadDuplicate
    <3>1. PICK s : pending' = Append(pending, [line |-> next, status |-> s])
      BY <2>3 DEF ReadMalformed, ReadDuplicate, Answer
    <3>2. C(pending') \subseteq C(pending) \cup {new}
      BY <1>a, <3>1
    <3> HIDE DEF C, new
    <3> QED
      BY <1>1, <2>1, <3>2 DEF new
  <2>4. CASE CollectSlot
    <3> DEFINE h == Head(results)
               r == [line |-> h.line, status |-> h.status]
    <3>1. pending' = [pending EXCEPT ![h.slot] = r]
      BY <2>4 DEF CollectSlot
    <3>2. <<h.line, h.slot>> \in Travelling
      BY <2>4, Moves DEF Conservation
    <3>3. r.line = h.line
      OBVIOUS
    <3> HIDE DEF h, r
    <3>4. ASSUME NEW i \in DOMAIN pending', pending'[i].line # 0
          PROVE  <<pending'[i].line, i>> \in C(pending) \cup Travelling
      <4>1. CASE i = h.slot
        BY <3>1, <3>2, <3>3, <3>4, <4>1
      <4>2. CASE i # h.slot
        BY <3>1, <3>4, <4>2
      <4> QED
        BY <4>1, <4>2
    <3> QED
      BY <1>1, <2>1, <3>4
  <2>5. ~Flush
    BY DEF Flush
  <2> QED
    BY <1>3, <2>2, <2>3, <2>4, <2>5, SlotMoves
<1> QED
  BY <1>2, <1>3

\* Nothing but the flush writes in input order.
LEMMA WrittenInFlush ==
  ASSUME TypeOK, [Next]_vars, order = "input", ~Flush
  PROVE  UNCHANGED out /\ UNCHANGED Written
<1>1. ReadMalformed \/ ReadDuplicate => out' = out
  BY DEF ReadMalformed, ReadDuplicate, Answer
<1>2. ~WriteCompleted
  BY DEF WriteCompleted
<1>3. out' = out
  BY <1>1, <1>2 DEF Next, vars, ReadLine, MainStep, WorkerStep, ReadBlank, ReadError, Enqueue,
     EndOfInput, SendCancels, CollectSlot, CollectEnds, Join, Lock, Receive, ProcessJob, Panic, mainVars
<1> QED
  BY <1>3 DEF Written

\* The slots stay in the order of the lines.
LEMMA InOrderStep ==
  ASSUME TypeOK, TypeOK', Phase, QueueShape, Conservation, NoLookAlike, Places, InOrder,
         [Next]_vars
  PROVE  InOrder'
<1> DEFINE Early == {"read", "cancel", "collect"}
<1> SUFFICES ASSUME order' = "input"
             PROVE  /\ pc' \in Early =>
                         Written' = {} /\ \A t, u \in Claims' : t[2] < u[2] => t[1] < u[1]
                    /\ \A p, q \in DOMAIN pending' :
                         p < q /\ pending'[p].line # 0 /\ pending'[q].line # 0
                           => pending'[p].line < pending'[q].line
                    /\ \A i \in Written', j \in Slotted' : i < j
  BY DEF InOrder
<1>0. /\ order = "input" /\ (pc' \in Early => pc \in Early)
      /\ pending \in Seq(ResultRec \cup {Placeholder}) /\ next \in Nat
      /\ Len(pending) \in Nat /\ DOMAIN pending = 1..Len(pending)
  BY Stable, SlotMoves DEF TypeOK
<1>1. CASE pc \in Early
  <2>1. Written = {} /\ \A t, u \in Claims : t[2] < u[2] => t[1] < u[1]
    BY <1>0, <1>1 DEF InOrder
  <2>2. Written' = {}
    <3>1. ~Flush
      BY <1>1 DEF Flush
    <3> QED
      BY <1>0, <2>1, <3>1, WrittenInFlush
  <2>3. ASSUME NEW t \in Claims', NEW u \in Claims', t[2] < u[2] PROVE t[1] < u[1]
    <3>1. \A c \in Claims : c[1] \in Nat /\ c[1] < next /\ c[2] \in DOMAIN pending
      BY <1>0, <1>1, ClaimFacts
    <3>2. \A c \in Claims' : c \in Claims \/ (c[1] = next /\ c[2] = Len(pending) + 1)
      BY <1>0, <1>1, ClaimsStep
    <3>3. \A c \in Claims : c[2] \in Nat /\ c[2] <= Len(pending)
      BY <1>0, <3>1
    <3> QED
      BY <1>0, <2>1, <2>3, <3>1, <3>2, <3>3
  <2>4. ASSUME NEW p \in DOMAIN pending', NEW q \in DOMAIN pending',
               p < q, pending'[p].line # 0, pending'[q].line # 0
        PROVE  pending'[p].line < pending'[q].line
    <3> DEFINE t == <<pending'[p].line, p>>
               u == <<pending'[q].line, q>>
    <3>1. t \in Claims' /\ u \in Claims'
      BY <2>4 DEF Claims
    <3>2. t[2] < u[2]
      BY <2>4
    <3>3. t[1] < u[1]
      BY <2>3, <3>1, <3>2
    <3> QED
      BY <3>3
  <2> QED
    BY <2>2, <2>3, <2>4
<1>2. CASE pc \notin Early
  <2>1. /\ \A p, q \in DOMAIN pending :
             p < q /\ pending[p].line # 0 /\ pending[q].line # 0 => pending[p].line < pending[q].line
        /\ \A i \in Written, j \in Slotted : i < j
    BY <1>0 DEF InOrder
  <2>2. ~Enqueue /\ ~ReadMalformed /\ ~ReadDuplicate /\ ~CollectSlot
    BY <1>2 DEF Enqueue, ReadMalformed, ReadDuplicate, CollectSlot, Reading
  <2>3. CASE pending' = pending /\ ~(Flush /\ pending # <<>>)
    <3>1. Written' = Written
      <4>1. CASE Flush
        BY <2>3, <4>1 DEF Flush, Written
      <4>2. CASE ~Flush
        BY <1>0, <4>2, WrittenInFlush
      <4> QED
        BY <4>1, <4>2
    <3>2. Slotted' = Slotted
      BY <2>3 DEF Slotted
    <3> QED
      BY <1>0, <1>2, <2>1, <2>3, <3>1, <3>2
  <2>4. CASE Flush /\ pending # <<>>
    <3> DEFINE h == Head(pending)
    <3>1. /\ pending' = Tail(pending)
          /\ IF h = Placeholder THEN out' = out ELSE WriteThen(h.line, h.status, "flush")
      BY <2>4 DEF Flush
    <3>2. /\ 1 \in DOMAIN pending /\ h = pending[1]
          /\ \A i \in DOMAIN pending' : i + 1 \in DOMAIN pending /\ pending'[i] = pending[i + 1] /\ i \in Nat /\ i > 0
      BY <1>0, <2>4, <3>1
    <3> HIDE DEF h
    <3>3. Written' = Written \/ (h # Placeholder /\ Written' = Written \cup {h.line})
      <4>1. CASE h = Placeholder
        BY <3>1, <4>1 DEF Written
      <4>2. CASE h # Placeholder
        BY <3>1, <4>2, WriteLine DEF TypeOK
      <4> QED
        BY <4>1, <4>2
    <3>4. ASSUME NEW p \in DOMAIN pending', NEW q \in DOMAIN pending',
                 p < q, pending'[p].line # 0, pending'[q].line # 0
          PROVE  pending'[p].line < pending'[q].line
      <4>1. p + 1 < q + 1
        BY <3>2, <3>4
      <4> QED
        BY <2>1, <3>2, <3>4, <4>1
    <3>5. ASSUME NEW i \in Written', NEW j \in Slotted' PROVE i < j
      <4>1. PICK q \in DOMAIN pending' : j = pending'[q].line /\ j # 0
        BY DEF Slotted, LinesIn
      <4>2. q + 1 \in DOMAIN pending /\ j = pending[q + 1].line /\ 1 < q + 1
        BY <3>2, <4>1
      <4>3. j \in Slotted
        BY <4>1, <4>2 DEF Slotted, LinesIn
      <4>4. CASE i \in Written
        BY <2>1, <4>3, <4>4
      <4>5. CASE h # Placeholder /\ i = h.line
        <5>1. h.line # 0
          BY <3>2, <4>5 DEF Places, Asked
        <5> QED
          BY <2>1, <3>2, <4>1, <4>2, <4>5, <5>1
      <4> QED
        BY <3>3, <4>4, <4>5
    <3> QED
      BY <1>0, <1>2, <3>4, <3>5
  <2> QED
    BY <2>2, <2>3, <2>4, SlotMoves
<1> QED
  BY <1>1, <1>2

\* A panic loses a line that no other panic lost.
LEMMA LossesStep ==
  ASSUME TypeOK, TypeOK', Places, Losses, [Next]_vars
  PROVE  Losses'
<1> DEFINE Gone == {w \in Workers : worker[w].pc = "panicked"}
<1>0. IsFiniteSet(Gone) /\ Cardinality(Gone) \in Nat
  BY FS_Subset, FS_CardinalityType, StreamAssumption
<1>1. CASE lost' = lost /\ Gone' = Gone
  BY <1>1 DEF Losses
<1>2. ASSUME NEW w \in Workers, Panic(w) PROVE Losses'
  <2> DEFINE l == worker[w].msg.line
  <2>1. /\ worker[w].pc = "busy" /\ lost' = lost \cup {l}
        /\ worker' = [worker EXCEPT ![w] = [pc |-> "panicked", msg |-> Cancel]]
    BY <1>2 DEF Panic
  <2>2. l \in Handled
    BY <2>1 DEF Handled, Busy
  <2>3. l \notin lost
    BY <2>2 DEF Places, OnePlace
  <2>4. Gone' = Gone \cup {w} /\ w \notin Gone
    BY <2>1 DEF TypeOK
  <2> HIDE DEF Gone, l
  <2>5. Cardinality(Gone') = Cardinality(Gone) + 1
    BY <1>0, <2>4, FS_AddElement
  <2>6. IsFiniteSet(lost') /\ Cardinality(lost') = Cardinality(lost) + 1
    BY <2>1, <2>3, FS_AddElement DEF Losses
  <2> QED
    BY <2>5, <2>6 DEF Losses, Gone
<1>3. ASSUME NEW w \in Workers, Lock(w) \/ Receive(w) \/ ProcessJob(w)
      PROVE  lost' = lost /\ Gone' = Gone
  <2>1. /\ lost' = lost /\ worker[w].pc # "panicked"
        /\ \/ worker' = [worker EXCEPT ![w].pc = "recv"]
           \/ \E p \in {"wait", "busy", "done"} : \E m :
                worker' = [worker EXCEPT ![w] = [pc |-> p, msg |-> m]]
    BY <1>3 DEF Lock, Receive, ProcessJob
  <2>2. worker'[w].pc # "panicked" /\ \A v \in Workers : v # w => worker'[v] = worker[v]
    <3>0. worker = [v \in Workers |-> worker[v]] /\ worker[w] = [pc |-> worker[w].pc, msg |-> worker[w].msg]
      BY DEF TypeOK
    <3>1. CASE worker' = [worker EXCEPT ![w].pc = "recv"]
      BY <3>0, <3>1
    <3>2. ASSUME NEW p \in {"wait", "busy", "done"}, NEW m, worker' = [worker EXCEPT ![w] = [pc |-> p, msg |-> m]]
          PROVE  worker'[w].pc # "panicked" /\ \A v \in Workers : v # w => worker'[v] = worker[v]
      BY <3>0, <3>2
    <3> QED
      BY <2>1, <3>1, <3>2
  <2> QED
    BY <2>1, <2>2
<1>4. ReadLine \/ EndOfInput \/ MainStep \/ UNCHANGED vars => lost' = lost /\ Gone' = Gone
  BY DEF vars, ReadLine, MainStep, ReadBlank, ReadError, ReadMalformed, ReadDuplicate, Enqueue,
     EndOfInput, SendCancels, CollectSlot, CollectEnds, Flush, WriteCompleted, Join
<1> HIDE DEF Gone
<1> QED
  BY <1>1, <1>2, <1>3, <1>4 DEF Next, WorkerStep

-----------------------------------------------------------------------------
(* The threads and channels keep the promise.                              *)

\* It holds before the first line is read.
LEMMA PromisedInit == Init => Promised
<1> SUFFICES ASSUME Init PROVE Promised
  OBVIOUS
<1>1. Busy = {} /\ Handled = {}
  BY DEF Init, Busy, Handled
<1>2. /\ Queued = {} /\ Finished = {} /\ Slotted = {} /\ Written = {} /\ lost = {}
  BY DEF Init, Queued, Finished, Slotted, Written, LinesIn
<1>3. SeenExact
  BY DEF Init, SeenExact
<1>4. Singly
  BY <1>1 DEF Init, Singly, Once
<1>5. OnePlace
  BY <1>1, <1>2 DEF OnePlace
<1>6. Asked
  BY <1>1, <1>2 DEF Asked, Init
<1>7. InOrder
  <2>1. Travelling = {}
    BY <1>1 DEF Init, Travelling, InQueue, InHands, InResults
  <2>2. Claims = {}
    BY <2>1 DEF Init, Claims
  <2> QED
    BY <1>2, <2>2 DEF InOrder, Init
<1>8. Losses
  <2>1. {w \in Workers : worker[w].pc = "panicked"} = {}
    BY DEF Init
  <2> QED
    BY <1>2, <2>1, FS_EmptySet DEF Losses
<1> QED
  BY <1>3, <1>4, <1>5, <1>6, <1>7, <1>8 DEF Promised, Places

\* The abstract specification counts as this one does.
LEMMA SameCount == \A S : Abstract!Cardinality(S) = Cardinality(S)
BY DEF Abstract!Cardinality, Cardinality

\* Every thread panicked: each of them lost a line.
LEMMA PanickedMeansLost ==
  ASSUME Losses, AllPanicked
  PROVE  Cardinality(lost) = Cardinality(Workers)
<1>1. {w \in Workers : worker[w].pc = "panicked"} = Workers
  BY DEF AllPanicked
<1> QED
  BY <1>1 DEF Losses

\* Steps the caller does not see.
LEMMA Hidden ==
  ASSUME [Next]_vars, out' = out, lost' = lost, Outcome' = Outcome
  PROVE  UNCHANGED Abstract!pvars
<1>1. UNCHANGED <<lines, order>> /\ Asking' = Asking /\ Written' = Written
  BY Stable DEF Written
<1> QED
  BY <1>1 DEF Abstract!pvars, Answered

\* A result that is owed and due may be written; the writer may fail instead.
LEMMA WriteKeepsPromise ==
  ASSUME TypeOK, [Next]_vars, NEW l, NEW s, NEW then, WriteThen(l, s, then),
         pc \notin {"ok", "error"}, then \notin {"ok", "error"}, lost' = lost,
         l \in Asking, l \notin Answered, s \in Abstract!StatusOf(lines, l),
         order = "input" =>
           /\ \A i \in Written : i < l
           /\ Cardinality(lost) >= Cardinality(Workers) \/ \A j \in Asking \ Answered : l <= j
  PROVE  Abstract!PNext
<1>0. /\ UNCHANGED <<lines, order>> /\ Asking' = Asking /\ out \in Seq(ResultRec)
      /\ Outcome = "open"
  BY Stable DEF TypeOK, Outcome
<1>1. CASE /\ out' = Append(out, [line |-> l, status |-> s])
           /\ Written' = Written \cup {l}
           /\ pc' = then
  <2>1. Outcome' = "open"
    BY <1>1 DEF Outcome
  <2>2. Asking' \ Answered' = (Asking \ Answered) \ {l}
    BY <1>0, <1>1 DEF Answered
  <2>3. \A k \in DOMAIN out : out[k].line \in Written
    BY DEF Written
  <2>4. Abstract!Emit(l, s)
    BY <1>0, <1>1, <2>1, <2>2, <2>3, SameCount DEF Abstract!Emit, Abstract!AllLost
  <2>5. s \in {"malformed", "duplicate", "success", "failure"}
    BY DEF Abstract!StatusOf
  <2> QED
    BY <2>4, <2>5 DEF Abstract!PNext
<1>2. CASE WriterFails /\ out' = out /\ Written' = Written /\ pc' = "error"
  <2>1. Outcome' = "error"
    BY <1>2 DEF Outcome
  <2>2. Abstract!Abort
    BY <1>0, <1>2, <2>1 DEF Abstract!Abort, Answered
  <2> QED
    BY <2>2 DEF Abstract!PNext
<1> QED
  BY <1>0, <1>1, <1>2, WriteLine

\* The line at the front of the slots is the next one due.
LEMMA FrontIsDue ==
  ASSUME TypeOK, Conservation, NoLookAlike, Promised, pc = "flush", order = "input",
         pending # <<>>, Head(pending) # Placeholder
  PROVE  LET l == Head(pending).line
         IN  /\ l \in Asking /\ l \notin Answered
             /\ Head(pending).status \in Abstract!StatusOf(lines, l)
             /\ \A i \in Written : i < l
             /\ AllPanicked \/ \A j \in Asking \ Answered : l <= j
<1> DEFINE h == Head(pending)
<1>0. /\ 1 \in DOMAIN pending /\ h = pending[1] /\ DOMAIN pending \subseteq Nat \ {0}
  BY DEF TypeOK
<1> HIDE DEF h
<1>1. h.line # 0 /\ h.status \in Abstract!StatusOf(lines, h.line)
  BY <1>0 DEF Promised, Places, Asked, h
<1>2. h.line \in Slotted
  BY <1>0, <1>1 DEF Slotted, LinesIn
<1>3. h.line \in Asking /\ h.line \notin Answered
  BY <1>2 DEF Promised, Places, Asked, OnePlace, Answered
<1>4. \A i \in Written : i < h.line
  BY <1>2 DEF Promised, InOrder
<1>5. ASSUME ~AllPanicked, NEW j \in Asking \ Answered PROVE h.line <= j
  <2>1. j < next /\ Travelling = {}
    BY <1>5 DEF Conservation, PhaseEnds, Asking, TypeOK
  <2>2. j \in Buffered
    BY <1>5, <2>1 DEF Conservation, Located, Somewhere, Answered
  <2>3. PICK q \in DOMAIN pending : pending[q].line = j
    BY <2>2 DEF Buffered
  <2>4. j \in Nat /\ j # 0 /\ h.line \in Nat
    BY <1>3 DEF Asking, TypeOK
  <2>5. CASE q = 1
    BY <1>0, <2>3, <2>4, <2>5
  <2>6. CASE q # 1
    <3>1. 1 < q
      BY <1>0, <2>6
    <3>2. pending[1].line < pending[q].line
      BY <1>0, <1>1, <2>3, <2>4, <3>1 DEF Promised, InOrder
    <3> QED
      BY <1>0, <2>3, <2>4, <3>2
  <2> QED
    BY <2>5, <2>6
<1> QED
  BY <1>1, <1>3, <1>4, <1>5 DEF h

\* A line the main thread answers itself is owed when it is read.
LEMMA AnswerKeepsPromise ==
  ASSUME TypeOK, SeenExact, Places, [Next]_vars, ReadMalformed \/ ReadDuplicate
  PROVE  Abstract!PNext \/ UNCHANGED Abstract!pvars
<1>1. pc = "read" /\ next <= Len(lines) /\ lost' = lost
  BY DEF ReadMalformed, ReadDuplicate, Reading
<1>2. /\ next \in DOMAIN lines /\ next \in Nat /\ next # 0 /\ Current = lines[next]
  BY <1>1, LineRead
<1>3. PICK s : Answer(s) /\ s \in Abstract!StatusOf(lines, next) /\ next \in Asking
  BY AnswerIsAsked
<1>4. next \notin Answered
  BY <1>2 DEF Places, Asked, Answered
<1>5. CASE order = "input"
  <2>1. out' = out /\ pc' = pc
    BY <1>3, <1>5 DEF Answer
  <2> QED
    BY <1>1, <2>1, Hidden DEF Outcome
<1>6. CASE order # "input"
  <2>1. WriteThen(next, s, "read")
    BY <1>3, <1>6 DEF Answer
  <2> QED
    BY <1>1, <1>3, <1>4, <1>6, <2>1, WriteKeepsPromise
<1> QED
  BY <1>5, <1>6

\* Every step of the threads is a step of the promise or hidden from the caller.
LEMMA PromiseStep ==
  ASSUME TypeOK, TypeOK', Phase, QueueShape, Conservation, NoLookAlike, Promised, [Next]_vars
  PROVE  Abstract!PNext \/ UNCHANGED Abstract!pvars
<1> USE DEF Promised
<1>1. CASE ReadMalformed \/ ReadDuplicate
  BY <1>1, AnswerKeepsPromise
<1>2. CASE ReadBlank \/ Enqueue \/ EndOfInput \/ SendCancels \/ CollectSlot \/ CollectEnds
           \/ UNCHANGED vars
  <2>1. out' = out /\ lost' = lost /\ Outcome' = Outcome
    BY <1>2 DEF ReadBlank, Enqueue, EndOfInput, SendCancels, CollectSlot, CollectEnds, vars,
       Reading, Outcome
  <2> QED
    BY <2>1, Hidden
<1>3. CASE ReadError
  <2>1. /\ pc = "read" /\ pc' = "error" /\ UNCHANGED <<lines, order, out, lost>>
        /\ next \in DOMAIN lines /\ lines[next].kind = "io"
    BY <1>3, LineRead DEF ReadError, Reading
  <2>2. UNCHANGED <<Asking, Written>>
    BY <2>1, Stable DEF Written
  <2>3. Abstract!Abort
    BY <2>1, <2>2 DEF Abstract!Abort, Answered, Outcome
  <2> QED
    BY <2>3 DEF Abstract!PNext
<1>4. CASE Flush
  <2>1. pc = "flush" /\ lost' = lost
    BY <1>4 DEF Flush
  <2>2. CASE pending = <<>> \/ Head(pending) = Placeholder
    <3>1. out' = out /\ pc' \in {"flush", "join"}
      BY <1>4, <2>2 DEF Flush
    <3> QED
      BY <2>1, <3>1, Hidden DEF Outcome
  <2>3. CASE pending # <<>> /\ Head(pending) # Placeholder
    <3>1. WriteThen(Head(pending).line, Head(pending).status, "flush")
      BY <1>4, <2>3 DEF Flush
    <3>2. order = "input"
      BY <2>3 DEF Conservation, SlotsDistinct, TypeOK
    <3> QED
      BY <2>1, <2>3, <3>1, <3>2, FrontIsDue, PanickedMeansLost, WriteKeepsPromise, CancelsType
  <2> QED
    BY <2>2, <2>3
<1>5. CASE WriteCompleted
  <2> DEFINE h == Head(results)
  <2>1. /\ pc = "collect" /\ order # "input" /\ lost' = lost /\ results # <<>>
        /\ WriteThen(h.line, h.status, "collect")
    BY <1>5 DEF WriteCompleted
  <2>2. 1 \in DOMAIN results /\ h = results[1]
    BY <2>1 DEF TypeOK
  <2> HIDE DEF h
  <2>3. h.line # 0 /\ h.status \in {"success", "failure"}
    BY <2>2 DEF Places, Asked
  <2>4. h.line \in Finished
    BY <2>2, <2>3 DEF Finished, LinesIn
  <2>5. h.line \in Asking /\ h.line \notin Answered /\ h.line \in Fresh
    BY <2>4 DEF Places, Asked, OnePlace, Answered
  <2>6. h.status \in Abstract!StatusOf(lines, h.line)
    BY <2>3, <2>5, StatusFacts
  <2> QED
    BY <2>1, <2>5, <2>6, WriteKeepsPromise
<1>6. CASE Join
  <2>1. /\ pc = "join" /\ pc' = "ok" /\ UNCHANGED <<lines, order, out, lost>> /\ AllDone
    BY <1>6 DEF Join
  <2>2. UNCHANGED <<Asking, Written>>
    BY <2>1, Stable DEF Written
  <2>3. AllPanicked \/ Asking \ Answered = {}
    <3>1. ASSUME ~AllPanicked, NEW i \in Asking PROVE i \in Answered
      <4>1. i < next /\ Travelling = {} /\ pending = <<>>
        BY <2>1, <3>1 DEF Conservation, PhaseEnds, Asking, TypeOK
      <4>2. Somewhere(i)
        BY <2>1, <3>1, <4>1 DEF Conservation, Located
      <4>3. i \notin Buffered
        BY <4>1 DEF Buffered
      <4> QED
        BY <4>1, <4>2, <4>3 DEF Somewhere, Answered
    <3> QED
      BY <3>1
  <2>4. Asking \ Answered = {} \/ Cardinality(lost) >= Cardinality(Workers)
    BY <2>3, PanickedMeansLost, CancelsType
  <2>5. Abstract!Close
    BY <2>1, <2>2, <2>4, SameCount DEF Abstract!Close, Abstract!AllLost, Answered, Outcome
  <2> QED
    BY <2>5 DEF Abstract!PNext
<1>7. ASSUME NEW w \in Workers, Lock(w) \/ Receive(w) \/ ProcessJob(w)
      PROVE  UNCHANGED Abstract!pvars
  <2>1. out' = out /\ lost' = lost /\ pc' = pc
    BY <1>7 DEF Lock, Receive, ProcessJob, mainVars
  <2> QED
    BY <2>1, Hidden DEF Outcome
<1>8. ASSUME NEW w \in Workers, Panic(w) PROVE Abstract!PNext
  <2> DEFINE l == worker[w].msg.line
  <2>1. /\ worker[w].pc = "busy" /\ lost' = lost \cup {l} /\ UNCHANGED <<lines, order, out, pc>>
        /\ pc \notin {"ok", "error"}
    BY <1>8 DEF Panic, mainVars, Running
  <2>2. l \in Handled
    BY <2>1 DEF Handled, Busy
  <2>3. l \in Asking /\ l \notin Answered /\ l \in Fresh
    BY <2>2 DEF Places, Asked, OnePlace, Answered
  <2> HIDE DEF l
  <2>4. lines[l].kind = "job"
    BY <2>3 DEF Fresh
  <2>5. Asking' = Asking /\ Written' = Written
    BY <2>1, Stable DEF Written
  <2>6. Asking' \ Answered' = (Asking \ Answered) \ {l}
    BY <2>1, <2>5 DEF Answered
  <2>7. Abstract!Lose(l)
    BY <2>1, <2>3, <2>4, <2>6 DEF Abstract!Lose, Outcome
  <2> QED
    BY <2>3, <2>7 DEF Abstract!PNext
<1> QED
  BY <1>1, <1>2, <1>3, <1>4, <1>5, <1>6, <1>7, <1>8 DEF Next, ReadLine, MainStep, WorkerStep

\* What holds in every state of a run without a look-alike of the sentinel.
Kept == Phase /\ QueueShape /\ Conservation /\ Promised

\* Every step keeps all of it.
LEMMA KeptStep == TypeOK /\ TypeOK' /\ Kept /\ NoLookAlike /\ [Next]_vars => Kept'
<1> SUFFICES ASSUME TypeOK, TypeOK', Kept, NoLookAlike, [Next]_vars PROVE Kept'
  OBVIOUS
<1>1. Phase /\ QueueShape /\ Conservation /\ Promised
  BY DEF Kept
<1>2. SeenExact /\ Places /\ InOrder /\ Losses
  BY <1>1 DEF Promised
<1>3. Phase' /\ QueueShape'
  BY <1>1, QueueStep
<1>4. Conservation'
  BY <1>1, <1>3, ConservationStep
<1>5. SeenExact' /\ Places' /\ InOrder' /\ Losses'
  BY <1>1, <1>2, SeenStep, PlacesStep, InOrderStep, LossesStep
<1> QED
  BY <1>3, <1>4, <1>5 DEF Kept, Promised

\* Whatever the threads do, every line that asks for a result gets at most one, of
\* the right kind and in input order on request, a result is lost only by a panic,
\* and the run ends well only when nothing is owed: the streaming runner is an
\* implementation of the promise, for any number of lines, threads and panics.
THEOREM StreamKeepsPromise == Spec /\ NoLookAlike => Abstract!Safety
<1>1. Init => Kept
  BY QueueInit, ConservationInit, PromisedInit DEF Kept
<1>2. NoLookAlike /\ [Next]_vars => NoLookAlike'
  BY Stable
<1>3. TypeOK /\ TypeOK' /\ Kept /\ NoLookAlike /\ [Next]_vars => [Abstract!PNext]_(Abstract!pvars)
  BY PromiseStep DEF Kept
<1>4. Init => Abstract!PInit
  BY DEF Init, Abstract!PInit, Answered, Written, Outcome, Asking, Abstract!Answerable
<1> QED
  BY <1>1, <1>2, <1>3, <1>4, KeptStep, TypeCorrect, PTL DEF Spec, Abstract!Safety
=============================================================================
