------------------------ MODULE ParsePipeline_proofs ------------------------
(***************************************************************************)
(* Proofs about ParsePipeline, for every number of threads, inputs and     *)
(* requests.                                                               *)
(***************************************************************************)
EXTENDS ParsePipeline, TLAPS

-----------------------------------------------------------------------------
(* Which steps change which part of the state.                             *)

USE DEF mainVars, poolVars, queueVars, writerVars, errorVars

\* The end of srcml_consume, with any result.
SomeConsumed ==
    \E w \in Workers, r \in Request, next \in {"idle", "exit"} :
        Consumed(w, r, next)

\* The write queue and its thread.
LEMMA WriterFrame ==
    ASSUME [Next]_vars
    PROVE  \/ WriterNext \/ WriterWaits \/ WriterReturns \/ WriterPops
           \/ WriterWrites \/ WriterWarns \/ WriterStores \/ SpuriousWakeup
           \/ SomeConsumed \/ SchedulePassthrough \/ QueueStop
           \/ UNCHANGED <<queueVars, writerVars>>
<1>1. ASSUME NEW w \in Workers, Worker(w)
      PROVE  SomeConsumed \/ UNCHANGED <<queueVars, writerVars>>
  <2>1. CASE Take(w) \/ WorkerExits(w) \/ WorkerLeaves(w)
    BY <2>1 DEF Take, WorkerExits, WorkerLeaves
  <2>2. CASE ConsumeUnitFails(w)
    BY <2>2 DEF ConsumeUnitFails, SomeConsumed, Request, Statuses
  <2>3. CASE ConsumeParseFails(w)
    BY <2>3 DEF ConsumeParseFails, SomeConsumed, Request, Statuses
  <2>4. CASE ConsumeInvalid(w)
    BY <2>4 DEF ConsumeInvalid, SomeConsumed, Request, Statuses
  <2>5. CASE ConsumeParses(w)
    BY <2>5 DEF ConsumeParses, SomeConsumed, Request, Statuses
  <2> QED
    BY <1>1, <2>1, <2>2, <2>3, <2>4, <2>5 DEF Worker
<1>2. ASSUME Main
      PROVE  SchedulePassthrough \/ QueueStop
             \/ UNCHANGED <<queueVars, writerVars>>
  BY <1>2 DEF Main, Schedule, HandlerWarns, HandlerReturns, HandlerFails,
     HandlerExits, MainStores, MainExits, InputsDone, PoolStop, PoolJoined,
     WriterJoined, CheckErrors, CloseArchive, MainGoes
<1>3. ASSUME Die \/ Terminating \/ UNCHANGED vars
      PROVE  UNCHANGED <<queueVars, writerVars>>
  BY <1>3 DEF Die, Terminating, vars
<1> QED
  BY <1>1, <1>2, <1>3 DEF Next, Writer

\* The pool and the requests scheduled on it.
LEMMA PoolFrame ==
    ASSUME [Next]_vars
    PROVE  \/ \E w \in Workers : Take(w) \/ WorkerExits(w) \/ WorkerLeaves(w)
           \/ SomeConsumed \/ Schedule \/ SchedulePassthrough
           \/ PoolStop \/ PoolJoined
           \/ UNCHANGED <<counter, poolVars>>
<1>1. ASSUME NEW w \in Workers, Worker(w)
      PROVE  Take(w) \/ WorkerExits(w) \/ WorkerLeaves(w) \/ SomeConsumed
  <2>2. CASE ConsumeUnitFails(w)
    BY <2>2 DEF ConsumeUnitFails, SomeConsumed, Request, Statuses
  <2>3. CASE ConsumeParseFails(w)
    BY <2>3 DEF ConsumeParseFails, SomeConsumed, Request, Statuses
  <2>4. CASE ConsumeInvalid(w)
    BY <2>4 DEF ConsumeInvalid, SomeConsumed, Request, Statuses
  <2>5. CASE ConsumeParses(w)
    BY <2>5 DEF ConsumeParses, SomeConsumed, Request, Statuses
  <2> QED
    BY <1>1, <2>2, <2>3, <2>4, <2>5 DEF Worker
<1>2. ASSUME Main
      PROVE  Schedule \/ SchedulePassthrough \/ PoolStop \/ PoolJoined
             \/ UNCHANGED <<counter, poolVars>>
  BY <1>2 DEF Main, HandlerWarns, HandlerReturns, HandlerFails,
     HandlerExits, MainStores, MainExits, InputsDone, QueueStop,
     WriterJoined, CheckErrors, CloseArchive, MainGoes
<1>3. ASSUME Writer \/ SpuriousWakeup \/ Die \/ Terminating \/ UNCHANGED vars
      PROVE  UNCHANGED <<counter, poolVars>>
  BY <1>3 DEF Writer, WriterNext, WriterWaits, WriterReturns, WriterPops,
     WriterWrites, WriterWarns, WriterStores, SpuriousWakeup, Die,
     Terminating, vars
<1> QED
  BY <1>1, <1>2, <1>3 DEF Next

\* The main thread and the state of the process.
LEMMA MainFrame ==
    ASSUME [Next]_vars
    PROVE  \/ Main
           \/ \E w \in Workers : WorkerExits(w)
           \/ Die
           \/ UNCHANGED <<mainVars, proc>>
<1>1. ASSUME NEW w \in Workers, Worker(w)
      PROVE  WorkerExits(w) \/ UNCHANGED <<mainVars, proc>>
  BY <1>1 DEF Worker, Take, ConsumeUnitFails, ConsumeParseFails,
     ConsumeInvalid, ConsumeParses, Consumed, WorkerLeaves
<1>2. ASSUME Writer \/ SpuriousWakeup \/ Terminating \/ UNCHANGED vars
      PROVE  UNCHANGED <<mainVars, proc>>
  BY <1>2 DEF Writer, WriterNext, WriterWaits, WriterReturns, WriterPops,
     WriterWrites, WriterWarns, WriterStores, SpuriousWakeup, Terminating,
     vars
<1> QED
  BY <1>1, <1>2 DEF Next

\* The error counter.
LEMMA ErrorFrame ==
    ASSUME [Next]_vars
    PROVE  \/ WriterWarns \/ WriterStores \/ MainStores
           \/ HandlerWarns \/ HandlerFails \/ HandlerExits
           \/ UNCHANGED errorVars
<1>1. ASSUME NEW w \in Workers, Worker(w)
      PROVE  UNCHANGED errorVars
  BY <1>1 DEF Worker, Take, ConsumeUnitFails, ConsumeParseFails,
     ConsumeInvalid, ConsumeParses, Consumed, WorkerLeaves, WorkerExits
<1>2. ASSUME Main
      PROVE  \/ MainStores \/ HandlerWarns \/ HandlerFails \/ HandlerExits
             \/ UNCHANGED errorVars
  BY <1>2 DEF Main, Schedule, SchedulePassthrough, HandlerReturns, MainExits,
     InputsDone, PoolStop, PoolJoined, QueueStop, WriterJoined, CheckErrors,
     CloseArchive, MainGoes
<1>3. ASSUME Writer
      PROVE  WriterWarns \/ WriterStores \/ UNCHANGED errorVars
  BY <1>3 DEF Writer, WriterNext, WriterWaits, WriterReturns, WriterPops,
     WriterWrites
<1>4. ASSUME SpuriousWakeup \/ Die \/ Terminating \/ UNCHANGED vars
      PROVE  UNCHANGED errorVars
  BY <1>4 DEF SpuriousWakeup, Die, Terminating, vars
<1> QED
  BY <1>1, <1>2, <1>3, <1>4 DEF Next

-----------------------------------------------------------------------------
(* Type correctness, one lemma per part of the state.                      *)

LEMMA RequestType ==
    ASSUME TypeOK, [Next]_vars
    PROVE  request' \in [Positions -> Request]
<1>1. request \in [Positions -> Request]
  BY DEF TypeOK
<1>2. CASE SomeConsumed
  BY <1>1, <1>2 DEF SomeConsumed, Consumed
<1>3. CASE SchedulePassthrough
  <2>1. PICK s \in Statuses \ {"OK"}, m \in {"unset", "text"} :
          request' = [request EXCEPT ![counter + 1] =
                        [status |-> s, unit |-> FALSE, errormsg |-> m]]
    BY <1>3 DEF SchedulePassthrough
  <2>2. [status |-> s, unit |-> FALSE, errormsg |-> m] \in Request
    BY DEF Request
  <2> QED
    BY <1>1, <2>1, <2>2
<1>4. CASE UNCHANGED request
  BY <1>1, <1>4
<1>5. SomeConsumed \/ SchedulePassthrough \/ UNCHANGED request
  <2>1. ASSUME NEW w \in Workers, Worker(w)
        PROVE  SomeConsumed \/ UNCHANGED request
    BY <2>1 DEF Worker, Take, WorkerExits, WorkerLeaves, ConsumeUnitFails,
       ConsumeParseFails, ConsumeInvalid, ConsumeParses, SomeConsumed,
       Request, Statuses
  <2>2. ASSUME Main
        PROVE  SchedulePassthrough \/ UNCHANGED request
    BY <2>2 DEF Main, Schedule, HandlerWarns, HandlerReturns, HandlerFails,
       HandlerExits, MainStores, MainExits, InputsDone, PoolStop, PoolJoined,
       QueueStop, WriterJoined, CheckErrors, CloseArchive, MainGoes
  <2>3. ASSUME Writer \/ SpuriousWakeup \/ Die \/ Terminating
               \/ UNCHANGED vars
        PROVE  UNCHANGED request
    BY <2>3 DEF Writer, WriterNext, WriterWaits, WriterReturns, WriterPops,
       WriterWrites, WriterWarns, WriterStores, SpuriousWakeup, Die,
       Terminating, vars
  <2> QED
    BY <2>1, <2>2, <2>3 DEF Next
<1> QED
  BY <1>2, <1>3, <1>4, <1>5

LEMMA ErrorType ==
    ASSUME TypeOK, [Next]_vars
    PROVE  ErrorTypeOK'
<1> USE DEF ErrorTypeOK
<1>1. ErrorTypeOK
  BY DEF TypeOK
<1>2. CASE WriterWarns
  BY <1>1, <1>2 DEF WriterWarns
<1>3. CASE WriterStores
  BY <1>1, <1>3 DEF WriterStores
<1>4. CASE MainStores
  BY <1>1, <1>4 DEF MainStores
<1>5. CASE HandlerWarns \/ HandlerFails \/ HandlerExits
  BY <1>1, <1>5 DEF HandlerWarns, HandlerFails, HandlerExits, MainLogs
<1>6. CASE UNCHANGED errorVars
  BY <1>1, <1>6
<1> QED
  BY <1>2, <1>3, <1>4, <1>5, <1>6, ErrorFrame

LEMMA MainType ==
    ASSUME TypeOK, [Next]_vars
    PROVE  MainTypeOK'
<1> USE DEF MainTypeOK
<1>1. MainTypeOK
  BY DEF TypeOK
<1>2. CASE Main
  <2>1. CASE Schedule \/ SchedulePassthrough
    <3>1. UNCHANGED <<mainVars, proc>>
      BY <2>1 DEF Schedule, SchedulePassthrough
    <3> QED
      BY <1>1, <3>1
  <2>2. CASE HandlerWarns \/ HandlerExits
    BY <1>1, <2>2 DEF HandlerWarns, HandlerExits, MainLogs
  <2>3. CASE HandlerReturns \/ HandlerFails
    <3>1. mpc' \in {"dispatch", "store", "wait"}
          /\ mret' \in {"dispatch", "wait", "exit"}
      BY <1>1, <2>3 DEF HandlerReturns, HandlerFails, MainLogs, InHandler
    <3>2. input' \in 1..(NumInputs + 1)
      <4>1. input' = input + 1 /\ input <= NumInputs
        BY <2>3 DEF HandlerReturns, HandlerFails, InHandler
      <4>2. input \in 1..(NumInputs + 1)
        BY <1>1
      <4> QED
        BY <4>1, <4>2, SizesAssumption
    <3>3. status' \in {-1, 0, 1}
      BY <1>1, <2>3 DEF HandlerReturns, HandlerFails
    <3>4. alwaysArchive' \in BOOLEAN
      BY <1>1, <2>3 DEF HandlerReturns, HandlerFails
    <3>5. UNCHANGED <<closed, proc>>
      BY <2>3 DEF HandlerReturns, HandlerFails
    <3> QED
      BY <1>1, <3>1, <3>2, <3>3, <3>4, <3>5
  <2>4. CASE MainStores \/ MainExits
    BY <1>1, <2>4 DEF MainStores, MainExits
  <2>5. CASE InputsDone \/ PoolStop \/ PoolJoined \/ QueueStop \/ WriterJoined
    BY <1>1, <2>5 DEF InputsDone, PoolStop, PoolJoined, QueueStop,
       WriterJoined, MainGoes
  <2>6. CASE CheckErrors
    BY <1>1, <2>6 DEF CheckErrors, MainGoes
  <2>7. CASE CloseArchive
    BY <1>1, <2>7 DEF CloseArchive, MainGoes
  <2> QED
    BY <1>2, <2>1, <2>2, <2>3, <2>4, <2>5, <2>6, <2>7 DEF Main
<1>3. CASE \E w \in Workers : WorkerExits(w)
  BY <1>1, <1>3 DEF WorkerExits
<1>4. CASE Die
  BY <1>1, <1>4 DEF Die
<1>5. CASE UNCHANGED <<mainVars, proc>>
  BY <1>1, <1>5
<1> QED
  BY <1>2, <1>3, <1>4, <1>5, MainFrame

LEMMA PoolType ==
    ASSUME TypeOK, [Next]_vars
    PROVE  PoolTypeOK'
<1> USE DEF PoolTypeOK
<1>1. PoolTypeOK
  BY DEF TypeOK
<1>2. CASE \E w \in Workers : Take(w) \/ WorkerExits(w) \/ WorkerLeaves(w)
  <2>1. PICK w \in Workers : Take(w) \/ WorkerExits(w) \/ WorkerLeaves(w)
    BY <1>2
  <2>2. CASE Take(w)
    <3>1. Head(tasks) \in Positions /\ tasks' \in Seq(Positions)
      BY <1>1, <2>2 DEF Take
    <3> QED
      BY <1>1, <2>2, <3>1, SizesAssumption DEF Take, Positions
  <2>3. CASE WorkerExits(w) \/ WorkerLeaves(w)
    BY <1>1, <2>3 DEF WorkerExits, WorkerLeaves
  <2> QED
    BY <2>1, <2>2, <2>3
<1>3. CASE SomeConsumed
  <2>1. PICK w \in Workers, next \in {"idle", "exit"} :
          /\ wkpc' = [wkpc EXCEPT ![w] = next]
          /\ wkreq' = [wkreq EXCEPT ![w] = 0]
          /\ UNCHANGED <<counter, tasks, poolDone>>
    BY <1>3 DEF SomeConsumed, Consumed
  <2>2. wkpc' \in [Workers -> {"idle", "busy", "exit", "stuck", "gone"}]
    BY <1>1, <2>1
  <2>3. wkreq' \in [Workers -> 0..MaxRequests]
    BY <1>1, <2>1, SizesAssumption
  <2>4. \A v \in Workers : wkpc'[v] = "busy" => wkreq'[v] \in Positions
    BY <1>1, <2>1
  <2> QED
    BY <1>1, <2>1, <2>2, <2>3, <2>4
<1>4. CASE Schedule
  <2>1. counter + 1 \in Positions
    BY <1>1, <1>4, SizesAssumption DEF Schedule, Positions
  <2> QED
    BY <1>1, <1>4, <2>1, SizesAssumption DEF Schedule, Positions
<1>5. CASE SchedulePassthrough
  <2>1. counter' = counter + 1 /\ counter < MaxRequests
        /\ UNCHANGED poolVars
    BY <1>5 DEF SchedulePassthrough
  <2> QED
    BY <1>1, <2>1, SizesAssumption
<1>6. CASE PoolStop \/ PoolJoined
  <2>1. UNCHANGED <<counter, wkpc, wkreq>>
    BY <1>6 DEF PoolStop, PoolJoined, MainGoes
  <2>2. poolDone' \in BOOLEAN
    BY <1>1, <1>6 DEF PoolStop, PoolJoined
  <2>3. tasks' \in Seq(Positions)
    <3>1. CASE PoolStop
      BY <1>1, <3>1 DEF PoolStop
    <3>2. CASE PoolJoined
      <4>1. << >> \in Seq(Positions)
        OBVIOUS
      <4> QED
        BY <3>2, <4>1 DEF PoolJoined
    <3> QED
      BY <1>6, <3>1, <3>2
  <2> QED
    BY <1>1, <2>1, <2>2, <2>3
<1>7. CASE UNCHANGED <<counter, poolVars>>
  BY <1>1, <1>7
<1> QED
  BY <1>2, <1>3, <1>4, <1>5, <1>6, <1>7, PoolFrame

LEMMA WriterType ==
    ASSUME TypeOK, [Next]_vars
    PROVE  WriterTypeOK'
<1> USE DEF WriterTypeOK
<1>1. WriterTypeOK
  BY DEF TypeOK
<1>2. CASE WriterNext
  BY <1>1, <1>2 DEF WriterNext
<1>3. CASE WriterWaits \/ WriterReturns \/ SpuriousWakeup
  BY <1>1, <1>3 DEF WriterWaits, WriterReturns, SpuriousWakeup
<1>4. CASE WriterPops
  <2>1. position \in Positions
    BY <1>1, <1>4 DEF WriterPops, TopIsNext
  <2>2. total' \in Nat
    BY <1>1, <1>4 DEF WriterPops
  <2>3. q' \in SUBSET Positions
    BY <1>1, <1>4 DEF WriterPops
  <2>4. wpc' = "writing" /\ UNCHANGED <<completed, position, output>>
    BY <1>4 DEF WriterPops
  <2> QED
    BY <1>1, <2>1, <2>2, <2>3, <2>4
<1>5. CASE WriterWrites \/ WriterWarns
  <2>1. wpc = "writing" /\ output' = Append(output, position)
        /\ wpc' \in {"top", "store"}
        /\ UNCHANGED <<q, completed, position, total>>
    BY <1>5 DEF WriterWrites, WriterWarns
  <2>2. output' \in Seq(Positions)
    BY <1>1, <2>1
  <2> QED
    BY <1>1, <2>1, <2>2
<1>6. CASE WriterStores
  BY <1>1, <1>6 DEF WriterStores
<1>7. CASE SomeConsumed
  <2>1. PICK w \in Workers : wkpc[w] = "busy" /\ Enqueue(wkreq[w])
                            /\ UNCHANGED <<completed, position, total, output>>
    BY <1>7 DEF SomeConsumed, Consumed
  <2>2. wkreq[w] \in Positions
    BY <2>1 DEF TypeOK, PoolTypeOK
  <2> QED
    BY <1>1, <2>1, <2>2 DEF Enqueue, NotifyWriter
<1>8. CASE SchedulePassthrough
  <2>1. counter + 1 \in Positions
    BY <1>8, SizesAssumption DEF SchedulePassthrough, Positions, TypeOK,
       PoolTypeOK
  <2> QED
    BY <1>1, <1>8, <2>1 DEF SchedulePassthrough, Enqueue, NotifyWriter
<1>9. CASE QueueStop
  BY <1>1, <1>9 DEF QueueStop, MainGoes, NotifyWriter
<1>10. CASE UNCHANGED <<queueVars, writerVars>>
  BY <1>1, <1>10
<1> QED
  BY <1>2, <1>3, <1>4, <1>5, <1>6, <1>7, <1>8, <1>9, <1>10, WriterFrame

LEMMA InitType == Init => TypeOK
<1> SUFFICES ASSUME Init PROVE TypeOK
  OBVIOUS
<1>1. MainTypeOK
  <2>1. alwaysArchive \in BOOLEAN /\ closed \in BOOLEAN
    BY DEF Init
  <2>2. input \in 1..(NumInputs + 1) /\ status \in {-1, 0, 1}
    BY SizesAssumption DEF Init
  <2> QED
    BY <2>1, <2>2 DEF Init, MainTypeOK
<1>2. PoolTypeOK
  <2>1. poolDone \in BOOLEAN
    BY DEF Init
  <2>2. counter \in 0..MaxRequests /\ tasks \in Seq(Positions)
    BY SizesAssumption DEF Init
  <2>3. /\ wkpc \in [Workers -> {"idle", "busy", "exit", "stuck", "gone"}]
        /\ wkreq \in [Workers -> 0..MaxRequests]
        /\ \A w \in Workers : wkpc[w] = "idle"
    BY SizesAssumption DEF Init
  <2> QED
    BY <2>1, <2>2, <2>3 DEF PoolTypeOK
<1>3. WriterTypeOK
  <2>1. completed \in BOOLEAN
    BY DEF Init
  <2>2. position \in Nat /\ total \in Nat /\ output \in Seq(Positions)
    BY DEF Init
  <2>3. q \in SUBSET Positions /\ wpc = "top"
    BY DEF Init
  <2> QED
    BY <2>1, <2>2, <2>3 DEF WriterTypeOK
<1>5. ErrorTypeOK
  <2>1. logged \in BOOLEAN
    BY DEF Init
  <2>2. errorCount \in Nat /\ mtmp \in Nat /\ wtmp \in Nat
    BY DEF Init
  <2> QED
    BY <2>1, <2>2 DEF ErrorTypeOK
<1>4. request \in [Positions -> Request]
  BY DEF Init, NewRequest, Request, Statuses
<1> QED
  BY <1>1, <1>2, <1>3, <1>4, <1>5 DEF TypeOK

LEMMA TypeStep ==
    ASSUME TypeOK, [Next]_vars
    PROVE  TypeOK'
BY MainType, PoolType, WriterType, ErrorType, RequestType DEF TypeOK

-----------------------------------------------------------------------------
(* The inductive invariant.                                                *)

\* The position the writer expects follows what it has written.
OrderInv ==
    /\ WrittenInOrder
    /\ wpc \in {"top", "store"} => Len(output) = position
    /\ wpc \notin {"top", "store"} => position = Len(output) + 1

Queued(p) == \E i \in 1..Len(tasks) : tasks[i] = p

Parsing(p) == \E w \in Workers : wkpc[w] = "busy" /\ wkreq[w] = p

Writing(p) == wpc = "writing" /\ p = position

\* Every scheduled request is somewhere between the pool and the output.
Accounted ==
    \A p \in Nat : 0 < p /\ p <= counter =>
        \/ p <= Len(output) \/ p \in q \/ Writing(p) \/ Queued(p) \/ Parsing(p)

\* Only scheduled requests are.
Bounded ==
    /\ Len(output) <= counter
    /\ \A p \in q : p <= counter
    /\ \A p \in Nat : Writing(p) \/ Queued(p) \/ Parsing(p) => p <= counter

\* The pool is drained before the writer is stopped, and the writer has left
\* before main looks at the errors.
ShutdownInv ==
    /\ \A w \in Workers : wkpc[w] = "gone" => poolDone /\ tasks = << >>
    /\ poolDone => mpc \in {"join pool", "stop", "join writer"} \/ AfterWriting
    /\ mpc \in {"stop", "join writer"} \/ AfterWriting =>
          /\ \A w \in Workers : wkpc[w] = "gone"
          /\ tasks = << >>
    /\ completed => mpc = "join writer" \/ AfterWriting
    /\ wpc = "exited" => completed /\ q = {}
    /\ AfterWriting => wpc = "exited"
    /\ closed => mpc = "returned"
    /\ proc # "running" =>
          mpc = "stuck" \/ \E w \in Workers : wkpc[w] = "stuck"

\* Lost increments never take the error count back to 0.
ErrorInv ==
    /\ logged => errorCount > 0 \/ mpc = "store" \/ wpc = "store"
    /\ errorCount > 0 \/ mpc = "store" \/ wpc = "store" => logged
    /\ mpc \in {"close", "returned"} /\ errorCount > 0 => status = -1

Inv == TypeOK /\ OrderInv /\ Accounted /\ Bounded /\ ShutdownInv /\ ErrorInv

LEMMA OrderStep ==
    ASSUME TypeOK, TypeOK', OrderInv, [Next]_vars
    PROVE  OrderInv'
<1> USE DEF OrderInv, WrittenInOrder
<1>1. CASE WriterNext
  BY <1>1 DEF WriterNext, TypeOK, WriterTypeOK
<1>2. CASE WriterWaits \/ WriterReturns \/ WriterPops \/ SpuriousWakeup
  BY <1>2 DEF WriterWaits, WriterReturns, WriterPops, SpuriousWakeup
<1>3. CASE WriterWrites \/ WriterWarns
  <2>1. /\ wpc = "writing" /\ wpc' \in {"top", "store"}
        /\ output' = Append(output, position) /\ position' = position
    BY <1>3 DEF WriterWrites, WriterWarns
  <2>2. position = Len(output) + 1 /\ output \in Seq(Positions)
    BY <2>1 DEF TypeOK, WriterTypeOK
  <2>3. Len(output') = position
    BY <2>1, <2>2
  <2>4. \A i \in 1..Len(output') : output'[i] = i
    BY <2>1, <2>2
  <2> QED
    BY <2>1, <2>3, <2>4
<1>4. CASE WriterStores
  BY <1>4 DEF WriterStores
<1>5. CASE SomeConsumed
  BY <1>5 DEF SomeConsumed, Consumed, Enqueue, NotifyWriter
<1>6. CASE SchedulePassthrough
  BY <1>6 DEF SchedulePassthrough, Enqueue, NotifyWriter
<1>7. CASE QueueStop
  BY <1>7 DEF QueueStop, MainGoes, NotifyWriter
<1>8. CASE UNCHANGED <<queueVars, writerVars>>
  BY <1>8
<1> QED
  BY <1>1, <1>2, <1>3, <1>4, <1>5, <1>6, <1>7, <1>8, WriterFrame

LEMMA ErrorStep ==
    ASSUME TypeOK, ShutdownInv, ErrorInv, [Next]_vars
    PROVE  ErrorInv'
<1>1. errorCount \in Nat /\ mtmp \in Nat /\ wtmp \in Nat
  BY DEF TypeOK, ErrorTypeOK
<1>2. CASE WriterWarns
  <2>1. wpc = "writing" /\ ~ AfterWriting
    BY <1>2 DEF WriterWarns, ShutdownInv
  <2>2. wpc' = "store" /\ logged' = TRUE /\ mpc' = mpc
    BY <1>2 DEF WriterWarns
  <2> QED
    BY <2>1, <2>2 DEF ErrorInv, AfterWriting
<1>3. CASE WriterStores
  <2>1. wpc = "store" /\ ~ AfterWriting /\ logged
    BY <1>3 DEF WriterStores, ShutdownInv, ErrorInv
  <2>2. errorCount' > 0 /\ logged' = logged /\ mpc' = mpc
    BY <1>1, <1>3 DEF WriterStores
  <2> QED
    BY <2>1, <2>2 DEF ErrorInv, AfterWriting
<1>4. CASE MainStores
  <2>1. mpc = "store" /\ logged
    BY <1>4 DEF MainStores, ErrorInv
  <2>2. errorCount' > 0 /\ logged' = logged
    BY <1>1, <1>4 DEF MainStores
  <2>3. mpc' \in {"dispatch", "wait", "exit"}
    BY <1>4 DEF MainStores, TypeOK, MainTypeOK
  <2> QED
    BY <2>1, <2>2, <2>3 DEF ErrorInv
<1>5. CASE HandlerWarns \/ HandlerFails \/ HandlerExits
  <2>1. wpc' = wpc /\ errorCount' = errorCount
    BY <1>5 DEF HandlerWarns, HandlerFails, HandlerExits, MainLogs
  <2>2. \/ mpc' = "store" /\ logged' = TRUE
        \/ mpc = "dispatch" /\ mpc' = "wait" /\ logged' = logged
    BY <1>5 DEF HandlerWarns, HandlerFails, HandlerExits, MainLogs, InHandler
  <2> QED
    BY <2>1, <2>2 DEF ErrorInv
<1>6. CASE UNCHANGED errorVars
  <2>1. CASE WriterWarns \/ WriterStores \/ MainStores \/ HandlerWarns
             \/ HandlerFails \/ HandlerExits
    BY <2>1, <1>2, <1>3, <1>4, <1>5
  <2>2. CASE ~ (WriterWarns \/ WriterStores \/ MainStores \/ HandlerWarns
                \/ HandlerFails \/ HandlerExits)
    <3>1. (wpc' = "store") = (wpc = "store")
      <4>1. CASE SomeConsumed
        BY <4>1 DEF SomeConsumed, Consumed, Enqueue, NotifyWriter
      <4>2. CASE SchedulePassthrough
        BY <4>2 DEF SchedulePassthrough, Enqueue, NotifyWriter
      <4>3. CASE QueueStop
        BY <4>3 DEF QueueStop, NotifyWriter
      <4>4. CASE WriterNext \/ WriterWaits \/ WriterReturns \/ WriterPops
                 \/ WriterWrites \/ SpuriousWakeup
        BY <4>4 DEF WriterNext, WriterWaits, WriterReturns, WriterPops,
           WriterWrites, SpuriousWakeup
      <4>5. CASE UNCHANGED <<queueVars, writerVars>>
        BY <4>5
      <4> QED
        BY <2>2, <4>1, <4>2, <4>3, <4>4, <4>5, WriterFrame
    <3>2. CASE CheckErrors
      <4>1. mpc = "errors" /\ mpc' = "close" /\ wpc' = wpc
        BY <3>2 DEF CheckErrors, MainGoes
      <4>2. errorCount' > 0 => status' = -1
        BY <1>6, <3>2 DEF CheckErrors
      <4> QED
        BY <1>6, <4>1, <4>2 DEF ErrorInv
    <3>3. CASE ~ CheckErrors
      <4>1. /\ (mpc' = "store") = (mpc = "store")
            /\ mpc' \in {"close", "returned"} =>
                  mpc \in {"close", "returned"} /\ status' = status
        <5>1. CASE Main
          BY <2>2, <3>3, <5>1 DEF Main, Schedule, SchedulePassthrough,
             HandlerReturns, MainExits, InputsDone, PoolStop, PoolJoined,
             QueueStop, WriterJoined, CloseArchive, MainGoes, InHandler
        <5>2. CASE ~ Main
          <6>1. UNCHANGED mainVars
            BY <5>2, MainFrame DEF WorkerExits, Die
          <6> QED
            BY <6>1
        <5> QED
          BY <5>1, <5>2
      <4> QED
        BY <1>6, <3>1, <4>1 DEF ErrorInv
    <3> QED
      BY <3>2, <3>3
  <2> QED
    BY <2>1, <2>2
<1> QED
  BY <1>2, <1>3, <1>4, <1>5, <1>6, ErrorFrame

\* Once main waits for the writer there is no request left in the pool.
PoolDrained ==
    mpc \in {"stop", "join writer"} \/ AfterWriting =>
        /\ \A w \in Workers : wkpc[w] = "gone"
        /\ tasks = << >>

\* A thread that has left saw an empty pool.
LeftEmpty == \A w \in Workers : wkpc[w] = "gone" => poolDone /\ tasks = << >>

LEMMA PoolStep ==
    ASSUME TypeOK, ShutdownInv, [Next]_vars
    PROVE  /\ LeftEmpty'
           /\ poolDone' =>
                 mpc' \in {"join pool", "stop", "join writer"} \/ AfterWriting'
           /\ PoolDrained'
<1> USE DEF LeftEmpty, PoolDrained, AfterWriting
<1>0. /\ LeftEmpty
      /\ poolDone => mpc \in {"join pool", "stop", "join writer"} \/ AfterWriting
      /\ PoolDrained
      /\ wkpc \in [Workers -> {"idle", "busy", "exit", "stuck", "gone"}]
  BY DEF ShutdownInv, TypeOK, PoolTypeOK
<1>1. CASE Main
  <2>1. CASE Schedule
    BY <1>0, <2>1 DEF Schedule, InHandler
  <2>2. CASE SchedulePassthrough
    BY <1>0, <2>2 DEF SchedulePassthrough
  <2>3. CASE HandlerWarns \/ HandlerReturns \/ HandlerFails \/ HandlerExits
             \/ MainExits \/ InputsDone
    <3>1. mpc \in {"dispatch", "exit"}
          /\ mpc' \in {"dispatch", "store", "wait", "stuck"}
          /\ UNCHANGED <<tasks, poolDone, wkpc>>
      BY <2>3 DEF HandlerWarns, HandlerReturns, HandlerFails, HandlerExits,
         MainExits, InputsDone, InHandler, MainLogs, MainGoes
    <3> QED
      BY <1>0, <3>1
  <2>4. CASE MainStores
    <3>1. mpc = "store" /\ mpc' \in {"dispatch", "wait", "exit"}
          /\ UNCHANGED <<tasks, poolDone, wkpc>>
      BY <2>4 DEF MainStores, TypeOK, MainTypeOK
    <3> QED
      BY <1>0, <3>1
  <2>5. CASE PoolStop
    BY <1>0, <2>5 DEF PoolStop, MainGoes
  <2>6. CASE PoolJoined
    BY <1>0, <2>6 DEF PoolJoined, MainGoes
  <2>7. CASE QueueStop \/ WriterJoined \/ CheckErrors \/ CloseArchive
    <3>1. /\ mpc \in {"stop", "join writer", "errors", "close"}
          /\ mpc' \in {"join writer", "errors", "close", "returned"}
          /\ UNCHANGED <<tasks, poolDone, wkpc>>
      BY <2>7 DEF QueueStop, WriterJoined, CheckErrors, CloseArchive, MainGoes
    <3> QED
      BY <1>0, <3>1
  <2> QED
    BY <1>1, <2>1, <2>2, <2>3, <2>4, <2>5, <2>6, <2>7 DEF Main
<1>2. ASSUME NEW w \in Workers, Worker(w), mpc' = mpc
      PROVE  /\ LeftEmpty' /\ PoolDrained' /\ poolDone' = poolDone
  <2>1. wkpc[w] # "gone" /\ poolDone' = poolDone
    BY <1>2 DEF Worker, Take, WorkerExits, WorkerLeaves, ConsumeUnitFails,
       ConsumeParseFails, ConsumeInvalid, ConsumeParses, Consumed
  <2>2. ~ (mpc \in {"stop", "join writer"} \/ AfterWriting)
    BY <1>0, <2>1
  <2>3. PoolDrained'
    BY <1>2, <2>2
  <2>4. CASE Take(w)
    BY <1>0, <2>4 DEF Take
  <2>5. CASE WorkerExits(w)
    BY <1>0, <2>5 DEF WorkerExits
  <2>6. CASE WorkerLeaves(w)
    BY <1>0, <2>6 DEF WorkerLeaves
  <2>7. CASE ConsumeUnitFails(w) \/ ConsumeParseFails(w) \/ ConsumeInvalid(w)
             \/ ConsumeParses(w)
    <3>1. PICK next \in {"idle", "exit"} :
            wkpc' = [wkpc EXCEPT ![w] = next] /\ UNCHANGED <<tasks, poolDone>>
      BY <2>7 DEF ConsumeUnitFails, ConsumeParseFails, ConsumeInvalid,
         ConsumeParses, Consumed
    <3>2. \A v \in Workers : wkpc'[v] = "gone" => wkpc[v] = "gone"
      BY <1>0, <3>1
    <3>3. tasks' = tasks /\ poolDone' = poolDone
      BY <3>1
    <3>4. LeftEmpty'
      BY <1>0, <3>2, <3>3
    <3> QED
      BY <2>1, <2>3, <3>4
  <2>8. LeftEmpty'
    BY <1>2, <2>4, <2>5, <2>6, <2>7 DEF Worker
  <2> QED
    BY <2>1, <2>3, <2>8
<1>3. ASSUME NEW w \in Workers, Worker(w)
      PROVE  mpc' = mpc
  BY <1>3 DEF Worker, Take, WorkerExits, WorkerLeaves, ConsumeUnitFails,
     ConsumeParseFails, ConsumeInvalid, ConsumeParses, Consumed
<1>4. ASSUME Writer \/ SpuriousWakeup \/ Die \/ Terminating \/ UNCHANGED vars
      PROVE  UNCHANGED <<mpc, poolVars>>
  BY <1>4 DEF Writer, WriterNext, WriterWaits, WriterReturns, WriterPops,
     WriterWrites, WriterWarns, WriterStores, SpuriousWakeup, Die,
     Terminating, vars
<1>5. CASE \E w \in Workers : Worker(w)
  BY <1>0, <1>2, <1>3, <1>5
<1>6. CASE Writer \/ SpuriousWakeup \/ Die \/ Terminating \/ UNCHANGED vars
  <2>1. UNCHANGED <<mpc, tasks, poolDone, wkpc>>
    BY <1>4, <1>6
  <2>2. LeftEmpty'
    BY <1>0, <2>1
  <2>3. PoolDrained'
    BY <1>0, <2>1
  <2>4. poolDone' =>
            mpc' \in {"join pool", "stop", "join writer"} \/ AfterWriting'
    BY <1>0, <2>1
  <2> QED
    BY <2>2, <2>3, <2>4
<1> QED
  BY <1>1, <1>5, <1>6 DEF Next

LEMMA ShutdownStep ==
    ASSUME TypeOK, ShutdownInv, [Next]_vars
    PROVE  ShutdownInv'
<1>0. /\ LeftEmpty' /\ PoolDrained'
      /\ poolDone' =>
            mpc' \in {"join pool", "stop", "join writer"} \/ AfterWriting'
  BY PoolStep
\* the writer's side
<1>1. /\ completed' => mpc' = "join writer" \/ AfterWriting'
      /\ wpc' = "exited" => completed' /\ q' = {}
      /\ AfterWriting' => wpc' = "exited"
      /\ closed' => mpc' = "returned"
  <2> USE DEF AfterWriting
  <2>0. /\ completed => mpc = "join writer" \/ AfterWriting
        /\ wpc = "exited" => completed /\ q = {}
        /\ AfterWriting => wpc = "exited"
        /\ closed => mpc = "returned"
        /\ completed \in BOOLEAN
    BY DEF ShutdownInv, TypeOK, WriterTypeOK
  <2>1. CASE Main
    <3>1. CASE SchedulePassthrough
      BY <2>0, <3>1 DEF SchedulePassthrough, InHandler, Enqueue, NotifyWriter
    <3>2. CASE Schedule \/ HandlerWarns \/ HandlerReturns \/ HandlerFails
               \/ HandlerExits \/ MainStores \/ MainExits \/ InputsDone
               \/ PoolStop \/ PoolJoined
      <4>1. /\ mpc \in {"dispatch", "store", "exit", "wait", "join pool"}
            /\ ~ AfterWriting' /\ closed' = closed
            /\ UNCHANGED <<wpc, queueVars>>
        BY <3>2 DEF Schedule, HandlerWarns, HandlerReturns, HandlerFails,
           HandlerExits, MainStores, MainExits, InputsDone, PoolStop,
           PoolJoined, InHandler, MainLogs, MainGoes, TypeOK, MainTypeOK
      <4> QED
        BY <2>0, <4>1
    <3>3. CASE QueueStop
      <4>1. mpc = "stop" /\ mpc' = "join writer" /\ completed' = TRUE
            /\ UNCHANGED <<q, closed>>
        BY <3>3 DEF QueueStop, MainGoes
      <4>2. wpc' = "exited" => wpc = "exited"
        BY <3>3 DEF QueueStop, NotifyWriter
      <4>3. ~ completed /\ ~ closed
        BY <2>0, <4>1
      <4>4. wpc' # "exited" /\ ~ closed' /\ ~ AfterWriting'
        BY <2>0, <4>1, <4>2, <4>3
      <4> QED
        BY <4>1, <4>4
    <3>4. CASE WriterJoined \/ CheckErrors
      <4>1. /\ mpc \in {"join writer", "errors"} /\ mpc' \in {"errors", "close"}
            /\ UNCHANGED <<wpc, q, completed, closed>>
        BY <3>4 DEF WriterJoined, CheckErrors, MainGoes
      <4>2. wpc = "exited" /\ ~ closed
        <5>1. ~ closed
          BY <2>0, <4>1
        <5>2. wpc = "exited"
          BY <2>0, <3>4 DEF WriterJoined, CheckErrors, MainGoes
        <5> QED
          BY <5>1, <5>2
      <4>3. completed /\ q = {}
        BY <2>0, <4>2
      <4>4. AfterWriting' /\ wpc' = "exited" /\ completed' /\ q' = {}
        BY <4>1, <4>2, <4>3
      <4>5. ~ closed'
        BY <4>1, <4>2
      <4> QED
        BY <4>4, <4>5
    <3>5. CASE CloseArchive
      BY <2>0, <3>5 DEF CloseArchive, MainGoes
    <3> QED
      BY <2>1, <3>1, <3>2, <3>3, <3>4, <3>5 DEF Main
  <2>2. ASSUME NEW w \in Workers, Worker(w)
        PROVE  /\ UNCHANGED <<mpc, closed, completed>>
               /\ \/ UNCHANGED <<wpc, q>>
                  \/ ~ completed /\ wpc' # "exited"
    <3>1. UNCHANGED <<mpc, closed, completed>>
      BY <2>2 DEF Worker, Take, WorkerExits, WorkerLeaves, ConsumeUnitFails,
         ConsumeParseFails, ConsumeInvalid, ConsumeParses, Consumed
    <3>2. CASE Take(w) \/ WorkerExits(w) \/ WorkerLeaves(w)
      BY <3>1, <3>2 DEF Take, WorkerExits, WorkerLeaves
    <3>3. CASE ConsumeUnitFails(w) \/ ConsumeParseFails(w)
               \/ ConsumeInvalid(w) \/ ConsumeParses(w)
      <4>1. wkpc[w] = "busy" /\ NotifyWriter
        BY <3>3 DEF ConsumeUnitFails, ConsumeParseFails, ConsumeInvalid,
           ConsumeParses, Consumed, Enqueue
      <4>2. ~ completed
        BY <4>1 DEF ShutdownInv
      <4>3. wpc' # "exited"
        BY <2>0, <4>1, <4>2 DEF NotifyWriter
      <4> QED
        BY <3>1, <4>2, <4>3
    <3> QED
      BY <2>2, <3>2, <3>3 DEF Worker
  <2>3. CASE Writer \/ SpuriousWakeup
    <3>1. UNCHANGED <<mpc, closed, completed>>
      BY <2>3 DEF Writer, WriterNext, WriterWaits, WriterReturns, WriterPops,
         WriterWrites, WriterWarns, WriterStores, SpuriousWakeup
    <3>2. wpc # "exited"
          /\ (wpc' = "exited" => completed' /\ q' = {})
      BY <2>3 DEF Writer, WriterNext, WriterWaits, WriterReturns, WriterPops,
         WriterWrites, WriterWarns, WriterStores, SpuriousWakeup
    <3> QED
      BY <2>0, <3>1, <3>2
  <2>4. CASE Die \/ Terminating \/ UNCHANGED vars
    <3>1. UNCHANGED <<mainVars, queueVars, wpc>>
      BY <2>4 DEF Die, Terminating, vars
    <3> QED
      BY <2>0, <3>1
  <2> QED
    BY <2>0, <2>1, <2>2, <2>3, <2>4 DEF Next
\* who is in exit() stays there
<1>2. proc' # "running" =>
          mpc' = "stuck" \/ \E w \in Workers : wkpc'[w] = "stuck"
  <2>0. /\ proc # "running" =>
              mpc = "stuck" \/ \E w \in Workers : wkpc[w] = "stuck"
        /\ wkpc \in [Workers -> {"idle", "busy", "exit", "stuck", "gone"}]
    BY DEF ShutdownInv, TypeOK, PoolTypeOK
  <2>1. CASE Main
    <3>1. mpc # "stuck"
      BY <2>1 DEF Main, Schedule, SchedulePassthrough, HandlerWarns,
         HandlerReturns, HandlerFails, HandlerExits, MainStores, MainExits,
         InputsDone, PoolStop, PoolJoined, QueueStop, WriterJoined,
         CheckErrors, CloseArchive, MainGoes, InHandler
    <3>2. wkpc' = wkpc /\ (proc' = proc \/ mpc' = "stuck")
      <4>1. CASE MainExits
        BY <4>1 DEF MainExits
      <4>2. CASE ~ MainExits
        BY <2>1, <4>2 DEF Main, Schedule, SchedulePassthrough, HandlerWarns,
           HandlerReturns, HandlerFails, HandlerExits, MainStores,
           InputsDone, PoolStop, PoolJoined, QueueStop, WriterJoined,
           CheckErrors, CloseArchive, MainGoes
      <4> QED
        BY <4>1, <4>2
    <3>3. UNCHANGED proc \/ MainExits
      BY <2>1 DEF Main, Schedule, SchedulePassthrough, HandlerWarns,
         HandlerReturns, HandlerFails, HandlerExits, MainStores,
         InputsDone, PoolStop, PoolJoined, QueueStop, WriterJoined,
         CheckErrors, CloseArchive, MainGoes
    <3> QED
      BY <2>0, <3>1, <3>2
  <2>2. ASSUME NEW w \in Workers, Worker(w)
        PROVE  /\ mpc' = mpc /\ (proc' = proc \/ wkpc'[w] = "stuck")
               /\ \A v \in Workers : wkpc[v] = "stuck" => wkpc'[v] = "stuck"
    <3>1. CASE WorkerExits(w)
      BY <2>0, <3>1 DEF WorkerExits
    <3>2. CASE Take(w) \/ WorkerLeaves(w)
      BY <2>0, <3>2 DEF Take, WorkerLeaves
    <3>3. CASE ConsumeUnitFails(w) \/ ConsumeParseFails(w)
               \/ ConsumeInvalid(w) \/ ConsumeParses(w)
      <4>1. PICK next \in {"idle", "exit"} :
              wkpc[w] = "busy" /\ wkpc' = [wkpc EXCEPT ![w] = next]
              /\ UNCHANGED <<mpc, proc>>
        BY <3>3 DEF ConsumeUnitFails, ConsumeParseFails, ConsumeInvalid,
           ConsumeParses, Consumed
      <4> QED
        BY <2>0, <4>1
    <3> QED
      BY <2>2, <3>1, <3>2, <3>3 DEF Worker
  <2>3. CASE Writer \/ SpuriousWakeup \/ Terminating \/ UNCHANGED vars
    <3>1. UNCHANGED <<mpc, wkpc, proc>>
      BY <2>3 DEF Writer, WriterNext, WriterWaits, WriterReturns, WriterPops,
         WriterWrites, WriterWarns, WriterStores, SpuriousWakeup,
         Terminating, vars
    <3> QED
      BY <2>0, <3>1
  <2>4. CASE Die
    BY <2>0, <2>4 DEF Die
  <2> QED
    BY <2>0, <2>1, <2>2, <2>3, <2>4 DEF Next
<1> QED
  BY <1>0, <1>1, <1>2 DEF ShutdownInv, LeftEmpty, PoolDrained

\* The head of the tasks goes to the thread that takes it.
LEMMA TakeMoves ==
    ASSUME TypeOK, NEW w \in Workers, Take(w)
    PROVE  /\ \A p \in Nat : Queued(p)' => Queued(p)
           /\ \A p \in Nat : Parsing(p)' => Parsing(p) \/ Queued(p)
           /\ \A p \in Nat : Queued(p) => Queued(p)' \/ Parsing(p)'
           /\ \A p \in Nat : Parsing(p) => Parsing(p)'
<1> USE DEF Queued, Parsing
<1>1. /\ tasks \in Seq(Positions) /\ tasks # << >> /\ tasks' = Tail(tasks)
      /\ wkpc \in [Workers -> {"idle", "busy", "exit", "stuck", "gone"}]
      /\ wkreq \in [Workers -> 0..MaxRequests]
      /\ wkpc[w] = "idle"
      /\ wkpc' = [wkpc EXCEPT ![w] = "busy"]
      /\ wkreq' = [wkreq EXCEPT ![w] = tasks[1]]
  BY DEF Take, TypeOK, PoolTypeOK
<1>2. /\ Len(tasks) \in Nat /\ Len(tasks) > 0 /\ Len(tasks') = Len(tasks) - 1
      /\ \A i \in 1..Len(tasks') : tasks'[i] = tasks[i + 1]
  BY <1>1
<1>3. ASSUME NEW p \in Nat, Queued(p)'
      PROVE  Queued(p)
  BY <1>2, <1>3
<1>4. ASSUME NEW p \in Nat, Parsing(p)'
      PROVE  Parsing(p) \/ Queued(p)
  <2>1. PICK v \in Workers : wkpc'[v] = "busy" /\ wkreq'[v] = p
    BY <1>4
  <2>2. CASE v = w
    <3>1. p = tasks[1] /\ 1 \in 1..Len(tasks)
      BY <1>1, <1>2, <2>1, <2>2
    <3> QED
      BY <3>1
  <2>3. CASE v # w
    BY <1>1, <2>1, <2>3
  <2> QED
    BY <2>2, <2>3
<1>5. ASSUME NEW p \in Nat, Queued(p)
      PROVE  Queued(p)' \/ Parsing(p)'
  <2>1. PICK i \in 1..Len(tasks) : tasks[i] = p
    BY <1>5
  <2>2. CASE i = 1
    BY <1>1, <2>1, <2>2
  <2>3. CASE i # 1
    <3>1. i - 1 \in 1..Len(tasks') /\ tasks'[i - 1] = p
      BY <1>2, <2>1, <2>3
    <3> QED
      BY <3>1
  <2> QED
    BY <2>2, <2>3
<1>6. ASSUME NEW p \in Nat, Parsing(p)
      PROVE  Parsing(p)'
  BY <1>1, <1>6
<1> QED
  BY <1>3, <1>4, <1>5, <1>6

\* A thread hands the request it parsed to the write queue.
LEMMA ConsumedMoves ==
    ASSUME TypeOK, NEW w \in Workers, NEW r \in Request,
           NEW next \in {"idle", "exit"}, Consumed(w, r, next)
    PROVE  /\ \A p \in Nat : Queued(p)' <=> Queued(p)
           /\ \A p \in Nat : Parsing(p)' => Parsing(p)
           /\ \A p \in Nat : Parsing(p) => Parsing(p)' \/ p \in q'
           /\ \A p \in Nat : p \in q' => p \in q \/ Parsing(p)
           /\ \A p \in Nat : Writing(p)' <=> Writing(p)
           /\ q \subseteq q' /\ UNCHANGED <<counter, output>>
<1>1. /\ wkpc \in [Workers -> {"idle", "busy", "exit", "stuck", "gone"}]
      /\ wkreq \in [Workers -> 0..MaxRequests]
      /\ wkpc[w] = "busy"
      /\ wkpc' = [wkpc EXCEPT ![w] = next]
      /\ wkreq' = [wkreq EXCEPT ![w] = 0]
      /\ q' = q \cup {wkreq[w]}
      /\ UNCHANGED <<counter, output, tasks>>
  BY DEF Consumed, Enqueue, TypeOK, PoolTypeOK
<1>2. \A p \in Nat : Writing(p)' <=> Writing(p)
  <2>1. position' = position /\ (wpc' = "writing" <=> wpc = "writing")
    BY DEF Consumed, Enqueue, NotifyWriter
  <2> QED
    BY <2>1 DEF Writing
<1>3. \A p \in Nat : Queued(p)' <=> Queued(p)
  BY <1>1 DEF Queued
<1>4. \A p \in Nat : Parsing(p)' => Parsing(p)
  BY <1>1 DEF Parsing
<1>5. ASSUME NEW p \in Nat, Parsing(p)
      PROVE  Parsing(p)' \/ p \in q'
  <2>1. PICK v \in Workers : wkpc[v] = "busy" /\ wkreq[v] = p
    BY <1>5 DEF Parsing
  <2>2. CASE v = w
    BY <1>1, <2>1, <2>2
  <2>3. CASE v # w
    BY <1>1, <2>1, <2>3 DEF Parsing
  <2> QED
    BY <2>2, <2>3
<1>6. \A p \in Nat : p \in q' => p \in q \/ Parsing(p)
  BY <1>1 DEF Parsing
<1> QED
  BY <1>1, <1>2, <1>3, <1>4, <1>5, <1>6

\* The writer neither loses nor invents a request.
LEMMA WriterMoves ==
    ASSUME TypeOK, OrderInv, Writer \/ SpuriousWakeup
    PROVE  /\ \A p \in Nat : 0 < p /\ (p <= Len(output) \/ p \in q \/ Writing(p)) =>
                  (p <= Len(output) \/ p \in q \/ Writing(p))'
           /\ \A p \in Nat : Writing(p)' => Writing(p) \/ p \in q
           /\ q' \subseteq q
           /\ Len(output') <= Len(output) \/ Writing(Len(output'))
<1>0. /\ output \in Seq(Positions) /\ Len(output) \in Nat
      /\ wpc \notin {"top", "store"} => position = Len(output) + 1
  BY DEF TypeOK, WriterTypeOK, OrderInv
<1> USE DEF Writing
<1>1. CASE WriterNext \/ WriterWaits \/ WriterReturns \/ WriterStores
           \/ SpuriousWakeup
  <2>1. wpc # "writing" /\ wpc' # "writing" /\ UNCHANGED <<q, output>>
    BY <1>1 DEF WriterNext, WriterWaits, WriterReturns, WriterStores,
       SpuriousWakeup
  <2> QED
    BY <1>0, <2>1
<1>2. CASE WriterPops
  <2>1. wpc # "writing" /\ position \in q /\ q' = q \ {position}
        /\ wpc' = "writing" /\ UNCHANGED <<position, output>>
    BY <1>2 DEF WriterPops, TopIsNext
  <2> QED
    BY <1>0, <2>1
<1>3. CASE WriterWrites \/ WriterWarns
  <2>1. wpc = "writing" /\ wpc' # "writing" /\ q' = q
        /\ output' = Append(output, position)
    BY <1>3 DEF WriterWrites, WriterWarns
  <2>2. position = Len(output) + 1 /\ position \in Positions
    BY <1>0, <2>1 DEF TypeOK, WriterTypeOK
  <2>3. Len(output') = position
    BY <1>0, <2>1, <2>2
  <2> QED
    BY <1>0, <2>1, <2>2, <2>3
<1> QED
  BY <1>1, <1>2, <1>3 DEF Writer

\* What the two invariants say of one request.
Somewhere(p) ==
    p <= Len(output) \/ p \in q \/ Writing(p) \/ Queued(p) \/ Parsing(p)

Upstream(p) == p \in q \/ Writing(p) \/ Queued(p) \/ Parsing(p)

LEMMA AccountedStep ==
    ASSUME TypeOK, TypeOK', OrderInv, Accounted, Bounded, ShutdownInv,
           [Next]_vars
    PROVE  Accounted' /\ Bounded'
<1>0. /\ counter \in Nat /\ Len(output) \in Nat /\ Len(output) <= counter
      /\ q \subseteq Nat
      /\ \A p \in Nat : 0 < p /\ p <= counter => Somewhere(p)
      /\ \A p \in Nat : Upstream(p) => p <= counter
  BY SizesAssumption DEF TypeOK, PoolTypeOK, WriterTypeOK, Positions,
     Accounted, Bounded, Somewhere, Upstream
<1>1. /\ counter' \in Nat /\ Len(output') \in Nat /\ q' \subseteq Nat
  BY SizesAssumption DEF TypeOK, PoolTypeOK, WriterTypeOK, Positions
<1>2. SUFFICES /\ \A p \in Nat : 0 < p /\ p <= counter' => Somewhere(p)'
               /\ Len(output') <= counter'
               /\ \A p \in Nat : Upstream(p)' => p <= counter'
  BY <1>1 DEF Accounted, Bounded, Somewhere, Upstream
<1>3. CASE Writer \/ SpuriousWakeup
  <2>1. UNCHANGED <<counter, poolVars>>
    BY <1>3 DEF Writer, WriterNext, WriterWaits, WriterReturns, WriterPops,
       WriterWrites, WriterWarns, WriterStores, SpuriousWakeup
  <2>2. \A p \in Nat : (Queued(p)' <=> Queued(p)) /\ (Parsing(p)' <=> Parsing(p))
    BY <2>1 DEF Queued, Parsing
  <2>3. ASSUME NEW p \in Nat, 0 < p, p <= counter'
        PROVE  Somewhere(p)'
    BY <1>0, <1>3, <2>1, <2>2, <2>3, WriterMoves DEF Somewhere
  <2>4. \A p \in Nat : Upstream(p)' => Upstream(p)
    BY <1>0, <1>1, <1>3, <2>2, WriterMoves DEF Upstream
  <2>5. Len(output') <= counter'
    BY <1>0, <1>1, <1>3, <2>1, WriterMoves DEF Upstream
  <2> QED
    BY <1>0, <2>1, <2>3, <2>4, <2>5
<1>4. ASSUME NEW w \in Workers, Take(w)
      PROVE  /\ \A p \in Nat : Somewhere(p) => Somewhere(p)'
             /\ \A p \in Nat : Upstream(p)' => Upstream(p)
             /\ UNCHANGED <<counter, output>>
  <2>1. UNCHANGED <<counter, output, q>>
        /\ \A p \in Nat : Writing(p)' <=> Writing(p)
    BY <1>4 DEF Take, Writing
  <2> QED
    BY <1>4, <2>1, TakeMoves DEF Somewhere, Upstream
<1>5. ASSUME SomeConsumed
      PROVE  /\ \A p \in Nat : Somewhere(p) => Somewhere(p)'
             /\ \A p \in Nat : Upstream(p)' => Upstream(p)
             /\ UNCHANGED <<counter, output>>
  <2>1. PICK w \in Workers, r \in Request, next \in {"idle", "exit"} :
          Consumed(w, r, next)
    BY <1>5 DEF SomeConsumed
  <2> QED
    BY <2>1, ConsumedMoves DEF Somewhere, Upstream
<1>6. CASE Schedule
  <2>1. /\ counter' = counter + 1 /\ tasks' = Append(tasks, counter + 1)
        /\ UNCHANGED <<wkpc, wkreq, q, wpc, position, output>>
        /\ tasks \in Seq(Positions)
    BY <1>6 DEF Schedule, TypeOK, PoolTypeOK
  <2>2. /\ \A p \in Nat : Writing(p)' <=> Writing(p)
        /\ \A p \in Nat : Parsing(p)' <=> Parsing(p)
    BY <2>1 DEF Writing, Parsing
  <2>3. \A p \in Nat : Queued(p)' <=> Queued(p) \/ p = counter + 1
    <3>1. Len(tasks') = Len(tasks) + 1 /\ Len(tasks) \in Nat
          /\ tasks'[Len(tasks) + 1] = counter + 1
          /\ \A i \in 1..Len(tasks) : tasks'[i] = tasks[i]
      BY <2>1
    <3>2. 1..Len(tasks') = 1..Len(tasks) \cup {Len(tasks) + 1}
      BY <3>1
    <3> QED
      BY <3>1, <3>2 DEF Queued
  <2>4. ASSUME NEW p \in Nat, 0 < p, p <= counter'
        PROVE  Somewhere(p)'
    <3>1. p <= counter \/ p = counter + 1
      BY <1>0, <2>1, <2>4
    <3> QED
      BY <1>0, <2>1, <2>2, <2>3, <2>4, <3>1 DEF Somewhere
  <2>5. ASSUME NEW p \in Nat, Upstream(p)'
        PROVE  p <= counter'
    <3>1. Upstream(p) \/ p = counter + 1
      BY <2>1, <2>2, <2>3, <2>5 DEF Upstream
    <3> QED
      BY <1>0, <2>1, <3>1
  <2> QED
    BY <1>0, <2>1, <2>4, <2>5
<1>7. CASE SchedulePassthrough
  <2>1. /\ counter' = counter + 1 /\ q' = q \cup {counter + 1}
        /\ UNCHANGED <<tasks, wkpc, wkreq, position, output>>
        /\ (wpc' = "writing" <=> wpc = "writing")
    BY <1>7 DEF SchedulePassthrough, Enqueue, NotifyWriter
  <2>2. /\ \A p \in Nat : Writing(p)' <=> Writing(p)
        /\ \A p \in Nat : Parsing(p)' <=> Parsing(p)
        /\ \A p \in Nat : Queued(p)' <=> Queued(p)
    BY <2>1 DEF Writing, Parsing, Queued
  <2>3. ASSUME NEW p \in Nat, 0 < p, p <= counter'
        PROVE  Somewhere(p)'
    <3>1. p <= counter \/ p = counter + 1
      BY <1>0, <2>1, <2>3
    <3> QED
      BY <1>0, <2>1, <2>2, <2>3, <3>1 DEF Somewhere
  <2>4. ASSUME NEW p \in Nat, Upstream(p)'
        PROVE  p <= counter'
    <3>1. Upstream(p) \/ p = counter + 1
      BY <2>1, <2>2, <2>4 DEF Upstream
    <3> QED
      BY <1>0, <2>1, <3>1
  <2> QED
    BY <1>0, <2>1, <2>3, <2>4
<1>8. CASE /\ \A p \in Nat : Somewhere(p) => Somewhere(p)'
           /\ \A p \in Nat : Upstream(p)' => Upstream(p)
           /\ UNCHANGED <<counter, output>>
  BY <1>0, <1>8
<1>9. ASSUME \/ \E w \in Workers : WorkerExits(w) \/ WorkerLeaves(w)
             \/ PoolStop \/ PoolJoined
             \/ UNCHANGED <<counter, poolVars>> /\ QueueStop
             \/ UNCHANGED <<counter, poolVars>>
                /\ UNCHANGED <<queueVars, writerVars>>
      PROVE  /\ \A p \in Nat : Somewhere(p) => Somewhere(p)'
             /\ \A p \in Nat : Upstream(p)' => Upstream(p)
             /\ UNCHANGED <<counter, output>>
  <2>1. /\ tasks' = tasks
        /\ UNCHANGED <<counter, q, output, position>>
        /\ (wpc' = "writing" <=> wpc = "writing")
        /\ \A w \in Workers : wkpc'[w] = "busy" <=> wkpc[w] = "busy"
        /\ wkreq' = wkreq
    <3>1. CASE \E w \in Workers : WorkerExits(w) \/ WorkerLeaves(w)
      BY <3>1 DEF WorkerExits, WorkerLeaves, TypeOK, PoolTypeOK
    <3>2. CASE PoolStop
      BY <3>2 DEF PoolStop, MainGoes
    <3>3. CASE PoolJoined
      <4>1. tasks = << >>
        BY <3>3, WorkersAssumption DEF PoolJoined, ShutdownInv
      <4> QED
        BY <3>3, <4>1 DEF PoolJoined, MainGoes
    <3>4. CASE UNCHANGED <<counter, poolVars>> /\ QueueStop
      BY <3>4 DEF QueueStop, MainGoes, NotifyWriter
    <3>5. CASE UNCHANGED <<counter, poolVars>>
               /\ UNCHANGED <<queueVars, writerVars>>
      BY <3>5
    <3> QED
      BY <1>9, <3>1, <3>2, <3>3, <3>4, <3>5
  <2>2. /\ \A p \in Nat : Writing(p)' <=> Writing(p)
        /\ \A p \in Nat : Parsing(p)' <=> Parsing(p)
        /\ \A p \in Nat : Queued(p)' <=> Queued(p)
    BY <2>1 DEF Writing, Parsing, Queued
  <2> QED
    BY <2>1, <2>2 DEF Somewhere, Upstream
<1>10. QueueStop => UNCHANGED <<counter, poolVars>>
  BY DEF QueueStop, MainGoes
<1>11. \/ Writer \/ SpuriousWakeup
       \/ \E w \in Workers : Take(w) \/ WorkerExits(w) \/ WorkerLeaves(w)
       \/ SomeConsumed \/ Schedule \/ SchedulePassthrough \/ QueueStop
       \/ PoolStop \/ PoolJoined
       \/ UNCHANGED <<counter, poolVars>> /\ UNCHANGED <<queueVars, writerVars>>
  <2>1. CASE UNCHANGED <<queueVars, writerVars>>
    BY <2>1, PoolFrame
  <2>2. CASE ~ UNCHANGED <<queueVars, writerVars>>
    BY <2>2, WriterFrame DEF Writer
  <2> QED
    BY <2>1, <2>2
<1> QED
  BY <1>3, <1>4, <1>5, <1>6, <1>7, <1>8, <1>9, <1>10, <1>11

LEMMA InvInit == Init => Inv
<1> SUFFICES ASSUME Init PROVE Inv
  OBVIOUS
<1>1. TypeOK
  BY InitType
<1>2. Len(output) = 0 /\ counter = 0 /\ Len(tasks) = 0
  BY DEF Init
<1>3. OrderInv
  BY <1>2 DEF Init, OrderInv, WrittenInOrder
<1>4. \A p \in Nat : ~ Writing(p) /\ ~ Queued(p) /\ ~ Parsing(p)
  <2>1. \A p \in Nat : ~ Writing(p)
    BY DEF Init, Writing
  <2>2. \A p \in Nat : ~ Queued(p)
    BY <1>2 DEF Queued
  <2>3. \A p \in Nat : ~ Parsing(p)
    BY DEF Init, Parsing
  <2> QED
    BY <2>1, <2>2, <2>3
<1>5. Accounted
  BY <1>2 DEF Accounted
<1>6. Bounded
  BY <1>2, <1>4 DEF Bounded, Init
<1>7. ShutdownInv
  <2>1. /\ ~ poolDone /\ ~ completed /\ ~ closed
        /\ mpc = "dispatch" /\ wpc = "top" /\ proc = "running"
        /\ \A w \in Workers : wkpc[w] = "idle"
    BY DEF Init
  <2> QED
    BY <2>1 DEF ShutdownInv, AfterWriting
<1>8. ErrorInv
  BY DEF Init, ErrorInv
<1> QED
  BY <1>1, <1>3, <1>5, <1>6, <1>7, <1>8 DEF Inv

LEMMA InvStep == Inv /\ [Next]_vars => Inv'
<1> SUFFICES ASSUME Inv, [Next]_vars PROVE Inv'
  OBVIOUS
<1>1. TypeOK /\ OrderInv /\ Accounted /\ Bounded /\ ShutdownInv /\ ErrorInv
  BY DEF Inv
<1>2. TypeOK'
  BY <1>1, TypeStep
<1>3. OrderInv'
  BY <1>1, <1>2, OrderStep
<1>4. Accounted' /\ Bounded'
  BY <1>1, <1>2, AccountedStep
<1>5. ShutdownInv'
  BY <1>1, ShutdownStep
<1>6. ErrorInv'
  BY <1>1, ErrorStep
<1> QED
  BY <1>2, <1>3, <1>4, <1>5, <1>6 DEF Inv

LEMMA Invariance == Spec => []Inv
BY InvInit, InvStep, PTL DEF Spec

-----------------------------------------------------------------------------
(* What follows.                                                           *)

\* The type invariant holds for any pool, any list of inputs and any number
\* of requests.
THEOREM TypeCorrect == Spec => []TypeOK
<1>1. Inv => TypeOK
  BY DEF Inv
<1> QED
  BY <1>1, Invariance, PTL

\* Requests are written in the order in which they were scheduled.
THEOREM Order == Spec => []WrittenInOrder
<1>1. Inv => WrittenInOrder
  BY DEF Inv, OrderInv
<1> QED
  BY <1>1, Invariance, PTL

\* An empty queue, an empty pool and a writer that has left hold no request.
LEMMA WriterDone ==
    ASSUME Inv, wpc = "exited"
    PROVE  Len(output) = counter
<1>1. /\ completed /\ q = {} /\ tasks = << >>
      /\ \A w \in Workers : wkpc[w] = "gone"
  BY DEF Inv, ShutdownInv
<1>2. /\ counter \in Nat /\ Len(output) \in Nat /\ Len(output) <= counter
  BY DEF Inv, TypeOK, PoolTypeOK, WriterTypeOK, Bounded
<1>3. \A p \in Nat : ~ Writing(p) /\ ~ Queued(p) /\ ~ Parsing(p)
  BY <1>1 DEF Writing, Queued, Parsing
<1>4. counter # 0 => counter <= Len(output)
  BY <1>1, <1>2, <1>3 DEF Inv, Accounted
<1> QED
  BY <1>2, <1>4

\* Every scheduled request has been written when the writer was joined.
THEOREM Complete == Spec => []NothingLost
<1>1. Inv => NothingLost
  BY WriterDone DEF Inv, ShutdownInv, NothingLost
<1> QED
  BY <1>1, Invariance, PTL

\* No logged error is missed, although increments are.
THEOREM Noticed == Spec => []ErrorsNoticed
<1>1. ASSUME Inv
      PROVE  ErrorsNoticed
  <2>1. SUFFICES ASSUME mpc \in {"close", "returned"}
                 PROVE  (logged => status = -1) /\ (errorCount > 0 <=> logged)
    BY DEF ErrorsNoticed
  <2>2. mpc # "store" /\ wpc # "store"
    BY <1>1, <2>1 DEF Inv, ShutdownInv, AfterWriting
  <2> QED
    BY <1>1, <2>1, <2>2 DEF Inv, ErrorInv
<1> QED
  BY <1>1, Invariance, PTL

\* The archive is closed only by a main thread that is alone.
THEOREM Closed == Spec => []ClosedOnce
<1>1. ASSUME Inv
      PROVE  ClosedOnce
  <2>1. SUFFICES ASSUME closed
                 PROVE  /\ wpc = "exited" /\ q = {}
                        /\ \A w \in Workers : wkpc[w] = "gone"
                        /\ proc = "running"
    BY DEF ClosedOnce
  <2>2. mpc = "returned" /\ wpc = "exited" /\ q = {}
        /\ \A w \in Workers : wkpc[w] = "gone"
    BY <1>1, <2>1 DEF Inv, ShutdownInv, AfterWriting
  <2>3. proc = "running"
    BY <1>1, <2>2 DEF Inv, ShutdownInv
  <2> QED
    BY <2>2, <2>3
<1> QED
  BY <1>1, Invariance, PTL

-----------------------------------------------------------------------------
(* The refinement of OrderedOutput.                                        *)

\* Main is past writing only in a process that is not exiting.
LEMMA AfterAlive ==
    ASSUME Inv, AfterWriting
    PROVE  proc = "running" /\ wpc = "exited" /\ Len(output) = counter
<1>1. wpc = "exited" /\ \A w \in Workers : wkpc[w] = "gone"
  BY DEF Inv, ShutdownInv
<1>2. proc = "running"
  BY <1>1 DEF Inv, ShutdownInv, AfterWriting
<1> QED
  BY <1>1, <1>2, WriterDone

\* What the refinement needs to know of a step.
Unobserved ==
    /\ UNCHANGED <<counter, output, proc>>
    /\ AfterWriting' <=> AfterWriting

LEMMA Observed ==
    ASSUME Inv, [Next]_vars
    PROVE  \/ Schedule \/ SchedulePassthrough
           \/ WriterWrites \/ WriterWarns
           \/ WriterJoined \/ MainExits \/ Die
           \/ \E w \in Workers : WorkerExits(w)
           \/ Unobserved
<1> USE DEF Unobserved, AfterWriting
<1>1. ASSUME NEW w \in Workers, Worker(w), ~ WorkerExits(w)
      PROVE  Unobserved
  BY <1>1 DEF Worker, Take, WorkerLeaves, ConsumeUnitFails,
     ConsumeParseFails, ConsumeInvalid, ConsumeParses, Consumed
<1>2. ASSUME Writer, ~ WriterWrites, ~ WriterWarns
      PROVE  Unobserved
  BY <1>2 DEF Writer, WriterNext, WriterWaits, WriterReturns, WriterPops,
     WriterStores
<1>3. ASSUME Main, ~ Schedule, ~ SchedulePassthrough, ~ WriterJoined, ~ MainExits
      PROVE  Unobserved
  <2>1. UNCHANGED <<counter, output, proc>>
    BY <1>3 DEF Main, HandlerWarns, HandlerReturns, HandlerFails,
       HandlerExits, MainStores, InputsDone, PoolStop, PoolJoined, QueueStop,
       CheckErrors, CloseArchive, MainGoes
  <2>2. CASE MainStores
    BY <2>1, <2>2 DEF MainStores, Inv, TypeOK, MainTypeOK
  <2>3. CASE HandlerWarns \/ HandlerReturns \/ HandlerFails \/ HandlerExits
    <3>1. mpc = "dispatch" /\ mpc' \in {"store", "wait", "dispatch"}
      BY <2>3 DEF HandlerWarns, HandlerReturns, HandlerFails, HandlerExits,
         InHandler, MainLogs
    <3> QED
      BY <2>1, <3>1
  <2>4. CASE InputsDone \/ PoolStop \/ PoolJoined \/ QueueStop
    <3>1. /\ mpc \in {"dispatch", "wait", "join pool", "stop"}
          /\ mpc' \in {"wait", "join pool", "stop", "join writer"}
      BY <2>4 DEF InputsDone, PoolStop, PoolJoined, QueueStop, MainGoes
    <3> QED
      BY <2>1, <3>1
  <2>5. CASE CheckErrors \/ CloseArchive
    <3>1. mpc \in {"errors", "close"} /\ mpc' \in {"close", "returned"}
      BY <2>5 DEF CheckErrors, CloseArchive, MainGoes
    <3> QED
      BY <2>1, <3>1
  <2> QED
    BY <1>3, <2>2, <2>3, <2>4, <2>5 DEF Main
<1>4. ASSUME SpuriousWakeup \/ Terminating \/ UNCHANGED vars
      PROVE  Unobserved
  BY <1>4 DEF SpuriousWakeup, Terminating, vars
<1> QED
  BY <1>1, <1>2, <1>3, <1>4 DEF Next

\* The pipeline, with its threads, its queue and its ways to fail, implements
\* the ordered output.
THEOREM Refinement == Spec => ImplementsOrderedOutput
<1>1. Init => Ordered!Init
  BY DEF Init, Ordered!Init, Phase, AfterWriting
<1>2. ASSUME Inv, [Next]_vars
      PROVE  [Ordered!Next]_(Ordered!vars)
  <2>0. /\ counter \in Nat /\ Len(output) \in Nat
        /\ Phase = "open" <=> proc # "dead" /\ ~ AfterWriting
        /\ AfterWriting => proc = "running"
    BY <1>2, AfterAlive, SizesAssumption
       DEF Inv, TypeOK, PoolTypeOK, WriterTypeOK, Phase
  <2>1. CASE Schedule \/ SchedulePassthrough
    <3>1. /\ proc # "dead" /\ mpc = "dispatch" /\ counter < MaxRequests
          /\ counter' = counter + 1 /\ UNCHANGED <<output, mpc, proc>>
      BY <2>1 DEF Schedule, SchedulePassthrough, InHandler, Alive
    <3>2. Phase = "open" /\ Phase' = Phase
      BY <3>1 DEF Phase, AfterWriting
    <3> QED
      BY <3>1, <3>2 DEF Ordered!Next, Ordered!Accept
  <2>2. CASE WriterWrites \/ WriterWarns
    <3>1. /\ proc # "dead" /\ wpc = "writing"
          /\ output' = Append(output, position)
          /\ UNCHANGED <<counter, mpc, proc>>
      BY <2>2 DEF WriterWrites, WriterWarns, Alive
    <3>2. ~ AfterWriting
      BY <1>2, <3>1, AfterAlive
    <3>3. position = Len(output) + 1 /\ position <= counter
      <4>1. position \in Nat /\ Writing(position)
        BY <1>2, <3>1 DEF Writing, Inv, TypeOK, WriterTypeOK
      <4> QED
        BY <1>2, <3>1, <4>1 DEF Inv, OrderInv, Bounded
    <3>4. Phase = "open" /\ Phase' = Phase
      BY <3>1, <3>2 DEF Phase, AfterWriting
    <3>5. Len(output) < counter /\ output' = Append(output, Len(output) + 1)
      BY <2>0, <3>1, <3>3
    <3> QED
      BY <3>1, <3>4, <3>5 DEF Ordered!Next, Ordered!Write
  <2>3. CASE WriterJoined
    <3>1. /\ wpc = "exited" /\ mpc = "join writer" /\ mpc' = "errors"
          /\ proc # "dead" /\ UNCHANGED <<counter, output, proc>>
      BY <2>3 DEF WriterJoined, MainGoes, Alive
    <3>2. Len(output) = counter
      BY <1>2, <3>1, WriterDone
    <3>3. Phase = "open" /\ Phase' = "closed"
      BY <3>1 DEF Phase, AfterWriting
    <3> QED
      BY <3>1, <3>2, <3>3 DEF Ordered!Next, Ordered!Close
  <2>4. CASE MainExits \/ \E w \in Workers : WorkerExits(w)
    <3>1. /\ proc # "dead" /\ proc' = "exiting" /\ UNCHANGED <<counter, output>>
          /\ (mpc' = mpc \/ (mpc = "exit" /\ mpc' = "stuck"))
      <4>1. CASE MainExits
        BY <4>1 DEF MainExits, Alive
      <4>2. CASE \E w \in Workers : WorkerExits(w)
        <5>1. PICK w \in Workers : WorkerExits(w)
          BY <4>2
        <5>2. UNCHANGED <<mpc, counter, output>>
          BY <5>1 DEF WorkerExits
        <5>3. proc # "dead" /\ proc' = "exiting"
          BY <5>1 DEF WorkerExits, Alive
        <5> QED
          BY <5>2, <5>3
      <4> QED
        BY <2>4, <4>1, <4>2
    <3>2. Phase' = Phase
      BY <3>1 DEF Phase, AfterWriting
    <3> QED
      BY <3>1, <3>2 DEF Ordered!vars
  <2>5. CASE Die
    <3>1. /\ proc = "exiting" /\ proc' = "dead"
          /\ UNCHANGED <<counter, output, mpc>>
      BY <2>5 DEF Die
    <3>2. Phase = "open" /\ Phase' = "aborted"
      BY <2>0, <3>1 DEF Phase
    <3> QED
      BY <3>1, <3>2 DEF Ordered!Next, Ordered!Abort
  <2>6. CASE Unobserved
    <3>1. UNCHANGED <<counter, output>> /\ Phase' = Phase
      BY <2>6 DEF Unobserved, Phase
    <3> QED
      BY <3>1 DEF Ordered!vars
  <2> QED
    BY <1>2, <2>1, <2>2, <2>3, <2>4, <2>5, <2>6, Observed
<1> QED
  BY <1>1, <1>2, Invariance, PTL DEF Spec, ImplementsOrderedOutput, Ordered!Spec
=============================================================================
