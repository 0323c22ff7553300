--------------------------- MODULE ParsePipeline ---------------------------
(***************************************************************************)
(* The conversion of source code to srcML in the client: create_srcml()    *)
(* dispatches every input source to a handler, the handlers schedule parse *)
(* requests on the ParseQueue, the threads of its pool parse them          *)
(* (srcml_consume) and hand them to the WriteQueue, whose single thread    *)
(* writes them in the order they were scheduled.                           *)
(*                                                                         *)
(* Threads: main (create_srcml), the pool Workers, and the writer          *)
(* (WriteQueue::process).  Every use of the priority queue and of          *)
(* `completed` is under qmutex, so a critical section is one step; the     *)
(* steps between critical sections interleave freely.  The condition       *)
(* variable has the writer as its only waiter: a notification when it is   *)
(* not waiting is lost, and it may wake up spuriously.                     *)
(***************************************************************************)
EXTENDS Integers, Sequences

CONSTANTS Workers,          \* threads of the pool (--jobs)
          NumInputs,        \* length of input_sources
          Filelists,        \* the inputs given as filelist://
          Verbose,          \* SRCML_COMMAND_VERBOSE
          MaxRequests,      \* bound: requests scheduled in a run
          MaxErrors         \* bound: warnings logged by the main thread

ASSUME SizesAssumption ==
    /\ NumInputs \in Nat
    /\ MaxRequests \in Nat
    /\ MaxErrors \in Nat
    /\ Verbose \in BOOLEAN
    /\ Filelists \subseteq 1..NumInputs

\* `--jobs 0` would give a pool that never runs anything
ASSUME WorkersAssumption == Workers # {}

Positions == 1..MaxRequests

\* "ERROR" stands for every status without a case of its own
Statuses == {"OK", "ERROR", "UNSET_LANGUAGE"}

\* the fields of a ParseRequest that the pipeline tests
Request == [status : Statuses,
            unit : BOOLEAN,
            errormsg : {"unset", "empty", "text"}]

NewRequest == [status |-> "OK", unit |-> FALSE, errormsg |-> "unset"]

VARIABLES
    mpc,            \* where create_srcml() is
    input,          \* next input source
    status,         \* its local variable status
    alwaysArchive,  \* its local variable always_archive
    closed,         \* srcml_archive_close() was called on the output
    counter,        \* ParseQueue::counter
    request,        \* the requests, by position
    tasks,          \* the pool's FIFO of positions
    poolDone,       \* the pool was told to finish
    wkpc,           \* where each worker is
    wkreq,          \* the request each worker holds, 0 for none
    q,              \* WriteQueue::q, the positions queued
    completed,      \* WriteQueue::completed
    wpc,            \* where the writer is
    position,       \* its local variable position
    total,          \* WriteQueue::total
    output,         \* positions written, in order
    errorCount,     \* SRCMLStatus::error_count, incremented without a lock
    mtmp, wtmp,     \* the value main and writer loaded for their increment
    mret,           \* where main goes on after its increment
    logged,         \* some error or warning was logged
    proc            \* "running", "exiting" (in exit()), "dead"

mainVars == <<mpc, input, status, alwaysArchive, closed, mret>>
poolVars == <<tasks, poolDone, wkpc, wkreq>>
queueVars == <<q, completed>>
writerVars == <<wpc, position, total, output>>
errorVars == <<errorCount, mtmp, wtmp, logged>>
vars == <<mainVars, counter, request, poolVars, queueVars, writerVars,
          errorVars, proc>>

Alive == proc # "dead"

Init ==
    /\ mpc = "dispatch" /\ input = 1 /\ status = 0
    /\ alwaysArchive = FALSE /\ closed = FALSE /\ mret = "dispatch"
    /\ counter = 0
    /\ request = [p \in Positions |-> NewRequest]
    /\ tasks = << >> /\ poolDone = FALSE
    /\ wkpc = [w \in Workers |-> "idle"]
    /\ wkreq = [w \in Workers |-> 0]
    /\ q = {} /\ completed = FALSE
    /\ wpc = "top" /\ position = 0 /\ total = 0 /\ output = << >>
    /\ errorCount = 0 /\ mtmp = 0 /\ wtmp = 0 /\ logged = FALSE
    /\ proc = "running"

-----------------------------------------------------------------------------
(* WriteQueue *)

\* cv.notify_one(): the writer returns from wait() and takes the lock again
NotifyWriter == wpc' = IF wpc = "waiting" THEN "locked" ELSE wpc

\* WriteQueue::schedule
Enqueue(p) ==
    /\ q' = q \cup {p}
    /\ NotifyWriter

\* mutant: the writer goes for whatever is on top of the queue
WriterNextTakesTop ==
    /\ Alive /\ wpc = "top"
    /\ position' = IF q = {} THEN position + 1
                            ELSE CHOOSE p \in q : \A r \in q : p <= r
    /\ wpc' = "locked"
    /\ UNCHANGED <<mainVars, counter, request, poolVars, queueVars, total,
                   output, errorVars, proc>>

\* WriteQueue::process takes qmutex for the next position
WriterNext ==
    /\ Alive /\ wpc = "top"
    /\ position' = position + 1
    /\ wpc' = "locked"
    /\ UNCHANGED <<mainVars, counter, request, poolVars, queueVars, total,
                   output, errorVars, proc>>

\* the request on top of the queue is the one to write next
TopIsNext == position \in q /\ \A p \in q : position <= p

WriterWaits ==
    /\ Alive /\ wpc = "locked"
    /\ ~ TopIsNext
    /\ ~ (q = {} /\ completed)
    /\ wpc' = "waiting"
    /\ UNCHANGED <<mainVars, counter, request, poolVars, queueVars, position,
                   total, output, errorVars, proc>>

\* mutant: the writer leaves as soon as it is told to stop
WriterReturnsAtOnce ==
    /\ Alive /\ wpc = "locked" /\ completed
    /\ wpc' = "exited"
    /\ UNCHANGED <<mainVars, counter, request, poolVars, queueVars, position,
                   total, output, errorVars, proc>>

WriterReturns ==
    /\ Alive /\ wpc = "locked"
    /\ q = {} /\ completed
    /\ wpc' = "exited"
    /\ UNCHANGED <<mainVars, counter, request, poolVars, queueVars, position,
                   total, output, errorVars, proc>>

WriterPops ==
    /\ Alive /\ wpc = "locked"
    /\ TopIsNext
    /\ q' = q \ {position}
    /\ total' = IF request[position].status = "OK" THEN total + 1 ELSE total
    /\ wpc' = "writing"
    /\ UNCHANGED <<mainVars, counter, request, poolVars, completed, position,
                   output, errorVars, proc>>

SpuriousWakeup ==
    /\ Alive /\ wpc = "waiting"
    /\ wpc' = "locked"
    /\ UNCHANGED <<mainVars, counter, request, poolVars, queueVars, position,
                   total, output, errorVars, proc>>

\* srcml_write_request logs a warning for this request
Warns(r) ==
    \/ r.status = "UNSET_LANGUAGE" /\ ~ Verbose
    \/ r.status \notin {"OK", "UNSET_LANGUAGE"} /\ r.errormsg # "empty"

\* srcml_write_request of a request that needs no message
WriterWrites ==
    /\ Alive /\ wpc = "writing"
    /\ ~ Warns(request[position])
    /\ output' = Append(output, position)
    /\ wpc' = "top"
    /\ UNCHANGED <<mainVars, counter, request, poolVars, queueVars, position,
                   total, errorVars, proc>>

\* the message is logged, or a unit could not be written: ++error_count
\* begins with a load
WriterWarns ==
    /\ Alive /\ wpc = "writing"
    /\ \/ Warns(request[position])
       \/ request[position].status = "OK" /\ request[position].unit
    /\ output' = Append(output, position)
    /\ wtmp' = errorCount
    /\ logged' = TRUE
    /\ wpc' = "store"
    /\ UNCHANGED <<mainVars, counter, request, poolVars, queueVars, position,
                   total, errorCount, mtmp, proc>>

WriterStores ==
    /\ Alive /\ wpc = "store"
    /\ errorCount' = wtmp + 1
    /\ wpc' = "top"
    /\ UNCHANGED <<mainVars, counter, request, poolVars, queueVars, position,
                   total, output, mtmp, wtmp, logged, proc>>

Writer == WriterNext \/ WriterWaits \/ WriterReturns \/ WriterPops
          \/ WriterWrites \/ WriterWarns \/ WriterStores

-----------------------------------------------------------------------------
(* The pool's threads: srcml_consume *)

\* a thread takes the oldest task (ctpl)
Take(w) ==
    /\ Alive /\ wkpc[w] = "idle" /\ tasks # << >>
    /\ tasks' = Tail(tasks)
    /\ wkpc' = [wkpc EXCEPT ![w] = "busy"]
    /\ wkreq' = [wkreq EXCEPT ![w] = Head(tasks)]
    /\ UNCHANGED <<mainVars, counter, request, poolDone, queueVars,
                   writerVars, errorVars, proc>>

\* srcml_consume ends by scheduling its request with result r
Consumed(w, r, next) ==
    /\ Alive /\ wkpc[w] = "busy"
    /\ request' = [request EXCEPT ![wkreq[w]] = r]
    /\ Enqueue(wkreq[w])
    /\ wkpc' = [wkpc EXCEPT ![w] = next]
    /\ wkreq' = [wkreq EXCEPT ![w] = 0]
    /\ UNCHANGED <<mainVars, counter, tasks, poolDone, completed, position,
                   total, output, errorVars, proc>>

\* no unit, or an attribute of it could not be set: no message is attached
ConsumeUnitFails(w) ==
    Consumed(w, [status |-> "ERROR", unit |-> FALSE, errormsg |-> "unset"],
             "idle")

\* the parse fails: unreadable file, unknown language
ConsumeParseFails(w) ==
    \E s \in Statuses \ {"OK"} :
        Consumed(w, [status |-> s, unit |-> FALSE, errormsg |-> "text"],
                 "idle")

\* an unsupported encoding: schedule the request, then exit(1)
ConsumeInvalid(w) ==
    Consumed(w, [status |-> "ERROR", unit |-> FALSE, errormsg |-> "empty"],
             "exit")

\* parsed; a transformation without a result drops the unit
ConsumeParses(w) ==
    \E u \in BOOLEAN :
        Consumed(w, [status |-> "OK", unit |-> u, errormsg |-> "unset"],
                 "idle")

WorkerExits(w) ==
    /\ Alive /\ wkpc[w] = "exit"
    /\ wkpc' = [wkpc EXCEPT ![w] = "stuck"]
    /\ proc' = "exiting"
    /\ UNCHANGED <<mainVars, counter, request, tasks, poolDone, wkreq,
                   queueVars, writerVars, errorVars>>

\* a thread of a finishing pool leaves when there are no more tasks (ctpl)
WorkerLeaves(w) ==
    /\ Alive /\ wkpc[w] = "idle" /\ tasks = << >> /\ poolDone
    /\ wkpc' = [wkpc EXCEPT ![w] = "gone"]
    /\ UNCHANGED <<mainVars, counter, request, tasks, poolDone, wkreq,
                   queueVars, writerVars, errorVars, proc>>

Worker(w) ==
    Take(w) \/ ConsumeUnitFails(w) \/ ConsumeParseFails(w)
    \/ ConsumeInvalid(w) \/ ConsumeParses(w) \/ WorkerExits(w)
    \/ WorkerLeaves(w)

-----------------------------------------------------------------------------
(* The main thread: create_srcml and the handlers it dispatches to *)

InHandler == Alive /\ mpc = "dispatch" /\ input <= NumInputs

\* ParseQueue::schedule of a request to parse
Schedule ==
    /\ InHandler /\ counter < MaxRequests
    /\ counter' = counter + 1
    /\ tasks' = Append(tasks, counter + 1)
    /\ UNCHANGED <<mainVars, request, poolDone, wkpc, wkreq, queueVars,
                   writerVars, errorVars, proc>>

\* ParseQueue::schedule of a request that already failed: straight to the
\* write queue
SchedulePassthrough ==
    /\ InHandler /\ counter < MaxRequests
    /\ counter' = counter + 1
    /\ \E s \in Statuses \ {"OK"}, m \in {"unset", "text"} :
          request' = [request EXCEPT ![counter + 1] =
                        [status |-> s, unit |-> FALSE, errormsg |-> m]]
    /\ Enqueue(counter + 1)
    /\ UNCHANGED <<mainVars, poolVars, completed, position, total, output,
                   errorVars, proc>>

\* main logs a message and then goes on at next: the load of ++error_count
MainLogs(next) ==
    /\ mtmp' = errorCount
    /\ logged' = TRUE
    /\ mpc' = "store"
    /\ mret' = next
    /\ UNCHANGED <<errorCount, wtmp>>

MainStores ==
    /\ Alive /\ mpc = "store"
    /\ errorCount' = mtmp + 1
    /\ mpc' = mret
    /\ UNCHANGED <<input, status, alwaysArchive, closed, mret, counter,
                   request, poolVars, queueVars, writerVars, mtmp, wtmp,
                   logged, proc>>

\* a handler skips something with a warning
HandlerWarns ==
    /\ InHandler /\ errorCount < MaxErrors
    /\ MainLogs("dispatch")
    /\ UNCHANGED <<input, status, alwaysArchive, closed, counter, request,
                   poolVars, queueVars, writerVars, proc>>

\* a handler returns how many requests it handled, or 0
HandlerReturns ==
    /\ InHandler
    /\ input' = input + 1
    /\ alwaysArchive' = IF input \in Filelists THEN TRUE ELSE alwaysArchive
    /\ status' \in {status, 1}
    /\ UNCHANGED <<mpc, closed, mret, counter, request, poolVars, queueVars,
                   writerVars, errorVars, proc>>

\* a handler could not use its input and returns -1: it logs that as an error
\* or warning, or only as information (a filelist that is an archive)
HandlerFails ==
    /\ InHandler
    /\ input' = input + 1
    /\ alwaysArchive' = IF input \in Filelists THEN TRUE ELSE alwaysArchive
    /\ status' = -1
    /\ \/ MainLogs("wait")
       \/ mpc' = "wait" /\ UNCHANGED <<mret, errorVars>>
    /\ UNCHANGED <<closed, counter, request, poolVars, queueVars, writerVars,
                   proc>>

\* the requested unit does not exist: exit(1) in the handler
HandlerExits ==
    /\ InHandler
    /\ MainLogs("exit")
    /\ UNCHANGED <<input, status, alwaysArchive, closed, counter, request,
                   poolVars, queueVars, writerVars, proc>>

MainExits ==
    /\ Alive /\ mpc = "exit"
    /\ mpc' = "stuck"
    /\ proc' = "exiting"
    /\ UNCHANGED <<input, status, alwaysArchive, closed, mret, counter,
                   request, poolVars, queueVars, writerVars, errorVars>>

\* a step of main that touches none of the shared state
MainGoes(from, to) ==
    /\ Alive /\ mpc = from
    /\ mpc' = to
    /\ UNCHANGED <<input, alwaysArchive, mret, counter, request, wkpc, wkreq,
                   q, position, total, output, errorVars, proc>>

InputsDone ==
    /\ input > NumInputs
    /\ MainGoes("dispatch", "wait")
    /\ UNCHANGED <<status, closed, tasks, poolDone, completed, wpc>>

\* parse_queue.wait(): the pool is told to finish ...
PoolStop ==
    /\ MainGoes("wait", "join pool")
    /\ poolDone' = TRUE
    /\ UNCHANGED <<status, closed, tasks, completed, wpc>>

\* mutant: the pool is not joined
PoolNotJoined ==
    /\ MainGoes("join pool", "stop")
    /\ tasks' = << >>
    /\ UNCHANGED <<status, closed, poolDone, completed, wpc>>

\* ... and its threads are joined
PoolJoined ==
    /\ \A w \in Workers : wkpc[w] = "gone"
    /\ MainGoes("join pool", "stop")
    /\ tasks' = << >>
    /\ UNCHANGED <<status, closed, poolDone, completed, wpc>>

\* mutant: stop() does not notify
QueueStopSilently ==
    /\ MainGoes("stop", "join writer")
    /\ completed' = TRUE
    /\ UNCHANGED <<status, closed, tasks, poolDone, wpc>>

\* write_queue.stop()
QueueStop ==
    /\ MainGoes("stop", "join writer")
    /\ completed' = TRUE
    /\ NotifyWriter
    /\ UNCHANGED <<status, closed, tasks, poolDone>>

\* mutant: stop() does not join the writer
WriterNotJoined ==
    /\ MainGoes("join writer", "errors")
    /\ UNCHANGED <<status, closed, tasks, poolDone, completed, wpc>>

WriterJoined ==
    /\ wpc = "exited"
    /\ MainGoes("join writer", "errors")
    /\ UNCHANGED <<status, closed, tasks, poolDone, completed, wpc>>

CheckErrors ==
    /\ MainGoes("errors", "close")
    /\ status' = IF errorCount > 0 THEN -1 ELSE status
    /\ UNCHANGED <<closed, tasks, poolDone, completed, wpc>>

CloseArchive ==
    /\ MainGoes("close", "returned")
    /\ closed' = (status # -1 \/ alwaysArchive)
    /\ UNCHANGED <<status, tasks, poolDone, completed, wpc>>

Main ==
    \/ Schedule \/ SchedulePassthrough
    \/ HandlerWarns \/ HandlerReturns \/ HandlerFails \/ HandlerExits
    \/ MainStores \/ MainExits
    \/ InputsDone \/ PoolStop \/ PoolJoined \/ QueueStop \/ WriterJoined
    \/ CheckErrors \/ CloseArchive

\* exit() ends the process, whatever the other threads are doing
Die ==
    /\ proc = "exiting"
    /\ proc' = "dead"
    /\ UNCHANGED <<mainVars, counter, request, poolVars, queueVars,
                   writerVars, errorVars>>

Finished == mpc = "returned" \/ proc = "dead"

Terminating == Finished /\ UNCHANGED vars

Next ==
    \/ Main
    \/ \E w \in Workers : Worker(w)
    \/ Writer
    \/ SpuriousWakeup
    \/ Die
    \/ Terminating

\* every thread the program starts keeps running
Fairness ==
    /\ WF_vars(Main)
    /\ \A w \in Workers : WF_vars(Worker(w))
    /\ WF_vars(Writer)
    /\ WF_vars(Die)

Spec == Init /\ [][Next]_vars

FairSpec == Spec /\ Fairness

-----------------------------------------------------------------------------
(* Properties *)

MainTypeOK ==
    /\ mpc \in {"dispatch", "store", "exit", "stuck", "wait", "join pool",
                "stop", "join writer", "errors", "close", "returned"}
    /\ mret \in {"dispatch", "wait", "exit"}
    /\ input \in 1..(NumInputs + 1)
    /\ status \in {-1, 0, 1}
    /\ alwaysArchive \in BOOLEAN /\ closed \in BOOLEAN
    /\ proc \in {"running", "exiting", "dead"}

PoolTypeOK ==
    /\ counter \in 0..MaxRequests
    /\ tasks \in Seq(Positions)
    /\ poolDone \in BOOLEAN
    /\ wkpc \in [Workers -> {"idle", "busy", "exit", "stuck", "gone"}]
    /\ wkreq \in [Workers -> 0..MaxRequests]
    /\ \A w \in Workers : wkpc[w] = "busy" => wkreq[w] \in Positions

WriterTypeOK ==
    /\ q \in SUBSET Positions
    /\ completed \in BOOLEAN
    /\ wpc \in {"top", "locked", "waiting", "writing", "store", "exited"}
    /\ position \in Nat /\ total \in Nat
    /\ wpc = "writing" => position \in Positions
    /\ output \in Seq(Positions)

ErrorTypeOK ==
    /\ errorCount \in Nat /\ mtmp \in Nat /\ wtmp \in Nat
    /\ logged \in BOOLEAN

TypeOK ==
    /\ MainTypeOK
    /\ PoolTypeOK
    /\ WriterTypeOK
    /\ ErrorTypeOK
    /\ request \in [Positions -> Request]

\* The writer has joined main again.
AfterWriting == mpc \in {"errors", "close", "returned"}

\* Whatever the order in which the threads of the pool finish, and also when
\* the process is ending through exit(), the requests are written in the
\* order in which they were scheduled, none twice and without a gap
\* (WriteQueue::process waits for the position it expects).
WrittenInOrder == \A i \in 1..Len(output) : output[i] = i

\* When write_queue.stop() returns, every request that was scheduled, the
\* failed ones that bypass the pool included, has been written: the pool is
\* drained before `completed` is set, and the writer leaves only an empty
\* queue.
NothingLost == AfterWriting => Len(output) = counter

\* An error or a warning logged by any thread is seen when main decides
\* whether the conversion failed (and in the exit status), although error_count is incremented by two
\* threads without a lock and increments can be lost.
ErrorsNoticed ==
    mpc \in {"close", "returned"} => /\ logged => status = -1
                                     /\ errorCount > 0 <=> logged

\* The output archive is never closed while a thread could still write to
\* it, and never by a process that is in exit().
ClosedOnce ==
    closed => /\ wpc = "exited" /\ q = {}
              /\ \A w \in Workers : wkpc[w] = "gone"
              /\ proc = "running"

\* The conversion ends: main returns or the process exits, under any
\* interleaving, although notifications to a running writer are lost.
Termination == <>Finished

\* The pipeline implements the abstract ordered output.
Phase ==
    IF proc = "dead" THEN "aborted" ELSE IF AfterWriting THEN "closed" ELSE "open"

Ordered == INSTANCE OrderedOutput WITH accepted <- counter, phase <- Phase

ImplementsOrderedOutput == Ordered!Spec
=============================================================================
