------------------------- MODULE ArchiveConversion -------------------------
(***************************************************************************)
(* Converting srcML archives in the client: the archives that are read and *)
(* the per-unit archives that are written share the permits of one         *)
(* OpenFileLimiter.                                                        *)
(*                                                                         *)
(* main opens the input archives one after the other (srcml_input_srcml)   *)
(* and schedules a request for every unit it reads.  An input archive is   *)
(* owned by main while it reads it and by every request read from it, and  *)
(* is closed, and its permit returned, when the last owner lets go of it.  *)
(* A request is shared in turn: the pool's task keeps it until the task    *)
(* ends, after it was handed to the write queue, and the write queue and   *)
(* the writer until it is written, so that main, the writer or a thread of *)
(* the pool may be the one that closes the archive.  With an output        *)
(* directory (SRCML_COMMAND_NOARCHIVE) the writer takes a permit of its    *)
(* own for the archive of each unit it writes.  The order of parsing and   *)
(* writing is ParsePipeline's; here a parse is one step.                   *)
(***************************************************************************)
EXTENDS Integers, Sequences, FiniteSets

CONSTANTS CommandLines,     \* what srcml may be asked to convert: records of
                            \* inputs, a sequence of "source" and "srcml"
                            \* (input_sources), and noArchive
          MaxThreads,       \* max_threads, the threads of the pool
          MaxOpenFiles,     \* OpenFileLimiter::MAX_OPEN_FILES
          MaxUnits          \* bound: units in one srcML archive

ASSUME CommandLinesAssumption ==
    CommandLines \subseteq [inputs : Seq({"source", "srcml"}),
                            noArchive : BOOLEAN]

ASSUME LimitsAssumption ==
    /\ MaxThreads \in Nat \ {0}
    /\ MaxOpenFiles \in Nat
    /\ MaxUnits \in Nat \ {0}

VARIABLES
    asked,          \* the command line
    mpc,            \* where main is
    input,          \* the input source main is at
    units,          \* units main has read from it
    owner,          \* the requests: the archive each one owns, 0 for none
    hasUnit,        \* whether each request still has its unit
    parsed,         \* the requests handed to the write queue
    ended,          \* the requests whose task in the pool has ended
    wpc,            \* where the writer is
    written,        \* number of requests written
    openFiles,      \* OpenFileLimiter::open_files
    waiting         \* the threads waiting on OpenFileLimiter::cv

vars == <<asked, mpc, input, units, owner, hasUnit, parsed, ended, wpc,
          written, openFiles, waiting>>
mainVars == <<mpc, input, units>>
requestVars == <<owner, hasUnit>>
poolVars == <<parsed, ended>>

Threads == {"main", "writer"}
Inputs == asked.inputs
NoArchive == asked.noArchive      \* SRCML_COMMAND_NOARCHIVE
Archives == {i \in 1..Len(Inputs) : Inputs[i] = "srcml"}

Init ==
    /\ asked \in CommandLines
    /\ mpc = "input" /\ input = 1 /\ units = 0
    /\ owner = << >> /\ hasUnit = << >>
    /\ parsed = {} /\ ended = {}
    /\ wpc = "top" /\ written = 0
    /\ openFiles = 0 /\ waiting = {}

-----------------------------------------------------------------------------
(* OpenFileLimiter *)

\* mutant: a limit that is one too low
CanOpenBelow == openFiles < MaxOpenFiles

CanOpen == ~ (openFiles > MaxOpenFiles)

\* open(), with a permit
Open(t) ==
    /\ t \notin waiting /\ CanOpen
    /\ openFiles' = openFiles + 1
    /\ UNCHANGED waiting

\* open(), without: wait
Block(t) ==
    /\ t \notin waiting /\ ~ CanOpen
    /\ waiting' = waiting \cup {t}
    /\ UNCHANGED openFiles

\* mutant: close() does not notify
CloseSilently == openFiles' = openFiles - 1 /\ UNCHANGED waiting

\* close(): notify_one() wakes one of the threads that wait, if any
Close ==
    /\ openFiles' = openFiles - 1
    /\ IF waiting = {} THEN UNCHANGED waiting
       ELSE \E t \in waiting : waiting' = waiting \ {t}

SpuriousWakeup ==
    /\ \E t \in waiting : waiting' = waiting \ {t}
    /\ UNCHANGED <<asked, mainVars, requestVars, poolVars, wpc, written, openFiles>>

-----------------------------------------------------------------------------
(* Ownership of the input archives *)

\* the requests that exist: the write queue, the writer or a task has them
Live == {p \in 1..Len(owner) : p > written \/ p \notin ended}

\* mutant: the archive is closed by the first owner that lets go
NoneOwns(a, requests) == TRUE

\* no request of the set owns archive a
NobodyOwns(a, requests) == \A p \in requests : owner[p] # a

\* the last owner of an archive closes it (srcml_archive_deleter)
LetGo(a, last) ==
    IF a # 0 /\ last THEN Close ELSE UNCHANGED <<openFiles, waiting>>

\* a thread drops its reference to request p: the last one destroys the request,
\* and with it the request's share of its archive
Drop(p, last) ==
    LetGo(owner[p], /\ last
                    /\ NobodyOwns(owner[p], Live \ {p})
                    /\ ~ (mpc = "reading" /\ input = owner[p]))

-----------------------------------------------------------------------------
(* main: create_srcml and srcml_input_srcml *)

Alive == mpc # "exit"

\* ParseQueue::schedule
ScheduleFor(a) ==
    /\ owner' = Append(owner, a)
    /\ hasUnit' = Append(hasUnit, TRUE)

InputSource ==
    /\ mpc = "input" /\ input <= Len(Inputs)
    /\ Inputs[input] = "source"
    /\ ScheduleFor(0)
    /\ input' = input + 1
    /\ UNCHANGED <<mpc, units, poolVars, wpc, written, openFiles, waiting>>

InputArchive ==
    /\ mpc = "input" /\ input <= Len(Inputs)
    /\ Inputs[input] = "srcml"
    /\ mpc' = "opening"
    /\ UNCHANGED <<input, units, requestVars, poolVars, wpc, written,
                   openFiles, waiting>>

MainOpens ==
    /\ mpc = "opening" /\ Open("main")
    /\ mpc' = "reading" /\ units' = 0
    /\ UNCHANGED <<input, requestVars, poolVars, wpc, written>>

MainBlocks ==
    /\ mpc = "opening" /\ Block("main")
    /\ UNCHANGED <<mainVars, requestVars, poolVars, wpc, written>>

\* mutant: the archive that was not opened keeps its permit
ReadOpenLeaks ==
    /\ mpc = "reading" /\ units = 0
    /\ mpc' = "joinPool"
    /\ UNCHANGED <<input, units, requestVars, poolVars, wpc, written,
                   openFiles, waiting>>

\* it is not a srcML archive: return -1
ReadOpenFails ==
    /\ mpc = "reading" /\ units = 0
    /\ Close
    /\ mpc' = "joinPool"
    /\ UNCHANGED <<input, units, requestVars, poolVars, wpc, written>>

ReadUnit ==
    /\ mpc = "reading" /\ units < MaxUnits
    /\ ScheduleFor(input)
    /\ units' = units + 1
    /\ UNCHANGED <<mpc, input, poolVars, wpc, written, openFiles, waiting>>

\* no more units, or no more are asked for: main lets go of the archive
ReadDone ==
    /\ mpc = "reading" /\ units > 0
    /\ LetGo(input, NobodyOwns(input, Live))
    /\ mpc' = "input" /\ input' = input + 1
    /\ UNCHANGED <<units, requestVars, poolVars, wpc, written>>

\* there is no unit, or not the one asked for: exit(1)
ReadExits ==
    /\ mpc = "reading" /\ units = 0
    /\ mpc' = "exit"
    /\ UNCHANGED <<input, units, requestVars, poolVars, wpc, written,
                   openFiles, waiting>>

InputsDone ==
    /\ mpc = "input" /\ input > Len(Inputs)
    /\ mpc' = "joinPool"
    /\ UNCHANGED <<input, units, requestVars, poolVars, wpc, written,
                   openFiles, waiting>>

\* parse_queue.wait(): the threads of the pool have ended, and their tasks
PoolJoined ==
    /\ mpc = "joinPool" /\ ended = 1..Len(owner)
    /\ mpc' = "joinWriter"
    /\ UNCHANGED <<input, units, requestVars, poolVars, wpc, written,
                   openFiles, waiting>>

\* write_queue.stop()
WriterJoined ==
    /\ mpc = "joinWriter" /\ wpc = "exited"
    /\ mpc' = "returned"
    /\ UNCHANGED <<input, units, requestVars, poolVars, wpc, written,
                   openFiles, waiting>>

Main ==
    /\ \/ InputSource \/ InputArchive \/ MainOpens \/ MainBlocks
       \/ ReadOpenFails \/ ReadUnit \/ ReadDone \/ ReadExits
       \/ InputsDone \/ PoolJoined \/ WriterJoined
    /\ UNCHANGED asked

-----------------------------------------------------------------------------
(* the pool: srcml_consume, in any order; a parse that fails drops the unit *)

Parse ==
    /\ Alive
    /\ Cardinality(parsed \ ended) < MaxThreads
    /\ \E p \in 1..Len(owner) \ parsed :
         /\ parsed' = parsed \cup {p}
         /\ hasUnit' \in {hasUnit, [hasUnit EXCEPT ![p] = FALSE]}
    /\ UNCHANGED <<asked, mainVars, owner, ended, wpc, written, openFiles,
                   waiting>>

\* WriteQueue::schedule returns and the task is destroyed, with the references
\* they have to the request: the writer may have written it before
TaskEnds ==
    /\ Alive
    /\ \E p \in parsed \ ended :
         /\ ended' = ended \cup {p}
         /\ Drop(p, p <= written)
    /\ UNCHANGED <<asked, mainVars, requestVars, parsed, wpc, written>>

-----------------------------------------------------------------------------
(* the writer: WriteQueue::process and srcml_write_request *)

Next1 == written + 1

\* a unit for the archive of the output, or no unit
WritesShared ==
    /\ Alive /\ wpc = "top" /\ Next1 \in parsed
    /\ ~ (hasUnit[Next1] /\ NoArchive)
    /\ wpc' = "destroy"
    /\ UNCHANGED <<mainVars, requestVars, poolVars, written, openFiles, waiting>>

\* a unit for an archive of its own
WritesOwn ==
    /\ Alive /\ wpc = "top" /\ Next1 \in parsed
    /\ hasUnit[Next1] /\ NoArchive /\ owner[Next1] = 0
    /\ wpc' = "opening"
    /\ UNCHANGED <<mainVars, requestVars, poolVars, written, openFiles, waiting>>

\* a unit read from an archive: srcml_input_srcml gives its request no
\* filename, and *prequest->filename is undefined: the process crashes, or
\* goes on with whatever is there
WritesUnnamed ==
    /\ Alive /\ wpc = "top" /\ Next1 \in parsed
    /\ hasUnit[Next1] /\ NoArchive /\ owner[Next1] # 0
    /\ \/ wpc' = "opening" /\ UNCHANGED mpc
       \/ mpc' = "exit" /\ UNCHANGED wpc
    /\ UNCHANGED <<input, units, requestVars, poolVars, written, openFiles,
                   waiting>>

WriterOpens ==
    /\ Alive /\ wpc = "opening" /\ Open("writer")
    /\ wpc' = "cloned"
    /\ UNCHANGED <<mainVars, requestVars, poolVars, written>>

WriterBlocks ==
    /\ Alive /\ wpc = "opening" /\ Block("writer")
    /\ UNCHANGED <<mainVars, requestVars, poolVars, wpc, written>>

\* the clone goes out of scope
ClosesClone ==
    /\ Alive /\ wpc = "cloned"
    /\ Close
    /\ wpc' = "destroy"
    /\ UNCHANGED <<mainVars, requestVars, poolVars, written>>

\* the request goes out of scope in the writer, its task may still have it
DestroysRequest ==
    /\ Alive /\ wpc = "destroy"
    /\ Drop(Next1, Next1 \in ended)
    /\ written' = Next1
    /\ wpc' = "top"
    /\ UNCHANGED <<mainVars, requestVars, poolVars>>

WriterReturns ==
    /\ Alive /\ wpc = "top"
    /\ mpc = "joinWriter" /\ written = Len(owner)
    /\ wpc' = "exited"
    /\ UNCHANGED <<mainVars, requestVars, poolVars, written, openFiles, waiting>>

Writer ==
    /\ \/ WritesShared \/ WritesOwn \/ WritesUnnamed \/ WriterOpens
       \/ WriterBlocks \/ ClosesClone \/ DestroysRequest \/ WriterReturns
    /\ UNCHANGED asked

Finished == mpc \in {"returned", "exit"}

Terminating == Finished /\ UNCHANGED vars

Next ==
    \/ Main \/ Parse \/ TaskEnds \/ Writer
    \/ Alive /\ SpuriousWakeup
    \/ Terminating

\* the threads keep running
Fairness ==
    WF_vars(Main) /\ WF_vars(Parse) /\ WF_vars(TaskEnds) /\ WF_vars(Writer)

Spec == Init /\ [][Next]_vars

FairSpec == Spec /\ Fairness

-----------------------------------------------------------------------------
(* Properties *)

\* The input archives that are open: main reads it or a request owns it.
OpenArchives ==
    {a \in Archives : \/ mpc = "reading" /\ input = a
                      \/ \E p \in Live : owner[p] = a}

\* how many archives are open, read or written
Opened == Cardinality(OpenArchives) + (IF wpc = "cloned" THEN 1 ELSE 0)

\* open_files counts exactly the archives that are open: every permit is taken
\* once and returned once, whichever of main, the writer and the threads of the
\* pool drops the last reference, and none is left when the conversion returns.
\* open() lets one more file be open than its constant says, and never more,
\* although two threads open files and all of them close some.
CountExact ==
    Alive => /\ openFiles = Opened
             /\ Opened <= MaxOpenFiles + 1

\* A thread that waits while a permit is free will be overtaken by another
\* that was woken: a notification is never lost.
NoLostWakeup ==
    waiting # {} /\ CanOpen =>
        \/ mpc = "opening" /\ "main" \notin waiting
        \/ wpc = "opening" /\ "writer" \notin waiting

\* an output directory, and archives enough to hold every permit while the writer
\* needs one
TakesAllPermits == NoArchive /\ Cardinality(Archives) > MaxOpenFiles

\* The writing queue finishes, and with it the conversion (or the process
\* exits), whichever threads wait for permits and return them; except where main
\* may take every permit before the writer gets the one it writes the first unit
\* with (FirstWritten says what happens then).
Termination == TakesAllPermits \/ <>Finished

\* The first request is written, or the process exits.
FirstWritten == <>(written > 0 \/ Finished)
=============================================================================
