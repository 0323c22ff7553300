---------------------- MODULE ArchiveConversion_proofs ----------------------
(***************************************************************************)
(* The permits of the OpenFileLimiter, for every command line, limit and   *)
(* number of units: open_files counts exactly the archives that are open,  *)
(* one more than the limit is the most there ever are, and no thread is    *)
(* left waiting for a permit that nobody takes.                            *)
(***************************************************************************)
EXTENDS ArchiveConversion, FiniteSetTheorems, TLAPS

-----------------------------------------------------------------------------
(* The inductive invariant *)

\* a request keeps its archive, and whether it has its unit
RequestsOK ==
    /\ owner \in Seq(Nat)
    /\ hasUnit \in Seq(BOOLEAN) /\ Len(hasUnit) = Len(owner)
    /\ parsed \subseteq 1..Len(owner)
    /\ ended \subseteq parsed

\* where every variable stays
TypeOK ==
    /\ RequestsOK
    /\ asked \in CommandLines
    /\ mpc \in {"input", "opening", "reading", "joinPool", "joinWriter",
                "returned", "exit"}
    /\ input \in Nat \ {0}
    /\ units \in Nat
    /\ wpc \in {"top", "opening", "cloned", "destroy", "exited"}
    /\ written \in Nat
    /\ openFiles \in Int
    /\ waiting \subseteq Threads

\* main is at an archive when it opens and reads one, and the writer has a
\* request that was parsed until it has destroyed it
AtWork ==
    /\ Alive /\ mpc \in {"opening", "reading"} => input \in Archives
    /\ wpc \in {"opening", "cloned", "destroy"} => Next1 \in parsed

\* no request owns an archive that main has not read a unit from
OwnedWhenRead ==
    Alive => \A p \in 1..Len(owner) :
                /\ owner[p] \in Archives \cup {0}
                /\ \/ owner[p] < input
                   \/ owner[p] = input /\ mpc = "reading" /\ units > 0

\* thread t is in open(), waiting or not
Opening(t) == IF t = "main" THEN mpc = "opening" ELSE wpc = "opening"

\* a thread that waits is in open(), and the one permit there may be is for the
\* other thread, which is awake and about to take it
WaitsForPermit ==
    /\ Alive => \A t \in waiting : Opening(t)
    /\ waiting # {} /\ CanOpen =>
          /\ openFiles = MaxOpenFiles
          /\ \E t \in Threads \ waiting : Opening(t)

\* the counter is the number of the archives that are open, within the limit
Counts ==
    /\ Alive => openFiles = Opened
    /\ openFiles <= MaxOpenFiles + 1

Inv == TypeOK /\ AtWork /\ OwnedWhenRead /\ WaitsForPermit /\ Counts

-----------------------------------------------------------------------------
(* Facts about the operators *)

LEMMA ArchivesFinite ==
    ASSUME TypeOK
    PROVE  /\ Archives \subseteq Nat \ {0}
           /\ IsFiniteSet(Archives)
           /\ Inputs \in Seq({"source", "srcml"})
  <1>1. Inputs \in Seq({"source", "srcml"})
    BY CommandLinesAssumption DEF TypeOK, Inputs
  <1>2. Len(Inputs) \in Nat
    BY <1>1
  <1>3. Archives \subseteq 1..Len(Inputs)
    BY DEF Archives
  <1>4. IsFiniteSet(1..Len(Inputs))
    BY <1>2, FS_Interval
  <1>5. IsFiniteSet(Archives)
    BY <1>3, <1>4, FS_Subset
  <1> QED BY <1>1, <1>2, <1>3, <1>5

LEMMA OpenFinite ==
    ASSUME TypeOK
    PROVE  IsFiniteSet(OpenArchives) /\ Cardinality(OpenArchives) \in Nat
  <1>1. OpenArchives \subseteq Archives
    BY DEF OpenArchives
  <1>2. IsFiniteSet(OpenArchives)
    BY <1>1, ArchivesFinite, FS_Subset
  <1> QED BY <1>2, FS_CardinalityType

LEMMA Appended ==
    ASSUME NEW S, NEW s \in Seq(S), NEW e \in S
    PROVE  /\ Append(s, e) \in Seq(S) /\ Len(Append(s, e)) = Len(s) + 1
           /\ \A p \in 1..Len(s) : Append(s, e)[p] = s[p]
           /\ Append(s, e)[Len(s) + 1] = e
  OBVIOUS

LEMMA ExceptSeq ==
    ASSUME NEW S, NEW s \in Seq(S), NEW i \in 1..Len(s), NEW e \in S
    PROVE  /\ [s EXCEPT ![i] = e] \in Seq(S)
           /\ Len([s EXCEPT ![i] = e]) = Len(s)
  OBVIOUS

\* scheduling a request adds it to the requests that exist
LEMMA Scheduled ==
    ASSUME TypeOK, NEW a \in Nat, ScheduleFor(a)
    PROVE  /\ owner' \in Seq(Nat) /\ Len(owner') = Len(owner) + 1
           /\ \A p \in 1..Len(owner) : owner'[p] = owner[p]
           /\ owner'[Len(owner) + 1] = a
           /\ hasUnit' \in Seq(BOOLEAN) /\ Len(hasUnit') = Len(owner')
  <1>1. owner \in Seq(Nat) /\ hasUnit \in Seq(BOOLEAN) /\ TRUE \in BOOLEAN
        /\ Len(hasUnit) = Len(owner)
    BY DEF TypeOK, RequestsOK
  <1> QED BY <1>1, Appended DEF ScheduleFor

\* the limiter counts with integers and only threads wait
LEMMA LimiterTypes ==
    ASSUME TypeOK,
           \/ Close
           \/ \E t \in Threads : Open(t) \/ Block(t)
           \/ \E a, last : LetGo(a, last)
           \/ \E p, last : Drop(p, last)
    PROVE  openFiles' \in Int /\ waiting' \subseteq Threads
  <1>1. openFiles \in Int /\ waiting \subseteq Threads
    BY DEF TypeOK
  <1>2. \/ Close \/ UNCHANGED <<openFiles, waiting>>
        \/ \E t \in Threads : Open(t) \/ Block(t)
    BY Zenon DEF LetGo, Drop
  <1> QED BY <1>1, <1>2 DEF Close, Open, Block

-----------------------------------------------------------------------------
(* The type invariant *)

LEMMA InitType == Init => TypeOK
  BY DEF Init, TypeOK, RequestsOK

LEMMA RequestsKept ==
    ASSUME RequestsOK, UNCHANGED <<owner, hasUnit, parsed, ended>>
    PROVE  RequestsOK'
  BY DEF RequestsOK

LEMMA RequestsGrow ==
    ASSUME TypeOK, NEW a \in Nat, ScheduleFor(a), UNCHANGED <<parsed, ended>>
    PROVE  RequestsOK'
  <1>1. Len(owner) \in Nat /\ parsed \subseteq 1..Len(owner)
        /\ ended \subseteq parsed
    BY DEF TypeOK, RequestsOK
  <1>2. 1..Len(owner) \subseteq 1..(Len(owner) + 1)
    BY <1>1
  <1> QED BY <1>1, <1>2, Scheduled DEF RequestsOK

LEMMA RequestParsed ==
    ASSUME TypeOK, Parse
    PROVE  RequestsOK'
  <1>1. PICK p \in 1..Len(owner) \ parsed :
           /\ parsed' = parsed \cup {p}
           /\ hasUnit' \in {hasUnit, [hasUnit EXCEPT ![p] = FALSE]}
    BY DEF Parse
  <1>2. RequestsOK
    BY DEF TypeOK
  <1>3. /\ [hasUnit EXCEPT ![p] = FALSE] \in Seq(BOOLEAN)
        /\ Len([hasUnit EXCEPT ![p] = FALSE]) = Len(owner)
    BY <1>2, FALSE \in BOOLEAN, ExceptSeq DEF RequestsOK
  <1>4. hasUnit' \in Seq(BOOLEAN) /\ Len(hasUnit') = Len(owner)
    BY <1>1, <1>2, <1>3 DEF RequestsOK
  <1> QED BY <1>1, <1>2, <1>4 DEF Parse, RequestsOK

LEMMA NextType ==
    ASSUME TypeOK, [Next]_vars
    PROVE  TypeOK'
  <1> USE DEF mainVars, requestVars, poolVars
  <1>1. CASE InputSource /\ UNCHANGED asked
    <2>1. RequestsOK'
      BY <1>1, RequestsGrow, 0 \in Nat DEF InputSource
    <2> QED BY <1>1, <2>1 DEF InputSource, TypeOK
  <1>2. CASE (InputArchive \/ ReadExits \/ InputsDone) /\ UNCHANGED asked
    BY <1>2, RequestsKept DEF InputArchive, ReadExits, InputsDone, TypeOK
  <1>3. CASE (MainOpens \/ MainBlocks) /\ UNCHANGED asked
    <2>1. openFiles' \in Int /\ waiting' \subseteq Threads
      BY <1>3, LimiterTypes DEF MainOpens, MainBlocks, Threads
    <2>2. /\ mpc' = mpc \/ mpc' = "reading"
          /\ units' = units \/ units' = 0
          /\ UNCHANGED <<asked, input, owner, hasUnit, parsed, ended, wpc, written>>
      BY <1>3 DEF MainOpens, MainBlocks
    <2> QED BY <2>1, <2>2, RequestsKept DEF TypeOK
  <1>4. CASE ReadOpenFails /\ UNCHANGED asked
    <2>1. openFiles' \in Int /\ waiting' \subseteq Threads
      BY <1>4, LimiterTypes DEF ReadOpenFails
    <2> QED BY <1>4, <2>1, RequestsKept DEF ReadOpenFails, TypeOK
  <1>5. CASE ReadUnit /\ UNCHANGED asked
    <2>1. RequestsOK'
      BY <1>5, RequestsGrow DEF ReadUnit, TypeOK
    <2> QED BY <1>5, <2>1 DEF ReadUnit, TypeOK
  <1>6. CASE ReadDone /\ UNCHANGED asked
    <2>1. openFiles' \in Int /\ waiting' \subseteq Threads
      BY <1>6, LimiterTypes DEF ReadDone
    <2> QED BY <1>6, <2>1, RequestsKept DEF ReadDone, TypeOK
  <1>7. CASE (PoolJoined \/ WriterJoined) /\ UNCHANGED asked
    BY <1>7, RequestsKept DEF PoolJoined, WriterJoined, TypeOK
  <1>8. CASE Parse
    BY <1>8, RequestParsed DEF Parse, TypeOK
  <1>9. CASE (WritesShared \/ WritesOwn \/ WritesUnnamed \/ WriterReturns)
             /\ UNCHANGED asked
    BY <1>9, RequestsKept
       DEF WritesShared, WritesOwn, WritesUnnamed, WriterReturns, TypeOK
  <1>10. CASE (WriterOpens \/ WriterBlocks) /\ UNCHANGED asked
    <2>1. openFiles' \in Int /\ waiting' \subseteq Threads
      BY <1>10, LimiterTypes DEF WriterOpens, WriterBlocks, Threads
    <2> QED BY <1>10, <2>1, RequestsKept DEF WriterOpens, WriterBlocks, TypeOK
  <1>11. CASE ClosesClone /\ UNCHANGED asked
    <2>1. openFiles' \in Int /\ waiting' \subseteq Threads
      BY <1>11, LimiterTypes DEF ClosesClone
    <2> QED BY <1>11, <2>1, RequestsKept DEF ClosesClone, TypeOK
  <1>12. CASE DestroysRequest /\ UNCHANGED asked
    <2>1. openFiles' \in Int /\ waiting' \subseteq Threads
      BY <1>12, LimiterTypes DEF DestroysRequest
    <2>2. /\ written' = written + 1 /\ wpc' = "top"
          /\ UNCHANGED <<asked, mpc, input, units, owner, hasUnit, parsed, ended>>
      BY <1>12 DEF DestroysRequest, Next1
    <2> QED BY <2>1, <2>2, RequestsKept DEF TypeOK
  <1>13. CASE SpuriousWakeup
    BY <1>13, RequestsKept DEF SpuriousWakeup, TypeOK
  <1>14. CASE UNCHANGED vars
    BY <1>14, RequestsKept DEF vars, TypeOK
  <1>15. CASE TaskEnds
    <2>1. PICK p \in parsed \ ended : /\ ended' = ended \cup {p}
                                     /\ Drop(p, p <= written)
      BY <1>15 DEF TaskEnds
    <2>2. openFiles' \in Int /\ waiting' \subseteq Threads
      BY <2>1, LimiterTypes
    <2>3. RequestsOK'
      BY <1>15, <2>1 DEF TaskEnds, TypeOK, RequestsOK
    <2> QED BY <1>15, <2>2, <2>3 DEF TaskEnds, TypeOK
  <1> QED BY <1>1, <1>2, <1>3, <1>4, <1>5, <1>6, <1>7, <1>8, <1>9, <1>10,
             <1>11, <1>12, <1>13, <1>14, <1>15 DEF Next, Main, Writer, Terminating

\* Every variable keeps its type, in every conversion.
THEOREM TypeCorrect == Spec => []TypeOK
  <1>1. TypeOK /\ [Next]_vars => TypeOK'
    BY NextType
  <1> QED BY <1>1, InitType, PTL DEF Spec

-----------------------------------------------------------------------------
(* main and the writer have what they work on *)

LEMMA InitRest ==
    ASSUME Init
    PROVE  AtWork /\ OwnedWhenRead /\ WaitsForPermit
  BY DEF Init, AtWork, OwnedWhenRead, WaitsForPermit

LEMMA ArchivesSame ==
    ASSUME UNCHANGED asked
    PROVE  Archives' = Archives
  BY DEF Archives, Inputs

LEMMA NextAtWork ==
    ASSUME TypeOK, AtWork, [Next]_vars
    PROVE  AtWork'
  <1> USE DEF mainVars, requestVars, poolVars, AtWork, Next1, Alive
  <1>0. Archives' = Archives
    BY ArchivesSame DEF Next, Main, Parse, TaskEnds, Writer, SpuriousWakeup,
                        Terminating, vars
  <1>1. CASE InputArchive
    <2>1. Inputs \in Seq({"source", "srcml"}) /\ input \in Nat \ {0}
      BY ArchivesFinite DEF TypeOK
    <2>2. input \in Archives
      BY <1>1, <2>1 DEF InputArchive, Archives
    <2> QED BY <1>0, <1>1, <2>2 DEF InputArchive
  <1>2. CASE InputSource \/ InputsDone \/ PoolJoined \/ WriterJoined
    BY <1>0, <1>2 DEF InputSource, InputsDone, PoolJoined, WriterJoined
  <1>3. CASE MainOpens \/ MainBlocks
    BY <1>0, <1>3 DEF MainOpens, MainBlocks
  <1>4. CASE ReadOpenFails \/ ReadUnit \/ ReadDone \/ ReadExits
    BY <1>0, <1>4 DEF ReadOpenFails, ReadUnit, ReadDone, ReadExits
  <1>5. CASE Parse \/ TaskEnds \/ SpuriousWakeup \/ UNCHANGED vars
    BY <1>0, <1>5 DEF Parse, TaskEnds, SpuriousWakeup, vars
  <1>6. CASE WritesShared \/ WritesOwn \/ WritesUnnamed \/ WriterReturns
    BY <1>0, <1>6 DEF WritesShared, WritesOwn, WritesUnnamed, WriterReturns
  <1>7. CASE WriterOpens \/ WriterBlocks
    BY <1>0, <1>7 DEF WriterOpens, WriterBlocks
  <1>8. CASE ClosesClone \/ DestroysRequest
    BY <1>0, <1>8 DEF ClosesClone, DestroysRequest
  <1> QED BY <1>1, <1>2, <1>3, <1>4, <1>5, <1>6, <1>7, <1>8
             DEF Next, Main, Writer, Terminating

-----------------------------------------------------------------------------
(* A request owns an archive that main has read a unit from *)

\* OwnedWhenRead for one request
OwnsRead(p) ==
    /\ owner[p] \in Archives \cup {0}
    /\ \/ owner[p] < input
       \/ owner[p] = input /\ mpc = "reading" /\ units > 0

LEMMA OwnedSame ==
    ASSUME OwnedWhenRead, Alive' => Alive, UNCHANGED <<asked, owner>>,
           \/ UNCHANGED <<input, units>> /\ (mpc = "reading" => mpc' = "reading")
           \/ UNCHANGED input /\ mpc # "reading"
           \/ UNCHANGED input /\ units = 0
    PROVE  OwnedWhenRead'
  BY ArchivesSame DEF OwnedWhenRead

LEMMA NextOwned ==
    ASSUME TypeOK, AtWork, OwnedWhenRead, [Next]_vars
    PROVE  OwnedWhenRead'
  <1> USE DEF mainVars, requestVars, poolVars, Alive
  <1>0. input \in Nat \ {0} /\ units \in Nat /\ owner \in Seq(Nat)
        /\ Len(owner) \in Nat
    BY DEF TypeOK, RequestsOK
  <1>1. CASE InputSource /\ UNCHANGED asked
    <2>0. ScheduleFor(0) /\ 0 \in Nat
      BY <1>1 DEF InputSource
    <2>1. /\ Len(owner') = Len(owner) + 1 /\ owner'[Len(owner) + 1] = 0
          /\ \A p \in 1..Len(owner) : owner'[p] = owner[p]
      BY <2>0, Scheduled
    <2>2. /\ mpc = "input" /\ UNCHANGED mpc /\ input' = input + 1
          /\ Archives' = Archives
      BY <1>1, ArchivesSame DEF InputSource
    <2>3. ASSUME NEW p \in 1..Len(owner') PROVE OwnsRead(p)'
      <3>1. CASE p = Len(owner) + 1
        BY <1>0, <2>1, <2>2, <3>1 DEF OwnsRead
      <3>2. CASE p # Len(owner) + 1
        <4>1. p \in 1..Len(owner)
          BY <1>0, <2>1, <3>2
        <4>2. owner[p] \in Nat /\ owner'[p] = owner[p]
          BY <1>0, <2>1, <4>1
        <4> QED BY <1>0, <2>2, <4>1, <4>2 DEF OwnsRead, OwnedWhenRead
      <3> QED BY <3>1, <3>2
    <2> QED BY <2>3 DEF OwnsRead, OwnedWhenRead
  <1>2. CASE ReadUnit /\ UNCHANGED asked
    <2>0. ScheduleFor(input) /\ input \in Nat
      BY <1>0, <1>2 DEF ReadUnit
    <2>1. /\ Len(owner') = Len(owner) + 1 /\ owner'[Len(owner) + 1] = input
          /\ \A p \in 1..Len(owner) : owner'[p] = owner[p]
      BY <2>0, Scheduled
    <2>2. /\ mpc = "reading" /\ UNCHANGED <<mpc, input>> /\ units' = units + 1
          /\ Archives' = Archives /\ input \in Archives
      BY <1>2, ArchivesSame DEF ReadUnit, AtWork
    <2>3. ASSUME NEW p \in 1..Len(owner') PROVE OwnsRead(p)'
      <3>1. CASE p = Len(owner) + 1
        BY <1>0, <2>1, <2>2, <3>1 DEF OwnsRead
      <3>2. CASE p # Len(owner) + 1
        <4>1. p \in 1..Len(owner)
          BY <1>0, <2>1, <3>2
        <4> QED BY <1>0, <2>1, <2>2, <4>1 DEF OwnsRead, OwnedWhenRead
      <3> QED BY <3>1, <3>2
    <2> QED BY <2>3 DEF OwnsRead, OwnedWhenRead
  <1>3. CASE ReadDone /\ UNCHANGED asked
    <2>1. /\ mpc = "reading" /\ mpc' = "input" /\ input' = input + 1
          /\ UNCHANGED owner /\ Archives' = Archives
      BY <1>3, ArchivesSame DEF ReadDone
    <2>2. ASSUME NEW p \in 1..Len(owner) PROVE OwnsRead(p)'
      <3>1. owner[p] \in Nat
        BY <1>0
      <3> QED BY <1>0, <2>1, <3>1 DEF OwnsRead, OwnedWhenRead
    <2> QED BY <2>1, <2>2 DEF OwnsRead, OwnedWhenRead
  <1>4. CASE (InputArchive \/ MainOpens \/ MainBlocks \/ InputsDone
              \/ PoolJoined \/ WriterJoined) /\ UNCHANGED asked
    BY <1>4, OwnedSame DEF InputArchive, MainOpens, MainBlocks, InputsDone,
                           PoolJoined, WriterJoined
  <1>5. CASE (ReadOpenFails \/ ReadExits) /\ UNCHANGED asked
    BY <1>5, OwnedSame DEF ReadOpenFails, ReadExits
  <1>6. CASE Parse \/ TaskEnds \/ (SpuriousWakeup /\ Alive) \/ UNCHANGED vars
    BY <1>6, OwnedSame DEF Parse, TaskEnds, SpuriousWakeup, vars
  <1>7. CASE (WritesShared \/ WritesOwn \/ WriterOpens \/ WriterBlocks
              \/ ClosesClone \/ DestroysRequest \/ WriterReturns)
             /\ UNCHANGED asked
    BY <1>7, OwnedSame DEF WritesShared, WritesOwn, WriterOpens, WriterBlocks,
                           ClosesClone, DestroysRequest, WriterReturns
  <1>8. CASE WritesUnnamed /\ UNCHANGED asked
    <2>1. CASE UNCHANGED mpc
      BY <1>8, <2>1, OwnedSame DEF WritesUnnamed
    <2>2. CASE mpc' = "exit"
      BY <2>2 DEF OwnedWhenRead
    <2> QED BY <1>8, <2>1, <2>2 DEF WritesUnnamed
  <1> QED BY <1>1, <1>2, <1>3, <1>4, <1>5, <1>6, <1>7, <1>8
             DEF Next, Main, Writer, Terminating

-----------------------------------------------------------------------------
(* The permits that threads wait for *)

\* a permit is returned: of two threads that wait one is woken, and takes it
LEMMA ClosedWaits ==
    ASSUME TypeOK, Close, WaitsForPermit, Counts, Alive,
           \A t \in Threads : Opening(t)' <=> Opening(t)
    PROVE  WaitsForPermit'
  <1>1. openFiles' = openFiles - 1 /\ openFiles \in Int /\ MaxOpenFiles \in Nat
        /\ waiting \subseteq Threads
    BY LimitsAssumption DEF Close, TypeOK
  <1>2. CASE waiting = {}
    <2>1. waiting' = {}
      BY <1>2 DEF Close
    <2> QED BY <2>1 DEF WaitsForPermit
  <1>3. CASE waiting # {}
    <2>1. PICK t \in waiting : waiting' = waiting \ {t}
      BY <1>3 DEF Close
    <2>2. Opening(t)' /\ t \in Threads /\ t \notin waiting'
      BY <1>1, <2>1 DEF WaitsForPermit
    <2>3. \A u \in waiting' : Opening(u)'
      BY <1>1, <2>1 DEF WaitsForPermit
    <2>4. waiting' # {} => waiting = Threads
      BY <1>1, <2>1 DEF Threads
    <2>5. waiting = Threads => ~ CanOpen
      BY DEF WaitsForPermit
    <2>6. ~ CanOpen => openFiles = MaxOpenFiles + 1
      BY <1>1 DEF CanOpen, Counts
    <2>7. waiting' # {} => openFiles' = MaxOpenFiles
      BY <1>1, <2>4, <2>5, <2>6
    <2> QED BY <2>2, <2>3, <2>7 DEF WaitsForPermit
  <1> QED BY <1>2, <1>3

LEMMA WaitsSame ==
    ASSUME WaitsForPermit, Alive, openFiles' = openFiles,
           waiting' \subseteq waiting,
           \A t \in Threads : Opening(t) => Opening(t)',
           waiting \subseteq Threads
    PROVE  WaitsForPermit'
  BY DEF WaitsForPermit, CanOpen

LEMMA LetGoWaits ==
    ASSUME TypeOK, WaitsForPermit, Counts, Alive,
           \/ \E a, last : LetGo(a, last)
           \/ \E p, last : Drop(p, last),
           \A t \in Threads : Opening(t)' <=> Opening(t)
    PROVE  WaitsForPermit'
  <1>1. Close \/ UNCHANGED <<openFiles, waiting>>
    BY DEF LetGo, Drop
  <1>2. CASE Close
    BY <1>2, ClosedWaits
  <1>3. CASE UNCHANGED <<openFiles, waiting>>
    BY <1>3, WaitsSame DEF TypeOK
  <1> QED BY <1>1, <1>2, <1>3

\* a permit is taken: it was the only one, if the other thread waits
LEMMA OpenedWaits ==
    ASSUME TypeOK, WaitsForPermit, Alive, NEW t \in Threads, Open(t),
           \A u \in Threads \ {t} : Opening(u) => Opening(u)'
    PROVE  WaitsForPermit'
  <1>1. /\ t \notin waiting /\ CanOpen /\ openFiles' = openFiles + 1
        /\ waiting' = waiting /\ waiting \subseteq Threads
        /\ openFiles \in Int /\ MaxOpenFiles \in Nat
    BY LimitsAssumption DEF Open, TypeOK
  <1>2. \A u \in waiting' : Opening(u)'
    BY <1>1 DEF WaitsForPermit
  <1>3. waiting' # {} => openFiles' = MaxOpenFiles + 1
    BY <1>1 DEF WaitsForPermit
  <1>4. waiting' # {} => ~ CanOpen'
    BY <1>1, <1>3 DEF CanOpen
  <1> QED BY <1>2, <1>4 DEF WaitsForPermit

LEMMA BlockedWaits ==
    ASSUME TypeOK, WaitsForPermit, Alive, NEW t \in Threads, Block(t),
           Opening(t), \A u \in Threads : Opening(u) => Opening(u)'
    PROVE  WaitsForPermit'
  <1>1. /\ ~ CanOpen /\ openFiles' = openFiles /\ waiting' = waiting \cup {t}
        /\ waiting \subseteq Threads
    BY DEF Block, TypeOK
  <1>2. \A u \in waiting' : Opening(u)'
    BY <1>1 DEF WaitsForPermit
  <1>3. ~ CanOpen'
    BY <1>1 DEF CanOpen
  <1> QED BY <1>2, <1>3 DEF WaitsForPermit

\* the process exits from main or the writer, which did not wait
LEMMA ExitWaits ==
    ASSUME TypeOK, WaitsForPermit, Alive, mpc' = "exit",
           mpc # "opening" \/ wpc # "opening",
           UNCHANGED <<wpc, openFiles, waiting>>
    PROVE  WaitsForPermit'
  <1>1. waiting \subseteq Threads
    BY DEF TypeOK
  <1>2. \A t \in waiting, u \in Threads \ waiting : ~ Opening(u)
    BY <1>1 DEF WaitsForPermit, Opening, Threads
  <1>3. waiting # {} => ~ CanOpen
    BY <1>2 DEF WaitsForPermit
  <1> QED BY <1>3 DEF WaitsForPermit, CanOpen, Alive

LEMMA NextWaits ==
    ASSUME TypeOK, WaitsForPermit, Counts, [Next]_vars
    PROVE  WaitsForPermit'
  <1> USE DEF mainVars, requestVars
  <1>0. waiting \subseteq Threads
    BY DEF TypeOK
  <1>1. CASE MainOpens
    <2>1. Open("main") /\ Alive /\ UNCHANGED wpc /\ "main" \in Threads
      BY <1>1 DEF MainOpens, Alive, Threads
    <2> QED BY <2>1, OpenedWaits DEF Opening, Threads
  <1>2. CASE WriterOpens
    <2>1. Open("writer") /\ Alive /\ UNCHANGED mpc /\ "writer" \in Threads
      BY <1>2 DEF WriterOpens, Threads
    <2> QED BY <2>1, OpenedWaits DEF Opening, Threads
  <1>3. CASE MainBlocks
    <2>1. /\ Block("main") /\ Alive /\ UNCHANGED <<mpc, wpc>>
          /\ Opening("main") /\ "main" \in Threads
      BY <1>3 DEF MainBlocks, Alive, Opening, Threads
    <2> QED BY <2>1, BlockedWaits DEF Opening
  <1>4. CASE WriterBlocks
    <2>1. /\ Block("writer") /\ Alive /\ UNCHANGED <<mpc, wpc>>
          /\ Opening("writer") /\ "writer" \in Threads
      BY <1>4 DEF WriterBlocks, Opening, Threads
    <2> QED BY <2>1, BlockedWaits DEF Opening
  <1>5. CASE ReadOpenFails \/ ClosesClone
    <2>1. /\ Close /\ Alive
          /\ \A t \in Threads : Opening(t)' <=> Opening(t)
      BY <1>5 DEF ReadOpenFails, ClosesClone, Alive, Opening
    <2> QED BY <2>1, ClosedWaits
  <1>6. CASE ReadDone \/ DestroysRequest \/ TaskEnds
    <2>1. /\ (\E a, last : LetGo(a, last)) \/ (\E p, last : Drop(p, last))
          /\ Alive
      BY <1>6 DEF ReadDone, DestroysRequest, TaskEnds, Alive
    <2>2. \A t \in Threads : Opening(t)' <=> Opening(t)
      BY <1>6 DEF ReadDone, DestroysRequest, TaskEnds, Opening
    <2> QED BY <2>1, <2>2, LetGoWaits
  <1>7. CASE InputSource \/ InputArchive \/ InputsDone \/ PoolJoined
            \/ WriterJoined \/ ReadUnit
    <2>1. /\ Alive /\ UNCHANGED <<openFiles, waiting>>
          /\ \A t \in Threads : Opening(t) => Opening(t)'
      BY <1>7 DEF InputSource, InputArchive, InputsDone, PoolJoined,
                  WriterJoined, ReadUnit, Alive, Opening
    <2> QED BY <1>0, <2>1, WaitsSame
  <1>8. CASE ReadExits
    BY <1>8, ExitWaits DEF ReadExits, Alive
  <1>9. CASE WritesShared \/ WritesOwn \/ WriterReturns
             \/ (WritesUnnamed /\ UNCHANGED mpc)
    <2>1. /\ Alive /\ UNCHANGED <<openFiles, waiting>>
          /\ \A t \in Threads : Opening(t) => Opening(t)'
      BY <1>9 DEF WritesShared, WritesOwn, WriterReturns, WritesUnnamed, Opening
    <2> QED BY <1>0, <2>1, WaitsSame
  <1>10. CASE WritesUnnamed /\ mpc' = "exit" /\ UNCHANGED wpc
    BY <1>10, ExitWaits DEF WritesUnnamed
  <1>11. CASE Parse \/ (Alive /\ SpuriousWakeup)
    <2>1. /\ Alive /\ openFiles' = openFiles /\ waiting' \subseteq waiting
          /\ UNCHANGED <<mpc, wpc>>
      BY <1>11 DEF Parse, SpuriousWakeup
    <2> QED BY <1>0, <2>1, WaitsSame DEF Opening
  <1>12. CASE UNCHANGED vars
    BY <1>12 DEF vars, WaitsForPermit, Alive, Opening, CanOpen
  <1>13. WritesUnnamed => \/ WritesUnnamed /\ UNCHANGED mpc
                          \/ WritesUnnamed /\ mpc' = "exit" /\ UNCHANGED wpc
    BY DEF WritesUnnamed
  <1> QED BY <1>1, <1>2, <1>3, <1>4, <1>5, <1>6, <1>7, <1>8, <1>9, <1>10,
             <1>11, <1>12, <1>13 DEF Next, Main, Writer, Terminating

-----------------------------------------------------------------------------
(* Counting the archives that are open *)

\* whether archive a is open
IsOpen(a) == \/ mpc = "reading" /\ input = a
             \/ \E p \in Live : owner[p] = a

LEMMA OpenSame ==
    ASSUME UNCHANGED asked, \A a \in Archives : IsOpen(a)' <=> IsOpen(a)
    PROVE  OpenArchives' = OpenArchives
  BY ArchivesSame DEF OpenArchives, IsOpen

LEMMA OpenGrows ==
    ASSUME TypeOK, UNCHANGED asked, NEW b \in Archives, ~ IsOpen(b),
           \A a \in Archives : IsOpen(a)' <=> IsOpen(a) \/ a = b
    PROVE  Cardinality(OpenArchives') = Cardinality(OpenArchives) + 1
  <1>1. OpenArchives' = OpenArchives \cup {b} /\ b \notin OpenArchives
    BY ArchivesSame DEF OpenArchives, IsOpen
  <1> QED BY <1>1, OpenFinite, FS_AddElement

LEMMA OpenShrinks ==
    ASSUME TypeOK, UNCHANGED asked, NEW b \in Archives, IsOpen(b),
           \A a \in Archives : IsOpen(a)' <=> IsOpen(a) /\ a # b
    PROVE  Cardinality(OpenArchives') = Cardinality(OpenArchives) - 1
  <1>1. OpenArchives' = OpenArchives \ {b} /\ b \in OpenArchives
    BY ArchivesSame DEF OpenArchives, IsOpen
  <1> QED BY <1>1, OpenFinite, FS_RemoveElement

LEMMA InitCounts ==
    ASSUME Init
    PROVE  Counts
  <1>1. OpenArchives = {}
    BY DEF Init, OpenArchives, Live
  <1>2. Opened = 0
    BY <1>1, FS_EmptySet DEF Opened, Init
  <1> QED BY <1>2, LimitsAssumption DEF Counts, Init

LEMMA CountsSame ==
    ASSUME Counts, Alive' => Alive,
           Alive' => /\ UNCHANGED asked
                     /\ \A a \in Archives : IsOpen(a)' <=> IsOpen(a)
                     /\ wpc' = "cloned" <=> wpc = "cloned",
           openFiles' = openFiles
    PROVE  Counts'
  <1>1. Alive' => OpenArchives' = OpenArchives
    BY OpenSame
  <1> QED BY <1>1 DEF Counts, Opened

\* what main reads and what the requests own, when neither changes
LEMMA OpenKept ==
    ASSUME UNCHANGED <<owner, written, ended, input>>,
           mpc' = "reading" <=> mpc = "reading"
    PROVE  \A a \in Archives : IsOpen(a)' <=> IsOpen(a)
  BY DEF IsOpen, Live

LEMMA ScheduledOpen ==
    ASSUME TypeOK, NEW a \in Nat, ScheduleFor(a), UNCHANGED <<written, ended>>
    PROVE  \A b : (\E p \in Live' : owner'[p] = b)
                  <=> (\E p \in Live : owner[p] = b) \/ b = a
  <1>1. /\ Len(owner) \in Nat /\ written \in Nat
        /\ ended \subseteq 1..Len(owner)
    BY DEF TypeOK, RequestsOK
  <1>2. /\ Len(owner') = Len(owner) + 1 /\ owner'[Len(owner) + 1] = a
        /\ \A p \in 1..Len(owner) : owner'[p] = owner[p]
    BY Scheduled
  <1>3. \A p \in Live : p \in 1..Len(owner) /\ p \in Live' /\ owner'[p] = owner[p]
    BY <1>1, <1>2 DEF Live
  <1>4. \A p \in Live' : \/ p \in Live /\ owner'[p] = owner[p]
                         \/ p = Len(owner) + 1 /\ owner'[p] = a
    BY <1>1, <1>2 DEF Live
  <1>5. Len(owner) + 1 \in Live'
    BY <1>1, <1>2 DEF Live
  <1> QED BY <1>2, <1>3, <1>4, <1>5

\* a permit is taken for an archive that was not open
LEMMA MainOpensCounts ==
    ASSUME TypeOK, AtWork, OwnedWhenRead, Counts, MainOpens, UNCHANGED asked
    PROVE  Counts'
  <1> USE DEF requestVars, poolVars
  <1>1. /\ mpc = "opening" /\ mpc' = "reading" /\ Alive /\ input \in Archives
        /\ CanOpen /\ openFiles' = openFiles + 1
        /\ UNCHANGED <<input, owner, written, ended, wpc>>
    BY DEF MainOpens, Open, AtWork, Alive
  <1>2. input \in Nat /\ Len(owner) \in Nat /\ written \in Nat
        /\ openFiles \in Int /\ owner \in Seq(Nat)
    BY DEF TypeOK, RequestsOK
  <1>3. \A p \in Live : p \in 1..Len(owner) /\ owner[p] \in Nat
    BY <1>2 DEF Live
  <1>4. \A p \in Live : owner[p] # input
    BY <1>1, <1>2, <1>3 DEF OwnedWhenRead
  <1>5. ~ IsOpen(input)
    BY <1>1, <1>4 DEF IsOpen
  <1>6. \A a \in Archives : IsOpen(a)' <=> IsOpen(a) \/ a = input
    BY <1>1 DEF IsOpen, Live
  <1>7. Cardinality(OpenArchives') = Cardinality(OpenArchives) + 1
    BY <1>1, <1>5, <1>6, OpenGrows
  <1>8. openFiles = Opened /\ Cardinality(OpenArchives) \in Nat
    BY <1>1, OpenFinite DEF Counts
  <1>9. openFiles' = Opened'
    BY <1>1, <1>2, <1>7, <1>8 DEF Opened
  <1>10. openFiles' <= MaxOpenFiles + 1
    BY <1>1, <1>2, LimitsAssumption DEF CanOpen
  <1> QED BY <1>9, <1>10 DEF Counts

\* a permit is returned for an archive that was open
LEMMA ClosesCounts ==
    ASSUME TypeOK, Counts, Alive, UNCHANGED asked, openFiles' = openFiles - 1,
           NEW b \in Archives, IsOpen(b),
           \A a \in Archives : IsOpen(a)' <=> IsOpen(a) /\ a # b,
           wpc' = "cloned" <=> wpc = "cloned"
    PROVE  Counts'
  <1>1. Cardinality(OpenArchives') = Cardinality(OpenArchives) - 1
    BY OpenShrinks
  <1>2. openFiles = Opened /\ Cardinality(OpenArchives) \in Nat
    BY OpenFinite DEF Counts
  <1>3. openFiles \in Int /\ MaxOpenFiles \in Nat
    BY LimitsAssumption DEF TypeOK
  <1>4. openFiles' = Opened'
    BY <1>1, <1>2, <1>3 DEF Opened
  <1> QED BY <1>3, <1>4 DEF Counts

LEMMA ReadOpenFailsCounts ==
    ASSUME TypeOK, AtWork, OwnedWhenRead, Counts, ReadOpenFails, UNCHANGED asked
    PROVE  Counts'
  <1> USE DEF requestVars, poolVars
  <1>1. /\ mpc = "reading" /\ mpc' = "joinPool" /\ units = 0 /\ Alive
        /\ input \in Archives /\ openFiles' = openFiles - 1
        /\ UNCHANGED <<input, owner, written, ended, wpc>>
    BY DEF ReadOpenFails, Close, AtWork, Alive
  <1>2. input \in Nat /\ Len(owner) \in Nat /\ written \in Nat
        /\ owner \in Seq(Nat)
    BY DEF TypeOK, RequestsOK
  <1>3. \A p \in Live : p \in 1..Len(owner) /\ owner[p] \in Nat
    BY <1>2 DEF Live
  <1>4. \A p \in Live : owner[p] # input
    BY <1>1, <1>2, <1>3 DEF OwnedWhenRead
  <1>5. \A a \in Archives : IsOpen(a)' <=> IsOpen(a) /\ a # input
    BY <1>1, <1>4 DEF IsOpen, Live
  <1>6. IsOpen(input)
    BY <1>1 DEF IsOpen
  <1> QED BY <1>1, <1>5, <1>6, ClosesCounts

LEMMA ReadDoneCounts ==
    ASSUME TypeOK, AtWork, Counts, WaitsForPermit, ReadDone, UNCHANGED asked
    PROVE  Counts'
  <1> USE DEF requestVars, poolVars
  <1>1. /\ mpc = "reading" /\ mpc' = "input" /\ Alive /\ Alive'
        /\ input \in Archives /\ input # 0
        /\ UNCHANGED <<owner, written, ended, wpc>>
        /\ LetGo(input, NobodyOwns(input, Live))
    BY DEF ReadDone, AtWork, Alive, TypeOK
  <1>2. CASE NobodyOwns(input, Live)
    <2>1. openFiles' = openFiles - 1
      BY <1>1, <1>2 DEF LetGo, Close
    <2>2. \A a \in Archives : IsOpen(a)' <=> IsOpen(a) /\ a # input
      BY <1>1, <1>2 DEF IsOpen, Live, NobodyOwns
    <2>3. IsOpen(input)
      BY <1>1 DEF IsOpen
    <2> QED BY <1>1, <2>1, <2>2, <2>3, ClosesCounts
  <1>3. CASE ~ NobodyOwns(input, Live)
    <2>1. openFiles' = openFiles
      BY <1>1, <1>3 DEF LetGo
    <2>2. \A a \in Archives : IsOpen(a)' <=> IsOpen(a)
      BY <1>1, <1>3 DEF IsOpen, Live, NobodyOwns
    <2> QED BY <1>1, <2>1, <2>2, CountsSame
  <1> QED BY <1>2, <1>3

\* a thread drops a request: the archive is closed with its last owner
LEMMA DropCounts ==
    ASSUME TypeOK, OwnedWhenRead, Counts, Alive, Alive',
           UNCHANGED <<asked, mpc, input, owner>>,
           wpc' = "cloned" <=> wpc = "cloned",
           NEW p \in Live, NEW last \in BOOLEAN, Drop(p, last),
           Live' = IF last THEN Live \ {p} ELSE Live
    PROVE  Counts'
  <1> DEFINE closes == /\ last
                       /\ NobodyOwns(owner[p], Live \ {p})
                       /\ ~ (mpc = "reading" /\ input = owner[p])
  <1>1. LetGo(owner[p], closes)
    BY DEF Drop
  <1>2. owner[p] \in Archives \cup {0}
    BY DEF OwnedWhenRead, Live
  <1>3. 0 \notin Archives
    BY ArchivesFinite
  <1>4. \A a \in Archives : IsOpen(a)' <=> \/ mpc = "reading" /\ input = a
                                           \/ \E q \in Live' : owner[q] = a
    BY DEF IsOpen
  <1>5. CASE owner[p] # 0 /\ closes
    <2>1. openFiles' = openFiles - 1
      BY <1>1, <1>5 DEF LetGo, Close
    <2>2. \A a \in Archives : IsOpen(a)' <=> IsOpen(a) /\ a # owner[p]
      BY <1>4, <1>5 DEF IsOpen, NobodyOwns
    <2>3. IsOpen(owner[p]) /\ owner[p] \in Archives
      BY <1>2, <1>5 DEF IsOpen
    <2> QED BY <2>1, <2>2, <2>3, ClosesCounts
  <1>6. CASE ~ (owner[p] # 0 /\ closes)
    <2>1. openFiles' = openFiles
      BY <1>1, <1>6 DEF LetGo
    <2>2. \A a \in Archives : IsOpen(a)' <=> IsOpen(a)
      <3>1. CASE ~ last
        BY <1>4, <3>1 DEF IsOpen
      <3>2. CASE last
        BY <1>3, <1>4, <1>6, <3>2 DEF IsOpen, NobodyOwns
      <3> QED BY <3>1, <3>2
    <2> QED BY <2>1, <2>2, CountsSame
  <1> QED BY <1>5, <1>6

LEMMA DestroysCounts ==
    ASSUME TypeOK, AtWork, OwnedWhenRead, Counts, DestroysRequest,
           UNCHANGED asked
    PROVE  Counts'
  <1> USE DEF mainVars, requestVars, poolVars
  <1>1. /\ wpc = "destroy" /\ wpc' = "top" /\ Alive /\ Alive'
        /\ written' = written + 1 /\ Next1 = written + 1
        /\ UNCHANGED <<mpc, input, owner, ended>>
        /\ Drop(Next1, Next1 \in ended)
    BY DEF DestroysRequest, Alive, Next1
  <1>2. Len(owner) \in Nat /\ written \in Nat /\ Next1 \in 1..Len(owner)
    BY <1>1 DEF TypeOK, RequestsOK, AtWork
  <1>3. /\ Next1 \in Live
        /\ Live' = IF Next1 \in ended THEN Live \ {Next1} ELSE Live
    BY <1>1, <1>2 DEF Live
  <1>4. (Next1 \in ended) \in BOOLEAN /\ (wpc' = "cloned" <=> wpc = "cloned")
    BY <1>1
  <1> QED BY <1>1, <1>3, <1>4, DropCounts

LEMMA TaskEndsCounts ==
    ASSUME TypeOK, OwnedWhenRead, Counts, TaskEnds
    PROVE  Counts'
  <1>1. /\ Alive /\ Alive'
        /\ UNCHANGED <<asked, mpc, input, owner, wpc, written>>
    BY DEF TaskEnds, mainVars, requestVars, Alive
  <1>2. PICK p \in parsed \ ended : /\ ended' = ended \cup {p}
                                   /\ Drop(p, p <= written)
    BY DEF TaskEnds
  <1>3. Len(owner) \in Nat /\ written \in Nat /\ p \in 1..Len(owner)
    BY DEF TypeOK, RequestsOK
  <1>4. /\ p \in Live
        /\ Live' = IF p <= written THEN Live \ {p} ELSE Live
    BY <1>1, <1>2, <1>3 DEF Live
  <1>5. (p <= written) \in BOOLEAN /\ (wpc' = "cloned" <=> wpc = "cloned")
    BY <1>1, <1>3
  <1> QED BY <1>1, <1>2, <1>4, <1>5, DropCounts

\* the writer's permit is that of the archive it has cloned
LEMMA WriterOpensCounts ==
    ASSUME TypeOK, Counts, WriterOpens, UNCHANGED asked
    PROVE  Counts'
  <1>1. /\ wpc = "opening" /\ wpc' = "cloned" /\ Alive /\ CanOpen
        /\ openFiles' = openFiles + 1
        /\ UNCHANGED <<mpc, input, owner, written, ended>>
    BY DEF WriterOpens, Open, mainVars, requestVars, poolVars
  <1>2. OpenArchives' = OpenArchives
    BY <1>1, OpenKept, OpenSame
  <1>3. openFiles = Opened /\ openFiles \in Int
        /\ Cardinality(OpenArchives) \in Nat
    BY <1>1, OpenFinite DEF Counts, TypeOK
  <1>4. openFiles' = Opened'
    BY <1>1, <1>2, <1>3 DEF Opened
  <1>5. openFiles' <= MaxOpenFiles + 1
    BY <1>1, <1>3, LimitsAssumption DEF CanOpen
  <1> QED BY <1>4, <1>5 DEF Counts

LEMMA ClosesCloneCounts ==
    ASSUME TypeOK, Counts, ClosesClone, UNCHANGED asked
    PROVE  Counts'
  <1>1. /\ wpc = "cloned" /\ wpc' = "destroy" /\ Alive
        /\ openFiles' = openFiles - 1
        /\ UNCHANGED <<mpc, input, owner, written, ended>>
    BY DEF ClosesClone, Close, mainVars, requestVars, poolVars
  <1>2. OpenArchives' = OpenArchives
    BY <1>1, OpenKept, OpenSame
  <1>3. openFiles = Opened /\ openFiles \in Int
        /\ Cardinality(OpenArchives) \in Nat
    BY <1>1, OpenFinite DEF Counts, TypeOK
  <1>4. openFiles' = Opened'
    BY <1>1, <1>2, <1>3 DEF Opened
  <1>5. openFiles' <= MaxOpenFiles + 1
    BY <1>1, <1>3, LimitsAssumption DEF Counts
  <1> QED BY <1>4, <1>5 DEF Counts

\* scheduling: a source owns no archive, and a unit one that is open
LEMMA SchedulesCounts ==
    ASSUME TypeOK, Counts, InputSource \/ ReadUnit, UNCHANGED asked
    PROVE  Counts'
  <1> USE DEF mainVars, requestVars, poolVars
  <1>1. /\ UNCHANGED <<mpc, wpc, written, ended, openFiles>>
        /\ \/ ScheduleFor(0) /\ mpc = "input"
           \/ ScheduleFor(input) /\ mpc = "reading" /\ UNCHANGED input
    BY DEF InputSource, ReadUnit
  <1>2. input \in Nat /\ 0 \in Nat
    BY DEF TypeOK
  <1>3. CASE ScheduleFor(0) /\ mpc = "input"
    <2>1. \A b : (\E p \in Live' : owner'[p] = b)
               <=> (\E p \in Live : owner[p] = b) \/ b = 0
      BY <1>1, <1>2, <1>3, ScheduledOpen
    <2>2. \A a \in Archives : IsOpen(a)' <=> IsOpen(a)
      BY <1>1, <1>3, <2>1, ArchivesFinite DEF IsOpen
    <2> QED BY <1>1, <2>2, CountsSame DEF Alive
  <1>4. CASE ScheduleFor(input) /\ mpc = "reading" /\ UNCHANGED input
    <2>1. \A b : (\E p \in Live' : owner'[p] = b)
               <=> (\E p \in Live : owner[p] = b) \/ b = input
      BY <1>1, <1>2, <1>4, ScheduledOpen
    <2>2. \A a \in Archives : IsOpen(a)' <=> IsOpen(a)
      BY <1>1, <1>4, <2>1 DEF IsOpen
    <2> QED BY <1>1, <2>2, CountsSame DEF Alive
  <1> QED BY <1>1, <1>3, <1>4

LEMMA NextCounts ==
    ASSUME TypeOK, AtWork, OwnedWhenRead, WaitsForPermit, Counts, [Next]_vars
    PROVE  Counts'
  <1> USE DEF mainVars, requestVars, poolVars, Alive
  <1>1. CASE (InputSource \/ ReadUnit) /\ UNCHANGED asked
    BY <1>1, SchedulesCounts
  <1>2. CASE MainOpens /\ UNCHANGED asked
    BY <1>2, MainOpensCounts
  <1>3. CASE ReadOpenFails /\ UNCHANGED asked
    BY <1>3, ReadOpenFailsCounts
  <1>4. CASE ReadDone /\ UNCHANGED asked
    BY <1>4, ReadDoneCounts
  <1>5. CASE DestroysRequest /\ UNCHANGED asked
    BY <1>5, DestroysCounts
  <1>6. CASE WriterOpens /\ UNCHANGED asked
    BY <1>6, WriterOpensCounts
  <1>7. CASE ClosesClone /\ UNCHANGED asked
    BY <1>7, ClosesCloneCounts
  <1>8. CASE (InputArchive \/ MainBlocks \/ InputsDone \/ PoolJoined
              \/ WriterJoined) /\ UNCHANGED asked
    BY <1>8, OpenKept, CountsSame DEF InputArchive, MainBlocks, InputsDone,
                                      PoolJoined, WriterJoined, Block
  <1>9. CASE ReadExits
    BY <1>9, CountsSame DEF ReadExits
  <1>10. CASE (WritesShared \/ WritesOwn \/ WriterBlocks \/ WriterReturns)
              /\ UNCHANGED asked
    BY <1>10, OpenKept, CountsSame DEF WritesShared, WritesOwn, WriterBlocks,
                                       WriterReturns, Block
  <1>11. CASE WritesUnnamed /\ UNCHANGED asked
    <2>1. CASE UNCHANGED mpc
      BY <1>11, <2>1, OpenKept, CountsSame DEF WritesUnnamed
    <2>2. CASE mpc' = "exit"
      BY <1>11, <2>2, CountsSame DEF WritesUnnamed
    <2> QED BY <1>11, <2>1, <2>2 DEF WritesUnnamed
  <1>12. CASE Parse \/ (Alive /\ SpuriousWakeup) \/ UNCHANGED vars
    BY <1>12, OpenKept, CountsSame DEF Parse, SpuriousWakeup, vars
  <1>13. CASE TaskEnds
    BY <1>13, TaskEndsCounts
  <1> QED BY <1>1, <1>2, <1>3, <1>4, <1>5, <1>6, <1>7, <1>8, <1>9, <1>10,
             <1>11, <1>12, <1>13 DEF Next, Main, Writer, Terminating

-----------------------------------------------------------------------------
(* The theorems *)

LEMMA Invariant == Spec => []Inv
  <1>1. Init => Inv
    BY InitType, InitRest, InitCounts DEF Inv
  <1>2. Inv /\ [Next]_vars => Inv'
    BY NextType, NextAtWork, NextOwned, NextWaits, NextCounts DEF Inv
  <1> QED BY <1>1, <1>2, PTL DEF Spec

\* In every conversion, open_files of the OpenFileLimiter is the number of
\* archives that main, the requests, whether the write queue, the writer or a task
\* of the pool has them, and the writer have open between them, and at most one
\* more than its limit, whichever thread closes an archive last.
THEOREM PermitsCounted == Spec => []CountExact
  <1>1. Inv => CountExact
    BY DEF Inv, Counts, CountExact
  <1> QED BY <1>1, Invariant, PTL

\* No wake-up of the OpenFileLimiter is lost, although it is sent to one of two
\* threads and by a third: while a permit is free and a thread waits, the other
\* one is awake and takes it.
THEOREM WakeupKept == Spec => []NoLostWakeup
  <1>1. Inv => NoLostWakeup
    BY DEF Inv, WaitsForPermit, NoLostWakeup, Opening, Threads
  <1> QED BY <1>1, Invariant, PTL
=============================================================================
