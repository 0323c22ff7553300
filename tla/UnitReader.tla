----------------------------- MODULE UnitReader -----------------------------
(***************************************************************************)
(* srcml_sax2_reader and srcml_reader_handler: a unit is read on demand by *)
(* a thread of its own that parses the document and pauses in the handler  *)
(* - at the first unit, at the header of a unit, at the end of a unit -    *)
(* until the user of the library asks for more.                            *)
(*                                                                         *)
(* The two hand control to each other with one condition variable and no   *)
(* predicate: whoever runs notifies and waits under the mutex.             *)
(*                                                                         *)
(* The user opens an archive (the constructor), calls srcml_archive_       *)
(* read_unit and srcml_archive_skip_unit as often as it wants, and frees   *)
(* it (the destructor).                                                    *)
(***************************************************************************)
EXTENDS SaxLayer, FiniteSets, SequencesExt

CONSTANT Documents      \* the documents that may be read

Opens(token) == token.tag \in {"start", "empty"}

\* libxml2 reports tags that match: the end of a unit is that of the root, and
\* as many elements have started as ended, or another unit has started before
TagsMatch(d) ==
    \A p \in 1..Len(d) :
        d[p].tag = "end" /\ d[p].name = "unit" =>
            \/ \E q \in 2..(p - 1) : Opens(d[q]) /\ d[q].name = "unit"
            \/ Cardinality({i \in 1..p : Opens(d[i])})
               = Cardinality({i \in 1..p : d[i].tag = "end"})

ASSUME DocumentsAssumption == Documents \subseteq Seq(Token)

ASSUME MatchAssumption == \A d \in Documents : TagsMatch(d)

VARIABLES
    doc,            \* the document
    pos, depth,     \* libxml2: tokens parsed, elements open (nameNr)
    stopped,        \* xmlStopParser was called
    sax, calls,     \* the SAX layer, and the calls of the handler it is at
    ppc,            \* where the parser thread is
    waiting,        \* the threads waiting on cond
    isDone, terminate, readRoot, waitRoot,      \* srcml_reader_handler
    collectHeader, collectBody, unit,           \* of the same name
    rootSeen,       \* the archive has the attributes of the root
    object,         \* the unit of the call that runs, or ran last
    op,             \* that call
    notDone, readBody,
    call, at,       \* where the user is: the call (or part of it) of the
                    \* reader, and how far it got in it; in wait() or
                    \* resume_and_wait(): at the mutex, holding it, waiting
    taken, result   \* history: units taken, -1 after a call found none;
                    \* what the last call returned

parserVars == <<pos, depth, stopped, sax, calls, ppc>>
flagVars == <<readRoot, collectHeader, collectBody, unit>>
callVars == <<op, notDone, readBody>>
history == <<taken, result>>
userVars == <<op, notDone, readBody, call, at, taken, result>>
vars == <<doc, parserVars, waiting, isDone, terminate, waitRoot, flagVars,
          rootSeen, object, userVars>>

Threads == {"user", "parser"}

Nothing == [from |-> 0, text |-> {}]
NewUnit == [attrs |-> 0, ns |-> {}, text |-> {}]

MutexFree == at # "holds"

Init ==
    /\ doc \in Documents
    /\ pos = 0 /\ depth = 0 /\ stopped = FALSE
    /\ sax = SaxInit /\ calls = << >>
    /\ ppc = "parse"
    /\ waiting = {}
    /\ isDone = FALSE /\ terminate = FALSE /\ waitRoot = TRUE
    /\ readRoot = FALSE /\ collectHeader = FALSE /\ collectBody = FALSE
    /\ unit = "none"
    /\ rootSeen = FALSE
    /\ object = NewUnit
    /\ op = "skip" /\ notDone = FALSE /\ readBody = FALSE
    /\ call = "open" /\ at = "enter"
    /\ taken = 0 /\ result = Nothing

-----------------------------------------------------------------------------
(* The parser thread: start_routine *)

\* xmlStopParser: no callback after this one
StopIf(c) == stopped' = (stopped \/ c) /\ isDone' = (isDone \/ c)

\* return from the call of the handler
Return == calls' = Tail(calls) /\ ppc' = "parse"

At(c) == calls # << >> /\ Head(calls)[1] = c

Here == Head(calls)[2]

\* what comes after the root is not parsed (XML_ERR_EXTRA_CONTENT)
RootEnded == pos > 0 /\ depth <= 0

\* libxml2 parses the next token and calls back
NextToken ==
    /\ ppc = "parse" /\ calls = << >> /\ ~ stopped
    /\ pos < Len(doc) /\ ~ RootEnded
    /\ LET token == doc[pos + 1]
           does == Callback(sax, pos + 1, token, depth)
       IN  /\ token.tag # "error"
           /\ sax' = does.sax /\ calls' = does.calls
           /\ depth' = CASE token.tag \in {"start", "empty"} -> depth + 1
                         [] token.tag = "end" -> depth - 1
                         [] OTHER -> depth
    /\ pos' = pos + 1
    /\ UNCHANGED <<doc, stopped, ppc, waiting, isDone, terminate, waitRoot,
                   flagVars, rootSeen, object, userVars>>

\* parse() returns, or throws an error after which done() is not called
ParseEnds ==
    /\ ppc = "parse" /\ calls = << >>
    /\ \/ stopped
       \/ pos = Len(doc)
       \/ RootEnded
    /\ ppc' = "ended"
    /\ UNCHANGED <<doc, pos, depth, stopped, sax, calls, waiting, isDone,
                   terminate, waitRoot, flagVars, rootSeen, object, userVars>>

\* parse() throws: done(), without the mutex
ParseFails ==
    /\ ppc = "parse" /\ calls = << >> /\ ~ stopped
    /\ pos < Len(doc) /\ ~ RootEnded /\ doc[pos + 1].tag = "error"
    /\ isDone' = TRUE
    /\ ppc' = "failed"
    /\ UNCHANGED <<doc, pos, depth, stopped, sax, calls, waiting, terminate,
                   waitRoot, flagVars, rootSeen, object, userVars>>

DoneNotifies ==
    /\ ppc = "failed" /\ ppc' = "ended"
    /\ waiting' = waiting \ {"user"}
    /\ UNCHANGED <<doc, pos, depth, stopped, sax, calls, isDone, terminate,
                   waitRoot, flagVars, rootSeen, object, userVars>>

-----------------------------------------------------------------------------
(* The calls of the handler *)

StartRoot ==
    /\ ppc = "parse" /\ At("startRoot")
    /\ rootSeen' = TRUE
    /\ Return
    /\ UNCHANGED <<doc, pos, depth, stopped, sax, waiting, isDone, terminate,
                   waitRoot, flagVars, object, userVars>>

\* mutant: the parser goes on before the user asks for a unit
NoPauseAtRoot ==
    /\ ppc = "parse" /\ At("startUnit") /\ ~ readRoot /\ MutexFree
    /\ StopIf(terminate)
    /\ waitRoot' = FALSE
    /\ waiting' = {}
    /\ ppc' = "root"
    /\ UNCHANGED <<doc, pos, depth, sax, calls, terminate, flagVars, rootSeen,
                   object, userVars>>

\* startUnit, the first time: wait until the user has opened the archive
PauseAtRoot ==
    /\ ppc = "parse" /\ At("startUnit") /\ ~ readRoot /\ MutexFree
    /\ StopIf(terminate)
    /\ waitRoot' = FALSE
    /\ waiting' = {"parser"}
    /\ ppc' = "root"
    /\ UNCHANGED <<doc, pos, depth, sax, calls, terminate, flagVars, rootSeen,
                   object, userVars>>

LeaveRoot ==
    /\ ppc = "root" /\ "parser" \notin waiting /\ MutexFree
    /\ readRoot' = TRUE
    /\ StopIf(terminate)
    /\ IF terminate THEN Return ELSE UNCHANGED calls /\ ppc' = "parse"
    /\ UNCHANGED <<doc, pos, depth, sax, waiting, terminate, waitRoot,
                   collectHeader, collectBody, unit, rootSeen, object,
                   userVars>>

\* startUnit: the attributes, into the unit the user has given
Attributes ==
    /\ ppc = "parse" /\ At("startUnit") /\ readRoot
    /\ object' = [object EXCEPT !.attrs = Here]
    /\ sax' = [sax EXCEPT !.collect = collectBody]
    /\ ppc' = "unit"
    /\ UNCHANGED <<doc, pos, depth, stopped, calls, waiting, isDone,
                   terminate, waitRoot, flagVars, rootSeen, userVars>>

\* mutant: the parser does not stop at the header
NoPauseAtHeader ==
    /\ ppc = "unit" /\ collectHeader /\ MutexFree
    /\ StopIf(terminate)
    /\ waiting' = {}
    /\ ppc' = "header"
    /\ UNCHANGED <<doc, pos, depth, sax, calls, terminate, waitRoot, flagVars,
                   rootSeen, object, userVars>>

PauseAtHeader ==
    /\ ppc = "unit" /\ collectHeader /\ MutexFree
    /\ StopIf(terminate)
    /\ waiting' = {"parser"}
    /\ ppc' = "header"
    /\ UNCHANGED <<doc, pos, depth, sax, calls, terminate, waitRoot, flagVars,
                   rootSeen, object, userVars>>

\* startUnit, to the end: the namespaces, into the unit there is now
LeaveHeader ==
    /\ ppc \in {"header", "unit"}
    /\ ppc = "header" => "parser" \notin waiting /\ MutexFree
    /\ ppc = "unit" => ~ collectHeader
    /\ sax' = [sax EXCEPT !.collect = collectBody]
    /\ object' = IF unit = "none" THEN object
                 ELSE [object EXCEPT !.ns = @ \cup {Here}]
    /\ StopIf(terminate)
    /\ Return
    /\ UNCHANGED <<doc, pos, depth, waiting, terminate, waitRoot, flagVars,
                   rootSeen, userVars>>

\* what start_unit and first_start_element do after the call
AfterCall ==
    /\ ppc = "parse"
    /\ \/ At("callbacks") /\ sax' = Callbacks(sax)
       \/ At("element") /\ sax' = Collect(sax, Here)
    /\ Return
    /\ UNCHANGED <<doc, pos, depth, stopped, waiting, isDone, terminate,
                   waitRoot, flagVars, rootSeen, object, userVars>>

\* endUnit of a unit whose text is wanted
PauseAtEnd ==
    /\ ppc = "parse" /\ At("endUnit") /\ collectBody /\ MutexFree
    /\ object' = [object EXCEPT !.text = sax.text]
    /\ sax' = [sax EXCEPT !.text = {}]
    /\ StopIf(terminate)
    /\ waiting' = {"parser"}
    /\ ppc' = "end"
    /\ UNCHANGED <<doc, pos, depth, calls, terminate, waitRoot, flagVars,
                   rootSeen, userVars>>

LeaveEnd ==
    /\ ppc = "end" /\ "parser" \notin waiting /\ MutexFree
    /\ StopIf(terminate)
    /\ Return
    /\ UNCHANGED <<doc, pos, depth, sax, waiting, terminate, waitRoot,
                   flagVars, rootSeen, object, userVars>>

\* endUnit of one whose text is not
PassEnd ==
    /\ ppc = "parse" /\ At("endUnit") /\ ~ collectBody
    /\ StopIf(terminate)
    /\ Return
    /\ UNCHANGED <<doc, pos, depth, sax, waiting, terminate, waitRoot,
                   flagVars, rootSeen, object, userVars>>

\* mutant: the user is not told
EndRootSilently ==
    /\ ppc = "parse" /\ At("endRoot") /\ MutexFree
    /\ stopped' = (stopped \/ terminate)
    /\ isDone' = TRUE
    /\ Return
    /\ UNCHANGED <<doc, pos, depth, sax, waiting, terminate, waitRoot,
                   flagVars, rootSeen, object, userVars>>

EndRoot ==
    /\ ppc = "parse" /\ At("endRoot") /\ MutexFree
    /\ stopped' = (stopped \/ terminate)
    /\ isDone' = TRUE
    /\ waiting' = waiting \ {"user"}
    /\ Return
    /\ UNCHANGED <<doc, pos, depth, sax, terminate, waitRoot, flagVars,
                   rootSeen, object, userVars>>

StartUnit == PauseAtRoot \/ LeaveRoot \/ Attributes \/ PauseAtHeader
             \/ LeaveHeader
EndUnit == PauseAtEnd \/ LeaveEnd \/ PassEnd

Parser == NextToken \/ ParseEnds \/ ParseFails \/ DoneNotifies
          \/ StartRoot \/ StartUnit \/ AfterCall \/ EndUnit \/ EndRoot

-----------------------------------------------------------------------------
(* The user's thread *)

Reaches(c, a) == call' = c /\ at' = a

userFrame == <<doc, parserVars, isDone, waitRoot, readRoot, rootSeen>>

\* the constructor: wait(), if the parser has not reached a unit
EnterWait ==
    /\ call = "open" /\ at = "enter"
    /\ IF isDone \/ ~ waitRoot THEN Reaches("idle", "user") ELSE Reaches("open", "holds")
    /\ UNCHANGED <<userFrame, waiting, terminate, collectHeader, collectBody,
                   unit, object, callVars, history>>

\* mutant: the parser is not notified
EnterResumeSilently ==
    /\ call \in {"header", "body"} /\ at = "enter"
    /\ Reaches(call, IF isDone THEN "left" ELSE "holds")
    /\ UNCHANGED <<userFrame, waiting, terminate, collectHeader, collectBody,
                   unit, object, callVars, history>>

\* resume_and_wait()
EnterResume ==
    /\ call \in {"header", "body"} /\ at = "enter"
    /\ Reaches(call, IF isDone THEN "left" ELSE "holds")
    /\ waiting' = waiting \ {"parser"}
    /\ UNCHANGED <<userFrame, terminate, collectHeader, collectBody, unit,
                   object, callVars, history>>

\* cond.wait(): atomically release the mutex and wait
Wait ==
    /\ at = "holds"
    /\ waiting' = waiting \cup {"user"}
    /\ Reaches(call, "waits")
    /\ UNCHANGED <<userFrame, terminate, collectHeader, collectBody, unit,
                   object, callVars, history>>

Wake ==
    /\ at = "waits" /\ "user" \notin waiting
    /\ IF call = "open" THEN Reaches("idle", "user") ELSE Reaches(call, "left")
    /\ UNCHANGED <<userFrame, waiting, terminate, collectHeader, collectBody,
                   unit, object, callVars, history>>

\* srcml_archive_read_unit or _skip_unit, and the start of read_header
Call ==
    /\ call = "idle" /\ at = "user"
    /\ op' \in {"read", "skip"}
    /\ object' = NewUnit /\ unit' = "object"
    /\ notDone' = FALSE /\ readBody' = FALSE
    /\ IF isDone
       THEN /\ Reaches("body", "begin")
            /\ UNCHANGED <<collectHeader, collectBody>>
       ELSE /\ collectHeader' = TRUE /\ collectBody' = FALSE
            /\ Reaches("header", "enter")
    /\ UNCHANGED <<userFrame, waiting, terminate, history>>

\* the end of read_header
HeaderDone ==
    /\ call = "header" /\ at = "left"
    /\ collectBody' = FALSE /\ collectHeader' = FALSE
    /\ notDone' = ~ isDone
    /\ unit' = IF isDone THEN unit ELSE "none"
    /\ Reaches("body", "begin")
    /\ UNCHANGED <<userFrame, waiting, terminate, object, op, readBody,
                   history>>

\* what the call returns
Returns(read) ==
    /\ result' = CASE op = "read" /\ notDone /\ read ->
                        [from |-> object.attrs, text |-> object.text]
                   [] op = "skip" /\ notDone -> [from |-> object.attrs, text |-> {}]
                   [] OTHER -> Nothing
    /\ taken' = IF result' = Nothing THEN -1 ELSE taken + 1
    /\ Reaches("idle", "user")

\* read_body, up to the wait
BodyBegins ==
    /\ call = "body" /\ at = "begin"
    /\ op = "read" /\ ~ isDone
    /\ unit' = "object" /\ collectBody' = TRUE
    /\ Reaches("body", "enter")
    /\ UNCHANGED <<userFrame, waiting, terminate, collectHeader, object,
                   callVars, history>>

\* a skip does not read the body, and after the end there is none
NoBody ==
    /\ call = "body" /\ at = "begin"
    /\ op = "skip" \/ isDone
    /\ Returns(FALSE)
    /\ UNCHANGED <<userFrame, waiting, terminate, collectHeader, collectBody,
                   unit, object, callVars>>

\* the end of read_body
BodyDone ==
    /\ call = "body" /\ at = "left"
    /\ collectBody' = FALSE
    /\ readBody' = ~ isDone
    /\ Returns(~ isDone)
    /\ UNCHANGED <<userFrame, waiting, terminate, collectHeader, unit, object,
                   op, notDone>>

\* the destructor: stop(), resume(), join()
Free ==
    /\ call = "idle" /\ at = "user"
    /\ Reaches("free", "stop")
    /\ UNCHANGED <<userFrame, waiting, terminate, collectHeader, collectBody,
                   unit, object, callVars, history>>

\* mutant: stop() forgets to set terminate
StopForgets ==
    /\ call = "free" /\ at = "stop"
    /\ Reaches("free", "resume")
    /\ UNCHANGED <<userFrame, waiting, terminate, collectHeader, collectBody,
                   unit, object, callVars, history>>

Stop ==
    /\ call = "free" /\ at = "stop"
    /\ terminate' = TRUE
    /\ Reaches("free", "resume")
    /\ UNCHANGED <<userFrame, waiting, collectHeader, collectBody, unit,
                   object, callVars, history>>

Resume ==
    /\ call = "free" /\ at = "resume"
    /\ waiting' = waiting \ {"parser"}
    /\ Reaches("free", "join")
    /\ UNCHANGED <<userFrame, terminate, collectHeader, collectBody, unit,
                   object, callVars, history>>

Join ==
    /\ call = "free" /\ at = "join" /\ ppc = "ended"
    /\ Reaches("freed", "user")
    /\ UNCHANGED <<userFrame, waiting, terminate, collectHeader, collectBody,
                   unit, object, callVars, history>>

Continues == EnterWait \/ EnterResume \/ Wait \/ Wake \/ HeaderDone
             \/ BodyBegins \/ NoBody \/ BodyDone \/ Stop \/ Resume \/ Join

Terminating == call = "freed" /\ at = "user" /\ UNCHANGED vars

Next == Parser \/ Continues \/ Call \/ Free \/ Terminating

\* both threads keep running; the user need not call
Fairness == WF_vars(Parser) /\ WF_vars(Continues)

Spec == Init /\ [][Next]_vars

FairSpec == Spec /\ Fairness

\* The waits have no loop: a cond.wait() that ends without a notification
\* would be taken for one.  Spec assumes it does not.

-----------------------------------------------------------------------------
(* Properties *)

TypeOK ==
    /\ doc \in Documents
    /\ pos \in 0..Len(doc) /\ depth \in Int /\ stopped \in BOOLEAN
    /\ sax \in SaxState /\ sax.text \subseteq 1..pos /\ sax.base <= pos
    /\ calls \in Seq(Calls \X (1..pos))
    /\ ppc \in {"parse", "root", "unit", "header", "end", "failed", "ended"}
    /\ ppc \in {"root", "unit", "header", "end"} => calls # << >>
    /\ waiting \subseteq Threads
    /\ isDone \in BOOLEAN /\ terminate \in BOOLEAN /\ waitRoot \in BOOLEAN
    /\ readRoot \in BOOLEAN
    /\ collectHeader \in BOOLEAN /\ collectBody \in BOOLEAN
    /\ unit \in {"none", "object"}
    /\ rootSeen \in BOOLEAN
    /\ object \in [attrs : 0..pos, ns : SUBSET (1..pos), text : SUBSET (1..pos)]
    /\ op \in {"read", "skip"} /\ notDone \in BOOLEAN /\ readBody \in BOOLEAN
    /\ call \in {"open", "idle", "header", "body", "free", "freed"}
    /\ at \in {"user", "begin", "enter", "holds", "waits", "left", "stop", "resume",
              "join"}
    /\ taken \in Int /\ result \in [from : 0..pos, text : SUBSET (1..pos)]

\* the user is not in wait() or resume_and_wait(), nor freeing the reader
UserRuns == call = "idle" \/ at \in {"begin", "left"}

\* Control is handed over: while the user of the library runs, the parser
\* stands still or has nothing left to call, so that flags, unit and text,
\* which are read and written without the mutex, are never shared.
HandOff == UserRuns => \/ waiting = {"parser"}
                       \/ isDone

\* The two threads never both wait for the other.
NeverBothWait == waiting # Threads

\* When an archive has been opened the attributes of its root are known,
\* although the root is announced only after the first element below it.
RootFirst == UserRuns /\ ~ isDone => rootSeen

\* The parser writes to a unit only while the call it belongs to waits: not
\* after the unit was returned and may have been freed.
WritesInCall ==
    [][object' # object /\ UNCHANGED <<call, at>> => call \in {"header", "body"}]_vars

\* Every call of the user returns, freeing the reader included.
EveryCallReturns == []<>(call \in {"idle", "freed"})

-----------------------------------------------------------------------------
(* UnitReader implements UnitStream: what it returns are the units of the   *)
(* document, found here from the nesting of the tags alone.                *)

\* how many elements are open after the first n tokens
OpenAfter(d, n) == Cardinality({i \in 1..n : Opens(d[i])})
                   - Cardinality({i \in 1..n : d[i].tag = "end"})

\* the tokens up to the end of the root
Parsed(d) == {p \in 1..Len(d) : \A n \in 1..(p - 1) : OpenAfter(d, n) > 0}
Starts(d) == {p \in Parsed(d) : Opens(d[p])}
Ends(d) == {p \in Parsed(d) : d[p].tag = "end"}

\* the depth of the element of the tag at p
DepthOf(d, p) == OpenAfter(d, IF Opens(d[p]) THEN p ELSE p - 1)

\* the elements that tell an archive from a single unit
Children(d) == {p \in Starts(d) : DepthOf(d, p) = 2 /\ d[p].name # "macro-list"}

Archive(d) == \E p \in Children(d) :
                 /\ d[p].name = "unit"
                 /\ \A i \in Children(d) : p <= i

\* where the units start; that of a single unit is known when it has a child
\* or is complete
UnitStarts(d) ==
    IF Archive(d) THEN {p \in Children(d) : d[p].name = "unit"}
    ELSE {p \in Starts(d) : /\ p = 1
                            /\ Children(d) # {} \/ \E i \in Ends(d) : DepthOf(d, i) = 1}

\* the tokens from a start tag to its end tag, {} when there is none
TextOf(d, p) ==
    LET ends == {i \in Ends(d) : i > p /\ DepthOf(d, i) = DepthOf(d, p)}
    IN  {i \in p..Len(d) : \E e \in ends : i <= e /\ \A f \in ends : e <= f}

\* the number of units that start up to p
Rank(d, p) == Cardinality({q \in UnitStarts(d) : q <= p})

UnitsIn(d) ==
    [k \in 1..Cardinality(UnitStarts(d)) |->
        LET p == CHOOSE q \in UnitStarts(d) : Rank(d, q) = k
        IN  [from |-> p, text |-> TextOf(d, p)]]

Units == [d \in Documents |-> UnitsIn(d)]

\* Reading an archive returns its units in order, each exactly once and with
\* exactly its own text, whatever is skipped in between; after the last, or
\* where the document breaks off, it says so and keeps saying so.
Abstract == INSTANCE UnitStream WITH
    stream <- Units[doc],
    next <- IF taken = -1 THEN Len(Units[doc]) + 1 ELSE taken + 1,
    closed <- call \in {"free", "freed"}

ImplementsUnitStream == Abstract!Spec

\* What libxml2 reports of a document: each end tag has the name of the element
\* it ends, an empty element ends at once, and an error is the last token.
WellFormed(d) ==
    /\ \A p \in Ends(d) : \E q \in Starts(d) :
          /\ q < p /\ DepthOf(d, q) = DepthOf(d, p) /\ d[q].name = d[p].name
          /\ \A r \in Starts(d) : q < r /\ r < p => DepthOf(d, r) # DepthOf(d, p)
    /\ \A p \in Starts(d) : d[p].tag = "empty" => p < Len(d) /\ d[p + 1].tag = "end"
    /\ \A p \in Parsed(d) : d[p].tag = "error" => p = Len(d)

\* What the library writes: a unit that is the root, or is in a root that has
\* only units, after lists of macros, which have no elements.
SrcML(d) ==
    /\ WellFormed(d)
    /\ d # << >> => d[1].tag = "error" \/ (Opens(d[1]) /\ d[1].name = "unit")
    /\ \A p \in Starts(d) : d[p].name = "unit" => p = 1 \/ p \in UnitStarts(d)
    /\ Archive(d) => \A p \in UnitStarts(d), q \in Starts(d) :
                        q > p /\ DepthOf(d, q) = 2 => q \in UnitStarts(d)
    /\ \A p \in Starts(d) : DepthOf(d, p) > 2 => \E c \in Children(d) : c < p

\* Every call returns, and freeing the reader joins its thread, for every
\* document that has a unit before it ends or breaks off.
CallsReturn == Units[doc] # << >> => EveryCallReturns
=============================================================================
