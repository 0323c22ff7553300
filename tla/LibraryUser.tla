----------------------------- MODULE LibraryUser -----------------------------
(***************************************************************************)
(* A program that uses libsrcml to make documents: it registers            *)
(* namespaces and sets options of an archive, builds units or parses       *)
(* sources into them, and writes them to one document after another.  Each *)
(* action is a call of the library that it accepts.  Calls may come in     *)
(* many orders; the guards that only keep a program from misusing the      *)
(* library are gathered under "What programs do".                          *)
(*                                                                         *)
(* described holds, for each unit, what its caller has said: the events of *)
(* its content, with URIs.  It is not part of the library, and is compared *)
(* with what can be read from the files.                                   *)
(***************************************************************************)
EXTENDS ArchiveWriter

CONSTANTS
    Units,
    Registrations,      \* <<prefix, uri>> that archives register
    Toggles,            \* options that are turned off, and on again
    Elements,           \* <<prefix, name, uri>> that are written
    Sources,            \* sequences of events that parsing may produce
    MaxEvents,          \* bound on what is written into a unit, over all its builds
    MaxPieces,          \* bound on what is in a document before a unit is added
    MaxDocuments,       \* bound on the documents
    Reopens,            \* whether an archive is opened again
    Mixes               \* whether a parsed unit is built by elements, too

ASSUME UserAssumption ==
    /\ {Reopens, Mixes} \subseteq BOOLEAN
    /\ {MaxEvents, MaxPieces, MaxDocuments} \subseteq Nat
    /\ Toggles \subseteq {"archive", "hash"}
    /\ Unset \notin Values

VARIABLES
    archive,
    unit,               \* of each of Units
    files,              \* what is in each document's file
    described           \* [events, depth, parsed, said] of each unit

vars == <<archive, unit, files, described>>

Nothing == [events |-> << >>, depth |-> 0, parsed |-> FALSE, said |-> 0]

\* A unit is begun anew.
Begun(d) == [d EXCEPT !.events = << >>, !.depth = 0]

Init ==
    /\ archive = NewArchive
    /\ unit = [u \in Units |-> NewUnit]
    /\ files = << >>
    /\ described = [u \in Units |-> Nothing]

-----------------------------------------------------------------------------
(* What programs do *)

Building(u) == unit[u].unit_translator.exists

\* Options and namespaces are set before units are made.
Early ==
    /\ ~ archive.translator.exists
    /\ \A u \in Units : unit[u] = NewUnit

MayRegister(prefix, uri) ==
    Early /\ \A other \in DOMAIN archive.namespaces :
                 archive.namespaces[other].prefix = prefix => other = uri

\* One unit makes a solitary unit.
HasRoom ==
    LET written == Len(archive.translator.writer.buffer)
    IN  IF "archive" \in archive.options THEN written <= MaxPieces
        ELSE written = 0

MayOpen ==
    /\ archive.type = "INVALID"
    /\ Len(files) < MaxDocuments
    /\ Reopens \/ files = << >>

\* Attributes are written right after the element's start.
InStartTag(u) ==
    /\ Building(u) /\ unit[u].unit_translator.output_unit_depth > 0
    /\ CanWriteAttribute(unit[u].unit_translator.writer)

-----------------------------------------------------------------------------
(* Calls about an archive *)

Open ==
    /\ MayOpen
    /\ files' = Append(files, << >>)
    /\ archive' = WriteOpen(archive, Len(files) + 1)
    /\ UNCHANGED <<unit, described>>

SetOption ==
    /\ Early
    /\ \E option \in Toggles :
          archive' = IF option \in archive.options
                     THEN DisableOption(archive, option)
                     ELSE EnableOption(archive, option)
    /\ UNCHANGED <<unit, files, described>>

Register ==
    /\ \E r \in Registrations :
          /\ MayRegister(r[1], r[2])
          /\ archive' = RegisterArchiveNamespace(archive, r[1], r[2])
    /\ UNCHANGED <<unit, files, described>>

\* Pieces reach the file when its writer is closed.
CloseArchive ==
    /\ archive.type = "WRITE"
    /\ "archive" \in archive.options \/ archive.translator.exists
       \/ archive.rawwrites
    /\ archive' = Close(archive)
    /\ files' = IF archive'.translator.exists /\ ~ archive.translator.closed
                THEN [files EXCEPT ![archive'.translator.file] =
                         archive'.translator.writer.buffer]
                ELSE files
    /\ UNCHANGED <<unit, described>>

\* srcml_archive_write_string, of a document that is written by nothing else
WriteRawString ==
    /\ archive.type = "WRITE" /\ ~ archive.translator.exists
    /\ files[archive.output_buffer] = << >>
    /\ archive' = [archive EXCEPT !.rawwrites = TRUE]
    /\ files' = [files EXCEPT ![archive.output_buffer] =
                    <<<<"text", "raw">>>>]
    /\ UNCHANGED <<unit, described>>

Write(u) ==
    /\ CanWriteUnit(archive, unit[u]) /\ ~ archive.rawwrites
    /\ ~ Building(u) /\ HasRoom
    /\ archive' = WriteUnit(archive, unit[u])
    /\ UNCHANGED <<unit, files, described>>

-----------------------------------------------------------------------------
(* Calls about a unit *)

SetField(u) ==
    /\ \E field \in Fields, value \in Values :
          unit' = [unit EXCEPT ![u] = SetAttribute(@, field, value)]
    /\ UNCHANGED <<archive, files, described>>

StartUnitCall(u) ==
    /\ Mixes \/ ~ described[u].parsed
    /\ unit' = [unit EXCEPT ![u] = WriteStartUnit(archive, @)]
    /\ described' = [described EXCEPT ![u] = Begun(@)]
    /\ UNCHANGED <<archive, files>>

Says(u, event, change) ==
    /\ described[u].said < MaxEvents
    /\ described' = [described EXCEPT ![u].events = Append(@, event),
                                      ![u].depth = @ + change,
                                      ![u].said = @ + 1]
    /\ UNCHANGED <<archive, files>>

StartElementCall(u) ==
    /\ Building(u)
    /\ \E e \in Elements :
          /\ unit' = [unit EXCEPT
                        ![u] = WriteStartElement(archive, @, e[1], e[2], e[3])]
          /\ Says(u, <<"start", e[3], e[2]>>, 1)

AttributeCall(u) ==
    /\ InStartTag(u)
    /\ unit' = [unit EXCEPT ![u] = WriteElementAttribute(@, "name", "value")]
    /\ Says(u, <<"attribute", "name", "value">>, 0)

StringCall(u) ==
    /\ Building(u)
    /\ unit' = [unit EXCEPT ![u] = WriteString(@, "text")]
    /\ Says(u, <<"text", "text">>, 0)

EndElementCall(u) ==
    /\ Building(u) /\ described[u].depth > 0
    /\ unit' = [unit EXCEPT ![u] = WriteEndElement(@)]
    /\ Says(u, <<"end">>, -1)

\* What is open is ended.
Ended(d) == [d EXCEPT !.events = @ \o [i \in 1..d.depth |-> <<"end">>],
                      !.depth = 0]

EndUnitCall(u) ==
    /\ Building(u)
    /\ unit' = [unit EXCEPT ![u] = WriteEndUnit(archive, @, FALSE)]
    /\ described' = [described EXCEPT ![u] = Ended(@)]
    /\ UNCHANGED <<archive, files>>

ParseCall(u) ==
    /\ \E i \in 1..Len(Sources) :
          /\ unit' = [unit EXCEPT ![u] =
                        Parse(archive, @, ToString(i), Sources[i])]
          /\ described' = [described EXCEPT ![u] =
                              [@ EXCEPT !.events = Sources[i], !.depth = 0,
                                         !.parsed = TRUE]]
    /\ UNCHANGED <<archive, files>>

GetSrcCall(u) ==
    /\ unit[u].read_body /\ ~ Building(u)
    /\ unit' = [unit EXCEPT ![u] = GetSrc(@)]
    /\ UNCHANGED <<archive, files, described>>

\* srcml_unit_free and srcml_unit_clone: another unit takes its place
FreeAndClone(u) ==
    /\ unit' = [unit EXCEPT ![u] = Clone(@)]
    /\ described' = [described EXCEPT ![u] = Begun(@)]
    /\ UNCHANGED <<archive, files>>

UnitCall(u) ==
    \/ SetField(u) \/ StartUnitCall(u) \/ StartElementCall(u)
    \/ AttributeCall(u) \/ StringCall(u) \/ EndElementCall(u)
    \/ EndUnitCall(u) \/ ParseCall(u) \/ GetSrcCall(u) \/ FreeAndClone(u)

Next ==
    \/ Open \/ SetOption \/ Register \/ CloseArchive \/ WriteRawString
    \/ \E u \in Units : UnitCall(u) \/ Write(u)

Spec == Init /\ [][Next]_vars

-----------------------------------------------------------------------------
(* Reading a document back *)

\* Splits the events of a document into those of its units, which are nested
\* in the root of an archive.
UnitEvents(events, nesting) ==
    LET Next1(r, e) ==
            LET depth == IF e[1] = "start" THEN r.depth + 1
                         ELSE IF e[1] = "end" THEN r.depth - 1 ELSE r.depth
                inside == depth > nesting \/ r.depth > nesting
                sofar == IF inside THEN Append(r.unit, e) ELSE << >>
            IN  IF inside /\ depth = nesting
                THEN [depth |-> depth, unit |-> << >>,
                      units |-> Append(r.units, sofar)]
                ELSE [r EXCEPT !.depth = depth, !.unit = sofar]
    IN  Fold(Next1, [depth |-> 0, unit |-> << >>, units |-> << >>],
                 events).units

\* the declarations and the attributes in the first tag of some events
Tag(events) ==
    LET last == SelectInSeq(Tail(events),
                            LAMBDA e : e[1] \notin {"xmlns", "attribute"})
    IN  SubSeq(events, 2, IF last = 0 THEN Len(events) ELSE last)

Declared(tag) == SelectSeq(tag, LAMBDA e : e[1] = "xmlns")

\* A tag declares a prefix once.
DeclaresOnce(tag) ==
    \A i, j \in DOMAIN Declared(tag) :
        Declared(tag)[i][2] = Declared(tag)[j][2] => i = j

\* The URI that a prefix stands for where some tags are in scope, the
\* innermost first
UriOf(prefix, tags) ==
    LET inner == SelectSeq(FlattenSeq([i \in DOMAIN tags |-> Declared(tags[i])]),
                           LAMBDA e : e[2] = prefix)
    IN  IF inner = << >> THEN "undeclared" ELSE Head(inner)[3]

Attributes(tag) ==
    {<<e[2], e[3]>> : e \in {tag[i] : i \in {j \in DOMAIN tag :
                                             tag[j][1] = "attribute"}}}

\* what the events of a unit mean in the root's scope
MeaningRead(events, root) ==
    With(Tag(events), LAMBDA tag :
        LET Resolved(e) ==
                IF e[1] # "start" THEN e
                ELSE <<"start", UriOf(e[2][1], <<tag, root>>), e[2][2]>>
            content == SubSeq(events, Len(tag) + 2, Len(events) - 1)
        IN  [attributes |-> Attributes(tag),
             events |-> [i \in DOMAIN content |-> Resolved(content[i])],
             readable |-> DeclaresOnce(tag)
                          /\ UriOf(Head(events)[2][1], <<tag, root>>) = "src"])

MeaningsRead(pieces, isArchive) ==
    With(Read(pieces).events, LAMBDA events :
        With([units |-> UnitEvents(events, IF isArchive THEN 1 ELSE 0),
              root |-> IF isArchive /\ events # << >> THEN Tag(events)
                       ELSE << >>],
             LAMBDA r : [i \in DOMAIN r.units |->
                            MeaningRead(r.units[i], r.root)]))

\* what has been written to a file, closed or not
Written(f) ==
    LET t == archive.translator
    IN  IF t.exists /\ ~ t.closed /\ t.file = f THEN t.writer.buffer
        ELSE files[f]

-----------------------------------------------------------------------------
(* Properties *)

Meaning(u) ==
    [attributes |-> {<<f, unit[u].attributes[f]>> :
                        f \in {g \in Fields : unit[u].attributes[g] # Unset}},
     events |-> described[u].events, readable |-> TRUE]

NoMeaning == [attributes |-> {}, events |-> << >>, readable |-> FALSE]

Built(u) == unit[u].read_body /\ ~ Building(u)

\* A unit that is built, from its new start tag and the old buffer, is well
\* formed, and says what was described, with its prefixes declared on it.
\* While it is being built, the depth that add_start_element and
\* add_end_element count is the number of elements open in the writer, so the
\* loop of srcml_write_end_unit ends what is open and no more.
WellBuilt ==
    \A u \in Units :
        /\ Building(u) =>
            /\ unit[u].unit_translator.output_unit_depth = described[u].depth
            /\ Len(unit[u].unit_translator.writer.nodes)
                   = described[u].depth + 1
        /\ Built(u) =>
            /\ WellFormed(unit[u].srcml)
            /\ LET read == MeaningsRead(unit[u].srcml, FALSE)
               IN  Len(read) = 1 /\ read[1].readable
                   /\ read[1].events = described[u].events

\* The offsets kept in a unit mark its content in the text that was put
\* together, where the start tag may be longer than when they were measured,
\* and a unit with an attribute is an element without its first declaration.
InnerIsContent ==
    \A u \in Units :
        Built(u) =>
            LET all == Read(unit[u].srcml).events
            IN  /\ WellFormed(Inner(unit[u]))
                /\ Read(Inner(unit[u])).events
                       = SubSeq(all, Len(Tag(all)) + 2, Len(all) - 1)
                /\ Attributes(Tag(all)) # {} => WellFormed(Outer(unit[u]))

\* A document whose archive is closed is complete: one element, unless it
\* was written as text.
Complete ==
    \A f \in DOMAIN files :
        archive.type = "INVALID" \/ f < Len(files) =>
            \/ Len(Read(files[f]).events) > 1 /\ WellFormed(files[f])
            \/ files[f] = <<<<"text", "raw">>>>

Abstract ==
    INSTANCE Documents WITH
        Undescribed <- NoMeaning,
        meaning <- [u \in Units |-> IF Built(u) THEN Meaning(u)
                                    ELSE NoMeaning],
        documents <- [f \in DOMAIN files |->
                         MeaningsRead(Written(f), "archive" \in archive.options)]

\* Documents hold the units that were written, each as it was described.
ImplementsDocuments == Abstract!Spec
=============================================================================
