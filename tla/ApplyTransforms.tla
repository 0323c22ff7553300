-------------------------- MODULE ApplyTransforms --------------------------
(***************************************************************************)
(* A caller, or the options of the client, append transformations to an    *)
(* archive and apply them to a unit: the first to the unit's document,     *)
(* each other to every result of the one before.                           *)
(* srcml_unit_apply_transforms() does this in place: a result is made the  *)
(* root of the document, the nodes the next transformation finds there are *)
(* collected, and what is left at the end are units.                       *)
(***************************************************************************)
EXTENDS Transformations

CONSTANTS
    Cases,          \* documents, which are forests with one tree, whose root is
                    \* node 1; with each, sequences of calls that append
                    \* transformations, and sequences of options of the client
    Declared,       \* the names whose prefix the archive has a namespace for
    HasItem         \* what the unit has for the attribute item: its parts

VARIABLES
    options, calls,     \* still to be looked at, still to be made
    transformations,    \* of the archive
    client,             \* the caller is the client
    wanted,             \* the caller passes a place for the result
    unit, item,         \* the document of the unit, and its attribute
    forest,             \* the nodes of all documents
    curdoc,             \* the document transformations are applied to
    step, at,           \* the transformation and the node it is applied to
    pr,                 \* the results of the transformation before
    fullresults,        \* those of this one
    lastresult,         \* what the last application returned
    result,             \* what the caller gets
    status,
    solitary,           \* the output archive of the client is for one unit
    output,             \* what is written to it
    pc                  \* "append", "read", "apply", "step", "finish",
                        \* "write", "done", or "undefined", once freed memory
                        \* is read

archiveVars == <<options, calls, transformations>>
callVars == <<client, wanted, unit, item>>
loopVars == <<forest, curdoc, step, at, pr, fullresults, lastresult>>
outputVars == <<solitary, output>>
vars == <<archiveVars, callVars, loopVars, outputVars, result, status, pc>>

-----------------------------------------------------------------------------
NoneWanted == [type |-> "not wanted"]
ResultNone == [type |-> "none", units |-> << >>, value |-> 0]

Init ==
    /\ \E case \in Cases :
          /\ unit = case.document
          /\ \/ /\ client = TRUE /\ wanted = TRUE
                /\ options \in case.requests /\ calls = << >>
             \/ /\ client = FALSE /\ wanted \in BOOLEAN
                /\ options = << >> /\ calls \in case.scripts
    /\ transformations = << >>
    /\ item \in HasItem
    /\ forest = NoForest
    /\ curdoc = 1 /\ step = 1 /\ at = 1
    /\ pr = << >> /\ fullresults = << >> /\ lastresult = NoResult
    /\ result = NoneWanted /\ status = "OK" /\ pc = "append"
    /\ solitary = TRUE /\ output = << >>

ClientOption ==
    /\ pc = "append" /\ calls = << >> /\ options # << >>
    /\ \E cs \in {CallsFor(Head(options), Declared)} :
          IF cs = NoCalls
          THEN pc' = "done" /\ status' = "exit" /\ UNCHANGED calls
          ELSE calls' = cs /\ UNCHANGED <<status, pc>>
    /\ options' = Tail(options)
    /\ solitary' = (solitary /\ ~ DisablesSolitary(Head(options)))
    /\ UNCHANGED <<transformations, callVars, loopVars, output, result>>

AppendTransform ==
    /\ pc = "append" /\ calls # << >>
    /\ transformations' = AppendCall(transformations, Head(calls))
    /\ calls' = Tail(calls)
    /\ UNCHANGED <<options, callVars, loopVars, outputVars, result, status, pc>>

-----------------------------------------------------------------------------
(* srcml_unit_apply_transforms *)

\* The client writes the result, whatever the call returns.
Ended == IF client THEN "write" ELSE "done"

\* Without transformations nothing is done.
StartApply ==
    /\ pc = "append" /\ calls = << >> /\ options = << >>
    /\ IF transformations = << >>
       THEN pc' = Ended /\ UNCHANGED result
       ELSE pc' = "read" /\ result' = IF wanted THEN ResultNone ELSE NoneWanted
    /\ UNCHANGED <<archiveVars, callVars, loopVars, outputVars, status>>

\* xmlReadMemory
ReadUnit ==
    /\ pc = "read"
    /\ forest' = unit /\ pr' = <<1>> /\ pc' = "apply"
    /\ UNCHANGED <<archiveVars, callVars, curdoc, step, at, fullresults,
                   lastresult, outputVars, result, status>>

\* the unit is not well-formed
ReadFails ==
    /\ pc = "read"
    /\ status' = "ERROR" /\ pc' = Ended
    /\ UNCHANGED <<archiveVars, callVars, loopVars, outputVars, result>>

\* documents that are freed: those no pointer is left to
Freed(doc) == doc \notin {1, curdoc, lastresult.doc}

Dangling(n) == Freed(forest.doc[n])

\* xmlXPathNodeSetMerge
MergeNodes(all, nodes) ==
    all \o SelectSeq(nodes, LAMBDA n : ~ Contains(all, n))

NewDoc == 1 + FoldLeft(LAMBDA x, y : IF x > y THEN x ELSE y, 1, forest.doc)

\* One result of the transformation before becomes the root.  With no result
\* the others are not looked at.
ApplyOne ==
    /\ pc = "apply" /\ at <= Len(pr)
    /\ IF Dangling(pr[at])
       THEN pc' = "undefined" /\ UNCHANGED loopVars
       ELSE \E x \in {ApplyTo(transformations[step],
                              SetRoot(forest, pr[at], curdoc), pr[at], NewDoc)} :
            /\ forest' = x.f
            /\ lastresult' = [x.r EXCEPT !.nodes = NoNodes]
            /\ IF x.r.nodes = NoNodes
               THEN pc' = "step" /\ UNCHANGED <<at, fullresults>>
               ELSE /\ fullresults' = MergeNodes(fullresults, x.r.nodes)
                    /\ at' = at + 1
                    /\ pc' = IF at = Len(pr) THEN "step" ELSE pc
            /\ UNCHANGED <<curdoc, step, pr>>
    /\ UNCHANGED <<archiveVars, callVars, outputVars, result, status>>

\* mutant: the document that was read stays the current one
NextDocNever == curdoc

NextDoc == IF lastresult.doc \notin {0, 1} THEN lastresult.doc ELSE curdoc

\* The next transformation, as long as there are results; the units of the
\* result are cleared also where there is no result.
NextTransform ==
    /\ pc = "step" /\ step < Len(transformations)
    /\ curdoc' = NextDoc
    /\ IF fullresults # << >>
       THEN /\ step' = step + 1 /\ at' = 1 /\ pc' = "apply"
            /\ pr' = fullresults /\ fullresults' = << >>
       ELSE /\ pc' = IF wanted THEN "finish" ELSE "undefined"
            /\ UNCHANGED <<step, at, pr, fullresults>>
    /\ UNCHANGED <<archiveVars, callVars, forest, lastresult, outputVars, result,
                   status>>

LastTransform ==
    /\ pc = "step" /\ step = Len(transformations)
    /\ curdoc' = NextDoc
    /\ pc' = IF fullresults = << >> /\ ~ wanted THEN "undefined" ELSE "finish"
    /\ UNCHANGED <<archiveVars, callVars, forest, step, at, pr, fullresults,
                   lastresult, outputVars, result, status>>

-----------------------------------------------------------------------------
(* The result *)

\* mutant: the number of results in place of that of the result
ItemOfLast(i) ==
    IF lastresult.wrapped THEN item ELSE Append(item, Len(fullresults))

\* the attribute of the i-th unit
ItemOf(i) ==
    IF lastresult.wrapped \/ (item # << >> /\ Len(fullresults) = 1) THEN item
    ELSE Append(item, i)

ResultUnit(i) ==
    LET n == fullresults[i]
    IN  [content |-> Shown(forest, n, lastresult.wrapped), item |-> ItemOf(i),
         cpp |-> UsesCpp(forest, n)]

Scalar == lastresult.type \in {"number", "string"}

Finish ==
    /\ pc = "finish"
    /\ LET units == IF lastresult.type = "units" THEN DOMAIN fullresults ELSE {}
       IN  IF wanted /\ \E i \in units : Dangling(fullresults[i])
           THEN pc' = "undefined" /\ UNCHANGED <<result, status>>
           ELSE /\ pc' = Ended
                /\ status' = IF Scalar /\ ~ wanted THEN "ERROR" ELSE status
                /\ result' = IF ~ wanted THEN result
                             ELSE [type |-> lastresult.type,
                                   units |-> [i \in units |-> ResultUnit(i)],
                                   value |-> lastresult.value]
    /\ UNCHANGED <<archiveVars, callVars, loopVars, outputVars>>

-----------------------------------------------------------------------------
(* srcml_consume and srcml_write_request, of the client *)

\* the units of the result are written, the unit itself if there is none, and
\* nothing where the result is no unit
UnitsWritten ==
    IF result = NoneWanted THEN <<[content |-> Shown(unit, 1, TRUE)]>>
    ELSE [i \in 1..srcml_transform_get_unit_size(result) |->
             srcml_transform_get_unit(result, i)]

\* a number or text
TextWritten ==
    CASE srcml_transform_get_type(result) = "number" ->
            <<[text |-> srcml_transform_get_number(result)]>>
      [] srcml_transform_get_type(result) = "string" ->
            <<[text |-> srcml_transform_get_string(result)]>>
      [] OTHER -> << >>

\* Several units cannot be alone.
WriteResult ==
    /\ pc = "write"
    /\ solitary' = (solitary /\ Len(UnitsWritten) <= 1)
    /\ output' = TextWritten \o UnitsWritten
    /\ pc' = "done"
    /\ UNCHANGED <<archiveVars, callVars, loopVars, result, status>>

Done == pc \in {"done", "undefined"} /\ UNCHANGED vars

Next ==
    \/ ClientOption \/ AppendTransform \/ StartApply \/ ReadUnit \/ ReadFails
    \/ ApplyOne \/ NextTransform \/ LastTransform
    \/ Finish \/ WriteResult \/ Done

Spec == Init /\ [][Next]_vars

-----------------------------------------------------------------------------
(* Transformations as functions, on results that share nothing *)

\* what t makes of one result
Outcome(t, x) == ApplyTo(t, SetRoot(x.f, x.n, 1), x.n, 2)

OutputsOf(y) ==
    IF y.r.nodes = NoNodes THEN << >>
    ELSE [i \in DOMAIN y.r.nodes |->
             [f |-> y.f, n |-> y.r.nodes[i], wrapped |-> y.r.wrapped]]

Outputs(t, x) == OutputsOf(Outcome(t, x))

\* the results after none, one, two, ... of the transformations
Stages ==
    FoldLeft(LAMBDA stages, t :
                Append(stages, Joint(LAMBDA x : Outputs(t, x), Last(stages))),
             << <<[f |-> unit, n |-> 1, wrapped |-> TRUE]>> >>, transformations)

Programs == {"copy", "split", "text"}

Overlap(x, y) ==
    /\ x.f = y.f
    /\ Contains(Below(x.f)[x.n], y.n) \/ Contains(Below(x.f)[y.n], x.n)

\* The chain keeps to what can be done in place: results none of which is part
\* of another, a program for one document, a value last, and no result of a
\* transformation unless each of its inputs has one.
Plain(stages) ==
    \A k \in DOMAIN transformations :
        LET t == transformations[k]
            inputs == stages[k]
        IN  /\ t.op \in Programs \cup {"count"} => Len(inputs) <= 1
            /\ t.op \in {"count", "text"} => k = Len(transformations)
            /\ \A i, j \in DOMAIN inputs : i < j => ~ Overlap(inputs[i], inputs[j])
            /\ {i \in DOMAIN inputs : Outputs(t, inputs[i]) = << >>}
               \in {{}, DOMAIN inputs}

-----------------------------------------------------------------------------
(* What a query in srcQL asks for *)

\* An element of a pattern stands for an element with the same name, and text,
\* that has what is in it in the same order; specifiers are in any.  A variable
\* stands for an element, and has one text wherever it is used.
RECURSIVE Fits(_, _, _, _), FitInOrder(_, _, _, _)

Fits(p, d, n, val) ==
    LET specifiers == {i \in DOMAIN p.kids : p.kids[i].label = "specifier"}
        others == SelectSeq(p.kids, LAMBDA k : k.label # "specifier")
    IN  IF is_variable_node(p)
        THEN /\ ValidElement(d, n)
             /\ p.variable[1] \in DOMAIN val => NodeText(d, n) = val[p.variable[1]]
        ELSE /\ n # 0
             /\ d.f.label[n] \in {p.label} \cup ToSet(OrDeclaration(p, d.f.language))
             /\ \A a \in ToSet(p.attributes) : Told(d, n, a, UnificationTable).b
             /\ p.kids = << >> /\ is_primitive_element(p) => d.f.text[n] = p.text
             /\ FitInOrder(others, d, Children(d, n), val)
             /\ \A i \in specifiers : \E m \in ToSet(Children(d, n)) :
                    Fits(p.kids[i], d, m, val)

FitInOrder(ps, d, ms, val) ==
    ps = << >> \/ \E i \in DOMAIN ms :
                    /\ Fits(ps[1], d, ms[i], val)
                    /\ FitInOrder(Tail(ps), d, SubSeq(ms, i + 1, Len(ms)), val)

\* a whole argument
ArgumentFits(arg, d, n, val) ==
    LET ps == Parsed(arg, d.f.language)
        label == arg.text[1].v[1]
    IN  IF arg.kind \in {"pattern", "not"}
        THEN /\ Fits(ps[1], d, n, val)
             /\ FitInOrder(Tail(ps), d, OnAxis(d, "following-sibling", n), val)
        ELSE n # 0 /\ d.f.label[n] = label

RECURSIVE VariablesOf(_)
VariablesOf(p) == p.variable \o Joint(VariablesOf, p.kids)

\* the variables of an argument, once for each use
Variables(arg, d) == Joint(VariablesOf, Parsed(arg, d.f.language))

\* what occurs in a sequence more than once
Repeated(s) == {v \in ToSet(s) : Len(SelectSeq(s, LAMBDA x : x = v)) > 1}

Elements(d) == ToSet(d.nodes) \ {0}
Texts(d) == {NodeText(d, m) : m \in Elements(d)}

\* an argument of a clause, which has variables of its own
FitsAlone(arg, d, n) ==
    /\ ArgumentFits(arg, d, n, << >>)
    /\ \E val \in [Repeated(Variables(arg, d)) -> Texts(d)] : ArgumentFits(arg, d, n, val)

\* an argument, below an element
Fitting(arg, d, n) ==
    SelectSeq(OnAxis(d, IF arg.kind = "next" THEN "child" ELSE "descendant", n),
              LAMBDA m : FitsAlone(arg, d, m))

Enough(count, rest) ==
    Compares(rest[1].t, NumberValue(count, UnificationTable),
             NumberValue(rest[2].n, UnificationTable))

\* a clause of WITH or WHERE, but for MATCH
ClauseHolds(arg, d, n) ==
    CASE arg.kind = "with" -> Told(d, n, arg.text[1], UnificationTable).b
      [] arg.kind = "not" -> ~ FitsAlone(arg, d, n)
      [] arg.kind = "count" ->
            \A part \in ToSet(arg.parts) : Enough(Len(Fitting(part.arg, d, n)), part.rest)

\* A query, read from left to right: terms, between which there are set
\* operations, each of selections from one another, each with what it contains.
\* WITHIN is of the expression before it, other clauses of the argument.
Read(words) ==
    LET Item(arg) == [arg |-> arg, clauses |-> << >>]
        Start(arg) == [contents |-> << [follows |-> FALSE, items |-> <<Item(arg)>>] >>,
                       matches |-> << >>]
        InTerm(x, g(_)) == [x EXCEPT !.terms[Len(x.terms)].selections = g(@)]
        InLast(x, g(_)) == InTerm(x, LAMBDA ss : [ss EXCEPT ![Len(ss)] = g(@)])
        InItems(x, g(_)) ==
            InLast(x, LAMBDA s : [s EXCEPT !.contents[Len(s.contents)].items = g(@)])
        Clause(x, arg) ==
            IF arg.kind = "match"
            THEN InLast(x, LAMBDA s : [s EXCEPT !.matches = Append(@, arg)])
            ELSE InItems(x, LAMBDA is :
                     [is EXCEPT ![Len(is)].clauses = Append(@, arg)])
        Take(x, w) ==
            IF w.word \in {"FIND", "BY"} THEN x
            ELSE IF w.word # "argument" THEN [x EXCEPT !.op = w.word]
            ELSE CASE x.op \in SetOperations \cup {"FIND"} ->
                        [x EXCEPT !.terms = Append(@,
                            [op |-> x.op, selections |-> <<Start(w.arg)>>])]
                   [] x.op = "FROM" -> InTerm(x, LAMBDA ss : Append(ss, Start(w.arg)))
                   [] x.op \in {"CONTAINS", "FOLLOWED"} ->
                        InLast(x, LAMBDA s : [s EXCEPT !.contents = Append(@,
                            [follows |-> x.op = "FOLLOWED", items |-> <<Item(w.arg)>>])])
                   [] x.op = "WITHIN" -> InItems(x, LAMBDA is : Append(is, Item(w.arg)))
                   [] OTHER -> Clause(x, w.arg)
    IN  FoldLeft(Take, [op |-> "FIND", terms |-> << >>], words).terms

ItemFits(one, d, n, val) ==
    /\ ArgumentFits(one.arg, d, n, val)
    /\ \A arg \in ToSet(one.clauses) : ClauseHolds(arg, d, n)

\* the first is the element, the others are around it
ItemsFit(items, d, n, val) ==
    \A i \in DOMAIN items :
        \E m \in IF i = 1 THEN {n} ELSE ToSet(OnAxis(d, "ancestor", n)) :
            ItemFits(items[i], d, m, val)

\* from the k-th on, what an element contains, one behind the other where it is to
\* follow
RECURSIVE HasContents(_, _, _, _, _, _)
HasContents(contents, k, d, n, before, val) ==
    k > Len(contents) \/
    \E m \in ToSet(OnAxis(d, "descendant", n)) :
       /\ contents[k].follows => Contains(OnAxis(d, "following", before), m)
       /\ ItemsFit(contents[k].items, d, m, val)
       /\ HasContents(contents, k + 1, d, n, m, val)

\* the variables of a selection, once for each use
Uses(s, d) ==
    LET InItems(items) == Joint(LAMBDA i : Variables(i.arg, d), items)
    IN  Joint(LAMBDA c : InItems(c.items), s.contents)

SelectionFits(s, d, n, val) ==
    /\ ItemsFit(s.contents[1].items, d, n, val)
    /\ HasContents(s.contents, 2, d, n, n, val)

\* what a selection asks of an element
Selected(s, d, n) ==
    LET RulesOf(name) ==
            {<<name, m.text[2].v>> :
                m \in {x \in ToSet(s.matches) : x.text[1].v[1] = name}}
        Allowed(name) ==
            {text \in Texts(d) :
                check_regex([UnificationTable EXCEPT !.rules = RulesOf(name)], name, text)}
        names == Repeated(Uses(s, d)) \cup
                 {s.matches[i].text[1].v[1] : i \in DOMAIN s.matches}
    IN  /\ SelectionFits(s, d, n, << >>)
        /\ \E val \in [names -> Texts(d)] :
              /\ \A name \in names : val[name] \in Allowed(name)
              /\ SelectionFits(s, d, n, val)

\* the elements selected from those of the next selections
RECURSIVE FromSelected(_, _)
FromSelected(ss, d) ==
    {n \in ToSet(d.nodes) \ {0} :
        /\ Selected(ss[1], d, n)
        /\ Len(ss) > 1 =>
              LET over == FromSelected(Tail(ss), d)
              IN  IF ss[1].contents[1].items[1].arg.kind = "next"
                  THEN OnAxis(d, "ancestor", n)[1] \in over
                  ELSE ToSet(OnAxis(d, "ancestor", n)) \cap over # {}}

SetOperation(op, found, this) ==
    CASE op = "DIFFERENCE" -> found \ this
      [] op = "INTERSECT" -> found \cap this
      [] OTHER -> found \cup this

\* what a query asks for, nothing where there is nothing to look for
AskedFor(words, d) ==
    LET terms == IF words[2].word = "argument" THEN Read(words) ELSE << >>
    IN  FoldLeft(LAMBDA found, k :
                    SetOperation(terms[k].op, found, FromSelected(terms[k].selections, d)),
                 {}, Indices(terms))

\* No specifier is behind two or more siblings that are none, all but the first
\* of which would be dropped: the name of a method that is const, say.
RECURSIVE KeepsParts(_)
KeepsParts(p) ==
    /\ \A i \in 3..Len(p.kids) :
          p.kids[i].label = "specifier" =>
              "specifier" \in {p.kids[i - 1].label, p.kids[i - 2].label}
    /\ \A i \in DOMAIN p.kids : KeepsParts(p.kids[i])

\* What is to follow must be in an element that fits and is around both, not in
\* the one selected: none of those may be in another, with the same texts for
\* its variables.
Apart(s, d) ==
    LET arg == s.contents[1].items[1].arg
        fitting == {n \in Elements(d) : ArgumentFits(arg, d, n, << >>)}
    IN  (\E i \in DOMAIN s.contents : s.contents[i].follows) =>
            \A n \in fitting : \A m \in fitting \cap ToSet(OnAxis(d, "ancestor", n)) :
                ~ \E val \in [ToSet(Variables(arg, d)) -> Texts(d)] :
                      ArgumentFits(arg, d, m, val) /\ ArgumentFits(arg, d, n, val)

\* The table does not keep which texts were met together, and has no element for
\* two uses of a variable: two arguments of a selection have one variable in
\* common at most, and none if both may stand for one element.
Distinct(s, d) ==
    LET args == Joint(LAMBDA c : Each(LAMBDA i : i.arg, c.items), s.contents)
        Common(i, j) == ToSet(Variables(args[i], d)) \cap ToSet(Variables(args[j], d))
    IN  \A i, j \in DOMAIN args :
           i < j => /\ Cardinality(Common(i, j)) <= 1
                    /\ Common(i, j) # {} => args[i] # args[j]

\* The expression can say what the query asks for.
Expressible(words, d) ==
    LET given == {i \in DOMAIN words : words[i].word = "argument"}
        args == {words[i].arg : i \in given}
        counted == UNION {{part.arg : part \in ToSet(arg.parts)} : arg \in args}
        terms == IF words[2].word = "argument" THEN Read(words) ELSE << >>
    IN  /\ \A arg \in args \cup counted : \A p \in ToSet(arg.tree) : KeepsParts(p)
        /\ \A k \in DOMAIN terms : \A s \in ToSet(terms[k].selections) :
              Apart(s, d) /\ Distinct(s, d)

-----------------------------------------------------------------------------
(* Properties *)

Applies == transformations # << >> /\ status = "OK" /\ wanted

Contents(units) == [i \in DOMAIN units |-> units[i].content]

\* what the last of the transformations says of its inputs
Values(stages) ==
    LET k == Len(transformations)
    IN  {Outcome(transformations[k], x).r.value : x \in ToSet(stages[k])}

\* what the caller gets, or the client writes, are the results at the end
Matches(stages) ==
    LET results == Last(stages)
        type == srcml_transform_get_type(result)
        size == srcml_transform_get_unit_size(result)
        given == [i \in 1..size |-> srcml_transform_get_unit(result, i)]
        contents == [i \in DOMAIN results |->
                        Shown(results[i].f, results[i].n, results[i].wrapped)]
    IN  /\ type = "units" =>
              /\ Contents(given) = contents
              /\ client => Contents(output) = contents
        /\ type = "none" => results = << >> /\ output = << >>
        /\ type \in {"number", "string"} =>
              \E value \in Values(stages) :
                 /\ value = IF type = "number" THEN srcml_transform_get_number(result)
                            ELSE srcml_transform_get_string(result)
                 /\ client => output = <<[text |-> value]>>

\* Transforming one document in place, with results moved in and out of its
\* root and documents freed on the way, gives what the transformations give
\* one after the other, each on a copy of every result of the one before.
Composed ==
    pc \in {"done", "undefined"} /\ Applies =>
        \E stages \in {Stages} :
            Plain(stages) => /\ pc = "done"
                             /\ Matches(stages)

\* A query in srcQL finds what it asks for, no more and no less: the XPath
\* expression that is put together of its parts in several passes keeps each
\* clause with the part it is of, and the uses of a variable with their selection;
\* and the table that the functions called on the way fill and empty lets the
\* uses of a variable stand for elements with one text only
\* (XPathGenerator::convert, UnificationTable).
Meant ==
    LET t == transformations[1]
        alone == /\ Len(transformations) = 1 /\ t.op = "query" /\ t.key[1] = "srcql"
                 /\ t.element = None /\ t.attribute = None
    IN  pc = "done" /\ Applies /\ alone =>
        \E d \in {View(unit, 1)} :
           Expressible(Query[t.on], d) =>
              /\ Len(fullresults) = srcml_transform_get_unit_size(result)
              /\ ToSet(fullresults) = AskedFor(Query[t.on], d)

\* The units that parts of one unit are made into can be told apart by their
\* item, and each declares the namespaces of what is left in it; where the
\* client writes several, the archive is not one for a single unit.
Identified ==
    pc = "done" /\ Applies /\ result.type = "units"
    => /\ ~ lastresult.wrapped => IsInjective([i \in DOMAIN result.units |->
                                                  result.units[i].item])
       /\ \A i \in DOMAIN result.units :
             result.units[i].cpp
             <=> \E e \in ToSet(result.units[i].content) : e[1] = Cpp
       /\ Len(output) > 1 => ~ solitary
=============================================================================
