--------------------------- MODULE XPathGenerator ---------------------------
(***************************************************************************)
(* XPathGenerator: the XPath expression that a query in srcQL is converted *)
(* to.  A query is a sequence of words: those of srcQL, and arguments.     *)
(* An argument is a tag, an XPath of one step, or a pattern, which is the  *)
(* tree srcML makes of a piece of source code, with variables; after WHERE *)
(* and WITH it is a condition.                                             *)
(*                                                                         *)
(* The expression is put together in trees of XPathNodes, whose text is a  *)
(* sequence of tokens here.  A call of one of srcQL's own functions is one *)
(* token, with the name of a bucket and a number.                          *)
(***************************************************************************)
EXTENDS Integers, Sequences, SequencesExt, FiniteSetsExt, TLC

Tok(t, v, n) == [t |-> t, v |-> v, n |-> n]
Sign(t) == Tok(t, << >>, 0)
Name(l) == Tok("name", <<l>>, 0)
Axis(a) == Tok("axis", <<a>>, 0)
Call(f) == Tok("call", <<f>>, 0)
Literal(words) == Tok("literal", words, 0)
Number(n) == Tok("number", << >>, n)

\* What F makes of the members of s; for the empty sequence behind it TLC makes
\* it once, not again for every use.
Each(F(_), s) == [i \in DOMAIN s |-> F(s[i])] \o << >>

\* the same, of an F that makes sequences, one behind another
Joint(F(_), s) == FlattenSeq(Each(F, s))

Indices(s) == [i \in DOMAIN s |-> i]

-----------------------------------------------------------------------------
(* XPathNode *)

XPathNode(text, type, children) == [text |-> text, type |-> type, children |-> children]

Empty(type, children) == XPathNode(<< >>, type, children)

set_type(node, type) == [node EXCEPT !.type = type]
set_text(node, text) == [node EXCEPT !.text = text]
add_child(node, child) == [node EXCEPT !.children = Append(@, child)]
add_child_beginning(node, child) == [node EXCEPT !.children = <<child>> \o @]

Opens(type) ==
    CASE type = "PREDICATE" -> <<Sign("[")>>
      [] type = "PARENTHESES" -> <<Sign("(")>>
      [] type = "NEXT" -> <<Sign("/")>>
      [] type = "ANY" -> <<Sign("//")>>
      [] type = "UNION" -> <<Sign("|")>>
      [] OTHER -> << >>

\* The arguments of a call end before the first union, which is joined to the
\* call; what is behind it is not printed.
FirstUnion(children) ==
    LET i == SelectInSeq(children, LAMBDA c : c.type = "UNION")
    IN  IF i = 0 THEN Len(children) + 1 ELSE i

Separated(texts) ==
    Joint(LAMBDA i : (IF i > 1 THEN <<Sign(",")>> ELSE << >>) \o texts[i], Indices(texts))

\* a node whose children have these texts
Printed(node, texts, first) ==
    Opens(node.type)
    \o (IF node.type = "UNION" THEN << >> ELSE node.text)
    \o (IF node.type = "PARENTHESES" THEN <<Sign(")")>> ELSE << >>)
    \o (IF node.type = "CALL"
        THEN <<Sign("(")>> \o Separated(SubSeq(texts, 1, first - 1)) \o <<Sign(")")>>
             \o FlattenSeq(SubSeq(texts, first, Min({first, Len(texts)})))
        ELSE FlattenSeq(texts))
    \o (IF node.type = "PREDICATE" THEN <<Sign("]")>> ELSE << >>)

RECURSIVE to_string(_)
to_string(node) ==
    Printed(node, Each(to_string, node.children), FirstUnion(node.children))

-----------------------------------------------------------------------------
(* Patterns *)

\* An element of a pattern; one whose text is a variable has its name.
Element(label, text, kids) ==
    [label |-> label, text |-> text, kids |-> kids, variable |-> << >>,
     attributes |-> << >>]
Variable(label, name) == [Element(label, << >>, << >>) EXCEPT !.variable = <<name>>]

is_variable_node(p) == p.variable # << >>

is_primitive_element(p) ==
    p.label \in {"comment", "escape", "literal", "modifier", "specifier", "name",
                 "operator"}

\* In a language with declarations an expression that is a name, or a statement
\* of one, may be meant as a declaration.
OrDeclaration(p, language) ==
    LET IsName(e) == e.label = "expr" /\ Len(e.kids) = 1 /\ e.kids[1].label = "name"
    IN  IF language = "Python" THEN << >>
        ELSE IF IsName(p) THEN <<"expr", "decl">>
        ELSE IF p.label = "expr_stmt" /\ p.kids # << >> /\ IsName(p.kids[1])
        THEN <<"expr_stmt", "decl_stmt">>
        ELSE << >>

\* one of two names, each with the same before it
Either(before, names) ==
    before \o <<Name(names[1]), Sign("|")>> \o before \o <<Name(names[2])>>

\* the names in such a text
NamesIn(node) ==
    LET names == SelectSeq(node.text, LAMBDA x : x.t = "name")
    IN  [i \in DOMAIN names |-> names[i].v[1]]

Predicate(text) == XPathNode(text, "PREDICATE", << >>)

\* the tests of one element
Tests(p) ==
    IF is_variable_node(p)
    THEN <<Predicate(<<Tok("add-element", p.variable, 0)>>),
           Predicate(<<Sign("is-valid-element")>>)>>
    ELSE [i \in DOMAIN p.attributes |-> Predicate(<<Reverse(p.attributes)[i]>>)]
         \o (IF p.kids = << >> /\ p.text # << >> /\ is_primitive_element(p)
             THEN <<Predicate(<<Sign("text()"), Sign("="), Literal(p.text)>>)>>
             ELSE << >>)

\* The siblings of a pattern are taken apart at its specifiers, whose order does
\* not matter: each is alone, and so are those between.  Where a specifier comes
\* behind two or more the node taken back is the wrong one: all but the first
\* of them are dropped.
RECURSIVE Runs(_)
Runs(ps) ==
    IF ps = << >> THEN << >>
    ELSE IF ps[1].label = "specifier" THEN << <<ps[1]>> >> \o Runs(Tail(ps))
    ELSE LET after == SelectInSeq(ps, LAMBDA p : p.label = "specifier")
         IN  IF after = 0 THEN <<ps>>
             ELSE << <<ps[1]>> >> \o Runs(SubSeq(ps, after, Len(ps)))

\* a node for p, or for what it may be meant as
NodeFor(p, axis, names, children) ==
    IF names # << >>
    THEN Empty("PREDICATE", <<XPathNode(Either(axis, names), "PARENTHESES", children)>>)
    ELSE XPathNode(Append(axis, IF is_variable_node(p) THEN Sign("*") ELSE Name(p.label)),
                   "PREDICATE", children)

\* convert_traverse, of ps[i] and the siblings behind it: each is tested by a
\* predicate of the one before
RECURSIVE Converted(_, _, _)
Converted(ps, i, language) ==
    NodeFor(ps[i], IF i > 1 THEN <<Axis("following-sibling")>> ELSE << >>,
            OrDeclaration(ps[i], language),
            Tests(ps[i])
            \o Each(LAMBDA run : Converted(run, 1, language), Runs(ps[i].kids))
            \o IF i < Len(ps) THEN <<Converted(ps, i + 1, language)>> ELSE << >>)

\* the same of the top of a pattern
AtTop(node, names) ==
    IF names # << >>
    THEN XPathNode(Either(<<Sign("//")>>, names), "PARENTHESES", node.children[1].children)
    ELSE set_type(node, "ANY")

Top(ps, language) == AtTop(Converted(ps, 1, language), OrDeclaration(ps[1], language))

Mapped(node, F(_)) ==
    [node EXCEPT !.children = Each(F, @)]

\* the call that adds an element comes behind all tests of it
RECURSIVE organize_add_calls(_)
organize_add_calls(node) ==
    Mapped(IF Contains(node.text, Sign("*"))
           THEN [node EXCEPT !.children = Append(Tail(@), Head(@))]
           ELSE node,
           organize_add_calls)

IsBehind(node) == node.type = "PREDICATE" /\ node.text # << >>
                  /\ node.text[1] = Axis("following-sibling")

\* what is tested of a sibling by itself
Sibling(node) ==
    to_string([node EXCEPT !.type = "NO_CONN",
               !.children = SelectSeq(@, LAMBDA c :
                   /\ c.type = "PREDICATE" /\ c.text # << >>
                   /\ c.text[1] \in {Sign("text()"), Sign("is-valid-element")})])

RECURSIVE SiblingsBehind(_)
SiblingsBehind(node) ==
    LET i == SelectInSeq(node.children, IsBehind)
    IN  IF i = 0 THEN << >>
        ELSE <<Sibling(node.children[i])>> \o SiblingsBehind(node.children[i])

\* there must be as many siblings of each kind as the pattern has
CountTest(siblings, kinds) ==
    Predicate(Joint(LAMBDA i :
        (IF i > 1 THEN <<Sign("and")>> ELSE << >>)
        \o <<Call("count"), Sign("(")>> \o kinds[i]
        \o <<Sign(")"), Sign(">="),
             Number(Len(SelectSeq(siblings, LAMBDA s : s = kinds[i])))>>, Indices(kinds)))

WithCounts(node, siblings) ==
    IF siblings = << >> THEN node
    ELSE add_child_beginning(node, CountTest(siblings, SetToSeq(ToSet(siblings))))

RECURSIVE add_sibling_count_predicates(_)
add_sibling_count_predicates(node) ==
    Mapped(WithCounts(node, SiblingsBehind(node)), add_sibling_count_predicates)

\* A pattern that srcML takes for a macro is read once more as a statement, and
\* then what is in it; in Python, where a statement needs no ";", one that is an
\* expression is read as that.
Parsed(arg, language) ==
    IF arg.macro THEN arg.tree[1].kids
    ELSE IF language = "Python" /\ ~ arg.terminated /\ arg.tree[1].label = "expr_stmt"
    THEN arg.tree[1].kids \o Tail(arg.tree)
    ELSE arg.tree

get_xpath_from_argument(arg, language) ==
    add_sibling_count_predicates(organize_add_calls(Top(Parsed(arg, language),
                                                        language)))

-----------------------------------------------------------------------------
(* The buckets of variables *)

IsAdd(node) == \E i \in DOMAIN node.text : node.text[i].t = "add-element"

IsAddOrMatch(node) ==
    \E i \in DOMAIN node.text : node.text[i].t \in {"add-element", "match-element"}

\* the names of the buckets used at and below a node, once for each use
RECURSIVE find_adds(_)
find_adds(node) ==
    (IF IsAddOrMatch(node) THEN <<node.text[1].v>> ELSE << >>)
    \o Joint(find_adds, node.children)

RECURSIVE change_adds_to_matches(_)
change_adds_to_matches(node) ==
    Mapped(IF IsAdd(node) THEN [node EXCEPT !.text[1].t = "match-element"] ELSE node,
           change_adds_to_matches)

\* what is not to match keeps its variables to itself
RECURSIVE add_inner_specifier(_, _)
add_inner_specifier(node, scope) ==
    LET own == IF IsAdd(node)
               THEN [node EXCEPT !.text[1].v = @ \o <<"INNER", ToString(scope)>>]
               ELSE node
    IN  Mapped(own, LAMBDA c : add_inner_specifier(c, scope))

InGroup(id, group) == id \o <<"GROUP", ToString(group)>>

\* number_add_calls: the uses of a bucket are numbered in the order of the text;
\* done is a bag of the names met before
RECURSIVE number_add_calls(_, _, _)
number_add_calls(node, group, met) ==
    LET id == node.text[1].v
        own ==
            IF IsAdd(node)
            THEN [node EXCEPT !.text[1].v = InGroup(@, group),
                      !.text[1].n = 1 + Len(SelectSeq(met, LAMBDA x : x = id))]
            ELSE IF IsAddOrMatch(node)
            THEN [node EXCEPT !.text[1].v = InGroup(@, group)]
            ELSE IF node.text = <<Call("regex-match")>>
            THEN [node EXCEPT !.children[1].text[1].v = InGroup(@, group)]
            ELSE node
        Numbered(x, child) ==
            LET y == number_add_calls(child, group, x.met)
            IN  [node |-> add_child(x.node, y.node), met |-> y.met]
    IN  FoldLeft(Numbered, [node |-> [own EXCEPT !.children = << >>],
                         met |-> IF IsAdd(node) THEN Append(met, id) ELSE met],
                 own.children)

\* A bucket used more than once is cleared at the closest node that all uses are
\* below.
RECURSIVE Cleared(_, _, _)
Cleared(node, id, group) ==
    LET Uses(n) == Len(SelectSeq(find_adds(n), LAMBDA x : x = id))
        Whole(c) == Uses(c) = Uses(node) /\ ~ (IsAddOrMatch(c) /\ c.text[1].v = id)
        inner == {i \in DOMAIN node.children : Whole(node.children[i])}
    IN  IF Uses(node) < 2 THEN node
        ELSE IF inner = {}
        THEN add_child_beginning(node,
                 Predicate(<<Tok("clear", InGroup(id, group), 0)>>))
        ELSE [node EXCEPT !.children[Min(inner)] = Cleared(@, id, group)]

RECURSIVE AllCleared(_, _, _)
AllCleared(node, ids, group) ==
    IF ids = {} THEN node
    ELSE LET id == CHOOSE i \in ids : TRUE
         IN  AllCleared(Cleared(node, id, group), ids \ {id}, group)

add_bucket_clears(node, group) == AllCleared(node, ToSet(find_adds(node)), group)

\* predicates of one node are joined into one
Combined(node) ==
    LET ps == node.children
        Part(i) == (IF i > 1 THEN <<XPathNode(<<Sign("and")>>, "NO_CONN", << >>)>>
                    ELSE << >>) \o <<set_type(ps[i], "NO_CONN")>>
    IN  IF ps = << >> \/ \E i \in DOMAIN ps : ps[i].type # "PREDICATE" THEN node
        ELSE [node EXCEPT !.children =
                 <<Empty("PREDICATE", Joint(Part, Indices(ps)))>>]

-----------------------------------------------------------------------------
(* The arguments of a query *)

\* What stands between two words of srcQL.  text is the tag, or the step of an
\* XPath, or the condition on an attribute; tree the pattern; parts are those of
\* a clause that counts: each has what is counted and the text behind it.
Argument(kind) ==
    [kind |-> kind, text |-> << >>, tree |-> << >>, terminated |-> TRUE,
     macro |-> FALSE, parts |-> << >>]

NoArgument == Argument("none")

\* a node behind an axis: where it is one of two, each is
Behind(node, before, type) ==
    IF node.type = "PARENTHESES"
    THEN Empty(type, <<set_text(node, Either(before, NamesIn(node)))>>)
    ELSE XPathNode(before, type, <<set_type(node, "NO_CONN")>>)

Inside == <<Sign("."), Sign("//")>>

\* an XPath with one slash is below immediately
SourceExpression(arg, language) ==
    CASE arg.kind = "none" -> Empty("NO_CONN", << >>)
      [] arg.kind = "pattern" -> get_xpath_from_argument(arg, language)
      [] arg.kind = "next" -> XPathNode(arg.text, "NEXT", << >>)
      [] OTHER -> XPathNode(arg.text, "NO_CONN", << >>)

\* the call that counts what is at or below
CountOfNode(inner) ==
    XPathNode(<<Call("count")>>, "CALL",
        <<IF inner.type = "NEXT" THEN XPathNode(<<Sign(".")>>, "NO_CONN", <<inner>>)
          ELSE Behind(inner, Inside, "NO_CONN")>>)

Count(arg, language) == CountOfNode(SourceExpression(arg, language))

\* each part is a child of the text before it
RECURSIVE Counts(_, _, _)
Counts(parts, before, language) ==
    XPathNode(before, "NO_CONN",
        <<Count(parts[1].arg, language),
          IF Len(parts) = 1 THEN XPathNode(parts[1].rest, "NO_CONN", << >>)
          ELSE Counts(Tail(parts), parts[1].rest, language)>>)

\* the expression that a clause or a selection is made into; variables of NOT
\* and COUNT are of their own
ArgumentNode(arg, inner, language) ==
    CASE arg.kind = "not" ->
            add_inner_specifier(get_xpath_from_argument(arg, language), inner)
      [] arg.kind = "count" ->
            add_inner_specifier(Empty("NO_CONN", <<Counts(arg.parts, << >>, language)>>),
                                inner)
      [] arg.kind = "match" ->
            XPathNode(<<Call("regex-match")>>, "CALL",
                      [i \in DOMAIN arg.text |->
                           XPathNode(<<arg.text[i]>>, "NO_CONN", << >>)])
      [] OTHER -> SourceExpression(arg, language)

\* the operation of a clause of WHERE, which is told by how it begins
WhereOperation(arg) ==
    CASE arg.kind = "not" -> "WHERE-NOT"
      [] arg.kind = "match" -> "WHERE-MATCH"
      [] OTHER -> "WHERE-COUNT"

-----------------------------------------------------------------------------
(* convert *)

Word(word) == [word |-> word, arg |-> NoArgument]
An(arg) == [word |-> "argument", arg |-> arg]

SetOperations == {"UNION", "INTERSECT", "DIFFERENCE"}

\* An operation ends the expression before it.  WHERE is no operation itself:
\* its clause is.
EndExpression(x, word, language) ==
    [exprs |-> Append(x.exprs, ArgumentNode(x.arg, x.inner, language)),
     ops |-> x.ops \o (IF x.where THEN <<WhereOperation(x.arg)>> ELSE << >>)
                   \o (IF word \in {"WHERE", "END"} THEN << >> ELSE <<word>>),
     inner |-> x.inner + (IF x.where /\ x.arg.kind # "match" THEN 1 ELSE 0),
     where |-> word = "WHERE", arg |-> NoArgument]

NothingTaken ==
    [exprs |-> << >>, ops |-> << >>, inner |-> 0, where |-> FALSE, arg |-> NoArgument]

\* the expressions, and the operations between them, of a query, which ends
\* with an argument
Taken(words, language) ==
    FoldLeft(LAMBDA x, w :
                CASE w.word \in {"FIND", "BY"} -> x
                  [] w.word = "argument" -> [x EXCEPT !.arg = w.arg]
                  [] OTHER -> EndExpression(x, w.word, language),
             NothingTaken, Append(words, Word("END")))

Valid(q) ==
    /\ Len(q.ops) = Len(q.exprs) - 1
    /\ \A i \in DOMAIN q.exprs : to_string(q.exprs[i]) # << >>

\* one of two, found below
BelowEither(node) ==
    XPathNode(<<Axis("descendant"), Sign("*")>>, "ANY",
              <<Behind(node, <<Axis("self")>>, "PREDICATE")>>)

\* an operand of a set operation
Operand(node) ==
    IF node.type \in {"CALL", "PARENTHESES"} THEN node ELSE set_type(node, "ANY")

SetCall(name, lhs, rhs) ==
    XPathNode(<<Call(name)>>, "CALL", <<Operand(lhs), Operand(rhs)>>)

\* what an operation makes of its two expressions
Joined(op, lhs, rhs) ==
    CASE op = "WHERE-NOT" ->
            add_child(lhs, Empty("PREDICATE", <<XPathNode(<<Call("not")>>, "CALL",
                <<XPathNode(<<Axis("self")>>, "NO_CONN",
                            <<set_type(rhs, "NO_CONN")>>)>>)>>))
      [] op \in {"WHERE-COUNT", "WITH"} -> add_child(lhs, set_type(rhs, "PREDICATE"))
      [] op = "WITHIN" -> add_child(lhs, Behind(rhs, <<Axis("ancestor")>>, "PREDICATE"))
      [] op = "CONTAINS" -> add_child(lhs, Behind(rhs, Inside, "PREDICATE"))
      [] op = "WHERE-MATCH" -> add_child_beginning(lhs, Empty("PREDICATE", <<rhs>>))
      [] op = "FROM" ->
            add_child(rhs, IF lhs.type = "PARENTHESES" THEN BelowEither(lhs)
                           ELSE IF lhs.type = "NEXT" THEN lhs
                           ELSE set_type(lhs, "ANY"))
      [] op = "UNION" -> add_child(Operand(lhs), Empty("UNION", <<Operand(rhs)>>))
      [] op = "INTERSECT" -> SetCall("set:intersection", lhs, rhs)
      [] op = "DIFFERENCE" -> SetCall("set:difference", lhs, rhs)

\* all of some operations, from left to right
Reduced(q, some) ==
    FoldLeft(LAMBDA x, k :
                IF q.ops[k] \in some
                THEN [x EXCEPT !.exprs[Len(x.exprs)] =
                         Joined(q.ops[k], @, q.exprs[k + 1])]
                ELSE [exprs |-> Append(x.exprs, q.exprs[k + 1]),
                      ops |-> Append(x.ops, q.ops[k])],
             [exprs |-> <<q.exprs[1]>>, ops |-> << >>], Indices(q.ops))

\* What follows must be below the same x: the expression that the selection
\* began with.
TopBefore(q, i) ==
    q.exprs[1 + Max({0} \cup {j \in 1..i : q.ops[j] \in SetOperations \cup {"FROM"}})]

\* z, somewhere below
FoundBelow(z) ==
    IF z.type = "PARENTHESES" THEN BelowEither(z)
    ELSE XPathNode(<<Axis("descendant")>>, "ANY", <<set_type(z, "NO_CONN")>>)

\* a z behind, and one in x
BehindAndIn(z, x) ==
    XPathNode(<<Call("set:intersection")>>, "CALL",
        <<Behind(z, <<Sign("."), Sign("/"), Axis("following")>>, "NO_CONN"),
          change_adds_to_matches(
              Behind(add_child(x, FoundBelow(z)), <<Sign("."), Sign("/"), Axis("ancestor")>>,
                     "NO_CONN"))>>)

\* y FOLLOWED BY z: y is tested for a z behind it that is below an x, and x is
\* to contain such a z
Followed(q, i) ==
    [q EXCEPT !.exprs[i] =
                  add_child(@, Empty("PREDICATE",
                                     <<BehindAndIn(q.exprs[i + 1], TopBefore(q, i))>>)),
              !.exprs[i + 1] = change_adds_to_matches(@), !.ops[i] = "CONTAINS"]

AllFollowed(q) ==
    FoldRight(LAMBDA i, x : IF q.ops[i] = "FOLLOWED" THEN Followed(x, i) ELSE x,
              Indices(q.ops), q)

\* the buckets of each expression are of a group of their own
Grouped(q) ==
    [q EXCEPT !.exprs = Each(LAMBDA i :
        Combined(number_add_calls(add_bucket_clears(q.exprs[i], i), i, << >>).node),
        Indices(@))]

\* the operations from those that bind most
Clauses(q) ==
    Reduced(Reduced(q, {"WHERE-NOT", "WHERE-COUNT", "WITH"}), {"WITHIN"})

Selections(q) ==
    Grouped(Reduced(Reduced(AllFollowed(Clauses(q)), {"CONTAINS"}), {"WHERE-MATCH"}))

Whole(q) == Reduced(Reduced(Selections(q), {"FROM"}), SetOperations).exprs[1]

\* without set operations what is looked for may be at any depth
Rooted(node, ops) ==
    IF ToSet(ops) \cap SetOperations # {} \/ node.type = "PARENTHESES" THEN node
    ELSE set_type(node, "ANY")

\* the tokens of the expression of a query that was taken apart, none for one
\* that is not valid
Generated(q) == IF Valid(q) THEN to_string(Rooted(Whole(q), q.ops)) ELSE << >>

convert(words, language) == Generated(Taken(words, language))
=============================================================================
