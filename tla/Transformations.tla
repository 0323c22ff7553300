-------------------------- MODULE Transformations --------------------------
(***************************************************************************)
(* Queries, XSLT programs and RelaxNG schemas: how they are appended to an *)
(* archive, and what each makes of one document.  An XPath expression that *)
(* is a query itself is the label of the elements it finds, "//l"; a query *)
(* in srcQL has a name, and is converted to an XPath expression.           *)
(*                                                                         *)
(* Documents are kept as libxml2 keeps them: a forest of nodes, numbered   *)
(* from 1, each in a document.  That nodes have numbers shows when one is  *)
(* moved from where it is still needed.                                    *)
(*                                                                         *)
(* An expression is evaluated in the order of libxml2: each predicate of a *)
(* step is tried on all nodes that the ones before it have left.  What     *)
(* srcQL's own functions find out on the way is kept in a table that they  *)
(* all share.                                                              *)
(***************************************************************************)
EXTENDS XPathGenerator

CONSTANTS
    Query,          \* the queries in srcQL: the words of each
    Expression      \* what each was converted to, by the language

\* the labels with a meaning of their own
Unit == "unit"
Cpp == "cpp"        \* an element in the namespace of the preprocessor
Text == "#text"     \* a node with text only

\* the nodes at and below each node, in the order of the document
Below(f) ==
    LET below[n \in DOMAIN f.label] ==
            <<n>> \o Joint(LAMBDA k : below[k], f.kids[n])
    IN below

Found(f, root, l) == SelectSeq(Below(f)[root], LAMBDA n : f.label[n] = l)

\* xmlUnlinkNode
Unlinked(f, n) ==
    [f EXCEPT !.kids = Each(LAMBDA ks : SelectSeq(ks, LAMBDA k : k # n), @)]

\* xmlDocSetRootElement
SetRoot(f, n, doc) ==
    LET g == Unlinked(f, n)
        inside == ToSet(Below(g)[n])
    IN  [g EXCEPT !.doc = Each(LAMBDA m : IF m \in inside THEN doc ELSE f.doc[m],
                               Indices(@))]

\* text is that of an element without others, as words; attributes are pairs of
\* a name and the words of the value
NewNode(f, l, kids, doc) ==
    [f EXCEPT !.label = Append(@, l), !.kids = Append(@, kids),
              !.marks = Append(@, << >>), !.doc = Append(@, doc),
              !.text = Append(@, << >>), !.attributes = Append(@, << >>)]

NoForest ==
    [label |-> << >>, kids |-> << >>, marks |-> << >>, doc |-> << >>,
     text |-> << >>, attributes |-> << >>, language |-> "C++"]

Newest(f) == Len(f.label)

\* a copy of the tree at n in a document of its own, but for what is labelled l
CopyWithout(f, n, l, doc) ==
    LET kids == [m \in DOMAIN f.kids |->
                    SelectSeq(f.kids[m], LAMBDA k : f.label[k] # l)]
        kept == Below([f EXCEPT !.kids = kids])[n]
        Copy(m) == Newest(f) + SelectInSeq(kept, LAMBDA k : k = m)
        New(g(_)) == Each(g, kept)
    IN  [f EXCEPT
            !.label = @ \o New(LAMBDA m : f.label[m]),
            !.kids = @ \o New(LAMBDA m : [k \in DOMAIN kids[m] |-> Copy(kids[m][k])]),
            !.marks = @ \o New(LAMBDA m : f.marks[m]),
            !.doc = @ \o New(LAMBDA m : doc),
            !.text = @ \o New(LAMBDA m : f.text[m]),
            !.attributes = @ \o New(LAMBDA m : f.attributes[m])]

\* what there is at and below a node, each element with its depth and marks
Content(f, n) ==
    LET content[m \in DOMAIN f.label] ==
            << <<f.label[m], f.marks[m], f.text[m]>> >>
            \o Joint(LAMBDA k : content[k], f.kids[m])
            \o << <<"end">> >>
    IN content[n]

\* a unit's content is inside of its tags
Shown(f, n, wrapped) ==
    LET all == Content(f, n) IN IF wrapped THEN SubSeq(all, 2, Len(all) - 1) ELSE all

\* usesURI
UsesCpp(f, n) == Found(f, n, Cpp) # << >>

-----------------------------------------------------------------------------
(* The table of variables *)

\* an element that a use of a variable may stand for
Entry(id, number, token, node) ==
    [id |-> id, number |-> number, token |-> token, node |-> node]

\* a rule is the name of a bucket and the texts its regular expression matches
UnificationTable == [entries |-> << >>, rules |-> {}]

add_to_token_list(u, e) ==
    IF \E i \in DOMAIN u.entries :
          /\ u.entries[i].id = e.id /\ u.entries[i].number = e.number
          /\ u.entries[i].node = e.node
    THEN u ELSE [u EXCEPT !.entries = Append(@, e)]

\* Each use before has an element with the same text, and another one than those
\* behind it.  The first that will do is taken.
does_element_match_variable(u, e) ==
    LET Chain(taken, k) ==
            LET i == SelectInSeq(u.entries, LAMBDA x :
                        /\ x.id = e.id /\ x.number = e.number - k
                        /\ x.token = e.token /\ x.node \notin taken)
            IN  IF 0 \in taken \/ i = 0 THEN taken \cup {0}
                ELSE taken \cup {u.entries[i].node}
    IN  0 \notin FoldLeft(Chain, {e.node}, [k \in 1..(e.number - 1) |-> k])

is_element_in_bucket(u, id, token, node) ==
    \E i \in DOMAIN u.entries :
       /\ u.entries[i].id = id /\ u.entries[i].token = token
       /\ u.entries[i].node = node

\* mutant: what was found for another element stays
NotEmptied(u, id) == u

empty_bucket(u, id) ==
    [u EXCEPT !.entries = SelectSeq(@, LAMBDA x : x.id # id)]

add_regex_rule(u, id, texts) == [u EXCEPT !.rules = @ \cup {<<id, texts>>}]

check_regex(u, id, token) ==
    \A r \in u.rules : r[1] = id => Len(token) = 1 /\ Contains(r[2], token[1])

-----------------------------------------------------------------------------
(* Reading an expression *)

\* the operators, from those that bind least
Levels == << {"or"}, {"and"}, {"=", ">", ">=", "<"}, {"|"} >>

Slashes == {"/", "//"}
NodeTests == {"name", "*"}
Alone == {"number", "literal", "text()", "attribute", "attribute-is", "attribute-has",
          "add-element", "match-element", "is-valid-element", "clear"}

\* what there may be behind a token
MayFollow(t) ==
    LET operators == UNION ToSet(Levels)
        steps == NodeTests \cup {"axis", "."}
        ends == operators \cup {")", "]", ","}
    IN  CASE t \in operators \cup {"(", "[", ","} ->
                steps \cup Alone \cup Slashes \cup {"(", "call"}
          [] t \in Slashes -> steps
          [] t = "axis" -> NodeTests
          [] t = "call" -> {"("}
          [] t \in Alone -> ends
          [] t = "." -> ends \cup Slashes
          [] OTHER -> ends \cup Slashes \cup {"["}

\* The brackets of an XPathNode are balanced, so that tokens are an expression if
\* each may be behind the one before.
Compiles(ts) ==
    LET all == <<Sign("(")>> \o ts \o <<Sign(")")>>
    IN  \A i \in DOMAIN ts \cup {Len(ts) + 1} : all[i + 1].t \in MayFollow(all[i].t)

\* Tokens with the number of brackets that each is in.
Bracketed(ts) ==
    LET Brackets(before, kinds) == Cardinality({j \in before : ts[j].t \in kinds})
    IN  [ts |-> ts,
         depth |-> [i \in DOMAIN ts |-> Brackets(1..(i - 1), {"(", "["})
                                        - Brackets(1..i, {")", "]"})] \o << >>]

\* from the i-th to the j-th token, those of some kinds in the brackets that the
\* i-th is in
Tops(r, i, j, kinds) ==
    {m \in i..j : r.ts[m].t \in kinds /\ r.depth[m] = r.depth[i]}

\* where a bracket is closed
Closing(r, i) == Min(Tops(r, i, Len(r.ts), {")", "]"}))

Sorted(S) == SetToSortSeq(S, LAMBDA m, n : m < n)

Step(axis, test, predicates) == [axis |-> axis, test |-> test, predicates |-> predicates]
AnyDepth == Step("descendant-or-self", "node()", << >>)

RECURSIVE ReadFrom(_, _, _)

Predicates(r, i, j) ==
    Each(LAMBDA m : ReadFrom(r, m + 1, Closing(r, m) - 1), Sorted(Tops(r, i, j, {"["})))

StepFrom(r, i, j) ==
    LET named == r.ts[i].t = "axis"
        test == IF named THEN r.ts[i + 1] ELSE r.ts[i]
    IN  Step(IF named THEN r.ts[i].v[1] ELSE IF test.t = "." THEN "self" ELSE "child",
             IF test.t = "." THEN "node()" ELSE IF test.t = "*" THEN "*" ELSE test.v[1],
             Predicates(r, i, j))

\* the parts between some tokens, each with the number of the token before it
Parts(r, borders, j) ==
    Each(LAMBDA k : [before |-> borders[k], first |-> borders[k] + 1,
                     last |-> IF k = Len(borders) THEN j ELSE borders[k + 1] - 1],
         Indices(borders))

\* A path begins at the root, at nodes that are found before it, or at the node.
PathFrom(r, i, j) ==
    LET t == r.ts[i].t
        slashes == Tops(r, i, j, Slashes)
        start == IF t = "(" THEN Closing(r, i)
                 ELSE IF t = "call" THEN Closing(r, i + 1) ELSE i - 1
        parts == Parts(r, Sorted(slashes \cup (IF start < i /\ t \notin Slashes
                                               THEN {i - 1} ELSE {})), j)
        Steps(part) ==
            (IF part.before \in slashes /\ r.ts[part.before].t = "//"
             THEN <<AnyDepth>> ELSE << >>)
            \o <<StepFrom(r, part.first, part.last)>>
    IN  [op |-> "path",
         from |-> IF t \in Slashes THEN "root" ELSE IF start < i THEN "self" ELSE "nodes",
         start |-> IF start < i THEN << >>
                   ELSE <<IF t = "(" THEN ReadFrom(r, i + 1, start - 1)
                          ELSE ReadFrom(r, i, start),
                          Predicates(r, i, Min(slashes \cup {j}))>>,
         steps |-> Joint(Steps, parts)]

CallFrom(r, i, j) ==
    LET commas == {m \in i..j : r.ts[m].t = "," /\ r.depth[m] = r.depth[i] + 1}
    IN  [op |-> r.ts[i].v[1],
         args |-> Each(LAMBDA part : ReadFrom(r, part.first, part.last),
                       Parts(r, Sorted({i + 1} \cup commas), j - 1))]

\* an expression is taken apart at the last of the operators that bind least
ReadFrom(r, i, j) ==
    LET levels == {l \in DOMAIN Levels : Tops(r, i, j, Levels[l]) # {}}
        m == Max(Tops(r, i, j, Levels[Min(levels)]))
        t == r.ts[i].t
    IN  IF levels # {}
        THEN [op |-> r.ts[m].t, args |-> <<ReadFrom(r, i, m - 1), ReadFrom(r, m + 1, j)>>]
        ELSE IF t \in Alone THEN [op |-> t, tok |-> r.ts[i]]
        ELSE IF t = "call" /\ Closing(r, i + 1) = j THEN CallFrom(r, i, j)
        ELSE PathFrom(r, i, j)

\* xmlXPathCompile
Compiled(ts) == ReadFrom(Bracketed(ts), 1, Len(ts))

-----------------------------------------------------------------------------
(* Evaluation *)

\* A document, whose own node is 0 and above its root; below has the nodes at and
\* below each, and words the text there.
View(f, root) ==
    LET below == Each(LAMBDA n : Below(f)[n], Indices(f.label))
    IN  [nodes |-> <<0>> \o below[root], root |-> root, f |-> f,
         below |-> Each(ToSet, below),
         words |-> Each(LAMBDA ns : Joint(LAMBDA m : f.text[m], ns), below)]

Within(d, m, n) == n = 0 \/ m \in d.below[n]

Children(d, n) == IF n = 0 THEN <<d.root>> ELSE d.f.kids[n]

\* the members of a sequence behind one of them
BehindIn(s, n) == SubSeq(s, SelectInSeq(s, LAMBDA m : m = n) + 1, Len(s))

\* the nodes of an axis, in its order
RECURSIVE OnAxis(_, _, _)
OnAxis(d, axis, n) ==
    CASE axis = "self" -> <<n>>
      [] axis = "child" -> Children(d, n)
      [] axis = "ancestor" ->
            SelectSeq(Reverse(d.nodes), LAMBDA m : m # n /\ Within(d, n, m))
      [] axis = "descendant" ->
            SelectSeq(d.nodes, LAMBDA m : m # n /\ Within(d, m, n))
      [] axis = "descendant-or-self" ->
            SelectSeq(d.nodes, LAMBDA m : Within(d, m, n))
      [] axis = "following" ->
            SelectSeq(BehindIn(d.nodes, n), LAMBDA m : ~ Within(d, m, n))
      [] axis = "following-sibling" ->
            IF n = 0 THEN << >>
            ELSE BehindIn(Children(d, OnAxis(d, "ancestor", n)[1]), n)

Passes(d, test, n) ==
    \/ test = "node()"
    \/ n # 0 /\ d.f.label[n] # Text /\ (test = "*" \/ d.f.label[n] = test)

\* get_node_text: the words at and below a node
NodeText(d, n) == d.words[IF n = 0 THEN d.root ELSE n]

InOrder(d, nodes) == SelectSeq(d.nodes, LAMBDA n : n \in nodes)

\* Values: a set of nodes, in an order, or words, or a number, or a Boolean, each
\* with the table it leaves.
Value(type, u) ==
    [type |-> type, nodes |-> << >>, words |-> << >>, n |-> 0, b |-> FALSE, u |-> u]
NodesValue(nodes, u) == [Value("nodes", u) EXCEPT !.nodes = nodes]
Words(words, u) == [Value("words", u) EXCEPT !.words = words]
NumberValue(n, u) == [Value("number", u) EXCEPT !.n = n]
Boolean(b, u) == [Value("boolean", u) EXCEPT !.b = b]

Truth(v) ==
    CASE v.type = "nodes" -> v.nodes # << >>
      [] v.type = "words" -> v.words # << >>
      [] v.type = "number" -> v.n # 0
      [] v.type = "boolean" -> v.b

Compares(op, x, y) ==
    IF x.type = "words" THEN x.words # << >> /\ x.words = y.words
    ELSE CASE op = "=" -> x.n = y.n
           [] op = ">" -> x.n > y.n
           [] op = "<" -> x.n < y.n
           [] op = ">=" -> x.n >= y.n

Attributes(d, n, name) ==
    SelectSeq(d.f.attributes[n], LAMBDA a : a[1] = name)

invalidElements == {"operator", "comment", "modifier", "specifier"}
ValidElement(d, n) == n # 0 /\ d.f.label[n] \notin invalidElements

\* qli:add-element, of an element and the n-th use of a variable
add_element(d, n, tok, u) ==
    LET e == Entry(tok.v, tok.n, NodeText(d, n), n)
    IN  IF does_element_match_variable(u, e) /\ check_regex(u, e.id, e.token)
        THEN Boolean(TRUE, add_to_token_list(u, e))
        ELSE Boolean(FALSE, u)

\* qli:match-element
match_element(d, n, tok, u) ==
    Boolean(/\ ValidElement(d, n)
            /\ is_element_in_bucket(u, tok.v, NodeText(d, n), n), u)

\* what is said of a node by one token
Told(d, n, tok, u) ==
    CASE tok.t = "number" -> NumberValue(tok.n, u)
      [] tok.t = "literal" -> Words(tok.v, u)
      [] tok.t = "text()" -> Words(IF n = 0 THEN << >> ELSE d.f.text[n], u)
      [] tok.t = "attribute" -> Boolean(Attributes(d, n, tok.v[1]) # << >>, u)
      [] tok.t = "attribute-is" ->
            Boolean(\E a \in ToSet(Attributes(d, n, tok.v[1])) : a[2] = <<tok.v[2]>>, u)
      [] tok.t = "attribute-has" ->
            Boolean(\E a \in ToSet(Attributes(d, n, tok.v[1])) :
                       Contains(a[2], tok.v[2]), u)
      [] tok.t = "add-element" -> add_element(d, n, tok, u)
      [] tok.t = "match-element" -> match_element(d, n, tok, u)
      [] tok.t = "is-valid-element" -> Boolean(ValidElement(d, n), u)
      [] tok.t = "clear" -> Boolean(TRUE, empty_bucket(u, tok.v))

\* Eval is the value of an expression at a node, Kept the nodes that are left by
\* the predicates, Walked those that the steps lead to.  Nodes are gone through
\* one after the other, by halves.
RECURSIVE Eval(_, _, _, _), Kept(_, _, _, _), Passing(_, _, _, _),
          Walked(_, _, _, _), Reached(_, _, _, _)

Half(s) == Len(s) \div 2
Left(s) == SubSeq(s, 1, Half(s))
Right(s) == SubSeq(s, Half(s) + 1, Len(s))

\* two sets of nodes, of which the second was found with the table of the first
Both(x, y) ==
    [x EXCEPT !.nodes = @ \o SelectSeq(y.nodes, LAMBDA m : ~ Contains(x.nodes, m)),
              !.u = y.u]

\* the nodes if what was found to be v holds
Where(nodes, v) == NodesValue(IF Truth(v) THEN nodes ELSE << >>, v.u)

RestPassing(p, nodes, d, x) == Both(x, Passing(p, nodes, d, x.u))

Passing(p, nodes, d, u) ==
    CASE nodes = << >> -> NodesValue(nodes, u)
      [] Len(nodes) = 1 -> Where(nodes, Eval(p, nodes[1], d, u))
      [] OTHER -> RestPassing(p, Right(nodes), d, Passing(p, Left(nodes), d, u))

RestKept(ps, d, x) == Kept(ps, x.nodes, d, x.u)

Kept(ps, nodes, d, u) ==
    IF ps = << >> THEN NodesValue(nodes, u)
    ELSE RestKept(Tail(ps), d, Passing(ps[1], nodes, d, u))

RestReached(step, nodes, d, x) == Both(x, Reached(step, nodes, d, x.u))

Reached(step, nodes, d, u) ==
    CASE nodes = << >> -> NodesValue(nodes, u)
      [] Len(nodes) = 1 ->
            Kept(step.predicates,
                 SelectSeq(OnAxis(d, step.axis, nodes[1]), LAMBDA m : Passes(d, step.test, m)),
                 d, u)
      [] OTHER -> RestReached(step, Right(nodes), d, Reached(step, Left(nodes), d, u))

RestWalked(steps, d, x) == Walked(steps, x.nodes, d, x.u)

Walked(steps, nodes, d, u) ==
    IF steps = << >> THEN NodesValue(nodes, u)
    ELSE RestWalked(Tail(steps), d, Reached(steps[1], nodes, d, u))

Ordered(d, v) == NodesValue(InOrder(d, ToSet(v.nodes)), v.u)

\* what an operator or a function makes of its values, the second of which was
\* found with the table of the first
Operation(op, x, y, d) ==
    CASE op = "or" -> IF Truth(x) THEN Boolean(TRUE, x.u) ELSE Boolean(Truth(y), y.u)
      [] op = "and" -> IF Truth(x) THEN Boolean(Truth(y), y.u) ELSE Boolean(FALSE, x.u)
      [] op \in Levels[3] -> Boolean(Compares(op, x, y), y.u)
      [] op = "|" -> Ordered(d, Both(x, y))
      [] op = "count" -> NumberValue(Len(x.nodes), x.u)
      [] op = "not" -> Boolean(~ Truth(x), x.u)
      [] op = "set:intersection" ->
            NodesValue(SelectSeq(x.nodes, LAMBDA m : Contains(y.nodes, m)), y.u)
      [] op = "set:difference" ->
            NodesValue(SelectSeq(x.nodes, LAMBDA m : ~ Contains(y.nodes, m)), y.u)
      [] op = "regex-match" -> Boolean(TRUE, add_regex_rule(y.u, x.words, y.words))

WithSecond(e, n, d, x) == Operation(e.op, x, Eval(e.args[2], n, d, x.u), d)

Eval(e, n, d, u) ==
    CASE e.op \in Alone -> Told(d, n, e.tok, u)
      [] e.op = "path" ->
            Ordered(d, RestWalked(e.steps, d,
                CASE e.from = "root" -> NodesValue(<<0>>, u)
                  [] e.from = "self" -> NodesValue(<<n>>, u)
                  [] e.from = "nodes" ->
                        RestKept(e.start[2], d, Eval(e.start[1], n, d, u))))
      [] OTHER -> WithSecond(e, n, d, Eval(e.args[1], n, d, u))

\* xmlXPathCompiledEval, of an expression that was read
Evaluated(e, f, root) == Eval(e, 0, View(f, root), UnificationTable).nodes

-----------------------------------------------------------------------------
(* Transformations *)

None == "none"
NoNodes == << >>

\* A transformation of an archive, and a call that appends it.  key is the text
\* of a query, which finds the elements labelled on.
Transformation(op, key, on) ==
    [op |-> op, key |-> key, on |-> on, element |-> None, attribute |-> None,
     parameter |-> None]

\* srcml_append_transform_xpath, _element and _attribute: results may be put in
\* an element or marked with an attribute
XPath(l, element, attribute) ==
    [Transformation("query", <<"xpath", l>>, l)
        EXCEPT !.element = element, !.attribute = attribute]

\* the same of the query in srcQL named l, whose text is kept with a prefix
SrcQL(l, element, attribute) ==
    [Transformation("query", <<"srcql", l>>, l)
        EXCEPT !.element = element, !.attribute = attribute]

\* srcml_append_transform_xslt_*, of one of three programs
XSLT(op, on) == Transformation(op, <<"xslt">>, on)

\* srcml_append_transform_relaxng_*, of a schema for documents with this root
RelaxNG(on) == Transformation("relaxng", <<"relaxng">>, on)

\* srcml_append_transform_param, _stringparam
Param(value) == Transformation("param", << >>, value)

\* srcml_clear_transforms
Clear == Transformation("clear", << >>, None)

\* TransformationResult()
NoResult ==
    [type |-> "none", nodes |-> NoNodes, wrapped |-> FALSE, doc |-> 0, value |-> 0]

Nodes(type, nodes, wrapped, doc) ==
    [NoResult EXCEPT !.type = type, !.nodes = nodes, !.wrapped = wrapped,
                     !.doc = doc]

\* append_attribute_to_node: the attribute there may already be is looked for
\* with the value of this one as its URI, and so not found
Mark(f, n, attribute) == [f EXCEPT !.marks[n] = Append(@, attribute)]

\* addElementXPathResults, for one of the nodes
Wrap(f, root, t, n) ==
    LET kids == IF n = root THEN f.kids[n] ELSE <<n>>
        g == NewNode(f, t.element, kids, f.doc[n])
        e == Newest(g)
        h == IF t.attribute = None THEN g ELSE Mark(g, e, t.attribute)
    IN  IF n = root THEN [h EXCEPT !.kids[n] = <<e>>]
        ELSE [h EXCEPT !.kids = [m \in DOMAIN @ |->
                 IF m = e THEN @[m]
                 ELSE [k \in DOMAIN @[m] |-> IF @[m][k] = n THEN e ELSE @[m][k]]]]

\* What a transformation makes of the document at root, and what it returns.
\* doc is the number of a document it makes.
Applied(f, r) == [f |-> f, r |-> r]

\* srcql_convert_query_to_xpath keeps what a query was converted to in each
\* language; nothing where that is no expression
Conversions ==
    [q \in DOMAIN Query |-> [language \in {"C++", "Python"} |->
        LET tokens == convert(Query[q], language)
        IN  IF tokens = << >> \/ ~ Compiles(tokens) THEN << >> ELSE <<Compiled(tokens)>>]]

ASSUME ExpressionAssumption == Expression = Conversions

\* the results of a query that found these nodes
WithFound(t, f, root, found) ==
    IF t.element # None
    THEN Applied(FoldLeft(LAMBDA g, n : Wrap(g, root, t, n), f, found),
                 Nodes("units", <<root>>, TRUE, 0))
    ELSE IF t.attribute # None
    THEN Applied(FoldLeft(LAMBDA g, n : Mark(g, n, t.attribute), f, found),
                 Nodes("units", <<root>>, TRUE, 0))
    ELSE IF found = << >> THEN Applied(f, NoResult)
    ELSE Applied(f, Nodes("units", found, f.label[found[1]] = Unit, 0))

\* xpathTransformation::apply
ApplyQuery(t, f, root) ==
    LET Of(expression) ==
            IF expression = << >> THEN Applied(f, NoResult)
            ELSE WithFound(t, f, root, Evaluated(expression[1], f, root))
    IN  IF t.key[1] = "srcql" THEN Of(Expression[t.on][f.language])
        ELSE WithFound(t, f, root, Found(f, root, t.on))

\* the same, of an expression whose value is a number
ApplyCount(t, f, root) ==
    Applied(f, [NoResult EXCEPT !.type = "number",
                                !.value = Len(Found(f, root, t.on))])

\* relaxngTransformation::apply, with a schema for documents with root t.on
ApplySchema(t, f, root) ==
    Applied(f, IF f.label[root] # t.on THEN NoResult
               ELSE Nodes("units", <<root>>, TRUE, 0))

\* xsltTransformation::apply, of a program that copies all but what its
\* parameter names
ApplyCopy(t, f, root, doc) ==
    IF f.label[root] = t.parameter THEN Applied(f, NoResult)
    ELSE Applied(CopyWithout(f, root, t.parameter, doc),
                 Nodes("units", <<Newest(f) + 1>>, TRUE, doc))

\* of a program that copies each t.on, so that there may be several roots
ApplySplit(t, f, root, doc) ==
    LET found == Found(f, root, t.on)
        Split(x, n) == [f |-> CopyWithout(x.f, n, None, doc),
                        roots |-> Append(x.roots, Newest(x.f) + 1)]
        all == FoldLeft(Split, [f |-> f, roots |-> << >>], found)
    IN  IF found = << >> THEN Applied(f, NoResult)
        ELSE Applied(all.f, Nodes("units", all.roots, TRUE, doc))

\* and of one whose output is text
ApplyText(t, f, root, doc) ==
    Applied(NewNode(f, Text, << >>, doc),
            [Nodes("string", <<Newest(f) + 1>>, TRUE, doc)
                EXCEPT !.value = Len(Found(f, root, t.on))])

ApplyTo(t, f, root, doc) ==
    CASE t.op = "query" -> ApplyQuery(t, f, root)
      [] t.op = "count" -> ApplyCount(t, f, root)
      [] t.op = "relaxng" -> ApplySchema(t, f, root)
      [] t.op = "copy" -> ApplyCopy(t, f, root, doc)
      [] t.op = "split" -> ApplySplit(t, f, root, doc)
      [] t.op = "text" -> ApplyText(t, f, root, doc)

-----------------------------------------------------------------------------
(* Calls *)

\* srcml_append_transform_xpath_attribute: a query just appended gets the
\* attribute.  The text of a srcQL query is kept with a prefix and compared
\* without, so it is not found equal.
Merges(ts, call) ==
    /\ call.attribute # None /\ call.element = None
    /\ ts # << >> /\ Last(ts).op \in {"query", "count"}
    /\ Last(ts).key = <<"xpath", call.key[2]>>
    /\ Last(ts).attribute = None

\* what a call makes of the transformations; a parameter is one of the last
AppendCall(ts, call) ==
    IF call.op = "clear" THEN << >>
    ELSE IF call.op = "param"
    THEN IF ts = << >> THEN ts
         ELSE [ts EXCEPT ![Len(ts)].parameter = call.on]
    ELSE IF Merges(ts, call)
    THEN [ts EXCEPT ![Len(ts)].attribute = call.attribute]
    ELSE Append(ts, call)

-----------------------------------------------------------------------------
(* The result of a transformation, as its getters tell it *)

NoUnit == [content |-> None]

srcml_transform_get_type(result) == result.type

srcml_transform_get_unit_size(result) ==
    IF result.type # "units" THEN 0 ELSE Len(result.units)

srcml_transform_get_unit(result, i) ==
    IF i > srcml_transform_get_unit_size(result) THEN NoUnit ELSE result.units[i]

srcml_transform_get_string(result) ==
    IF result.type # "string" THEN 0 ELSE result.value

srcml_transform_get_number(result) ==
    IF result.type # "number" THEN 0 ELSE result.value

-----------------------------------------------------------------------------
(* The options of the client *)

\* the client exits
NoCalls == << >>

\* apply_xpath, apply_srcql: the prefixes of the element and the attribute must
\* be declared; with both, the attribute is added to the query just appended
QueryCalls(o, declared, New(_, _, _)) ==
    IF \E x \in {o.element, o.attribute} \ {None} : x \notin declared THEN NoCalls
    ELSE IF o.element = None \/ o.attribute = None
    THEN <<New(o.on, o.element, o.attribute)>>
    ELSE <<New(o.on, o.element, None), New(o.on, None, o.attribute)>>

\* (an XPath expression may also count)
apply_xpath(o, declared) ==
    LET calls == QueryCalls(o, declared, XPath)
    IN  [i \in DOMAIN calls |-> [calls[i] EXCEPT !.op = o.program]]
apply_srcql(o, declared) == QueryCalls(o, declared, SrcQL)

\* apply_xslt, apply_relaxng: of a file, which there may not be
apply_xslt(o) == IF o.on = None THEN NoCalls ELSE <<XSLT(o.program, o.on)>>
apply_relaxng(o) == IF o.on = None THEN NoCalls ELSE <<RelaxNG(o.on)>>

\* create_srcml: the calls for one option
CallsFor(o, declared) ==
    CASE o.protocol = "xpath" -> apply_xpath(o, declared)
      [] o.protocol = "srcql" -> apply_srcql(o, declared)
      [] o.protocol = "xslt" -> apply_xslt(o)
      [] o.protocol = "xslt-param" -> <<Param(o.on)>>
      [] o.protocol = "relaxng" -> apply_relaxng(o)

\* the results of a query on its own are units of an archive
DisablesSolitary(o) ==
    /\ o.protocol \in {"xpath", "srcql"}
    /\ o.element = None /\ o.attribute = None
=============================================================================
