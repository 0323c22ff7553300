------------------------- MODULE MCApplyTransforms -------------------------
(* Up to three calls, or two options of the client, and documents with one  *)
(* to four elements below the root; and queries in srcQL, each of one call, *)
(* with documents of source code.                                           *)
EXTENDS ApplyTransforms

Tree(labels, kids) ==
    [NoForest EXCEPT !.label = labels, !.kids = kids,
        !.marks = [n \in DOMAIN labels |-> << >>],
        !.doc = [n \in DOMAIN labels |-> 1],
        !.text = [n \in DOMAIN labels |-> << >>],
        !.attributes = [n \in DOMAIN labels |-> << >>]]

\* a b alone; an a with a b, and an a without one; two with one; an a in an a; a
\* directive in an a
MCDocuments == {
    Tree(<<Unit, "b">>, << <<2>>, << >> >>),
    Tree(<<Unit, "a", "b", "a">>, << <<2, 4>>, <<3>>, << >>, << >> >>),
    Tree(<<Unit, "a", "b", "a", "b">>, << <<2, 4>>, <<3>>, << >>, <<5>>, << >> >>),
    Tree(<<Unit, "a", "a", "b">>, << <<2>>, <<3, 4>>, << >>, << >> >>),
    Tree(<<Unit, "a", Cpp, "b">>, << <<2, 4>>, <<3>>, << >>, << >> >>) }

New == "p:new"
Mk == "p:mark"

MCCalls == {
    XPath(Unit, None, None), XPath("a", None, None), XPath("b", None, None),
    XPath("a", None, Mk), XPath("b", New, None), XPath("b", None, Mk),
    SrcQL("a", None, None), Transformation("count", <<"xpath", "count">>, "b"),
    RelaxNG(Unit), XSLT("copy", Unit), XSLT("split", "a"), XSLT("text", "b"),
    Param("b"), Clear }

MCScripts == BoundedSeq(MCCalls, 3)

MCDeclared == {New, Mk}

Option(protocol, on) ==
    [protocol |-> protocol, on |-> on, program |-> "query", element |-> None,
     attribute |-> None]

Queries == {[Option(p, "b") EXCEPT !.element = e, !.attribute = a] :
               p \in {"xpath", "srcql"}, e \in {None, New, "q:new"},
               a \in {None, Mk, "q:mark"}}

Files == {Option(p, None) : p \in {"xslt", "relaxng"}}
         \cup {Option("relaxng", Unit), Option("xslt-param", "a"),
               Option("xpath", "a"),
               [Option("xpath", "b") EXCEPT !.program = "count"]}
         \cup {[Option("xslt", "b") EXCEPT !.program = q] :
                  q \in {"copy", "split", "text"}}

MCRequests == BoundedSeq(Queries \cup Files, 2)

MCHasItem == {<< >>, <<7>>}

-----------------------------------------------------------------------------
(* Source code, and patterns of it *)

In(label, kids) == Element(label, << >>, kids)
Is(label, text) == Element(label, <<text>>, << >>)
N(text) == Is("name", text)
V(name) == Variable("name", name)
Op(text) == Is("operator", text)
One == [Is("literal", "1") EXCEPT
           !.attributes = <<Tok("attribute-is", <<"type", "number">>, 0)>>]

Expr(kids) == In("expr", kids)
Statement(kids) == In("expr_stmt", <<Expr(kids)>>)
Call0(name) == In("call", <<name, In("argument_list", << >>)>>)
Type(kids) == In("type", kids)
Decl(kids) == In("decl", kids)
Init0(name) == In("init", <<Expr(<<name>>)>>)
Return(name) == In("return", <<Expr(<<name>>)>>)
Block(kids) == In("block", <<In("block_content", kids)>>)
Function(type, name, parameters, kids) ==
    In("function", <<Type(type), name,
                     In("parameter_list", [i \in DOMAIN parameters |->
                         In("parameter", <<Decl(parameters[i])>>)]),
                     Block(kids)>>)
Method(name, kids) ==
    In("function", <<Type(<<N("int")>>), name, In("parameter_list", << >>),
                     Is("specifier", "const"), Block(kids)>>)
Class(name, kids) == In("class", <<name, Block(kids)>>)
If(kids) == In("if_stmt", <<In("if", <<Block(kids)>>)>>)

RECURSIVE Listed(_), Size(_)
Listed(t) == <<t>> \o Joint(Listed, t.kids)
Size(t) == Len(Listed(t))

Forest(t, language) ==
    LET all == Listed(t)
        Before(kids, i) == FoldLeft(LAMBDA x, k : x + Size(k), 0, SubSeq(kids, 1, i - 1))
    IN  [Tree([n \in DOMAIN all |-> all[n].label],
              [n \in DOMAIN all |-> [i \in DOMAIN all[n].kids |->
                                        n + 1 + Before(all[n].kids, i)]])
            EXCEPT !.text = [n \in DOMAIN all |-> all[n].text],
                   !.attributes = [n \in DOMAIN all |->
                       [i \in DOMAIN all[n].attributes |->
                           <<all[n].attributes[i].v[1], <<all[n].attributes[i].v[2]>> >>]],
                   !.language = language]

Expressions == <<
    Statement(<<N("x"), Op("+"), N("x")>>),
    Statement(<<N("x"), Op("+"), N("y")>>),
    Statement(<<N("y"), Op("*"), One>>),
    Statement(<<N("x")>>),
    Statement(<<N("y"), Op("+"), Call0(N("y"))>>),
    In("decl_stmt", <<Decl(<<Type(<<Is("specifier", "const"), N("int")>>), N("x"),
                             Init0(N("y"))>>)>>) >>

Functions == <<
    Class(N("A"), <<
        Method(N("h"), << >>), Method(N("k"), << >>),
        Class(N("B"), <<Statement(<<Call0(N("close"))>>), Statement(<<Call0(N("open"))>>)>>),
        Function(<<N("int")>>, N("f"), << <<Type(<<N("int")>>), N("x")>> >>,
                 <<Statement(<<Call0(N("open"))>>), If(<<Statement(<<Call0(N("close"))>>)>>),
                   Return(N("x"))>>),
        Function(<<N("void")>>, N("g"), << <<Type(<<N("int")>>), N("y")>> >>,
                 <<If(<<Statement(<<Call0(N("close"))>>)>>), Statement(<<Call0(N("open"))>>)>>)>>),
    Function(<<Is("specifier", "static"), Is("specifier", "const"), N("int")>>, N("g"),
             << >>, <<If(<<Statement(<<N("x")>>), Statement(<<N("y")>>)>>), Return(N("y"))>>) >>

MCSource == {Forest(In(Unit, Expressions), "C++"), Forest(In(Unit, Functions), "C++"),
             Forest(In(Unit, Expressions), "Python")}

-----------------------------------------------------------------------------
(* Queries *)

Pattern(ps) == [Argument("pattern") EXCEPT !.tree = ps]
Tag(l) == [Argument("tag") EXCEPT !.text = <<Name(l)>>]
NextTag(l) == [Tag(l) EXCEPT !.kind = "next"]
Not(ps) == [Pattern(ps) EXCEPT !.kind = "not"]
Match(v, texts) == [Argument("match") EXCEPT !.text = <<Literal(<<v>>), Literal(texts)>>]
With(t, v) == [Argument("with") EXCEPT !.text = <<Tok(t, v, 0)>>]
CountOf(arg, op, n) == [arg |-> arg, rest |-> <<Sign(op), Number(n)>>]
AndThen(part) == [part EXCEPT !.rest = Append(@, Sign("and"))]
CountIs(parts) == [Argument("count") EXCEPT !.parts = parts]

F == <<Word("FIND")>>
A(arg) == <<An(arg)>>
W(word) == <<Word(word)>>
By == <<Word("FOLLOWED"), Word("BY")>>

\* patterns
E == Pattern(<<Expr(<<V("E")>>)>>)
x == Pattern(<<Expr(<<N("x")>>)>>)
y == Pattern(<<Expr(<<N("y")>>)>>)
xS == Pattern(<<Statement(<<N("x")>>)>>)
anyS == Pattern(<<Statement(<<V("E")>>)>>)
sum == Pattern(<<Statement(<<V("P"), Op("+"), V("Q")>>)>>)
twice == Pattern(<<Statement(<<V("E"), Op("+"), V("E")>>)>>)
product == Pattern(<<Statement(<<V("P"), Op("*"), One>>)>>)
open == Pattern(<<Statement(<<Call0(N("open"))>>)>>)
close == Pattern(<<Statement(<<Call0(N("close"))>>)>>)
sumE == Pattern(<<Statement(<<V("E"), Op("+"), V("Q")>>)>>)
Expr2 == Pattern(<<Expr(<<V("E"), V("E")>>)>>)
calledQ == Pattern(<<Statement(<<V("R"), Op("+"), Call0(V("Q"))>>)>>)
swapped == Pattern(<<In("decl_stmt", <<Decl(<<V("Q"), Init0(V("P"))>>)>>)>>)
called == [Pattern(<<Statement(<<Call0(V("F"))>>)>>) EXCEPT !.macro = TRUE]
constant == Pattern(<<In("decl_stmt",
                <<Decl(<<Type(<<Is("specifier", "const"), V("T")>>), V("N")>>)>>)>>)
fun == Pattern(<<Function(<<V("T")>>, V("F"), << >>, << >>)>>)
funSpecs == Pattern(<<Function(<<Is("specifier", "const"), Is("specifier", "static"), V("T")>>,
                              V("F"), << >>, << >>)>>)
funOfOwn == Pattern(<<Function(<<V("T")>>, V("F"), << <<Type(<<V("T")>>), V("P")>> >>, << >>)>>)
funOf == Pattern(<<Function(<<V("R")>>, V("F"), << <<Type(<<V("T")>>), V("P")>> >>, << >>)>>)
class == Pattern(<<Class(V("C"), << >>)>>)
ret == Pattern(<<Return(V("P"))>>)
if == Pattern(<<If(<< >>)>>)
fn == Tag("function")
nm == Tag("name")

MCQuery == [
    a |-> F \o A(Tag("a")), b |-> F \o A(Tag("b")),
    q01 |-> F \o A(E), q02 |-> F \o A(x), q03 |-> F \o A(xS), q04 |-> F \o A(anyS),
    q05 |-> F \o A(sum), q06 |-> F \o A(twice), q07 |-> F \o A(product),
    q08 |-> F \o A(called), q09 |-> F \o A(constant), q10 |-> F \o A(fun),
    q11 |-> F \o A(funSpecs), q12 |-> F \o A(funOfOwn), q13 |-> F \o A(class),
    q14 |-> F \o A(fn) \o W("CONTAINS") \o A(open),
    q15 |-> F \o A(fun) \o W("CONTAINS") \o A(open) \o By \o A(close),
    q16 |-> F \o A(fun) \o W("CONTAINS") \o A(close) \o By \o A(open),
    q17 |-> F \o A(funOf) \o W("CONTAINS") \o A(ret),
    q18 |-> F \o A(xS) \o W("WITHIN") \o A(if) \o W("WITHIN") \o A(fn),
    q19 |-> F \o A(x) \o W("WITHIN") \o A(Tag("class")),
    q20 |-> F \o A(fn) \o W("CONTAINS") \o A(anyS) \o W("WITHIN") \o A(if),
    q21 |-> F \o A(fn) \o W("CONTAINS") \o A(open) \o W("CONTAINS") \o A(ret),
    q22 |-> F \o A(nm) \o W("FROM") \o F \o A(fun),
    q23 |-> F \o A(NextTag("name")) \o W("FROM") \o F \o A(fun),
    q24 |-> F \o A(NextTag("name")) \o W("FROM") \o F \o A(NextTag("type")) \o W("FROM")
              \o F \o A(fun),
    q25 |-> F \o A(x) \o W("FROM") \o F \o A(fun),
    q26 |-> F \o A(x) \o W("UNION") \o F \o A(y),
    q27 |-> F \o A(fn) \o W("CONTAINS") \o A(x) \o W("INTERSECT") \o F \o A(fn)
              \o W("CONTAINS") \o A(ret),
    q28 |-> F \o A(sum) \o W("DIFFERENCE") \o F \o A(twice),
    q29 |-> F \o A(x) \o W("UNION") \o F \o A(y) \o W("UNION") \o F \o A(class),
    q30 |-> F \o A(sum) \o W("DIFFERENCE") \o F \o A(product) \o W("UNION") \o F \o A(xS),
    q31 |-> F \o A(fun) \o W("WHERE") \o A(Match("F", <<"f", "h">>)),
    q32 |-> F \o A(fun) \o W("WHERE") \o A(Match("T", <<"int">>)) \o W("WHERE")
              \o A(Match("F", <<"g">>)),
    q33 |-> F \o A(fn) \o W("WHERE") \o A(Not(funOfOwn.tree)),
    q34 |-> F \o A(fn) \o W("WHERE") \o A(Not(funOf.tree)) \o W("CONTAINS") \o A(anyS),
    q35 |-> F \o A(fn) \o W("CONTAINS") \o A(Tag("if_stmt")) \o W("WHERE")
              \o A(CountIs(<<CountOf(Tag("expr_stmt"), ">", 1)>>)),
    q36 |-> F \o A(fn) \o W("WHERE")
              \o A(CountIs(<<AndThen(CountOf(open, "=", 1)), CountOf(ret, "=", 0)>>)),
    q37 |-> F \o A(Tag("literal")) \o W("WITH") \o A(With("attribute-is", <<"type", "number">>)),
    q38 |-> F \o A(Tag("literal")) \o W("WITH") \o A(With("attribute", <<"size">>)),
    q39 |-> F \o A(Tag("expr")) \o W("CONTAINS") \o A(Tag("literal")) \o W("WITH")
              \o A(With("attribute-has", <<"type", "number">>)),
    q40 |-> F \o A(fn) \o W("CONTAINS") \o A(x) \o W("WHERE")
              \o A(CountIs(<<CountOf(NextTag("name"), ">=", 1)>>)) \o W("WITHIN") \o A(if),
    q41 |-> F \o W("CONTAINS") \o A(x),
    q42 |-> F \o A(funOf) \o W("CONTAINS") \o A(if) \o W("WHERE") \o A(Match("R", <<"void">>)) \o W("FROM") \o F \o A(class),
    q43 |-> F \o A(fn) \o W("CONTAINS") \o A(called) \o By \o A(called),
    q44 |-> F \o A(Pattern(<<Method(N("k"), << >>)>>)),
    q45 |-> F \o A(class) \o W("CONTAINS") \o A(open) \o By \o A(close),
    q46 |-> F \o A(fn) \o W("CONTAINS") \o A(x) \o By \o A(y),
    q47 |-> F \o A(xS) \o W("CONTAINS") \o A(x),
    q48 |-> F \o A([xS EXCEPT !.terminated = FALSE]),
    q49 |-> F \o A(Tag("class")) \o W("CONTAINS") \o A(open) \o By \o A(close),
    q50 |-> F \o A(Tag(Unit)) \o W("CONTAINS") \o A(twice),
    q51 |-> F \o A(Tag(Unit)) \o W("CONTAINS") \o A(sum) \o W("CONTAINS") \o A(calledQ),
    q52 |-> F \o A(sumE) \o W("DIFFERENCE") \o F \o A(twice),
    q53 |-> F \o A(funOfOwn) \o W("WHERE") \o A(Match("T", <<"int", "void">>))
              \o W("WHERE") \o A(Match("F", <<"g", "f">>)),
    q54 |-> F \o A(fun) \o W("WHERE") \o A(Not(funOfOwn.tree)) \o W("CONTAINS") \o A(ret),
    q55 |-> F \o A(funOf) \o W("WHERE") \o A(Not(funOfOwn.tree)),
    q56 |-> F \o A(twice) \o W("UNION") \o F \o A(product) \o W("UNION") \o F \o A(twice),
    q57 |-> F \o A(nm) \o W("FROM") \o F \o A(twice),
    q58 |-> F \o A(Expr2) \o W("FROM") \o F \o A(sumE),
    q59 |-> F \o A(fn) \o W("WHERE") \o A(CountIs(<<CountOf(ret, "=", 1)>>)) \o W("CONTAINS") \o A(x)
              \o W("WITHIN") \o A(if),
    q60 |-> F \o A(Tag(Unit)) \o W("CONTAINS") \o A(sum) \o W("CONTAINS") \o A(swapped),
    q61 |-> F \o A(Tag("function")) \o W("CONTAINS") \o A(called) \o W("CONTAINS") \o A(called) ]

MCCases ==
    {[document |-> d, scripts |-> MCScripts, requests |-> MCRequests] : d \in MCDocuments}
    \cup {[document |-> d, requests |-> {},
           scripts |-> {<<SrcQL(q, None, None)>> : q \in DOMAIN MCQuery \ {"a", "b"}}] :
             d \in MCSource}
=============================================================================
