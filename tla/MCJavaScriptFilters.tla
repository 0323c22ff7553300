------------------------ MODULE MCJavaScriptFilters -------------------------
(* Small programs for JavaScriptFilters, put together from statements. *)
EXTENDS JavaScriptFilters, FiniteSets

\* A word of a program: role is "name", "keyword", "comment" or "other".
Word(type, text, role) == [type |-> type, text |-> text, role |-> role, end |-> FALSE]
T(type) == Word(type, "", "other")
Ts(list) == [i \in DOMAIN list |-> T(list[i])]
Op(text) == Word("OPERATORS", text, "other")
K(type) == Word(type, "", "keyword")
N(type) == Word(type, "", "name")
End(w) == [w EXCEPT !.end = TRUE]
x == N("NAME")
string == <<T("STRING_START"), T("STRING_END")>>
one == T("CONSTANTS")
lp == T("LPAREN")  rp == T("RPAREN")  lc == T("LCURLY")  rc == T("RCURLY")
lb == T("LBRACKET")  rb == T("RBRACKET")  eq == T("EQUAL")  cm == T("COMMA")
co == T("COLON")  dot == T("PERIOD")  semi == T("TERMINATE")

\* words that are written with letters
IsWord(w) == w.role # "other" \/ w.type \in literal_tokens_set

\* words that are keywords in some places only, and those that are in all
Contextual == {"JS_ASYNC", "JS_GET", "JS_SET", "JS_FROM", "TS_TYPE", "TS_DECLARE",
               "TS_ABSTRACT", "TS_MODULE", "TS_NAMESPACE", "TS_OVERRIDE",
               "TS_ASSERTS", "TS_ACCESSOR"}
Operators == {"JS_AS", "JS_EACH", "JS_RANGE_OF", "TS_IS", "TS_INFER", "TS_READONLY"}
Reserved == {"JS_DEFAULT", "CLASS", "JS_CATCH", "RETURN", "JS_TYPEOF", "IF", "NEW",
             "JS_DELETE", "FOR", "JS_FUNCTION", "JS_IMPORT", "JS_EXPORT", "TRY",
             "JS_CONSTRUCTOR", "JS_VOID"}
KeywordTypes == Contextual \cup Operators \cup Reserved

Ended(s) == [s EXCEPT ![Len(s)] = End(@)]

\* statements in which the word w is a name, whatever the layout
Members(w) == {
  <<x, dot, w>>, <<x, dot, w, lp, x, rp>>, <<x, T("QMARK_PERIOD"), w>>,
  <<x, dot, w, dot, w>>, <<x, T("TEMPOPS"), w, cm, w, T("TEMPOPE"), lp, rp>>}
Keys(w) == {<<x, eq, lc, w, co, x, cm, w, co, x, rc>>}
Variables(w) == {
  <<K("JS_LET"), w, eq, x>>, <<K("JS_CONST"), w, eq, x>>, <<w, eq, x>>,
  <<x, eq, lc, w, rc>>, <<x, eq, x, T("QMARK"), w, co, x>>,
  <<K("JS_IMPORT"), lc, w, rc, K("JS_FROM")>> \o string}
\* and those in which it is one when no whitespace comes before "("
Functions(w) == {
  <<K("JS_FUNCTION"), w, lp, rp, lc, rc>>,
  <<K("CLASS"), x, lc, w, lp, rp, lc, rc, rc>>,
  <<K("CLASS"), x, lc, K("JS_STATIC"), w, lp, rp, lc, rc, rc>>}
Arguments(w) == {<<w, lp, x, rp>>, <<x, lp, w, cm, x, rp>>, <<x, lp, x, cm, w, rp>>}

Simple == {
 <<x, eq, one>>, <<x, lp, x, cm, x, rp>>, <<x, Op("++")>>, <<Op("++"), x>>, <<Op("!"), x, lp, rp>>,
 <<K("RETURN"), x>>, <<K("THROW"), K("NEW"), x, lp, rp>>,
 <<K("JS_IMPORT"), x, K("JS_FROM")>> \o string, <<K("TS_TYPE"), x, eq, x>>,
 <<x, eq, K("JS_TYPEOF"), x>>, <<x, eq, K("NEW"), x, lp, rp>>, <<x, eq, K("JS_AWAIT"), x>>,
 <<K("BREAK")>>, <<x, eq, lb, x, cm, x, rb>>, <<x, eq, x, K("JS_AS"), x>>,
 <<K("JS_EXPORT"), K("JS_DEFAULT"), x>>,
 <<x, eq, x, K("JS_INSTANCEOF"), x>>, <<K("JS_DELETE"), x, dot, x>>, <<K("JS_YIELD"), x>>,
 <<K("TS_TYPE"), x, eq, K("TS_KEYOF"), x>>, <<K("JS_VOID"), x>>, <<K("RETURN")>>, <<K("CONTINUE"), x>>,
 <<x, eq, K("JS_NULL")>>, <<x, dot, x, eq, string[1], string[2]>>,
 <<K("JS_LET"), x, co, x, eq, one>>, <<K("JS_CONST"), x, eq, K("JS_FUNCTION"), lp, rp, lc, rc>>}
Blocks == {
 <<K("IF"), lp, x, rp, lc, rc>>, <<K("IF"), lp, x, rp, lc, End(x), semi, rc, K("JS_ELSE"), lc, K("RETURN"), x, rc>>,
 <<K("FOR"), lp, K("JS_CONST"), x, K("JS_RANGE_OF"), x, rp, lc, rc>>,
 <<K("WHILE"), lp, x, rp, lc, x, Op("++"), rc>>,
 <<K("CLASS"), x, K("JS_EXTENDS"), x, lc, K("JS_CONSTRUCTOR"), lp, rp, lc, rc, rc>>,
 <<K("CLASS"), x, K("TS_IMPLEMENTS"), x, lc, K("TS_PRIVATE"), K("TS_READONLY"), x, co, End(x), semi, rc>>,
 <<K("CLASS"), x, lc, K("JS_SET"), x, lp, x, rp, lc, rc, K("JS_STATIC"), K("JS_ASYNC"), x, lp, rp, lc, rc, rc>>,
 <<K("JS_ASYNC"), K("JS_FUNCTION"), x, lp, rp, lc, x, eq, K("JS_AWAIT"), x, rc>>,
 <<K("TRY"), lc, x, lp, rp, rc, K("JS_CATCH"), lp, x, rp, lc, rc>>,
 <<K("TS_INTERFACE"), x, lc, x, co, x, rc>>, <<K("TS_NAMESPACE"), x, lc, rc>>,
 <<K("TS_ABSTRACT"), K("CLASS"), x, lc, rc>>, <<K("TS_ENUM"), x, lc, x, rc>>,
 <<K("SWITCH"), lp, x, rp, lc, K("CASE"), one, co, End(K("BREAK")), semi, K("JS_DEFAULT"), co, x, rc>>}

\* layouts
Dots == {"PERIOD", "QMARK_PERIOD"}
Line == <<T("EOL"), T("WS")>>
Comment == Ts(<<"BLOCK_COMMENT_START", "COMMENT_TEXT", "BLOCK_COMMENT_END">>)
Gap(layout, v, w) ==
    LET needed == IsWord(v) /\ IsWord(w)
    IN CASE layout = "tight" -> IF needed THEN <<T("WS")>> ELSE << >>
      [] layout = "loose" -> IF {v.type, w.type} \cap (Dots \cup {"STRING_END"}) # {} THEN << >> ELSE <<T("WS")>>
      [] layout = "comments" -> IF needed THEN Comment ELSE << >>
      [] layout = "lines" -> IF v.type \in Opening \cup {"COMMA"} \/ w.type \in Closing THEN Line
                             ELSE IF needed THEN <<T("WS")>> ELSE << >>
Layouts == {"tight", "loose", "comments", "lines"}

Spread(s, layout) ==
    FlattenSeq([i \in 1..Len(s) |->
        IF i = 1 THEN <<s[i]>> ELSE Append(Gap(layout, s[i - 1], s[i]), s[i])])

Separators == {<<semi>>, <<T("EOL")>>, <<semi, T("EOL")>>,
               <<T("WS"), T("LINE_COMMENT_START"), T("LINE_COMMENT_END"), T("EOL"), T("WS")>>}

Program(words) ==
    LET all == Append(words, T("EOF"))
        line(i) == 1 + Cardinality({j \in 1..(i - 1) : all[j].type = "EOL"})
        have(role) == {i \in 1..Len(all) : all[i].role = role}
    IN  [tokens |-> [i \in 1..Len(all) |->
                        [type |-> all[i].type, text |-> all[i].text, line |-> line(i)]],
         names |-> have("name"), keywords |-> have("keyword"), comments |-> have("comment"),
         ends |-> {i \in 1..Len(all) : all[i].end}]

Of(ws, S(_)) == UNION {S(N(w)) : w \in ws}
AnyLayout == Of(KeywordTypes, Members) \cup Of(KeywordTypes \ {"JS_DEFAULT"}, Keys)
                 \cup Of(Contextual, Variables)
Tight == LET words == Contextual \ {"JS_GET", "JS_SET"}
         IN  Of(words, Functions) \cup Of(words, Arguments)
async == <<x, eq, K("JS_ASYNC"), lp, x, rp, T("JS_ARROW"), x>>

\* a comment that "-->" begins, and what is none
Arrow == <<Word("OPERATORS", "--", "comment"), T("TEMPOPE"), T("WS"), N("NAME")>>
NoArrow == <<x, T("WS"), Op("--"), T("TEMPOPE"), T("WS"), x>>
eol == T("EOL")
follow == Ended(<<x, eq, one>>)

SmallPrograms ==
    {Program(Ended(Spread(s, l))) : s \in AnyLayout, l \in Layouts}
    \cup {Program(Ended(Spread(s, l))) : s \in Tight, l \in Layouts \ {"loose"}}
    \cup {Program(Spread(Ended(s), l) \o sep \o follow) :
             s \in Simple, l \in Layouts, sep \in Separators}
    \cup {Program(Ended(Spread(s, "tight")) \o <<eol>> \o Ended(Spread(t, "tight"))) :
             s \in {u \in Simple : Last(u).type \notin Jumps}, t \in Simple}
    \cup {Program(Spread(s, l) \o sep \o follow) :
             s \in Blocks, l \in Layouts, sep \in {<<eol>>, << >>}}
    \cup {Program(Ended(s) \o <<eol>> \o follow) :
             s \in {Spread(async, "loose"), <<K("JS_DEBUGGER")>>}}
    \cup {Program(s \o Arrow \o <<eol>> \o follow) :
             s \in {<< >>, <<eol>>, Comment, follow \o <<eol>>, follow \o <<semi, eol, T("WS")>>}}
    \cup {Program(s \o Ended(NoArrow) \o <<eol>> \o follow) :
             s \in {<< >>, follow \o <<eol>>, follow \o <<semi>>}}
=============================================================================
