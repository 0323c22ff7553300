--------------------------- MODULE JavaScriptNames ---------------------------
(***************************************************************************)
(* isNameToken() of NameDifferentiatorJavaScript: whether a token that has *)
(* the type of a keyword is used as a name.  c is what it looks at:        *)
(*   token     the type of the token                                       *)
(*   next      the type of the next token that is not whitespace, nextText *)
(*             its text, below whether it is on a later line               *)
(*   spaced    whether there is whitespace between the two                 *)
(*   prev      the type of the last token that is no whitespace or comment,*)
(*             level whether it is on the line of the token                *)
(*   before    the type of the token directly before                       *)
(*   bracket   the innermost open bracket                                  *)
(* The sets of token types the filters of JavaScript test come first, by   *)
(* the names of srcMLParser.  Of a set that other languages share only the *)
(* types JavaScript's lexer makes are here.                                *)
(***************************************************************************)

\* comments: LINE_COMMENT_START and LINE_COMMENT_END stand for all kinds
Comments == {"WHOLE_COMMENT", "BLOCK_COMMENT_START", "BLOCK_COMMENT_END",
             "LINE_COMMENT_START", "LINE_COMMENT_END", "COMMENT_TEXT"}

whitespace_token_set == {"WS", "CONTROL_CHAR"} \cup Comments

skip_tokens_set == whitespace_token_set \cup {"EOL"}

literal_tokens_set == {"STRING_START", "CHAR_START", "BACKTICK_START",
                       "CONSTANTS", "LITERAL_TRUE", "LITERAL_FALSE", "JS_NULL",
                       "JS_UNDEFINED", "JS_REGEX"}

general_operator_tokens_set ==
    {"ASSIGNMENT", "DESTOP", "DOTDOTDOT", "EQUAL", "MULTOPS", "NEW", "OPERATORS",
     "REFOPS", "RVALUEREF", "TEMPOPE", "TEMPOPS", "BAR", "EXPONENTIATION",
     "JS_AS", "JS_AWAIT", "JS_DELETE", "JS_INSTANCEOF", "JS_RANGE_IN",
     "JS_RANGE_OF", "JS_TYPEOF", "JS_VOID", "TS_ATSIGN", "TS_INFER", "TS_IS",
     "TS_KEYOF", "TS_SATISFIES"}

decl_start_js_token_set ==
    {"JS_CONST", "JS_LET", "JS_STATIC", "JS_USING", "JS_VAR"}

table_keywords_js_token_set ==
    {"BREAK", "CASE", "CLASS", "CONTINUE", "DO", "FINALLY", "FOR", "IF",
     "JS_CATCH", "JS_CONSTRUCTOR", "JS_DEBUGGER", "JS_DEFAULT", "JS_ELSE",
     "JS_EXPORT", "JS_FUNCTION", "JS_GET", "JS_IMPORT", "JS_SET", "JS_STATIC",
     "JS_WITH", "JS_YIELD", "RETURN", "SWITCH", "THROW", "TRY", "WHILE",
     "TS_ENUM", "TS_INTERFACE", "TS_MODULE", "TS_NAMESPACE", "TS_TYPE"}

keyword_expression_pair_js_token_set ==
    {"JS_AS", "CASE", "JS_DEFAULT", "JS_EXPORT", "JS_RANGE_IN", "JS_RANGE_OF",
     "RETURN", "THROW", "JS_YIELD"}

declaration_specifiers_ts_token_set ==
    {"TS_ACCESSOR", "TS_DECLARE", "TS_OVERRIDE", "TS_PRIVATE", "TS_PROTECTED",
     "TS_PUBLIC", "TS_READONLY"}

function_declaration_specifiers_ts_token_set == {"JS_STATIC", "TS_ABSTRACT"}

name_differentiator_subset_js_token_set ==
    {"JS_AS", "BREAK", "CASE", "JS_CATCH", "JS_CONST", "JS_CONSTRUCTOR",
     "CONTINUE", "JS_DEBUGGER", "JS_DEFAULT", "JS_DELETE", "DO", "JS_EACH",
     "JS_ELSE", "JS_EXPORT", "JS_EXTENDS", "FINALLY", "FOR", "JS_FROM", "JS_GET",
     "IF", "JS_IMPORT", "JS_RANGE_IN", "JS_INSTANCEOF", "JS_LET", "JS_RANGE_OF",
     "RETURN", "JS_SET", "JS_STATIC", "SWITCH", "THROW", "TRY", "JS_VAR",
     "WHILE", "JS_WITH",
     "TS_ABSTRACT", "TS_ACCESSOR", "TS_DECLARE", "TS_IMPLEMENTS",
     "TS_INTERFACE", "TS_MODULE", "TS_NAMESPACE", "TS_OVERRIDE", "TS_PRIVATE",
     "TS_PROTECTED", "TS_PUBLIC", "TS_TYPE"}

\* without "enum"
name_differentiator_js_token_set ==
    name_differentiator_subset_js_token_set \cup
    {"JS_ASYNC", "JS_AWAIT", "CLASS", "LITERAL_FALSE", "LITERAL_TRUE",
     "JS_FUNCTION", "NEW", "JS_NULL", "JS_TYPEOF", "JS_UNDEFINED", "JS_USING",
     "JS_VOID", "JS_YIELD", "TS_ASSERTS", "TS_INFER", "TS_IS", "TS_KEYOF",
     "TS_READONLY", "TS_SATISFIES"}

\* the tokens the differentiator decides about
Keywords == name_differentiator_js_token_set \cup {"JS_VOID", "TS_ENUM"}

insert_terminate_js_token_set ==
    {"CHAR_END", "CHAR_START", "CONSTANTS", "JS_NULL", "JS_REGEX",
     "JS_UNDEFINED", "JS_VOID", "LITERAL_FALSE", "LITERAL_TRUE", "NAME",
     "STRING_END", "STRING_START"}

insert_terminate_eol_js_token_set ==
    (insert_terminate_js_token_set \ {"JS_VOID"}) \cup
    {"BACKTICK_END", "BACKTICK_START", "DESTOP", "TS_ATSIGN"}

Opening == {"LPAREN", "LCURLY", "LBRACKET"}
Closing == {"RPAREN", "RCURLY", "RBRACKET"}

\* the entry that is always at the bottom of a stack of brackets
Outside == "*"

-----------------------------------------------------------------------------
(* Names *)

Specifiers == declaration_specifiers_ts_token_set
                  \cup function_declaration_specifiers_ts_token_set

Jumps == {"BREAK", "CONTINUE", "RETURN"}

\* what ends an item of a list
ListEnds == {"COMMA", "RPAREN", "RCURLY", "RBRACKET"}

\* a keyword right before "("
Called(c) ==
    /\ ~ c.spaced /\ c.next = "LPAREN"
    /\ c.token \notin {"JS_CATCH", "JS_CONSTRUCTOR", "IF", "FOR", "JS_FUNCTION",
                       "JS_GET", "JS_SET", "JS_WITH", "NEW", "SWITCH", "WHILE"}

\* an operand, from what follows
BeforeOperator(c) ==
    \/ /\ c.token \in name_differentiator_subset_js_token_set \ Jumps
       /\ c.next = "TERMINATE"
    \/ c.token \in table_keywords_js_token_set /\ c.next = "EQUAL"
    \/ /\ c.token = "JS_LET"
       /\ c.next \in general_operator_tokens_set \ name_differentiator_js_token_set

\* all there is between brackets, or the value of a property
Alone(c) ==
    \/ /\ c.token \in name_differentiator_js_token_set
       /\ \/ c.prev = "LCURLY" /\ c.token \notin Jumps /\ c.next = "RCURLY"
          \/ c.prev = "LBRACKET" /\ c.next = "RBRACKET"
    \/ /\ c.token \in table_keywords_js_token_set \ Jumps
       /\ c.prev = "COLON" /\ c.next \in {"COMMA", "RCURLY"}

\* after a specifier, or a specifier that is renamed
Declared(c) ==
    \/ /\ c.prev \in declaration_specifiers_ts_token_set
       /\ c.token \in name_differentiator_js_token_set \cup {"TS_ENUM"}
       /\ c.next \in {"EQUAL", "TERMINATE"}
    \/ c.token \in Specifiers /\ c.next = "JS_AS"

\* the name of a property or a parameter
Labelled(c) ==
    \/ c.token # "JS_DEFAULT" /\ c.next = "COLON"
    \/ /\ c.token \in name_differentiator_subset_js_token_set \cup {"TS_READONLY"}
       /\ c.next = "QMARK"

Readonly(c) ==
    /\ c.token = "TS_READONLY"
    /\ \/ c.prev = "EQUAL" /\ c.next # "LBRACKET"
       \/ c.prev \in {"LCURLY", "COMMA"} /\ c.next \in {"COMMA", "COLON", "RCURLY"}

Default(c) ==
    /\ c.token = "JS_DEFAULT"
    /\ \/ c.next \in ListEnds \cup {"JS_AS"}
       \/ c.prev \in declaration_specifiers_ts_token_set

Type(c) ==
    /\ c.token = "TS_TYPE"
    /\ \/ c.next \in {"OPERATORS", "COLON", "PERIOD", "QMARK", "JS_ARROW",
                      "TERMINATE", "EOF", "JS_AS", "JS_RANGE_IN", "TS_KEYOF"}
       \/ c.prev \in {"BREAK", "COLON", "RETURN"}
       \/ /\ c.bracket = "LCURLY"
          /\ \/ c.next = "RCURLY"
             \/ c.prev \in {"LCURLY", "COMMA"} /\ c.next = "COMMA"
       \/ /\ c.bracket \in {"LPAREN", "LBRACKET"}
          /\ c.next \in {"COMMA", "RPAREN", "RBRACKET"}
       \/ c.next \in general_operator_tokens_set /\ c.prev # "JS_IMPORT"

Accessed(c) ==
    /\ c.token \in {"JS_GET", "JS_SET"}
    /\ \/ c.prev \in {"CLASS", "JS_ARROW", "TS_ENUM", "JS_FUNCTION",
                      "TS_INTERFACE", "TS_MODULE", "TS_NAMESPACE"}
       \/ c.prev \in {"LCURLY", "COMMA"} /\ c.next = "COMMA"
       \/ c.prev = "COMMA" /\ c.next = "RCURLY"
       \/ c.next = "MULTOPS"

From(c) == c.token = "JS_FROM" /\ c.next \notin {"STRING_START", "CHAR_START"}

\* an operand, from what comes before
AfterOperator(c) ==
    /\ c.token \in name_differentiator_subset_js_token_set
    /\ \/ c.level /\ c.prev = "EQUAL"
       \/ /\ c.token \notin Specifiers \cup {"JS_LET", "JS_VAR", "JS_CONST"}
          /\ c.prev = "LPAREN"
       \/ /\ c.level \/ c.bracket = "LPAREN"
          /\ c.prev = "OPERATORS" /\ c.next \notin literal_tokens_set
       \/ c.prev = "JS_AS"

\* where an expression ends
ExpressionEnds == ListEnds \cup {"TEMPOPE", "TERMINATE"}

\* a whole expression
Expression(c) ==
    /\ c.token \in Specifiers \cup table_keywords_js_token_set
    /\ c.prev \in keyword_expression_pair_js_token_set \cup {"COMMA"}
    /\ c.next \in ExpressionEnds

Awaited(c) ==
    /\ c.prev = "JS_AWAIT" /\ c.token \in name_differentiator_js_token_set
    /\ c.next = "LPAREN"

Renamed(c) == c.token \in {"CLASS", "JS_FUNCTION"} /\ c.prev = "JS_AS"

Extends(c) ==
    /\ c.token \in {"JS_EXTENDS", "TS_IMPLEMENTS"}
    /\ \/ c.next = "QMARK"
       \/ c.next = "OPERATORS" /\ c.nextText = "!"
       \/ c.prev \in {"LCURLY", "COMMA"} /\ c.next \in {"COMMA", "COLON", "RCURLY"}

Specifier(c) ==
    /\ c.token \in Specifiers
    /\ \/ c.prev \in {"JS_EXTENDS", "TS_IMPLEMENTS"} /\ c.next = "LCURLY"
       \/ c.next = "RCURLY"
       \/ /\ c.next \in general_operator_tokens_set
          /\ c.next \notin {"OPERATORS", "DESTOP", "MULTOPS", "NEW"}
       \/ c.next = "OPERATORS" /\ c.nextText \notin {"+", "-"}

\* mutant: only a "." after the token
MemberBefore(c) ==
    \/ c.next \in {"PERIOD", "QMARK_PERIOD"}
    \/ c.token = "JS_CATCH" /\ c.prev = "PERIOD"

\* a member, or what has one
Member(c) ==
    \/ {c.before, c.next} \cap {"PERIOD", "QMARK_PERIOD"} # {}
    \/ c.token = "JS_CATCH" /\ c.prev = "PERIOD"

\* keywords that are names but for one use of them
Unusual(c) ==
    \/ /\ c.prev = "JS_TYPEOF" /\ c.token = "TS_MODULE"
       /\ c.next \in general_operator_tokens_set
    \/ c.prev # "COLON" /\ c.token = "TS_ASSERTS"
    \/ c.token = "JS_VOID" /\ c.next = "JS_ARROW"
    \/ c.token = "TRY" /\ c.next # "LCURLY"
    \/ c.token \in name_differentiator_subset_js_token_set /\ c.next = "JS_ARROW"

\* the name of a function
FunctionName(c) ==
    /\ c.token \in {"FOR", "NEW", "SWITCH", "IF", "WHILE", "JS_CATCH",
                    "JS_FUNCTION", "JS_WITH", "TS_ENUM"}
    /\ c.prev \in {"JS_FUNCTION", "JS_GET", "JS_SET"}

Accessor(c) ==
    /\ c.token = "TS_ACCESSOR"
    /\ \/ c.next \notin name_differentiator_js_token_set \cup {"TS_ENUM"}
       \/ c.prev = "TS_ACCESSOR"

\* what an async function may begin with
AsyncStarts == {"JS_ASYNC", "JS_FUNCTION", "LPAREN", "NAME"}

Async(c) ==
    /\ c.token = "JS_ASYNC"
    /\ \/ c.next \in {"COLON", "COMMA", "JS_ARROW", "JS_RANGE_IN", "JS_RANGE_OF",
                      "QMARK", "RPAREN", "TERMINATE"}
       \/ c.next \in general_operator_tokens_set \ {"MULTOPS", "TEMPOPS"}
       \/ c.prev = "JS_ASYNC"
       \/ c.prev = "JS_ARROW" /\ c.next \notin AsyncStarts
       \/ c.prev = "COLON" /\ c.next \in ListEnds \cup {"TEMPOPE"}
       \/ /\ c.prev \in name_differentiator_subset_js_token_set
          /\ c.next \notin AsyncStarts \cup {"MULTOPS"}

Yield(c) ==
    /\ c.token = "JS_YIELD"
    /\ \/ c.prev = "LPAREN" /\ c.next = "RPAREN"
       \/ c.prev = "DOTDOTDOT" \/ c.next \in {"COLON", "COMMA", "JS_ARROW"}

Await(c) ==
    /\ c.token = "JS_AWAIT"
    /\ \/ c.next \in {"COLON", "COMMA", "JS_ARROW", "RPAREN"}
       \/ c.prev = "JS_ARROW"
       \/ c.prev \in name_differentiator_subset_js_token_set \ {"FOR"}

ClassName(c) ==
    /\ c.prev = "CLASS"
    /\ c.token \notin {"NAME", "LCURLY", "JS_EXTENDS", "TS_IMPLEMENTS"}

\* an argument of a generic type
Argument(c) ==
    /\ c.bracket = Outside
    /\ c.prev \in {"TEMPOPS", "COMMA"} /\ c.next \in {"TEMPOPE", "COMMA"}
    /\ c.token \in name_differentiator_js_token_set

Constructor(c) ==
    /\ c.token = "JS_CONSTRUCTOR"
    /\ \/ c.prev \in {"LCURLY", "COMMA"} /\ c.next # "LPAREN"
       \/ c.prev \in {"MULTOPS", "JS_EXTENDS", "JS_FUNCTION", "JS_GET", "JS_SET",
                      "NEW", "TS_IMPLEMENTS"}
       \/ /\ c.prev \in keyword_expression_pair_js_token_set \cup {"COMMA"}
          /\ c.next \in ExpressionEnds

New(c) == c.token = "NEW" /\ c.prev \in {"LCURLY", "RCURLY", "TERMINATE"}

\* a declaration, and what it declares
Variable(c) ==
    \/ c.token \in decl_start_js_token_set /\ c.next = "LPAREN"
    \/ /\ c.prev \in decl_start_js_token_set
       /\ c.token = "JS_ASYNC" => c.next # "MULTOPS" \/ c.next # "NAME"
       /\ c.next \in {"EQUAL", "TERMINATE", "EOF"} \/ c.below

isNameToken(c) ==
    /\ ~ (c.token \in {"JS_VOID", "TS_ENUM"} /\ c.next = "NAME")
    /\ \/ Called(c) \/ BeforeOperator(c) \/ Alone(c) \/ Declared(c)
       \/ Labelled(c) \/ Readonly(c) \/ Default(c) \/ Type(c) \/ Accessed(c)
       \/ From(c) \/ AfterOperator(c) \/ Expression(c) \/ Awaited(c)
       \/ Renamed(c) \/ Extends(c) \/ Specifier(c) \/ Member(c) \/ Unusual(c)
       \/ FunctionName(c) \/ Accessor(c) \/ Async(c) \/ Yield(c) \/ Await(c)
       \/ ClassName(c) \/ Argument(c) \/ Constructor(c) \/ New(c) \/ Variable(c)
=============================================================================
