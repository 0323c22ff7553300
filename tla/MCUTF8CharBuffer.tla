-------------------------- MODULE MCUTF8CharBuffer --------------------------
EXTENDS UTF8CharBuffer

a == <<"a">>
cr == <<"CR">>
lf == <<"LF">>
two == <<"L2", "C">>
three == <<"L3", "C", "C">>
latin == <<"XX">>

Wide(u) == <<u[1], "NUL">>
Narrow(u) == <<"NUL", u[1]>>
Quad(u) == <<u[1], "NUL", "NUL", "NUL">>
other == <<"P", "Q">>

Texts(S, n) == UNION {[1..k -> S] : k \in 0..n}

File(bom, encoding, text, given) ==
    [bom |-> bom, encoding |-> encoding, text |-> text, given |-> given,
     from |-> "filename", there |-> TRUE, context |-> TRUE, close |-> TRUE]

\* the names that are given for an encoding, or none
Names(encoding) ==
    {""} \cup (CASE encoding = "UTF-8" -> {"UTF-8", "utf8"}
                 [] encoding = "UTF-16LE" -> {"UTF-16LE", "UTF16"}
                 [] OTHER -> {encoding})

\* a file of nothing but a byte order mark is left out, and one in which
\* UTF-16 cannot be told from its NUL bytes
Files ==
    {File(<< >>, "UTF-8", t, g) : g \in {"", "UTF-8"},
        t \in Texts({a, cr, lf, two, three}, 4)}
    \cup {File(<<"EF", "BB", "BF">>, "UTF-8", <<a>> \o t, g) :
            g \in Names("UTF-8"), t \in Texts({a, cr, lf, three}, 2)}
    \cup {File(<<"FF", "FE">>, "UTF-16LE", <<Wide(a)>> \o t, g) :
            g \in Names("UTF-16LE"), t \in Texts({Wide(a), Wide(cr), Wide(lf), other}, 3)}
    \cup {File(<<"FE", "FF">>, "UTF-16BE", <<Narrow(a)>> \o t, "") :
            t \in Texts({Narrow(a), Narrow(cr), Narrow(lf), other}, 2)}
    \cup {File(<< >>, "UTF-16LE", <<Wide(a), Wide(a)>> \o t, "") :
            t \in Texts({Wide(a), Wide(cr), Wide(lf)}, 2)}
    \cup {File(<< >>, "UTF-32LE", <<Quad(a)>> \o t, "") :
            t \in Texts({Quad(a), Quad(cr), Quad(lf)}, 2)}
    \cup {File(<< >>, "UTF-8", t, "UTF8") : t \in Texts({a, three, latin}, 3)}
    \cup {File(<<"FF", "FE">>, "UTF-16LE", <<Wide(a)>> \o t, "UTF-16LE") :
            t \in Texts({Wide(a), <<"P", "S">>}, 3)}
    \cup {File(<< >>, "ISO-8859-1", t, g) : g \in Names("ISO-8859-1"),
            t \in Texts({a, cr, lf, latin}, 5)}

\* every way to give a source, with a few files
Ways ==
    [from : {"memory", "FILE", "fd"}, there : {TRUE}, context : {TRUE}, close : {FALSE}]
    \cup [from : {"filename"}, there : {TRUE}, context : {FALSE}, close : {FALSE}]
    \cup [from : {"io"}, there : {TRUE}, context : BOOLEAN, close : BOOLEAN]
Refused ==
    [from : {"memory", "FILE", "fd", "io", "filename"}, there : {FALSE},
     context : {FALSE}, close : BOOLEAN]
Few ==
    {File(<< >>, "UTF-8", t, g) : g \in {"", "utf8"}, t \in Texts({a, cr, lf, three}, 2)}
    \cup {File(<<"EF", "BB", "BF">>, "UTF-8", t, "") : t \in Texts({a, cr}, 2) \ {<< >>}}
    \cup {File(<<"FF", "FE">>, "UTF-16LE", <<Wide(a)>> \o t, "") :
            t \in Texts({Wide(a), other}, 2)}
    \cup {File(<< >>, "UTF-8", t, "UTF-8") : t \in Texts({a, latin}, 2)}

MCSources ==
    Files \cup {way @@ file : way \in Ways, file \in Few}
    \cup {way @@ File(<< >>, "UTF-8", <<a>>, "") : way \in Refused}
=============================================================================
