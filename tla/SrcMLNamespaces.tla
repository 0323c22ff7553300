--------------------------- MODULE SrcMLNamespaces ---------------------------
(***************************************************************************)
(* The tables of namespaces that an archive, a unit and an output keep:    *)
(* for each URI a prefix, and flags that decide which start tag declares   *)
(* it.  Three of the seven URIs srcML starts with stand for the ways in    *)
(* which their flags differ: "src" is required, "cpp" is declared on the   *)
(* units that use it and "err" on the root only.  Any other URI is one of  *)
(* a user.                                                                 *)
(***************************************************************************)
EXTENDS Naturals, FiniteSets, Sequences

CONSTANTS
    UserUris,       \* URIs that users register
    PrefixNames     \* prefixes of namespaces

Uris == {"src", "cpp", "err"} \cup UserUris

Flags == {"required", "root", "used", "registered", "standard"}

Namespace == [prefix : PrefixNames, flags : SUBSET Flags]

Entry(prefix, flags) == [prefix |-> prefix, flags |-> flags]

default_namespaces ==
    [uri \in {"src", "cpp", "err"} |->
        CASE uri = "src" -> Entry("", {"standard", "required"})
          [] uri = "cpp" -> Entry("cpp", {"standard"})
          [] uri = "err" -> Entry("err", {"standard", "root"})]

starting_namespaces == [uri \in {"src"} |-> default_namespaces[uri]]

Extended(namespaces, uri, entry) ==
    [u \in DOMAIN namespaces \cup {uri} |->
        IF u = uri THEN entry ELSE namespaces[u]]

\* The prefix of a known URI changes, and that of an unknown one is added.
\* Whether another URI has the prefix is looked up but makes no difference.
addNamespace(namespaces, uri, prefix, used) ==
    Extended(namespaces, uri,
             IF uri \in DOMAIN namespaces
             THEN [namespaces[uri] EXCEPT !.prefix = prefix]
             ELSE Entry(prefix, IF used THEN {"registered", "used"}
                                ELSE {"registered"}))

\* operator+=: a prefix is replaced unless a user chose it for one of the
\* default URIs
Merge(namespaces, otherns) ==
    [uri \in DOMAIN namespaces \cup DOMAIN otherns |->
        IF uri \notin DOMAIN namespaces THEN otherns[uri]
        ELSE IF uri \notin DOMAIN otherns THEN namespaces[uri]
        ELSE IF uri \in DOMAIN default_namespaces
                /\ namespaces[uri].prefix # default_namespaces[uri].prefix
        THEN namespaces[uri]
        ELSE Entry(otherns[uri].prefix,
                   namespaces[uri].flags \cup otherns[uri].flags)]

\* Marks a namespace as used, as Namespace::getPrefix does.
getPrefix(namespaces, uri) ==
    [namespaces EXCEPT ![uri].flags = @ \cup {"used"}]

-----------------------------------------------------------------------------
(* The part of srcMLOutput that writes declarations                        *)

\* what an output knows of namespaces
NewOutput == [namespaces |-> default_namespaces,
              archiveNamespaces |-> << >>,
              depth |-> 0]

initNamespaces(out, otherns) ==
    LET merged == Merge(default_namespaces, otherns)
    IN  [out EXCEPT !.namespaces = merged,
                    !.archiveNamespaces = IF out.depth = 0 THEN merged ELSE @]

\* the outer tag declares what all units need or a user registered
OnOuter(entry) ==
    \/ /\ "standard" \in entry.flags
       /\ "required" \in entry.flags \/ {"root", "used"} \subseteq entry.flags
    \/ "registered" \in entry.flags /\ "standard" \notin entry.flags

\* the tag of a unit declares what this unit uses, unless the root does
OnUnit(out, uri, entry) ==
    \/ /\ {"standard", "used"} \subseteq entry.flags
       /\ {"root", "required"} \cap entry.flags = {}
    \/ "registered" \in entry.flags /\ uri \notin DOMAIN out.archiveNamespaces

\* Options of an archive turn namespaces on.
Marked(out, options) ==
    [out EXCEPT !.namespaces =
        [uri \in DOMAIN @ |->
            IF \/ uri = "cpp" /\ "cpp_declared" \in options
               \/ uri = "err" /\ "debug" \in options
            THEN getPrefix(@, uri)[uri]
            ELSE @[uri]]]

\* mutant: a unit of an archive declares nothing
DeclaresOuterOnly(out, options, uri) ==
    /\ OnOuter(out.namespaces[uri])
    /\ out.depth = 0 \/ "archive" \notin options

Declares(out, options, uri) ==
    LET entry == out.namespaces[uri]
    IN  \/ /\ out.depth = 0 \/ "archive" \notin options
           /\ OnOuter(entry)
        \/ /\ out.depth = 1 \/ "archive" \notin options
           /\ OnUnit(out, uri, entry)

\* The order in which they are written: the URIs srcML starts with are the
\* first in every table.
Order(uris) ==
    LET standard == SelectSeq(<<"src", "cpp", "err">>, LAMBDA u : u \in uris)
        rest == uris \ {"src", "cpp", "err"}
    IN  standard \o CHOOSE s \in [1..Cardinality(rest) -> rest] :
                       {s[i] : i \in DOMAIN s} = rest

\* the declarations that the next start tag of a unit takes
outputNamespaces(out, options) ==
    LET marked == Marked(out, options)
        declared == Order({uri \in DOMAIN marked.namespaces :
                              Declares(marked, options, uri)})
    IN  [i \in 1..Len(declared) |->
            <<"xmlns", marked.namespaces[declared[i]].prefix, declared[i]>>]
=============================================================================
