------------------------------ MODULE SaxLayer ------------------------------
(***************************************************************************)
(* sax2_srcsax_handler: turns the start tags, end tags and text libxml2    *)
(* finds into calls of srcml_reader_handler (start root, start unit, end   *)
(* unit, end root) and collects the text of a unit.                        *)
(*                                                                         *)
(* Whether a document is an archive is known only at the first element     *)
(* below the root, so the calls for the root are delayed until then.       *)
(*                                                                         *)
(* A document is a sequence of tokens and a text is the set of positions   *)
(* of the tokens it is made of.  An empty element is an "empty" token and  *)
(* its "end".  A document libxml2 cannot parse has an "error" where it     *)
(* breaks off.                                                             *)
(***************************************************************************)
EXTENDS Integers, Sequences

Names == {"unit", "macro-list", "other", "none"}
Tags == {"start", "empty", "end", "text", "error"}
Token == [tag : Tags, name : Names]

Calls == {"startRoot", "startUnit", "endUnit", "endRoot",
          "callbacks", "element"}

-----------------------------------------------------------------------------
(* The state: ctxt->sax and sax2_srcsax_handler *)

SaxState ==
    [onStart : {"root", "first", "unit", "element", "none"},
     onText : {"unit", "root", "none"},
     isArchive : BOOLEAN,
     rootcalled : BOOLEAN,
     collect : BOOLEAN,         \* collect_unit_body
     text : SUBSET Nat,         \* unitsrcml
     base : Nat]

SaxInit ==
    [onStart |-> "root", onText |-> "unit", isArchive |-> FALSE,
     rootcalled |-> FALSE, collect |-> TRUE, text |-> {}, base |-> 0]

\* append from base up to token p
Collect(s, p) ==
    [s EXCEPT !.text = IF s.collect THEN @ \cup (s.base + 1)..p ELSE @,
              !.base = p]

\* mutant: the text of the unit before is kept
StartTextKeeps(s, p) == [s EXCEPT !.text = @ \cup {p}, !.base = p]

\* start_unit, up to the call of the handler
StartText(s, p) == [s EXCEPT !.text = {p}, !.base = p]

\* start_unit, after it
Callbacks(s) ==
    IF s.collect THEN [s EXCEPT !.onStart = "element", !.onText = "unit"]
    ELSE [s EXCEPT !.onStart = "none", !.onText = "none"]

-----------------------------------------------------------------------------
(* A callback of libxml2 changes the state and makes calls: a sequence of  *)
(* pairs of a call and the token it is about.                              *)

Does(s, calls) == [sax |-> s, calls |-> calls]

\* first_start_element: the document is an archive if this is a unit
First(s, p, name) ==
    IF name = "macro-list" THEN Does(s, << >>)
    ELSE IF name = "unit"
    THEN Does([StartText(s, p) EXCEPT !.isArchive = TRUE, !.rootcalled = TRUE],
              << <<"startRoot", 1>>, <<"startUnit", p>>, <<"callbacks", p>> >>)
    ELSE Does([s EXCEPT !.onStart = "element", !.rootcalled = TRUE],
              << <<"startRoot", 1>>, <<"startUnit", 1>>, <<"element", p>> >>)

\* startElementNs
StartTag(s, p, name, empty) ==
    CASE s.onStart = "root" ->
            Does([Callbacks(StartText(s, p)) EXCEPT !.onStart = "first",
                                                    !.rootcalled = empty],
                 IF empty THEN << <<"startRoot", p>>, <<"startUnit", p>> >>
                          ELSE << >>)
      [] s.onStart = "first" -> First(s, p, name)
      [] s.onStart = "unit" ->
            Does(StartText(s, p), << <<"startUnit", p>>, <<"callbacks", p>> >>)
      [] s.onStart = "element" -> Does(Collect(s, p), << >>)
      [] s.onStart = "none" -> Does(s, << >>)

EndsUnit(s, depth) == depth = 2 \/ ~ s.isArchive

\* mutant: only the unit of a root without elements is announced
LateUnit(s, p) ==
    IF s.rootcalled THEN << >>
    ELSE << <<"startUnit", 1>>, <<"endUnit", p>> >>

\* end_root: the calls for a root without elements are still to be made
LateRoot(s, p) ==
    IF s.rootcalled THEN << >>
    ELSE << <<"startRoot", 1>>, <<"startUnit", 1>>, <<"endUnit", p>> >>

\* endElementNs, of the element at this depth
EndTag(s, p, name, depth) ==
    LET unitEnds == name = "unit" /\ EndsUnit(s, depth)
        rootEnds == name = "unit" /\ depth = 1
    IN  Does([Collect(s, p) EXCEPT
                 !.onStart = IF unitEnds THEN "unit" ELSE @,
                 !.onText = IF unitEnds THEN "root" ELSE @,
                 !.rootcalled = @ \/ rootEnds],
             (IF unitEnds THEN << <<"endUnit", p>> >> ELSE << >>)
             \o (IF rootEnds THEN LateRoot(s, p) \o << <<"endRoot", p>> >>
                             ELSE << >>))

\* characters: inside a unit, between units, or not at all
Text(s, p) ==
    CASE s.onText = "unit" -> IF s.collect THEN Collect(s, p) ELSE s
      [] s.onText = "root" -> [s EXCEPT !.base = p]
      [] s.onText = "none" -> s

\* what the callback for token p does
Callback(s, p, token, depth) ==
    CASE token.tag \in {"start", "empty"} ->
            StartTag(s, p, token.name, token.tag = "empty")
      [] token.tag = "end" -> EndTag(s, p, token.name, depth)
      [] token.tag = "text" -> Does(Text(s, p), << >>)
=============================================================================
