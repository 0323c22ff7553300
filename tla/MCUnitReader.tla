---------------------------- MODULE MCUnitReader ----------------------------
(* Small documents for UnitReader. *)
EXTENDS UnitReader

S(n) == [tag |-> "start", name |-> n]
E(n) == [tag |-> "end", name |-> n]
Em(n) == <<[tag |-> "empty", name |-> n], E(n)>>
T == <<[tag |-> "text", name |-> "none"]>>
Error == <<[tag |-> "error", name |-> "none"]>>

\* an element around some content, and a unit with text and an element
El(n, content) == <<S(n)>> \o content \o <<E(n)>>
AUnit == El("unit", T \o El("other", T) \o T)
Macros == Em("macro-list")

Single == {AUnit,
           El("unit", T),
           El("unit", Macros \o El("other", T)),
           El("unit", << >>),
           Em("unit")}

Archives == {El("unit", AUnit),
             El("unit", T \o AUnit \o T \o AUnit \o T),
             El("unit", Macros \o AUnit \o Em("unit")),
             El("unit", Em("unit") \o El("unit", T) \o AUnit)}

Complete == Single \cup Archives

WithExtra == {d \o T \o AUnit : d \in {AUnit, El("unit", AUnit)}}

\* documents that break off, at any token
Broken == UNION {{SubSeq(d, 1, n) \o Error : n \in 0..(Len(d) - 1)} :
                 d \in {AUnit, El("unit", T \o AUnit \o T \o AUnit \o T)}}

Whole == Complete \cup WithExtra

All == Whole \cup Broken

\* they are documents as the library writes them
ASSUME WrittenAssumption == \A d \in All : SrcML(d)

\* a document that breaks off before its first unit
NoUnit == {El("unit", << >>), <<S("unit")>> \o Error}

\* XML, but not srcML
NotSrcML == {El("other", Em("other"))}
=============================================================================
