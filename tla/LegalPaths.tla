------------------------------ MODULE LegalPaths ------------------------------
(****************************************************************************)
(* The legal path of a piece of evidence on the device                      *)
(* (app/local_compute/legal_paths.py).  It is read from the units that were *)
(* stored with the artifact, unless one of them cannot be right: then the   *)
(* stored text is parsed again and the stored units, which the chunks still *)
(* name, are bound to the units of the new parse that begin at the same     *)
(* place with the same type and number.                                     *)
(*                                                                          *)
(* A key is <<"stored", i>> or <<"repaired", i>>, i the unit's place in the *)
(* sequence; Nobody is the parent of a root.                                *)
(****************************************************************************)
EXTENDS LegalText

Nobody == <<"none", 0>>
Signature(unit) == <<unit.kind, unit.no, unit.from>>

(* Earlier parsers: one took every numbered row for a category and did not  *)
(* know appendices, one also called such a row by a name of its own, one    *)
(* took prose ("Chương trình ...") for a chapter.  The number is 0 when it  *)
(* is not of the form that numbers of its kind have.                        *)
LegacyLine(s, t, at, following) ==
  LET line == LineAt(t, at)
  IN IF line # <<>> /\ Head(line) \in DOMAIN Number
     THEN AddUnit(s, "TABLE_CATEGORY", Number[Head(line)], at)
     ELSE IF Heading(line) = "APPENDIX" THEN s
     ELSE ParseLine(s, t, at, following)
ProseLine(s, t, at, following) ==
  LET line == LineAt(t, at)
  IN IF line # <<>> /\ Head(line) = "w" THEN AddUnit(s, "CHAPTER", 0, at)
     ELSE ParseLine(s, t, at, following)
Renamed(units) ==
  [i \in DOMAIN units |-> IF units[i].kind = "TABLE_CATEGORY"
                          THEN [units[i] EXCEPT !.kind = "ROW"] ELSE units[i]]
LegacyUnits(t) ==
  LET rows == ParseWith(t, LegacyLine)
  IN {rows, Renamed(rows), ParseWith(t, ProseLine)}

(* _persisted_unit_is_sane: a known type, a Roman, decimal or one-letter    *)
(* number where the type has one, and no time of day in the heading.        *)
IsSane(t, unit) ==
  \/ unit.kind = "PREAMBLE"
  \/ /\ unit.kind \in DOMAIN Level
     /\ unit.kind \notin {"APPENDIX", "TABLE_CATEGORY"} => unit.no # 0
     /\ "12:30" \notin ToSet(LineAt(t, unit.from))

(* The unit of a sequence with the signature of another one: 0 if none. *)
SameUnit(units, unit) ==
  SelectInSeq(units, LAMBDA v : Signature(v) = Signature(unit))

(* The graph of units the paths are read from: key -> unit, parent's key.   *)
StoredGraph(stored) ==
  LET Parent(i) == IF stored[i].parent = 0 THEN Nobody
                   ELSE <<"stored", stored[i].parent>>
  IN [key \in {<<"stored", i>> : i \in DOMAIN stored} |->
        [unit |-> stored[key[2]], parent |-> Parent(key[2])]]

(* Mutant: an ancestor that was not stored is no ancestor. *)
RepairedWithoutBridge(stored, rebuilt) ==
  LET known == {i \in DOMAIN stored : SameUnit(rebuilt, stored[i]) # 0}
      Old(p) == IF p = 0 \/ SameUnit(stored, rebuilt[p]) = 0 THEN Nobody
                ELSE <<"stored", SameUnit(stored, rebuilt[p])>>
  IN [key \in {<<"stored", i>> : i \in known} |->
        LET new == rebuilt[SameUnit(rebuilt, stored[key[2]])]
        IN [unit |-> new, parent |-> Old(new.parent)]]

(* _replace_with_reconstructed_units *)
RepairedGraph(stored, rebuilt) ==
  LET known == {i \in DOMAIN stored : SameUnit(rebuilt, stored[i]) # 0}
      Bridge(p) == IF p = 0 THEN Nobody
                   ELSE IF SameUnit(stored, rebuilt[p]) # 0
                   THEN <<"stored", SameUnit(stored, rebuilt[p])>>
                   ELSE <<"repaired", p>>
      Plain(p) == IF p = 0 THEN Nobody ELSE <<"repaired", p>>
  IN [key \in {<<"repaired", j>> : j \in DOMAIN rebuilt}
                \cup {<<"stored", i>> : i \in known} |->
        IF key[1] = "repaired"
        THEN [unit |-> rebuilt[key[2]], parent |-> Plain(rebuilt[key[2]].parent)]
        ELSE LET new == rebuilt[SameUnit(rebuilt, stored[key[2]])]
             IN [unit |-> new, parent |-> Bridge(new.parent)]]

(* Nothing is known of an artifact that needs the repair and whose text was *)
(* not kept.                                                                *)
Graph(t, stored, kept) ==
  IF \A i \in DOMAIN stored : IsSane(t, stored[i]) THEN StoredGraph(stored)
  ELSE IF kept THEN RepairedGraph(stored, Parse(t)) ELSE <<>>

(* resolve_for_span: the unit a chunk names, else the first category or     *)
(* article of the new parse that begins in the chunk, else nobody:          *)
(* UNAVAILABLE.                                                             *)
ResolveForSpan(graph, chunk) ==
  LET own == <<"stored", chunk.unit>>
      headings == {key \in DOMAIN graph :
                     /\ key[1] = "repaired"
                     /\ graph[key].unit.kind \in {"TABLE_CATEGORY", "ARTICLE"}
                     /\ graph[key].unit.from \in chunk.from..(chunk.to - 1)}
      from == Least({graph[key].unit.from : key \in headings})
  IN IF own \in DOMAIN graph THEN own
     ELSE IF headings = {} THEN Nobody
     ELSE CHOOSE key \in headings : graph[key].unit.from = from

(* _path_for_unit: from the root down, without the preamble. *)
RECURSIVE Chain(_, _)
Chain(graph, key) ==
  IF key \notin DOMAIN graph THEN <<>>
  ELSE Chain(graph, graph[key].parent)
       \o (IF graph[key].unit.kind = "PREAMBLE" THEN <<>> ELSE <<key>>)

LabelsOf(graph, chain) ==
  [k \in DOMAIN chain |-> Signature(graph[chain[k]].unit)]
==============================================================================
