-------------------------- MODULE EvidenceSelection --------------------------
(****************************************************************************)
(* From a question to the evidence in the prompt: fusion of the dense and   *)
(* the lexical ranking, on the platform (app/retrieval) and over several    *)
(* documents and sub-queries on the device (app/local_compute/retrieval.py),*)
(* the expansion of the winners by their direct children in the hierarchy   *)
(* of legal units, and the context builder with its token budget, its       *)
(* grouping of evidence and its structured claims.                          *)
(*                                                                          *)
(* A ranking is a sequence of chunks, best first.  Chunks are numbers, in   *)
(* the order of their identifiers.  Scores are exact: multiples of 1/Scale. *)
(****************************************************************************)
EXTENDS Integers, Sequences, FiniteSets, SequencesExt

CONSTANTS
  Corpus,          \* chunk -> [doc, unit, text, size]; unit 0: none
  UnitParent,      \* unit -> its parent unit, 0: none
  RrfK, TopFinal,
  MaxAnchors, MaxChildren, MaxAdded

EvidenceAssumption ==
  /\ {RrfK, TopFinal} \subseteq Nat \ {0}
  /\ {MaxAnchors, MaxChildren, MaxAdded} \subseteq Nat

DocOf(c) == Corpus[c].doc
UnitOf(c) == Corpus[c].unit
RankIn(ranking, c) == SelectInSeq(ranking, LAMBDA x : x = c)
Take(s, n) == SubSeq(s, 1, IF Len(s) < n THEN Len(s) ELSE n)
SortBy(S, Before(_, _)) ==
  [i \in 1..Cardinality(S) |->
     CHOOSE x \in S : Cardinality({y \in S : Before(y, x)}) = i - 1]

------------------------------------------------------------------------------
(* Fusion *)

Scale == FoldLeft(LAMBDA p, i : p * (RrfK + i), 1,
                  [i \in 1..Cardinality(DOMAIN Corpus) |-> i])
Share(weight, rank) == IF rank = 0 THEN 0 ELSE weight * (Scale \div (RrfK + rank))

(* All chunks of either branch, by score, then by identifier.  denseRank    *)
(* and lexicalRank give 0 for a chunk that the branch did not return.       *)
Fuse(denseRank, lexicalRank, denseWeight, lexicalWeight) ==
  LET Score(c) == Share(denseWeight, denseRank[c])
                  + Share(lexicalWeight, lexicalRank[c])
      Before(a, b) == \/ Score(a) > Score(b)
                      \/ Score(a) = Score(b) /\ a < b
  IN SortBy({c \in DOMAIN Corpus : denseRank[c] # 0 \/ lexicalRank[c] # 0},
            Before)

Ranks(ranking) == [c \in DOMAIN Corpus |-> RankIn(ranking, c)]

(* reciprocal_rank_fusion of the platform *)
PlatformFusion(dense, lexical) ==
  Take(Fuse(Ranks(dense), Ranks(lexical), 1, 1), TopFinal)

(* _merge_branch_ranks: a chunk keeps its best rank over the sub-queries.   *)
BestRanks(rankings) ==
  [c \in DOMAIN Corpus |->
     LET found == {RankIn(rankings[q], c) : q \in DOMAIN rankings} \ {0}
     IN IF found = {} THEN 0 ELSE CHOOSE r \in found : \A x \in found : r <= x]

(* _global_lexical_ranks: the streams of the documents in waves of equal    *)
(* rank, inside a wave by the score of the hit relative to the document's   *)
(* best one, in per cent, then by document.                                 *)
Waves(streams, relative) ==
  LET hits == UNION {{[doc |-> d, chunk |-> streams[d][i], wave |-> i] :
                      i \in DOMAIN streams[d]} : d \in DOMAIN streams}
      Rel(h) == IF h.wave = 1 THEN 100 ELSE relative[h.doc]
      Before(g, h) ==
        \/ g.wave < h.wave
        \/ g.wave = h.wave /\ Rel(g) > Rel(h)
        \/ g.wave = h.wave /\ Rel(g) = Rel(h) /\ g.doc < h.doc
      order == SortBy(hits, Before)
  IN [i \in DOMAIN order |-> order[i].chunk]

(* Mutant: the best chunks by fused score, no matter of which query. *)
AnchoredByScore(order, anchors) == Take(order, TopFinal)

(* query_document_set_with_diagnostics: the best chunk of every sub-query   *)
(* and branch first, then the others by fused score, up to TopFinal; the    *)
(* second loop looks at the length behind every chunk, added or not, and    *)
(* only for this very length: a chunk added to a full selection is followed *)
(* by all the others.                                                       *)
Anchored(order, anchors) ==
  LET Add(s, c) == IF c \in ToSet(s) THEN s ELSE Append(s, c)
      first == Take(FoldLeft(Add, <<>>, anchors), TopFinal)
      rest == SelectSeq(order, LAMBDA c : c \notin ToSet(first))
  IN IF Len(first) = TopFinal /\ Head(order) \notin ToSet(first)
     THEN first \o rest
     ELSE Take(first \o rest, TopFinal)

Best(rankings) ==
  LET some == SelectSeq(rankings, LAMBDA r : r # <<>>)
  IN [k \in DOMAIN some |-> Head(some[k])]

LocalFusion(dense, lexical) ==
  Anchored(Fuse(BestRanks(dense), BestRanks(lexical), 6, 4),
           Best(dense) \o Best(lexical))

------------------------------------------------------------------------------
(* LegalHierarchyExpander *)

(* Both repositories: the chunks of the units right below the anchor's unit,*)
(* in the order of the text, in the anchor's document only.                 *)
DirectChildren(anchor) ==
  SortBy({c \in DOMAIN Corpus : /\ UnitOf(anchor) # 0 /\ UnitOf(c) # 0
                                /\ UnitParent[UnitOf(c)] = UnitOf(anchor)
                                /\ DocOf(c) = DocOf(anchor)}, <)

(* One lookup for each unit among the anchors: its best chunk.              *)
PrimaryAnchors(base) ==
  {c \in ToSet(Take(base, MaxAnchors)) :
     /\ UnitOf(c) # 0
     /\ \A b \in ToSet(Take(base, MaxAnchors)) :
          UnitOf(b) = UnitOf(c) => RankIn(base, c) <= RankIn(base, b)}

Base(c) == [chunk |-> c, anchor |-> 0]

(* Every base chunk in its order, each followed by its children: not those  *)
(* that are themselves base chunks or were emitted before, at most          *)
(* MaxChildren for one anchor and MaxAdded in all.                          *)
Merge(base, allowed) ==
  LET Eligible(c) ==
        IF c \notin PrimaryAnchors(base) THEN <<>>
        ELSE SelectSeq(DirectChildren(c),
                       LAMBDA x : /\ x \notin ToSet(base)
                                  /\ allowed # {} => DocOf(x) \in allowed)
      Emit(out, c) ==
        LET before == {out[i].chunk : i \in DOMAIN out}
            added == Cardinality({i \in DOMAIN out : out[i].anchor # 0})
            room == IF MaxChildren < MaxAdded - added THEN MaxChildren
                    ELSE MaxAdded - added
            new == Take(SelectSeq(Eligible(c), LAMBDA x : x \notin before), room)
        IN Append(out, Base(c))
             \o [i \in DOMAIN new |-> [chunk |-> new[i], anchor |-> c]]
  IN FoldLeft(Emit, <<>>, base)

(* expand: any failure of the lookup leaves the base as it is.              *)
Expand(base, allowed, enabled, fails) ==
  IF ~ enabled \/ fails \/ PrimaryAnchors(base) = {}
  THEN [i \in DOMAIN base |-> Base(base[i])]
  ELSE Merge(base, allowed)

------------------------------------------------------------------------------
(* ContextBuilderService *)

(* The units above a chunk's unit, itself included: its authoritative path. *)
RECURSIVE PathFrom(_)
PathFrom(u) == IF u = 0 THEN {} ELSE {u} \cup PathFrom(UnitParent[u])
PathOf(c) == PathFrom(UnitOf(c))

(* Keep the first of equal texts of one document. *)
SameText(e, f) == /\ DocOf(e.chunk) = DocOf(f.chunk)
                  /\ Corpus[e.chunk].text = Corpus[f.chunk].text
Dedup(candidates) ==
  LET New(kept, e) == IF \E i \in DOMAIN kept : SameText(kept[i], e)
                      THEN kept ELSE Append(kept, e)
  IN FoldLeft(New, <<>>, candidates)

(* Tokens of a block: source id, identity of the document, relation and     *)
(* path, text; a separator stands between two blocks.                       *)
BodySize(e) == 2 + Corpus[e.chunk].size
PathSize(e) == Cardinality(PathOf(e.chunk))
BlockSize(e) == BodySize(e) + PathSize(e) + 1
Sum(ns) == FoldLeft(LAMBDA x, y : x + y, 0, ns)
Separators2(n) == IF n = 0 THEN 0 ELSE n - 1

PlainSize(es) == Sum([i \in DOMAIN es |-> BlockSize(es[i])]) + Separators2(Len(es))

(* Selection ends at the first block that does not fit. *)
RECURSIVE Selection(_, _, _)
Selection(es, budget, n) ==
  IF n < Len(es) /\ PlainSize(Take(es, n + 1)) <= budget
  THEN Selection(es, budget, n + 1) ELSE Take(es, n)

(* format_grouped_evidence: evidence of one unit under one heading, groups  *)
(* in the order of their first members; evidence without a unit stays alone.*)
(* A long heading costs more than the paths that it saves.                  *)
GroupOf(es, i) ==
  IF UnitOf(es[i].chunk) = 0 THEN {i}
  ELSE {j \in DOMAIN es : UnitOf(es[j].chunk) = UnitOf(es[i].chunk)}

Leaders(es) ==
  SortBy({i \in DOMAIN es : \A j \in GroupOf(es, i) : i <= j}, <)

GroupedOrder(es) ==
  FlattenSeq([k \in DOMAIN Leaders(es) |-> SortBy(GroupOf(es, Leaders(es)[k]), <)])

GroupedSize(es, heading) ==
  LET Size(i) ==
        LET group == GroupOf(es, i)
        IN IF Cardinality(group) > 1 /\ PathSize(es[i]) > 0
           THEN heading + PathSize(es[i]) + 1 + Cardinality(group) - 1
                + Sum([k \in 1..Cardinality(group) |->
                         BodySize(es[SortBy(group, <)[k]])])
           ELSE BlockSize(es[i])
  IN Sum([k \in DOMAIN Leaders(es) |-> Size(Leaders(es)[k])])
     + Separators2(Len(Leaders(es)))

(* Mutant: the two presentations are not compared. *)
GroupsAlways(es, heading) == Len(es) > 1

Groups(es, heading) ==
  Len(es) > 1 /\ GroupedSize(es, heading) <= PlainSize(es)

(* build: source i is selected[i]; shown is the order in the prompt.        *)
Build(candidates, budget, heading) ==
  LET selected == Selection(Dedup(candidates), budget, 0)
      grouped == Groups(selected, heading)
      size == IF grouped THEN GroupedSize(selected, heading) ELSE PlainSize(selected)
  IN [selected |-> selected,
      shown    |-> IF grouped THEN GroupedOrder(selected)
                   ELSE [i \in DOMAIN selected |-> i],
      size     |-> size,
      error    |-> IF size > budget THEN "OverBudget" ELSE "NONE"]

------------------------------------------------------------------------------
(* Structured claims over a context: a claim names sources and, when it is  *)
(* about membership, a category (a unit; 0: none).                          *)

(* category_root_id: the deepest unit of the path that may be a category.   *)
CategoryOf(c, categories) ==
  LET roots == PathOf(c) \cap categories
  IN IF roots = {} THEN 0
     ELSE CHOOSE u \in roots : \A v \in roots : v \in PathFrom(u)

(* render_provider_text: the sources cited, or none if the claims are       *)
(* rejected.                                                                *)
ClaimIsValid(claim, selected, categories) ==
  /\ claim.sources # {} /\ claim.sources \subseteq DOMAIN selected
  /\ claim.category # 0 =>
       /\ \E i \in DOMAIN selected :
            CategoryOf(selected[i].chunk, categories) = claim.category
       /\ \A s \in claim.sources : claim.category \in PathOf(selected[s].chunk)

Render(claims, selected, categories) ==
  IF claims # {} /\ \A c \in claims : ClaimIsValid(c, selected, categories)
  THEN UNION {c.sources : c \in claims} ELSE {}
==============================================================================
