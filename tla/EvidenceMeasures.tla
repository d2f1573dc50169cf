--------------------------- MODULE EvidenceMeasures ---------------------------
(****************************************************************************)
(* How the evaluation judges what the data path made of a question of its   *)
(* golden set (evaluation/v2_metrics.py), and the offline replays of other  *)
(* ways to choose candidates in the graph of legal units                    *)
(* (evaluation/experiments/multi_evidence_v1/runner.py).                    *)
(*                                                                          *)
(* A golden question is [answerable, solutions, docs]: a solution is a set  *)
(* of chunks that suffices for the answer.                                  *)
(****************************************************************************)
EXTENDS EvidenceSelection

CONSTANTS
  Articles,        \* the units that are articles
  PerAnchor,       \* MAX_EXPANSION_PER_ANCHOR
  PoolLimit,       \* MAX_EXPANDED_CANDIDATES
  Spread           \* the top_k of coverage_aware

MeasuresAssumption ==
  {PerAnchor, PoolLimit, Spread} \subseteq Nat \ {0}

------------------------------------------------------------------------------
(* One question *)

Lowest(S) == CHOOSE x \in S : \A y \in S : x <= y
Highest(S) == CHOOSE x \in S : \A y \in S : y <= x

(* acceptable_solution_rank; 0: no solution is complete *)
SolutionRank(observed, solutions) ==
  LET Position(c) == Highest({i \in DOMAIN observed : observed[i] = c})
      whole == {s \in solutions : s # {} /\ s \subseteq ToSet(observed)}
  IN IF whole = {} THEN 0
     ELSE Lowest({Highest({Position(c) : c \in s}) : s \in whole})

(* evidence_set_metrics; partial: some solution is begun and none complete  *)
EvidenceSet(observed, solutions) ==
  [complete |-> \E s \in solutions : s \subseteq ToSet(observed),
   partial  |-> /\ \E s \in solutions : s \cap ToSet(observed) # {}
                /\ \A s \in solutions : ~ s \subseteq ToSet(observed),
   rank     |-> SolutionRank(observed, solutions)]

(* classify_v2_failure *)
Blame(golden, m) ==
  IF ~ golden.answerable
  THEN IF m.status = "INSUFFICIENT_EVIDENCE" THEN "PASS" ELSE "UNSUPPORTED_ANSWER"
  ELSE IF ~ m.retrieval.complete
  THEN IF m.retrieval.partial THEN "PARTIAL_MULTI_EVIDENCE_RETRIEVAL"
       ELSE IF m.docs \cap golden.docs = {} THEN "WRONG_DOCUMENT"
       ELSE "RETRIEVAL_MISS"
  ELSE IF ~ m.context.complete THEN "CONTEXT_DROP"
  ELSE IF m.status = "INSUFFICIENT_EVIDENCE" THEN "FALSE_ABSTENTION"
  ELSE IF m.citations = "INVALID_REFERENCES" THEN "GENERATION_INVALID_CITATION"
  ELSE IF m.citations = "MISSING_CITATIONS" THEN "GENERATION_MISSING_CITATION"
  ELSE IF ~ m.cited.complete THEN "GENERATION_WRONG_SOURCE"
  ELSE "PASS"

(* validate_and_map_citations: the sources that an answer names             *)
Checked(selected, answer) ==
  [cited     |-> [i \in DOMAIN answer.sources |-> selected[answer.sources[i]].chunk],
   citations |-> IF answer.invented THEN "INVALID_REFERENCES"
                 ELSE IF answer.sources = <<>> THEN "MISSING_CITATIONS" ELSE "PASS"]

(* Mutant: judged by the candidates before their expansion. *)
MeasureBase(golden, base, candidates, selected, answer) ==
  LET Chunks(es) == [i \in DOMAIN es |-> es[i].chunk]
      abstains == answer.abstains \/ selected = <<>>
      checked == IF abstains THEN [cited |-> <<>>, citations |-> "PASS"]
                 ELSE Checked(selected, answer)
      m == [status    |-> IF abstains THEN "INSUFFICIENT_EVIDENCE" ELSE "COMPLETED",
            citations |-> checked.citations,
            docs      |-> {DocOf(c) : c \in ToSet(base)},
            retrieval |-> EvidenceSet(base, golden.solutions),
            context   |-> EvidenceSet(Chunks(selected), golden.solutions),
            cited     |-> EvidenceSet(checked.cited, golden.solutions)]
  IN [blame |-> Blame(golden, m), answerable |-> golden.answerable] @@ m

(* run_case and enrich_case: an empty context is answered without a model.  *)
Measure(golden, base, candidates, selected, answer) ==
  LET Chunks(es) == [i \in DOMAIN es |-> es[i].chunk]
      abstains == answer.abstains \/ selected = <<>>
      checked == IF abstains THEN [cited |-> <<>>, citations |-> "PASS"]
                 ELSE Checked(selected, answer)
      m == [status    |-> IF abstains THEN "INSUFFICIENT_EVIDENCE" ELSE "COMPLETED",
            citations |-> checked.citations,
            docs      |-> {DocOf(candidates[i].chunk) : i \in DOMAIN candidates},
            retrieval |-> EvidenceSet(Chunks(candidates), golden.solutions),
            context   |-> EvidenceSet(Chunks(selected), golden.solutions),
            cited     |-> EvidenceSet(checked.cited, golden.solutions)]
  IN [blame |-> Blame(golden, m), answerable |-> golden.answerable] @@ m

(* aggregate_v2: counts over the questions of one report.                   *)
Blames == {"PASS", "RETRIEVAL_MISS", "WRONG_DOCUMENT",
           "PARTIAL_MULTI_EVIDENCE_RETRIEVAL", "CONTEXT_DROP",
           "GENERATION_MISSING_CITATION", "GENERATION_INVALID_CITATION",
           "GENERATION_WRONG_SOURCE", "FALSE_ABSTENTION", "UNSUPPORTED_ANSWER"}

Report(cases) ==
  LET Count(P(_)) == Cardinality({i \in DOMAIN cases : P(cases[i])})
      Abstains(c) == c.status = "INSUFFICIENT_EVIDENCE"
  IN [cases       |-> Len(cases),
      blames      |-> [b \in Blames |-> Count(LAMBDA c : c.blame = b)],
      answerable  |-> Count(LAMBDA c : c.answerable),
      retrieved   |-> Count(LAMBDA c : c.answerable /\ c.retrieval.complete),
      dropped     |-> Count(LAMBDA c : /\ c.answerable /\ c.retrieval.complete
                                       /\ ~ c.context.complete),
      matched     |-> Count(LAMBDA c : c.answerable /\ c.cited.complete),
      accepted    |-> Count(LAMBDA c : c.answerable /\ ~ Abstains(c)),
      unsupported |-> Count(LAMBDA c : ~ c.answerable /\ ~ Abstains(c))]

------------------------------------------------------------------------------
(* Replays over the graph of legal units *)

(* fuse_from_snapshot: the candidates of both branches, uncut *)
SnapshotFusion(dense, lexical) == Fuse(Ranks(dense), Ranks(lexical), 1, 1)

InOrder(units) == SortBy(units, <)
ChildUnits(u) == InOrder({v \in DOMAIN UnitParent : UnitParent[v] = u})

(* A child comes behind its parent in the text, so this order has what      *)
(* descendants finds; at most 50 of them.                                   *)
Descendants(u) ==
  InOrder({v \in DOMAIN UnitParent : v # u /\ u \in PathFrom(v)})

UnitDoc(u) == LET c == CHOOSE c \in DOMAIN Corpus : UnitOf(c) = u IN DocOf(c)
DocumentUnits(u) == InOrder({v \in DOMAIN UnitParent : UnitDoc(v) = UnitDoc(u)})

ArticleOf(c) ==
  LET articles == PathOf(c) \cap Articles
  IN IF articles = {} THEN 0
     ELSE CHOOSE a \in articles : \A b \in articles : b \in PathFrom(a)

ArticleUnits(c) ==
  IF ArticleOf(c) = 0 THEN <<>> ELSE <<ArticleOf(c)>> \o Descendants(ArticleOf(c))

Neighbours(u) ==
  LET ordered == DocumentUnits(u)
      at == RankIn(ordered, u)
  IN SelectSeq(ordered, LAMBDA v : RankIn(ordered, v) \in {at - 1, at + 1})

Strategies == {"H1_PARENT", "H2_CHILDREN", "H3_SIBLINGS", "H4_SAME_ARTICLE",
               "H5_ADJACENT_UNIT", "H6_PARENT_CHILDREN", "H7_ARTICLE_ADJACENT"}

ChunksOf(units) ==
  FoldLeft(LAMBDA s, c : IF c \in ToSet(s) THEN s ELSE Append(s, c), <<>>,
           FlattenSeq([i \in DOMAIN units |->
                         SortBy({c \in DOMAIN Corpus : UnitOf(c) = units[i]}, <)]))

(* CorpusGraph.related: the chunks a strategy adds to c, the unit's own     *)
(* chunks only when the strategy names the unit itself.                     *)
Related(c, strategy) ==
  LET u == UnitOf(c)
      parent == IF UnitParent[u] = 0 THEN <<>> ELSE <<UnitParent[u]>>
      siblings == IF parent = <<>> THEN <<>>
                  ELSE SelectSeq(ChildUnits(UnitParent[u]), LAMBDA v : v # u)
      units == CASE strategy = "H1_PARENT"           -> parent
                 [] strategy = "H2_CHILDREN"         -> ChildUnits(u)
                 [] strategy = "H3_SIBLINGS"         -> siblings
                 [] strategy = "H4_SAME_ARTICLE"     -> ArticleUnits(c)
                 [] strategy = "H5_ADJACENT_UNIT"    -> Neighbours(u)
                 [] strategy = "H6_PARENT_CHILDREN"  -> parent \o ChildUnits(u)
                 [] strategy = "H7_ARTICLE_ADJACENT" -> ArticleUnits(c) \o Neighbours(u)
  IN IF u = 0 THEN <<>> ELSE SelectSeq(ChunksOf(units), LAMBDA x : x # c)

(* CorpusGraph.relationship *)
Relationship(left, right) ==
  LET l == UnitOf(left)
      r == UnitOf(right)
      If(condition, label) == IF condition THEN {label} ELSE {}
  IN IF l = 0 \/ r = 0 THEN {}
     ELSE If(l = r, "SAME_LEGAL_UNIT")
          \cup If(UnitParent[l] = r \/ UnitParent[r] = l, "PARENT_CHILD")
          \cup If(UnitParent[l] # 0 /\ UnitParent[l] = UnitParent[r], "SIBLING")
          \cup If(ArticleOf(left) # 0 /\ ArticleOf(left) = ArticleOf(right),
                  "SAME_ARTICLE")
          \cup If(UnitDoc(l) = UnitDoc(r) /\ r \in ToSet(Neighbours(l)),
                  "ADJACENT_LEGAL_UNIT")
          \cup {IF UnitDoc(l) = UnitDoc(r) THEN "SAME_DOCUMENT" ELSE "CROSS_DOCUMENT"}

(* expand_candidates: every anchor that was not added before it, then its   *)
(* first PerAnchor relatives.  The limit is looked at only behind a relative*)
(* that was added and behind an anchor.                                     *)
ExpandPool(anchors, strategy) ==
  LET Holds(out, c) == \E i \in DOMAIN out : out[i].chunk = c
      Relative(anchor, st, c) ==
        IF st.full \/ Holds(st.out, c) THEN st
        ELSE [out  |-> Append(st.out, [chunk |-> c, anchor |-> anchor]),
              full |-> Len(st.out) + 1 >= PoolLimit]
      Anchor(st, a) ==
        IF Len(st.out) >= PoolLimit THEN st
        ELSE [FoldLeft(LAMBDA s, c : Relative(a, s, c),
                       [out  |-> IF Holds(st.out, a) THEN st.out
                                 ELSE Append(st.out, Base(a)),
                        full |-> FALSE],
                       Take(Related(a, strategy), PerAnchor))
              EXCEPT !.full = FALSE]
  IN FoldLeft(Anchor, [out |-> <<>>, full |-> FALSE], anchors).out

(* coverage_aware: the next chunk is the best one of a unit not shown yet,  *)
(* or of no unit, or else the best one left.  (That its article is new is   *)
(* asked first, and whoever fails it is taken by the second question.)      *)
CoverageAware(pool) ==
  LET Pick(chosen, i) ==
        LET left == SelectSeq(pool, LAMBDA c : c \notin ToSet(chosen))
            Fresh(c) == UnitOf(c) \notin {UnitOf(x) : x \in ToSet(chosen)} \ {0}
            fresh == SelectSeq(left, Fresh)
        IN IF left = <<>> THEN chosen
           ELSE Append(chosen, Head(IF fresh = <<>> THEN left ELSE fresh))
  IN FoldLeft(Pick, <<>>, [i \in 1..Spread |-> i])

==============================================================================
