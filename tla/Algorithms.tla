------------------------------ MODULE Algorithms ------------------------------
(****************************************************************************)
(* The stages of the data path, one after the other: from the pages of a    *)
(* document to its chunks, from two rankings to the evidence in the prompt, *)
(* from a model's pieces of text to the answer, from a routing request to a *)
(* provider, from an HTTP request to the device to its response, and from   *)
(* the evidence in a prompt to the verdict of the evaluation.  A behaviour  *)
(* takes one input through one of these; work holds the input and what the  *)
(* stages so far have made of it.                                           *)
(****************************************************************************)
EXTENDS LegalPaths, EvidenceMeasures, AnswerText, LocalAnswers, LocalGate

CONSTANTS
  Documents,       \* sequences of pages, a page is a sequence of lines
  Rankings,        \* [dense, lexical]
  SubQueries,      \* [dense, streams, relative]: for every sub-query a dense
                   \* ranking and every document's lexical hits
  Budgets, Categories,
  Headings,        \* tokens of the heading of a group of evidence
  ModelTexts,
  Requests, Attempts,
  HttpRequests,
  Golden,          \* questions of the golden set
  Earlier          \* reports begun: sequences of measured questions

VARIABLES stage, work
vars == <<stage, work>>

Stages == {"pages", "text", "units", "chunks", "paths", "rankings", "base",
           "expanded", "context", "claims", "subqueries", "merged", "stream",
           "answered", "request", "routed", "http", "served", "measured",
          "reported", "pool", "replayed"}

Init ==
  \/ stage = "pages" /\ work \in {[pages |-> d] : d \in Documents}
  \/ stage = "rankings" /\ work \in Rankings
  \/ stage = "subqueries" /\ work \in SubQueries
  \/ stage = "stream" /\ work \in {[answer |-> t, left |-> t, s |-> StreamStart] :
                                    t \in ModelTexts}
  \/ stage = "request" /\ work \in {[asked |-> r, attempt |-> a] :
                                     r \in Requests, a \in Attempts}
  \/ stage = "http" /\ work \in {[request |-> q, state |-> s] :
                                  q \in HttpRequests,
                                  s \in {"READY", "UPDATE_REQUIRED", "REVOKED"}}

(* One stage is done: what it made is added to the work. *)
Becomes(from, to, made) == stage = from /\ stage' = to /\ work' = made @@ work

------------------------------------------------------------------------------
ReconstructText ==
  /\ stage = "pages"
  /\ \E bodies \in {RemoveHeadersFooters([p \in DOMAIN work.pages |->
                                            Clean(work.pages[p])])} :
       \E whole \in {Reconstruct(bodies)} :
         /\ whole.text # <<>>     \* NO_TEXT_EXTRACTED otherwise
         /\ Becomes("pages", "text", [bodies |-> bodies, text |-> whole.text,
                                      spans |-> whole.spans])

ParseUnits ==
  stage = "text" /\ Becomes("text", "units", [units |-> Parse(work.text)])

ChunkUnits ==
  /\ stage = "units"
  /\ \E c \in {Chunks(work.text, work.units)} :
       Becomes("units", "chunks", [chunks |-> c.chunks, error |-> c.error])

(* An artifact of an earlier parser is opened for retrieval; its text may   *)
(* not have been kept.                                                      *)
ResolvePaths ==
  /\ stage = "text"
  /\ \E stored \in LegacyUnits(work.text), kept \in BOOLEAN :
       \E graph \in {Graph(work.text, stored, kept)} :
         \E chunks \in {Chunks(work.text, stored).chunks} :
           Becomes("text", "paths",
                   [stored |-> stored, graph |-> graph, kept |-> kept,
                    chunks |-> [k \in DOMAIN chunks |->
                                  [from |-> chunks[k].from, to |-> chunks[k].to,
                                   key |-> ResolveForSpan(graph, chunks[k])]]])

FuseRankings ==
  /\ stage = "rankings"
  /\ Becomes("rankings", "base", [base |-> PlatformFusion(work.dense, work.lexical)])

ExpandBase ==
  /\ stage = "base" /\ stage' = "expanded"
  /\ \E fails \in BOOLEAN :
       work' = [base |-> work.base,
                candidates |-> Expand(work.base, {}, TRUE, fails)]

BuildContext ==
  /\ stage = "expanded"
  /\ \E budget \in Budgets, heading \in Headings :
       Becomes("expanded", "context",
               [budget  |-> budget,
                package |-> Build(work.candidates, budget, heading)])

(* The model claims that some of the sources stand under one category. *)
RenderClaims ==
  /\ stage = "context"
  /\ \E sources \in SUBSET (DOMAIN work.package.selected), category \in Categories :
       Becomes("context", "claims",
               [claimed |-> [sources |-> sources, category |-> category],
                cited |-> Render({[sources |-> sources, category |-> category]},
                                 work.package.selected, Categories)])

MergeSubQueries ==
  /\ stage = "subqueries"
  /\ \E lexical \in {[q \in DOMAIN work.streams |->
                        Waves(work.streams[q], work.relative)]} :
       Becomes("subqueries", "merged",
               [lexical |-> lexical, base |-> LocalFusion(work.dense, lexical)])

(* The next piece may be any beginning of what is left of the text. *)
ReceivePiece ==
  /\ stage = "stream" /\ work.left # <<>> /\ ~ work.s.stopped
  /\ \E n \in DOMAIN work.left :
       work' = [work EXCEPT !.s = Receive(@, SubSeq(work.left, 1, n)),
                            !.left = SubSeq(@, n + 1, Len(@))]
  /\ UNCHANGED stage

FinishStream ==
  /\ stage = "stream"
  /\ work.left = <<>> \/ work.s.stopped
  /\ \E s \in {EndOfStream(work.s)} :
       Becomes("stream", "answered", [shown |-> s.shown, done |-> Finalize(s.raw)])

RouteAnswer ==
  /\ stage = "request"
  /\ \E body \in Bodies :
       \E outcome \in {AnswerRequest(body, work.asked, work.attempt)} :
         Becomes("request", "routed",
                 [body |-> body, outcome |-> outcome,
                  capability |-> CapabilityAfter(outcome, "NOT_READY")])

ServeRequest ==
  stage = "http" /\ Becomes("http", "served",
                            [response |-> Serve(work.request, work.state)])

(* The evaluation asks a golden question; the model answers from the prompt.*)
SomeSources(selected) ==
  {<<>>, [i \in DOMAIN selected |-> i]} \cup {<<i>> : i \in DOMAIN selected}

MeasureCase ==
  /\ stage = "context" /\ stage' = "measured"
  /\ \E golden \in Golden, sources \in SomeSources(work.package.selected),
        invented, abstains \in BOOLEAN :
       work' = [golden   |-> golden,
                measured |-> Measure(golden, work.base, work.candidates,
                                     work.package.selected,
                                     [sources |-> sources, invented |-> invented,
                                      abstains |-> abstains])]

ReportCases ==
  /\ stage = "measured" /\ stage' = "reported"
  /\ \E earlier \in Earlier :
       work' = [report |-> Report(Append(earlier, work.measured))]

ReplayFusion ==
  /\ stage = "rankings" /\ stage' = "pool"
  /\ work' = [pool |-> SnapshotFusion(work.dense, work.lexical)]

ReplayStrategy ==
  /\ stage = "pool"
  /\ \E strategy \in Strategies :
       Becomes("pool", "replayed",
               [strategy |-> strategy, expanded |-> ExpandPool(work.pool, strategy),
                covered |-> CoverageAware(work.pool)])

Next ==
  \/ ReconstructText \/ ParseUnits \/ ChunkUnits \/ ResolvePaths
  \/ FuseRankings \/ ExpandBase \/ BuildContext \/ RenderClaims
  \/ MergeSubQueries \/ ReceivePiece \/ FinishStream \/ RouteAnswer
  \/ ServeRequest \/ MeasureCase \/ ReportCases \/ ReplayFusion \/ ReplayStrategy

Spec == Init /\ [][Next]_vars

------------------------------------------------------------------------------
(* Properties *)

(* Parents stand before their children, chunks are not empty and lie in the *)
(* text.                                                                    *)
TypeOK ==
  /\ stage \in Stages
  /\ stage = "units" =>
       \A u \in DOMAIN work.units : work.units[u].parent \in 0..(u - 1)
  /\ stage = "chunks" =>
       /\ work.error \in {"NONE", "EmbeddingHeaderTooLong",
                          "ContractViolation"}
       /\ \A k \in DOMAIN work.chunks :
            LET c == work.chunks[k]
            IN 1 <= c.from /\ c.from < c.to /\ c.to <= Len(work.text) + 1
  /\ stage = "context" => work.package.error \in {"NONE", "OverBudget"}

(* parser.py: a unit lies inside its parent, which is of a higher level; two*)
(* children of one parent do not overlap; a clause stands in an article and *)
(* a point in a clause.                                                     *)
UnitsNest ==
  stage = "units" =>
    \A u \in DOMAIN work.units :
      LET unit == work.units[u]
          Above(kind) == \E v \in 1..(u - 1) :
                           /\ work.units[v].kind = kind
                           /\ work.units[v].from <= unit.from
                           /\ unit.to <= work.units[v].to
      IN /\ unit.kind # "PREAMBLE" => unit.from <= unit.to
         /\ unit.kind = "CLAUSE" => Above("ARTICLE")
         /\ unit.kind = "POINT" => Above("CLAUSE")
         /\ unit.parent # 0 => /\ Level[work.units[unit.parent].kind]
                                    < Level[unit.kind]
                               /\ work.units[unit.parent].from <= unit.from
                               /\ unit.to <= work.units[unit.parent].to
         /\ \A v \in DOMAIN work.units :
              v > u /\ work.units[v].parent = unit.parent
              => unit.to <= work.units[v].from

(* chunker.py: every word of the text is in one chunk, and in two only when *)
(* it is in the overlap of two windows.  The symbol in front of a heading   *)
(* inside a line is in none.                                                *)
EveryWordOnce ==
  stage = "chunks" /\ work.error = "NONE" =>
    \A i \in DOMAIN work.text :
      LET holds == {k \in DOMAIN work.chunks :
                      i \in work.chunks[k].from..(work.chunks[k].to - 1)}
          lost == \E u \in DOMAIN work.units : work.units[u].from = i + 1
      IN work.text[i] \notin White =>
           \/ Cardinality(holds) = 1
           \/ holds = {} /\ lost
           \/ Cardinality(holds) > 1
              /\ \A k \in holds : work.chunks[k].method = "HARD_TOKEN"

(* reconstruction.py: a chunk begins on the page it is said to begin on.    *)
ChunkPagesAreRight ==
  stage = "chunks" =>
    \A k \in DOMAIN work.chunks :
      LET from == work.chunks[k].from
          page == PageOf(from, work.spans)
          span == CHOOSE s \in ToSet(work.spans) : s.page = page
          body == JoinLines(work.bodies[page])
      IN /\ from - span.from + 1 \in DOMAIN body
         /\ body[from - span.from + 1] = work.text[from]

(* chunker.py: what the index and the citations rely on.  Units nest, so    *)
(* that a chunk has one path; every word is found, and found once; and a    *)
(* chunk is cited with the page it begins on.                               *)
ChunkContract == UnitsNest /\ EveryWordOnce /\ ChunkPagesAreRight

(* legal_paths.py: once a stored unit cannot be right, the path of a stored *)
(* unit that is in the text has the labels of the path the parser finds     *)
(* now, whatever was stored above it; and a chunk is given the path of a    *)
(* unit of this parser that begins before the chunk ends, or none.  Nothing *)
(* is said of artifacts whose units all look right: their stored paths are  *)
(* served as they are, also where this parser would find others.            *)
RepairedPathsAreTrue ==
  /\ stage = "paths"
  /\ \E i \in DOMAIN work.stored : ~ IsSane(work.text, work.stored[i])
  => \E now \in {Parse(work.text)} :
       \E truth \in {StoredGraph(now)} :
         LET IsPathOf(key, j) ==
               LabelsOf(work.graph, Chain(work.graph, key))
                 = LabelsOf(truth, Chain(truth, <<"stored", j>>))
         IN /\ \A i \in DOMAIN work.stored :
                 LET j == SameUnit(now, work.stored[i])
                 IN work.kept /\ j # 0 => IsPathOf(<<"stored", i>>, j)
            /\ \A k \in DOMAIN work.chunks :
                 LET c == work.chunks[k]
                 IN c.key # Nobody =>
                      \E j \in DOMAIN now : now[j].from < c.to /\ IsPathOf(c.key, j)

(* context/service.py: the prompt stays within its budget, grouping never   *)
(* makes it longer, and it shows every selected source once.  A candidate   *)
(* is left out only because an earlier one of its document has the same     *)
(* text, or because it, or one left out before it, did not fit behind the   *)
(* selected ones.                                                           *)
ContextKeepsItsBudget ==
  stage = "context" =>
    LET p == work.package
        all == work.candidates
        sizes == [i \in DOMAIN p.selected |-> BlockSize(p.selected[i]) + 1]
        new == {i \in DOMAIN all : \A j \in 1..(i - 1) : ~ SameText(all[i], all[j])}
        left == {i \in new : all[i] \notin ToSet(p.selected)}
    IN /\ p.error = "NONE" /\ p.size <= work.budget
       /\ p.selected # <<>> => p.size < Sum(sizes)
       /\ ToSet(p.shown) = DOMAIN p.selected
       /\ Len(p.shown) = Len(p.selected)
       /\ left # {} => Sum(sizes) + BlockSize(all[Least(left)]) > work.budget
       /\ ToSet(p.selected) = {all[i] : i \in {j \in new : \A k \in left : j < k}}

(* local_compute/retrieval.py: the best chunk of every sub-query in both    *)
(* branches is among the evidence, however low its fused score is.          *)
CoverageSurvives ==
  stage = "merged" =>
    \A r \in ToSet(work.dense) \cup ToSet(work.lexical) :
      r # <<>> => Head(r) \in ToSet(work.base)

(* answer_service.py: a reader of the stream has seen, when it is done, the *)
(* text of the answer, and nothing of one that turns out to be insufficient.*)
(* The model's text has to begin with its only marker; behind an opening    *)
(* that is never closed the final text keeps what the stream does not show. *)
Opens(t) == \E i \in DOMAIN t : StartsAt(t, i)
StreamTellsTheAnswer ==
  /\ stage = "answered" /\ Head(work.answer) # Newline
  /\ AfterPrefix(work.s.raw) # 0 /\ Cardinality(Markers(work.s.raw)) = 1
  /\ ~ Opens(work.done.text)
  => work.shown = work.done.text

(* generation.py, api.py: what is sent is what the request allows.          *)
EvidenceStaysHome ==
  stage = "routed" =>
    SentAsAsked(work.body, work.asked, work.attempt, work.outcome)

(* api.py, client.ts: the gate lets through what is allowed and nothing     *)
(* else, although both sides of the wire describe the routes on their own.  *)
GateIsExact ==
  stage = "served" =>
    /\ OnlyAllowed(work.request, work.state, work.response)
    /\ PageServed(work.request, work.state, work.response)

(* v2_metrics.py: an answer that cites all it needs is not blamed on the    *)
(* retrieval or the context, and one that is blamed on the model had it.    *)
BlameIsFair ==
  stage = "measured" /\ work.golden.answerable =>
    LET m == work.measured
    IN /\ m.cited.complete => m.blame \in {"PASS", "GENERATION_INVALID_CITATION"}
       /\ m.context.complete <=>
            m.blame \in {"PASS", "FALSE_ABSTENTION", "GENERATION_MISSING_CITATION",
                         "GENERATION_INVALID_CITATION", "GENERATION_WRONG_SOURCE"}

==============================================================================
