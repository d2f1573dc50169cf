------------------------------ MODULE LegalText ------------------------------
(****************************************************************************)
(* The text path of document preparation, the same code on the device       *)
(* (app/local_compute/preparation.py) and in the platform's processing      *)
(* worker: cleaning of page texts, removal of running headers, footers and  *)
(* page numbers, reconstruction of one text with its page offsets, the      *)
(* legal parser and the token-limited chunker.                              *)
(*                                                                          *)
(* A text is a sequence of symbols, one position each: a letter, a space, a *)
(* line break, a full stop, a bare number, a timestamp, or a whole heading  *)
(* prefix ("Điều 2." is "A2", "Khoản" is "CLAUSE").  Spans are half-open    *)
(* and start at 1.  A token is a symbol that is not white space; "x" is a   *)
(* letter that costs one token more where a text begins with it, as a word  *)
(* cut in the middle does.                                                  *)
(****************************************************************************)
EXTENDS Integers, Sequences, FiniteSets, SequencesExt

CONSTANTS MaxChars, MaxTokens, Headroom, Overlap, MinContent, MinProgress,
          CheckLines, LongLine

ASSUME TextAssumption ==
  /\ {MaxChars, MaxTokens, MinContent, MinProgress} \subseteq Nat \ {0}
  /\ {Headroom, Overlap, CheckLines, LongLine} \subseteq Nat

Break == "\n"
White == {" ", Break}
ArticleNo == [A1 |-> 1, A2 |-> 2, A3 |-> 3]
Number == [n1 |-> 1, n2 |-> 2]
Letters == {"w", "x"} \cup DOMAIN ArticleNo
Level == [PREAMBLE |-> 0, PART |-> 1, APPENDIX |-> 2, CHAPTER |-> 2,
          SECTION |-> 3, TABLE_CATEGORY |-> 4, ARTICLE |-> 4, CLAUSE |-> 5,
          POINT |-> 6]

Least(S) == CHOOSE i \in S : \A j \in S : i <= j
Greatest(S) == CHOOSE i \in S : \A j \in S : i >= j
SortUp(S) ==     \* S: positions
  LET upTo == IF S = {} THEN 0 ELSE Greatest(S)
  IN SelectSeq([i \in 1..upTo |-> i], LAMBDA i : i \in S)
JoinLines(lines) ==
  FoldLeft(LAMBDA t, l : IF t = <<>> THEN l ELSE t \o <<Break>> \o l,
           <<>>, lines)

------------------------------------------------------------------------------
(* Pages: sequences of lines, as PageCleaner leaves them (lines without     *)
(* white space at their ends, at most one blank line in a row).             *)

Clean(page) ==
  LET kept == {i \in DOMAIN page :
                 ~ (/\ i \in 3..(Len(page) - 1)
                    /\ page[i] = <<>> /\ page[i - 1] = <<>>)}
  IN [i \in 1..Cardinality(kept) |-> page[SortUp(kept)[i]]]

Norm(line) == SelectSeq(line, LAMBDA c : c \notin White \cup {".", "="})
FirstLines(page) == SubSeq(page, 1, Min({Len(page), CheckLines}))
LastLines(page) ==
  SubSeq(page, Max({1, Len(page) - CheckLines + 1}), Len(page))

(* A line is counted once per occurrence, not once per page. *)
Occurrences(parts, norm) ==
  Cardinality(UNION {{<<p, i>> : i \in {j \in DOMAIN parts[p] :
                                          Norm(parts[p][j]) = norm}} :
                     p \in DOMAIN parts})

Artifacts(parts) ==
  {n \in UNION {{Norm(parts[p][i]) : i \in DOMAIN parts[p]} :
                p \in DOMAIN parts} :
     /\ Len(n) > LongLine
     /\ 2 * Occurrences(parts, n) >= Len(parts)
     /\ Occurrences(parts, n) > 1}

PageNumber(line) == Len(line) = 1 /\ line[1] \in DOMAIN Number

StripPageNumbers(lines) ==
  LET top == IF lines # <<>> /\ PageNumber(Head(lines)) THEN Tail(lines)
             ELSE lines
  IN IF top # <<>> /\ PageNumber(Last(top)) THEN Front(top) ELSE top

(* How many of the lines, from the first on, are artifacts. *)
Leading(lines, artifacts) ==
  LET other == SelectInSeq(lines, LAMBDA l : Norm(l) \notin artifacts)
  IN IF other = 0 THEN Len(lines) ELSE other - 1

(* "\n".join(...).strip() *)
StripBlank(lines) ==
  LET full == {i \in DOMAIN lines : lines[i] # <<>>}
  IN IF full = {} THEN <<>>
     ELSE SubSeq(lines, Least(full), Greatest(full))

RemoveHeadersFooters(pages) ==
  LET heads == Artifacts([p \in DOMAIN pages |-> FirstLines(pages[p])])
      feet  == Artifacts([p \in DOMAIN pages |-> LastLines(pages[p])])
      Body(page) ==
        SubSeq(page, Leading(FirstLines(page), heads) + 1,
               Len(page) - Leading(Reverse(LastLines(page)), feet))
  IN [p \in DOMAIN pages |->
        StripBlank(StripPageNumbers(
          IF Len(pages) < 2 THEN pages[p] ELSE Body(pages[p])))]

(* The text of all pages and, for each page that has text, its span.  The   *)
(* spans are kept the way the code keeps them: the end is not in the page.  *)
Reconstruct(pages) ==
  FoldLeft(LAMBDA r, p :
             LET body == JoinLines(pages[p])
                 at == IF r.text = <<>> THEN 1 ELSE Len(r.text) + 2
             IN IF body = <<>> THEN r
                ELSE [text  |-> IF r.text = <<>> THEN body
                                ELSE r.text \o <<Break>> \o body,
                      spans |-> Append(r.spans,
                        [page |-> p, from |-> at, to |-> at + Len(body)])],
           [text |-> <<>>, spans |-> <<>>], [p \in DOMAIN pages |-> p])

(* The page of a position: the first span that holds it, the span's end     *)
(* included; the last page for a position behind all of them.               *)
PageOf(at, spans) ==
  LET first == SelectInSeq(spans, LAMBDA s : s.from <= at /\ at <= s.to)
  IN IF first # 0 THEN spans[first].page
     ELSE IF spans = <<>> THEN 0 ELSE Last(spans).page

------------------------------------------------------------------------------
(* The parser.  Its state is the sequence of units in the order they are    *)
(* opened (parents before children, so also the order in which the chunker  *)
(* visits them) and the stack of the open ones.                             *)

LineStarts(t) == SortUp({1} \cup {i + 1 : i \in {j \in DOMAIN t : t[j] = Break}})
LineAt(t, a) ==
  LET end == {i \in a..Len(t) : t[i] = Break}
  IN SubSeq(t, a, IF end = {} THEN Len(t) ELSE Least(end) - 1)

(* _candidate_kind: clauses and points need text behind them *)
Heading(line) ==
  IF line = <<>> THEN "NONE"
  ELSE IF Head(line) \in DOMAIN ArticleNo THEN "ARTICLE"
  ELSE IF Head(line) \in {"CLAUSE", "POINT"} /\ Len(line) = 1 THEN "NONE"
  ELSE IF Head(line) \in DOMAIN Level THEN Head(line)
  ELSE "NONE"

ValidTitle(title) ==
  /\ \E i \in DOMAIN title : title[i] \in Letters
  /\ \A i \in DOMAIN title : title[i] # "12:30"

OpenUnits(s, kind) == {u \in DOMAIN s.units : /\ u \in ToSet(s.stack)
                                               /\ s.units[u].kind = kind}

(* _add_unit: closes what is not above the new unit; a closed unit ends one *)
(* symbol before the new one begins (the line break, as a rule).            *)
AddUnit(s, kind, no, at) ==
  LET Stays(u) == /\ s.units[u].kind # "PREAMBLE"
                  /\ Level[s.units[u].kind] < Level[kind]
      stay == SelectSeq(s.stack, Stays)
      closed == ToSet(s.stack) \ ToSet(stay)
  IN [units |-> Append([u \in DOMAIN s.units |->
                          IF u \in closed THEN [s.units[u] EXCEPT !.to = at - 1]
                          ELSE s.units[u]],
                       [kind |-> kind, no |-> no, from |-> at, to |-> 0,
                        parent |-> IF stay = <<>> THEN 0 ELSE Last(stay)]),
      stack |-> Append(stay, Len(s.units) + 1)]

(* The next article's heading inside a line, behind something that is not a *)
(* letter: 0 if there is none.                                              *)
EmbeddedArticle(s, line) ==
  LET at == SelectInSeq([k \in DOMAIN line |->
                           /\ line[k] \in DOMAIN ArticleNo
                           /\ k < Len(line)
                           /\ (k > 1 => line[k - 1] \notin Letters)],
                        LAMBDA hit : hit)
  IN IF /\ at > 1
        /\ \E u \in OpenUnits(s, "ARTICLE") :
             ArticleNo[line[at]] = s.units[u].no + 1
        /\ ValidTitle(SubSeq(line, at + 1, Len(line)))
     THEN at ELSE 0

(* A numbered row is a category of a table only when it is the next number  *)
(* of the appendix it stands in; the first one may not be a conversion rule.*)
NextCategory(s, appendix) ==
  1 + Cardinality({u \in DOMAIN s.units :
                     u > appendix /\ s.units[u].kind = "TABLE_CATEGORY"})

TableCategory(s, line, following) ==
  LET title == IF Len(line) > 1 THEN Tail(line)
               ELSE IF Heading(following) = "NONE" THEN following ELSE <<>>
  IN \E appendix \in OpenUnits(s, "APPENDIX") :
       /\ \A u \in OpenUnits(s, "APPENDIX") : u <= appendix
       /\ Number[Head(line)] = NextCategory(s, appendix)
       /\ ValidTitle(title)
       /\ NextCategory(s, appendix) = 1 => "=" \notin ToSet(title)

(* One line of the text. *)
ParseLine(s, t, at, following) ==
  LET line == LineAt(t, at)
      kind == Heading(line)
      inside == EmbeddedArticle(s, line)
  IN CASE inside # 0 ->
            AddUnit(s, "ARTICLE", ArticleNo[line[inside]], at + inside - 1)
       [] inside = 0 /\ kind = "ARTICLE" ->
            AddUnit(s, kind, ArticleNo[Head(line)], at)
       [] inside = 0 /\ kind \in {"PART", "APPENDIX", "CHAPTER", "SECTION"} ->
            AddUnit(s, kind, 1, at)
       [] /\ inside = 0
          /\ \/ kind = "CLAUSE" /\ OpenUnits(s, "ARTICLE") # {}
             \/ kind = "POINT" /\ OpenUnits(s, "CLAUSE") # {} ->
            AddUnit(s, kind, 1, at)
       [] /\ inside = 0 /\ line # <<>> /\ Head(line) \in DOMAIN Number
          /\ TableCategory(s, line, following) ->
            AddUnit(s, "TABLE_CATEGORY", Number[Head(line)], at)
       [] OTHER -> s

(* Line is what is done with one line: ParseLine. *)
ParseWith(t, Line(_, _, _, _)) ==
  LET starts == LineStarts(t)
      (* get_title looks ahead to the next line that is not blank *)
      Following(k) ==
        LET next == SelectInSubSeq(starts, k + 1, Len(starts),
                                   LAMBDA a : LineAt(t, a) # <<>>)
        IN IF next = 0 THEN <<>> ELSE LineAt(t, starts[next])
      parsed == FoldLeft(LAMBDA s, k : Line(s, t, starts[k], Following(k)),
                         [units |-> <<[kind |-> "PREAMBLE", no |-> 0,
                                       from |-> 1, to |-> 0, parent |-> 0]>>,
                          stack |-> <<1>>],
                         [k \in DOMAIN starts |-> k])
  IN [u \in DOMAIN parsed.units |->
        IF u \in ToSet(parsed.stack)
        THEN [parsed.units[u] EXCEPT !.to = Len(t) + 1]
        ELSE parsed.units[u]]

Parse(t) == ParseWith(t, ParseLine)

------------------------------------------------------------------------------
(* The chunker. *)

Span(a, b) == [from |-> a, to |-> b]

(* _trim_span *)
Trim(t, s) ==
  LET full == {i \in s.from..(s.to - 1) : i <= Len(t) /\ t[i] \notin White}
  IN IF full = {} THEN Span(s.from, s.from)
     ELSE Span(Least(full), Greatest(full) + 1)

Tokens(t, s) ==
  Cardinality({i \in s.from..(s.to - 1) : t[i] \notin White})
  + (IF s.from < s.to /\ t[s.from] = "x" THEN 1 ELSE 0)

(* The header of a chunk names the unit and its ancestors. *)
RECURSIVE Depth(_, _)
Depth(units, u) ==
  IF u = 0 \/ units[u].kind = "PREAMBLE" THEN 0
  ELSE 1 + Depth(units, units[u].parent)

Fixed(units, u) == 1 + Depth(units, u)
Fits(t, fixed, s) == fixed + Tokens(t, s) <= MaxTokens

(* White space that follows a full stop within a span; runs of line breaks, *)
(* for level 1 only those that make a blank line.                           *)
Separators(t, s, level) ==
  {i \in s.from..(s.to - 1) :
     /\ t[i] \in White
     /\ LET Joined(k) == \A j \in k..(i - 1) : t[j] \in White
        IN CASE level = 1 -> /\ t[i] = Break
                             /\ \E j \in {i - 1, i + 1} :
                                  j \in s.from..(s.to - 1) /\ t[j] = Break
             [] level = 2 -> t[i] = Break
             [] level = 3 -> \E k \in s.from..i : /\ Joined(k) /\ k > s.from
                                                  /\ t[k - 1] = "."}

(* The text between the separators: what is cut, trimmed, and not empty.    *)
Between(t, s, cut) ==
  LET starts == SortUp({i \in s.from..(s.to - 1) :
                          i \notin cut /\ (i = s.from \/ i - 1 \in cut)})
      End(i) == Least({j \in cut : j > i} \cup {s.to})
      Piece(i) == Trim(t, Span(i, End(i)))
  IN SelectSeq([k \in DOMAIN starts |-> Piece(starts[k])],
               LAMBDA p : p.from < p.to)
Pieces(t, s, level) == Between(t, s, Separators(t, s, level))

(* Sentences packed up to MaxChars.  The pieces are joined by one space, so *)
(* the length of a candidate is not that of its span.                       *)
NormalCandidates(t, s) ==
  LET Pack(packs, p) ==
        IF packs # <<>> /\ Last(packs).size + (p.to - p.from) + 1 <= MaxChars
        THEN Append(Front(packs),
                    [from |-> Last(packs).from, to |-> p.to,
                     size |-> Last(packs).size + (p.to - p.from) + 1])
        ELSE Append(packs, [from |-> p.from, to |-> p.to,
                            size |-> p.to - p.from])
  IN IF s.to - s.from <= MaxChars THEN <<s>>
     ELSE LET packs == FoldLeft(Pack, <<>>, Pieces(t, s, 3))
          IN [k \in DOMAIN packs |-> Span(packs[k].from, packs[k].to)]

Segment(s, method, shared) ==
  [from |-> s.from, to |-> s.to, method |-> method, shared |-> shared]
TooLong == Segment(Span(1, 1), "HEADER_TOO_LONG", 0)

(* _hard_token_segments: windows over the tokens up to b.  at[k] is the     *)
(* place of the k-th token; a window is shortened until it fits, the next   *)
(* one starts Overlap tokens before its end but MinProgress after its start.*)
RECURSIVE Windows(_, _, _, _, _, _)
Windows(t, at, b, fixed, k, before) ==
  LET Cut(e) == Trim(t, Span(at[k], IF e <= Len(at) THEN at[e] ELSE b))
      ends == {e \in (k + 1)..Min({Len(at) + 1, k + MaxTokens - fixed - Headroom}) :
                 Fits(t, fixed, Cut(e))}
      Window(e) ==
        <<Segment(Cut(e), "HARD_TOKEN", Max({0, before - k}))>>
          \o (IF e = Len(at) + 1 THEN <<>>
              ELSE Windows(t, at, b, fixed,
                           e - Min({Overlap, Max({0, e - k - MinProgress})}), e))
  IN IF ends = {} THEN <<TooLong>> ELSE Window(Greatest(ends))

HardTokens(t, s, fixed) ==
  IF MaxTokens - fixed - Headroom < MinContent THEN <<TooLong>>
  ELSE Windows(t, SortUp({i \in s.from..(s.to - 1) : t[i] \notin White}),
               s.to, fixed, 1, 0)

(* _greedy_repack_semantic *)
Repack(t, fixed, segments) ==
  LET Join(packed, s) ==
        IF /\ packed # <<>> /\ Last(packed).method = "SEMANTIC"
           /\ s.method = "SEMANTIC"
           /\ Fits(t, fixed, Span(Last(packed).from, s.to))
        THEN Append(Front(packed), [Last(packed) EXCEPT !.to = s.to])
        ELSE Append(packed, s)
  IN FoldLeft(Join, <<>>, segments)

(* _semantic_segments: blank lines, then lines, then sentences, then tokens.*)
(* A span that yields one piece is tried at the next level; pieces are      *)
(* trimmed, so that this piece is the span.                                 *)
RECURSIVE Semantic(_, _, _, _)
Semantic(t, s, fixed, level) ==
  LET Split(pieces) ==
        IF Len(pieces) <= 1 THEN Semantic(t, s, fixed, level + 1)
        ELSE Repack(t, fixed,
               FlattenSeq([k \in DOMAIN pieces |->
                             Semantic(t, pieces[k], fixed, level + 1)]))
  IN CASE s.from = s.to -> <<>>
       [] s.from < s.to /\ Fits(t, fixed, s) -> <<Segment(s, "SEMANTIC", 0)>>
       [] s.from < s.to /\ ~ Fits(t, fixed, s) ->
            IF level > 3 THEN HardTokens(t, s, fixed)
            ELSE Split(Pieces(t, s, level))

(* Mutant: a unit's text is all of it. *)
OwnEndOfAll(units, u) == units[u].to

(* A unit's own text ends where its first child begins. *)
OwnEnd(units, u) ==
  LET children == {c \in DOMAIN units : units[c].parent = u}
  IN IF children = {} THEN units[u].to ELSE units[Least(children)].from

UnitChunks(t, units, u) ==
  LET Segments(c, fixed) ==
        IF Fits(t, fixed, c) THEN <<Segment(c, "NORMAL", 0)>>
        ELSE Semantic(t, Trim(t, c), fixed, 1)
      OfCandidates(candidates) ==
        FlattenSeq([k \in DOMAIN candidates |->
                      Segments(candidates[k], Fixed(units, u))])
      OfOwn(own) == IF own.from = own.to THEN <<>>
                    ELSE OfCandidates(NormalCandidates(t, own))
      OfUnit(segments) ==
        [k \in DOMAIN segments |->
           [from |-> segments[k].from, to |-> segments[k].to, unit |-> u,
            method |-> segments[k].method, shared |-> segments[k].shared]]
  IN OfUnit(OfOwn(Trim(t, Span(units[u].from, OwnEnd(units, u)))))

(* generate_chunks: all chunks of the text, or the error that is raised.    *)
Chunks(t, units) ==
  LET Breaks(c) == ~ Fits(t, Fixed(units, c.unit), c)
      Error(all) == IF \E k \in DOMAIN all : all[k].method = "HEADER_TOO_LONG"
                    THEN "EmbeddingHeaderTooLong"
                    ELSE IF \E k \in DOMAIN all : Breaks(all[k])
                    THEN "ContractViolation" ELSE "NONE"
      Result(all) == [chunks |-> IF Error(all) = "NONE" THEN all ELSE <<>>,
                      error |-> Error(all)]
  IN Result(FlattenSeq([u \in DOMAIN units |-> UnitChunks(t, units, u)]))
==============================================================================
