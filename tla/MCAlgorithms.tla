----------------------------- MODULE MCAlgorithms -----------------------------
(* Inputs for Algorithms. *)
EXTENDS Algorithms

UpTo(S, n) == UNION {[1..k -> S] : k \in 0..n}

(* One page of up to three lines of every kind; a long page of running text *)
(* under headings; two and three short pages with running headers.          *)
Word == <<"w">>
Kinds == {<<"A1", "w">>, <<"A2", "w", "w">>, <<"w", " ", "A2", "w">>,
          <<"CLAUSE", "w">>, <<"POINT", "x", "w", "w">>, <<"APPENDIX">>,
          <<"CHAPTER", "w">>, <<"n1", "w">>, <<"n1", "12:30">>, <<"n2">>,
          <<"w", "w", ".", " ", "w", "w">>}
Long == {<<"A1", "w", " ", "w", " ", "x", "w", ".", " ", "w">>,
         <<"CLAUSE", "w", " ", "x", " ", "w", "w", "w", "w", "w">>,
         <<"w", " ", "w", " ", "w", ".", " ", "w", "w">>, <<>>}
Running == {<<"w", "w", "w">>, <<"w", " ", "w">>, <<"n1">>, <<>>}
Main == {<<"A1", "w">>, <<"w", " ", "A2", "w">>, <<"CLAUSE", "w">>,
         <<"POINT", "w">>, <<"APPENDIX">>, <<"n1", "12:30">>, <<"n2", "w">>}
MCDocuments ==
  {<<page>> : page \in UpTo(Kinds, 3) \cup [1..4 -> Main] \cup UpTo(Long, 3)
                       \cup {<<<<"APPENDIX">>>> \o p :
                               p \in [1..3 -> {<<"n1", "w">>, <<"n1", "12:30">>,
                                               <<"n2">>, <<"A1", "w">>}]}}
  \cup [1..2 -> UpTo(Running, 3)]
  \cup [1..3 -> UpTo({<<"w", "w", "w">>, <<"n1">>, <<"w", "x">>}, 2)]

(* Two documents: an article (unit 1) with two clauses, one of which has    *)
(* two chunks, and an article of its own (unit 4) with a chunk that has no  *)
(* unit.  Chunks 2 and 3 have the same text.                                *)
MCCorpus ==
  LET C(doc, unit, text, size) ==
        [doc |-> doc, unit |-> unit, text |-> text, size |-> size]
  IN <<C(1, 1, "a", 1), C(1, 2, "b", 1), C(1, 3, "b", 2), C(1, 2, "c", 1),
       C(2, 4, "a", 1), C(2, 0, "d", 2)>>
MCUnitParent == <<0, 1, 1, 0>>

Ranked(n) == {r \in UpTo(DOMAIN MCCorpus, n) :
                \A i, j \in DOMAIN r : r[i] = r[j] => i = j}
MCRankings == {[dense |-> d, lexical |-> l] : d, l \in Ranked(3)}
Few == {<<>>, <<5>>, <<1, 2>>, <<2, 1>>, <<3, 4>>, <<5, 6>>, <<4, 6>>}
Streams == {<<one, two>> : one \in {<<>>, <<1>>, <<3, 4>>, <<2, 1>>},
                            two \in {<<>>, <<5>>, <<6, 5>>}}
MCSubQueries ==
  {[dense |-> d, streams |-> s, relative |-> r] :
     d \in [1..2 -> Few], s \in [1..2 -> Streams], r \in {<<40, 60>>, <<60, 40>>}}

(* What models write, in pieces of any length. *)
MCModelTexts ==
  LET Parts == {<<"[", "S", "T", "A", "]">>, <<"[", "S", "T", "I", "]">>,
                <<"[", "S", "T", "U", "]">>, <<"[", "S", "T", "A">>,
                <<Newline>>, <<"w">>, <<"[", "S", "1", "]">>,
                <<"[", "S", "9", "]">>}
  IN {FlattenSeq(parts) : parts \in UpTo(Parts, 3) \ {<<>>}}

MCRequests ==
  [policy : Policies, config : {"none", "unknown", "known"},
   toCloud : BOOLEAN, toLocal : BOOLEAN]
Health ==
  {h \in [Providers -> {"READY", "MODEL_UNAVAILABLE", "DEGRADED", "AUTH_FAILED"}] :
     h["LOCAL"] # "AUTH_FAILED"}
MCAttempts ==
  [evidence : {TRUE}, first : Health, second : Health, fits : {TRUE},
   structured : {TRUE}, claims : {TRUE}, call : {"ok", "TIMEOUT"}]
  \cup
  {[evidence |-> e, first |-> h, second |-> h, fits |-> f, structured |-> s,
    claims |-> c, call |-> "ok"] : h \in Health, e, f, s, c \in BOOLEAN}
  \cup
  {[evidence |-> TRUE, first |-> h, second |-> h, fits |-> TRUE,
    structured |-> s, claims |-> TRUE, call |-> c] :
     h \in Health, s \in BOOLEAN, c \in {"MODEL_UNAVAILABLE", "NO_TEXT"}}

(* HTTP requests: every method on every kind of path, with sessions that    *)
(* fail one or several checks.                                              *)
MCPaths ==
  {<<Plain("health")>>} \cup
  {V1(p) : p \in
     {<<Plain(n)>> : n \in {"sessions", "runtime", "documents", "queries",
                           "answers", "transport-probe", "other"}}
     \cup {<<Plain(n), id>> : n \in {"documents", "jobs"},
                             id \in {Plain("x"), Plain(""),
                                    [name |-> "x", cancel |-> TRUE],
                                    [name |-> "", cancel |-> TRUE]}}
     \cup {<<Plain("documents"), Plain("x"), Plain(n)>> :
              n \in {"source", "prepare", "index", "other"}}}
Session(g, v, ok, b, allows) ==
  [given |-> g, version |-> v, valid |-> ok, bound |-> b, allows |-> allows]
MCSessions ==
  {Session(g, v, ok, b, Operations) : g, v, ok, b \in BOOLEAN}
  \cup {Session(TRUE, TRUE, TRUE, TRUE, a) :
           a \in {{o} : o \in Operations} \cup {{"documents", "jobs"}}}
NotAsked == [asked |-> "none", private |-> FALSE]
Http(m, p, slash, o, pre, s, size, crash, grant) ==
  [method |-> m, path |-> p, slash |-> slash, origin |-> o, preflight |-> pre,
   session |-> s, size |-> size, crash |-> crash, grant |-> grant]
MCHttpRequests ==
  LET methods == {"GET", "POST", "PUT", "DELETE"}
      origins == {"page", "foreign", "none"}
      good == Session(TRUE, TRUE, TRUE, TRUE, Operations)
  IN {Http(m, p, FALSE, o, NotAsked, s, 2, FALSE, TRUE) :
        m \in methods, p \in MCPaths, o \in origins, s \in MCSessions}
     \cup {Http(m, p, slash, o, NotAsked, good, size, crash, grant) :
              m \in methods, p \in MCPaths, slash \in BOOLEAN, o \in origins,
              size \in {1, 3, 4}, crash, grant \in BOOLEAN}
     \cup {Http("OPTIONS", p, FALSE, o, [asked |-> m, private |-> pr], good, 1,
                FALSE, FALSE) :
              p \in MCPaths, o \in origins, m \in methods \cup {"none"},
              pr \in BOOLEAN}

(* One chunk suffices; two of one document; one of each document; either of *)
(* two ways; nothing does.                                                  *)
MCGolden ==
  LET Ask(solutions, docs) ==
        [answerable |-> solutions # {}, solutions |-> solutions, docs |-> docs]
  IN {Ask({{2}}, {1}), Ask({{2, 3}}, {1}), Ask({{3, 5}}, {1, 2}),
      Ask({{1, 2}, {6}}, {1, 2}), Ask({}, {})}
MCEarlier ==
  LET As(b, answerable, status, r, c, k) ==
        [blame |-> b, answerable |-> answerable, status |-> status,
         retrieval |-> [complete |-> r], context |-> [complete |-> c],
         cited |-> [complete |-> k]]
  IN {<<>>,
      <<As("CONTEXT_DROP", TRUE, "COMPLETED", TRUE, FALSE, FALSE),
        As("UNSUPPORTED_ANSWER", FALSE, "COMPLETED", FALSE, FALSE, FALSE)>>}
==============================================================================
