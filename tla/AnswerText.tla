------------------------------ MODULE AnswerText ------------------------------
(****************************************************************************)
(* What becomes of the text a language model answers with                   *)
(* (app/generation/answerability.py, citations.py, finalization.py) when it *)
(* is returned at once, and when it is streamed to the reader piece by      *)
(* piece (app/orchestration/answer_service.py, stream_prepared).            *)
(*                                                                          *)
(* The prompt asks the model to begin with [STATUS: ANSWERABLE] or          *)
(* [STATUS: INSUFFICIENT_EVIDENCE].  A text is a sequence of symbols: "["   *)
(* "S" "T" stand for the opening "[STATUS", of which a citation, "[" "S"    *)
(* and a number, shares the beginning; "A" and "I" are the two statuses,    *)
(* "U" any other word behind "[STATUS"; "w" is a word of the answer.        *)
(****************************************************************************)
EXTENDS Integers, Sequences, FiniteSets, SequencesExt

CONSTANTS
  PrefixLimit,     \* 128: no marker is expected behind so many symbols
  Evidence         \* the numbers of the sources that were in the prompt

Newline == "\n"
Opening == <<"[", "S", "T">>
Status == [A |-> "ANSWERABLE", I |-> "INSUFFICIENT"]

StartsAt(t, i) ==
  i + 2 <= Len(t) /\ \A k \in 1..3 : t[i + k - 1] = Opening[k]
FirstOf(t, from, symbols) ==
  SelectInSubSeq(t, from, Len(t), LAMBDA c : c \in symbols)
StripLeft(t) ==
  LET at == SelectInSeq(t, LAMBDA c : c \notin {" ", Newline})
  IN IF at = 0 THEN <<>> ELSE SubSeq(t, at, Len(t))

(* _MARKER_LIKE: an opening that is closed on its own line.  Of two openings*)
(* with one closing bracket the first counts.                               *)
Markers(t) ==
  LET Close(i) == FirstOf(t, i + 3, {"]", Newline})
      like == {i \in DOMAIN t :
                 StartsAt(t, i) /\ Close(i) # 0 /\ t[Close(i)] = "]"}
  IN {[from |-> i, to |-> Close(i)] :
        i \in {j \in like : \A k \in like : Close(k) = Close(j) => j <= k}}

(* _VALID_PREFIX: where a text that begins with one of the two markers goes *)
(* on; 0 for any other text.                                                *)
AfterPrefix(t) ==
  LET s == StripLeft(t)
  IN IF /\ Len(s) >= 5 /\ StartsAt(s, 1)
        /\ s[4] \in DOMAIN Status /\ s[5] = "]"
     THEN Len(t) - Len(s) + 6 ELSE 0
PrefixStatus(t) == Status[t[AfterPrefix(t) - 2]]
Behind(t) == StripLeft(SubSeq(t, AfterPrefix(t), Len(t)))

(* strip_internal_markers: all markers, then a line that begins with an     *)
(* opening that is never closed.                                            *)
StripMarkers(t) ==
  LET kept == SelectSeq([i \in DOMAIN t |-> i],
                        LAMBDA i : \A m \in Markers(t) :
                                     i < m.from \/ i > m.to)
      cleaned == [k \in DOMAIN kept |-> t[kept[k]]]
      line == FirstOf(cleaned, 1, {Newline})
  IN StripLeft(IF ~ StartsAt(StripLeft(cleaned), 1) THEN cleaned
               ELSE IF line = 0 THEN <<>>
               ELSE SubSeq(cleaned, line + 1, Len(cleaned)))

(* parse_answerability *)
ParseAnswer(t) ==
  IF AfterPrefix(t) # 0 /\ Cardinality(Markers(t)) = 1
  THEN [status |-> PrefixStatus(t), text |-> Behind(t)]
  ELSE [status |-> "NONE", text |-> StripMarkers(t)]

Citations(t) ==
  {t[i + 2] : i \in {j \in DOMAIN t :
                       /\ j + 3 <= Len(t) /\ t[j] = "[" /\ t[j + 1] = "S"
                       /\ t[j + 2] \in {"1", "9"} /\ t[j + 3] = "]"}}

(* finalize_generation_result *)
Finalize(t) ==
  LET parsed == ParseAnswer(t)
      cited == Citations(parsed.text)
  IN IF parsed.status = "INSUFFICIENT"
     THEN [status |-> "INSUFFICIENT", text |-> <<>>, citations |-> {}]
     ELSE [status |-> IF \/ parsed.status = "NONE"
                         \/ ~ (cited \subseteq Evidence)
                         \/ StripLeft(parsed.text) # <<>> /\ cited = {}
                      THEN "COMPLETED_WITH_WARNINGS" ELSE "COMPLETED",
           text |-> parsed.text, citations |-> cited \cap Evidence]

------------------------------------------------------------------------------
(* StreamingMarkerFilter *)

(* feed: everything from an opening to the next bracket is dropped; what may*)
(* be the beginning of an opening is kept back until the next piece.        *)
RECURSIVE Feed(_)
Feed(data) ==
  LET at == SelectInSeq([i \in DOMAIN data |-> StartsAt(data, i)],
                        LAMBDA hit : hit)
      close == FirstOf(data, at, {"]"})
      rest == Feed(SubSeq(data, close + 1, Len(data)))
      tail == IF data # <<>> /\ Last(data) = "[" THEN 1
              ELSE IF Len(data) > 1
                      /\ SubSeq(data, Len(data) - 1, Len(data)) = <<"[", "S">>
              THEN 2 ELSE 0
  IN IF at = 0
     THEN [shown |-> SubSeq(data, 1, Len(data) - tail),
           pending |-> SubSeq(data, Len(data) - tail + 1, Len(data))]
     ELSE IF close = 0
     THEN [shown |-> SubSeq(data, 1, at - 1),
           pending |-> SubSeq(data, at, Len(data))]
     ELSE [shown |-> SubSeq(data, 1, at - 1) \o rest.shown,
           pending |-> rest.pending]

(* finish *)
Rest(pending) == IF StartsAt(pending, 1) THEN <<>> ELSE pending

------------------------------------------------------------------------------
(* stream_prepared *)

(* raw: what the provider sent; buffer: the text before the prefix is       *)
(* resolved; strip: no visible symbol yet behind the marker; shown: all     *)
(* deltas so far.                                                           *)
StreamStart == [raw |-> <<>>, buffer |-> <<>>, resolved |-> FALSE,
                strip |-> FALSE, stopped |-> FALSE, pending |-> <<>>,
                shown |-> <<>>]

(* Mutant: white space behind the marker is shown when it comes late. *)
ShowAsIs(s, piece) ==
  LET fed == Feed(s.pending \o piece)
  IN [s EXCEPT !.pending = fed.pending, !.shown = @ \o fed.shown]

(* marker_filter.feed, then the white space in front of the answer *)
Show(s, piece) ==
  LET fed == Feed(s.pending \o piece)
      visible == IF s.strip THEN StripLeft(fed.shown) ELSE fed.shown
  IN [s EXCEPT !.pending = fed.pending, !.shown = @ \o visible,
               !.strip = @ /\ visible = <<>>]

(* One piece from the provider. *)
Receive(s, piece) ==
  LET got == [s EXCEPT !.raw = @ \o piece]
      buffer == s.buffer \o piece
      open == [got EXCEPT !.buffer = buffer, !.resolved = TRUE]
  IN IF s.stopped THEN s
     ELSE IF s.resolved THEN Show(got, piece)
     ELSE IF AfterPrefix(buffer) # 0
     THEN IF PrefixStatus(buffer) = "INSUFFICIENT"
          THEN [open EXCEPT !.stopped = TRUE]
          ELSE Show([open EXCEPT !.strip = TRUE], Behind(buffer))
     ELSE IF Newline \in ToSet(buffer) \/ Len(buffer) >= PrefixLimit
     THEN Show(open, StripMarkers(buffer))
     ELSE [got EXCEPT !.buffer = buffer]

(* The provider is done, or was stopped. *)
EndOfStream(s) ==
  LET all == IF ~ s.resolved THEN Show(s, StripMarkers(s.buffer)) ELSE s
  IN IF s.stopped THEN s
     ELSE [all EXCEPT !.shown = @ \o Rest(all.pending), !.pending = <<>>]
==============================================================================
