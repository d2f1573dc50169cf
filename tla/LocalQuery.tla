---------------------------- MODULE LocalQuery ----------------------------
(***************************************************************************)
(* A query over one document of the pipeline.  POST /v1/answers runs the   *)
(* retrieval in a thread of its own, so its reads interleave with the      *)
(* handlers and the worker: the document row, the artifact row, the        *)
(* vectors, the full-text rows.  It takes no document lock.                *)
(***************************************************************************)
EXTENDS LocalPipeline

VARIABLES
    qpc, qdoc, qart,
    qdense, qlexical,   \* how many chunks each branch has read
    quiet               \* nobody touched the artifact since the row was read

queryVars == <<qpc, qdoc, qart, qdense, qlexical, quiet>>
allVars == <<vars, queryVars>>

QueryReset ==
    /\ qpc' = "idle" /\ qdoc' = NoDoc /\ qart' = NoArt
    /\ qdense' = 0 /\ qlexical' = 0 /\ quiet' = TRUE

QueryInit ==
    /\ qpc = "idle" /\ qdoc = NoDoc /\ qart = NoArt
    /\ qdense = 0 /\ qlexical = 0 /\ quiet = TRUE

\* Mutant of QueryDocument: any document with an artifact is opened.
QueryUngated(d) ==
    /\ up /\ qpc = "idle"
    /\ docArt[d] # NoArt
    /\ qpc' = "artifact" /\ qdoc' = d /\ qart' = docArt[d]
    /\ UNCHANGED <<qdense, qlexical, quiet>>

\* _doc and the gate: only an INDEX_READY document is opened.
QueryDocument(d) ==
    /\ up /\ qpc = "idle"
    /\ docState[d] = "INDEX_READY"
    /\ qpc' = "artifact" /\ qdoc' = d /\ qart' = docArt[d]
    /\ UNCHANGED <<qdense, qlexical, quiet>>

\* _artifact: the path, or CAPABILITY_UNAVAILABLE once the row is deleted.
QueryArtifact ==
    /\ qpc = "artifact"
    /\ IF artRow[qart] = "NONE"
       THEN QueryReset
       ELSE qpc' = "dense" /\ UNCHANGED <<qdoc, qart, qdense, qlexical, quiet>>

\* _load_rows: chunks joined with chunk_embeddings; no file, no answer.
QueryDense ==
    /\ qpc = "dense"
    /\ IF artFile[qart] # "final"
       THEN QueryReset
       ELSE /\ qpc' = "lexical" /\ qdense' = idxRows[qart]
            /\ UNCHANGED <<qdoc, qart, qlexical, quiet>>

\* _lexical_stream: hits whose chunk the first read has not seen are dropped.
QueryLexical ==
    /\ qpc = "lexical"
    /\ IF artFile[qart] # "final"
       THEN QueryReset
       ELSE /\ qpc' = "answered"
            /\ qlexical' = IF idxRows[qart] < qdense THEN idxRows[qart] ELSE qdense
            /\ UNCHANGED <<qdoc, qart, qdense, quiet>>

QueryDone == qpc = "answered" /\ QueryReset

QueryStep ==
    \/ \E d \in Docs : QueryDocument(d)
    \/ QueryArtifact \/ QueryDense \/ QueryLexical \/ QueryDone

\* A step of the pipeline as the query sees it; a crash ends the query too.
Disturb ==
    IF up' THEN /\ quiet' = (quiet /\ (qpc # "idle" =>
                        idxRows'[qart] = idxRows[qart] /\ artFile'[qart] = artFile[qart]))
                /\ UNCHANGED <<qpc, qdoc, qart, qdense, qlexical>>
    ELSE QueryReset

QInit == Init /\ QueryInit
QNext == (Next /\ Disturb) \/ (QueryStep /\ UNCHANGED vars)
QSpec == QInit /\ [][QNext]_allVars

\* A query that no rebuild or deletion overtook has read the whole index of
\* the document's own artifact, in both branches: the check of the row, made
\* once and never again, is enough for it.
QuietQueryIsComplete ==
    qpc = "answered" /\ quiet =>
        qdense = NChunks /\ qlexical = NChunks /\ artDoc[qart] = qdoc

\* "The partial embedding tables must never be queryable" (pipeline.py:247,
\* Case 2), "no half-built candidate is ever ... selected for retrieval"
\* (LOCAL_DATA_RUNTIME_CONTRACT_V1): no query is answered from part of an
\* index.  The code violates it: the row is checked, then the index rebuilt
\* in place under the query's feet.
NoPartialIndexIsRead ==
    qpc = "answered" => qdense = NChunks /\ qlexical = NChunks
=============================================================================
