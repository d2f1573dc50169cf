----------------------------- MODULE ExperimentRuns ----------------------------
(***************************************************************************)
(* The prompt and model experiments of evaluation/experiments: a runner    *)
(* generates one answer per key, keeps every answer in a progress file,    *)
(* and decides from the complete set which candidate may go on.  A run     *)
(* takes hours on a real model: it is killed and resumed, the file cannot  *)
(* be written, the prompts change in between.                              *)
(***************************************************************************)
EXTENDS Integers, FiniteSets, Sequences

CONSTANTS
    Kinds,        \* the runners of this instance
    TargetRuns,   \* repeats of a targeted case (3 or 5)
    SafetyRuns,   \* repeats of an unanswerable case (1 or 3)
    MaxFaults,    \* failing calls, failing writes and kills of one behaviour
    MaxPrompt,    \* how often the prompts are edited
    MaxStale      \* records in the file when they are

ASSUME ExperimentAssumption ==
    /\ Kinds \subseteq {"capacity", "grounding", "ablation", "validation",
                        "abstention", "presentation", "sweep"}
    /\ TargetRuns \in Nat \ {0} /\ SafetyRuns \in Nat \ {0}
    /\ MaxFaults \in Nat /\ MaxPrompt \in Nat /\ MaxStale \in Nat

VARIABLES
    kind,      \* the runner
    prompt,    \* version of the prompt files
    disk,      \* raw_progress.json: key -> outcome
    torn,      \* it holds half a document
    prior,     \* the records the sweep read from it
    mem,       \* ProgressStore.records
    todo,      \* the key the process runs next
    report,    \* the final report file
    faults

runsVars == <<kind, prompt, disk, torn, prior, mem, todo, report, faults>>

NoRecords == <<>>
Idle == [purpose |-> "idle"]         \* no process
Complete == [purpose |-> "complete"] \* every record is there
IsReport == report.is = "report"
NoReport == [is |-> "none"]
TornReport == [is |-> "torn"]
NoCandidate == "none"

\* temporary file and os.replace; the others write the file in place
Replaces == kind \in {"capacity", "grounding", "ablation", "validation"}
\* the checkpoint key names the hash of the prompt
NamesPrompt == kind \in {"capacity", "grounding", "validation"}
\* the hierarchy sweep writes the cases it has passed so far
Sweeps == kind = "sweep"

(***************************************************************************)
(* Keys.  Of the 55 answerable cases there are a targeted one and another, *)
(* of the ten unanswerable ones there is one.                              *)
(***************************************************************************)

Key(p, v, c, r) ==
    [purpose |-> p, variant |-> v, case |-> c, run |-> r,
     prompt |-> IF NamesPrompt THEN prompt ELSE 0]

Repeat(p, vs, c, n) == {Key(p, v, c, r) : v \in vs, r \in 1..n}
Targeted(p, vs) == Repeat(p, vs, "target", TargetRuns)
Answerable(p, vs) == {Key(p, v, c, 1) : v \in vs, c \in {"target", "other"}}
Unanswerable(p, vs, n) == Repeat(p, vs, "unanswerable", n)

\* purposes whose records no decision reads
Diagnostic ==
    {"synthetic", "baseline", "oracle", "order", "minimal", "duplicate", "sweep"}

\* "good": grounded, or a structured abstention where one is due;
\* "wrong": an abstention, or an answer where an abstention is due;
\* "broken": the status contract is not met.
Outcomes(k) ==
    IF k.purpose \in Diagnostic \/ kind = "capacity" THEN {"good"}
    ELSE IF /\ k.case # "unanswerable"
            /\ kind \in {"grounding", "ablation", "validation", "abstention"}
    THEN {"good", "wrong", "broken"}
    ELSE {"good", "wrong"}

Of(recs, p, v) == {k \in DOMAIN recs : k.purpose = p /\ k.variant = v}
All(recs, ks, allowed) == \A k \in ks : recs[k] \in allowed
Good(recs, ks) == Cardinality({k \in ks : recs[k] = "good"})
Valid == {"good", "wrong"}

\* Mutant: no record at all counts as safe.
SafeIfNotRun(recs, ks) == All(recs, ks, {"good"})

\* safe: at least one record, each an abstention with a valid status
Safe(recs, ks) == ks # {} /\ All(recs, ks, {"good"})

\* One of vs that is best by f, the same one in every run.
BestBy(vs, f) == CHOOSE v \in vs : \A w \in vs : f[w] <= f[v]

(***************************************************************************)
(* legal_rag_model_capacity_v1: four conditions, no decision in the runner *)
(***************************************************************************)
CapacityStages ==
    LET all == {"A", "B", "C", "D"}
    IN <<Targeted("targeted-5x", all),
         Repeat("full-answerable", all, "other", 1),
         Repeat("synthetic", all, "synthetic", 1),
         Unanswerable("safety-3x", {"C", "D"}, SafetyRuns)>>

(***************************************************************************)
(* legal_rag_v3_grounding_v1: only finalists get the safety runs.  A full  *)
(* record of a targeted case is its first targeted run.                    *)
(***************************************************************************)
GroundingFull(recs, v) ==
    Of(recs, "full-answerable", v)
        \cup {k \in Of(recs, "targeted-5x", v) : k.run = 1}
GroundingFinalists(recs) ==
    {v \in {"E1", "E2"} :
        /\ All(recs, Of(recs, "targeted-5x", v), {"good"})
        /\ All(recs, GroundingFull(recs, v), Valid)}

GroundingStages(recs) ==
    LET all == {"E0", "E1", "E2"}
    IN <<Targeted("targeted-5x", all),
         Repeat("full-answerable", all, "other", 1),
         Repeat("synthetic", all, "synthetic", 1),
         Unanswerable("safety-3x", GroundingFinalists(recs), SafetyRuns)>>

\* The margin of one case in 55 is none of the two cases here.
GroundingWinner(recs) ==
    LET accepted(v) == Good(recs, GroundingFull(recs, v))
        targeted(v) == Good(recs, Of(recs, "targeted-5x", v))
        hardSafe(v) == Safe(recs, Of(recs, "safety-3x", v))
        eligible == {v \in {"E1", "E2"} :
                        /\ hardSafe(v) /\ accepted(v) >= accepted("E0")
                        /\ All(recs, GroundingFull(recs, v), Valid)}
    IN CASE eligible = {} -> NoCandidate
         [] eligible = {"E1", "E2"} ->
              IF targeted("E2") > targeted("E1") /\ accepted("E2") >= accepted("E1")
              THEN "E2" ELSE "E1"
         [] OTHER -> CHOOSE v \in eligible : TRUE

(***************************************************************************)
(* legal_rag_v3_final_ablation: presentation P0 (A) against P1 (B)         *)
(***************************************************************************)
AblationStages ==
    LET phases(v) == <<Targeted("targeted-5x", {v}),
                       Answerable("full-answerable", {v}),
                       Unanswerable("safety-3x", {v}, SafetyRuns)>>
    IN phases("A") \o phases("B")

\* P1 needs two more grounded cases, a tenth of the targeted runs, and no
\* regression; the gate compares with a production that abstained on both.
AblationCandidate(recs) ==
    LET full(v) == Good(recs, Of(recs, "full-answerable", v))
        targeted(v) == Good(recs, Of(recs, "targeted-5x", v))
    IN IF /\ full("B") - full("A") >= 2 /\ targeted("B") > targeted("A")
          /\ Safe(recs, Of(recs, "safety-3x", "B"))
       THEN "B" ELSE "A"

\* (false_abstention_rate or 1) < production: a rate of zero counts as one.
FewerAbstentions(recs, v) ==
    LET wrong == Cardinality({k \in Of(recs, "full-answerable", v) : recs[k] = "wrong"})
    IN wrong = 1

AblationWinner(recs) ==
    LET v == AblationCandidate(recs)
    IN IF /\ FewerAbstentions(recs, v)
          /\ Safe(recs, Of(recs, "safety-3x", v))
          /\ \A k \in DOMAIN recs : k.variant = v => recs[k] # "broken"
       THEN v ELSE NoCandidate

(***************************************************************************)
(* legal_rag_v3_production_validation                                      *)
(***************************************************************************)
ValidationStages ==
    <<Targeted("targeted-v3-5x", {"v3"}),
      Answerable("full-answerable-same-run", {"v2", "v3"}),
      Unanswerable("safety-v3-3x", {"v3"}, SafetyRuns)>>

ValidationWinner(recs) ==
    LET full(v) == Good(recs, Of(recs, "full-answerable-same-run", v))
        engineering ==
            /\ \A k \in DOMAIN recs : k.variant = "v3" => recs[k] # "broken"
            /\ Safe(recs, Of(recs, "safety-v3-3x", "v3"))
    IN IF engineering /\ full("v3") > full("v2") THEN "v3" ELSE NoCandidate

(***************************************************************************)
(* abstention_calibration_v1: every safe label is a finalist               *)
(***************************************************************************)
Labels == {"variant-a", "fewshot"}
SafeLabels(recs) == {v \in Labels : Safe(recs, Of(recs, "safety", v))}
Full(recs, v) == Good(recs, Of(recs, "full", v))
\* the frozen baseline grounds one of the two answerable cases
EligibleLabels(recs) ==
    {v \in SafeLabels(recs) :
        /\ All(recs, Of(recs, "full", v), Valid)
        /\ Full(recs, v) >= 1}

AbstentionStages(recs) ==
    LET best == [v \in Labels |-> Full(recs, v)]
        safe == SafeLabels(recs)
        diagnostic == IF safe = {} THEN "legal-rag-v2" ELSE BestBy(safe, best)
    IN <<{Key("baseline", "legal-rag-v2", c, r) :
             c \in {"target", "other", "unanswerable"}, r \in 1..TargetRuns},
         Repeat("targeted", Labels, "target", TargetRuns)
             \cup Unanswerable("safety", Labels, 1),
         Answerable("full", safe),
         IF EligibleLabels(recs) = {}
         THEN {Key("baseline", "legal-rag-v2", "unanswerable", 100)} ELSE {},
         {Key("order", "legal-rag-v2", "target", 201)}
             \cup {Key("minimal", v, "target", 301) : v \in {"legal-rag-v2", diagnostic}}>>

AbstentionWinner(recs) ==
    LET best == [v \in Labels |-> Full(recs, v)]
    IN IF EligibleLabels(recs) = {} THEN NoCandidate
       ELSE BestBy(EligibleLabels(recs), best)

(***************************************************************************)
(* evidence_presentation_v1: a variant is a prompt and a presentation.     *)
(* Screen the presentations, cross the best one with the compact prompt,   *)
(* run the best combinations and the two controls through all cases.       *)
(***************************************************************************)
ComboTargets(recs, v) ==
    {k \in DOMAIN recs :
        /\ k.variant = v
        /\ k.purpose \in {"baseline-false", "presentation-screen", "cross-matrix"}}
ComboSafety(recs, v) ==
    {k \in DOMAIN recs :
        /\ k.variant = v
        /\ \/ k.purpose \in {"presentation-safety", "cross-safety"}
           \/ k.purpose = "baseline-unanswerable" /\ k.run = 1}
ComboRank(recs, v) == Good(recs, ComboTargets(recs, v))

BestIsP1(recs) ==
    LET safe == {v \in {"v2|P0", "v2|P1"} : Safe(recs, ComboSafety(recs, v))}
        rank == [v \in safe |-> ComboRank(recs, v)]
    IN safe # {} /\ BestBy(safe, rank) = "v2|P1"
Cross(recs) ==
    {"compact|P0"} \cup IF BestIsP1(recs) THEN {"v2|P1", "compact|P1"} ELSE {}

\* The two best, and the two controls; equal ranks go on together.
FinalistCombos(recs) ==
    LET safe == {v \in Cross(recs) : Safe(recs, ComboSafety(recs, v))}
        ahead(v) == {w \in safe : ComboRank(recs, w) > ComboRank(recs, v)}
    IN IF safe = {} THEN {"v2|P0"}
       ELSE {v \in safe : v # "compact|P1" \/ Cardinality(ahead(v)) < 2}

PresentationStages(recs) ==
    LET crossed == Cross(recs) \ {"v2|P1"}
        finalists == FinalistCombos(recs)
    IN <<Targeted("baseline-false", {"v2|P0"})
             \cup Unanswerable("baseline-unanswerable", {"v2|P0"}, SafetyRuns),
         {Key("oracle", "v2|P0", "target", 1)},
         Targeted("presentation-screen", {"v2|P1"})
             \cup Unanswerable("presentation-safety", {"v2|P1"}, 1),
         Targeted("cross-matrix", crossed) \cup Unanswerable("cross-safety", crossed, 1),
         Repeat("finalist-all-answerable", finalists, "other", 1)
             \cup Unanswerable("finalist-all-unanswerable", finalists, 1),
         {Key("duplicate", "previous-combined", "target", 1)}>>

\* next_target names a design only for a combination that combo_accepts.
ComboAccepts(recs, v) ==
    /\ Safe(recs, Of(recs, "finalist-all-unanswerable", v))
    /\ Safe(recs, Of(recs, "finalist-all-answerable", v))

PresentationWinner(recs) ==
    LET rank == [v \in FinalistCombos(recs) |->
                   (IF Safe(recs, Of(recs, "finalist-all-unanswerable", v)) THEN 2 ELSE 0)
                   + Good(recs, Of(recs, "finalist-all-answerable", v))]
        best == BestBy(FinalistCombos(recs), rank)
    IN IF ComboAccepts(recs, "compact|P0") THEN "compact|P0"
       ELSE IF ComboAccepts(recs, "v2|P1") THEN "v2|P1"
       ELSE IF ComboAccepts(recs, best) /\ best # "v2|P0" THEN best
       ELSE NoCandidate

(***************************************************************************)
(* hierarchy_v2_runner: one pass over the dataset, no decision             *)
(***************************************************************************)
SweepStages ==
    <<{Key("sweep", "v2", c, 1) : c \in {"target", "other", "unanswerable"}}>>

Stages(recs) ==
    CASE kind = "capacity" -> CapacityStages
      [] kind = "grounding" -> GroundingStages(recs)
      [] kind = "ablation" -> AblationStages
      [] kind = "validation" -> ValidationStages
      [] kind = "abstention" -> AbstentionStages(recs)
      [] kind = "presentation" -> PresentationStages(recs)
      [] kind = "sweep" -> SweepStages

Winner(recs) ==
    CASE kind = "grounding" -> GroundingWinner(recs)
      [] kind = "ablation" -> AblationWinner(recs)
      [] kind = "validation" -> ValidationWinner(recs)
      [] kind = "abstention" -> AbstentionWinner(recs)
      [] kind = "presentation" -> PresentationWinner(recs)
      [] OTHER -> NoCandidate

\* Where the key names the prompt, records of others stay in the file unread;
\* the other runners take them for their own.
Current(recs) ==
    IF NamesPrompt THEN [k \in {j \in DOMAIN recs : j.prompt = prompt} |-> recs[k]]
    ELSE recs

\* The first stage of the plan with a key without a record.
NextKey(plan, recs) ==
    LET open == {i \in DOMAIN plan : ~(plan[i] \subseteq DOMAIN recs)}
    IN IF open = {} THEN Complete
       ELSE CHOOSE k \in plan[CHOOSE i \in open : \A j \in open : i <= j] \ DOMAIN recs :
                TRUE

\* The process has these records; the later stages are planned from them.
GoOn(recs) ==
    /\ mem' = recs
    /\ \E current \in {Current(recs)} : \E plan \in {Stages(current)} :
          todo' = NextKey(plan, current)

-----------------------------------------------------------------------------
RunsInit ==
    /\ kind \in Kinds /\ prompt = 0
    /\ disk = NoRecords /\ torn = FALSE /\ prior = NoRecords /\ mem = NoRecords
    /\ todo = Idle /\ report = NoReport /\ faults = 0

\* A torn file ends every run that does not start afresh.
Start(fresh) ==
    /\ todo = Idle /\ ~IsReport
    /\ fresh \/ ~torn
    /\ IF fresh /\ ~Sweeps THEN disk' = NoRecords /\ torn' = FALSE
       ELSE UNCHANGED <<disk, torn>>
    /\ prior' = IF fresh \/ ~Sweeps THEN NoRecords ELSE disk
    /\ GoOn(IF fresh \/ Sweeps THEN NoRecords ELSE disk)
    /\ UNCHANGED <<kind, prompt, report, faults>>

\* self.records[key] = record
Store(recs, key, record) ==
    [k \in DOMAIN recs \cup {key} |-> IF k = key THEN record ELSE recs[k]]

\* ensure: the next key of the plan, from the records read at the start if
\* it is there, else from the provider; then save.
Ensure ==
    /\ todo \notin {Idle, Complete}
    /\ \E recs \in {Store(mem, todo, o) : o \in
            IF todo \in DOMAIN prior THEN {prior[todo]} ELSE Outcomes(todo)} :
          GoOn(recs) /\ disk' = recs
    /\ torn' = FALSE
    /\ UNCHANGED <<kind, prompt, prior, report, faults>>

\* The process is gone: the provider raised, or the file system did after the
\* retries of save, or it was killed.
Gone ==
    /\ faults < MaxFaults /\ faults' = faults + 1
    /\ todo' = Idle /\ mem' = NoRecords /\ prior' = NoRecords

RunFails ==
    /\ todo # Idle /\ Gone
    /\ UNCHANGED <<kind, prompt, disk, torn, report>>

\* Mutant: every store writes in place.
KilledInAnySave ==
    /\ todo \notin {Idle, Complete} /\ Gone
    /\ disk' = NoRecords /\ torn' = TRUE
    /\ UNCHANGED <<kind, prompt, report>>

\* Killed inside a write: a file written in place is left torn.
KilledInSave ==
    /\ todo \notin {Idle, Complete} /\ Gone /\ ~Replaces
    /\ disk' = NoRecords /\ torn' = TRUE
    /\ UNCHANGED <<kind, prompt, report>>

KilledInReport ==
    /\ todo = Complete /\ Gone /\ kind # "capacity"
    /\ report' = TornReport
    /\ UNCHANGED <<kind, prompt, disk, torn>>

Report ==
    /\ todo = Complete
    /\ report' = [is |-> "report", records |-> Current(mem),
                  winner |-> Winner(Current(mem))]
    /\ todo' = Idle /\ mem' = NoRecords /\ prior' = NoRecords
    /\ UNCHANGED <<kind, prompt, disk, torn, faults>>

\* The operator edits the prompt files, and the pinned hashes with them.
EditPrompt ==
    /\ todo = Idle /\ ~IsReport
    /\ prompt < MaxPrompt /\ Cardinality(DOMAIN disk) <= MaxStale
    /\ prompt' = prompt + 1
    /\ UNCHANGED <<kind, disk, torn, prior, mem, todo, report, faults>>

RunsNext ==
    \/ \E fresh \in BOOLEAN : Start(fresh)
    \/ Ensure \/ RunFails \/ KilledInSave \/ KilledInReport
    \/ Report \/ EditPrompt

RunsSpec == RunsInit /\ [][RunsNext]_runsVars

\* A started run goes on, and the operator starts another one until there is
\* a report: afresh only when nothing else is possible.
Restart == Start(torn)
FairRunsSpec == RunsSpec /\ WF_runsVars(Ensure \/ Report) /\ WF_runsVars(Restart)

-----------------------------------------------------------------------------
RunsTypeOK ==
    /\ kind \in Kinds /\ prompt \in 0..MaxPrompt /\ faults \in 0..MaxFaults
    /\ torn \in BOOLEAN
    /\ \A recs \in {disk, mem, prior} : \A k \in DOMAIN recs : recs[k] \in Outcomes(k)
    /\ report.is \in {"none", "torn", "report"}

\* A store that replaces its file never loses or rewrites a recorded answer,
\* however often the run is killed: only --fresh drops records.
RecordsAreKept ==
    [][Replaces =>
         \/ \A k \in DOMAIN disk : k \in DOMAIN disk' /\ disk'[k] = disk[k]
         \/ Start(TRUE)]_runsVars

\* A candidate is only named after each of its unanswerable cases was run,
\* and abstained in every repeat - under the present prompt where the key
\* names it, under the prompt of its record elsewhere.
WinnerIsSafe ==
    IsReport /\ report.winner # NoCandidate =>
        LET unanswerable == {k \in DOMAIN report.records :
                k.variant = report.winner /\ k.case = "unanswerable"}
        IN /\ unanswerable # {}
           /\ \A k \in unanswerable : report.records[k] = "good"

=============================================================================
