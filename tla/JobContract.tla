---------------------------- MODULE JobContract ----------------------------
(***************************************************************************)
(* What LocalJobStore promises the browser about PROCESS_DOCUMENT jobs,    *)
(* whoever runs them: durable states, one active job per document, one     *)
(* running job, terminal states that never change, and cancellation that   *)
(* neither gets lost nor invented.                                         *)
(***************************************************************************)
EXTENDS Naturals

CONSTANTS Jobs, Docs, NoDoc

VARIABLES state, flag, owner

contractVars == <<state, flag, owner>>

Open == {"QUEUED", "RUNNING", "CANCEL_REQUESTED"}
Finished == {"SUCCEEDED", "FAILED", "CANCELLED"}

ContractInit ==
    /\ state = [j \in Jobs |-> "UNUSED"]
    /\ flag = [j \in Jobs |-> FALSE]
    /\ owner = [j \in Jobs |-> NoDoc]

NobodyElseRuns(j) == \A k \in Jobs \ {j} : state[k] # "RUNNING"

Submit(j, d) ==
    /\ state[j] = "UNUSED"
    /\ \A k \in Jobs : owner[k] = d => state[k] \notin Open
    /\ state' = [state EXCEPT ![j] = "QUEUED"]
    /\ owner' = [owner EXCEPT ![j] = d]
    /\ UNCHANGED flag

Start(j) ==
    /\ state[j] = "QUEUED" /\ NobodyElseRuns(j)
    /\ state' = [state EXCEPT ![j] = "RUNNING"]
    /\ UNCHANGED <<flag, owner>>

AskToCancel(j) ==
    /\ state[j] \in {"QUEUED", "RUNNING"}
    /\ state' = [state EXCEPT ![j] = "CANCEL_REQUESTED"]
    /\ flag' = [flag EXCEPT ![j] = TRUE]
    /\ UNCHANGED owner

\* Between two safe boundaries the running job reports progress, and shows
\* as RUNNING again although it was asked to stop.
ReportProgress(j) ==
    /\ state[j] = "CANCEL_REQUESTED" /\ NobodyElseRuns(j)
    /\ state' = [state EXCEPT ![j] = "RUNNING"]
    /\ UNCHANGED <<flag, owner>>

End(j, s) ==
    /\ state[j] \in {"RUNNING", "CANCEL_REQUESTED"}
    /\ s = "CANCELLED" => flag[j]
    /\ state' = [state EXCEPT ![j] = s]
    /\ UNCHANGED <<flag, owner>>

\* After a restart whoever was asked to stop has stopped, the others wait.
Recover ==
    /\ state' = [j \in Jobs |->
          IF state[j] \in {"RUNNING", "CANCEL_REQUESTED"}
          THEN IF flag[j] THEN "CANCELLED" ELSE "QUEUED"
          ELSE state[j]]
    /\ UNCHANGED <<flag, owner>>

Remove(d) ==
    /\ state' = [j \in Jobs |-> IF owner[j] = d THEN "GONE" ELSE state[j]]
    /\ UNCHANGED <<flag, owner>>

ContractNext ==
    \/ \E j \in Jobs :
        \/ Start(j) \/ AskToCancel(j) \/ ReportProgress(j)
        \/ \E s \in Finished : End(j, s)
        \/ \E d \in Docs : Submit(j, d)
    \/ \E d \in Docs : Remove(d)
    \/ Recover

ContractSpec == ContractInit /\ [][ContractNext]_contractVars
=============================================================================
