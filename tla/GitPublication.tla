---------------------------- MODULE GitPublication ----------------------------
(***************************************************************************)
(* Publication to the repository: the two jobs of .github/workflows/           *)
(* pipeline.yml with scripts/verify_candidate.py, on a main branch that people *)
(* push to meanwhile.  A run keeps the commit it was dispatched at; research   *)
(* seeds from that commit's snapshot and uploads a candidate, the publish job  *)
(* checks it out again, verifies, commits and pushes without force.            *)
(*                                                                         *)
(* The concurrency group lets one run be active; another may wait, and a newer *)
(* one takes its place.  A run can be started again, whole or from the job     *)
(* that failed: the commit stays, the attempt grows.                          *)
(***************************************************************************)
EXTENDS Integers, Sequences, FiniteSets

CONSTANTS
    Runs,           \* workflow runs
    MaxAttempts,    \* bound: attempts of a run
    MaxCommits      \* bound: commits on main

ASSUME PublicationAssumption == MaxAttempts \in Nat /\ MaxCommits \in Nat

\* A snapshot is named by the run and the attempt that built it.
Genesis == [run |-> "none", attempt |-> 0]
Candidate(r, n) == [run |-> r, attempt |-> n]

\* What a commit of main holds: the code, the snapshot its manifest describes,
\* the files that hold it, and whether the workflow made it.
Commit(code, snapshot, files, published) ==
    [code |-> code, snapshot |-> snapshot, files |-> files, published |-> published]

Legacy == {"raw", "manifest"}
Packed == {"gzip", "manifest"}

VARIABLES
    main,       \* the commits of main
    runs,       \* [pc, sha, attempt, wanted, built] of each workflow run
    artifacts,  \* the candidates uploaded
    pedigree    \* history: the parent and the code each candidate names

publicationVars == <<main, runs, artifacts, pedigree>>

Fresh == [pc |-> "none", sha |-> 0, attempt |-> 0, wanted |-> FALSE, built |-> 0]
Active == {"research", "handed", "verified", "confirmed"}
RunEnded == {"done", "failed", "pushed"}

PublicationInit ==
    /\ main = <<Commit(1, Genesis, Legacy, FALSE)>>
    /\ runs = [r \in Runs |-> Fresh]
    /\ artifacts = {}
    /\ pedigree = {}

-----------------------------------------------------------------------------
(* The queue of the concurrency group *)

\* A run that waits is cancelled by a newer one.
Enqueued(r, run) ==
    [s \in Runs |-> IF s = r THEN run
                    ELSE IF runs[s].pc = "queued" THEN [runs[s] EXCEPT !.pc = "failed"]
                    ELSE runs[s]]

\* A dispatch, with or without publication, or a schedule, which never publishes.
Dispatch(r) ==
    /\ runs[r].pc = "none"
    /\ \E wanted \in BOOLEAN :
          runs' = Enqueued(r, [Fresh EXCEPT !.pc = "queued", !.sha = Len(main),
                                            !.attempt = 1, !.wanted = wanted])
    /\ UNCHANGED <<main, artifacts, pedigree>>

\* Run again: all jobs, or, when research has handed over, the publish job only.
Rerun(r) ==
    /\ runs[r].pc \in RunEnded
    /\ runs[r].attempt < MaxAttempts
    /\ \E built \in {0, runs[r].built} :
          runs' = Enqueued(r, [runs[r] EXCEPT !.pc = "queued", !.attempt = @ + 1,
                                              !.built = built])
    /\ UNCHANGED <<main, artifacts, pedigree>>

\* The attempt whose candidate the outputs of research name, 0 for none, decides
\* which job comes first.
Start(r) ==
    /\ runs[r].pc = "queued"
    /\ \A s \in Runs : runs[s].pc \notin Active
    /\ runs' = [runs EXCEPT ![r].pc = IF runs[r].built = 0 THEN "research" ELSE "handed"]
    /\ UNCHANGED <<main, artifacts, pedigree>>

-----------------------------------------------------------------------------
(* The research job: a checkout of the run's commit, and a held candidate *)

Checkout(r) == main[runs[r].sha]

\* The candidate is uploaded under the name of this run, attempt and commit.
Research(r) ==
    /\ runs[r].pc = "research"
    /\ LET candidate == Candidate(r, runs[r].attempt) IN
          /\ artifacts' = artifacts \cup {candidate}
          /\ pedigree' = pedigree \cup {[snapshot |-> candidate, code |-> Checkout(r).code,
                                         parent |-> Checkout(r).snapshot]}
          /\ runs' = [runs EXCEPT ![r].pc = IF runs[r].wanted THEN "handed" ELSE "done",
                                  ![r].built = runs[r].attempt]
    /\ UNCHANGED main

\* A job fails, is cancelled, or its runner dies; nothing was pushed.
Breaks(r) ==
    /\ runs[r].pc \in Active
    /\ runs' = [runs EXCEPT ![r].pc = "failed"]
    /\ UNCHANGED <<main, artifacts, pedigree>>

-----------------------------------------------------------------------------
(* The publish job *)

\* The candidate that arrived is the one research named, of this very attempt,
\* and the parent it declares is what the checkout publishes.
Verified(r) ==
    /\ Candidate(r, runs[r].built) \in artifacts
    /\ runs[r].built = runs[r].attempt
    /\ \E p \in pedigree : /\ p.snapshot = Candidate(r, runs[r].built)
                           /\ p.parent = Checkout(r).snapshot

Revalidate(r) ==
    /\ runs[r].pc = "handed"
    /\ runs' = [runs EXCEPT ![r].pc = IF Verified(r) THEN "verified" ELSE "failed"]
    /\ UNCHANGED <<main, artifacts, pedigree>>

\* Mutant of MainUnmoved: main publishes the parent of the candidate, moved or not.
ParentUnmoved(r) == Checkout(r).snapshot = main[Len(main)].snapshot

\* main is where the run was dispatched.
MainUnmoved(r) == runs[r].sha = Len(main)

ConfirmMain(r) ==
    /\ runs[r].pc = "verified"
    /\ runs' = [runs EXCEPT ![r].pc = IF MainUnmoved(r) THEN "confirmed" ELSE "failed"]
    /\ UNCHANGED <<main, artifacts, pedigree>>

\* The files HEAD tracks agree with the encoding its manifest declares, so that
\* the staged change set is the expected one.
Sound(commit) == commit.files \in {Legacy, Packed}

\* Commit and push: never forced, so refused when main has moved since.
Push(r) ==
    /\ runs[r].pc = "confirmed"
    /\ Len(main) < MaxCommits
    /\ IF Sound(Checkout(r)) /\ MainUnmoved(r)
       THEN /\ main' = Append(main, Commit(main[Len(main)].code, Candidate(r, runs[r].built),
                                           Packed, TRUE))
            /\ runs' = [runs EXCEPT ![r].pc = "pushed"]
       ELSE /\ runs' = [runs EXCEPT ![r].pc = "failed"]
            /\ UNCHANGED main
    /\ UNCHANGED <<artifacts, pedigree>>

\* The push arrives and the job is reported as failed all the same.
PushUnreported(r) ==
    /\ runs[r].pc = "pushed"
    /\ runs' = [runs EXCEPT ![r].pc = "failed"]
    /\ UNCHANGED <<main, artifacts, pedigree>>

-----------------------------------------------------------------------------
(* People: new code, or an earlier snapshot put back with its files *)

People ==
    /\ Len(main) < MaxCommits
    /\ LET head == main[Len(main)] IN
       \E i \in DOMAIN main :
          main' = Append(main, Commit(IF i = Len(main) THEN head.code + 1 ELSE head.code,
                                      main[i].snapshot, main[i].files, FALSE))
    /\ UNCHANGED <<runs, artifacts, pedigree>>

PublicationNext ==
    \/ \E r \in Runs :
          \/ Dispatch(r) \/ Rerun(r) \/ Start(r) \/ Research(r) \/ Breaks(r)
          \/ Revalidate(r) \/ ConfirmMain(r) \/ Push(r) \/ PushUnreported(r)
    \/ People

PublicationSpec == PublicationInit /\ [][PublicationNext]_publicationVars

-----------------------------------------------------------------------------
(* Properties *)

\* Whatever people push, however often runs are repeated: a snapshot is published
\* on the very commit it was computed from, so its parent is what main published
\* until then and nothing in between is discarded, it was built by the code it is
\* published with, and it is published once (pipeline.yml "Confirm main has not
\* moved" and "Push", verify_candidate.py:9-14).
PublicationsChain ==
    \A i \in DOMAIN main :
        main[i].published =>
            /\ i > 1
            /\ [snapshot |-> main[i].snapshot, code |-> main[i].code,
                parent |-> main[i - 1].snapshot] \in pedigree
            /\ \A j \in 1..(i - 1) : main[j].snapshot # main[i].snapshot
=============================================================================
