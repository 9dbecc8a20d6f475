------------------------------ MODULE ReleaseRun ------------------------------
(***************************************************************************)
(* Release runs of the same branch on CI.  A run fixes its source and its   *)
(* build number (tool/release_request.py, tool/release_build_number.py),     *)
(* packages a platform, gives the packages their public names, audits them  *)
(* and uploads them to the draft of the version (tool/release_pipeline.py,   *)
(* tool/verify_linux_packages.py), and then moves the counter of the branch *)
(* beyond its number.  Meanwhile other runs do the same, people push to the *)
(* branch or rewrite it, answers of the server are lost, and failed jobs are *)
(* run again, in a fresh workspace or in the one they left.  The platform is *)
(* Linux, with a deb and an AppImage.                                       *)
(***************************************************************************)
EXTENDS Naturals, FiniteSets, SequencesExt, TLC

CONSTANTS
    Runs,
    MaxTroubles    \* the bound on what people and machines do to the runs

ASSUME ReleaseAssumption == MaxTroubles \in Nat

Targets == {"appimage", "deb"}
Attempts == 3

VARIABLES
    branch,      \* the commits of the branch, each with its counter; empty when it was deleted
    run,         \* what each run is doing, and its workspace
    draft,       \* the assets of the draft release
    rewrites, troubles

bounds == <<rewrites, troubles>>
vars == <<branch, run, draft, bounds>>

NoFile == [final |-> FALSE, content |-> "none"]
Empty == [t \in {} |-> NoFile]
NoManifest == [passed |-> FALSE, files |-> Empty]
Idle == [pc |-> "idle", source |-> 0, number |-> 0, upload |-> FALSE, dist |-> Empty, moved |-> {},
         manifest |-> NoManifest, uploaded |-> {}, attempt |-> 0, tip |-> <<>>]

Init ==
    /\ branch = <<[id |-> 1, counter |-> 1]>>
    /\ run = [r \in Runs |-> Idle]
    /\ draft = Empty
    /\ rewrites = 0 /\ troubles = 0

(* One thing more that does not go as it should. *)
Trouble == troubles < MaxTroubles /\ troubles' = troubles + 1

At(r, pc) == run[r].pc = pc
Go(r, pc) == run' = [run EXCEPT ![r].pc = pc]
(* A job begins in a workspace of its own. *)
AnewAt(r, pc) ==
    [Idle EXCEPT !.pc = pc, !.source = run[r].source, !.number = run[r].number, !.upload = run[r].upload]
Commits(b) == {b[i].id : i \in DOMAIN b}
Fresh == 1 + FoldSet(LAMBDA a, b : IF a > b THEN a ELSE b, 0,
                     Commits(branch) \cup UNION {Commits(run[r].tip) \cup {run[r].source} : r \in Runs})

(* resolve: the number asked for, or the counter of the source; never below it. *)
Resolved(counter, asked) == IF asked = 0 THEN counter ELSE asked

(* The request is dispatched on a commit; a number below the counter of that    *)
(* commit is refused.                                                       *)
Request(r) ==
    /\ At(r, "idle") /\ branch # <<>>
    /\ \E asked \in {0, 3}, upload \in BOOLEAN :
          LET counter == Last(branch).counter
              number == Resolved(counter, asked)
          IN  run' = [run EXCEPT ![r] =
                         [Idle EXCEPT !.pc = IF number < counter THEN "refused" ELSE "setup",
                                      !.source = Last(branch).id, !.number = number, !.upload = upload]]
    /\ UNCHANGED <<branch, draft, bounds>>

(* The policy of the release is read from the same commit, and may be refused. *)
Configure(r) ==
    /\ At(r, "setup") /\ (Go(r, "compose") \/ Go(r, "refused"))
    /\ UNCHANGED <<branch, draft, bounds>>

(* compose writes the defines of this run, or stops when they are of another   *)
(* brand.                                                                   *)
Compose(r) == At(r, "compose") /\ Go(r, "package") /\ UNCHANGED <<branch, draft, bounds>>

(* The distributor leaves packages in dist: a package may be missing, there     *)
(* may be one nobody asked for, and one may differ from the bundle that was *)
(* built in a native module, or hold one more.                              *)
Package(r) ==
    /\ At(r, "package") /\ run[r].dist = Empty
    /\ \E files \in {[t \in Targets |-> IF t = odd THEN c ELSE "bundle"] : odd \in Targets,
                          c \in {"bundle", "other", "more"}}
                    \cup {[t \in kinds |-> "bundle"] : kinds \in {Targets \cup {"rpm"}, {"deb"}}} :
          /\ run' = [run EXCEPT ![r].pc = "normalize",
                        ![r].dist = [t \in DOMAIN files |-> [final |-> FALSE, content |-> files[t]]]]
          /\ IF files = [t \in Targets |-> "bundle"] THEN UNCHANGED troubles ELSE Trouble
    /\ UNCHANGED <<branch, draft, rewrites>>

(* normalize invalidates the manifest, plans every rename before the first, and *)
(* wants exactly the expected packages.                                     *)
Plan(r) ==
    /\ At(r, "normalize")
    /\ run' = [run EXCEPT ![r].manifest = NoManifest, ![r].moved = {},
                          ![r].pc = IF DOMAIN run[r].dist = Targets THEN "rename" ELSE "failed"]
    /\ UNCHANGED <<branch, draft, bounds>>

Rename(r) ==
    /\ At(r, "rename")
    /\ \E t \in DOMAIN run[r].dist :
          /\ ~run[r].dist[t].final /\ (t # "deb" => run[r].dist["deb"].final)
          /\ run' = [run EXCEPT ![r].dist[t].final = TRUE, ![r].moved = @ \cup {t}]
    /\ UNCHANGED <<branch, draft, bounds>>

(* A rename that the system refuses undoes the ones before it; the renames     *)
(* back are taken to succeed.                                               *)
RollBack(r) ==
    /\ At(r, "rename") /\ \E t \in DOMAIN run[r].dist : ~run[r].dist[t].final
    /\ run' = [run EXCEPT ![r].pc = "failed", ![r].moved = {},
                          ![r].dist = [t \in DOMAIN @ |->
                              IF t \in run[r].moved THEN [@[t] EXCEPT !.final = FALSE] ELSE @[t]]]
    /\ UNCHANGED <<branch, draft, bounds>>

Record(r) ==
    /\ At(r, "rename") /\ \A t \in DOMAIN run[r].dist : run[r].dist[t].final
    /\ run' = [run EXCEPT ![r].pc = "audit", ![r].moved = {}, ![r].manifest = [passed |-> TRUE, files |-> run[r].dist]]
    /\ UNCHANGED <<branch, draft, bounds>>

(* verify_linux_packages: there is one package of each kind, every native       *)
(* module of the bundle is in it with its bytes, and a deb holds no other.  *)
Intact(t, content) == content \in {"bundle"} \cup (IF t = "appimage" THEN {"more"} ELSE {})
Audited(dist) == \A t \in Targets : t \in DOMAIN dist /\ Intact(t, dist[t].content)
Refuse(r) == run' = [run EXCEPT ![r].pc = "failed", ![r].manifest = NoManifest]
Audit(r) ==
    /\ At(r, "audit")
    /\ IF Audited(run[r].dist) THEN Go(r, "verify") ELSE Refuse(r)
    /\ UNCHANGED <<branch, draft, bounds>>

(* verified_files: the files are the ones the passed manifest recorded.        *)
FilesHold(r) == run[r].manifest.passed /\ run[r].dist = run[r].manifest.files
Checked(r, next) ==
    IF ~FilesHold(r) THEN Go(r, "failed")
    ELSE IF Audited(run[r].dist) THEN Go(r, next) ELSE Refuse(r)
Verify(r) ==
    /\ At(r, "verify")
    /\ Checked(r, IF run[r].upload THEN "publish" ELSE "built")
    /\ UNCHANGED <<branch, draft, bounds>>

(* upload looks at the files once more before gh reads them.                    *)
PublishVerified(r) == At(r, "publish") /\ Go(r, "upload") /\ UNCHANGED <<branch, draft, bounds>>
Publish(r) ==
    /\ At(r, "publish")
    /\ Checked(r, "upload")
    /\ UNCHANGED <<branch, draft, bounds>>

(* gh replaces one asset of the draft after the other; the counter is then      *)
(* moved by a job of its own.                                               *)
Upload(r) ==
    /\ At(r, "upload")
    /\ \E t \in DOMAIN run[r].dist \ run[r].uploaded :
          /\ draft' = [u \in DOMAIN draft \cup {t} |-> IF u = t THEN run[r].dist[t] ELSE draft[u]]
          /\ LET now == run[r].uploaded \cup {t}
             IN  \/ run' = [run EXCEPT ![r].uploaded = now, ![r].pc = "upload"]
                 \/ now = DOMAIN run[r].dist /\ run' = [run EXCEPT ![r] = AnewAt(r, "bump")]
    /\ UNCHANGED <<branch, bounds>>

(* publish: fetch the branch; it must still contain the source.                *)
NotBehind(counter, built) == IF counter > built THEN counter ELSE built
NextCounter(counter, built) == IF counter > built + 1 THEN counter ELSE built + 1
Fetch(r) ==
    /\ At(r, "bump")
    /\ IF branch = <<>> \/ run[r].source \notin Commits(branch) THEN Go(r, "unbumped")
       ELSE IF NextCounter(Last(branch).counter, run[r].number) = Last(branch).counter THEN Go(r, "done")
       ELSE run' = [run EXCEPT ![r].pc = "push", ![r].tip = branch, ![r].attempt = @ + 1]
    /\ UNCHANGED <<branch, draft, bounds>>

Extended(r) ==
    Append(run[r].tip, [id |-> Fresh, counter |-> NextCounter(Last(run[r].tip).counter, run[r].number)])
Again(r) == Go(r, IF run[r].attempt = Attempts THEN "unbumped" ELSE "bump")

PushForced(r) ==
    /\ At(r, "push")
    /\ \/ branch' = Extended(r) /\ (Go(r, "done") \/ Again(r))
       \/ Again(r) /\ UNCHANGED branch
    /\ UNCHANGED <<draft, bounds>>

(* The push is accepted only while the branch is what was fetched; its answer   *)
(* may be lost.                                                             *)
Push(r) ==
    /\ At(r, "push")
    /\ \/ branch = run[r].tip /\ branch' = Extended(r) /\ (Go(r, "done") \/ Again(r))
       \/ Again(r) /\ UNCHANGED branch
    /\ UNCHANGED <<draft, bounds>>

(* A program of the job fails, or is cancelled, or its runner is lost: between  *)
(* two renames, or with everything uploaded.                                *)
JobFails(r) ==
    /\ run[r].pc \in {"compose", "package", "normalize", "rename", "audit", "verify", "publish", "upload"}
    /\ Go(r, "failed")
    /\ UNCHANGED <<branch, draft, bounds>>
BumpFails(r) ==
    /\ run[r].pc \in {"bump", "push"} /\ Go(r, "unbumped")
    /\ UNCHANGED <<branch, draft, bounds>>

(* Failed jobs are run again, in a fresh workspace, for the same source and     *)
(* number.                                                                  *)
Rerun(r) ==
    /\ Trouble
    /\ run[r].pc \in {"failed", "unbumped"}
    /\ run' = [run EXCEPT ![r] = AnewAt(r, IF At(r, "failed") THEN "compose" ELSE "bump")]
    /\ UNCHANGED <<branch, draft, rewrites>>

(* Or one of the actions of the pipeline is run once more on what the job left: *)
(* names that are final already are accepted.                               *)
Resume(r) ==
    /\ Trouble
    /\ At(r, "failed")
    /\ \E pc \in {"normalize", "verify"} \cup (IF run[r].upload THEN {"publish"} ELSE {}) :
          run' = [run EXCEPT ![r].pc = pc, ![r].uploaded = {}]
    /\ UNCHANGED <<branch, draft, rewrites>>

(* Something changes a package between two steps of the job.                   *)
Damage(r) ==
    /\ Trouble
    /\ run[r].pc \in {"audit", "verify", "publish", "failed"}
    /\ \E t \in DOMAIN run[r].dist : run' = [run EXCEPT ![r].dist[t].content = "other"]
    /\ UNCHANGED <<branch, draft, rewrites>>

(* People push to the branch, and may set the counter further.                  *)
PushOther ==
    /\ Trouble
    /\ branch # <<>>
    /\ \E more \in {0, 2} :
          branch' = Append(branch, [id |-> Fresh, counter |-> Last(branch).counter + more])
    /\ UNCHANGED <<run, draft, rewrites>>

(* Somebody deletes the branch, rewrites it, or sets the counter back.         *)
Rewrite ==
    /\ Trouble /\ rewrites' = rewrites + 1
    /\ branch # <<>>
    /\ branch' \in {<<>>, Append(Front(branch), [id |-> Fresh, counter |-> 1]),
                     Append(branch, [id |-> Fresh, counter |-> 1])}
    /\ UNCHANGED <<run, draft>>

Step(r) ==
    \/ Request(r) \/ Configure(r) \/ Compose(r) \/ Package(r) \/ Plan(r) \/ Rename(r) \/ RollBack(r)
    \/ Record(r) \/ Audit(r) \/ Verify(r) \/ Publish(r) \/ Upload(r) \/ Fetch(r) \/ Push(r)
    \/ JobFails(r) \/ BumpFails(r) \/ Rerun(r) \/ Resume(r) \/ Damage(r)

Next == (\E r \in Runs : Step(r)) \/ PushOther \/ Rewrite

(* Nothing tells one run from another. *)
InterchangeableRuns == Permutations(Runs)

Spec == Init /\ [][Next]_vars
-----------------------------------------------------------------------------
(* A run only ever adds commits to the branch: whatever others did between its  *)
(* fetch and its push, nothing they pushed disappears and a deleted branch  *)
(* does not come back (the lease of publish).                               *)
BranchOnlyGrows ==
    [][branch' = branch \/ (branch # <<>> /\ IsPrefix(branch, branch')) \/ rewrites' # rewrites]_vars

(* Once a run is done the counter is beyond its number, and no later run,      *)
(* with whichever number, takes it back (next_counter).                     *)
NumberIsConsumed ==
    \A r \in Runs : At(r, "done") /\ rewrites = 0 => Last(branch).counter > run[r].number

(* Every asset of the draft has its public name and holds every native module   *)
(* of the bundle with its bytes, and a deb no other, though jobs stop       *)
(* between two renames or with a manifest nobody has audited, their         *)
(* workspace is used again, packages are changed between the steps, and     *)
(* uploads of several runs overlap (verified_files, verify_linux_packages). *)
AssetsAreAudited ==
    \A t \in DOMAIN draft : t \in Targets /\ draft[t].final /\ Intact(t, draft[t].content)
================================================================================
