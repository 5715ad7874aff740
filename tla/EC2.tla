--------------------------------- MODULE EC2 ---------------------------------
(***************************************************************************)
(* The actions of the aws plugin that change a fleet (plugins/aws/ec2):    *)
(* aws:ec2:ami:create and :cleanup, aws:ec2:asg:refresh and :rollback.     *)
(* Every operator process runs one action against one Auto Scaling group,  *)
(* its launch template and the images of one name prefix; AWS bakes images *)
(* and refreshes the group meanwhile.  Nothing locks these resources.      *)
(*                                                                         *)
(* External: AWS itself.  Abstracted: names, tags and preferences; which   *)
(* instance is imaged (finding none is an error of the first call).        *)
(***************************************************************************)
EXTENDS Integers, Sequences, SequencesExt

CONSTANTS
    Creators,       \* processes that run aws:ec2:ami:create
    Waits,          \* creators whose `wait` is true
    Patchers,       \* creators with a launch_template
    Cleaners,       \* processes that run aws:ec2:ami:cleanup
    Refreshers,     \* processes that run aws:ec2:asg:refresh
    Rollbackers,    \* processes that run aws:ec2:asg:rollback
    SetsDefault,    \* rollbackers whose set_default is true
    Tracks,         \* the version the group launches: "default" or "latest"
    KeepLast,       \* keep_last as written; less than 1 means 3
    InitialImages,  \* images there are, each behind a version, the last one live
    Faults          \* see FaultKinds

\* error: a call fails without effect, as all calls and waits do after Ctrl-C.  lost: a
\* call takes effect and its answer does not come, or carries no version.  broken: an
\* image or a refresh fails.
FaultKinds == {"error", "lost", "broken"}

Procs == Creators \cup Cleaners \cup Refreshers \cup Rollbackers

ASSUME EC2Assumption ==
    /\ Waits \subseteq Creators /\ Patchers \subseteq Creators
    /\ SetsDefault \subseteq Rollbackers
    /\ Rollbackers \cap (Creators \cup Cleaners \cup Refreshers) = {}
    /\ Tracks \in {"default", "latest"}
    /\ KeepLast \in Int /\ InitialImages \in Nat \ {0}
    /\ Faults \subseteq FaultKinds

VARIABLES
    images,     \* the state of every image made, oldest first
    snaps,      \* the images whose snapshots exist
    versions,   \* the image of every version of the launch template
    default,    \* the version that is its $Default
    refreshes,  \* the instance refreshes of the group, the last one most recent
    proc        \* proc[p]: where process p is in its action

vars == <<images, snaps, versions, default, refreshes, proc>>
aws == <<images, snaps, versions, default, refreshes>>

Terminal == {"Successful", "Failed", "Cancelled"}

\* image, version, refresh: what the process made.  old: the images left to prune.
Begun == [pc |-> "start", image |-> 0, version |-> 0, refresh |-> 0, old |-> {},
          retried |-> FALSE, result |-> "none"]

Init ==
    /\ images = [i \in 1..InitialImages |-> "available"]
    /\ snaps = 1..InitialImages
    /\ versions = [i \in 1..InitialImages |-> i]
    /\ default = InitialImages
    /\ refreshes = <<>>
    /\ proc = [p \in Procs |-> Begun]

-----------------------------------------------------------------------------
(* What a call and an action may come to.                                  *)

At(p, s) == proc[p].pc = s

Goto(p, s) == proc' = [proc EXCEPT ![p].pc = s]

Over(p, r) ==
    proc' = [proc EXCEPT ![p] = [Begun EXCEPT !.pc = "over", !.result = r, !.refresh = proc[p].refresh]]

CallFails == "error" \in Faults

\* Any call, and any wait between two polls, of the actions that end with an error.
CallError(p) ==
    /\ CallFails
    /\ ~At(p, "over") /\ ~At(p, "prune") /\ ~At(p, "snapshot")
    /\ Over(p, "error")
    /\ UNCHANGED aws

\* The alternative of a call whose effect was applied and whose answer was not understood.
Lost(p) == "lost" \in Faults /\ Over(p, "error")

-----------------------------------------------------------------------------
(* aws:ec2:ami:create.                                                     *)

\* Mutant: the image is waited for only when `wait` says so.
MustWaitFlag(p) == p \in Waits

\* Patching forces the wait.
MustWait(p) == p \in Waits \/ p \in Patchers

Baked(p, i) ==
    IF p \in Patchers THEN proc' = [proc EXCEPT ![p].image = i, ![p].pc = "patch"]
    ELSE Over(p, "ok")

CreateImage(p) ==
    /\ p \in Creators /\ At(p, "start")
    /\ images' = Append(images, "pending")
    /\ snaps' = snaps \cup {Len(images')}
    /\ \/ MustWait(p) /\ proc' = [proc EXCEPT ![p].image = Len(images'), ![p].pc = "bake"]
       \/ ~MustWait(p) /\ Baked(p, Len(images'))
       \/ Lost(p)
    /\ UNCHANGED <<versions, default, refreshes>>

\* waitForImage's poll; that a new image is not visible at first only prolongs it.
PollImage(p) ==
    /\ At(p, "bake")
    /\ \/ /\ images[proc[p].image] = "available"
          /\ Baked(p, proc[p].image)
       \/ /\ images[proc[p].image] \in {"failed", "gone"}
          /\ Over(p, "error")
    /\ UNCHANGED aws

\* amiMaxWait is over, or the context done.
WaitStops(p) ==
    /\ At(p, "bake")
    /\ Over(p, "error")
    /\ UNCHANGED aws

\* patchLaunchTemplate, first half: a version cloned from $Default with the new image.
PatchTemplate(p) ==
    /\ At(p, "patch")
    /\ versions' = Append(versions, proc[p].image)
    /\ \/ proc' = [proc EXCEPT ![p].version = Len(versions'), ![p].pc = "default"]
       \/ Lost(p)
    /\ UNCHANGED <<images, snaps, default, refreshes>>

\* ModifyLaunchTemplate, of create and of rollback.
SetDefault(p) ==
    /\ At(p, "default")
    /\ default' = proc[p].version
    /\ \/ IF p \in Rollbackers THEN Goto(p, "refresh") ELSE Over(p, "ok")
       \/ Lost(p)
    /\ UNCHANGED <<images, snaps, versions, refreshes>>

-----------------------------------------------------------------------------
(* aws:ec2:ami:cleanup.                                                    *)

Keep == IF KeepLast < 1 THEN 3 ELSE KeepLast

\* The images DescribeImages still lists.
Candidates == {i \in DOMAIN images : images[i] # "gone"}

\* Mutant: one image too many.
OldByOne(s) == {i \in s : Cardinality({j \in s : j > i}) >= Keep - 1}

\* images[keep:], newest first: what has `keep` newer ones.
Old(s) == {i \in s : Cardinality({j \in s : j > i}) >= Keep}

ListImages(p) ==
    /\ p \in Cleaners /\ At(p, "start")
    /\ proc' = [proc EXCEPT ![p].old = Old(Candidates), ![p].pc = "prune"]
    /\ UNCHANGED aws

\* The image whose turn it is: newest first.
Turn(p) == {i \in proc[p].old : \A j \in proc[p].old : j <= i}

Skipping(p, i) == [proc EXCEPT ![p].pc = "prune", ![p].old = @ \ {i}]

\* An image that cannot be deregistered is skipped with its snapshots.
Deregister(p) ==
    /\ At(p, "prune")
    /\ \E i \in Turn(p) :
       \/ /\ images[i] # "gone"
          /\ images' = [images EXCEPT ![i] = "gone"]
          /\ \/ Goto(p, "snapshot")
             \/ "lost" \in Faults /\ proc' = Skipping(p, i)
          /\ UNCHANGED <<snaps, versions, default, refreshes>>
       \/ /\ CallFails \/ images[i] = "gone"
          /\ proc' = Skipping(p, i)
          /\ UNCHANGED aws

DeleteSnapshots(p) ==
    /\ At(p, "snapshot")
    /\ \E i \in Turn(p) :
       /\ snaps' = snaps \ {i} \/ (CallFails /\ UNCHANGED snaps)
       /\ proc' = Skipping(p, i)
    /\ UNCHANGED <<images, versions, default, refreshes>>

\* Failures of single images were only warned of.
CleanupEnds(p) ==
    /\ At(p, "prune") /\ proc[p].old = {}
    /\ Over(p, "ok")
    /\ UNCHANGED aws

-----------------------------------------------------------------------------
(* aws:ec2:asg:rollback and :refresh.                                      *)

\* rollbackLaunchTemplateID, previousLTVersion and the copy: the second-highest
\* version, as listed.
CopyPrevious(p) ==
    /\ At(p, "copy")
    /\ versions' = Append(versions, versions[proc[p].version])
    /\ \/ proc' = [proc EXCEPT ![p].version = Len(versions'),
                      ![p].pc = IF p \in SetsDefault THEN "default" ELSE "refresh"]
       \/ Lost(p)
    /\ UNCHANGED <<images, snaps, default, refreshes>>

ListVersions(p) ==
    /\ p \in Rollbackers /\ At(p, "start")
    /\ IF Len(versions) < 2 THEN Over(p, "error")
       ELSE proc' = [proc EXCEPT ![p].version = Len(versions) - 1, ![p].pc = "copy"]
    /\ UNCHANGED aws

Resolved == versions[IF Tracks = "default" THEN default ELSE Len(versions)]

Active == refreshes # <<>> /\ Last(refreshes).status \notin Terminal

\* Mutant: a rollback too is content with the refresh that is under way.
InProgressSkipped(p) == Over(p, "skipped") /\ UNCHANGED aws

\* A refresh in progress is left alone by refresh; rollback cancels it, once.
InProgress(p) ==
    /\ IF p \in Refreshers THEN Over(p, "skipped")
       ELSE IF proc[p].retried THEN Over(p, "error")
       ELSE Goto(p, "cancel")
    /\ UNCHANGED aws

\* startAndWait.
StartRefresh(p) ==
    /\ At(p, "refresh") \/ (p \in Refreshers /\ At(p, "start"))
    /\ \/ Active /\ InProgress(p)
       \/ /\ ~Active
          /\ refreshes' = Append(refreshes, [image |-> Resolved, status |-> "InProgress"])
          /\ \/ proc' = [proc EXCEPT ![p].refresh = Len(refreshes'), ![p].pc = "await"]
             \/ Lost(p)
          /\ UNCHANGED <<images, snaps, versions, default>>

\* cancelActiveRefresh, the call: the refresh may have ended since.
CancelRefresh(p) ==
    /\ At(p, "cancel")
    /\ \/ /\ Active
          /\ refreshes' = [refreshes EXCEPT ![Len(refreshes)].status = "Cancelling"]
          /\ Goto(p, "settle") \/ Lost(p)
          /\ UNCHANGED <<images, snaps, versions, default>>
       \/ /\ ~Active
          /\ proc' = [proc EXCEPT ![p].pc = "refresh", ![p].retried = TRUE]
          /\ UNCHANGED aws

\* Its wait: for the most recent refresh of the group, whoever started it.
Settle(p) ==
    /\ At(p, "settle")
    /\ ~Active
    /\ proc' = [proc EXCEPT ![p].pc = "refresh", ![p].retried = TRUE]
    /\ UNCHANGED aws

\* Mutant: a refresh that somebody cancelled is waited for on and on.
AwaitUncancelled(p) ==
    /\ At(p, "await")
    /\ refreshes[proc[p].refresh].status \in Terminal \ {"Cancelled"}
    /\ Over(p, IF refreshes[proc[p].refresh].status = "Successful" THEN "ok" ELSE "error")
    /\ UNCHANGED aws

\* waitForRefresh, without a limit of its own.
Await(p) ==
    /\ At(p, "await")
    /\ refreshes[proc[p].refresh].status \in Terminal
    /\ Over(p, IF refreshes[proc[p].refresh].status = "Successful" THEN "ok" ELSE "error")
    /\ UNCHANGED aws

-----------------------------------------------------------------------------
(* AWS.                                                                    *)

Bake(i) ==
    /\ i \in DOMAIN images /\ images[i] = "pending"
    /\ \/ images' = [images EXCEPT ![i] = "available"]
       \/ "broken" \in Faults /\ images' = [images EXCEPT ![i] = "failed"]
    /\ UNCHANGED <<snaps, versions, default, refreshes, proc>>

\* Only an image that is there launches.
RefreshEnds ==
    /\ Active
    /\ \E s \in Terminal :
        /\ s = "Cancelled" <=> Last(refreshes).status = "Cancelling"
        /\ s = "Successful" => images[Last(refreshes).image] = "available"
        /\ s = "Failed" => "broken" \in Faults \/ images[Last(refreshes).image] # "available"
        /\ refreshes' = [refreshes EXCEPT ![Len(refreshes)].status = s]
    /\ UNCHANGED <<images, snaps, versions, default, proc>>

Step(p) ==
    \/ CreateImage(p) \/ PollImage(p) \/ WaitStops(p) \/ PatchTemplate(p) \/ SetDefault(p)
    \/ ListImages(p) \/ Deregister(p) \/ DeleteSnapshots(p) \/ CleanupEnds(p)
    \/ ListVersions(p) \/ CopyPrevious(p)
    \/ StartRefresh(p) \/ CancelRefresh(p) \/ Settle(p) \/ Await(p)

Next ==
    \/ \E p \in Procs : Step(p) \/ CallError(p)
    \/ \E i \in DOMAIN images : Bake(i)
    \/ RefreshEnds

Spec == Init /\ [][Next]_vars

\* Polls go on, and AWS takes every refresh to an end; an image may stay pending, and no
\* call has to fail.
FairSpec == Spec /\ (\A p \in Procs : WF_vars(Step(p))) /\ WF_vars(RefreshEnds)

-----------------------------------------------------------------------------
(* Properties.                                                             *)

TypeOK ==
    /\ images \in Seq({"pending", "available", "failed", "gone"})
    /\ snaps \subseteq DOMAIN images
    /\ versions \in Seq(DOMAIN images) /\ default \in DOMAIN versions
    /\ refreshes \in Seq([image : DOMAIN images, status : Terminal \cup {"InProgress", "Cancelling"}])
    /\ \A p \in Procs :
        /\ proc[p].old \subseteq DOMAIN images
        /\ At(p, "bake") \/ At(p, "patch") => proc[p].image \in DOMAIN images
        /\ At(p, "copy") \/ At(p, "default") => proc[p].version \in DOMAIN versions
        /\ At(p, "await") => proc[p].refresh \in DOMAIN refreshes

\* No version of the launch template ever holds an image that is still pending or
\* failed (ami.go:175-188), whatever `wait` says and however long the bake takes.
NeverPending == \A v \in DOMAIN versions : images[versions[v]] \notin {"pending", "failed"}

\* If keep_last exceeds the creators, one image each, by two, no cleanup deregisters the
\* image the template's default launches (ami.go:423-506), though it counts images and
\* never asks the template, and a rollback makes an older one live.
LiveImageKept == images[versions[default]] # "gone"

\* A rollback succeeds only on a refresh of its own, started once the copy was made and
\* ended well (asg.go:162-229): never on the strength of the one that was under way.
RollbackRefreshed ==
    \A p \in Rollbackers :
        At(p, "over") /\ proc[p].result # "error" =>
            /\ proc[p].refresh # 0
            /\ refreshes[proc[p].refresh].status = "Successful"

\* Every action ends (asg.go:325-373, ami.go:194-262), though images stay pending and
\* refreshes of others come in between.
ActionsEnd == \A p \in Procs : <>At(p, "over")

=============================================================================
