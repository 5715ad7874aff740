------------------------------ MODULE EC2Proofs ------------------------------
(***************************************************************************)
(* The template never holds an image that is not finished, a rollback ends *)
(* well on its own refresh only, and no cleanup takes the live image if    *)
(* keep_last leaves room for the creators.                                 *)
(*                                                                         *)
(* Every step is shown to keep a promise in two halves: what it may do to  *)
(* the fleet (Grows for images and versions, Lasts for refreshes, Leaves   *)
(* for what is recent), and where the process that takes it goes (Moves,   *)
(* Held, Spares).  Each invariant is kept by every step that keeps its     *)
(* promise.                                                                *)
(***************************************************************************)
EXTENDS EC2, FiniteSetTheorems, TLAPS

States == {"pending", "available", "failed", "gone"}

Good(s) == s \in {"available", "gone"}

\* What is used of the shape of a process; the rest of its state does not matter here.
Shape(p) == {"pc", "image", "version"} \subseteq DOMAIN proc[p]

\* Every version holds an image that was finished.
Backed == \A v \in DOMAIN versions : versions[v] \in DOMAIN images /\ Good(images[versions[v]])

\* What a process relies on between two of its calls: the image it patches with is
\* finished, the version it copies is there.
Sound(p) ==
    /\ proc[p].pc \in {"bake", "patch"} => proc[p].image \in DOMAIN images
    /\ proc[p].pc = "patch" => Good(images[proc[p].image])
    /\ proc[p].pc = "copy" => proc[p].version \in DOMAIN versions

BackedInv ==
    /\ images \in Seq(States) /\ versions \in Seq(Nat)
    /\ Backed
    /\ DOMAIN proc = Procs
    /\ \A p \in Procs : Shape(p) /\ Sound(p)

\* Images are only added and stay finished; versions are only added, and hold finished
\* images.
Grows ==
    /\ images' \in Seq(States) /\ versions' \in Seq(Nat)
    /\ \A i \in DOMAIN images : i \in DOMAIN images' /\ (Good(images[i]) => Good(images'[i]))
    /\ \A v \in DOMAIN versions : v \in DOMAIN versions'
    /\ Backed'

\* One process moves, to a state it may be in.
Moves(p) ==
    /\ DOMAIN proc' = DOMAIN proc
    /\ \A q \in Procs \ {p} : proc'[q] = proc[q]
    /\ Shape(p)' /\ Sound(p)'

-----------------------------------------------------------------------------
\* Every image there is at first is available, and behind one version.
LEMMA InitBacked == Init => BackedInv
<1> SUFFICES ASSUME Init PROVE BackedInv
  OBVIOUS
<1>1. images \in Seq(States) /\ versions \in Seq(Nat)
  BY EC2Assumption DEF Init, States
<1>2. DOMAIN proc = Procs /\ \A p \in Procs : Shape(p)
  BY DEF Init, Shape, Begun
<1>3. Backed
  BY EC2Assumption DEF Init, Backed, Good
<1>4. \A p \in Procs : Sound(p)
  BY DEF Init, Sound, Begun
<1> QED BY <1>1, <1>2, <1>3, <1>4 DEF BackedInv

\* The invariant rests on the promise alone.
LEMMA PromiseKeeps ==
    ASSUME BackedInv, Grows, proc' = proc \/ \E p \in Procs : Moves(p)
    PROVE  BackedInv'
<1>1. ASSUME NEW q \in Procs, proc'[q] = proc[q] PROVE Shape(q)' /\ Sound(q)'
  BY <1>1 DEF BackedInv, Grows, Shape, Sound
<1>2. DOMAIN proc' = Procs /\ \A q \in Procs : Shape(q)' /\ Sound(q)'
  <2>1. CASE proc' = proc
    BY <1>1, <2>1 DEF BackedInv
  <2>2. ASSUME NEW p \in Procs, Moves(p)
        PROVE  DOMAIN proc' = Procs /\ \A q \in Procs : Shape(q)' /\ Sound(q)'
    BY <1>1, <2>2 DEF Moves, BackedInv
  <2> QED BY <2>1, <2>2
<1> QED BY <1>2 DEF BackedInv, Grows

\* A step that leaves images and versions alone keeps the first half of the promise.
LEMMA Unmoved == ASSUME BackedInv, UNCHANGED <<images, versions>> PROVE Grows
BY DEF BackedInv, Grows, Backed

\* An image that changes its state and was not finished, or is finished now, does too.
LEMMA Changed ==
    ASSUME BackedInv, NEW i, NEW s \in States, i \in DOMAIN images,
           images' = [images EXCEPT ![i] = s], versions' = versions,
           Good(s) \/ ~Good(images[i])
    PROVE  Grows
<1>1. images' \in Seq(States)
  BY DEF BackedInv
<1>2. DOMAIN images' = DOMAIN images /\ \A j \in DOMAIN images : Good(images[j]) => Good(images'[j])
  BY DEF BackedInv
<1> QED BY <1>1, <1>2 DEF BackedInv, Grows, Backed

\* And so does a new version with a finished image.
LEMMA NewVersion ==
    ASSUME BackedInv, NEW i \in DOMAIN images, Good(images[i]),
           images' = images, versions' = Append(versions, i)
    PROVE  Grows
<1>1. i \in Nat
  BY DEF BackedInv
<1>2. versions' \in Seq(Nat) /\ DOMAIN versions' = 1..(Len(versions) + 1)
      /\ DOMAIN versions = 1..Len(versions) /\ Len(versions) \in Nat
  BY <1>1 DEF BackedInv
<1>3. \A v \in DOMAIN versions' : \/ v \in DOMAIN versions /\ versions'[v] = versions[v]
                                \/ versions'[v] = i
  BY <1>1, <1>2 DEF BackedInv
<1> QED BY <1>2, <1>3 DEF BackedInv, Grows, Backed

\* A process ends, whatever it was doing.
LEMMA OverMoves ==
    ASSUME BackedInv, NEW p \in Procs, NEW r, Over(p, r)
    PROVE  Moves(p)
<1>1. proc'[p].pc = "over" /\ Shape(p)'
  BY DEF BackedInv, Over, Begun, Shape
<1>2. Sound(p)'
  BY <1>1 DEF Sound
<1> QED BY <1>1, <1>2 DEF Moves, Over

-----------------------------------------------------------------------------
(* The actions of a process.                                               *)

\* A new image is pending; its creator waits for it, patches with it only when nothing
\* is to be waited for (which patching rules out), or is done.
LEMMA CreateKeeps ==
    ASSUME BackedInv, NEW p \in Procs, CreateImage(p)
    PROVE  Grows /\ Moves(p)
<1> DEFINE i == Len(images')
<1>1. /\ images' \in Seq(States) /\ i = Len(images) + 1 /\ i \in DOMAIN images'
      /\ \A j \in DOMAIN images : j \in DOMAIN images' /\ images'[j] = images[j]
  <2>1. images' = Append(images, "pending") /\ images \in Seq(States) /\ "pending" \in States
    BY DEF CreateImage, BackedInv, States
  <2> QED BY <2>1
<1>2. Grows
  BY <1>1 DEF CreateImage, BackedInv, Grows, Backed
<1>3. CASE MustWait(p) /\ proc' = [proc EXCEPT ![p].image = i, ![p].pc = "bake"]
  <2>1. proc'[p].pc = "bake" /\ proc'[p].image = i /\ Shape(p)'
    BY <1>3 DEF BackedInv, Shape
  <2>2. Sound(p)'
    BY <1>1, <2>1 DEF Sound
  <2> QED BY <1>2, <1>3, <2>1, <2>2 DEF BackedInv, Moves
<1>4. CASE ~MustWait(p) /\ Baked(p, i)
  BY <1>2, <1>4, OverMoves DEF MustWait, Baked
<1>5. CASE Lost(p)
  BY <1>2, <1>5, OverMoves DEF Lost
<1>6. Moves(p)
  BY <1>3, <1>4, <1>5 DEF CreateImage
<1> QED BY <1>2, <1>6

\* What the poll finds available is what the template is patched with.
LEMMA PollKeeps ==
    ASSUME BackedInv, NEW p \in Procs, PollImage(p)
    PROVE  Grows /\ Moves(p)
<1>1. Grows
  BY Unmoved DEF PollImage, aws
<1>2. CASE images[proc[p].image] = "available" /\ proc' = [proc EXCEPT ![p].image = proc[p].image, ![p].pc = "patch"]
  <2>1. proc'[p].pc = "patch" /\ proc'[p].image = proc[p].image /\ Shape(p)'
    BY <1>2 DEF BackedInv, Shape
  <2>2. images' = images /\ proc[p].image \in DOMAIN images
    BY DEF PollImage, aws, At, BackedInv, Sound
  <2>3. Sound(p)'
    BY <1>2, <2>1, <2>2 DEF Sound, Good
  <2> QED BY <1>1, <1>2, <2>1, <2>3 DEF BackedInv, Moves
<1>3. ASSUME NEW r, Over(p, r) PROVE Moves(p)
  BY <1>3, OverMoves
<1> QED BY <1>1, <1>2, <1>3 DEF PollImage, Baked

\* The version a patch adds holds the image it waited for.
LEMMA PatchKeeps ==
    ASSUME BackedInv, NEW p \in Procs, PatchTemplate(p)
    PROVE  Grows /\ Moves(p)
<1>1. proc[p].image \in DOMAIN images /\ Good(images[proc[p].image])
  BY DEF BackedInv, PatchTemplate, At, Sound
<1>2. Grows
  BY <1>1, NewVersion DEF PatchTemplate
<1>3. CASE proc' = [proc EXCEPT ![p].version = Len(versions'), ![p].pc = "default"]
  <2>1. proc'[p].pc = "default" /\ Shape(p)'
    BY <1>3 DEF BackedInv, Shape
  <2> QED BY <1>2, <1>3, <2>1 DEF BackedInv, Moves, Sound
<1>4. CASE Lost(p)
  BY <1>2, <1>4, OverMoves DEF Lost
<1> QED BY <1>2, <1>3, <1>4 DEF PatchTemplate

\* A copy holds the image of the version it was made from.
LEMMA CopyKeeps ==
    ASSUME BackedInv, NEW p \in Procs, CopyPrevious(p)
    PROVE  Grows /\ Moves(p)
<1>1. proc[p].version \in DOMAIN versions
  BY DEF BackedInv, CopyPrevious, At, Sound
<1>2. versions[proc[p].version] \in DOMAIN images /\ Good(images[versions[proc[p].version]])
  BY <1>1 DEF BackedInv, Backed
<1>3. Grows
  BY <1>2, NewVersion DEF CopyPrevious
<1>4. CASE proc' = [proc EXCEPT ![p].version = Len(versions'),
                       ![p].pc = IF p \in SetsDefault THEN "default" ELSE "refresh"]
  <2>1. proc'[p].pc \in {"default", "refresh"} /\ Shape(p)'
    BY <1>4 DEF BackedInv, Shape
  <2> QED BY <1>3, <1>4, <2>1 DEF BackedInv, Moves, Sound
<1>5. CASE Lost(p)
  BY <1>3, <1>5, OverMoves DEF Lost
<1> QED BY <1>3, <1>4, <1>5 DEF CopyPrevious

\* The second-highest version is there when there are two.
LEMMA ListVersionsKeeps ==
    ASSUME BackedInv, NEW p \in Procs, ListVersions(p)
    PROVE  Grows /\ Moves(p)
<1>1. Grows
  BY Unmoved DEF ListVersions, aws
<1>2. CASE Len(versions) < 2
  BY <1>1, <1>2, OverMoves DEF ListVersions
<1>3. CASE ~(Len(versions) < 2)
  <2>1. proc' = [proc EXCEPT ![p].version = Len(versions) - 1, ![p].pc = "copy"] /\ versions' = versions
    BY <1>3 DEF ListVersions, aws
  <2>2. proc'[p].pc = "copy" /\ proc'[p].version = Len(versions) - 1 /\ Shape(p)'
    BY <2>1 DEF BackedInv, Shape
  <2>3. Len(versions) - 1 \in DOMAIN versions
    BY <1>3 DEF BackedInv
  <2> QED BY <1>1, <2>1, <2>2, <2>3 DEF BackedInv, Moves, Sound
<1> QED BY <1>1, <1>2, <1>3

\* A process that changes its place only, to one that relies on nothing.
LEMMA PlaceMoves ==
    ASSUME BackedInv, NEW p \in Procs, NEW s, s \notin {"bake", "patch", "copy"},
           DOMAIN proc' = DOMAIN proc, \A q \in Procs \ {p} : proc'[q] = proc[q],
           proc'[p].pc = s, Shape(p)'
    PROVE  Moves(p)
BY DEF Moves, Sound

\* Setting the default adds nothing, and its process goes on to a refresh or ends.
LEMMA SetDefaultKeeps ==
    ASSUME BackedInv, NEW p \in Procs, SetDefault(p)
    PROVE  Grows /\ Moves(p)
<1>1. Grows
  BY Unmoved DEF SetDefault
<1>2. CASE Goto(p, "refresh")
  <2>1. proc'[p].pc = "refresh" /\ Shape(p)'
    BY <1>2 DEF Goto, BackedInv, Shape
  <2> QED BY <1>1, <1>2, <2>1, PlaceMoves DEF Goto
<1>3. ASSUME NEW r, Over(p, r) PROVE Moves(p)
  BY <1>3, OverMoves
<1> QED BY <1>1, <1>2, <1>3 DEF SetDefault, Lost

\* A cleanup takes images away and adds none.
LEMMA DeregisterKeeps ==
    ASSUME BackedInv, NEW p \in Procs, Deregister(p)
    PROVE  Grows /\ Moves(p)
<1>1. ASSUME NEW i, images' = [images EXCEPT ![i] = "gone"], versions' = versions PROVE Grows
  <2>1. CASE i \in DOMAIN images
    BY <1>1, <2>1, Changed DEF Good, States
  <2>2. CASE i \notin DOMAIN images
    <3>1. images' = images
      BY <1>1, <2>2 DEF BackedInv
    <3> QED BY <1>1, <3>1, Unmoved
  <2> QED BY <2>1, <2>2
<1>2. Grows
  BY <1>1, Unmoved DEF Deregister, aws
<1>3. ASSUME NEW i, proc' = Skipping(p, i) PROVE Moves(p)
  <2>1. proc'[p].pc = "prune" /\ Shape(p)'
    BY <1>3 DEF Skipping, BackedInv, Shape
  <2> QED BY <1>2, <1>3, <2>1, PlaceMoves DEF BackedInv, Skipping
<1>4. CASE Goto(p, "snapshot")
  <2>1. proc'[p].pc = "snapshot" /\ Shape(p)'
    BY <1>4 DEF Goto, BackedInv, Shape
  <2> QED BY <1>2, <1>4, <2>1, PlaceMoves DEF Goto
<1> QED BY <1>2, <1>3, <1>4 DEF Deregister

\* The other actions of a process, and a call that fails, leave images and versions
\* alone, and go nowhere that relies on anything.
LEMMA QuietKeeps ==
    ASSUME BackedInv, NEW p \in Procs,
           \/ WaitStops(p) \/ ListImages(p) \/ DeleteSnapshots(p) \/ CleanupEnds(p)
           \/ StartRefresh(p) \/ CancelRefresh(p) \/ Settle(p) \/ Await(p) \/ CallError(p)
    PROVE  Grows /\ Moves(p)
<1>1. Grows
  BY Unmoved DEF WaitStops, ListImages, DeleteSnapshots, CleanupEnds, StartRefresh, InProgress,
                 CancelRefresh, Settle, Await, CallError, aws
<1>2. ASSUME NEW r, Over(p, r) PROVE Moves(p)
  BY <1>2, OverMoves
<1>3. ASSUME NEW s, Goto(p, s), s \notin {"bake", "patch", "copy"} PROVE Moves(p)
  <2>1. proc'[p].pc = s /\ Shape(p)'
    BY <1>3 DEF Goto, BackedInv, Shape
  <2> QED BY <1>3, <2>1, PlaceMoves DEF Goto
<1>4. ASSUME NEW i, proc' = Skipping(p, i) PROVE Moves(p)
  <2>1. proc'[p].pc = "prune" /\ Shape(p)'
    BY <1>4 DEF Skipping, BackedInv, Shape
  <2> QED BY <1>1, <1>4, <2>1, PlaceMoves DEF BackedInv, Skipping
<1>5. CASE WaitStops(p) \/ CleanupEnds(p) \/ Await(p) \/ CallError(p)
  BY <1>1, <1>2, <1>5 DEF WaitStops, CleanupEnds, Await, CallError
<1>6. CASE ListImages(p)
  <2>1. proc'[p].pc = "prune" /\ Shape(p)'
    BY <1>6 DEF ListImages, BackedInv, Shape
  <2> QED BY <1>1, <1>6, <2>1, PlaceMoves DEF BackedInv, ListImages
<1>7. CASE DeleteSnapshots(p)
  BY <1>1, <1>4, <1>7 DEF DeleteSnapshots
<1>8. ASSUME proc' = [proc EXCEPT ![p].pc = "refresh", ![p].retried = TRUE] PROVE Moves(p)
  <2>1. proc'[p].pc = "refresh" /\ Shape(p)'
    BY <1>8 DEF BackedInv, Shape
  <2> QED BY <1>1, <1>8, <2>1, PlaceMoves DEF BackedInv
<1>9. CASE CancelRefresh(p) \/ Settle(p)
  BY <1>1, <1>2, <1>3, <1>8, <1>9 DEF CancelRefresh, Settle, Lost
<1>10. CASE StartRefresh(p)
  <2>1. CASE Active /\ InProgress(p)
    BY <1>1, <1>2, <1>3, <2>1 DEF InProgress
  <2>2. CASE proc' = [proc EXCEPT ![p].refresh = Len(refreshes'), ![p].pc = "await"]
    <3>1. proc'[p].pc = "await" /\ Shape(p)'
      BY <2>2 DEF BackedInv, Shape
    <3> QED BY <1>1, <2>2, <3>1, PlaceMoves DEF BackedInv
  <2>3. CASE Lost(p)
    BY <1>1, <1>2, <2>3 DEF Lost
  <2> QED BY <1>10, <2>1, <2>2, <2>3 DEF StartRefresh
<1> QED BY <1>1, <1>5, <1>6, <1>7, <1>9, <1>10

-----------------------------------------------------------------------------
\* Every step of every process, and of AWS, keeps the promise.
LEMMA StepKeeps == BackedInv /\ [Next]_vars => BackedInv'
<1> SUFFICES ASSUME BackedInv, [Next]_vars PROVE BackedInv'
  OBVIOUS
<1>1. ASSUME NEW p \in Procs, Step(p) \/ CallError(p) PROVE BackedInv'
  <2>1. Grows /\ Moves(p)
    BY <1>1, CreateKeeps, PollKeeps, PatchKeeps, CopyKeeps, ListVersionsKeeps, SetDefaultKeeps,
       DeregisterKeeps, QuietKeeps DEF Step
  <2> QED BY <2>1, PromiseKeeps
<1>2. ASSUME NEW i \in DOMAIN images, Bake(i) PROVE BackedInv'
  <2>1. Grows
    BY <1>2, Changed DEF Bake, States, Good
  <2> QED BY <1>2, <2>1, PromiseKeeps DEF Bake
<1>3. CASE RefreshEnds
  BY <1>3, Unmoved, PromiseKeeps DEF RefreshEnds
<1>4. CASE UNCHANGED vars
  BY <1>4, Unmoved, PromiseKeeps DEF vars
<1> QED BY <1>1, <1>2, <1>3, <1>4 DEF Next

\* No version of the launch template ever holds an image that is still pending or
\* failed, for any number of operators, images and faults (ami.go:175-188).
THEOREM PatchesAvailable == Spec => []NeverPending
<1>1. BackedInv => NeverPending
  BY DEF BackedInv, Backed, NeverPending, Good
<1> QED BY <1>1, InitBacked, StepKeeps, PTL DEF Spec

-----------------------------------------------------------------------------
(* The whole fleet: types, and the refresh a rollback rests on.            *)

Statuses == Terminal \cup {"InProgress", "Cancelling"}

AllFields == {"pc", "image", "version", "refresh", "old", "retried", "result"}

\* The template's default is one of its versions; refreshes launch images there are.
Fleet ==
    /\ snaps \subseteq DOMAIN images
    /\ default \in DOMAIN versions
    /\ refreshes \in Seq([image : Nat, status : Statuses])
    /\ \A k \in DOMAIN refreshes : refreshes[k].image \in DOMAIN images

\* That refresh is one of the group's and ended well.
Successful(k) == k \in DOMAIN refreshes /\ refreshes[k].status = "Successful"

\* What a process holds on to: the versions and the refresh it made, the images it is
\* about to prune.  A rollback is nowhere but in its own action.
Held(p) ==
    /\ AllFields \subseteq DOMAIN proc[p]
    /\ proc[p].old \subseteq DOMAIN images
    /\ proc[p].pc = "default" => proc[p].version \in DOMAIN versions
    /\ proc[p].pc = "await" => proc[p].refresh \in DOMAIN refreshes
    /\ p \in Rollbackers =>
        /\ proc[p].pc \notin {"bake", "patch", "prune", "snapshot"}
        /\ proc[p].pc = "over" /\ proc[p].result # "error" => Successful(proc[p].refresh)

FleetInv == BackedInv /\ Fleet /\ \A p \in Procs : Held(p)

\* Refreshes are only added, and one that has ended stays as it ended.
Lasts ==
    /\ Fleet'
    /\ \A k \in DOMAIN refreshes :
        k \in DOMAIN refreshes' /\ (refreshes[k].status \in Terminal => refreshes'[k] = refreshes[k])

\* Before anything happened every process is at the start, and nothing was refreshed.
LEMMA InitFleet == Init => FleetInv
<1> SUFFICES ASSUME Init PROVE FleetInv
  OBVIOUS
<1>1. BackedInv
  BY InitBacked
<1>2. Fleet
  BY EC2Assumption DEF Init, Fleet
<1>3. ASSUME NEW p \in Procs PROVE Held(p)
  BY DEF Init, Held, Begun, AllFields
<1> QED BY <1>1, <1>2, <1>3 DEF FleetInv

\* The invariant rests on what a step promises of the fleet and of the process that moves.
LEMMA FleetKeeps ==
    ASSUME FleetInv, Grows, Lasts,
           proc' = proc \/ \E p \in Procs : Moves(p) /\ Held(p)'
    PROVE  FleetInv'
<1>1. BackedInv'
  BY PromiseKeeps DEF FleetInv
<1>2. ASSUME NEW q \in Procs, proc'[q] = proc[q] PROVE Held(q)'
  <2>1. Held(q)
    BY DEF FleetInv
  <2>2. ASSUME NEW k, Successful(k) PROVE Successful(k)'
    BY <2>2 DEF Successful, Lasts, Terminal
  <2> QED BY <1>2, <2>1, <2>2 DEF Held, Grows, Lasts
<1>3. \A q \in Procs : Held(q)'
  BY <1>2 DEF Moves
<1> QED BY <1>1, <1>3 DEF FleetInv, Lasts

\* A step that leaves the refreshes alone and has a default keeps that promise.
LEMMA RefreshesLast ==
    ASSUME FleetInv, Grows, refreshes' = refreshes, default' \in DOMAIN versions',
           snaps' \subseteq DOMAIN images'
    PROVE  Lasts
BY DEF FleetInv, Fleet, Grows, Lasts

LEMMA RefreshesSame ==
    ASSUME FleetInv, Grows, UNCHANGED <<refreshes, default, snaps>>
    PROVE  Lasts
BY RefreshesLast DEF FleetInv, Fleet, Grows

\* A process that ends holds on to its refresh; a rollback ends well on that one only.
LEMMA OverHeld ==
    ASSUME FleetInv, NEW p \in Procs, NEW r, Over(p, r),
           p \in Rollbackers /\ r # "error" =>
               /\ proc[p].refresh \in DOMAIN refreshes'
               /\ refreshes'[proc[p].refresh].status = "Successful"
    PROVE  Held(p)'
<1> DEFINE f == proc[p].refresh
           b == Begun
<1>1. proc'[p] = [b EXCEPT !.pc = "over", !.result = r, !.refresh = f]
  BY DEF Over, FleetInv, BackedInv
<1>2. DOMAIN b = AllFields /\ b.old = {}
  BY DEF Begun, AllFields
<1>3. p \in Rollbackers /\ r # "error" => f \in DOMAIN refreshes' /\ refreshes'[f].status = "Successful"
  OBVIOUS
<1> HIDE DEF f, b
<1>4. proc'[p].pc = "over" /\ proc'[p].result = r /\ proc'[p].refresh = f /\ proc'[p].old = {}
      /\ AllFields \subseteq DOMAIN proc'[p]
  BY <1>1, <1>2 DEF AllFields
<1> QED BY <1>3, <1>4 DEF Held, Successful

LEMMA ErrorHeld == ASSUME FleetInv, NEW p \in Procs, Over(p, "error") PROVE Held(p)'
BY OverHeld

\* A creator, a cleaner or a refresher may end in any way.
LEMMA OtherHeld ==
    ASSUME FleetInv, NEW p \in Procs, p \notin Rollbackers, NEW r, Over(p, r)
    PROVE  Held(p)'
BY OverHeld

\* A process that goes on with what it held.
LEMMA OnwardHeld ==
    ASSUME FleetInv, NEW p \in Procs, Grows, Lasts,
           AllFields \subseteq DOMAIN proc'[p], proc'[p].old \subseteq DOMAIN images,
           proc'[p].pc # "over",
           proc'[p].pc = "default" => proc'[p].version \in DOMAIN versions',
           proc'[p].pc = "await" => proc'[p].refresh \in DOMAIN refreshes',
           p \in Rollbackers => proc'[p].pc \notin {"bake", "patch", "prune", "snapshot"}
    PROVE  Held(p)'
BY DEF Held, Grows

-----------------------------------------------------------------------------
(* What the actions do to the fleet.                                       *)

\* The actions of a creator: the fleet grows by an image or a version.
LEMMA CreateFleet ==
    ASSUME FleetInv, NEW p \in Procs, CreateImage(p)
    PROVE  Lasts /\ Held(p)'
<1> DEFINE i == Len(images')
<1>1. Grows /\ p \in Creators /\ p \notin Rollbackers
  BY CreateKeeps, EC2Assumption DEF FleetInv, CreateImage
<1>2. images' = Append(images, "pending") /\ images \in Seq(States) /\ "pending" \in States
  BY DEF CreateImage, FleetInv, BackedInv, States
<1>3. i \in DOMAIN images' /\ DOMAIN images \subseteq DOMAIN images'
  BY <1>2
<1>4. Lasts
  <2>1. snaps' \subseteq DOMAIN images'
    BY <1>3 DEF CreateImage, FleetInv, Fleet
  <2>2. default' \in DOMAIN versions'
    BY DEF CreateImage, FleetInv, Fleet
  <2> QED BY <1>1, <2>1, <2>2, RefreshesLast DEF CreateImage
<1>5. CASE proc' = [proc EXCEPT ![p].image = i, ![p].pc = "bake"]
  <2>1. AllFields \subseteq DOMAIN proc'[p] /\ proc'[p].pc = "bake" /\ proc'[p].old = proc[p].old
    BY <1>5 DEF FleetInv, BackedInv, Held, AllFields
  <2>2. proc[p].old \subseteq DOMAIN images
    BY DEF FleetInv, Held
  <2> QED BY <1>1, <1>4, <2>1, <2>2, OnwardHeld
<1>6. CASE proc' = [proc EXCEPT ![p].image = i, ![p].pc = "patch"]
  <2>1. AllFields \subseteq DOMAIN proc'[p] /\ proc'[p].pc = "patch" /\ proc'[p].old = proc[p].old
    BY <1>6 DEF FleetInv, BackedInv, Held, AllFields
  <2>2. proc[p].old \subseteq DOMAIN images
    BY DEF FleetInv, Held
  <2> QED BY <1>1, <1>4, <2>1, <2>2, OnwardHeld
<1>7. ASSUME NEW r, Over(p, r) PROVE Held(p)'
  BY <1>1, <1>7, OtherHeld
<1> QED BY <1>4, <1>5, <1>6, <1>7 DEF CreateImage, Baked, Lost

\* Only creators wait for images, so a rollback is not asked.
LEMMA PollFleet ==
    ASSUME FleetInv, NEW p \in Procs, PollImage(p) \/ WaitStops(p)
    PROVE  Lasts /\ Held(p)'
<1>1. Grows /\ p \notin Rollbackers /\ UNCHANGED <<refreshes, default, snaps>>
  BY PollKeeps, QuietKeeps DEF FleetInv, Held, PollImage, WaitStops, At, aws
<1>2. Lasts
  BY <1>1, RefreshesSame
<1>3. CASE proc' = [proc EXCEPT ![p].image = proc[p].image, ![p].pc = "patch"]
  <2>1. AllFields \subseteq DOMAIN proc'[p] /\ proc'[p].pc = "patch" /\ proc'[p].old = proc[p].old
    BY <1>3 DEF FleetInv, BackedInv, Held, AllFields
  <2>2. proc[p].old \subseteq DOMAIN images
    BY DEF FleetInv, Held
  <2> QED BY <1>1, <1>2, <2>1, <2>2, OnwardHeld
<1>4. ASSUME NEW r, Over(p, r) PROVE Held(p)'
  BY <1>1, <1>4, OtherHeld
<1> QED BY <1>2, <1>3, <1>4 DEF PollImage, WaitStops, Baked

\* A version is added; the process that added it knows its number.
LEMMA VersionFleet ==
    ASSUME FleetInv, NEW p \in Procs, PatchTemplate(p) \/ CopyPrevious(p)
    PROVE  Lasts /\ Held(p)'
<1>1. Grows /\ UNCHANGED <<refreshes, default, snaps>>
  BY PatchKeeps, CopyKeeps DEF FleetInv, PatchTemplate, CopyPrevious
<1>2. Lasts
  BY <1>1, RefreshesSame
<1>3. Len(versions') \in DOMAIN versions'
  <2>1. versions' \in Seq(Nat) /\ versions' # <<>>
    BY <1>1 DEF Grows, FleetInv, Fleet
  <2> QED BY <2>1
<1>4. ASSUME NEW s \in {"default", "refresh"},
             proc' = [proc EXCEPT ![p].version = Len(versions'), ![p].pc = s]
      PROVE  Held(p)'
  <2>1. AllFields \subseteq DOMAIN proc'[p] /\ proc'[p].pc = s /\ proc'[p].old = proc[p].old
        /\ proc'[p].version = Len(versions')
    BY <1>4 DEF FleetInv, BackedInv, Held, AllFields
  <2>2. proc[p].old \subseteq DOMAIN images
    BY DEF FleetInv, Held
  <2> QED BY <1>1, <1>2, <1>3, <2>1, <2>2, OnwardHeld
<1>5. CASE Lost(p)
  BY <1>2, <1>5, ErrorHeld DEF Lost
<1>6. CASE PatchTemplate(p)
  BY <1>2, <1>4, <1>5, <1>6 DEF PatchTemplate
<1>7. CASE CopyPrevious(p)
  BY <1>2, <1>4, <1>5, <1>7 DEF CopyPrevious
<1> QED BY <1>6, <1>7

\* A process that only changes its place.
LEMMA PlaceHeld ==
    ASSUME FleetInv, NEW p \in Procs, Grows, Lasts, NEW s, Goto(p, s),
           s \notin {"over", "default", "await"},
           p \in Rollbackers => s \notin {"bake", "patch", "prune", "snapshot"}
    PROVE  Held(p)'
<1>1. AllFields \subseteq DOMAIN proc'[p] /\ proc'[p].pc = s /\ proc'[p].old = proc[p].old
  BY DEF Goto, FleetInv, BackedInv, Held, AllFields
<1>2. proc[p].old \subseteq DOMAIN images
  BY DEF FleetInv, Held
<1> QED BY <1>1, <1>2, OnwardHeld

\* The default is set to a version its process made.
LEMMA DefaultFleet ==
    ASSUME FleetInv, NEW p \in Procs, SetDefault(p)
    PROVE  Lasts /\ Held(p)'
<1>1. Grows
  BY SetDefaultKeeps DEF FleetInv
<1>2. default' \in DOMAIN versions' /\ snaps' \subseteq DOMAIN images' /\ refreshes' = refreshes
  BY DEF FleetInv, Fleet, Held, SetDefault, At
<1>3. Lasts
  BY <1>1, <1>2, RefreshesLast
<1>4. CASE p \in Rollbackers /\ Goto(p, "refresh")
  BY <1>1, <1>3, <1>4, PlaceHeld
<1>5. CASE p \notin Rollbackers /\ Over(p, "ok")
  BY <1>3, <1>5, OtherHeld
<1>6. CASE Lost(p)
  BY <1>3, <1>6, ErrorHeld DEF Lost
<1> QED BY <1>3, <1>4, <1>5, <1>6 DEF SetDefault

\* A cleanup lists images and takes them one after the other.
LEMMA CleanupFleet ==
    ASSUME FleetInv, NEW p \in Procs,
           ListImages(p) \/ Deregister(p) \/ DeleteSnapshots(p) \/ CleanupEnds(p)
    PROVE  Lasts /\ Held(p)'
<1>1. Grows /\ p \notin Rollbackers /\ UNCHANGED <<versions, refreshes, default>>
  BY DeregisterKeeps, QuietKeeps, EC2Assumption
     DEF FleetInv, Held, ListImages, Deregister, DeleteSnapshots, CleanupEnds, At, aws
<1>2. snaps' \subseteq DOMAIN images'
  <2>1. DOMAIN images \subseteq DOMAIN images'
    BY <1>1 DEF Grows
  <2>2. snaps' \subseteq snaps
    BY DEF ListImages, Deregister, DeleteSnapshots, CleanupEnds, aws
  <2> QED BY <2>1, <2>2 DEF FleetInv, Fleet
<1>3. Lasts
  BY <1>1, <1>2, RefreshesLast DEF FleetInv, Fleet
<1>4. proc[p].old \subseteq DOMAIN images /\ AllFields \subseteq DOMAIN proc[p] /\ DOMAIN proc = Procs
  BY DEF FleetInv, Held, BackedInv
<1>5. ASSUME NEW i, proc' = Skipping(p, i) PROVE Held(p)'
  <2>1. AllFields \subseteq DOMAIN proc'[p] /\ proc'[p].pc = "prune" /\ proc'[p].old = proc[p].old \ {i}
    BY <1>4, <1>5 DEF Skipping, AllFields
  <2> QED BY <1>1, <1>3, <1>4, <2>1, OnwardHeld
<1>6. CASE ListImages(p)
  <2>1. AllFields \subseteq DOMAIN proc'[p] /\ proc'[p].pc = "prune" /\ proc'[p].old = Old(Candidates)
    BY <1>4, <1>6 DEF ListImages, AllFields
  <2>2. Old(Candidates) \subseteq DOMAIN images
    BY DEF Old, Candidates
  <2> QED BY <1>1, <1>3, <2>1, <2>2, OnwardHeld
<1>7. CASE Deregister(p)
  BY <1>1, <1>3, <1>5, <1>7, PlaceHeld DEF Deregister
<1>8. CASE DeleteSnapshots(p)
  BY <1>3, <1>5, <1>8 DEF DeleteSnapshots
<1>9. CASE CleanupEnds(p)
  BY <1>1, <1>3, <1>9, OtherHeld DEF CleanupEnds
<1> QED BY <1>6, <1>7, <1>8, <1>9

\* The image a refresh launches is one there is.
LEMMA ResolvedIsImage == FleetInv => Resolved \in DOMAIN images /\ Resolved \in Nat
<1> SUFFICES ASSUME FleetInv PROVE Resolved \in DOMAIN images /\ Resolved \in Nat
  OBVIOUS
<1>1. versions \in Seq(Nat) /\ default \in DOMAIN versions
  BY DEF FleetInv, BackedInv, Fleet
<1>2. Len(versions) \in DOMAIN versions
  BY <1>1
<1>3. \A v \in DOMAIN versions : versions[v] \in DOMAIN images /\ versions[v] \in Nat
  BY <1>1 DEF FleetInv, BackedInv, Backed
<1> QED BY <1>1, <1>2, <1>3 DEF Resolved

\* A new refresh, behind those there are.
LEMMA RefreshAdded ==
    ASSUME FleetInv, NEW i \in DOMAIN images, i \in Nat,
           refreshes' = Append(refreshes, [image |-> i, status |-> "InProgress"]),
           UNCHANGED <<images, snaps, versions, default>>
    PROVE  Lasts /\ Len(refreshes') \in DOMAIN refreshes'
<1> DEFINE R == [image : Nat, status : Statuses]
           r == [image |-> i, status |-> "InProgress"]
<1>1. r \in R /\ r.image = i
  BY DEF Statuses
<1>2. refreshes \in Seq(R) /\ refreshes' = Append(refreshes, r)
  BY DEF FleetInv, Fleet
<1> HIDE DEF r, R
<1>3. /\ refreshes' \in Seq(R) /\ Len(refreshes') \in DOMAIN refreshes'
      /\ \A k \in DOMAIN refreshes : k \in DOMAIN refreshes' /\ refreshes'[k] = refreshes[k]
      /\ \A k \in DOMAIN refreshes' : k \in DOMAIN refreshes \/ refreshes'[k] = r
  BY <1>1, <1>2
<1>4. \A k \in DOMAIN refreshes' : refreshes'[k].image \in DOMAIN images
  BY <1>1, <1>3 DEF FleetInv, Fleet
<1>5. snaps' \subseteq DOMAIN images' /\ default' \in DOMAIN versions' /\ images' = images
  BY DEF FleetInv, Fleet
<1>6. refreshes' \in Seq([image : Nat, status : Statuses])
  BY <1>3 DEF R
<1> QED BY <1>3, <1>4, <1>5, <1>6 DEF Lasts, Fleet

\* The last refresh is not over and takes another status.
LEMMA RefreshMoved ==
    ASSUME FleetInv, Active, NEW s \in Statuses,
           refreshes' = [refreshes EXCEPT ![Len(refreshes)].status = s],
           UNCHANGED <<images, snaps, versions, default>>
    PROVE  Lasts
<1> DEFINE R == [image : Nat, status : Statuses]
           n == Len(refreshes)
<1>1. refreshes \in Seq(R) /\ n \in DOMAIN refreshes /\ refreshes[n].status \notin Terminal
  <2>1. refreshes \in Seq(R) /\ refreshes # <<>> /\ refreshes[n].status \notin Terminal
    BY DEF FleetInv, Fleet, Active, Last
  <2> HIDE DEF R
  <2> QED BY <2>1
<1>2. refreshes[n] \in R
  <2> HIDE DEF R
  <2> QED BY <1>1
<1>3. [refreshes[n] EXCEPT !.status = s] \in R /\ [refreshes[n] EXCEPT !.status = s].image = refreshes[n].image
  BY <1>2
<1>4. refreshes' = [refreshes EXCEPT ![n] = [refreshes[n] EXCEPT !.status = s]]
  OBVIOUS
<1>5. DOMAIN refreshes' = DOMAIN refreshes /\ \A k \in DOMAIN refreshes :
          (k # n => refreshes'[k] = refreshes[k]) /\ refreshes'[k].image = refreshes[k].image
  BY <1>1, <1>3, <1>4
<1>6. refreshes' \in Seq(R)
  BY <1>1, <1>3, <1>4 DEF R
<1>7. snaps' \subseteq DOMAIN images' /\ default' \in DOMAIN versions' /\ images' = images
  BY DEF FleetInv, Fleet
<1>8. \A k \in DOMAIN refreshes' : refreshes'[k].image \in DOMAIN images'
  BY <1>5, <1>7 DEF FleetInv, Fleet
<1> QED BY <1>1, <1>5, <1>6, <1>7, <1>8 DEF Lasts, Fleet

\* The actions of a refresh and of a rollback.
LEMMA RefreshFleet ==
    ASSUME FleetInv, NEW p \in Procs, ListVersions(p) \/ StartRefresh(p) \/ CancelRefresh(p) \/ Settle(p)
    PROVE  Lasts /\ Held(p)'
<1>1. Grows
  BY ListVersionsKeeps, QuietKeeps DEF FleetInv
<1>2. proc[p].old \subseteq DOMAIN images /\ AllFields \subseteq DOMAIN proc[p] /\ DOMAIN proc = Procs
  BY DEF FleetInv, Held, BackedInv
<1>3. UNCHANGED aws => Lasts
  BY <1>1, RefreshesSame DEF aws
<1>4. ASSUME Lasts, proc' = [proc EXCEPT ![p].pc = "refresh", ![p].retried = TRUE] PROVE Held(p)'
  <2>1. AllFields \subseteq DOMAIN proc'[p] /\ proc'[p].pc = "refresh" /\ proc'[p].old = proc[p].old
    BY <1>2, <1>4 DEF AllFields
  <2> QED BY <1>1, <1>2, <1>4, <2>1, OnwardHeld
<1>5. CASE ListVersions(p)
  <2>1. Lasts
    BY <1>3, <1>5 DEF ListVersions
  <2>2. CASE Over(p, "error")
    BY <2>1, <2>2, ErrorHeld
  <2>3. CASE proc' = [proc EXCEPT ![p].version = Len(versions) - 1, ![p].pc = "copy"]
    <3>1. AllFields \subseteq DOMAIN proc'[p] /\ proc'[p].pc = "copy" /\ proc'[p].old = proc[p].old
      BY <1>2, <2>3 DEF AllFields
    <3> QED BY <1>1, <1>2, <2>1, <3>1, OnwardHeld
  <2> QED BY <1>5, <2>2, <2>3 DEF ListVersions
<1>6. CASE StartRefresh(p)
  <2>1. CASE InProgress(p)
    <3>1. Lasts
      BY <1>3, <2>1 DEF InProgress
    <3>2. p \in Refreshers => p \notin Rollbackers
      BY EC2Assumption
    <3>3. CASE p \in Refreshers /\ Over(p, "skipped")
      BY <3>1, <3>2, <3>3, OtherHeld
    <3>4. CASE Over(p, "error")
      BY <3>1, <3>4, ErrorHeld
    <3>5. CASE Goto(p, "cancel")
      BY <1>1, <3>1, <3>5, PlaceHeld
    <3> QED BY <2>1, <3>3, <3>4, <3>5 DEF InProgress
  <2>2. CASE /\ refreshes' = Append(refreshes, [image |-> Resolved, status |-> "InProgress"])
             /\ \/ proc' = [proc EXCEPT ![p].refresh = Len(refreshes'), ![p].pc = "await"]
                \/ Lost(p)
             /\ UNCHANGED <<images, snaps, versions, default>>
    <3>1. Lasts /\ Len(refreshes') \in DOMAIN refreshes'
      BY <2>2, ResolvedIsImage, RefreshAdded
    <3>2. CASE proc' = [proc EXCEPT ![p].refresh = Len(refreshes'), ![p].pc = "await"]
      <4> DEFINE n == Len(refreshes')
      <4>1. proc' = [proc EXCEPT ![p].refresh = n, ![p].pc = "await"] /\ n \in DOMAIN refreshes'
        BY <3>1, <3>2
      <4> HIDE DEF n
      <4>2. AllFields \subseteq DOMAIN proc'[p] /\ proc'[p].pc = "await" /\ proc'[p].old = proc[p].old
            /\ proc'[p].refresh \in DOMAIN refreshes'
        BY <1>2, <4>1 DEF AllFields
      <4> QED BY <1>1, <1>2, <3>1, <4>2, OnwardHeld
    <3>3. CASE Lost(p)
      BY <3>1, <3>3, ErrorHeld DEF Lost
    <3> QED BY <2>2, <3>2, <3>3
  <2> QED BY <1>6, <2>1, <2>2 DEF StartRefresh
<1>7. CASE CancelRefresh(p)
  <2>1. CASE /\ Active /\ refreshes' = [refreshes EXCEPT ![Len(refreshes)].status = "Cancelling"]
             /\ Goto(p, "settle") \/ Lost(p)
             /\ UNCHANGED <<images, snaps, versions, default>>
    <3>1. Lasts
      BY <2>1, RefreshMoved DEF Statuses
    <3>2. CASE Goto(p, "settle")
      BY <1>1, <3>1, <3>2, PlaceHeld
    <3>3. CASE Lost(p)
      BY <3>1, <3>3, ErrorHeld DEF Lost
    <3> QED BY <2>1, <3>2, <3>3
  <2>2. CASE proc' = [proc EXCEPT ![p].pc = "refresh", ![p].retried = TRUE] /\ UNCHANGED aws
    BY <1>3, <1>4, <2>2
  <2> QED BY <1>7, <2>1, <2>2 DEF CancelRefresh
<1>8. CASE Settle(p)
  BY <1>3, <1>4, <1>8 DEF Settle
<1> QED BY <1>5, <1>6, <1>7, <1>8

\* A rollback that ends well has seen its own refresh succeed.
LEMMA EndFleet ==
    ASSUME FleetInv, NEW p \in Procs, Await(p) \/ CallError(p)
    PROVE  Lasts /\ Held(p)'
<1>1. Grows /\ UNCHANGED aws
  BY QuietKeeps DEF FleetInv, Await, CallError
<1>2. Lasts
  BY <1>1, RefreshesSame DEF aws
<1>3. CASE Await(p)
  <2> DEFINE ok == refreshes[proc[p].refresh].status = "Successful"
  <2>1. proc[p].refresh \in DOMAIN refreshes /\ refreshes' = refreshes
    BY <1>1, <1>3 DEF Await, At, FleetInv, Held, aws
  <2>2. CASE ok /\ Over(p, "ok")
    BY <1>2, <2>1, <2>2, OverHeld
  <2>3. CASE Over(p, "error")
    BY <1>2, <2>3, ErrorHeld
  <2> QED BY <1>3, <2>2, <2>3 DEF Await
<1>4. CASE CallError(p)
  BY <1>2, <1>4, ErrorHeld DEF CallError
<1> QED BY <1>3, <1>4

\* What AWS does by itself.
LEMMA AwsFleet ==
    ASSUME FleetInv, (\E i \in DOMAIN images : Bake(i)) \/ RefreshEnds
    PROVE  Grows /\ Lasts /\ proc' = proc
<1>1. ASSUME NEW i \in DOMAIN images, Bake(i) PROVE Grows /\ Lasts
  <2>1. Grows
    BY <1>1, Changed DEF Bake, States, Good, FleetInv
  <2> QED BY <1>1, <2>1, RefreshesSame DEF Bake
<1>2. CASE RefreshEnds
  <2>1. Grows
    BY <1>2, Unmoved DEF RefreshEnds, FleetInv
  <2>2. PICK s \in Terminal : refreshes' = [refreshes EXCEPT ![Len(refreshes)].status = s]
    BY <1>2 DEF RefreshEnds
  <2>3. s \in Statuses
    BY DEF Statuses
  <2> QED BY <1>2, <2>1, <2>2, <2>3, RefreshMoved DEF RefreshEnds
<1> QED BY <1>1, <1>2 DEF Bake, RefreshEnds

\* Every step keeps the fleet in order.
LEMMA StepFleet == FleetInv /\ [Next]_vars => FleetInv'
<1> SUFFICES ASSUME FleetInv, [Next]_vars PROVE FleetInv'
  OBVIOUS
<1>1. ASSUME NEW p \in Procs, Step(p) \/ CallError(p) PROVE FleetInv'
  <2>1. Grows /\ Moves(p)
    BY <1>1, CreateKeeps, PollKeeps, PatchKeeps, CopyKeeps, ListVersionsKeeps, SetDefaultKeeps,
       DeregisterKeeps, QuietKeeps DEF Step, FleetInv
  <2>2. Lasts /\ Held(p)'
    BY <1>1, CreateFleet, PollFleet, VersionFleet, DefaultFleet, CleanupFleet, RefreshFleet,
       EndFleet DEF Step
  <2> QED BY <2>1, <2>2, FleetKeeps
<1>2. CASE (\E i \in DOMAIN images : Bake(i)) \/ RefreshEnds
  BY <1>2, AwsFleet, FleetKeeps
<1>3. CASE UNCHANGED vars
  <2>1. Grows
    BY <1>3, Unmoved DEF vars, FleetInv
  <2> QED BY <1>3, <2>1, RefreshesSame, FleetKeeps DEF vars
<1> QED BY <1>1, <1>2, <1>3 DEF Next

\* Every variable keeps its type: the template's default is one of its versions, and
\* every version, snapshot and refresh is of an image there is or was.
THEOREM TypeCorrect == Spec => []TypeOK
<1>1. FleetInv => TypeOK
  <2> SUFFICES ASSUME FleetInv PROVE TypeOK
    OBVIOUS
  <2>1. versions \in Seq(DOMAIN images)
    BY DEF FleetInv, BackedInv, Backed
  <2>2. refreshes \in Seq([image : DOMAIN images, status : Terminal \cup {"InProgress", "Cancelling"}])
    <3> DEFINE R == [image : Nat, status : Statuses]
               T == [image : DOMAIN images, status : Statuses]
    <3>1. refreshes \in Seq(R)
      BY DEF FleetInv, Fleet
    <3>2. ASSUME NEW r \in R, r.image \in DOMAIN images PROVE r \in T
      <4>1. r = [image |-> r.image, status |-> r.status] /\ r.status \in Statuses
        OBVIOUS
      <4> DEFINE i == r.image
                 t == r.status
      <4>2. i \in DOMAIN images /\ t \in Statuses
        BY <3>2, <4>1
      <4> HIDE DEF i, t
      <4>3. [image |-> i, status |-> t] \in T
        BY <4>2
      <4> QED BY <4>1, <4>3 DEF i, t
    <3>3. T = [image : DOMAIN images, status : Terminal \cup {"InProgress", "Cancelling"}]
      BY DEF Statuses
    <3>4. \A k \in DOMAIN refreshes : refreshes[k].image \in DOMAIN images
      BY DEF FleetInv, Fleet
    <3> HIDE DEF R, T
    <3>5. \A k \in DOMAIN refreshes : refreshes[k] \in R
      BY <3>1
    <3>6. \A k \in DOMAIN refreshes : refreshes[k] \in T
      BY <3>2, <3>4, <3>5
    <3>7. refreshes \in Seq(T)
      BY <3>1, <3>6
    <3> QED BY <3>3, <3>7
  <2>3. images \in Seq({"pending", "available", "failed", "gone"})
    BY DEF FleetInv, BackedInv, States
  <2> QED BY <2>1, <2>2, <2>3 DEF FleetInv, BackedInv, Fleet, Sound, Held, At, TypeOK
<1> QED BY <1>1, InitFleet, StepFleet, PTL DEF Spec

\* A rollback succeeds only on a refresh of its own that ended well (asg.go:162-229),
\* whoever else refreshes, cancels or rolls back at the same time.
THEOREM RollbacksRefresh == Spec => []RollbackRefreshed
<1>1. FleetInv => RollbackRefreshed
  <2> SUFFICES ASSUME FleetInv, NEW p \in Rollbackers, At(p, "over"), proc[p].result # "error"
               PROVE  proc[p].refresh # 0 /\ refreshes[proc[p].refresh].status = "Successful"
    BY DEF RollbackRefreshed
  <2>1. Successful(proc[p].refresh)
    BY DEF FleetInv, Held, At, Procs
  <2>2. 0 \notin DOMAIN refreshes
    BY DEF FleetInv, Fleet
  <2> QED BY <2>1, <2>2 DEF Successful
<1> QED BY <1>1, InitFleet, StepFleet, PTL DEF Spec

-----------------------------------------------------------------------------
(* The image the template's default launches.                              *)

\* Creators that have begun; each makes one image at most.
Started == {p \in Creators : proc[p].pc # "start"}

\* The images no cleanup may take: the live one and the one a rollback goes back to, and
\* all that come later.
Recent(i) == i >= InitialImages - 1

\* The later versions hold recent images, and those are there.
Young ==
    /\ Len(images) >= InitialImages /\ Len(versions) >= InitialImages
    /\ Recent(default)
    /\ \A v \in DOMAIN versions : Recent(v) => Recent(versions[v])
    /\ \A i \in DOMAIN images : Recent(i) => images[i] # "gone"

\* A process makes versions of recent images, and prunes none.
Spares(p) ==
    /\ proc[p].pc \in {"copy", "default"} => Recent(proc[p].version)
    /\ proc[p].pc \in {"bake", "patch"} => Recent(proc[p].image)
    /\ \A i \in proc[p].old : ~Recent(i)

LiveInv ==
    /\ FleetInv /\ Young
    /\ Len(images) <= InitialImages + Cardinality(Started)
    /\ \A p \in Procs : Spares(p)

\* How a process goes on, and how many images it makes.
Leaves(p) ==
    /\ Young' /\ Spares(p)'
    /\ proc'[p].pc # "start"
    /\ \/ Len(images') = Len(images)
       \/ p \in Creators /\ At(p, "start") /\ Len(images') = Len(images) + 1

\* There are fewer creators than images kept, by two.
FewCreators == IsFiniteSet(Creators) /\ Cardinality(Creators) + 2 <= Keep

\* The group starts from the last image.
LEMMA InitLive == FewCreators /\ Init => LiveInv
<1> SUFFICES ASSUME FewCreators, Init PROVE LiveInv
  OBVIOUS
<1>1. FleetInv
  BY InitFleet
<1>2. Young
  BY EC2Assumption DEF Init, Young, Recent
<1>3. Started = {}
  BY DEF Init, Started, Begun, Procs
<1>4. Len(images) <= InitialImages + Cardinality(Started)
  BY <1>3, FS_EmptySet, EC2Assumption DEF Init
<1>5. ASSUME NEW p \in Procs PROVE Spares(p)
  BY DEF Init, Begun, Spares
<1> QED BY <1>1, <1>2, <1>4, <1>5 DEF LiveInv

\* What a step leaves so keeps the invariant.
LEMMA LeavesKeeps ==
    ASSUME FewCreators, LiveInv, FleetInv', NEW p \in Procs, Moves(p), Leaves(p)
    PROVE  LiveInv'
<1>1. \A q \in Procs \ {p} : proc'[q] = proc[q]
  BY DEF Moves
<1>2. \A q \in Procs : Spares(q)'
  BY <1>1 DEF LiveInv, Leaves, Spares, Recent
<1>3. Started' = Started \cup (IF p \in Creators THEN {p} ELSE {})
  BY <1>1 DEF Started, Leaves, Procs
<1>4. IsFiniteSet(Started) /\ Cardinality(Started) \in Nat
  BY FS_Subset, FS_CardinalityType DEF FewCreators, Started
<1>5. /\ Cardinality(Started') \in Nat /\ Cardinality(Started') >= Cardinality(Started)
      /\ p \in Creators /\ At(p, "start") => Cardinality(Started') = Cardinality(Started) + 1
  <2>1. CASE p \in Creators
    <3>1. Started' = Started \cup {p}
      BY <1>3, <2>1
    <3>2. At(p, "start") => p \notin Started
      BY DEF At, Started
    <3> QED BY <1>4, <2>1, <3>1, <3>2, FS_AddElement
  <2>2. CASE p \notin Creators
    BY <1>3, <1>4, <2>2
  <2> QED BY <2>1, <2>2
<1>6. Len(images) \in Nat /\ InitialImages \in Nat
  BY EC2Assumption DEF LiveInv, FleetInv, BackedInv
<1>7. Len(images') <= InitialImages + Cardinality(Started')
  BY <1>4, <1>5, <1>6 DEF LiveInv, Leaves
<1> QED BY <1>2, <1>7 DEF LiveInv, Leaves

\* A process that ends has nothing left to do.
LEMMA OverSpares ==
    ASSUME FleetInv, NEW p \in Procs, NEW r, Over(p, r)
    PROVE  Spares(p)' /\ proc'[p].pc # "start"
<1> DEFINE f == proc[p].refresh
           b == Begun
<1>1. proc'[p] = [b EXCEPT !.pc = "over", !.result = r, !.refresh = f]
  BY DEF Over, FleetInv, BackedInv
<1>2. DOMAIN b = AllFields /\ b.old = {}
  BY DEF Begun, AllFields
<1> HIDE DEF f, b
<1>3. proc'[p].pc = "over" /\ proc'[p].old = {}
  BY <1>1, <1>2 DEF AllFields
<1> QED BY <1>3 DEF Spares

\* Nor does a step change what is recent that leaves images, versions and default alone.
LEMMA YoungStays ==
    ASSUME LiveInv, UNCHANGED <<images, versions, default>>
    PROVE  Young'
BY DEF LiveInv, Young, Recent

\* What is listed to be pruned has `keep` newer images, and there are not so many
\* after the recent ones.
LEMMA OldIsOld ==
    ASSUME FewCreators, LiveInv, NEW i \in Old(Candidates)
    PROVE  ~Recent(i)
<1> DEFINE T == {j \in Candidates : j > i}
           n == Len(images)
<1>1. Cardinality(T) >= Keep /\ i \in DOMAIN images /\ T \subseteq DOMAIN images
  BY DEF Old, Candidates
<1>2. images \in Seq(States) /\ n \in Nat /\ DOMAIN images = 1..n /\ InitialImages \in Nat /\ Keep \in Nat
  BY EC2Assumption DEF LiveInv, FleetInv, BackedInv, Keep
<1>3. T \subseteq (i + 1)..n /\ i \in 1..n
  BY <1>1, <1>2
<1>4. IsFiniteSet((i + 1)..n) /\ Cardinality((i + 1)..n) = n - i
  BY <1>2, <1>3, FS_Interval
<1>5. Cardinality(T) <= n - i /\ Cardinality(T) \in Nat
  BY <1>3, <1>4, FS_Subset, FS_CardinalityType
<1>6. Cardinality(Started) <= Cardinality(Creators) /\ Cardinality(Started) \in Nat
      /\ Cardinality(Creators) \in Nat
  BY FS_Subset, FS_CardinalityType DEF FewCreators, Started
<1>7. n <= InitialImages + Cardinality(Started)
  BY DEF LiveInv
<1> HIDE DEF T, n
<1> QED BY <1>1, <1>2, <1>3, <1>5, <1>6, <1>7 DEF FewCreators, Recent

\* A creator's image is newer than all there were.
LEMMA CreateLeaves ==
    ASSUME LiveInv, NEW p \in Procs, CreateImage(p)
    PROVE  Leaves(p)
<1> DEFINE i == Len(images')
<1>1. /\ images \in Seq(States) /\ images' = Append(images, "pending") /\ UNCHANGED <<versions, default>>
      /\ p \in Creators /\ At(p, "start") /\ InitialImages \in Nat
  BY EC2Assumption DEF LiveInv, FleetInv, BackedInv, CreateImage
<1>2. i = Len(images) + 1 /\ Len(images) \in Nat /\ Len(images) >= InitialImages
      /\ \A j \in DOMAIN images' : images'[j] = "pending" \/ (j \in DOMAIN images /\ images'[j] = images[j])
  BY <1>1 DEF LiveInv, Young
<1>3. Recent(i)
  BY <1>1, <1>2 DEF Recent
<1>4. Young'
  BY <1>1, <1>2 DEF LiveInv, Young, Recent
<1>5. proc[p].old \subseteq DOMAIN images /\ AllFields \subseteq DOMAIN proc[p] /\ DOMAIN proc = Procs
      /\ \A j \in proc[p].old : ~Recent(j)
  BY DEF LiveInv, FleetInv, Held, BackedInv, Spares
<1>6. Spares(p)' /\ proc'[p].pc # "start"
  <2>1. ASSUME NEW s \in {"bake", "patch"}, proc' = [proc EXCEPT ![p].image = i, ![p].pc = s]
        PROVE  Spares(p)' /\ proc'[p].pc # "start"
    <3> HIDE DEF i
    <3>1. proc'[p].pc = s /\ proc'[p].image = i /\ proc'[p].old = proc[p].old
      BY <1>5, <2>1 DEF AllFields
    <3> QED BY <1>3, <1>5, <3>1 DEF Spares, Recent
  <2>2. ASSUME NEW r, Over(p, r) PROVE Spares(p)' /\ proc'[p].pc # "start"
    BY <2>2, OverSpares DEF LiveInv
  <2>3. \/ proc' = [proc EXCEPT ![p].image = i, ![p].pc = "bake"]
        \/ proc' = [proc EXCEPT ![p].image = i, ![p].pc = "patch"]
        \/ Over(p, "ok") \/ Over(p, "error")
    BY DEF CreateImage, Baked, Lost
  <2> QED BY <2>1, <2>2, <2>3
<1> QED BY <1>1, <1>2, <1>4, <1>6 DEF Leaves

\* The version a patch or a copy adds holds a recent image.
LEMMA VersionLeaves ==
    ASSUME LiveInv, NEW p \in Procs, PatchTemplate(p) \/ CopyPrevious(p)
    PROVE  Leaves(p)
<1> DEFINE n == Len(versions')
<1>1. /\ versions \in Seq(Nat) /\ InitialImages \in Nat /\ Len(versions) \in Nat
      /\ Len(versions) >= InitialImages /\ UNCHANGED <<images, default>>
  BY EC2Assumption DEF LiveInv, FleetInv, BackedInv, Young, PatchTemplate, CopyPrevious
<1>2. PICK i \in Nat : Recent(i) /\ versions' = Append(versions, i)
  <2>1. CASE PatchTemplate(p)
    <3>1. proc[p].image \in DOMAIN images /\ images \in Seq(States)
      BY <2>1 DEF PatchTemplate, At, LiveInv, FleetInv, BackedInv, Sound
    <3>2. Recent(proc[p].image)
      BY <2>1 DEF PatchTemplate, At, LiveInv, Spares
    <3> QED BY <2>1, <3>1, <3>2 DEF PatchTemplate
  <2>2. CASE CopyPrevious(p)
    <3>1. proc[p].version \in DOMAIN versions /\ Recent(proc[p].version)
      BY <2>2 DEF CopyPrevious, At, LiveInv, FleetInv, BackedInv, Sound, Spares
    <3>2. Recent(versions[proc[p].version]) /\ versions[proc[p].version] \in Nat
      BY <1>1, <3>1 DEF LiveInv, Young
    <3> QED BY <2>2, <3>2 DEF CopyPrevious
  <2> QED BY <2>1, <2>2
<1>3. n = Len(versions) + 1 /\ \A v \in DOMAIN versions' :
          versions'[v] = i \/ (v \in DOMAIN versions /\ versions'[v] = versions[v])
  BY <1>1, <1>2
<1>4. Young'
  <2>1. \A v \in DOMAIN versions' : Recent(v) => Recent(versions'[v])
    BY <1>2, <1>3 DEF LiveInv, Young
  <2> QED BY <1>1, <1>3, <2>1 DEF LiveInv, Young, Recent
<1>5. Recent(n)
  BY <1>1, <1>3 DEF Recent
<1>6. AllFields \subseteq DOMAIN proc[p] /\ DOMAIN proc = Procs /\ \A j \in proc[p].old : ~Recent(j)
  BY DEF LiveInv, FleetInv, Held, BackedInv, Spares
<1>7. Spares(p)' /\ proc'[p].pc # "start"
  <2>1. ASSUME NEW s \in {"default", "refresh"}, proc' = [proc EXCEPT ![p].version = n, ![p].pc = s]
        PROVE  Spares(p)' /\ proc'[p].pc # "start"
    <3> HIDE DEF n
    <3>1. proc'[p].pc = s /\ proc'[p].version = n /\ proc'[p].old = proc[p].old
      BY <1>6, <2>1 DEF AllFields
    <3> QED BY <1>5, <1>6, <3>1 DEF Spares, Recent
  <2>2. CASE Over(p, "error")
    BY <2>2, OverSpares DEF LiveInv
  <2>3. \/ \E s \in {"default", "refresh"} : proc' = [proc EXCEPT ![p].version = n, ![p].pc = s]
        \/ Over(p, "error")
    BY DEF PatchTemplate, CopyPrevious, Lost
  <2> QED BY <2>1, <2>2, <2>3
<1> QED BY <1>1, <1>4, <1>7 DEF Leaves

\* A cleanup takes an image of its list, and lists old ones.
LEMMA CleanupLeaves ==
    ASSUME FewCreators, LiveInv, NEW p \in Procs,
           ListImages(p) \/ Deregister(p) \/ DeleteSnapshots(p)
    PROVE  Leaves(p)
<1>1. AllFields \subseteq DOMAIN proc[p] /\ DOMAIN proc = Procs /\ (\A j \in proc[p].old : ~Recent(j))
      /\ proc[p].old \subseteq DOMAIN images /\ images \in Seq(States)
  BY DEF LiveInv, FleetInv, Held, BackedInv, Spares
<1>2. ASSUME NEW i, proc' = Skipping(p, i) PROVE Spares(p)' /\ proc'[p].pc # "start"
  <2>1. proc'[p].pc = "prune" /\ proc'[p].old = proc[p].old \ {i}
    BY <1>1, <1>2 DEF Skipping, AllFields
  <2> QED BY <1>1, <2>1 DEF Spares, Recent
<1>3. CASE ListImages(p)
  <2> DEFINE o == Old(Candidates)
  <2>1. \A i \in o : ~Recent(i)
    BY OldIsOld
  <2>2. proc' = [proc EXCEPT ![p].old = o, ![p].pc = "prune"] /\ UNCHANGED <<images, versions, default>>
    BY <1>3 DEF ListImages, aws
  <2> HIDE DEF o
  <2>3. proc'[p].pc = "prune" /\ proc'[p].old = o
    BY <1>1, <2>2 DEF AllFields
  <2>4. Spares(p)' /\ proc'[p].pc # "start"
    BY <2>1, <2>3 DEF Spares, Recent
  <2> QED BY <2>2, <2>4, YoungStays DEF Leaves
<1>4. CASE DeleteSnapshots(p)
  BY <1>2, <1>4, YoungStays DEF DeleteSnapshots, Leaves
<1>5. CASE Deregister(p)
  <2>1. PICK i \in Turn(p) :
            /\ \/ images' = [images EXCEPT ![i] = "gone"] \/ images' = images
            /\ proc' = Skipping(p, i) \/ Goto(p, "snapshot")
            /\ UNCHANGED <<versions, default>>
    BY <1>5 DEF Deregister, aws
  <2>2. i \in proc[p].old /\ i \in DOMAIN images /\ ~Recent(i)
    BY <1>1 DEF Turn
  <2>3. Len(images') = Len(images) /\ DOMAIN images' = DOMAIN images
        /\ \A j \in DOMAIN images : j # i => images'[j] = images[j]
    BY <1>1, <2>1, <2>2
  <2>4. Young'
    <3>1. \A j \in DOMAIN images' : Recent(j) => images'[j] # "gone"
      BY <2>2, <2>3 DEF LiveInv, Young
    <3> QED BY <2>1, <2>3, <3>1 DEF LiveInv, Young, Recent
  <2>5. CASE Goto(p, "snapshot")
    <3>1. proc'[p].pc = "snapshot" /\ proc'[p].old = proc[p].old
      BY <1>1, <2>5 DEF Goto, AllFields
    <3>2. Spares(p)'
      BY <1>1, <3>1 DEF Spares, Recent
    <3> QED BY <2>3, <2>4, <3>1, <3>2 DEF Leaves
  <2> QED BY <1>2, <2>1, <2>3, <2>4, <2>5 DEF Leaves
<1> QED BY <1>3, <1>4, <1>5

\* The version before the last is recent, and so is the default a process sets.
LEMMA RestLeaves ==
    ASSUME LiveInv, NEW p \in Procs,
           \/ PollImage(p) \/ WaitStops(p) \/ SetDefault(p) \/ CleanupEnds(p) \/ ListVersions(p)
           \/ StartRefresh(p) \/ CancelRefresh(p) \/ Settle(p) \/ Await(p) \/ CallError(p)
    PROVE  Leaves(p)
<1>1. AllFields \subseteq DOMAIN proc[p] /\ DOMAIN proc = Procs /\ (\A j \in proc[p].old : ~Recent(j))
  BY DEF LiveInv, FleetInv, Held, BackedInv, Spares
<1>2. UNCHANGED <<images, versions>>
  BY DEF PollImage, WaitStops, SetDefault, CleanupEnds, ListVersions, StartRefresh, InProgress,
         CancelRefresh, Settle, Await, CallError, aws
<1>3. Young'
  <2>1. CASE default' = default
    BY <1>2, <2>1, YoungStays
  <2>2. CASE SetDefault(p)
    <3>1. Recent(default')
      BY <2>2 DEF SetDefault, At, LiveInv, Spares, Recent
    <3> QED BY <1>2, <3>1 DEF LiveInv, Young, Recent
  <2> QED BY <2>1, <2>2
      DEF PollImage, WaitStops, CleanupEnds, ListVersions, StartRefresh, InProgress,
          CancelRefresh, Settle, Await, CallError, aws
<1>4. ASSUME NEW s, s \notin {"start", "copy", "default", "bake", "patch"},
             proc'[p].pc = s, proc'[p].old = proc[p].old
      PROVE  Spares(p)' /\ proc'[p].pc # "start"
  BY <1>1, <1>4 DEF Spares, Recent
<1>5. ASSUME NEW s, s \notin {"start", "copy", "default", "bake", "patch"}, Goto(p, s)
      PROVE  Spares(p)' /\ proc'[p].pc # "start"
  <2>1. proc'[p].pc = s /\ proc'[p].old = proc[p].old
    BY <1>1, <1>5 DEF Goto, AllFields
  <2> QED BY <1>4, <1>5, <2>1
<1>6. ASSUME NEW r, Over(p, r) PROVE Spares(p)' /\ proc'[p].pc # "start"
  BY <1>6, OverSpares DEF LiveInv
<1>7. ASSUME proc' = [proc EXCEPT ![p].pc = "refresh", ![p].retried = TRUE]
      PROVE  Spares(p)' /\ proc'[p].pc # "start"
  <2>1. proc'[p].pc = "refresh" /\ proc'[p].old = proc[p].old
    BY <1>1, <1>7 DEF AllFields
  <2> QED BY <1>4, <2>1
<1>8. Spares(p)' /\ proc'[p].pc # "start"
  <2>1. CASE WaitStops(p) \/ CleanupEnds(p) \/ Await(p) \/ CallError(p)
    BY <1>6, <2>1 DEF WaitStops, CleanupEnds, Await, CallError
  <2>2. CASE PollImage(p)
    <3>1. CASE At(p, "bake") /\ proc' = [proc EXCEPT ![p].image = proc[p].image, ![p].pc = "patch"]
      <4>1. Recent(proc[p].image)
        BY <3>1 DEF At, LiveInv, Spares
      <4>2. proc'[p].pc = "patch" /\ proc'[p].old = proc[p].old /\ proc'[p].image = proc[p].image
        BY <1>1, <3>1 DEF AllFields
      <4> QED BY <1>1, <4>1, <4>2 DEF Spares, Recent
    <3> QED BY <1>6, <2>2, <3>1 DEF PollImage, Baked
  <2>3. CASE SetDefault(p)
    BY <1>5, <1>6, <2>3 DEF SetDefault, Lost
  <2>4. CASE ListVersions(p)
    <3>1. CASE proc' = [proc EXCEPT ![p].version = Len(versions) - 1, ![p].pc = "copy"]
      <4> DEFINE v == Len(versions) - 1
      <4>1. Recent(v)
        BY EC2Assumption DEF LiveInv, Young, Recent, FleetInv, BackedInv
      <4>2. proc' = [proc EXCEPT ![p].version = v, ![p].pc = "copy"]
        BY <3>1
      <4> HIDE DEF v
      <4>3. proc'[p].pc = "copy" /\ proc'[p].old = proc[p].old /\ proc'[p].version = v
        BY <1>1, <4>2 DEF AllFields
      <4> QED BY <1>1, <4>1, <4>3 DEF Spares, Recent
    <3> QED BY <1>6, <2>4, <3>1 DEF ListVersions
  <2>5. CASE CancelRefresh(p) \/ Settle(p)
    BY <1>5, <1>6, <1>7, <2>5 DEF CancelRefresh, Settle, Lost
  <2>6. CASE StartRefresh(p)
    <3>1. CASE InProgress(p)
      BY <1>5, <1>6, <3>1 DEF InProgress
    <3>2. CASE proc' = [proc EXCEPT ![p].refresh = Len(refreshes'), ![p].pc = "await"]
      <4> DEFINE n == Len(refreshes')
      <4>1. proc' = [proc EXCEPT ![p].refresh = n, ![p].pc = "await"]
        BY <3>2
      <4> HIDE DEF n
      <4>2. proc'[p].pc = "await" /\ proc'[p].old = proc[p].old
        BY <1>1, <4>1 DEF AllFields
      <4> QED BY <1>4, <4>2
    <3> QED BY <1>6, <2>6, <3>1, <3>2 DEF StartRefresh, Lost
  <2> QED BY <2>1, <2>2, <2>3, <2>4, <2>5, <2>6
<1> QED BY <1>2, <1>3, <1>8 DEF Leaves

\* Every step keeps the live image.
LEMMA StepLive == FewCreators /\ LiveInv /\ [Next]_vars => LiveInv'
<1> SUFFICES ASSUME FewCreators, LiveInv, [Next]_vars PROVE LiveInv'
  OBVIOUS
<1>1. FleetInv'
  BY StepFleet DEF LiveInv
<1>2. ASSUME NEW p \in Procs, Step(p) \/ CallError(p) PROVE LiveInv'
  <2>1. Moves(p)
    BY <1>2, CreateKeeps, PollKeeps, PatchKeeps, CopyKeeps, ListVersionsKeeps, SetDefaultKeeps,
       DeregisterKeeps, QuietKeeps DEF Step, LiveInv, FleetInv
  <2>2. Leaves(p)
    BY <1>2, CreateLeaves, VersionLeaves, CleanupLeaves, RestLeaves DEF Step
  <2> QED BY <1>1, <2>1, <2>2, LeavesKeeps
<1>3. ASSUME Len(images') = Len(images), proc' = proc, UNCHANGED <<versions, default>>,
             \A i \in DOMAIN images' : i \in DOMAIN images /\ (images'[i] = "gone" => images[i] = "gone")
      PROVE  LiveInv'
  <2>1. Young'
    BY <1>3 DEF LiveInv, Young, Recent
  <2> QED BY <1>1, <1>3, <2>1 DEF LiveInv, Spares, Started, Recent
<1>4. CASE \E i \in DOMAIN images : Bake(i)
  <2>1. PICK i \in DOMAIN images, s \in {"available", "failed"} :
            images' = [images EXCEPT ![i] = s] /\ UNCHANGED <<versions, default, proc>>
    BY <1>4 DEF Bake
  <2>2. images \in Seq(States)
    BY DEF LiveInv, FleetInv, BackedInv
  <2> QED BY <1>3, <2>1, <2>2
<1>5. CASE RefreshEnds \/ UNCHANGED vars
  BY <1>3, <1>5 DEF RefreshEnds, vars
<1> QED BY <1>2, <1>4, <1>5 DEF Next

\* With two images kept more than there are creators, no cleanup deregisters the image
\* the template's default launches (ami.go:423-506), however many cleanups, rollbacks
\* and refreshes there are: each creator makes one image, and a rollback goes back by
\* one image at most.
THEOREM LiveImageStays == ASSUME FewCreators PROVE Spec => []LiveImageKept
<1>1. LiveInv => LiveImageKept
  BY DEF LiveInv, FleetInv, BackedInv, Backed, Fleet, Young, LiveImageKept
<1> QED BY <1>1, InitLive, StepLive, PTL DEF Spec
=============================================================================
