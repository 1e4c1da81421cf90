---- MODULE PulsePublisher ----
(***************************************************************************)
(* Publishing the captured days: day directories of zstd parts are         *)
(* uploaded to one GitHub release per day, verified, and then deleted      *)
(* (src/sphinx_pulse/publisher.py), while the collector process keeps      *)
(* appending to the same directories (src/sphinx_pulse/storage.py).        *)
(*                                                                         *)
(* A part is the set of records appended to it; its SHA-256 digest and     *)
(* size identify that set.  The manifest's content is the function from    *)
(* parts to what they held when they were measured, so every asset has a   *)
(* content of the same kind: a function from parts to sets of records.     *)
(***************************************************************************)
EXTENDS Integers, FiniteSets, FiniteSetsExt, Functions

CONSTANTS
    Records,      \* records the collector may capture
    LastDay,      \* bound on the calendar: days are 1 .. LastDay
    PartCount,    \* bound on the parts of a day
    Attempts,     \* POSTs upload_verified makes for one asset (6 in the code)
    Faults,       \* which faults the run has: a subset of FaultKinds
    MaxFaults     \* bound on the faults of a behaviour

(* "late": a batch may reach the disk after its UTC day ended.             *)
(* "busy": an upload may be answered 429 or 5xx.  "cut": it may end in a   *)
(* transport exception.  "down": another request may fail, its retries     *)
(* included.  "crash": the publisher process may be killed.                *)
FaultKinds == {"late", "busy", "cut", "down", "crash"}

ASSUME BoundsAssumption ==
    /\ LastDay \in Nat \ {0}
    /\ PartCount \in Nat \ {0}
    /\ Attempts \in Nat \ {0}
    /\ MaxFaults \in Nat
    /\ Faults \subseteq FaultKinds

Days == 1 .. LastDay
Parts == 1 .. PartCount

(* The manifest is uploaded after every part, so it sorts behind them.     *)
Manifest == PartCount + 1
Assets == 1 .. Manifest
Nothing == [p \in Parts |-> {}]

VARIABLES
    today,        \* the UTC date
    unseen,       \* records not captured yet
    pending,      \* per day, records in the collector's queue or batch
    disk,         \* per day, the parts of its directory ({}: no such file)
    settled,      \* days whose newest file is stable_age_seconds old
    released,     \* days whose release exists on GitHub
    remote,       \* per day, the release's assets
    receipts,     \* days with a local receipt
    faults,       \* per kind, faults so far
    late,         \* records that reached the disk after their day ended
    pc,           \* where the publisher is
    pass,         \* days its current pass still has to publish
    day,          \* the day being published
    specs,        \* its AssetSpecs: what each part held when measured
    todo,         \* parts or assets the current loop has not reached
    attempt       \* POSTs made for the current asset

capture == <<today, unseen, pending, late>>
local == <<disk, settled>>
github == <<released, remote>>
work == <<pass, day, specs, todo, attempt>>
vars == <<capture, local, github, receipts, faults, pc, work>>

(* The answer to a POST the publisher reacts to is part of its location.   *)
Locations ==
    {"asleep", "scanning", "measuring", "releasing", "checking", "posting",
     "recheckBusy", "recheckConflict", "verifying", "recording", "removing"}

Absent == [state |-> "absent", content |-> Nothing]
Starter == [state |-> "starter", content |-> Nothing]
Uploaded(c) == [state |-> "uploaded", content |-> c]

Present(d) == {p \in Parts : disk[d][p] # {}}

(* What upload_verified compares with: the digest of a part when it was    *)
(* measured, or the manifest made from all of them.                        *)
OnlyPart(c, p) == [q \in Parts |-> IF q = p THEN c[p] ELSE {}]
Spec(a) == IF a = Manifest THEN specs ELSE OnlyPart(specs, a)

(* What a POST sends: the file as it is now.                               *)
FileNow(a) == IF a = Manifest THEN specs ELSE OnlyPart(disk[day], a)

Listed(c) == {p \in Parts : c[p] # {}}
Matches(r, c) == r.state = "uploaded" /\ r.content = c

Init ==
    /\ today = 1
    /\ unseen = Records
    /\ pending = [d \in Days |-> {}]
    /\ disk = [d \in Days |-> Nothing]
    /\ settled = {}
    /\ released = {}
    /\ remote = [d \in Days |-> [a \in Assets |-> Absent]]
    /\ receipts = {}
    /\ faults = [k \in FaultKinds |-> 0]
    /\ late = {}
    /\ pc = "asleep"
    /\ pass = {}
    /\ day = 1
    /\ specs = Nothing
    /\ todo = {}
    /\ attempt = 0

(***************************************************************************)
(* The clock and the collector.                                            *)
(***************************************************************************)
NextDay ==
    /\ today < LastDay
    /\ "late" \in Faults \/ pending[today] = {}
    /\ today' = today + 1
    /\ UNCHANGED <<unseen, pending, late, local, github, receipts, faults, pc, work>>

(* A record is stamped with the time it was received.                      *)
Receive(r) ==
    /\ r \in unseen
    /\ unseen' = unseen \ {r}
    /\ pending' = [pending EXCEPT ![today] = @ \cup {r}]
    /\ UNCHANGED <<today, late, local, github, receipts, faults, pc, work>>

(* _target: the newest part while it has room, otherwise the next one.     *)
Targets(d) ==
    IF Present(d) = {} THEN {1}
    ELSE {Max(Present(d)), Max(Present(d)) + 1} \cap Parts

Append(d) ==
    \E rs \in (SUBSET pending[d]) \ {{}}, p \in Targets(d) :
        /\ pending' = [pending EXCEPT ![d] = @ \ rs]
        /\ disk' = [disk EXCEPT ![d][p] = @ \cup rs]
        /\ settled' = settled \ {d}
        /\ late' = IF d < today THEN late \cup rs ELSE late
        /\ UNCHANGED <<today, unseen, github, receipts, faults, pc, work>>

(* stable_age_seconds pass without an append to the directory.             *)
Settle(d) ==
    /\ Present(d) # {}
    /\ d \notin settled
    /\ settled' = settled \cup {d}
    /\ UNCHANGED <<capture, disk, github, receipts, faults, pc, work>>

(***************************************************************************)
(* One pass of run_loop.  An exception in any day ends the pass.           *)
(***************************************************************************)
GiveUp ==
    /\ pc' = "asleep"
    /\ pass' = {}
    /\ day' = 1
    /\ specs' = Nothing
    /\ todo' = {}
    /\ attempt' = 0

Fault(kind) ==
    /\ kind \in Faults
    /\ SumFunction(faults) < MaxFaults
    /\ faults' = [faults EXCEPT ![kind] = @ + 1]

\* Mutant: the current day counts as completed.
SlipEligible == {d \in settled : d =< today /\ Present(d) # {}}

Eligible == {d \in settled : d < today /\ Present(d) # {}}

Wake ==
    /\ pc = "asleep"
    /\ Eligible # {}
    /\ pass' = Eligible
    /\ pc' = "scanning"
    /\ UNCHANGED <<capture, local, github, receipts, faults, day, specs, todo, attempt>>

(* publish_day begins with the oldest day: _specs lists its files.         *)
TakeDay ==
    /\ pc = "scanning"
    /\ pass # {}
    /\ day' = Min(pass)
    /\ pass' = pass \ {day'}
    /\ specs' = Nothing
    /\ todo' = Present(day')
    /\ pc' = "measuring"
    /\ UNCHANGED <<capture, local, github, receipts, faults, attempt>>

Sleep ==
    /\ pc = "scanning"
    /\ pass = {}
    /\ GiveUp
    /\ UNCHANGED <<capture, local, github, receipts, faults>>

(* One file of _specs: its rows, size and digest.                          *)
MeasurePart ==
    /\ pc = "measuring"
    /\ todo # {}
    /\ specs' = [specs EXCEPT ![Min(todo)] = disk[day][Min(todo)]]
    /\ todo' = todo \ {Min(todo)}
    /\ UNCHANGED <<capture, local, github, receipts, faults, pc, pass, day, attempt>>

StageManifest ==
    /\ pc = "measuring"
    /\ todo = {}
    /\ todo' = Listed(specs) \cup {Manifest}
    /\ pc' = "releasing"
    /\ UNCHANGED <<capture, local, github, receipts, faults, pass, day, specs, attempt>>

EnsureRelease ==
    /\ pc = "releasing"
    /\ released' = released \cup {day}
    /\ pc' = "checking"
    /\ UNCHANGED <<capture, local, remote, receipts, faults, work>>

(* A request other than an upload: still 429 or 5xx after _request's own   *)
(* retries, or cut.  A release may have been created all the same.         *)
RequestFails ==
    /\ pc \in {"releasing", "checking", "recheckBusy", "recheckConflict", "verifying"}
    /\ Fault("down")
    /\ released' \in IF pc = "releasing" THEN {released, released \cup {day}} ELSE {released}
    /\ GiveUp
    /\ UNCHANGED <<capture, local, remote, receipts>>

(***************************************************************************)
(* upload_verified, for the first asset of todo.                           *)
(***************************************************************************)
Asset == Min(todo)
Found == remote[day][Asset]
Hosts(r) == [remote EXCEPT ![day] = [@ EXCEPT ![Asset] = r]]

(* This asset is done: on to the next, or to verify_assets.                *)
Advance ==
    /\ todo' = todo \ {Asset}
    /\ pc' = IF todo = {Asset} THEN "verifying" ELSE "checking"
    /\ attempt' = 0
    /\ UNCHANGED <<pass, day, specs>>

\* Mutant: an asset that finished uploading is taken for the right one.
SlipCheckExisting ==
    /\ pc = "checking"
    /\ \/ Found.state = "uploaded" /\ Advance
       \/ /\ Found.state = "absent"
          /\ pc' = "posting"
          /\ UNCHANGED work
       \/ /\ Found.state = "starter"
          /\ GiveUp
    /\ UNCHANGED <<capture, local, github, receipts, faults>>

\* Mutant: whatever is in the way of the manifest, the day counts as published.
SlipCheckDone ==
    /\ pc = "checking"
    /\ \/ Matches(Found, Spec(Asset)) /\ Advance
       \/ /\ Found.state = "absent"
          /\ pc' = "posting"
          /\ UNCHANGED work
       \/ /\ Found.state # "absent"
          /\ ~Matches(Found, Spec(Asset))
          /\ pc' = "recording"
          /\ UNCHANGED work
    /\ UNCHANGED <<capture, local, github, receipts, faults>>

(* The release's asset list is read before the first POST.                 *)
CheckExisting ==
    /\ pc = "checking"
    /\ \/ Matches(Found, Spec(Asset)) /\ Advance
       \/ /\ Found.state = "absent"
          /\ pc' = "posting"
          /\ UNCHANGED work
       \/ /\ Found.state # "absent"
          /\ ~Matches(Found, Spec(Asset))
          /\ GiveUp
    /\ UNCHANGED <<capture, local, github, receipts, faults>>

(* The upload succeeds; its digest is that of the file sent.               *)
PostAccepted ==
    /\ pc = "posting"
    /\ Found.state = "absent"
    /\ remote' = Hosts(Uploaded(FileNow(Asset)))
    /\ IF FileNow(Asset) = Spec(Asset) THEN Advance ELSE GiveUp
    /\ UNCHANGED <<capture, local, released, receipts, faults>>

(* 429 or 5xx.  GitHub may have kept nothing, an asset stuck in state      *)
(* "starter", or the whole upload.                                         *)
PostBusy ==
    /\ pc = "posting"
    /\ Found.state = "absent"
    /\ Fault("busy")
    /\ \E r \in {Absent, Starter, Uploaded(FileNow(Asset))} : remote' = Hosts(r)
    /\ pc' = "recheckBusy"
    /\ attempt' = attempt + 1
    /\ UNCHANGED <<capture, local, released, receipts, pass, day, specs, todo>>

(* 422: the name is taken, by what an earlier 5xx left behind.             *)
PostConflict ==
    /\ pc = "posting"
    /\ Found.state # "absent"
    /\ pc' = "recheckConflict"
    /\ attempt' = attempt + 1
    /\ UNCHANGED <<capture, local, github, receipts, faults, pass, day, specs, todo>>

(* A transport exception: nothing in upload_verified catches it.           *)
PostCut ==
    /\ pc = "posting"
    /\ Found.state = "absent"
    /\ Fault("cut")
    /\ \E r \in {Absent, Starter, Uploaded(FileNow(Asset))} : remote' = Hosts(r)
    /\ GiveUp
    /\ UNCHANGED <<capture, local, released, receipts>>

(* The sixth answer is raised; before it, POST again.                      *)
RetryPost ==
    IF attempt < Attempts THEN pc' = "posting" /\ UNCHANGED work ELSE GiveUp

\* Mutant: whatever does not match is deleted.
SlipRecheck ==
    /\ pc \in {"recheckBusy", "recheckConflict"}
    /\ IF Matches(Found, Spec(Asset))
       THEN Advance /\ UNCHANGED remote
       ELSE remote' = Hosts(Absent) /\ RetryPost
    /\ UNCHANGED <<capture, local, released, receipts, faults>>

\* Mutant: a starter is left where it is.
SlipRecheckKeeps ==
    /\ pc \in {"recheckBusy", "recheckConflict"}
    /\ \/ Matches(Found, Spec(Asset)) /\ Advance
       \/ ~Matches(Found, Spec(Asset)) /\ RetryPost
    /\ UNCHANGED <<capture, local, github, receipts, faults>>

(* What a refused POST left: a match is accepted, a starter deleted, and   *)
(* a conflict with anything else is an error.                              *)
Recheck ==
    /\ pc \in {"recheckBusy", "recheckConflict"}
    /\ \/ /\ Matches(Found, Spec(Asset))
          /\ Advance
          /\ UNCHANGED remote
       \/ /\ Found.state = "starter"
          /\ remote' = Hosts(Absent)
          /\ RetryPost
       \/ /\ Found.state # "starter"
          /\ ~Matches(Found, Spec(Asset))
          /\ IF pc = "recheckConflict" THEN GiveUp ELSE RetryPost
          /\ UNCHANGED remote
    /\ UNCHANGED <<capture, local, released, receipts, faults>>

(***************************************************************************)
(* Verification, receipt and deletion.                                     *)
(***************************************************************************)
VerifyAssets ==
    /\ pc = "verifying"
    /\ IF \A a \in Listed(specs) \cup {Manifest} : Matches(remote[day][a], Spec(a))
       THEN pc' = "recording" /\ UNCHANGED work
       ELSE GiveUp
    /\ UNCHANGED <<capture, local, github, receipts, faults>>

WriteReceipt ==
    /\ pc = "recording"
    /\ receipts' = receipts \cup {day}
    /\ todo' = Parts
    /\ pc' = "removing"
    /\ UNCHANGED <<capture, local, github, faults, pass, day, specs, attempt>>

(* rmtree comes to a name: it unlinks the file, if there is one by then,   *)
(* with all that was appended to it.                                       *)
RemovePart(p) ==
    /\ pc = "removing"
    /\ p \in todo
    /\ disk' = [disk EXCEPT ![day] = [@ EXCEPT ![p] = {}]]
    /\ todo' = todo \ {p}
    /\ UNCHANGED <<capture, settled, github, receipts, faults, pc, pass, day, specs, attempt>>

(* The directory is removed; rmdir fails if a file came behind rmtree.     *)
FinishRemoval ==
    /\ pc = "removing"
    /\ todo = {}
    /\ IF Present(day) = {} THEN pc' = "scanning" /\ UNCHANGED work ELSE GiveUp
    /\ UNCHANGED <<capture, local, github, receipts, faults>>

(* The container is restarted; only the disk and the release remain.       *)
Crash ==
    /\ pc # "asleep"
    /\ Fault("crash")
    /\ GiveUp
    /\ UNCHANGED <<capture, local, github, receipts>>

Publish ==
    \/ Wake \/ TakeDay \/ Sleep
    \/ MeasurePart \/ StageManifest
    \/ EnsureRelease \/ RequestFails
    \/ CheckExisting
    \/ PostAccepted \/ PostBusy \/ PostConflict \/ PostCut
    \/ Recheck
    \/ VerifyAssets \/ WriteReceipt
    \/ \E p \in Parts : RemovePart(p)
    \/ FinishRemoval

Next ==
    \/ NextDay
    \/ \E r \in Records : Receive(r)
    \/ \E d \in Days : Append(d)
    \/ \E d \in Days : Settle(d)
    \/ Publish
    \/ Crash

(* Any number of faults up to MaxFaults, but the processes keep running.   *)
Fairness ==
    /\ WF_vars(NextDay)
    /\ \A d \in Days : WF_vars(Append(d)) /\ WF_vars(Settle(d))
    /\ WF_vars(Publish)

PulseSpec == Init /\ [][Next]_vars
FairSpec == PulseSpec /\ Fairness

(***************************************************************************)
(* Properties.                                                             *)
(***************************************************************************)

(* The release of day d holds a manifest and every part it names, with the *)
(* content it names.                                                       *)
Complete(d) ==
    LET manifest == remote[d][Manifest]
    IN  /\ manifest.state = "uploaded"
        /\ Listed(manifest.content) # {}
        /\ \A p \in Listed(manifest.content) :
               Matches(remote[d][p], OnlyPart(manifest.content, p))

(* A manifest on GitHub is never ahead of the parts it vouches for, and a  *)
(* local receipt is never ahead of the manifest, whatever fails in between *)
(* (publish_day uploads the manifest last and verifies before the receipt).*)
ReleasesAreComplete ==
    /\ \A d \in Days : remote[d][Manifest].state = "uploaded" => Complete(d)
    /\ \A d \in receipts : Complete(d)

(* Nothing on GitHub that finished uploading is replaced or deleted: the   *)
(* retries of upload_verified delete starters only.  And a file leaves the *)
(* disk only from a day with a complete release and a receipt: a partial   *)
(* or failed upload never triggers deletion.                               *)
NothingTakenBack ==
    [][\A d \in Days :
          /\ \A a \in Assets :
               remote[d][a].state = "uploaded" => remote'[d][a] = remote[d][a]
          /\ \A p \in Parts :
               disk[d][p] # {} /\ disk'[d][p] = {} => d \in receipts /\ Complete(d)]_vars

(* The records a reader of the releases finds.                             *)
Published ==
    UNION {UNION {remote[d][Manifest].content[p] : p \in Parts} : d \in {e \in Days : Complete(e)}}
OnDisk == UNION {UNION {disk[d][p] : p \in Parts} : d \in Days}

(* What stands in the release of day d is not what its directory holds:    *)
(* upload_verified refuses it on every pass.                               *)
Obstructed(d) ==
    /\ Present(d) # {}
    /\ \E a \in Assets :
          /\ remote[d][a].state # "absent"
          /\ ~Matches(remote[d][a], IF a = Manifest THEN disk[d] ELSE OnlyPart(disk[d], a))

(* The faults upload_verified has no repair for.                           *)
Unrepaired == late # {} \/ \E k \in {"cut", "down", "crash"} : faults[k] > 0

(* Every completed day with captured files gets its receipt, whatever      *)
(* number of busy answers the uploads met; the one thing that can stop it  *)
(* for good is a day no later than it whose release a late batch, a cut, a *)
(* failed request or a crash left at odds with the directory.              *)
PublishedOrObstructed ==
    \A d \in Days :
        (d < today /\ Present(d) # {}) ~>
            \/ d \in receipts
            \/ \E e \in 1 .. d : [](Unrepaired /\ Obstructed(e))

(* The archive's promise (module PulseArchive), kept by this publisher for *)
(* every record that reached the disk on its own day.                      *)
Archive == INSTANCE PulseArchive WITH
    kept <- OnDisk \ late, archived <- Published \ late
Archives == Archive!Spec
====
