---------------------------- MODULE PulseProofs ----------------------------
(***************************************************************************)
(* The publisher of Sphinx Pulse loses nothing: for any number of days,    *)
(* parts, records, POSTs and faults of every kind, a manifest on GitHub    *)
(* never vouches for what is not there, a file is deleted only behind a    *)
(* complete release, and the archive's promise is kept.                    *)
(***************************************************************************)
EXTENDS PulsePublisher, PulseCollector, WellFoundedInduction, TLAPS

Contents == [Parts -> SUBSET Records]
RemoteAsset == [state: {"absent", "starter", "uploaded"}, content: Contents]

Types ==
    /\ today \in Days
    /\ unseen \subseteq Records /\ late \subseteq Records
    /\ pending \in [Days -> SUBSET Records]
    /\ disk \in [Days -> Contents]
    /\ settled \subseteq Days
    /\ remote \in [Days -> [Assets -> RemoteAsset]]
    /\ receipts \subseteq Days
    /\ pass \subseteq Days /\ day \in Days
    /\ specs \in Contents /\ todo \subseteq Assets

(* A record is captured once, so what is not on the disk yet is nowhere    *)
(* else, either.                                                           *)
CapturedOnce ==
    /\ \A d \in Days : unseen \cap pending[d] = {}
    /\ \A d, e \in Days : d # e => pending[d] \cap pending[e] = {}
    /\ \A d, e \in Days, p \in Parts :
          (unseen \cup pending[d])
              \cap (disk[e][p] \cup remote[e][Manifest].content[p]) = {}

Publishing == pc \notin {"asleep", "scanning"}
Uploading == pc \in {"checking", "posting", "recheckBusy", "recheckConflict"}

(* The days of a pass are over, and nobody else takes their files.         *)
DaysAreOver ==
    /\ \A d \in pass : d < today /\ Present(d) # {}
    /\ Publishing => day < today /\ day \notin pass

(* What was measured was on the disk, and what came later came late.       *)
MeasuredFromDisk ==
    /\ pc = "measuring" =>
          /\ todo \subseteq Present(day)
          /\ todo # {} \/ Listed(specs) # {}
    /\ Publishing /\ pc # "removing" => \A p \in Parts : specs[p] \subseteq disk[day][p]
    /\ Publishing =>
          \A p \in Parts : (pc = "measuring" /\ p \in todo)
                              \/ disk[day][p] \subseteq specs[p] \cup late
    /\ Publishing /\ pc # "measuring" => Listed(specs) # {}

(* The manifest is behind all parts, and what is done stays there.         *)
PartsBeforeManifest ==
    /\ pc = "releasing" => todo = Listed(specs) \cup {Manifest}
    /\ Uploading =>
          /\ Manifest \in todo /\ todo \subseteq Listed(specs) \cup {Manifest}
          /\ \A p \in Listed(specs) \ todo : Matches(remote[day][p], OnlyPart(specs, p))
    /\ pc \in {"recording", "removing"} =>
          /\ Matches(remote[day][Manifest], specs)
          /\ \A p \in Listed(specs) : Matches(remote[day][p], OnlyPart(specs, p))
    /\ pc = "removing" => day \in receipts

IInv ==
    /\ Types
    /\ CapturedOnce
    /\ DaysAreOver
    /\ MeasuredFromDisk
    /\ PartsBeforeManifest
    /\ ReleasesAreComplete
----------------------------------------------------------------------------
(* Facts about data.                                                       *)

LEMMA MinFacts ==
  ASSUME NEW T \in SUBSET Nat, T # {}
  PROVE  Min(T) \in T /\ \A y \in T : Min(T) <= y
<1>. DEFINE R == OpToRel(<, Nat)
<1>1. \E x \in T : \A y \in T : ~ (<<y, x>> \in R)
  BY NatLessThanWellFounded, WFMin
<1>2. PICK x \in T : \A y \in T : ~ (<<y, x>> \in R)
  BY <1>1
<1>. HIDE DEF R
<1>3. ASSUME NEW y \in T PROVE x <= y
  <2>1. x \in Nat /\ y \in Nat
    OBVIOUS
  <2>2. y < x => <<y, x>> \in R
    BY <2>1 DEF R, OpToRel
  <2>. QED  BY <1>2, <2>1, <2>2
<1>4. \A y \in T : x <= y
  BY <1>3
<1>. QED  BY <1>4 DEF Min

LEMMA AssetFacts ==
         /\ Parts \subseteq Nat /\ Assets \subseteq Nat
         /\ Manifest \in Assets /\ Manifest \notin Parts
         /\ Assets = Parts \cup {Manifest}
         /\ \A p \in Parts : p < Manifest
         /\ 1 \in Days /\ Days \subseteq Nat
  BY BoundsAssumption DEF Parts, Assets, Manifest, Days

LEMMA NothingIsEmpty ==
         Nothing \in Contents /\ Listed(Nothing) = {} /\ \A p \in Parts : Nothing[p] = {}
  BY DEF Nothing, Contents, Listed

LEMMA OnlyPartType ==
  ASSUME NEW c \in Contents, NEW p \in Parts
  PROVE  OnlyPart(c, p) \in Contents
  BY DEF OnlyPart, Contents

LEMMA RemoteAssetTypes ==
  ASSUME NEW c \in Contents
  PROVE  /\ Absent \in RemoteAsset /\ Starter \in RemoteAsset
         /\ Uploaded(c) \in RemoteAsset /\ Uploaded(c).content = c
         /\ Absent.state # "uploaded" /\ Starter.state # "uploaded"
         /\ Absent.content = Nothing /\ Starter.content = Nothing
  BY NothingIsEmpty DEF Absent, Starter, Uploaded, RemoteAsset

(* What finished uploading stays, so a complete release stays complete.    *)
UploadsStay ==
    \A d \in Days, a \in Assets :
        remote[d][a].state = "uploaded" => remote'[d][a] = remote[d][a]

LEMMA CompleteStays ==
  ASSUME UploadsStay, NEW d \in Days, Complete(d), Types
  PROVE  Complete(d)'
<1>. DEFINE c == remote[d][Manifest].content
<1>1. /\ remote[d][Manifest].state = "uploaded" /\ Listed(c) # {}
      /\ \A p \in Listed(c) : Matches(remote[d][p], OnlyPart(c, p))
  BY DEF Complete
<1>2. remote'[d][Manifest] = remote[d][Manifest]
  BY <1>1, AssetFacts DEF UploadsStay
<1>3. \A p \in Listed(c) : remote'[d][p] = remote[d][p]
  BY <1>1, AssetFacts DEF UploadsStay, Matches, Listed
<1>. QED  BY <1>1, <1>2, <1>3 DEF Complete, Listed, OnlyPart, Matches
----------------------------------------------------------------------------
(* The asset an upload is at.                                              *)
LEMMA AssetIsNext ==
  ASSUME IInv, Uploading
  PROVE  /\ Asset \in todo /\ Asset \in Assets
         /\ Asset \in Listed(specs) \cup {Manifest}
         /\ Asset = Manifest => todo = {Manifest}
         /\ Asset # Manifest => Asset \in Parts /\ Manifest \in todo \ {Asset}
<1>1. /\ todo \subseteq Assets /\ Manifest \in todo
      /\ todo \subseteq Listed(specs) \cup {Manifest}
  BY DEF IInv, Types, PartsBeforeManifest
<1>2. todo \in SUBSET Nat /\ todo # {}
  BY <1>1, AssetFacts
<1>3. Asset \in todo /\ \A a \in todo : Asset <= a
  BY <1>2, MinFacts DEF Asset
<1>4. ASSUME Asset = Manifest PROVE todo = {Manifest}
  <2>1. \A a \in todo : ~ (a < Manifest)
    BY <1>2, <1>3, <1>4
  <2>. QED  BY <1>1, <2>1, AssetFacts
<1>. QED  BY <1>1, <1>3, <1>4, AssetFacts

LEMMA SpecFacts ==
  ASSUME IInv
  PROVE  /\ Spec(Manifest) = specs
         /\ \A p \in Parts : Spec(p) = OnlyPart(specs, p)
         /\ \A a \in Assets : FileNow(a) \in Contents
         /\ FileNow(Manifest) = specs
<1>1. specs \in Contents /\ disk[day] \in Contents
  BY DEF IInv, Types
<1>. QED  BY <1>1, AssetFacts, OnlyPartType DEF Spec, FileNow

(* A new content of the asset an upload is at, which was not there or only *)
(* a starter: nothing complete is touched, and a manifest comes last.      *)
LEMMA HostStep ==
  ASSUME IInv, Uploading, Found.state # "uploaded",
         NEW r \in {Absent, Starter, Uploaded(FileNow(Asset))},
         remote' = Hosts(r), UNCHANGED <<capture, disk, receipts>>
  PROVE  /\ remote' \in [Days -> [Assets -> RemoteAsset]]
         /\ remote'[day][Asset] = r
         /\ UploadsStay
         /\ CapturedOnce'
         /\ ReleasesAreComplete'
<1>. DEFINE a == Asset
<1>1. /\ a \in Assets /\ (a = Manifest => todo = {Manifest})
      /\ day \in Days /\ remote \in [Days -> [Assets -> RemoteAsset]]
  BY AssetIsNext DEF IInv, Types
<1>2. /\ remote' = [remote EXCEPT ![day] = [remote[day] EXCEPT ![a] = r]]
      /\ remote[day][a].state # "uploaded"
  BY DEF Hosts, Found
<1>3. r \in RemoteAsset /\ (r.content = Nothing \/ r = Uploaded(FileNow(a)))
  BY <1>1, SpecFacts, RemoteAssetTypes
<1>. HIDE DEF a
<1>4. \A d \in Days, b \in Assets :
        remote'[d][b] = IF d = day /\ b = a THEN r ELSE remote[d][b]
  BY <1>1, <1>2
<1>5. remote' \in [Days -> [Assets -> RemoteAsset]]
  BY <1>1, <1>2, <1>3
<1>6. UploadsStay
  BY <1>2, <1>4 DEF UploadsStay
<1>7. ASSUME a = Manifest, r.state = "uploaded"
      PROVE  r.content = specs /\ r = Uploaded(specs)
  BY <1>7, SpecFacts, RemoteAssetTypes DEF a, IInv, Types
<1>8. CapturedOnce'
  <2>1. ASSUME NEW d \in Days, NEW e \in Days, NEW p \in Parts
        PROVE  (unseen \cup pending[d])
                  \cap (disk[e][p] \cup remote'[e][Manifest].content[p]) = {}
    <3>1. (unseen \cup pending[d]) \cap (disk[e][p] \cup remote[e][Manifest].content[p]) = {}
      BY DEF IInv, CapturedOnce
    <3>2. CASE e = day /\ a = Manifest
      <4>1. remote'[e][Manifest] = r
        BY <1>1, <1>4, <3>2
      <4>2. r.content[p] \subseteq disk[e][p]
        <5>1. CASE r.content = Nothing
          BY <5>1, NothingIsEmpty
        <5>2. CASE r = Uploaded(FileNow(a))
          <6>1. r.content = specs
            BY <3>2, <5>2, SpecFacts, RemoteAssetTypes DEF IInv, Types
          <6>2. specs[p] \subseteq disk[day][p]
            BY DEF IInv, MeasuredFromDisk, Publishing, Uploading
          <6>. QED  BY <3>2, <6>1, <6>2
        <5>. QED  BY <1>3, <5>1, <5>2
      <4>. QED  BY <3>1, <4>1, <4>2
    <3>3. CASE ~ (e = day /\ a = Manifest)
      BY <1>4, <3>1, <3>3, AssetFacts
    <3>. QED  BY <3>2, <3>3
  <2>2. UNCHANGED <<unseen, pending, disk>>
    BY DEF capture
  <2>. QED  BY <2>1, <2>2 DEF IInv, CapturedOnce
<1>9. ReleasesAreComplete'
  <2>1. \A d \in Days : Complete(d) => Complete(d)'
    BY <1>6, CompleteStays DEF IInv
  <2>2. ASSUME NEW d \in Days, remote'[d][Manifest].state = "uploaded"
        PROVE  Complete(d)'
    <3>1. CASE remote[d][Manifest].state = "uploaded"
      BY <2>1, <3>1 DEF IInv, ReleasesAreComplete
    <3>2. CASE remote[d][Manifest].state # "uploaded"
      <4>1. d = day /\ a = Manifest /\ remote'[d][Manifest] = r
        BY <1>4, <2>2, <3>2, AssetFacts
      <4>2. r.content = specs /\ r.state = "uploaded"
        BY <1>7, <2>2, <4>1
      <4>3. Listed(specs) # {} /\ todo = {Manifest}
        BY <1>1, <4>1 DEF a, IInv, MeasuredFromDisk, Publishing, Uploading
      <4>4. \A p \in Listed(specs) :
               p \in Parts /\ p \in Assets /\ Matches(remote[day][p], OnlyPart(specs, p))
        BY <4>3, AssetFacts DEF IInv, PartsBeforeManifest, Listed
      <4>5. \A p \in Listed(specs) : remote'[day][p] = remote[day][p]
        BY <1>1, <1>4, <4>1, <4>4, AssetFacts
      <4>. QED
        BY <4>1, <4>2, <4>3, <4>4, <4>5 DEF Complete, Listed, OnlyPart, Matches
    <3>. QED  BY <3>1, <3>2
  <2>3. receipts' = receipts /\ receipts \subseteq Days
    BY DEF IInv, Types
  <2>. QED  BY <2>1, <2>2, <2>3 DEF IInv, ReleasesAreComplete
<1>. QED  BY <1>1, <1>4, <1>5, <1>6, <1>8, <1>9 DEF a

(* Nothing happens on GitHub, the disk or the collector's side.            *)
LEMMA NothingHosted ==
  ASSUME IInv, UNCHANGED <<capture, disk, remote, receipts>>
  PROVE  CapturedOnce' /\ ReleasesAreComplete' /\ UploadsStay
<1>1. UNCHANGED <<unseen, pending>>
  BY DEF capture
<1>2. CapturedOnce'
  BY <1>1 DEF IInv, CapturedOnce
<1>3. ReleasesAreComplete'
  BY DEF IInv, ReleasesAreComplete, Complete, Matches, Listed, OnlyPart
<1>. QED  BY <1>2, <1>3 DEF UploadsStay

(* The publisher falls back to sleep, wherever it was.                     *)
LEMMA GiveUpStep ==
  ASSUME IInv, GiveUp, UNCHANGED <<capture, disk, settled, receipts>>,
         remote' \in [Days -> [Assets -> RemoteAsset]],
         CapturedOnce', ReleasesAreComplete'
  PROVE  IInv'
<1>1. pc' = "asleep" /\ pass' = {} /\ day' = 1 /\ specs' = Nothing /\ todo' = {}
  BY DEF GiveUp
<1>2. Types'
  BY <1>1, AssetFacts, NothingIsEmpty DEF IInv, Types, capture
<1>3. DaysAreOver' /\ MeasuredFromDisk' /\ PartsBeforeManifest'
  BY <1>1 DEF DaysAreOver, MeasuredFromDisk, PartsBeforeManifest, Publishing, Uploading
<1>. QED  BY <1>2, <1>3 DEF IInv

(* The publisher stays at its asset.                                       *)
LEMMA SameAssetStep ==
  ASSUME IInv, Uploading, Uploading', UploadsStay,
         UNCHANGED <<capture, disk, settled, receipts, pass, day, specs, todo>>,
         remote' \in [Days -> [Assets -> RemoteAsset]],
         CapturedOnce', ReleasesAreComplete'
  PROVE  IInv'
<1>1. UNCHANGED <<today, unseen, pending, late>>
  BY DEF capture
<1>2. Types'
  BY <1>1 DEF IInv, Types
<1>3. DaysAreOver'
  BY <1>1 DEF IInv, DaysAreOver, Publishing, Uploading, Present
<1>4. MeasuredFromDisk'
  BY <1>1 DEF IInv, MeasuredFromDisk, Publishing, Uploading, Listed
<1>5. PartsBeforeManifest'
  <2>1. \A p \in Listed(specs) \ todo : remote'[day][p] = remote[day][p]
    BY AssetFacts DEF IInv, Types, PartsBeforeManifest, UploadsStay, Listed, Matches
  <2>. QED
    BY <2>1 DEF IInv, PartsBeforeManifest, Uploading, Listed, OnlyPart, Matches
<1>. QED  BY <1>2, <1>3, <1>4, <1>5 DEF IInv

(* An asset that is there as it should be is done.                         *)
LEMMA AdvanceStep ==
  ASSUME IInv, Uploading, Advance, UploadsStay,
         Matches(remote'[day][Asset], Spec(Asset)),
         UNCHANGED <<capture, disk, settled, receipts>>,
         remote' \in [Days -> [Assets -> RemoteAsset]],
         CapturedOnce', ReleasesAreComplete'
  PROVE  IInv'
<1>1. /\ UNCHANGED <<today, unseen, pending, late, pass, day, specs>>
      /\ todo' = todo \ {Asset}
      /\ pc' = IF todo = {Asset} THEN "verifying" ELSE "checking"
  BY DEF Advance, capture
<1>2. Types'
  BY <1>1 DEF IInv, Types
<1>3. DaysAreOver'
  BY <1>1 DEF IInv, DaysAreOver, Publishing, Uploading, Present
<1>4. MeasuredFromDisk'
  BY <1>1 DEF IInv, MeasuredFromDisk, Publishing, Uploading, Listed
<1>5. PartsBeforeManifest'
  <2>1. CASE pc' = "verifying"
    BY <2>1 DEF PartsBeforeManifest, Uploading
  <2>2. CASE pc' = "checking"
    <3>1. Asset # Manifest
      BY <1>1, <2>2, AssetIsNext
    <3>2. Manifest \in todo' /\ todo' \subseteq Listed(specs) \cup {Manifest}
      BY <1>1, <3>1, AssetIsNext DEF IInv, PartsBeforeManifest
    <3>3. ASSUME NEW p \in Listed(specs) \ todo'
          PROVE  Matches(remote'[day][p], OnlyPart(specs, p))
      <4>1. CASE p = Asset
        BY <3>1, <4>1, AssetIsNext, SpecFacts
      <4>2. CASE p # Asset
        <5>1. Matches(remote[day][p], OnlyPart(specs, p)) /\ p \in Assets
          BY <1>1, <3>3, <4>2, AssetFacts DEF IInv, PartsBeforeManifest, Listed
        <5>. QED  BY <5>1 DEF IInv, Types, UploadsStay, Matches
      <4>. QED  BY <4>1, <4>2
    <3>. QED
      BY <1>1, <2>2, <3>2, <3>3
      DEF PartsBeforeManifest, Uploading, Listed, OnlyPart, Matches
  <2>. QED  BY <1>1, <2>1, <2>2
<1>. QED  BY <1>2, <1>3, <1>4, <1>5 DEF IInv
----------------------------------------------------------------------------
(* The clock and the collector.                                            *)

LEMMA NextDayStep ==
  ASSUME IInv, NextDay
  PROVE  IInv'
<1>1. /\ today' = today + 1 /\ today' \in Days
      /\ UNCHANGED <<unseen, pending, late, disk, settled, remote, receipts,
                     pc, pass, day, specs, todo>>
  BY BoundsAssumption DEF NextDay, local, github, work, IInv, Types, Days
<1>2. Types'
  BY <1>1 DEF IInv, Types
<1>3. CapturedOnce'
  BY <1>1 DEF IInv, CapturedOnce
<1>4. DaysAreOver'
  <2>1. \A d \in Days : d < today => d < today'
    BY <1>1, AssetFacts DEF IInv, Types
  <2>. QED  BY <1>1, <2>1 DEF IInv, Types, DaysAreOver, Publishing, Present
<1>5. MeasuredFromDisk'
  BY <1>1 DEF IInv, MeasuredFromDisk, Publishing, Listed, Present
<1>6. PartsBeforeManifest'
  BY <1>1 DEF IInv, PartsBeforeManifest, Uploading, Listed, OnlyPart, Matches
<1>7. ReleasesAreComplete'
  BY <1>1 DEF IInv, ReleasesAreComplete, Complete, Matches, Listed, OnlyPart
<1>. QED  BY <1>2, <1>3, <1>4, <1>5, <1>6, <1>7 DEF IInv

LEMMA ReceiveStep ==
  ASSUME IInv, NEW r \in Records, Receive(r)
  PROVE  IInv'
<1>1. /\ r \in unseen /\ unseen' = unseen \ {r}
      /\ pending' = [pending EXCEPT ![today] = pending[today] \cup {r}]
      /\ UNCHANGED <<today, late, disk, settled, remote, receipts,
                     pc, pass, day, specs, todo>>
  BY DEF Receive, local, github, work
<1>2. \A d \in Days : pending'[d] = IF d = today THEN pending[d] \cup {r} ELSE pending[d]
  BY <1>1 DEF IInv, Types
<1>3. Types'
  BY <1>1 DEF IInv, Types
<1>4. CapturedOnce'
  <2>1. \A d \in Days : r \notin pending[d]
    BY <1>1 DEF IInv, CapturedOnce
  <2>2. \A d \in Days : unseen' \cap pending'[d] = {}
    BY <1>1, <1>2 DEF IInv, CapturedOnce
  <2>3. ASSUME NEW d \in Days, NEW e \in Days, d # e
        PROVE  pending'[d] \cap pending'[e] = {}
    <3>1. /\ pending[d] \cap pending[e] = {} /\ r \notin pending[d] /\ r \notin pending[e]
          /\ d # today \/ e # today
      BY <2>1, <2>3 DEF IInv, CapturedOnce
    <3>. QED  BY <1>2, <3>1
  <2>4. \A d \in Days : unseen' \cup pending'[d] \subseteq unseen \cup pending[d]
    BY <1>1, <1>2
  <2>. QED  BY <1>1, <2>2, <2>3, <2>4 DEF IInv, CapturedOnce
<1>5. DaysAreOver'
  BY <1>1 DEF IInv, Types, DaysAreOver, Publishing, Present
<1>6. MeasuredFromDisk'
  BY <1>1 DEF IInv, MeasuredFromDisk, Publishing, Listed, Present
<1>7. PartsBeforeManifest'
  BY <1>1 DEF IInv, PartsBeforeManifest, Uploading, Listed, OnlyPart, Matches
<1>8. ReleasesAreComplete'
  BY <1>1 DEF IInv, ReleasesAreComplete, Complete, Matches, Listed, OnlyPart
<1>. QED  BY <1>3, <1>4, <1>5, <1>6, <1>7, <1>8 DEF IInv

(* A batch of pending records reaches the disk.                            *)
LEMMA AppendFacts ==
  ASSUME IInv, NEW d \in Days, Append(d)
  PROVE  \E rs \in SUBSET pending[d], p \in Parts :
           /\ pending' = [pending EXCEPT ![d] = pending[d] \ rs]
           /\ disk' = [disk EXCEPT ![d][p] = disk[d][p] \cup rs]
           /\ \A e \in Days, q \in Parts :
                 disk'[e][q] = IF e = d /\ q = p THEN disk[e][q] \cup rs ELSE disk[e][q]
           /\ late' = IF d < today THEN late \cup rs ELSE late
           /\ settled' = settled \ {d}
           /\ UNCHANGED <<today, unseen, remote, receipts, pc, pass, day, specs, todo>>
<1>1. PICK rs \in (SUBSET pending[d]) \ {{}}, p \in Targets(d) :
        /\ pending' = [pending EXCEPT ![d] = pending[d] \ rs]
        /\ disk' = [disk EXCEPT ![d][p] = disk[d][p] \cup rs]
        /\ settled' = settled \ {d}
        /\ late' = IF d < today THEN late \cup rs ELSE late
        /\ UNCHANGED <<today, unseen, github, receipts, faults, pc, work>>
  BY DEF Append
<1>2. p \in Parts
  BY BoundsAssumption DEF Targets, Parts
<1>3. disk \in [Days -> Contents] /\ disk[d] \in Contents
  BY DEF IInv, Types
<1>4. \A e \in Days, q \in Parts :
         disk'[e][q] = IF e = d /\ q = p THEN disk[e][q] \cup rs ELSE disk[e][q]
  BY <1>1, <1>2, <1>3 DEF Contents
<1>. QED  BY <1>1, <1>2, <1>4 DEF github, work

LEMMA AppendGrows ==
  ASSUME IInv, NEW d \in Days, Append(d)
  PROVE  \A e \in Days, q \in Parts : disk[e][q] \subseteq disk'[e][q]
<1>1. PICK rs \in SUBSET pending[d], p \in Parts :
         /\ pending' = [pending EXCEPT ![d] = pending[d] \ rs]
         /\ disk' = [disk EXCEPT ![d][p] = disk[d][p] \cup rs]
         /\ \A e \in Days, q \in Parts :
               disk'[e][q] = IF e = d /\ q = p THEN disk[e][q] \cup rs ELSE disk[e][q]
         /\ late' = IF d < today THEN late \cup rs ELSE late
         /\ settled' = settled \ {d}
         /\ UNCHANGED <<today, unseen, remote, receipts, pc, pass, day, specs, todo>>
  BY AppendFacts
<1>. QED  BY <1>1

LEMMA AppendStep ==
  ASSUME IInv, NEW d \in Days, Append(d)
  PROVE  IInv'
<1>1. PICK rs \in SUBSET pending[d], p \in Parts :
         /\ pending' = [pending EXCEPT ![d] = pending[d] \ rs]
         /\ disk' = [disk EXCEPT ![d][p] = disk[d][p] \cup rs]
         /\ \A e \in Days, q \in Parts :
               disk'[e][q] = IF e = d /\ q = p THEN disk[e][q] \cup rs ELSE disk[e][q]
         /\ late' = IF d < today THEN late \cup rs ELSE late
         /\ settled' = settled \ {d}
         /\ UNCHANGED <<today, unseen, remote, receipts, pc, pass, day, specs, todo>>
  BY AppendFacts
<1>2. rs \subseteq Records /\ rs \subseteq pending[d]
  BY DEF IInv, Types
<1>3. Types'
  <2>1. disk[d] \in Contents /\ disk[d][p] \cup rs \in SUBSET Records
    BY <1>2 DEF IInv, Types, Contents
  <2>2. [disk[d] EXCEPT ![p] = disk[d][p] \cup rs] \in Contents
    BY <2>1 DEF Contents
  <2>3. disk' \in [Days -> Contents]
    BY <1>1, <2>2 DEF IInv, Types
  <2>4. pending' \in [Days -> SUBSET Records]
    BY <1>1 DEF IInv, Types
  <2>. QED  BY <1>1, <1>2, <2>3, <2>4 DEF IInv, Types
<1>4. CapturedOnce'
  <2>1. \A e \in Days : pending'[e] = IF e = d THEN pending[e] \ rs ELSE pending[e]
    BY <1>1 DEF IInv, Types
  <2>2. \A e \in Days : unseen' \cap pending'[e] = {}
    BY <1>1, <2>1 DEF IInv, CapturedOnce
  <2>3. \A e, f \in Days : e # f => pending'[e] \cap pending'[f] = {}
    BY <2>1 DEF IInv, CapturedOnce
  <2>4. \A e \in Days : (unseen' \cup pending'[e]) \cap rs = {}
    BY <1>1, <1>2, <2>1 DEF IInv, CapturedOnce
  <2>5. \A e \in Days : unseen' \cup pending'[e] \subseteq unseen \cup pending[e]
    BY <1>1, <2>1
  <2>6. ASSUME NEW e \in Days, NEW f \in Days, NEW q \in Parts
        PROVE  (unseen' \cup pending'[e])
                  \cap (disk'[f][q] \cup remote'[f][Manifest].content[q]) = {}
    <3>1. (unseen \cup pending[e])
             \cap (disk[f][q] \cup remote[f][Manifest].content[q]) = {}
      BY DEF IInv, CapturedOnce
    <3>2. disk'[f][q] \subseteq disk[f][q] \cup rs
      BY <1>1
    <3>. QED  BY <1>1, <2>4, <2>5, <3>1, <3>2
  <2>. QED  BY <2>2, <2>3, <2>6 DEF CapturedOnce
<1>5. \A e \in Days : {q \in Parts : disk[e][q] # {}} \subseteq {q \in Parts : disk'[e][q] # {}}
  BY <1>1
<1>6. DaysAreOver'
  BY <1>1, <1>5 DEF IInv, Types, DaysAreOver, Publishing, Present
<1>7. MeasuredFromDisk'
  <2>1. \A q \in Parts : disk[day][q] \subseteq disk'[day][q]
    BY <1>1 DEF IInv, Types
  <2>2. Publishing => \A q \in Parts :
           disk[day][q] \subseteq specs[q] \cup late => disk'[day][q] \subseteq specs[q] \cup late'
    <3>1. Publishing => (d = day => late' = late \cup rs)
      BY <1>1 DEF IInv, DaysAreOver
    <3>. QED  BY <1>1, <3>1 DEF IInv, Types
  <2>3. /\ pc = "measuring" =>
              /\ todo \subseteq {q \in Parts : disk'[day][q] # {}}
              /\ todo # {} \/ Listed(specs) # {}
        /\ Publishing /\ pc # "removing" => \A q \in Parts : specs[q] \subseteq disk'[day][q]
        /\ Publishing /\ pc # "measuring" => Listed(specs) # {}
    <3>1. Present(day) \subseteq {q \in Parts : disk'[day][q] # {}}
      BY <1>5 DEF IInv, Types, Present
    <3>. QED  BY <2>1, <3>1 DEF IInv, MeasuredFromDisk
  <2>4. Publishing => \A q \in Parts : (pc = "measuring" /\ q \in todo)
                                          \/ disk'[day][q] \subseteq specs[q] \cup late'
    BY <2>2 DEF IInv, MeasuredFromDisk
  <2>. QED  BY <1>1, <2>3, <2>4 DEF MeasuredFromDisk, Publishing, Listed, Present
<1>8. PartsBeforeManifest'
  BY <1>1 DEF IInv, PartsBeforeManifest, Uploading, Listed, OnlyPart, Matches
<1>9. ReleasesAreComplete'
  BY <1>1 DEF IInv, ReleasesAreComplete, Complete, Matches, Listed, OnlyPart
<1>. QED  BY <1>3, <1>4, <1>6, <1>7, <1>8, <1>9 DEF IInv

(* Steps that concern neither GitHub nor the disk.                         *)
LEMMA SettleStep ==
  ASSUME IInv, (\E d \in Days : Settle(d)) \/ UNCHANGED vars
  PROVE  IInv'
<1>1. /\ UNCHANGED <<today, unseen, pending, late, disk, remote, receipts,
                     pc, pass, day, specs, todo>>
      /\ settled' \subseteq Days
  BY DEF Settle, vars, capture, local, github, work, IInv, Types
<1>2. Types'
  BY <1>1 DEF IInv, Types
<1>3. CapturedOnce'
  BY <1>1 DEF IInv, CapturedOnce
<1>4. DaysAreOver'
  BY <1>1 DEF IInv, DaysAreOver, Publishing, Present
<1>5. MeasuredFromDisk'
  BY <1>1 DEF IInv, MeasuredFromDisk, Publishing, Listed, Present
<1>6. PartsBeforeManifest'
  BY <1>1 DEF IInv, PartsBeforeManifest, Uploading, Listed, OnlyPart, Matches
<1>7. ReleasesAreComplete'
  BY <1>1 DEF IInv, ReleasesAreComplete, Complete, Matches, Listed, OnlyPart
<1>. QED  BY <1>2, <1>3, <1>4, <1>5, <1>6, <1>7 DEF IInv
----------------------------------------------------------------------------
(* A pass, and the measuring of a day.                                     *)

(* What a step that only moves the publisher must show of its new place.   *)
LEMMA MoveStep ==
  ASSUME IInv, UNCHANGED <<capture, disk, settled, remote>>,
         receipts' \subseteq Days, pass' \subseteq Days, day' \in Days,
         specs' \in Contents, todo' \subseteq Assets,
         DaysAreOver', MeasuredFromDisk', PartsBeforeManifest',
         \A d \in receipts' : Complete(d)
  PROVE  IInv'
<1>1. UNCHANGED <<today, unseen, pending, late>>
  BY DEF capture
<1>2. Types'
  BY <1>1 DEF IInv, Types
<1>3. CapturedOnce'
  BY <1>1 DEF IInv, CapturedOnce
<1>4. ReleasesAreComplete'
  BY <1>1 DEF IInv, ReleasesAreComplete, Complete, Matches, Listed, OnlyPart
<1>. QED  BY <1>2, <1>3, <1>4 DEF IInv

LEMMA ReceiptsComplete ==
  ASSUME IInv
  PROVE  \A d \in receipts : Complete(d)
  BY DEF IInv, ReleasesAreComplete

LEMMA WakeStep ==
  ASSUME IInv, Wake
  PROVE  IInv'
<1>1. /\ pc' = "scanning" /\ pass' = Eligible
      /\ UNCHANGED <<capture, today, disk, settled, remote, receipts, day, specs, todo>>
  BY DEF Wake, local, github, capture
<1>2. Eligible \subseteq Days /\ \A d \in Eligible : d < today /\ Present(d) # {}
  BY DEF Eligible, IInv, Types
<1>3. DaysAreOver' /\ MeasuredFromDisk' /\ PartsBeforeManifest'
  BY <1>1, <1>2
  DEF DaysAreOver, MeasuredFromDisk, PartsBeforeManifest, Publishing, Uploading, Present
<1>. QED  BY <1>1, <1>2, <1>3, MoveStep, ReceiptsComplete DEF IInv, Types

LEMMA TakeDayStep ==
  ASSUME IInv, TakeDay
  PROVE  IInv'
<1>1. /\ pass # {} /\ day' = Min(pass) /\ pass' = pass \ {day'}
      /\ specs' = Nothing /\ todo' = Present(day') /\ pc' = "measuring"
      /\ UNCHANGED <<capture, today, late, disk, settled, remote, receipts>>
  BY DEF TakeDay, local, github, capture
<1>2. day' \in pass /\ day' \in Days
  BY <1>1, MinFacts, AssetFacts DEF IInv, Types
<1>3. Present(day') # {} /\ day' < today /\ Present(day') = {p \in Parts : disk[day'][p] # {}}
  BY <1>2 DEF IInv, DaysAreOver, Present
<1>4. DaysAreOver'
  BY <1>1, <1>2, <1>3 DEF IInv, DaysAreOver, Present
<1>5. MeasuredFromDisk'
  BY <1>1, <1>3, NothingIsEmpty DEF MeasuredFromDisk, Present, Publishing
<1>6. PartsBeforeManifest'
  BY <1>1 DEF PartsBeforeManifest, Uploading
<1>7. /\ todo' \subseteq Assets /\ specs' \in Contents /\ pass' \subseteq Days
      /\ receipts' \subseteq Days
  BY <1>1, <1>3, AssetFacts, NothingIsEmpty DEF IInv, Types
<1>. QED  BY <1>1, <1>2, <1>4, <1>5, <1>6, <1>7, MoveStep, ReceiptsComplete

LEMMA MeasurePartStep ==
  ASSUME IInv, MeasurePart
  PROVE  IInv'
<1>. DEFINE m == Min(todo)
<1>1. /\ pc = "measuring" /\ todo # {} /\ pc' = pc
      /\ specs' = [specs EXCEPT ![m] = disk[day][m]] /\ todo' = todo \ {m}
      /\ UNCHANGED <<capture, today, late, disk, settled, remote, receipts, pass, day>>
  BY DEF MeasurePart, local, github, capture
<1>2. m \in todo /\ m \in Parts /\ disk[day][m] # {}
  BY <1>1, MinFacts, AssetFacts DEF IInv, Types, MeasuredFromDisk, Present
<1>. HIDE DEF m
<1>3. specs \in Contents /\ disk[day] \in Contents /\ day \in Days
  BY DEF IInv, Types
<1>4. \A p \in Parts : specs'[p] = IF p = m THEN disk[day][m] ELSE specs[p]
  BY <1>1, <1>2, <1>3 DEF Contents
<1>5. specs' \in Contents
  BY <1>1, <1>2, <1>3 DEF Contents
<1>6. DaysAreOver'
  BY <1>1 DEF IInv, DaysAreOver, Publishing, Present
<1>7. MeasuredFromDisk'
  <2>1. todo' \subseteq {p \in Parts : disk'[day'][p] # {}}
    BY <1>1 DEF IInv, MeasuredFromDisk, Present
  <2>2. m \in {p \in Parts : specs'[p] # {}}
    BY <1>2, <1>4
  <2>3. \A p \in Parts : specs'[p] \subseteq disk'[day'][p]
    BY <1>1, <1>4 DEF IInv, MeasuredFromDisk, Publishing
  <2>4. \A p \in Parts : p \in todo' \/ disk'[day'][p] \subseteq specs'[p] \cup late'
    BY <1>1, <1>4 DEF IInv, MeasuredFromDisk, Publishing
  <2>. QED
    BY <1>1, <2>1, <2>2, <2>3, <2>4 DEF MeasuredFromDisk, Publishing, Present, Listed
<1>8. PartsBeforeManifest'
  BY <1>1 DEF PartsBeforeManifest, Uploading
<1>. QED
  BY <1>1, <1>5, <1>6, <1>7, <1>8, MoveStep, ReceiptsComplete DEF IInv, Types

LEMMA StageManifestStep ==
  ASSUME IInv, StageManifest \/ EnsureRelease
  PROVE  IInv'
<1>1. /\ \/ pc = "measuring" /\ todo = {} /\ pc' = "releasing"
            /\ todo' = Listed(specs) \cup {Manifest}
         \/ pc = "releasing" /\ pc' = "checking" /\ todo' = todo
      /\ UNCHANGED <<capture, today, late, disk, settled, remote, pass, day, specs>>
      /\ receipts' = receipts
  BY DEF StageManifest, EnsureRelease, local, github, work, capture
<1>2. todo' \subseteq Assets
  BY <1>1, AssetFacts DEF IInv, Types, Listed
<1>3. DaysAreOver'
  BY <1>1 DEF IInv, DaysAreOver, Publishing, Present
<1>4. MeasuredFromDisk'
  BY <1>1 DEF IInv, MeasuredFromDisk, Publishing, Present, Listed
<1>5. PartsBeforeManifest'
  <2>1. CASE pc' = "releasing"
    BY <1>1, <2>1 DEF PartsBeforeManifest, Uploading, Listed
  <2>2. CASE pc' = "checking"
    <3>1. todo = Listed(specs) \cup {Manifest} /\ todo' = todo /\ specs' = specs
      BY <1>1, <2>2 DEF IInv, PartsBeforeManifest
    <3>. QED  BY <2>2, <3>1 DEF PartsBeforeManifest, Uploading, Listed
  <2>. QED  BY <1>1, <2>1, <2>2
<1>. QED
  BY <1>1, <1>2, <1>3, <1>4, <1>5, MoveStep, ReceiptsComplete DEF IInv, Types

(* Verified, written down, and deleted.                                    *)
LEMMA VerifyAssetsStep ==
  ASSUME IInv, VerifyAssets
  PROVE  IInv'
<1>1. /\ pc = "verifying"
      /\ UNCHANGED <<capture, today, late, disk, settled, remote, receipts>>
  BY DEF VerifyAssets, local, github, capture
<1>2. CASE GiveUp
  <2>1. CapturedOnce' /\ ReleasesAreComplete'
    BY <1>1, NothingHosted
  <2>. QED  BY <1>1, <1>2, <2>1, GiveUpStep DEF IInv, Types
<1>3. CASE /\ \A a \in Listed(specs) \cup {Manifest} : Matches(remote[day][a], Spec(a))
           /\ pc' = "recording" /\ UNCHANGED work
  <2>1. UNCHANGED <<pass, day, specs, todo>>
    BY <1>3 DEF work
  <2>2. DaysAreOver'
    BY <1>1, <1>3, <2>1 DEF IInv, DaysAreOver, Publishing, Present
  <2>3. MeasuredFromDisk'
    BY <1>1, <1>3, <2>1 DEF IInv, MeasuredFromDisk, Publishing, Listed
  <2>4. Matches(remote[day][Manifest], specs)
        /\ \A p \in Listed(specs) : Matches(remote[day][p], OnlyPart(specs, p))
    BY <1>3, SpecFacts DEF Listed
  <2>5. PartsBeforeManifest'
    BY <1>1, <1>3, <2>1, <2>4 DEF PartsBeforeManifest, Uploading, Listed, Matches, OnlyPart
  <2>. QED
    BY <1>1, <2>1, <2>2, <2>3, <2>5, MoveStep, ReceiptsComplete DEF IInv, Types
<1>. QED  BY <1>2, <1>3 DEF VerifyAssets

LEMMA WriteReceiptStep ==
  ASSUME IInv, WriteReceipt
  PROVE  IInv'
<1>1. /\ pc = "recording" /\ pc' = "removing" /\ receipts' = receipts \cup {day}
      /\ todo' = Parts
      /\ UNCHANGED <<capture, today, late, disk, settled, remote, pass, day, specs>>
  BY DEF WriteReceipt, local, github, capture
<1>2. DaysAreOver'
  BY <1>1 DEF IInv, DaysAreOver, Publishing, Present
<1>3. MeasuredFromDisk'
  BY <1>1 DEF IInv, MeasuredFromDisk, Publishing, Listed
<1>4. PartsBeforeManifest'
  BY <1>1 DEF IInv, PartsBeforeManifest, Uploading, Listed, Matches, OnlyPart
<1>5. Complete(day)
  <2>1. Matches(remote[day][Manifest], specs) /\ Listed(specs) # {}
        /\ \A p \in Listed(specs) : Matches(remote[day][p], OnlyPart(specs, p))
    BY <1>1 DEF IInv, PartsBeforeManifest, MeasuredFromDisk, Publishing
  <2>. QED  BY <2>1 DEF Complete, Matches
<1>. QED
  BY <1>1, <1>2, <1>3, <1>4, <1>5, MoveStep, ReceiptsComplete, AssetFacts DEF IInv, Types

LEMMA RemovePartStep ==
  ASSUME IInv, NEW p \in Parts, RemovePart(p)
  PROVE  IInv'
<1>1. /\ pc = "removing" /\ pc' = pc
      /\ disk' = [disk EXCEPT ![day] = [disk[day] EXCEPT ![p] = {}]]
      /\ todo' = todo \ {p}
      /\ UNCHANGED <<today, unseen, pending, late, settled, remote, receipts,
                     pass, day, specs>>
  BY DEF RemovePart, capture, github
<1>2. disk \in [Days -> Contents] /\ day \in Days /\ disk[day] \in Contents
  BY DEF IInv, Types
<1>3. \A e \in Days, q \in Parts :
         disk'[e][q] = IF e = day /\ q = p THEN {} ELSE disk[e][q]
  BY <1>1, <1>2 DEF Contents
<1>4. Types'
  <2>1. [disk[day] EXCEPT ![p] = {}] \in Contents
    BY <1>2 DEF Contents
  <2>2. disk' \in [Days -> Contents]
    BY <1>1, <1>2, <2>1
  <2>. QED  BY <1>1, <2>2 DEF IInv, Types
<1>5. CapturedOnce'
  <2>1. \A e \in Days, q \in Parts : disk'[e][q] \subseteq disk[e][q]
    BY <1>3
  <2>2. ASSUME NEW d \in Days, NEW e \in Days, NEW q \in Parts
        PROVE  (unseen \cup pending[d])
                  \cap (disk'[e][q] \cup remote[e][Manifest].content[q]) = {}
    BY <2>1 DEF IInv, CapturedOnce
  <2>. QED  BY <1>1, <2>2 DEF IInv, CapturedOnce
<1>6. DaysAreOver'
  <2>1. day \notin pass /\ day < today
    BY <1>1 DEF IInv, DaysAreOver, Publishing
  <2>2. \A d \in pass : d < today /\ {q \in Parts : disk[d][q] # {}} # {}
    BY DEF IInv, DaysAreOver, Present
  <2>3. \A d \in pass : {q \in Parts : disk'[d][q] # {}} = {q \in Parts : disk[d][q] # {}}
    BY <1>3, <2>1 DEF IInv, Types
  <2>. QED  BY <1>1, <2>1, <2>2, <2>3 DEF DaysAreOver, Publishing, Present
<1>7. MeasuredFromDisk'
  <2>1. \A q \in Parts : disk'[day][q] \subseteq specs[q] \cup late
    BY <1>1, <1>2, <1>3 DEF IInv, MeasuredFromDisk, Publishing
  <2>. QED  BY <1>1, <2>1 DEF IInv, MeasuredFromDisk, Publishing, Listed
<1>8. PartsBeforeManifest'
  BY <1>1 DEF IInv, PartsBeforeManifest, Uploading, Listed, Matches, OnlyPart
<1>9. ReleasesAreComplete'
  BY <1>1 DEF IInv, ReleasesAreComplete, Complete, Matches, Listed, OnlyPart
<1>. QED  BY <1>4, <1>5, <1>6, <1>7, <1>8, <1>9 DEF IInv

LEMMA FinishRemovalStep ==
  ASSUME IInv, FinishRemoval
  PROVE  IInv'
<1>1. UNCHANGED <<capture, today, late, disk, settled, remote, receipts>>
  BY DEF FinishRemoval, local, github, capture
<1>2. CASE GiveUp
  <2>1. CapturedOnce' /\ ReleasesAreComplete'
    BY <1>1, NothingHosted
  <2>. QED  BY <1>1, <1>2, <2>1, GiveUpStep DEF IInv, Types
<1>3. CASE pc' = "scanning" /\ UNCHANGED work
  <2>1. UNCHANGED <<pass, day, specs, todo>>
    BY <1>3 DEF work
  <2>2. DaysAreOver' /\ MeasuredFromDisk' /\ PartsBeforeManifest'
    BY <1>1, <1>3, <2>1
    DEF IInv, DaysAreOver, MeasuredFromDisk, PartsBeforeManifest, Publishing, Uploading, Present
  <2>. QED  BY <1>1, <2>1, <2>2, MoveStep, ReceiptsComplete DEF IInv, Types
<1>. QED  BY <1>2, <1>3 DEF FinishRemoval
----------------------------------------------------------------------------
(* Uploads.  A location of a pass is given up with GitHub as it is.        *)

LEMMA StopStep ==
  ASSUME IInv, GiveUp, UNCHANGED <<capture, local, remote, receipts>>
  PROVE  IInv' /\ UploadsStay
<1>1. UNCHANGED <<disk, settled>>
  BY DEF local
<1>2. CapturedOnce' /\ ReleasesAreComplete' /\ UploadsStay
  BY <1>1, NothingHosted
<1>. QED  BY <1>1, <1>2, GiveUpStep DEF IInv, Types

(* The publisher reads the release of its day, and stays or goes on.       *)
LEMMA LookStep ==
  ASSUME IInv, Uploading, UNCHANGED <<capture, local, remote, receipts>>,
         \/ Matches(Found, Spec(Asset)) /\ Advance
         \/ pc' \in {"posting", "recheckConflict"} /\ UNCHANGED <<pass, day, specs, todo>>
         \/ GiveUp
  PROVE  IInv' /\ UploadsStay
<1>1. UNCHANGED <<disk, settled>>
  BY DEF local
<1>2. CapturedOnce' /\ ReleasesAreComplete' /\ UploadsStay
  BY <1>1, NothingHosted
<1>3. remote' \in [Days -> [Assets -> RemoteAsset]]
  BY DEF IInv, Types
<1>4. CASE Matches(Found, Spec(Asset)) /\ Advance
  <2>1. Matches(remote'[day][Asset], Spec(Asset))
    BY <1>4 DEF Found
  <2>. QED  BY <1>1, <1>2, <1>3, <1>4, <2>1, AdvanceStep
<1>5. CASE pc' \in {"posting", "recheckConflict"} /\ UNCHANGED <<pass, day, specs, todo>>
  <2>1. Uploading'
    BY <1>5 DEF Uploading
  <2>. QED  BY <1>1, <1>2, <1>3, <1>5, <2>1, SameAssetStep
<1>6. CASE GiveUp
  BY <1>6, StopStep
<1>. QED  BY <1>4, <1>5, <1>6

LEMMA CheckExistingStep ==
  ASSUME IInv, CheckExisting
  PROVE  IInv' /\ UploadsStay
<1>1. Uploading /\ UNCHANGED <<capture, local, remote, receipts>>
  BY DEF CheckExisting, Uploading, github
<1>2. \/ Matches(Found, Spec(Asset)) /\ Advance
      \/ pc' \in {"posting", "recheckConflict"} /\ UNCHANGED <<pass, day, specs, todo>>
      \/ GiveUp
  BY DEF CheckExisting, work
<1>. QED  BY <1>1, <1>2, LookStep

LEMMA PostConflictStep ==
  ASSUME IInv, PostConflict
  PROVE  IInv' /\ UploadsStay
<1>1. Uploading /\ UNCHANGED <<capture, local, remote, receipts>>
  BY DEF PostConflict, Uploading, github
<1>2. pc' \in {"posting", "recheckConflict"} /\ UNCHANGED <<pass, day, specs, todo>>
  BY DEF PostConflict
<1>. QED  BY <1>1, <1>2, LookStep

LEMMA HostedThenStopped ==
  ASSUME IInv, Uploading, Found.state # "uploaded", GiveUp,
         NEW r \in {Absent, Starter, Uploaded(FileNow(Asset))},
         remote' = Hosts(r), UNCHANGED <<capture, disk, settled, receipts>>
  PROVE  IInv' /\ UploadsStay
<1>1. /\ remote' \in [Days -> [Assets -> RemoteAsset]]
      /\ UploadsStay /\ CapturedOnce' /\ ReleasesAreComplete'
  BY HostStep
<1>. QED  BY <1>1, GiveUpStep

LEMMA HostedThenStayed ==
  ASSUME IInv, Uploading, Found.state # "uploaded", Uploading',
         NEW r \in {Absent, Starter, Uploaded(FileNow(Asset))},
         remote' = Hosts(r),
         UNCHANGED <<capture, disk, settled, receipts, pass, day, specs, todo>>
  PROVE  IInv' /\ UploadsStay
<1>1. /\ remote' \in [Days -> [Assets -> RemoteAsset]]
      /\ UploadsStay /\ CapturedOnce' /\ ReleasesAreComplete'
  BY HostStep
<1>. QED  BY <1>1, SameAssetStep

LEMMA PostAcceptedStep ==
  ASSUME IInv, PostAccepted
  PROVE  IInv' /\ UploadsStay
<1>. DEFINE r == Uploaded(FileNow(Asset))
<1>1. /\ Uploading /\ Found.state # "uploaded" /\ remote' = Hosts(r)
      /\ UNCHANGED <<capture, disk, settled, receipts>>
      /\ (FileNow(Asset) = Spec(Asset) /\ Advance) \/ GiveUp
  BY DEF PostAccepted, Uploading, local
<1>2. CASE FileNow(Asset) = Spec(Asset) /\ Advance
  <2>2. /\ remote' \in [Days -> [Assets -> RemoteAsset]]
        /\ remote'[day][Asset] = r
        /\ UploadsStay /\ CapturedOnce' /\ ReleasesAreComplete'
    BY <1>1, HostStep
  <2>3. Matches(remote'[day][Asset], Spec(Asset))
    BY <1>2, <2>2 DEF Matches, Uploaded
  <2>. QED  BY <1>1, <1>2, <2>2, <2>3, AdvanceStep
<1>3. CASE GiveUp
  BY <1>1, <1>3, HostedThenStopped
<1>. QED  BY <1>1, <1>2, <1>3

LEMMA PostBusyStep ==
  ASSUME IInv, PostBusy
  PROVE  IInv' /\ UploadsStay
<1>1. /\ Uploading /\ Found.state # "uploaded" /\ pc' = "recheckBusy"
      /\ UNCHANGED <<capture, disk, settled, receipts, pass, day, specs, todo>>
  BY DEF PostBusy, Uploading, local
<1>2. PICK r \in {Absent, Starter, Uploaded(FileNow(Asset))} : remote' = Hosts(r)
  BY DEF PostBusy
<1>3. Uploading'
  BY <1>1 DEF Uploading
<1>. QED  BY <1>1, <1>2, <1>3, HostedThenStayed

LEMMA PostCutStep ==
  ASSUME IInv, PostCut
  PROVE  IInv' /\ UploadsStay
<1>1. /\ Uploading /\ Found.state # "uploaded" /\ GiveUp
      /\ UNCHANGED <<capture, disk, settled, receipts>>
  BY DEF PostCut, Uploading, local
<1>2. PICK r \in {Absent, Starter, Uploaded(FileNow(Asset))} : remote' = Hosts(r)
  BY DEF PostCut
<1>. QED  BY <1>1, <1>2, HostedThenStopped

LEMMA RecheckStep ==
  ASSUME IInv, Recheck
  PROVE  IInv' /\ UploadsStay
<1>1. Uploading /\ UNCHANGED <<capture, local, disk, settled, receipts>>
  BY DEF Recheck, Uploading, local
<1>2. RetryPost => (pc' = "posting" /\ UNCHANGED <<pass, day, specs, todo>>) \/ GiveUp
  BY DEF RetryPost, work
<1>3. CASE Matches(Found, Spec(Asset)) /\ Advance /\ UNCHANGED remote
  BY <1>1, <1>3, LookStep
<1>4. CASE Found.state = "starter" /\ remote' = Hosts(Absent) /\ RetryPost
  <2>1. CASE GiveUp
    BY <1>1, <1>4, <2>1, HostedThenStopped
  <2>2. CASE pc' = "posting" /\ UNCHANGED <<pass, day, specs, todo>>
    <3>1. Uploading'
      BY <2>2 DEF Uploading
    <3>. QED  BY <1>1, <1>4, <2>2, <3>1, HostedThenStayed
  <2>. QED  BY <1>2, <1>4, <2>1, <2>2
<1>5. CASE /\ IF pc = "recheckConflict" THEN GiveUp ELSE RetryPost
           /\ UNCHANGED remote
  <2>1. \/ pc' \in {"posting", "recheckConflict"} /\ UNCHANGED <<pass, day, specs, todo>>
        \/ GiveUp
    BY <1>2, <1>5
  <2>. QED  BY <1>1, <1>5, <2>1, LookStep
<1>. QED  BY <1>3, <1>4, <1>5 DEF Recheck
----------------------------------------------------------------------------
(* Every step.                                                             *)

LEMMA InitEstablishes ==
         Init => IInv
<1>. SUFFICES ASSUME Init PROVE IInv
  OBVIOUS
<1>1. \A d \in Days, a \in Assets : remote[d][a] = Absent
  BY DEF Init
<1>2. Absent \in RemoteAsset /\ Absent.content = Nothing /\ Absent.state # "uploaded"
  BY NothingIsEmpty, RemoteAssetTypes
<1>3. Types
  BY <1>2, AssetFacts, NothingIsEmpty DEF Init, Types
<1>4. CapturedOnce
  <2>1. ASSUME NEW d \in Days, NEW e \in Days, NEW p \in Parts
        PROVE  (unseen \cup pending[d])
                  \cap (disk[e][p] \cup remote[e][Manifest].content[p]) = {}
    BY <1>1, <1>2, AssetFacts, NothingIsEmpty DEF Init
  <2>. QED  BY <2>1 DEF Init, CapturedOnce
<1>5. DaysAreOver /\ MeasuredFromDisk /\ PartsBeforeManifest
  BY DEF Init, DaysAreOver, MeasuredFromDisk, PartsBeforeManifest, Publishing, Uploading
<1>6. ReleasesAreComplete
  BY <1>1, <1>2, AssetFacts DEF Init, ReleasesAreComplete
<1>. QED  BY <1>3, <1>4, <1>5, <1>6 DEF IInv

LEMMA NextPreserves ==
         IInv /\ [Next]_vars => IInv' /\ UploadsStay
<1>. SUFFICES ASSUME IInv, [Next]_vars PROVE IInv' /\ UploadsStay
  OBVIOUS
<1>1. CASE NextDay
  BY <1>1, NextDayStep DEF NextDay, github, UploadsStay
<1>2. CASE \E r \in Records : Receive(r)
  BY <1>2, ReceiveStep DEF Receive, github, UploadsStay
<1>3. CASE \E d \in Days : Append(d)
  BY <1>3, AppendStep DEF Append, github, UploadsStay
<1>4. CASE (\E d \in Days : Settle(d)) \/ UNCHANGED vars
  BY <1>4, SettleStep DEF Settle, vars, github, UploadsStay
<1>5. CASE Wake
  BY <1>5, WakeStep DEF Wake, github, UploadsStay
<1>6. CASE TakeDay
  BY <1>6, TakeDayStep DEF TakeDay, github, UploadsStay
<1>7. CASE Sleep \/ RequestFails \/ Crash
  BY <1>7, StopStep DEF Sleep, RequestFails, Crash, github
<1>8. CASE MeasurePart
  BY <1>8, MeasurePartStep DEF MeasurePart, github, UploadsStay
<1>9. CASE StageManifest \/ EnsureRelease
  BY <1>9, StageManifestStep DEF StageManifest, EnsureRelease, github, UploadsStay
<1>10. CASE CheckExisting \/ PostConflict
  BY <1>10, CheckExistingStep, PostConflictStep
<1>11. CASE PostAccepted \/ PostBusy \/ PostCut \/ Recheck
  BY <1>11, PostAcceptedStep, PostBusyStep, PostCutStep, RecheckStep
<1>12. CASE VerifyAssets
  BY <1>12, VerifyAssetsStep DEF VerifyAssets, github, UploadsStay
<1>13. CASE WriteReceipt
  BY <1>13, WriteReceiptStep DEF WriteReceipt, github, UploadsStay
<1>14. CASE \E p \in Parts : RemovePart(p)
  BY <1>14, RemovePartStep DEF RemovePart, github, UploadsStay
<1>15. CASE FinishRemoval
  BY <1>15, FinishRemovalStep DEF FinishRemoval, github, UploadsStay
<1>. QED
  BY <1>1, <1>2, <1>3, <1>4, <1>5, <1>6, <1>7, <1>8, <1>9, <1>10, <1>11, <1>12,
     <1>13, <1>14, <1>15 DEF Next, Publish

(* The publisher's invariant, for every number of days, parts and faults.  *)
LEMMA InvariantHolds ==
         PulseSpec => []IInv
<1>. QED  BY InitEstablishes, NextPreserves, PTL DEF PulseSpec

(* A manifest on GitHub never vouches for a part that is not there with    *)
(* the content it names, and a local receipt never claims a release that   *)
(* is not complete (publish_day uploads the manifest last).                *)
THEOREM ReleasesAlwaysComplete ==
         PulseSpec => []ReleasesAreComplete
<1>1. IInv => ReleasesAreComplete
  BY DEF IInv
<1>. QED  BY <1>1, InvariantHolds, PTL

(* Nothing that finished uploading is replaced or deleted, and a file      *)
(* leaves the disk only behind a complete release with a receipt           *)
(* (publish_day, upload_verified).                                         *)
THEOREM NothingIsTakenBack ==
         PulseSpec => NothingTakenBack
<1>1. IInv /\ [Next]_vars => UploadsStay
  BY NextPreserves
<1>2. ASSUME IInv, [Next]_vars, NEW d \in Days, NEW p \in Parts,
             disk[d][p] # {}, disk'[d][p] = {}
      PROVE  d \in receipts /\ Complete(d)
  <2>1. CASE \E q \in Parts : RemovePart(q)
    <3>1. PICK q \in Parts : RemovePart(q)
      BY <2>1
    <3>2. /\ pc = "removing"
          /\ disk' = [disk EXCEPT ![day] = [disk[day] EXCEPT ![q] = {}]]
      BY <3>1 DEF RemovePart
    <3>3. d = day
      BY <1>2, <3>2 DEF IInv, Types
    <3>4. day \in receipts
      BY <1>2, <3>2 DEF IInv, PartsBeforeManifest
    <3>. QED  BY <1>2, <3>3, <3>4, ReceiptsComplete
  <2>2. CASE \E e \in Days : Append(e)
    <3>1. PICK e \in Days : Append(e)
      BY <2>2
    <3>2. disk[d][p] \subseteq disk'[d][p]
      BY <1>2, <3>1, AppendGrows
    <3>. QED  BY <1>2, <3>2
  <2>3. CASE UNCHANGED disk
    BY <1>2, <2>3
  <2>. QED
    BY <1>2, <2>1, <2>2, <2>3
    DEF Next, Publish, vars, local, NextDay, Receive, Settle, Wake, TakeDay, Sleep,
        MeasurePart, StageManifest, EnsureRelease, RequestFails, CheckExisting,
        PostAccepted, PostBusy, PostConflict, PostCut, Recheck, VerifyAssets,
        WriteReceipt, FinishRemoval, Crash
<1>. DEFINE Kept ==
       \A d \in Days :
          /\ \A a \in Assets :
               remote[d][a].state = "uploaded" => remote'[d][a] = remote[d][a]
          /\ \A p \in Parts :
               disk[d][p] # {} /\ disk'[d][p] = {} => d \in receipts /\ Complete(d)
<1>3. IInv /\ [Next]_vars => Kept
  BY <1>1, <1>2 DEF UploadsStay
<1>4. IInv /\ [Next]_vars => [Kept]_vars
  BY <1>3
<1>. QED  BY <1>4, InvariantHolds, PTL DEF PulseSpec, NothingTakenBack
----------------------------------------------------------------------------
(* The archive's promise.  A day counts as published exactly when its      *)
(* manifest is up, so what a reader finds is what the manifests vouch for. *)

Vouched(rm) ==
    UNION {UNION {rm[d][Manifest].content[p] : p \in Parts} :
              d \in {e \in Days : rm[e][Manifest].state = "uploaded"}}

LEMMA PublishedIsVouched ==
  ASSUME IInv, IInv'
  PROVE  Published = Vouched(remote) /\ Published' = Vouched(remote')
<1>1. {e \in Days : Complete(e)} = {e \in Days : remote[e][Manifest].state = "uploaded"}
  BY DEF IInv, ReleasesAreComplete, Complete
<1>2. {e \in Days : Complete(e)'} = {e \in Days : remote'[e][Manifest].state = "uploaded"}
  BY DEF IInv, ReleasesAreComplete, Complete
<1>. QED  BY <1>1, <1>2 DEF Published, Vouched

ArchiveStep == Archive!Next \/ UNCHANGED Archive!vars

(* Steps that leave the disk and the manifests alone.                      *)
LEMMA QuietStep ==
  ASSUME IInv, IInv', UNCHANGED <<disk, late>>,
         \A d \in Days :
            \/ remote'[d][Manifest] = remote[d][Manifest]
            \/ /\ remote[d][Manifest].state # "uploaded"
               /\ remote'[d][Manifest].state # "uploaded"
  PROVE  ArchiveStep
<1>1. Vouched(remote') = Vouched(remote)
  BY DEF Vouched
<1>2. Published' = Published /\ OnDisk' = OnDisk /\ late' = late
  BY <1>1, PublishedIsVouched DEF OnDisk
<1>. QED  BY <1>2 DEF ArchiveStep, Archive!vars

(* An upload archives what it vouches for, or nothing.                     *)
LEMMA HostArchives ==
  ASSUME IInv, IInv', Uploading, Found.state # "uploaded",
         NEW r \in {Absent, Starter, Uploaded(FileNow(Asset))},
         remote' = Hosts(r), UNCHANGED <<disk, late>>
  PROVE  ArchiveStep
<1>1. /\ Asset \in Assets /\ day \in Days
      /\ remote \in [Days -> [Assets -> RemoteAsset]]
  BY AssetIsNext DEF IInv, Types
<1>2. \A d \in Days, b \in Assets :
        remote'[d][b] = IF d = day /\ b = Asset THEN r ELSE remote[d][b]
  BY <1>1 DEF Hosts
<1>3. CASE Asset # Manifest \/ r \in {Absent, Starter}
  <2>1. \A d \in Days :
            \/ remote'[d][Manifest] = remote[d][Manifest]
            \/ /\ remote[d][Manifest].state # "uploaded"
               /\ remote'[d][Manifest].state # "uploaded"
    BY <1>2, <1>3, AssetFacts DEF Found, Absent, Starter
  <2>. QED  BY <2>1, QuietStep
<1>4. CASE Asset = Manifest /\ r = Uploaded(FileNow(Asset))
  <2>. DEFINE S == (UNION {specs[p] : p \in Parts}) \ late
  <2>1. r.state = "uploaded" /\ r.content = specs
    BY <1>4, SpecFacts DEF Uploaded
  <2>2. \A d \in Days :
           remote'[d][Manifest] = IF d = day THEN r ELSE remote[d][Manifest]
    BY <1>2, <1>4, AssetFacts
  <2>3. remote[day][Manifest].state # "uploaded"
    BY <1>4 DEF Found
  <2>4. Vouched(remote') = Vouched(remote) \cup UNION {specs[p] : p \in Parts}
    <3>1. {e \in Days : remote'[e][Manifest].state = "uploaded"}
             = {e \in Days : remote[e][Manifest].state = "uploaded"} \cup {day}
      BY <1>1, <2>1, <2>2
    <3>2. \A e \in {f \in Days : remote[f][Manifest].state = "uploaded"} :
             remote'[e][Manifest] = remote[e][Manifest]
      BY <2>2, <2>3
    <3>3. remote'[day][Manifest].content = specs
      BY <1>1, <2>1, <2>2
    <3>. QED  BY <3>1, <3>2, <3>3 DEF Vouched
  <2>5. \A p \in Parts : specs[p] \subseteq disk[day][p]
    BY DEF IInv, MeasuredFromDisk, Publishing, Uploading
  <2>6. S \subseteq OnDisk \ late
    BY <1>1, <2>5 DEF OnDisk
  <2>7. (Published \ late)' = (Published \ late) \cup S
    BY <2>4, PublishedIsVouched
  <2>8. (OnDisk \ late)' = OnDisk \ late
    BY DEF OnDisk
  <2>. HIDE DEF S
  <2>. QED  BY <2>6, <2>7, <2>8 DEF ArchiveStep, Archive!Next, Archive!Archive
<1>. QED  BY <1>3, <1>4

(* A batch in time is written; a late one was never promised.              *)
LEMMA AppendArchives ==
  ASSUME IInv, IInv', NEW d \in Days, Append(d)
  PROVE  ArchiveStep
<1>1. PICK rs \in SUBSET pending[d], p \in Parts :
         /\ pending' = [pending EXCEPT ![d] = pending[d] \ rs]
         /\ disk' = [disk EXCEPT ![d][p] = disk[d][p] \cup rs]
         /\ \A e \in Days, q \in Parts :
               disk'[e][q] = IF e = d /\ q = p THEN disk[e][q] \cup rs ELSE disk[e][q]
         /\ late' = IF d < today THEN late \cup rs ELSE late
         /\ settled' = settled \ {d}
         /\ UNCHANGED <<today, unseen, remote, receipts, pc, pass, day, specs, todo>>
  BY AppendFacts
<1>2. Published' = Published
  BY <1>1, PublishedIsVouched
<1>3. OnDisk' = OnDisk \cup rs
  <2>1. \A e \in Days : UNION {disk'[e][q] : q \in Parts}
           = IF e = d THEN (UNION {disk[e][q] : q \in Parts}) \cup rs
                      ELSE UNION {disk[e][q] : q \in Parts}
    BY <1>1
  <2>. QED  BY <2>1 DEF OnDisk
<1>4. \A e \in Days, q \in Parts :
         rs \cap disk[e][q] = {} /\ rs \cap remote[e][Manifest].content[q] = {}
  BY DEF IInv, CapturedOnce
<1>5. rs \cap OnDisk = {} /\ rs \cap Published = {}
  BY <1>4, PublishedIsVouched DEF OnDisk, Vouched
<1>6. CASE late' = late
  <2>1. (OnDisk \ late)' = (OnDisk \ late) \cup (rs \ late)
    BY <1>3, <1>6
  <2>2. rs \ late \in SUBSET Records
    BY DEF IInv, Types
  <2>3. (Published \ late)' = Published \ late
    BY <1>2, <1>6
  <2>. QED  BY <2>1, <2>2, <2>3 DEF ArchiveStep, Archive!Next, Archive!Write
<1>7. CASE late' = late \cup rs
  <2>1. (OnDisk \ late)' = OnDisk \ late /\ (Published \ late)' = Published \ late
    BY <1>2, <1>3, <1>5, <1>7
  <2>. QED  BY <2>1 DEF ArchiveStep, Archive!vars
<1>. QED  BY <1>1, <1>6, <1>7

(* What is deleted was measured and published, or came late.               *)
LEMMA RemoveArchives ==
  ASSUME IInv, IInv', NEW p \in Parts, RemovePart(p)
  PROVE  ArchiveStep
<1>1. /\ pc = "removing"
      /\ disk' = [disk EXCEPT ![day] = [disk[day] EXCEPT ![p] = {}]]
      /\ late' = late /\ remote' = remote
  BY DEF RemovePart, capture, github
<1>2. disk \in [Days -> Contents] /\ day \in Days /\ disk[day] \in Contents
  BY DEF IInv, Types
<1>3. \A e \in Days, q \in Parts :
         disk'[e][q] = IF e = day /\ q = p THEN {} ELSE disk[e][q]
  BY <1>1, <1>2 DEF Contents
<1>4. disk[day][p] \subseteq specs[p] \cup late
  BY <1>1 DEF IInv, MeasuredFromDisk, Publishing
<1>5. specs[p] \subseteq Vouched(remote)
  <2>1. remote[day][Manifest].state = "uploaded" /\ remote[day][Manifest].content = specs
    BY <1>1 DEF IInv, PartsBeforeManifest, Matches
  <2>. QED  BY <1>2, <2>1 DEF Vouched
<1>6. OnDisk' \subseteq OnDisk /\ OnDisk \ OnDisk' \subseteq disk[day][p]
  BY <1>3 DEF OnDisk
<1>. DEFINE S == (OnDisk \ late) \ (OnDisk \ late)'
<1>7. S \subseteq (OnDisk \ late) \cap (Published \ late)
  BY <1>1, <1>4, <1>5, <1>6, PublishedIsVouched
<1>8. (OnDisk \ late)' = (OnDisk \ late) \ S
  BY <1>1, <1>6
<1>9. (Published \ late)' = Published \ late
  BY <1>1, PublishedIsVouched
<1>. HIDE DEF S
<1>. QED  BY <1>7, <1>8, <1>9 DEF ArchiveStep, Archive!Next, Archive!Discard

LEMMA NextArchives ==
         IInv /\ IInv' /\ [Next]_vars => ArchiveStep
<1>. SUFFICES ASSUME IInv, IInv', [Next]_vars PROVE ArchiveStep
  OBVIOUS
<1>1. CASE \E d \in Days : Append(d)
  BY <1>1, AppendArchives
<1>2. CASE \E p \in Parts : RemovePart(p)
  BY <1>2, RemoveArchives
<1>3. CASE PostAccepted \/ PostBusy \/ PostCut
  <2>1. /\ Uploading /\ Found.state # "uploaded" /\ UNCHANGED <<disk, late>>
    BY <1>3 DEF PostAccepted, PostBusy, PostCut, Uploading, local, capture
  <2>2. PICK r \in {Absent, Starter, Uploaded(FileNow(Asset))} : remote' = Hosts(r)
    BY <1>3 DEF PostAccepted, PostBusy, PostCut
  <2>. QED  BY <2>1, <2>2, HostArchives
<1>4. CASE Recheck
  <2>1. Uploading /\ UNCHANGED <<disk, late>>
    BY <1>4 DEF Recheck, Uploading, local, capture
  <2>2. CASE Found.state = "starter" /\ remote' = Hosts(Absent)
    BY <2>1, <2>2, HostArchives
  <2>3. CASE UNCHANGED remote
    BY <2>1, <2>3, QuietStep
  <2>. QED  BY <1>4, <2>2, <2>3 DEF Recheck
<1>5. CASE UNCHANGED <<disk, late, remote>>
  BY <1>5, QuietStep
<1>. QED
  BY <1>1, <1>2, <1>3, <1>4, <1>5
  DEF Next, Publish, vars, capture, local, github, NextDay, Receive, Settle, Wake,
      TakeDay, Sleep, MeasurePart, StageManifest, EnsureRelease, RequestFails,
      CheckExisting, PostConflict, VerifyAssets, WriteReceipt, FinishRemoval, Crash

(* Every record that reached the disk on its own day is on the disk until  *)
(* it is in a complete release, and stays there: the publisher implements  *)
(* the abstract archive, for every number of days, parts and faults.       *)
THEOREM PublisherKeepsPromise ==
         PulseSpec => Archives
<1>1. Init => Archive!Init
  <2>. SUFFICES ASSUME Init PROVE Archive!Init
    OBVIOUS
  <2>1. OnDisk = {}
    BY NothingIsEmpty DEF Init, OnDisk
  <2>2. Published = {}
    <3>1. ~ \E d \in Days : Complete(d)
      BY AssetFacts DEF Init, Complete, Absent
    <3>. QED  BY <3>1 DEF Published
  <2>. QED  BY <2>1, <2>2 DEF Archive!Init
<1>2. IInv /\ IInv' /\ [Next]_vars => [Archive!Next]_(Archive!vars)
  BY NextArchives DEF ArchiveStep
<1>. QED  BY <1>1, <1>2, InvariantHolds, PTL DEF PulseSpec, Archives, Archive!Spec
-----------------------------------------------------------------------------
(***************************************************************************)
(* The collector: what it believes to be subscribed is what the far end    *)
(* delivers, and a stop loses nothing that was queued, for any tokens,     *)
(* batch sizes and queue, in every order the tasks may take their steps.   *)
(***************************************************************************)

(***************************************************************************)
(* Subscriptions.                                                          *)
(***************************************************************************)

(* The belief and the task that may change it live within a session; only  *)
(* a process that is shutting down may leave the belief behind.            *)
Sessions ==
    /\ refresh # "none" => conn \in InSession \cup Leaving
    /\ conn \notin InSession \cup Leaving \cup {"done"} => subscribed = {}
    /\ conn \notin {"subscribing"} \cup InSession \cup Leaving => ~socket

(* What is still to be sent makes up for what the far end lacks.           *)
Sends ==
    /\ socket /\ conn = "subscribing" => server \cup wanted = selection
    /\ socket /\ refresh \in {"sleeping", "putting", "ended"} => server = subscribed
    /\ socket /\ refresh = "sending" => (server \cup additions) \ removals = fresh

Steps ==
    /\ refresh \in {"none", "sleeping", "sending", "putting", "ended"}
    /\ ~socket => server = {}
    /\ socket \in BOOLEAN

Subscriptions == Steps /\ Sessions /\ Sends

LEMMA SubscriptionsInit == CollectorInit => Subscriptions
  BY DEF CollectorInit, Subscriptions, Steps, Sessions, Sends, InSession, Leaving

LEMMA ChunkIsPart ==
  ASSUME NEW S, NEW C \in Chunks(S)
  PROVE  C \subseteq S
  BY DEF Chunks

LEMMA ConnectionKeeps ==
  ASSUME Subscriptions, Connection \/ Message \/ SessionEnds \/ SocketDies
  PROVE  Subscriptions'
<1>. USE DEF Subscriptions, InSession, Leaving
<1>1. CASE FetchCatalog \/ ConnectFails \/ Put \/ PutsDone \/ Retry \/ LoopEnds
  <2>1. UNCHANGED <<socket, server, subscribed, refresh, additions, removals, fresh>>
    BY <1>1 DEF FetchCatalog, ConnectFails, Put, PutsDone, Retry, LoopEnds, refreshVars
  <2>2. /\ conn' # "subscribing"
        /\ conn \in InSession => conn' \in InSession
        /\ conn' \in InSession \cup Leaving => conn = conn' \/ conn = "delivering"
        /\ conn \notin {"subscribing", "done"} \cup Leaving
    BY <1>1 DEF FetchCatalog, ConnectFails, Put, PutsDone, Retry, LoopEnds
  <2>3. Steps' /\ Sends'
    BY <2>1, <2>2 DEF Steps, Sends
  <2>4. Sessions'
    BY <2>1, <2>2 DEF Sessions
  <2>. QED  BY <2>3, <2>4
<1>2. CASE Connect \/ SubscribeFails
  <2>1. refresh' = refresh /\ refresh = "none" /\ subscribed' = subscribed /\ subscribed = {}
    BY <1>2 DEF Connect, SubscribeFails, Sessions, refreshVars
  <2>2. CASE Connect
    <3>1. /\ socket' = TRUE /\ server' = {} /\ wanted' = selection
          /\ selection' = selection /\ conn' = "subscribing"
      BY <2>2 DEF Connect
    <3>. QED  BY <2>1, <3>1 DEF Steps, Sessions, Sends
  <2>3. CASE SubscribeFails
    <3>1. ~socket /\ socket' = socket /\ server' = server /\ conn' = "backoff"
      BY <2>3 DEF SubscribeFails
    <3>. QED  BY <2>1, <3>1 DEF Steps, Sessions, Sends
  <2>. QED  BY <1>2, <2>2, <2>3
<1>3. CASE Subscribe
  <2>1. PICK C \in Chunks(wanted) : server' = server \cup C /\ wanted' = wanted \ C
    BY <1>3 DEF Subscribe
  <2>2. C \subseteq wanted
    BY ChunkIsPart
  <2>. QED  BY <1>3, <2>1, <2>2 DEF Subscribe, Steps, Sessions, Sends, refreshVars
<1>4. CASE StartSession
  <2>1. /\ conn = "subscribing" /\ wanted = {} /\ subscribed' = selection
        /\ refresh' = "sleeping" /\ conn' = "consuming"
        /\ UNCHANGED <<socket, server>>
    BY <1>4 DEF StartSession
  <2>2. socket => server = selection
    BY <2>1 DEF Sends
  <2>3. Steps' /\ Sends'
    BY <2>1, <2>2 DEF Steps, Sends
  <2>4. Sessions'
    BY <2>1 DEF Sessions
  <2>. QED  BY <2>3, <2>4
<1>5. CASE Message \/ SessionEnds
  <2>1. /\ UNCHANGED <<socket, server, subscribed, refresh, additions, removals, fresh>>
        /\ conn = "consuming" /\ conn' \in {"delivering", "ended", "failed"}
    BY <1>5 DEF Message, SessionEnds, refreshVars
  <2>2. Steps' /\ Sends'
    BY <2>1 DEF Steps, Sends
  <2>3. Sessions'
    BY <2>1 DEF Sessions
  <2>. QED  BY <2>2, <2>3
<1>6. CASE SocketDies
  BY <1>6 DEF SocketDies, Steps, Sessions, Sends, refreshVars, connVars
<1>7. CASE Unwind
  BY <1>7 DEF Unwind, Steps, Sessions, Sends
<1>. QED  BY <1>1, <1>2, <1>3, <1>4, <1>5, <1>6, <1>7 DEF Connection

LEMMA RefreshingKeeps ==
  ASSUME Subscriptions, Refreshing
  PROVE  Subscriptions'
<1>. USE DEF Subscriptions, InSession, Leaving
<1>1. CASE RefreshFetch
  BY <1>1 DEF RefreshFetch, Active, Steps, Sessions, Sends, connVars
<1>2. CASE RefreshSubscribe
  <2>1. PICK C \in Chunks(additions) : server' = server \cup C /\ additions' = additions \ C
    BY <1>2 DEF RefreshSubscribe
  <2>2. C \subseteq additions
    BY ChunkIsPart
  <2>. QED  BY <1>2, <2>1, <2>2 DEF RefreshSubscribe, Steps, Sessions, Sends, connVars
<1>3. CASE RefreshUnsubscribe
  <2>1. PICK C \in Chunks(removals) : server' = server \ C /\ removals' = removals \ C
    BY <1>3 DEF RefreshUnsubscribe
  <2>2. C \subseteq removals
    BY ChunkIsPart
  <2>. QED  BY <1>3, <2>1, <2>2 DEF RefreshUnsubscribe, Steps, Sessions, Sends, connVars
<1>4. CASE RefreshFails \/ RefreshPut \/ RefreshDone
  BY <1>4 DEF RefreshFails, RefreshPut, RefreshDone, Resting, Active, Steps, Sessions, Sends, connVars
<1>5. CASE RefreshCommit
  BY <1>5 DEF RefreshCommit, Active, Steps, Sessions, Sends, connVars
<1>. QED  BY <1>1, <1>2, <1>3, <1>4, <1>5 DEF Refreshing

LEMMA SubscriptionsNext ==
  ASSUME Subscriptions, [CollectorNext]_collectorVars
  PROVE  Subscriptions'
<1>. USE DEF Subscriptions, InSession, Leaving
<1>1. CASE Write \/ Signal \/ StatusEnds \/ Gathered \/ Stopped \/ UNCHANGED collectorVars
  <2>1. UNCHANGED <<conn, wanted, selection, socket, server, subscribed,
                    refresh, additions, removals, fresh>>
    BY <1>1 DEF Write, TakeBatch, WriteBatch, WriteFails, WriterEnds, Signal, StatusEnds,
                Gathered, Stopped, connVars, refreshVars, collectorVars
  <2>2. Steps'
    BY <2>1 DEF Steps
  <2>3. Sessions'
    BY <2>1 DEF Sessions
  <2>4. Sends'
    BY <2>1 DEF Sends
  <2>. QED  BY <2>2, <2>3, <2>4
<1>2. CASE WakeRun
  <2>1. CancelConnection /\ UNCHANGED <<wanted, selection, subscribed>>
    BY <1>2 DEF WakeRun
  <2>2. CASE conn \in InSession /\ conn' = "cancelled" /\ UNCHANGED <<socket, server, refreshVars>>
    <3>1. UNCHANGED <<socket, server, refresh, additions, removals, fresh>>
      BY <2>2 DEF refreshVars
    <3>2. Steps' /\ Sends'
      BY <2>1, <2>2, <3>1 DEF Steps, Sends
    <3>3. Sessions'
      BY <2>1, <2>2, <3>1 DEF Sessions
    <3>. QED  BY <3>2, <3>3
  <2>3. CASE conn' = "done" /\ socket' = FALSE /\ server' = {} /\ refresh' = "none"
    BY <2>3 DEF Steps, Sessions, Sends
  <2>. QED  BY <2>1, <2>2, <2>3 DEF CancelConnection
<1>. QED  BY <1>1, <1>2, ConnectionKeeps, RefreshingKeeps DEF CollectorNext, Run

(* Whenever the refresh task rests, the far end delivers the tokens the    *)
(* collector counts as subscribed, and no session inherits the belief or   *)
(* the task of an earlier one (run_connection, refresh_subscriptions).     *)
THEOREM SubscriptionsAlwaysAgree == CollectorSpec => []SubscriptionsAgree
<1>1. Subscriptions => SubscriptionsAgree
  BY DEF Subscriptions, SubscriptionsAgree, Steps, Sessions, Sends, InSession, Leaving
<1>. QED  BY <1>1, SubscriptionsInit, SubscriptionsNext, PTL DEF CollectorSpec

(***************************************************************************)
(* The queue.                                                              *)
(***************************************************************************)

(* What is due is at the head of the queue or in the batch at hand.        *)
Counts ==
    /\ queued \in Nat /\ batch \in Nat /\ due \in Nat
    /\ writer = "waiting" => batch = 0
    /\ ~stop => due = 0 /\ writer # "finished"
    /\ writer \in {"waiting", "writing"} => due =< queued + batch
    /\ writer = "finished" => due = 0

LEMMA CountsInit == CollectorInit => Counts
  BY DEF CollectorInit, Counts

LEMMA CountsNext ==
  ASSUME Counts, [CollectorNext]_collectorVars
  PROVE  Counts'
<1>. USE DEF Counts
<1>1. CASE TakeBatch
  <2>1. PICK n \in 1 .. AtMost(WriterBatch, queued) : batch' = n /\ queued' = queued - n
    BY <1>1 DEF TakeBatch
  <2>2. n \in Nat /\ n =< queued
    BY <2>1, SizesAssumption DEF AtMost
  <2>. QED  BY <1>1, <2>1, <2>2 DEF TakeBatch, runVars
<1>2. CASE WriteBatch
  BY <1>2 DEF WriteBatch, AtLeast
<1>3. CASE WriteFails \/ WriterEnds
  BY <1>3 DEF WriteFails, WriterEnds, runVars
<1>4. CASE Put \/ RefreshPut
  BY <1>4 DEF Put, RefreshPut, runVars, writerVars
<1>5. CASE UNCHANGED <<queued, writerVars, due, stop>>
  BY <1>5 DEF writerVars
<1>6. CASE Signal \/ WakeRun
  BY <1>6 DEF Signal, WakeRun, SetStop, writerVars
<1>. QED  BY <1>1, <1>2, <1>3, <1>4, <1>5, <1>6
          DEF CollectorNext, Write, Connection, Refreshing, Run, FetchCatalog, ConnectFails, PutsDone,
              Connect, Subscribe, SubscribeFails, StartSession, Unwind, Retry, LoopEnds,
              Message, SessionEnds, SocketDies, RefreshFetch, RefreshSubscribe,
              RefreshUnsubscribe, RefreshFails, RefreshCommit, RefreshDone, StatusEnds,
              Gathered, Stopped, collectorVars, runVars

(* Unless a write fails, the writer ends only when every record that was   *)
(* queued when stop was set is written (run_writer, run).                  *)
THEOREM QueueAlwaysSurvives == CollectorSpec => []QueueSurvivesStop
<1>1. Counts => QueueSurvivesStop
  BY DEF Counts, QueueSurvivesStop
<1>. QED  BY <1>1, CountsInit, CountsNext, PTL DEF CollectorSpec
=============================================================================
