-------------------------------- MODULE Packs --------------------------------
(***************************************************************************)
(* From the feature pack to training: the market encodings, the pack of    *)
(* logged decisions (H014's replay states, H015's on-policy pack or H017's *)
(* protocol tail, which H018 and H022 read, too) and H022's candidates.    *)
(* Each builder writes day by day, binds what it writes to its sources by  *)
(* their hashes, and is started again after a kill, a pause or a refusal;  *)
(* each reader compares hashes before it reads the rows of one artifact by *)
(* positions in another.                                                   *)
(*                                                                         *)
(* A hash is the number of a writing: every new writing of an artifact is  *)
(* another one, because its manifest holds the time.  A day is the         *)
(* contract on its receipt and the numbers of what it was computed from.   *)
(* The tape, its conditions and the earlier policy, registered and         *)
(* compared like the replays, are left out; a command has the machine to   *)
(* itself.                                                                 *)
(***************************************************************************)
EXTENDS Integers, FiniteSets

CONSTANTS
    PackDays,   \* the streamed days are 1 .. PackDays
    MaxEdits,   \* bound: artifacts made again without need
    MaxHalts,   \* bound: kills and pauses
    Nothing

ASSUME PacksAssumption ==
    /\ PackDays \in Nat \ {0} /\ MaxEdits \in Nat /\ MaxHalts \in Nat

VARIABLES
    study,     \* what is built and trained
    made,      \* each artifact's manifest: its number and what it was made of
    config,    \* the numbers each configuration registers
    days,      \* the daily receipts of the encodings and of the pack
    job,       \* the command under way: its stage, contract and next step
    ended,     \* the stage of the last command that came to an end, and how
    pausing,   \* the PAUSE file
    read,      \* what the last reader of the pack read
    training,  \* training has begun
    edits, halts, writings

packVars == <<study, made, config, days, job, ended, pausing, read, training,
              edits, halts, writings>>

Studies == {"H014", "H015", "H017", "H018", "H022"}
Replays == <<"replay of H012", "replay of H014">>

Artifacts == {"features", "fees", "encodings", "pack", "candidates",
              Replays[1], Replays[2]}

(* A daily receipt: the contract it was written under, and the numbers of  *)
(* what it was computed from.                                              *)
Contracts == UNION {[S -> Nat] : S \in SUBSET Artifacts}
Receipts == [contract : Contracts, of : Contracts]

ASSUME NothingAssumption == Nothing \notin Receipts

Behaviors == IF study = "H014" THEN 1 ELSE 2
ProtocolTail == study \notin {"H014", "H015"}   \* the pack is H017's

(* What the three builders of packs bind by hash and compare with their    *)
(* configurations.                                                         *)
StateSources == {"features", "encodings", Replays[1]}
OnPolicySources == {"features", "encodings", Replays[1], Replays[2]}
TailSources == OnPolicySources \cup {"fees"}

PackSources == CASE study = "H014" -> StateSources
                 [] study = "H015" -> OnPolicySources
                 [] ProtocolTail -> TailSources

CandidateSources == {"features", "encodings", "pack"}

LastStep == [encodings |-> PackDays, pack |-> Behaviors * PackDays, candidates |-> 1]
Steps(stage) == 1 .. LastStep[stage]
JobFree == job = Nothing
Present(S) == \A a \in S : made[a] # Nothing
Numbers(S) == [a \in S |-> made[a].number]
Registered(stage) == config[stage] = Numbers(DOMAIN config[stage])
-----------------------------------------------------------------------------
(* What becomes of a command.                                              *)
NoEnd == [stage |-> "none", how |-> "none"]

Ends(how) ==
    /\ job' = Nothing
    /\ ended' = [stage |-> job.stage, how |-> how]

GoesOn == job' = [job EXCEPT !.step = @ + 1] /\ UNCHANGED ended

(* A refusal is answered before the next command; new replays may need new *)
(* encodings first.                                                        *)
Answered(stage) ==
    ended.how \notin {"sources", "contract"}
        \cup (IF stage = "encodings" THEN {} ELSE {"replays"})

Starts(stage, of) ==
    /\ JobFree /\ Answered(stage)
    /\ job' = [stage |-> stage, of |-> of, step |-> 1]
    /\ UNCHANGED <<study, made, config, days, ended, pausing, read, training, halts,
                   writings>>

Refuses(stage, why) ==
    /\ JobFree /\ Answered(stage)
    /\ ended' = [stage |-> stage, how |-> why]
    /\ UNCHANGED <<study, made, config, days, job, pausing, read, training, edits,
                   halts, writings>>

Writes(a, of) ==
    /\ writings' = [writings EXCEPT ![a] = @ + 1]
    /\ made' = [made EXCEPT ![a] = [number |-> writings'[a], of |-> of]]

Works(stage) == ~JobFree /\ job.stage = stage /\ job.step \in Steps(stage)
Done(stage) == ~JobFree /\ job.stage = stage /\ job.step \notin Steps(stage)
Today(stage) == days[stage][job.step]

WriteDay(stage, of) ==
    days' = [days EXCEPT ![stage][job.step] = [contract |-> job.of, of |-> of]]

SlipReceiptValid(stage) == Today(stage) # Nothing   \* whatever its contract
ReceiptValid(stage) == Today(stage) # Nothing /\ Today(stage).contract = job.of

(* A receipt of another contract ends the command.                         *)
RefuseDay(stage) ==
    /\ Works(stage) /\ Today(stage) # Nothing /\ ~ReceiptValid(stage)
    /\ Ends("contract")
    /\ UNCHANGED <<study, made, config, days, pausing, read, training, edits, halts,
                   writings>>

MayPause == IF pausing THEN Ends("paused") ELSE GoesOn
-----------------------------------------------------------------------------
(* build_policy_encodings; its configuration is not one of numbers.        *)
EncodingContract == Numbers({"features"})

(* What PolicyEncodingStore, through which a replay reads, asks, too: of   *)
(* the manifest and of each of its days.                                   *)
StoreOpens ==
    /\ made["encodings"].of = EncodingContract
    /\ \A i \in Steps("encodings") : days["encodings"][i].of = EncodingContract

(* A finished cache of the same contract is returned as it is.             *)
BeginEncodings ==
    /\ Present({"features"}) /\ ~Present({"encodings"})
    /\ Starts("encodings", EncodingContract)
    /\ UNCHANGED edits

RefuseEncodings ==
    /\ Present({"features", "encodings"}) /\ made["encodings"].of # EncodingContract
    /\ Refuses("encodings", "contract")

(* A cached day goes by without a look at PAUSE.                           *)
SlipKeepsOn == MayPause
KeepsOn == GoesOn

KeepEncodedDay ==
    /\ Works("encodings") /\ ReceiptValid("encodings")
    /\ KeepsOn
    /\ UNCHANGED <<study, made, config, days, pausing, read, training, edits, halts,
                   writings>>

EncodeDay ==
    /\ Works("encodings") /\ Today("encodings") = Nothing
    /\ WriteDay("encodings", Numbers({"features"}))
    /\ MayPause
    /\ UNCHANGED <<study, made, config, pausing, read, training, edits, halts, writings>>

WriteEncodings ==
    /\ Done("encodings")
    /\ Writes("encodings", job.of)
    /\ Ends("ended")
    /\ UNCHANGED <<study, config, days, pausing, read, training, edits, halts>>
-----------------------------------------------------------------------------
(* The builder of the pack.  Its configuration registers every source; the *)
(* replays in H017's were charged by the schedules it charges by.          *)
FeesAgree ==
    ProtocolTail => \A b \in 1..2 : made[Replays[b]].of["fees"] = made["fees"].number

BeginPack(again) ==
    /\ Present(PackSources) /\ Registered("pack") /\ FeesAgree
    /\ edits' = edits + (IF again THEN 1 ELSE 0) /\ edits' <= MaxEdits
    /\ Starts("pack", config["pack"])

RefusePack ==
    /\ Present(PackSources)
    /\ \/ ~Registered("pack") /\ Refuses("pack", "sources")
       \/ Registered("pack") /\ ~FeesAgree /\ Refuses("pack", "replays")

(* After each day, a kept one too, comes the look at PAUSE.                *)
KeepDay ==
    /\ Works("pack") /\ ReceiptValid("pack")
    /\ MayPause
    /\ UNCHANGED <<study, made, config, days, pausing, read, training, edits, halts,
                   writings>>

(* The days: positions in the features and in the encodings beside what    *)
(* one behavior's replay decided there, its executions and its fees.       *)
Behavior(step) == Replays[1 + (step - 1) \div PackDays]
StateDay == Numbers({"features", "encodings", Replays[1]})
OnPolicyDay == Numbers({"features", "encodings", Behavior(job.step)})
TailDay == Numbers({"features", "encodings", Behavior(job.step), "fees"})

BuildDay ==
    /\ Works("pack") /\ Today("pack") = Nothing
    /\ WriteDay("pack", CASE study = "H014" -> StateDay
                          [] study = "H015" -> OnPolicyDay
                          [] ProtocolTail -> TailDay)
    /\ MayPause
    /\ UNCHANGED <<study, made, config, pausing, read, training, edits, halts, writings>>

(* A replay's decisions must be at the rows and times of the features, as  *)
(* those of a replay of other features may be or not.                      *)
RefuseRows ==
    /\ Works("pack") /\ Today("pack") = Nothing
    /\ made[Behavior(job.step)].of["features"] # made["features"].number
    /\ Ends("replays")
    /\ UNCHANGED <<study, made, config, days, pausing, read, training, edits, halts,
                   writings>>

WritePack ==
    /\ Done("pack")
    /\ Writes("pack", job.of)
    /\ Ends("ended")
    /\ UNCHANGED <<study, config, days, pausing, read, training, edits, halts>>
-----------------------------------------------------------------------------
(* The readers of the pack.  That the encodings have the pack's rows at    *)
(* its positions is asked, too, but encodings of other features have the   *)
(* same rows.                                                              *)
ReadPack ==
    read' = [number |-> Numbers({"features", "encodings"}),
             pack |-> days["pack"], encoded |-> days["encodings"],
             encodings |-> made["encodings"].of]

SlipBindings == TRUE
Bindings ==
    \A a \in {"features", "encodings"} : made["pack"].of[a] = made[a].number

SourcesUnchanged == made["pack"].of = config["pack"] /\ Bindings

Trains ==
    /\ JobFree /\ Present(CandidateSources)
    /\ ReadPack
    /\ training' = TRUE
    /\ UNCHANGED <<study, made, config, days, job, ended, pausing, edits, halts, writings>>

TrainState == study = "H014" /\ Trains /\ SourcesUnchanged

(* H017's pack is read by H015's trainer.                                  *)
TrainOnPolicy == study \in {"H015", "H017"} /\ Trains /\ SourcesUnchanged

TrainResidual == study = "H018" /\ Trains /\ Registered("residual") /\ Bindings

RefuseResidual ==
    /\ study = "H018" /\ Present(CandidateSources) /\ ~Registered("residual")
    /\ Refuses("residual", "sources")

(* H022's candidates.  A manifest that is there is returned, whatever it   *)
(* was built from.                                                         *)
BeginCandidates ==
    /\ study = "H022" /\ Present(CandidateSources) /\ ~Present({"candidates"})
    /\ Registered("candidates") /\ Bindings
    /\ Starts("candidates", config["candidates"])
    /\ UNCHANGED edits

RefuseCandidates ==
    /\ study = "H022" /\ Present(CandidateSources) /\ ~Registered("candidates")
    /\ Refuses("candidates", "sources")

CollectCandidates ==
    /\ Works("candidates")
    /\ ReadPack
    /\ GoesOn
    /\ UNCHANGED <<study, made, config, days, pausing, training, edits, halts, writings>>

WriteCandidates ==
    /\ Done("candidates")
    /\ Writes("candidates", job.of)
    /\ Ends("ended")
    /\ UNCHANGED <<study, config, days, pausing, read, training, edits, halts>>

(* train of H022.                                                          *)
TrainNetEdge ==
    /\ study = "H022" /\ JobFree /\ Present({"candidates"})
    /\ made["candidates"].of = config["candidates"]
    /\ training' = TRUE
    /\ UNCHANGED <<study, made, config, days, job, ended, pausing, read, edits, halts,
                   writings>>

RefuseNetEdge ==
    /\ study = "H022" /\ Present({"candidates"})
    /\ made["candidates"].of # config["candidates"]
    /\ Refuses("candidates", "contract")
-----------------------------------------------------------------------------
(* The researcher: sources are made and made again, a refusal is answered  *)
(* by registering what is there, by deleting the stage's output or by new  *)
(* replays.                                                                *)
IsReplay(a) == a \in {Replays[1], Replays[2]}
MadeOf(a) == IF IsReplay(a) THEN PackSources \cap {"features", "fees"} ELSE {}

Needed(a) ==
    Present({a}) =>
        IsReplay(a) /\ ended.how = "replays" /\ made[a].of # Numbers(MadeOf(a))

Make(a) ==
    /\ JobFree /\ a \in PackSources \ {"encodings"}
    /\ IsReplay(a) => Present({"encodings"} \cup MadeOf(a)) /\ StoreOpens
    /\ edits' = (IF Needed(a) THEN edits ELSE edits + 1) /\ edits' <= MaxEdits
    /\ Writes(a, Numbers(MadeOf(a)))
    /\ ended' = IF ended.how = "replays" /\ IsReplay(a) THEN NoEnd ELSE ended
    /\ UNCHANGED <<study, config, days, job, pausing, read, training, halts>>

Register ==
    /\ ended.how = "sources"
    /\ config' = [config EXCEPT ![ended.stage] = Numbers(DOMAIN @)]
    /\ ended' = NoEnd
    /\ UNCHANGED <<study, made, days, job, pausing, read, training, edits, halts, writings>>

Clear ==
    /\ ended.how = "contract"
    /\ made' = [made EXCEPT ![ended.stage] = Nothing]
    /\ days' = IF ended.stage \in DOMAIN days
               THEN [days EXCEPT ![ended.stage] = [i \in DOMAIN @ |-> Nothing]]
               ELSE days
    /\ ended' = NoEnd
    /\ UNCHANGED <<study, config, job, pausing, read, training, edits, halts, writings>>

KillBuild ==
    /\ ~JobFree /\ halts < MaxHalts
    /\ halts' = halts + 1
    /\ Ends("killed")
    /\ UNCHANGED <<study, made, config, days, pausing, read, training, edits, writings>>

PauseBuild ==
    /\ ~pausing /\ halts < MaxHalts
    /\ pausing' = TRUE /\ halts' = halts + 1
    /\ UNCHANGED <<study, made, config, days, job, ended, read, training, edits, writings>>

UnpauseBuild ==
    /\ pausing /\ pausing' = FALSE
    /\ UNCHANGED <<study, made, config, days, job, ended, read, training, edits, halts,
                   writings>>
-----------------------------------------------------------------------------
RegisteredBy ==
    [pack |-> PackSources, residual |-> {"pack"}, candidates |-> CandidateSources]

Configs == {"pack"} \cup {s \in {"residual", "candidates"} :
                             study = IF s = "residual" THEN "H018" ELSE "H022"}

PackInit ==
    /\ study \in Studies
    /\ made = [a \in Artifacts |-> Nothing]
    /\ config = [s \in Configs |-> [a \in RegisteredBy[s] |-> 0]]
    /\ days = [stage \in {"encodings", "pack"} |-> [i \in Steps(stage) |-> Nothing]]
    /\ job = Nothing /\ ended = NoEnd
    /\ pausing = FALSE /\ read = Nothing /\ training = FALSE
    /\ edits = 0 /\ halts = 0
    /\ writings = [a \in Artifacts |-> 0]

(* A pack is built when none is there that its reader accepts.             *)
PackNeeded ==
    Present({"pack"}) =>
        ~Bindings \/ (study \in {"H014", "H015", "H017"} /\ ~SourcesUnchanged)

(* What is done until training begins: each command again after it ended,  *)
(* each answer to a refusal, each source that is missing.                  *)
PackWork ==
    \/ BeginEncodings \/ KeepEncodedDay \/ EncodeDay \/ WriteEncodings
    \/ (\E a \in Artifacts : IsReplay(a) /\ Needed(a)) /\ RefuseEncodings
    \/ Present(PackSources) /\ PackNeeded /\ (BeginPack(FALSE) \/ RefusePack)
    \/ KeepDay \/ BuildDay \/ RefuseRows \/ WritePack
    \/ \E stage \in DOMAIN days : RefuseDay(stage)
    \/ TrainState \/ TrainOnPolicy \/ TrainResidual \/ RefuseResidual
    \/ BeginCandidates \/ RefuseCandidates \/ CollectCandidates \/ WriteCandidates
    \/ TrainNetEdge \/ RefuseNetEdge
    \/ \E a \in PackSources : Needed(a) /\ Make(a)
    \/ Register \/ Clear

PackNext ==
    /\ ~training
    /\ \/ PackWork
       \/ RefuseEncodings \/ BeginPack(TRUE) \/ RefusePack
       \/ \E a \in PackSources : Make(a)
       \/ KillBuild \/ PauseBuild \/ UnpauseBuild

(* PAUSE is removed when a pack waits for it; encodings get on with it.    *)
PackFairness ==
    /\ WF_packVars(~training /\ PackWork)
    /\ WF_packVars(~training /\ ended = [stage |-> "pack", how |-> "paused"] /\ UnpauseBuild)
-----------------------------------------------------------------------------
(* Whoever reads the pack reads it beside the features and the encodings   *)
(* that each of its days was computed from, a behavior's days all from one *)
(* replay and the encodings themselves whole, whatever was built again,    *)
(* killed, kept or registered before: its rows are positions in the two.   *)
OffsetsFit ==
    read # Nothing =>
        /\ \A i \in DOMAIN read.pack :
              /\ read.pack[i] # Nothing
              /\ \A a \in {"features", "encodings"} :
                    read.pack[i].of[a] = read.number[a]
              /\ \A j \in DOMAIN read.pack : \A a \in DOMAIN read.pack[i].of :
                    a \in DOMAIN read.pack[j].of => read.pack[j].of[a] = read.pack[i].of[a]
        /\ \A i \in DOMAIN read.encoded :
              read.encoded[i] # Nothing /\ read.encoded[i].of = read.encodings

(* Training begins: whatever is edited and stopped on the way, commands    *)
(* that are run again and refusals that are answered lead there.           *)
TrainingBegins == <>training
=============================================================================
