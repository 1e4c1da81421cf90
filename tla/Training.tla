------------------------------ MODULE Training ------------------------------
(***************************************************************************)
(* The training loops of H011 to H018: epochs of batches, an evaluation at *)
(* the end of each epoch, the best model in a file of its own, a           *)
(* checkpoint that a later run of the command resumes from, early stopping *)
(* and the PAUSE file.                                                     *)
(*                                                                         *)
(* A model is the sequence of the batches it was fitted on, each with the  *)
(* state of the random generators at that moment; two models are equal     *)
(* iff the code would compute the same weights.  `score' is the selection  *)
(* score (minus the log loss in H011 and H013) the model has after each    *)
(* number of whole epochs, of none for the untrained model.                *)
(*                                                                         *)
(* `run' is what a process holds in memory and `checkpoint' the last       *)
(* checkpoint.pt, which has the same fields.  A new process keeps nothing  *)
(* but the files.                                                          *)
(***************************************************************************)
EXTENDS Integers, Sequences, FiniteSets

CONSTANTS
    Epochs,      \* training["epochs"]
    Batches,     \* batches of an epoch, all shards together
    Patience,    \* training["early_stopping_patience"]
    Contracts,   \* training contracts: configuration, sources and code
    MaxScore,    \* bound: scores are 1..MaxScore, or 1 and not a number
    MaxKills,    \* bound: processes killed
    MaxPauses,   \* bound: times PAUSE is created
    MaxReruns,   \* bound: commands run again after a result
    None

Nan == -1        \* below every score, as a score that is not a number never wins
MinusInfinity == 0

ASSUME TrainingAssumption ==
    /\ Epochs \in Nat \ {0} /\ Batches \in Nat \ {0} /\ Patience \in Nat \ {0}
    /\ MaxScore \in Nat \ {0}
    /\ {MaxKills, MaxPauses, MaxReruns} \subseteq Nat
    /\ None \notin Contracts

(* Models, what a run holds and saves, and the file of its best model.     *)
Models == Seq(Contracts \X Nat \X Nat \X Nat)

Runs ==
    [contract : Contracts, model : Models, rng : Nat, epoch : 0..Epochs,
     batch : 0..Batches, history : Seq(Int), best : Int, bestEpoch : Int, stale : Int]

BestFiles == [contract : Contracts, model : Models, epoch : -1..(Epochs - 1)]

ASSUME NoneAssumption == None \notin Models \cup Runs \cup BestFiles

VARIABLES
    trainer,     \* which loop runs, one of Trainers
    score,       \* score[n]: of the model after n whole epochs
    pc,          \* "idle": no process
    run,         \* memory of the process, None without one
    checkpoint,  \* checkpoint.pt
    bestFile,    \* best-model.pt or best-policy.pt
    epochFiles,  \* epochs/epoch-NNN.pt
    result,      \* result.json
    pauseFile,   \* the PAUSE file exists
    kills, pauses, reruns,
    overrun      \* history: the epochs a command trained on after, patience being out

files == <<checkpoint, bestFile, epochFiles, result>>
bounds == <<kills, pauses, reruns>>
vars == <<trainer, score, pc, run, files, pauseFile, bounds, overrun>>

-----------------------------------------------------------------------------
(* The loops, by how they differ.  `batchwise': checkpoints inside an      *)
(* epoch, and PAUSE read there instead of after the epoch.  `initial': the *)
(* untrained model is evaluated and saved as the best of epoch -1; H013    *)
(* writes a checkpoint then, too.  `epochFiles': the adapter of every      *)
(* epoch is kept.                                                          *)

H011 == [name |-> "H011", batchwise |-> TRUE, initial |-> "none",
         epochFiles |-> FALSE]

H012 == [name |-> "H012", batchwise |-> FALSE, initial |-> "none",
         epochFiles |-> FALSE]

H013 == [name |-> "H013", batchwise |-> TRUE, initial |-> "checkpoint",
         epochFiles |-> FALSE]

H014 == [name |-> "H014", batchwise |-> FALSE, initial |-> "best",
         epochFiles |-> FALSE]

H015 == [name |-> "H015", batchwise |-> FALSE, initial |-> "best",
         epochFiles |-> FALSE]

H018 == [name |-> "H018", batchwise |-> FALSE, initial |-> "best",
         epochFiles |-> TRUE]

Trainers == {H011, H012, H013, H014, H015, H018}

-----------------------------------------------------------------------------
(* A process that finds no checkpoint starts from nothing.  -1 is the      *)
(* epoch of the untrained model.                                           *)
Fresh(c) ==
    [contract |-> c, model |-> <<>>, rng |-> 0, epoch |-> 0, batch |-> 0,
     history |-> <<>>, best |-> MinusInfinity, bestEpoch |-> -1, stale |-> 0]

Init ==
    /\ trainer \in Trainers
    /\ score \in [0..Epochs -> 1..MaxScore] \union [0..Epochs -> {Nan, 1}]
    /\ pc = "idle"
    /\ run = None
    /\ checkpoint = None
    /\ bestFile = None
    /\ epochFiles = [e \in 0..(Epochs - 1) |-> None]
    /\ result = None
    /\ pauseFile = FALSE
    /\ kills = 0 /\ pauses = 0 /\ reruns = 0
    /\ overrun = {}

Stopped == pc' = "idle" /\ run' = None

(* Mutants: the generators or the best score are not among what is         *)
(* restored.                                                               *)
SlipRestoredRng == [checkpoint EXCEPT !.rng = 0]
SlipRestoredBest == [checkpoint EXCEPT !.best = MinusInfinity]

(* A process that resumes takes all of what was saved.                     *)
Restored == checkpoint

(* A checkpoint of another contract is an error: the command ends having   *)
(* changed nothing, which is no step here.                                 *)
Accepts(c) == checkpoint # None => checkpoint.contract = c

(* The command.  Nothing looks at a result.json that is there already, nor *)
(* does a resumed loop ask whether patience was out: it trains on.         *)
Begin ==
    /\ pc = "idle"
    /\ result # None => reruns < MaxReruns
    /\ \E c \in Contracts :
        /\ Accepts(c)
        /\ IF checkpoint # None
             THEN run' = Restored /\ pc' = "epoch"
             ELSE /\ run' = Fresh(c)
                  /\ pc' = IF trainer.initial = "none" THEN "epoch" ELSE "initial"
    /\ reruns' = IF result # None THEN reruns + 1 ELSE reruns
    /\ overrun' = overrun \cup
          (IF checkpoint # None /\ checkpoint.stale >= Patience
             THEN {checkpoint.epoch} ELSE {})
    /\ UNCHANGED <<trainer, score, files, pauseFile, kills, pauses>>

(* The untrained model is the first best.                                  *)
SaveInitialBest ==
    /\ pc = "initial"
    /\ run' = [run EXCEPT !.best = score[0]]
    /\ bestFile' = [contract |-> run.contract, model |-> run.model, epoch |-> -1]
    /\ pc' = IF trainer.initial = "checkpoint" THEN "initialCheckpoint" ELSE "epoch"
    /\ UNCHANGED <<trainer, score, checkpoint, epochFiles, result, pauseFile, bounds, overrun>>

SaveInitialCheckpoint ==
    /\ pc = "initialCheckpoint"
    /\ checkpoint' = run
    /\ pc' = "epoch"
    /\ UNCHANGED <<trainer, score, run, bestFile, epochFiles, result, pauseFile, bounds, overrun>>

(* The head of the loop over epochs.  The order of the batches depends on  *)
(* the seed and the epoch alone; a batchwise loop skips to its cursor.     *)
StartEpoch ==
    /\ pc = "epoch"
    /\ pc' = IF run.epoch < Epochs THEN "batch" ELSE "finish"
    /\ UNCHANGED <<trainer, score, run, files, pauseFile, bounds, overrun>>

TrainBatch ==
    /\ pc = "batch"
    /\ run.batch < Batches
    /\ run' = [run EXCEPT
                 !.model = Append(@, <<run.contract, run.epoch, run.batch, run.rng>>),
                 !.rng = @ + 1,
                 !.batch = @ + 1]
    /\ pc' = IF trainer.batchwise THEN "interval" ELSE "batch"
    /\ UNCHANGED <<trainer, score, files, pauseFile, bounds, overrun>>

(* Mutant: a paused loop saves only when the interval is over.             *)
SlipMustSave == FALSE

(* The two readings of PAUSE after a batch: the first decides with the     *)
(* clock whether a checkpoint is written ...                               *)
MustSave == pauseFile

SaveAfterBatch ==
    /\ pc = "interval"
    /\ checkpoint' = run
    /\ pc' = "pause"
    /\ UNCHANGED <<trainer, score, run, bestFile, epochFiles, result, pauseFile, bounds, overrun>>

KeepAfterBatch ==
    /\ pc = "interval"
    /\ ~MustSave
    /\ pc' = "pause"
    /\ UNCHANGED <<trainer, score, run, files, pauseFile, bounds, overrun>>

(* ... and the second whether the command ends.  PAUSE created between the *)
(* two ends it with nothing saved.                                         *)
PauseAfterBatch ==
    /\ pc = "pause"
    /\ IF pauseFile THEN Stopped ELSE pc' = "batch" /\ UNCHANGED run
    /\ UNCHANGED <<trainer, score, files, pauseFile, bounds, overrun>>

-----------------------------------------------------------------------------
Score(model) == score[Len(model) \div Batches]

(* The evaluation after the last batch: better than the best so far, or    *)
(* one more stale epoch.                                                   *)
Evaluated(r) ==
    LET s == Score(r.model)
        seen == [r EXCEPT !.history = Append(@, s)]
    IN  IF r.best # Nan /\ s > r.best
          THEN [seen EXCEPT !.best = s, !.bestEpoch = r.epoch, !.stale = 0]
          ELSE [seen EXCEPT !.stale = @ + 1]

AfterEvaluation(r) == IF r.bestEpoch = r.epoch THEN "best" ELSE "checkpoint"

EvaluateEpoch ==
    /\ pc = "batch"
    /\ run.batch = Batches
    /\ run' = Evaluated(run)
    /\ pc' = IF trainer.epochFiles THEN "epochFile" ELSE AfterEvaluation(run')
    /\ UNCHANGED <<trainer, score, files, pauseFile, bounds, overrun>>

SaveEpochFile ==
    /\ pc = "epochFile"
    /\ epochFiles' = [epochFiles EXCEPT ![run.epoch] = run.model]
    /\ pc' = AfterEvaluation(run)
    /\ UNCHANGED <<trainer, score, run, checkpoint, bestFile, result, pauseFile, bounds, overrun>>

SaveBest ==
    /\ pc = "best"
    /\ bestFile' = [contract |-> run.contract, model |-> run.model,
                    epoch |-> run.epoch]
    /\ pc' = "checkpoint"
    /\ UNCHANGED <<trainer, score, run, checkpoint, epochFiles, result, pauseFile, bounds, overrun>>

SaveCheckpoint ==
    /\ pc = "checkpoint"
    /\ run' = [run EXCEPT !.epoch = @ + 1, !.batch = 0]
    /\ checkpoint' = run'
    /\ pc' = "ended"
    /\ UNCHANGED <<trainer, score, bestFile, epochFiles, result, pauseFile,
                   bounds, overrun>>

(* After the checkpoint of an epoch: PAUSE first, then the early stop, so  *)
(* a command paused where it would have stopped goes on when resumed.      *)
EndEpoch ==
    /\ pc = "ended"
    /\ IF pauseFile /\ ~trainer.batchwise
         THEN Stopped
         ELSE /\ pc' = IF run.stale >= Patience THEN "finish" ELSE "epoch"
              /\ UNCHANGED run
    /\ UNCHANGED <<trainer, score, files, pauseFile, bounds, overrun>>

BestIsMine == bestFile # None /\ bestFile.contract = run.contract

(* The model of the result is read back from its file, the figures come    *)
(* from memory.  A file of another contract is an error.                   *)
WriteResult ==
    /\ pc = "finish"
    /\ BestIsMine
    /\ result' = [contract |-> run.contract, model |-> bestFile.model,
                  bestEpoch |-> run.bestEpoch, best |-> run.best,
                  history |-> run.history]
    /\ Stopped
    /\ UNCHANGED <<trainer, score, checkpoint, bestFile, epochFiles, pauseFile, bounds, overrun>>

RefuseBest ==
    /\ pc = "finish"
    /\ ~BestIsMine
    /\ Stopped
    /\ UNCHANGED <<trainer, score, files, pauseFile, bounds, overrun>>

-----------------------------------------------------------------------------
(* Outside the command.                                                    *)
Kill ==
    /\ pc # "idle" /\ kills < MaxKills
    /\ kills' = kills + 1
    /\ Stopped
    /\ UNCHANGED <<trainer, score, files, pauseFile, pauses, reruns, overrun>>

Pause ==
    /\ ~pauseFile /\ pauses < MaxPauses
    /\ pauseFile' = TRUE
    /\ pauses' = pauses + 1
    /\ UNCHANGED <<trainer, score, pc, run, files, kills, reruns, overrun>>

Unpause ==
    /\ pauseFile
    /\ pauseFile' = FALSE
    /\ UNCHANGED <<trainer, score, pc, run, files, bounds, overrun>>

Work ==
    \/ Begin \/ SaveInitialBest \/ SaveInitialCheckpoint \/ StartEpoch
    \/ TrainBatch \/ SaveAfterBatch \/ KeepAfterBatch \/ PauseAfterBatch
    \/ EvaluateEpoch \/ SaveEpochFile \/ SaveBest \/ SaveCheckpoint
    \/ EndEpoch \/ WriteResult \/ RefuseBest

Next == Work \/ Kill \/ Pause \/ Unpause

Spec == Init /\ [][Next]_vars

(* The command is run again until there is a result, and a process that    *)
(* runs goes on.  Nothing makes anyone remove PAUSE.                       *)
FairSpec == Spec /\ WF_vars(Work)

-----------------------------------------------------------------------------
(* What an uninterrupted command computes.                                 *)

Exact(c, n) ==
    [k \in 1..n |-> <<c, (k - 1) \div Batches, (k - 1) % Batches, k - 1>>]

(* After how many of n epochs the best model is seen first; 0, the model   *)
(* the loop began with, if no score beats it.                              *)
FirstBest(n) ==
    LET from == IF trainer.initial = "none" THEN 1 ELSE 0
        first == CHOOSE e \in from..n :
                   /\ \A d \in from..n : score[d] <= score[e]
                   /\ \A d \in from..(e - 1) : score[d] < score[e]
    IN  IF (from = 0 /\ score[0] = Nan) \/ score[first] = Nan THEN 0 ELSE first

Saved == {checkpoint, run} \ {None}

-----------------------------------------------------------------------------
(* However often a command was killed, paused and started again, every     *)
(* model in memory or in a file was fitted on each batch of each epoch     *)
(* once, in order, under one contract and with the random generators where *)
(* an uninterrupted command has them.                                      *)
ModelsAreExact ==
    LET kept == {r \in {checkpoint, run, bestFile, result} : r # None} IN
    /\ \A r \in kept : r.model = Exact(r.contract, Len(r.model))
    /\ \A r \in Saved :
         /\ r.rng = Len(r.model)
         /\ Len(r.model) = (r.epoch * Batches) + r.batch
    /\ \A e \in DOMAIN epochFiles :
         epochFiles[e] # None => Len(epochFiles[e]) = (e + 1) * Batches

(* The result carries the first best of all epochs trained, the model file *)
(* it was read from is that epoch's, and its history has every epoch once. *)
ResultIsBest ==
    result # None =>
        LET n == Len(result.history) IN
        /\ \A e \in 1..n : result.history[e] = score[e]
        /\ result.bestEpoch = FirstBest(n) - 1
        /\ result.best = score[FirstBest(n)]
        /\ Len(result.model) = FirstBest(n) * Batches
        /\ trainer.epochFiles => \A e \in 0..(n - 1) : epochFiles[e] # None

(* Patience is out after n epochs, as their scores alone say.              *)
PatienceOut(n) == n - FirstBest(n) >= Patience

(* The result of an uninterrupted command has all epochs, or those up to   *)
(* the first after which patience is out.  That of a command that was      *)
(* stopped may have more: it trained on after each of them with which it   *)
(* was begun again, and ends with the next after which patience is out.    *)
ResultIsWhole ==
    result # None =>
        LET n == Len(result.history) IN
        /\ n = Epochs \/ PatienceOut(n)
        /\ \A e \in 1..(n - 1) : PatienceOut(e) => e \in overrun

(* Stops leave no trace in the models, and one in the result: the epochs   *)
(* trained after an early stop that a resumed command did not notice.      *)
TrainingIsExact == ModelsAreExact /\ ResultIsBest /\ ResultIsWhole

(* A command that is run again whenever it ended without a result writes   *)
(* one in the end, with PAUSE still in place, too; but a loop that does    *)
(* not save the untrained model needs one epoch with a score.              *)
Finishes ==
    (trainer.initial # "none" \/ \E n \in 1..Epochs : score[n] # Nan)
        => <>(result # None)
=============================================================================
