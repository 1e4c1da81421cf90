--------------------------- MODULE LearningProofs ---------------------------
(***************************************************************************)
(* However a training command is killed, paused and run again, its models  *)
(* are fitted on what an uninterrupted command fits them on, its result is *)
(* the first best of its epochs, and it overran an early stop only where   *)
(* it was begun again there: in each of the six loops, for any epochs,     *)
(* batches, patience, contracts and scores.  The features they learn from  *)
(* saw each event of the past once and none of the future, however the     *)
(* build of the pack is stopped and started again.                         *)
(***************************************************************************)
EXTENDS Training, FeaturePack, TotalsProofs, SequenceTheorems

Fitted(r) == r.epoch * Batches + r.batch   \* batches a run has behind it

(* The first epochs whose score a loop takes into account.                 *)
From == IF trainer.initial = "none" THEN 1 ELSE 0

(* The stages at which the epoch under way has been evaluated, those in it *)
(* and those before the first one.                                         *)
Judged == {"epochFile", "best", "checkpoint"}
InEpoch == {"batch", "interval", "pause"} \cup Judged
Beginning == {"initial", "initialCheckpoint"}
Stages == {"idle", "epoch", "ended", "finish"} \cup InEpoch \cup Beginning

Setting ==
    /\ pc \in Stages
    /\ trainer \in Trainers
    /\ score \in [0..Epochs -> Int]
    /\ \A n \in 0..Epochs : score[n] = Nan \/ score[n] > 0
    /\ checkpoint # None => checkpoint \in Runs
    /\ bestFile # None => bestFile \in BestFiles
    /\ DOMAIN epochFiles = 0..(Epochs - 1)

(* Where a process is says how far its run has come.                       *)
Running ==
    /\ pc = "idle" => run = None
    /\ pc # "idle" => run \in Runs
    /\ pc \in InEpoch => run.epoch < Epochs
    /\ pc \in Judged => run.batch = Batches
    /\ pc \in Beginning => checkpoint = None /\ From = 0
    /\ pc = "initial" =>
          run.epoch = 0 /\ run.batch = 0 /\ run.history = <<>> /\ run.bestEpoch = -1

(* The models are what an uninterrupted command has there.                 *)
Undisturbed(r) == r.model = Exact(r.contract, Fitted(r)) /\ r.rng = Fitted(r)

AllUndisturbed ==
    /\ pc # "idle" => Undisturbed(run)
    /\ checkpoint # None => Undisturbed(checkpoint)
    /\ bestFile # None =>
          bestFile.model = Exact(bestFile.contract, (bestFile.epoch + 1) * Batches)
    /\ \A e \in 0..(Epochs - 1) :
          epochFiles[e] # None =>
             epochFiles[e] \in Models /\ Len(epochFiles[e]) = (e + 1) * Batches

(* A run has seen n scores and knows their first best.                     *)
Leads(r, n) ==
    \/ /\ r.bestEpoch = -1
       /\ From = 0 => r.best = score[0] /\ (r.best = Nan \/ \A d \in 1..n : score[d] <= r.best)
       /\ From = 1 => r.best = MinusInfinity /\ \A d \in 1..n : score[d] = Nan
    \/ LET e == r.bestEpoch + 1 IN
       /\ e \in 1..n /\ r.best = score[e] /\ score[e] # Nan
       /\ From = 0 => score[0] # Nan
       /\ \A d \in From..n : score[d] <= score[e]
       /\ \A d \in From..(e - 1) : score[d] < score[e]

Seen(r, n) ==
    /\ Len(r.history) = n
    /\ \A e \in 1..n : r.history[e] = score[e]
    /\ Leads(r, n)

AllSeen ==
    /\ pc \notin {"idle", "initial"} =>
          Seen(run, IF pc \in Judged THEN run.epoch + 1 ELSE run.epoch)
    /\ checkpoint # None => Seen(checkpoint, checkpoint.epoch)

(* The run goes on from what is saved: what it finds better than all it    *)
(* had seen, another one from the same checkpoint would, too.              *)
Improves(r) == r.best # Nan /\ score[r.epoch + 1] > r.best

GoesOnFrom(r) ==
    /\ run.epoch = r.epoch
    /\ pc \notin Judged => run.best = r.best /\ run.bestEpoch = r.bestEpoch
    /\ pc \in Judged /\ run.bestEpoch = run.epoch => Improves(r)

Continues ==
    /\ pc # "idle" /\ checkpoint # None =>
          run.contract = checkpoint.contract /\ GoesOnFrom(checkpoint)
    /\ pc # "idle" /\ checkpoint = None /\ From = 1 => GoesOnFrom(Fresh(run.contract))

(* The file of the best model is that of the best epoch a run knows, or of *)
(* the epoch it is about to find better.                                   *)
Mine(r) == bestFile # None /\ bestFile.contract = r.contract
Same(r) == Mine(r) => bestFile.epoch = r.bestEpoch
Near(r) ==
    Mine(r) => bestFile.epoch = r.bestEpoch \/ (bestFile.epoch = r.epoch /\ Improves(r))

BestKept ==
    /\ checkpoint # None => Near(checkpoint)
    /\ checkpoint = None /\ From = 1 => \A c \in Contracts : Near(Fresh(c))
    /\ pc \in {"epoch", "batch", "interval", "pause", "initialCheckpoint"} => Near(run)
    /\ pc \in {"checkpoint", "ended", "finish"} => Same(run)
    /\ pc = "epochFile" /\ run.bestEpoch # run.epoch => Same(run)
    /\ pc = "best" => run.bestEpoch = run.epoch
    /\ bestFile # None /\ From = 1 => bestFile.epoch >= 0

(* A loop that keeps every epoch's model has those of all epochs behind.   *)
EpochsKept ==
    trainer.epochFiles =>
       /\ checkpoint # None => \A e \in 0..(checkpoint.epoch - 1) : epochFiles[e] # None
       /\ pc # "idle" => \A e \in 0..(run.epoch - 1) : epochFiles[e] # None
       /\ pc \in {"best", "checkpoint"} => epochFiles[run.epoch] # None

ResultKept ==
    /\ result # None =>
          /\ result.model = Exact(result.contract, Len(result.model))
          /\ Len(result.history) \in 0..Epochs
    /\ ResultIsBest

IInv ==
    /\ Setting /\ Running /\ AllUndisturbed /\ AllSeen
    /\ Continues /\ BestKept /\ EpochsKept /\ ResultKept

(***************************************************************************)
(* Models.                                                                 *)
(***************************************************************************)

(* Every batch has its place: an epoch and a batch of it.                  *)
LEMMA Places ==
  ASSUME NEW e \in Nat, NEW b \in Nat, b < Batches
  PROVE  /\ (e * Batches + b) \div Batches = e
         /\ (e * Batches + b) % Batches = b
  BY TrainingAssumption, Z3

LEMMA NextEpoch ==
  ASSUME NEW e \in Nat
  PROVE  e * Batches \in Nat /\ (e + 1) * Batches = e * Batches + Batches
  BY TrainingAssumption, Z3

LEMMA ExactFacts ==
  ASSUME NEW c \in Contracts, NEW n \in Nat
  PROVE  Exact(c, n) \in Models /\ Len(Exact(c, n)) = n
<1>1. \A k \in 1..n : /\ (k - 1) \div Batches \in Nat
                      /\ (k - 1) % Batches \in Nat
                      /\ k - 1 \in Nat
  BY TrainingAssumption, Z3
<1>2. \A k \in 1..n : <<c, (k - 1) \div Batches, (k - 1) % Batches, k - 1>>
                        \in Contracts \X Nat \X Nat \X Nat
  BY <1>1
<1>. QED  BY <1>2 DEF Exact, Models

LEMMA ExactNext ==
  ASSUME NEW c \in Contracts, NEW n \in Nat
  PROVE  Append(Exact(c, n), <<c, n \div Batches, n % Batches, n>>) = Exact(c, n + 1)
<1>. DEFINE next == <<c, n \div Batches, n % Batches, n>>
<1>1. Exact(c, n) \in Models /\ Len(Exact(c, n)) = n
      /\ Exact(c, n + 1) \in Models /\ Len(Exact(c, n + 1)) = n + 1
  BY ExactFacts
<1>2. \A k \in 1..n : Exact(c, n)[k] = Exact(c, n + 1)[k]
  BY DEF Exact
<1>3. Exact(c, n + 1)[n + 1] = next
  <2>1. n + 1 - 1 = n /\ n + 1 \in 1..(n + 1)
    OBVIOUS
  <2>. QED  BY <2>1 DEF Exact
<1>. DEFINE q == Exact(c, n)
            r == Exact(c, n + 1)
<1>4. r[n + 1] \in Contracts \X Nat \X Nat \X Nat
  BY <1>1 DEF Models
<1>. HIDE DEF q, r, next
<1>5. Append(q, next) = r
  <2>1. q \in Models /\ Len(q) = n /\ r \in Models /\ Len(r) = n + 1
    BY <1>1 DEF q, r
  <2>2. \A k \in 1..n : q[k] = r[k]
    BY <1>2 DEF q, r
  <2>3. r[n + 1] = next
    BY <1>3 DEF r
  <2>. QED  BY <2>1, <2>2, <2>3, <1>4 DEF Models
<1>. QED  BY <1>5 DEF q, r, next

(***************************************************************************)
(* Every step preserves the invariant.                                     *)
(***************************************************************************)

LEMMA TrainersFacts ==
  ASSUME trainer \in Trainers
  PROVE  /\ trainer.initial \in {"none", "best", "checkpoint"}
         /\ From \in {0, 1} /\ (From = 1 <=> trainer.initial = "none")
<1>1. \A t \in Trainers : t.initial \in {"none", "best", "checkpoint"}
  BY DEF Trainers, H011, H012, H013, H014, H015, H018
<1>2. From \in {0, 1} /\ (From = 1 <=> trainer.initial = "none")
  BY DEF From
<1>. QED  BY <1>1, <1>2

LEMMA FreshFacts ==
  ASSUME NEW c \in Contracts
  PROVE  /\ Fresh(c) \in Runs /\ Fitted(Fresh(c)) = 0 /\ Undisturbed(Fresh(c))
         /\ Fresh(c).contract = c /\ Fresh(c).epoch = 0 /\ Fresh(c).batch = 0
         /\ Fresh(c).history = <<>> /\ Fresh(c).best = MinusInfinity
         /\ Fresh(c).bestEpoch = -1
<1>1. <<>> \in Models /\ <<>> \in Seq(Int)
  BY DEF Models
<1>2. Fresh(c) \in Runs
  BY <1>1, TrainingAssumption DEF Fresh, Runs, MinusInfinity
<1>3. Fitted(Fresh(c)) = 0
  BY TrainingAssumption DEF Fresh, Fitted
<1>4. Exact(c, 0) = <<>>
  BY ExactFacts DEF Models
<1>. QED  BY <1>2, <1>3, <1>4 DEF Fresh, Undisturbed

LEMMA TrainingInit == Init => IInv
<1>. SUFFICES ASSUME Init  PROVE IInv
  OBVIOUS
<1>1. Setting
  BY TrainingAssumption DEF Init, Setting, Stages, Nan
<1>2. Running
  BY DEF Init, Running, InEpoch, Judged, Beginning
<1>3. AllUndisturbed
  BY DEF Init, AllUndisturbed
<1>4. AllSeen /\ Continues
  BY DEF Init, AllSeen, Continues
<1>5. BestKept
  BY DEF Init, BestKept, Near, Mine
<1>6. EpochsKept
  BY DEF Init, EpochsKept
<1>7. ResultKept
  BY DEF Init, ResultKept, ResultIsBest
<1>. QED  BY <1>1, <1>2, <1>3, <1>4, <1>5, <1>6, <1>7 DEF IInv

(* The process ends or is not concerned; the files stay.                   *)
LEMMA StopKeeps ==
  ASSUME IInv, Stopped, UNCHANGED <<trainer, score, files>>
  PROVE  IInv'
<1>. USE DEF files
<1>1. Setting'
  BY DEF IInv, Setting, Stopped, Stages
<1>2. Running'
  BY DEF Running, Stopped, InEpoch, Judged, Beginning
<1>3. AllUndisturbed'
  BY DEF IInv, AllUndisturbed, Stopped, Undisturbed, Fitted
<1>4. AllSeen'
  BY DEF IInv, AllSeen, Stopped, Seen, Leads, From
<1>5. Continues'
  BY DEF Continues, Stopped
<1>6. BestKept'
  BY DEF IInv, BestKept, Stopped, Near, Mine, Improves, From
<1>7. EpochsKept'
  BY DEF IInv, EpochsKept, Stopped
<1>8. ResultKept'
  BY DEF IInv, ResultKept, ResultIsBest, FirstBest
<1>. QED  BY <1>1, <1>2, <1>3, <1>4, <1>5, <1>6, <1>7, <1>8 DEF IInv

(* Nothing but the stage of the process changes, if that.                  *)
LEMMA MoveKeeps ==
  ASSUME IInv, UNCHANGED <<trainer, score, run, files>>,
         \/ pc' = pc
         \/ pc = "epoch" /\ run.epoch < Epochs /\ pc' = "batch"
         \/ pc = "epoch" /\ ~(run.epoch < Epochs) /\ pc' = "finish"
         \/ pc \in {"interval", "pause"} /\ pc' \in {"pause", "batch"}
         \/ pc = "ended" /\ pc' \in {"epoch", "finish"}
  PROVE  IInv'
<1>. USE DEF files, Judged, InEpoch, Beginning
<1>1. Setting'
  BY DEF IInv, Setting, Stages
<1>2. Running'
  BY DEF IInv, Running, From
<1>3. AllUndisturbed'
  BY DEF IInv, AllUndisturbed, Undisturbed, Fitted
<1>4. AllSeen'
  BY DEF IInv, AllSeen, Seen, Leads, From
<1>5. Continues'
  BY DEF IInv, Continues, GoesOnFrom, Improves, From
<1>6. BestKept'
  <2>1. (pc \in {"ended"} /\ Same(run) => Near(run))
    BY DEF Same, Near
  <2>2. pc = "epoch" /\ Near(run) /\ ~(run.epoch < Epochs) => Same(run)
    <3>1. pc = "epoch" => run \in Runs
      BY DEF IInv, Running
    <3>2. Mine(run) => bestFile \in BestFiles
      BY DEF IInv, Setting, Mine
    <3>. QED  BY <3>1, <3>2, TrainingAssumption DEF Near, Same, Runs, BestFiles
  <2>3. Near(run)' <=> Near(run)
    BY DEF Near, Mine, Improves
  <2>4. Same(run)' <=> Same(run)
    BY DEF Same, Mine
  <2>5. checkpoint # None => Near(checkpoint)'
    BY DEF IInv, BestKept, Near, Mine, Improves
  <2>6. \A c \in Contracts : checkpoint = None /\ From = 1 => Near(Fresh(c))'
    BY DEF IInv, BestKept, Near, Mine, Improves
  <2>7. From' = From
    BY DEF From
  <2>. QED  BY <2>1, <2>2, <2>3, <2>4, <2>5, <2>6, <2>7 DEF IInv, BestKept
<1>7. EpochsKept'
  BY DEF IInv, EpochsKept
<1>8. ResultKept'
  BY DEF IInv, ResultKept, ResultIsBest, FirstBest
<1>. QED  BY <1>1, <1>2, <1>3, <1>4, <1>5, <1>6, <1>7, <1>8 DEF IInv

LEMMA BeginKeeps ==
  ASSUME IInv, Begin
  PROVE  IInv'
<1>. USE DEF files, Judged, InEpoch, Beginning
<1>1. PICK c \in Contracts :
        /\ Accepts(c)
        /\ IF checkpoint # None
             THEN run' = Restored /\ pc' = "epoch"
             ELSE /\ run' = Fresh(c)
                  /\ pc' = IF trainer.initial = "none" THEN "epoch" ELSE "initial"
  BY DEF Begin
<1>2. UNCHANGED <<trainer, score, files>> /\ From' = From /\ From \in {0, 1}
  BY TrainersFacts DEF Begin, From, IInv, Setting
<1>3. CASE checkpoint # None
  <2>1. run' = checkpoint /\ pc' = "epoch"
    BY <1>1, <1>3 DEF Restored
  <2>2. Setting' /\ Running' /\ AllUndisturbed'
    BY <1>2, <1>3, <2>1 DEF IInv, Setting, Stages, Running, AllUndisturbed, Undisturbed, Fitted
  <2>3. AllSeen' /\ Continues'
    BY <1>2, <1>3, <2>1 DEF IInv, AllSeen, Seen, Leads, Continues, GoesOnFrom
  <2>4. BestKept'
    BY <1>2, <1>3, <2>1 DEF IInv, BestKept, Near, Mine, Improves
  <2>5. EpochsKept' /\ ResultKept'
    BY <1>2, <1>3, <2>1 DEF IInv, EpochsKept, ResultKept, ResultIsBest, FirstBest
  <2>. QED  BY <2>2, <2>3, <2>4, <2>5 DEF IInv
<1>4. CASE checkpoint = None
  <2>1. run' = Fresh(c) /\ pc' = IF From = 1 THEN "epoch" ELSE "initial"
    BY <1>1, <1>4, TrainersFacts DEF IInv, Setting
  <2>2. run' \in Runs /\ Undisturbed(run') /\ run'.contract = c /\ run'.epoch = 0 /\ run'.batch = 0
        /\ run'.history = <<>> /\ run'.best = MinusInfinity /\ run'.bestEpoch = -1
    BY <2>1, FreshFacts
  <2>3. Setting' /\ Running'
    BY <1>2, <1>4, <2>1, <2>2 DEF IInv, Setting, Stages, Running
  <2>4. AllUndisturbed'
    BY <1>2, <1>4, <2>2 DEF IInv, AllUndisturbed, Undisturbed, Fitted
  <2>5. AllSeen'
    BY <1>2, <1>4, <2>1, <2>2 DEF AllSeen, Seen, Leads
  <2>6. Continues'
    BY <1>2, <1>4, <2>1, <2>2 DEF Continues, GoesOnFrom
  <2>7. BestKept'
    <3>1. bestFile' = bestFile /\ score' = score /\ checkpoint' = checkpoint
      BY <1>2
    <3>2. From = 1 => \A d \in Contracts : Near(Fresh(d)) /\ Near(Fresh(d))'
      BY <1>4, <3>1 DEF IInv, BestKept, Near, Mine, Improves, Fresh
    <3>3. From = 1 => Near(run)'
      BY <2>1, <3>2
    <3>. QED  BY <1>2, <1>4, <2>1, <3>1, <3>2, <3>3 DEF IInv, BestKept
  <2>8. EpochsKept' /\ ResultKept'
    BY <1>2, <1>4, <2>1, <2>2 DEF IInv, EpochsKept, ResultKept, ResultIsBest, FirstBest
  <2>. QED  BY <2>3, <2>4, <2>5, <2>6, <2>7, <2>8 DEF IInv
<1>. QED  BY <1>3, <1>4

LEMMA SaveInitialBestKeeps ==
  ASSUME IInv, SaveInitialBest
  PROVE  IInv'
<1>. USE DEF files, Judged, InEpoch, Beginning
<1>1. /\ UNCHANGED <<trainer, score, checkpoint, epochFiles, result>>
      /\ pc = "initial" /\ pc' \in {"initialCheckpoint", "epoch"}
      /\ run' = [run EXCEPT !.best = score[0]]
      /\ bestFile' = [contract |-> run.contract, model |-> run.model, epoch |-> -1]
  BY DEF SaveInitialBest
<1>2. /\ run \in Runs /\ run.epoch = 0 /\ run.batch = 0 /\ run.history = <<>> /\ run.bestEpoch = -1
      /\ checkpoint = None /\ From = 0 /\ From' = From
  BY <1>1 DEF IInv, Running, From
<1>3. score[0] \in Int /\ 0 \in 0..Epochs
  BY TrainingAssumption DEF IInv, Setting
<1>4. /\ run' \in Runs /\ run'.best = score[0] /\ run'.bestEpoch = -1 /\ run'.epoch = 0
      /\ run'.history = <<>> /\ run'.contract = run.contract /\ run'.model = run.model
      /\ run'.rng = run.rng /\ run'.batch = run.batch
  BY <1>1, <1>2, <1>3 DEF Runs
<1>5. /\ Fitted(run) = 0 /\ Fitted(run') = 0 /\ Undisturbed(run)
      /\ run.model = Exact(run.contract, 0) /\ run.contract \in Contracts
  <2>1. Undisturbed(run) /\ run.contract \in Contracts
    BY <1>1, <1>2 DEF IInv, AllUndisturbed, Runs
  <2>. QED  BY <1>2, <1>4, <2>1, TrainingAssumption DEF Fitted, Undisturbed
<1>6. bestFile' \in BestFiles /\ bestFile'.epoch = -1 /\ bestFile'.contract = run.contract
      /\ bestFile'.model = Exact(run.contract, 0)
  BY <1>1, <1>2, <1>5, TrainingAssumption DEF Runs, BestFiles
<1>7. Setting'
  BY <1>1, <1>6 DEF IInv, Setting, Stages
<1>8. Running'
  BY <1>1, <1>2, <1>4 DEF IInv, Running
<1>9. AllUndisturbed'
  <2>1. Undisturbed(run)'
    BY <1>4, <1>5 DEF Undisturbed
  <2>2. (-1 + 1) * Batches = 0
    BY TrainingAssumption
  <2>. QED  BY <1>1, <1>2, <1>6, <2>1, <2>2 DEF IInv, AllUndisturbed
<1>10. AllSeen'
  BY <1>1, <1>2, <1>4 DEF AllSeen, Seen, Leads
<1>11. Continues'
  BY <1>1, <1>2 DEF Continues
<1>12. BestKept'
  BY <1>1, <1>2, <1>4, <1>6 DEF BestKept, Near, Mine
<1>13. EpochsKept'
  BY <1>1, <1>2, <1>4 DEF EpochsKept
<1>14. ResultKept'
  BY <1>1 DEF IInv, ResultKept, ResultIsBest, FirstBest
<1>. QED  BY <1>7, <1>8, <1>9, <1>10, <1>11, <1>12, <1>13, <1>14 DEF IInv

LEMMA SaveInitialCheckpointKeeps ==
  ASSUME IInv, SaveInitialCheckpoint
  PROVE  IInv'
<1>. USE DEF files, Judged, InEpoch, Beginning
<1>1. /\ UNCHANGED <<trainer, score, run, bestFile, epochFiles, result>>
      /\ pc = "initialCheckpoint" /\ pc' = "epoch" /\ checkpoint' = run
  BY DEF SaveInitialCheckpoint
<1>2. run \in Runs /\ From = 0 /\ From' = From
  BY <1>1 DEF IInv, Running, From
<1>3. Setting' /\ Running'
  BY <1>1, <1>2 DEF IInv, Setting, Stages, Running
<1>4. AllUndisturbed'
  BY <1>1 DEF IInv, AllUndisturbed, Undisturbed, Fitted
<1>5. AllSeen'
  BY <1>1, <1>2 DEF IInv, AllSeen, Seen, Leads
<1>6. Continues'
  BY <1>1, <1>2 DEF IInv, Continues, GoesOnFrom
<1>7. BestKept'
  BY <1>1, <1>2 DEF IInv, BestKept, Near, Mine, Improves
<1>8. EpochsKept' /\ ResultKept'
  BY <1>1 DEF IInv, EpochsKept, ResultKept, ResultIsBest, FirstBest
<1>. QED  BY <1>3, <1>4, <1>5, <1>6, <1>7, <1>8 DEF IInv

LEMMA SaveAfterBatchKeeps ==
  ASSUME IInv, SaveAfterBatch
  PROVE  IInv'
<1>. USE DEF files, Judged, InEpoch, Beginning
<1>1. /\ UNCHANGED <<trainer, score, run, bestFile, epochFiles, result>>
      /\ pc = "interval" /\ pc' = "pause" /\ checkpoint' = run
  BY DEF SaveAfterBatch
<1>2. run \in Runs /\ From' = From
  BY <1>1 DEF IInv, Running, From
<1>3. Setting' /\ Running'
  BY <1>1, <1>2 DEF IInv, Setting, Stages, Running
<1>4. AllUndisturbed'
  BY <1>1 DEF IInv, AllUndisturbed, Undisturbed, Fitted
<1>5. AllSeen'
  BY <1>1, <1>2 DEF IInv, AllSeen, Seen, Leads
<1>6. Continues'
  BY <1>1, <1>2, NoneAssumption DEF IInv, Continues, GoesOnFrom
<1>7. BestKept'
  <2>1. Near(run) /\ Near(run)'
    BY <1>1 DEF IInv, BestKept, Near, Mine, Improves
  <2>2. \A c \in Contracts : checkpoint' = None /\ From = 1 => Near(Fresh(c))'
    BY <1>1, <1>2, NoneAssumption
  <2>. QED  BY <1>1, <1>2, <2>1, <2>2 DEF IInv, BestKept
<1>8. EpochsKept' /\ ResultKept'
  BY <1>1 DEF IInv, EpochsKept, ResultKept, ResultIsBest, FirstBest
<1>. QED  BY <1>3, <1>4, <1>5, <1>6, <1>7, <1>8 DEF IInv

LEMMA TrainBatchKeeps ==
  ASSUME IInv, TrainBatch
  PROVE  IInv'
<1>. USE DEF files, Judged, InEpoch, Beginning
<1>. DEFINE n == Fitted(run)
<1>1. /\ UNCHANGED <<trainer, score, files>>
      /\ pc = "batch" /\ pc' \in {"interval", "batch"}
      /\ run.batch < Batches
      /\ run' = [run EXCEPT
                  !.model = Append(@, <<run.contract, run.epoch, run.batch, run.rng>>),
                  !.rng = @ + 1,
                  !.batch = @ + 1]
  BY DEF TrainBatch
<1>2. run \in Runs /\ run.epoch < Epochs /\ From' = From /\ Undisturbed(run)
  BY <1>1 DEF IInv, Running, From, AllUndisturbed
<1>3. /\ run.contract \in Contracts /\ run.epoch \in Nat /\ run.batch \in Nat
      /\ run.model \in Models /\ n \in Nat
      /\ run.rng = n /\ run.model = Exact(run.contract, n)
      /\ n \div Batches = run.epoch /\ n % Batches = run.batch
  <2>1. run.contract \in Contracts /\ run.epoch \in Nat /\ run.batch \in Nat
    BY <1>2, TrainingAssumption DEF Runs
  <2>2. run.model \in Models
    BY <1>2 DEF Runs
  <2>3. n \in Nat
    BY <2>1, TrainingAssumption DEF Fitted
  <2>4. n \div Batches = run.epoch /\ n % Batches = run.batch
    BY <1>1, <2>1, Places DEF Fitted
  <2>. QED  BY <1>2, <2>1, <2>2, <2>3, <2>4 DEF Undisturbed
<1>4. Append(run.model, <<run.contract, run.epoch, run.batch, run.rng>>)
        = Exact(run.contract, n + 1)
  BY <1>3, ExactNext
<1>5. Exact(run.contract, n + 1) \in Models
  BY <1>3, ExactFacts
<1>. HIDE DEF n
<1>6. /\ run' \in Runs /\ run'.model = Exact(run.contract, n + 1) /\ run'.rng = n + 1
      /\ run'.batch = run.batch + 1 /\ run'.contract = run.contract
      /\ run'.epoch = run.epoch /\ run'.history = run.history /\ run'.best = run.best
      /\ run'.bestEpoch = run.bestEpoch
  <2>1. run' = [run EXCEPT !.model = Exact(run.contract, n + 1), !.rng = n + 1,
                           !.batch = run.batch + 1]
    BY <1>1, <1>3, <1>4 DEF Runs
  <2>2. run.batch + 1 \in 0..Batches /\ n + 1 \in Nat
    BY <1>1, <1>3, TrainingAssumption
  <2>. QED  BY <1>2, <1>5, <2>1, <2>2 DEF Runs
<1>7. Fitted(run)' = n + 1
  <2>. DEFINE before == run.epoch * Batches
  <2>1. before \in Nat
    BY <1>3, TrainingAssumption
  <2>2. n = before + run.batch
    BY DEF Fitted, n
  <2>3. Fitted(run)' = before + (run.batch + 1)
    BY <1>6 DEF Fitted
  <2>. HIDE DEF before
  <2>. QED  BY <1>3, <2>1, <2>2, <2>3
<1>8. Setting' /\ Running'
  BY <1>1, <1>2, <1>6 DEF IInv, Setting, Stages, Running
<1>9. AllUndisturbed'
  <2>1. Undisturbed(run)'
    BY <1>6, <1>7 DEF Undisturbed
  <2>. QED  BY <1>1, <2>1 DEF IInv, AllUndisturbed, Undisturbed, Fitted
<1>10. AllSeen'
  BY <1>1, <1>2, <1>6 DEF IInv, AllSeen, Seen, Leads
<1>11. Continues'
  BY <1>1, <1>2, <1>6 DEF IInv, Continues, GoesOnFrom
<1>12. BestKept'
  BY <1>1, <1>2, <1>6 DEF IInv, BestKept, Near, Mine, Improves
<1>13. EpochsKept' /\ ResultKept'
  BY <1>1, <1>6 DEF IInv, EpochsKept, ResultKept, ResultIsBest, FirstBest
<1>. QED  BY <1>8, <1>9, <1>10, <1>11, <1>12, <1>13 DEF IInv

(* The evaluation compares the score of the epochs fitted so far.          *)
LEMMA EvaluateKeeps ==
  ASSUME IInv, EvaluateEpoch
  PROVE  IInv'
<1>. USE DEF files, Judged, InEpoch, Beginning
<1>. DEFINE s == score[run.epoch + 1]
            better == Improves(run)
<1>1. /\ UNCHANGED <<trainer, score, files>>
      /\ pc = "batch" /\ run.batch = Batches /\ run' = Evaluated(run)
      /\ pc' = IF trainer.epochFiles THEN "epochFile" ELSE AfterEvaluation(run')
  BY DEF EvaluateEpoch
<1>2. run \in Runs /\ run.epoch < Epochs /\ From' = From /\ Undisturbed(run)
      /\ From \in {0, 1}
  BY <1>1, TrainersFacts DEF IInv, Setting, Running, From, AllUndisturbed
<1>3. /\ run.contract \in Contracts /\ run.epoch \in Nat
      /\ run.epoch + 1 \in 0..Epochs /\ run.epoch + 1 \in Nat /\ run.best \in Int
      /\ run.history \in Seq(Int) /\ run.stale \in Int /\ run.bestEpoch \in Int
  BY <1>2, TrainingAssumption DEF Runs
<1>4. s \in Int /\ (s = Nan \/ s > 0)
  BY <1>3 DEF IInv, Setting
<1>5. Score(run.model) = s
  <2>1. Fitted(run) = (run.epoch + 1) * Batches + 0 /\ Fitted(run) \in Nat
    <3>1. /\ run.epoch * Batches \in Nat
          /\ (run.epoch + 1) * Batches = run.epoch * Batches + Batches
      BY <1>3, NextEpoch
    <3>. DEFINE a == run.epoch * Batches
                b == (run.epoch + 1) * Batches
    <3>2. Fitted(run) = a + Batches
      BY <1>1 DEF Fitted
    <3>. HIDE DEF a, b
    <3>3. a \in Nat /\ b = a + Batches
      BY <3>1 DEF a, b
    <3>4. Fitted(run) = b + 0 /\ Fitted(run) \in Nat
      BY <3>2, <3>3, TrainingAssumption
    <3>. QED  BY <3>4 DEF b
  <2>2. Fitted(run) \div Batches = run.epoch + 1
    <3>. DEFINE m == run.epoch + 1
    <3>1. m \in Nat /\ 0 \in Nat /\ 0 < Batches
      BY <1>3, TrainingAssumption
    <3>. HIDE DEF m
    <3>2. (m * Batches + 0) \div Batches = m
      BY <3>1, Places
    <3>. QED  BY <2>1, <3>2 DEF m
  <2>3. Len(run.model) = Fitted(run)
    BY <1>2, <1>3, <2>1, ExactFacts DEF Undisturbed
  <2>. QED  BY <2>2, <2>3 DEF Score
<1>. HIDE DEF s
<1>6. /\ better <=> run.best # Nan /\ s > run.best
      /\ better \in BOOLEAN
  BY DEF Improves, s
<1>7. run' = IF better
               THEN [run EXCEPT !.history = Append(@, s), !.best = s, !.bestEpoch = run.epoch,
                                !.stale = 0]
               ELSE [run EXCEPT !.history = Append(@, s), !.stale = @ + 1]
  <2>1. CASE better
    BY <1>1, <1>2, <1>5, <1>6, <2>1 DEF Evaluated, Runs
  <2>2. CASE ~better
    BY <1>1, <1>2, <1>5, <1>6, <2>2 DEF Evaluated, Runs
  <2>. QED  BY <2>1, <2>2
<1>. HIDE DEF better
<1>8. Append(run.history, s) \in Seq(Int)
  BY <1>3, <1>4
<1>9. /\ run' \in Runs /\ run'.history = Append(run.history, s)
      /\ run'.contract = run.contract /\ run'.model = run.model /\ run'.rng = run.rng
      /\ run'.epoch = run.epoch /\ run'.batch = run.batch
      /\ better => run'.best = s /\ run'.bestEpoch = run.epoch
      /\ ~better => run'.best = run.best /\ run'.bestEpoch = run.bestEpoch
  <2>1. run.epoch \in Int /\ run.stale + 1 \in Int /\ 0 \in Int
    BY <1>3
  <2>2. CASE better
    BY <1>2, <1>4, <1>7, <1>8, <2>1, <2>2 DEF Runs
  <2>3. CASE ~better
    BY <1>2, <1>7, <1>8, <2>1, <2>3 DEF Runs
  <2>. QED  BY <2>2, <2>3
<1>10. Seen(run, run.epoch)
  BY <1>1 DEF IInv, AllSeen
<1>11. run.bestEpoch \in -1..(run.epoch - 1) /\ (run'.bestEpoch = run.epoch <=> better)
  <2>1. run.bestEpoch = -1 \/ run.bestEpoch + 1 \in 1..run.epoch
    BY <1>10 DEF Seen, Leads
  <2>2. run.bestEpoch \in -1..(run.epoch - 1) /\ run.bestEpoch # run.epoch
    BY <1>3, <2>1
  <2>3. CASE better
    BY <1>9, <2>2, <2>3
  <2>4. CASE ~better
    BY <1>9, <2>2, <2>4
  <2>. QED  BY <2>2, <2>3, <2>4
<1>12. pc' \in Judged /\ (pc' = "best" => better) /\ (pc' = "checkpoint" => ~better)
  BY <1>1, <1>9, <1>11 DEF AfterEvaluation
<1>13. Seen(run, run.epoch + 1)'
  <2>1. /\ Len(run'.history) = run.epoch + 1
        /\ \A e \in 1..(run.epoch + 1) : run'.history[e] = score'[e]
    <3>1. Len(run.history) = run.epoch /\ \A e \in 1..run.epoch : run.history[e] = score[e]
      BY <1>10 DEF Seen
    <3>2. /\ Len(Append(run.history, s)) = run.epoch + 1
          /\ \A e \in 1..run.epoch : Append(run.history, s)[e] = run.history[e]
          /\ Append(run.history, s)[run.epoch + 1] = s
      BY <1>3, <1>4, <3>1
    <3>3. \A e \in 1..(run.epoch + 1) : e \in 1..run.epoch \/ e = run.epoch + 1
      BY <1>3
    <3>. QED  BY <1>1, <1>9, <3>1, <3>2, <3>3 DEF s
  <2>2. Leads(run, run.epoch + 1)'
    <3>1. \A d \in 0..Epochs : score[d] \in Int /\ (score[d] = Nan \/ score[d] > 0)
      BY DEF IInv, Setting
    <3>2. score' = score /\ From' = From
      BY <1>1, <1>2
    <3>3. Leads(run, run.epoch)
      BY <1>10 DEF Seen
    <3>4. \A d \in From..(run.epoch + 1) : d \in 0..Epochs
      BY <1>2, <1>3, TrainingAssumption
    <3>5. \A d \in From..(run.epoch + 1) : d \in From..run.epoch \/ d = run.epoch + 1
      BY <1>2, <1>3
    <3>6. CASE better
      <4>1. run'.best = s /\ run'.bestEpoch = run.epoch /\ run'.epoch = run.epoch
            /\ run.best # Nan /\ s > run.best
        BY <1>6, <1>9, <3>6
      <4>2. /\ From = 0 => score[0] # Nan
            /\ \A d \in From..run.epoch : score[d] <= run.best
            /\ run.best >= 0
        <5>1. 0 \in 0..Epochs
          BY TrainingAssumption
        <5>2. CASE run.bestEpoch = -1 /\ From = 0
          <6>1. run.best = score[0] /\ \A d \in 1..run.epoch : score[d] <= run.best
            BY <3>3, <4>1, <5>2, <1>3 DEF Leads
          <6>2. \A d \in From..run.epoch : d = 0 \/ d \in 1..run.epoch
            BY <1>3, <5>2
          <6>. QED  BY <3>1, <4>1, <5>1, <6>1, <6>2
        <5>3. CASE run.bestEpoch = -1 /\ From = 1
          BY <3>3, <5>3, <1>3 DEF Leads, Nan, MinusInfinity
        <5>4. CASE run.bestEpoch # -1
          <6>. DEFINE e == run.bestEpoch + 1
          <6>1. /\ e \in 1..run.epoch /\ run.best = score[e] /\ score[e] # Nan
                /\ From = 0 => score[0] # Nan
                /\ \A d \in From..run.epoch : score[d] <= score[e]
            BY <3>3, <5>4 DEF Leads
          <6>2. e \in 0..Epochs
            BY <1>3, <6>1, TrainingAssumption
          <6>. QED  BY <3>1, <6>1, <6>2
        <5>. QED  BY <1>2, <5>2, <5>3, <5>4
      <4>3. s # Nan /\ \A d \in From..run.epoch : score[d] < s
        <5>1. \A d \in From..run.epoch : d \in 0..Epochs
          BY <1>2, <1>3, TrainingAssumption
        <5>. QED  BY <1>3, <1>4, <3>1, <4>1, <4>2, <5>1 DEF Nan
      <4>. DEFINE m == run.epoch + 1
      <4>4. run'.bestEpoch + 1 = m /\ m \in 1..m /\ m - 1 = run.epoch /\ run'.best = score[m]
            /\ score[m] = s
        BY <1>3, <4>1 DEF s
      <4>5. \A d \in From..m : score[d] <= score[m]
        BY <1>4, <3>1, <3>4, <3>5, <4>3, <4>4
      <4>6. \A d \in From..(m - 1) : score[d] < score[m]
        BY <4>3, <4>4
      <4>. HIDE DEF m
      <4>7. run'.epoch + 1 = m
        BY <4>1 DEF m
      <4>. QED  BY <3>2, <4>2, <4>3, <4>4, <4>5, <4>6, <4>7 DEF Leads
    <3>7. CASE ~better
      <4>1. run'.best = run.best /\ run'.bestEpoch = run.bestEpoch /\ run'.epoch = run.epoch
            /\ (run.best = Nan \/ s <= run.best)
        BY <1>3, <1>4, <1>6, <1>9, <3>7
      <4>2. CASE run.bestEpoch = -1
        BY <1>2, <1>3, <1>4, <3>1, <3>2, <3>3, <3>5, <4>1, <4>2
        DEF Leads, s, Nan, MinusInfinity
      <4>3. CASE run.bestEpoch # -1
        <5>. DEFINE e == run.bestEpoch + 1
        <5>1. /\ e \in 1..run.epoch /\ run.best = score[e] /\ score[e] # Nan
              /\ From = 0 => score[0] # Nan
              /\ \A d \in From..run.epoch : score[d] <= score[e]
              /\ \A d \in From..(e - 1) : score[d] < score[e]
          BY <3>3, <4>3 DEF Leads
        <5>2. s <= score[e]
          BY <4>1, <5>1
        <5>. QED  BY <1>3, <3>2, <3>5, <4>1, <5>1, <5>2 DEF Leads, s
      <4>. QED  BY <4>2, <4>3
    <3>. QED  BY <3>6, <3>7
  <2>. QED  BY <2>1, <2>2, <1>9 DEF Seen
<1>14. Setting' /\ Running'
  BY <1>1, <1>2, <1>9, <1>12 DEF IInv, Setting, Stages, Running
<1>15. AllUndisturbed'
  <2>1. Undisturbed(run)'
    BY <1>2, <1>9 DEF Undisturbed, Fitted
  <2>. QED  BY <1>1, <2>1 DEF IInv, AllUndisturbed, Undisturbed, Fitted
<1>16. AllSeen'
  <2>1. checkpoint # None => Seen(checkpoint, checkpoint.epoch)'
    BY <1>1, <1>2 DEF IInv, AllSeen, Seen, Leads
  <2>. QED  BY <1>1, <1>9, <1>12, <1>13, <2>1 DEF AllSeen
<1>17. Continues'
  <2>1. ASSUME NEW r, GoesOnFrom(r)  PROVE GoesOnFrom(r)'
    BY <1>1, <1>6, <1>9, <1>11, <1>12, <2>1 DEF GoesOnFrom, Improves, s
  <2>2. pc # "idle" /\ checkpoint' = checkpoint /\ run'.contract = run.contract
    BY <1>1, <1>9
  <2>3. checkpoint # None => run.contract = checkpoint.contract /\ GoesOnFrom(checkpoint)'
    BY <1>1, <2>1, <2>2 DEF IInv, Continues, GoesOnFrom, Improves
  <2>4. checkpoint = None /\ From = 1 => GoesOnFrom(Fresh(run.contract))'
    BY <1>1, <2>1, <2>2 DEF IInv, Continues, GoesOnFrom, Improves, Fresh
  <2>. QED  BY <1>2, <2>2, <2>3, <2>4 DEF Continues
<1>18. BestKept'
  <2>1. ~better => Same(run)'
    BY <1>1, <1>9 DEF IInv, BestKept, Near, Same, Mine, better
  <2>2. checkpoint # None => Near(checkpoint)'
    BY <1>1 DEF IInv, BestKept, Near, Mine, Improves
  <2>3. checkpoint = None /\ From = 1 => \A c \in Contracts : Near(Fresh(c))'
    BY <1>1 DEF IInv, BestKept, Near, Mine, Improves
  <2>. QED  BY <1>1, <1>2, <1>9, <1>11, <1>12, <2>1, <2>2, <2>3 DEF IInv, BestKept
<1>19. EpochsKept' /\ ResultKept'
  <2>1. trainer.epochFiles => pc' = "epochFile"
    BY <1>1
  <2>. QED  BY <1>1, <1>9, <2>1 DEF IInv, EpochsKept, ResultKept, ResultIsBest, FirstBest
<1>. QED  BY <1>14, <1>15, <1>16, <1>17, <1>18, <1>19 DEF IInv

LEMMA SaveEpochFileKeeps ==
  ASSUME IInv, SaveEpochFile
  PROVE  IInv'
<1>. USE DEF files, Judged, InEpoch, Beginning
<1>1. /\ UNCHANGED <<trainer, score, run, checkpoint, bestFile, result>>
      /\ pc = "epochFile" /\ pc' = AfterEvaluation(run)
      /\ epochFiles' = [epochFiles EXCEPT ![run.epoch] = run.model]
  BY DEF SaveEpochFile
<1>2. run \in Runs /\ run.epoch < Epochs /\ run.batch = Batches /\ From' = From
      /\ Undisturbed(run)
  BY <1>1 DEF IInv, Running, From, AllUndisturbed
<1>3. run.epoch \in 0..(Epochs - 1) /\ run.epoch \in Nat /\ run.contract \in Contracts
      /\ run.model \in Models
  BY <1>2, TrainingAssumption DEF Runs
<1>4. Len(run.model) = (run.epoch + 1) * Batches /\ run.model # None
  <2>1. /\ run.epoch * Batches \in Nat
        /\ (run.epoch + 1) * Batches = run.epoch * Batches + Batches
    BY <1>3, NextEpoch
  <2>2. Fitted(run) = (run.epoch + 1) * Batches /\ Fitted(run) \in Nat
    BY <1>2, <2>1, TrainingAssumption DEF Fitted
  <2>3. Len(run.model) = Fitted(run)
    BY <1>2, <1>3, <2>2, ExactFacts DEF Undisturbed
  <2>. QED  BY <1>3, <2>2, <2>3, NoneAssumption
<1>5. /\ DOMAIN epochFiles' = 0..(Epochs - 1)
      /\ epochFiles'[run.epoch] = run.model
      /\ \A e \in 0..(Epochs - 1) : e # run.epoch => epochFiles'[e] = epochFiles[e]
  BY <1>1, <1>3 DEF IInv, Setting
<1>6. /\ pc' \in {"best", "checkpoint"}
      /\ pc' = "best" <=> run.bestEpoch = run.epoch
  BY <1>1 DEF AfterEvaluation
<1>7. \A e \in 0..(Epochs - 1) : epochFiles[e] # None => epochFiles'[e] # None
  BY <1>4, <1>5
<1>8. Setting' /\ Running'
  BY <1>1, <1>2, <1>5, <1>6 DEF IInv, Setting, Stages, Running
<1>9. AllUndisturbed'
  BY <1>1, <1>3, <1>4, <1>5 DEF IInv, AllUndisturbed, Undisturbed, Fitted
<1>10. AllSeen' /\ Continues'
  BY <1>1, <1>2, <1>6 DEF IInv, AllSeen, Seen, Leads, Continues, GoesOnFrom, Improves
<1>11. BestKept'
  <2>1. checkpoint # None => Near(checkpoint)'
    BY <1>1 DEF IInv, BestKept, Near, Mine, Improves
  <2>2. checkpoint = None /\ From = 1 => \A c \in Contracts : Near(Fresh(c))'
    BY <1>1 DEF IInv, BestKept, Near, Mine, Improves
  <2>3. pc' = "checkpoint" => Same(run)'
    BY <1>1, <1>6 DEF IInv, BestKept, Same, Mine
  <2>. QED  BY <1>1, <1>2, <1>6, <2>1, <2>2, <2>3 DEF IInv, BestKept
<1>12. EpochsKept'
  <2>1. checkpoint # None => checkpoint.epoch \in 0..Epochs
    BY DEF IInv, Setting, Runs
  <2>2. checkpoint # None => \A e \in 0..(checkpoint.epoch - 1) : e \in 0..(Epochs - 1)
    BY <2>1, TrainingAssumption
  <2>3. \A e \in 0..(run.epoch - 1) : e \in 0..(Epochs - 1)
    BY <1>3, TrainingAssumption
  <2>. QED  BY <1>1, <1>4, <1>5, <1>7, <2>2, <2>3 DEF IInv, EpochsKept
<1>13. ResultKept'
  <2>1. result # None => \A e \in 0..(Len(result.history) - 1) : e \in 0..(Epochs - 1)
    BY TrainingAssumption DEF IInv, ResultKept
  <2>2. /\ UNCHANGED <<trainer, score, result>>
        /\ \A n : FirstBest(n)' = FirstBest(n)
    BY <1>1 DEF FirstBest
  <2>. QED  BY <1>7, <2>1, <2>2 DEF IInv, ResultKept, ResultIsBest
<1>. QED  BY <1>8, <1>9, <1>10, <1>11, <1>12, <1>13 DEF IInv

(* The new best is that of the epoch after the checkpoint's, too.          *)
LEMMA SaveBestKeeps ==
  ASSUME IInv, SaveBest
  PROVE  IInv'
<1>. USE DEF files, Judged, InEpoch, Beginning
<1>1. /\ UNCHANGED <<trainer, score, run, checkpoint, epochFiles, result>>
      /\ pc = "best" /\ pc' = "checkpoint"
      /\ bestFile' = [contract |-> run.contract, model |-> run.model, epoch |-> run.epoch]
  BY DEF SaveBest
<1>2. run \in Runs /\ run.epoch < Epochs /\ run.batch = Batches /\ From' = From
      /\ Undisturbed(run)
  BY <1>1 DEF IInv, Running, From, AllUndisturbed
<1>3. run.epoch \in 0..(Epochs - 1) /\ run.epoch \in Nat /\ run.contract \in Contracts
      /\ run.model \in Models
  BY <1>2, TrainingAssumption DEF Runs
<1>4. run.model = Exact(run.contract, (run.epoch + 1) * Batches)
  <2>1. /\ run.epoch * Batches \in Nat
        /\ (run.epoch + 1) * Batches = run.epoch * Batches + Batches
    BY <1>3, NextEpoch
  <2>2. Fitted(run) = (run.epoch + 1) * Batches
    BY <1>2, <2>1, TrainingAssumption DEF Fitted
  <2>. QED  BY <1>2, <2>2 DEF Undisturbed
<1>5. bestFile' \in BestFiles /\ bestFile'.epoch = run.epoch
      /\ bestFile'.contract = run.contract /\ bestFile'.model = run.model
  BY <1>1, <1>3, TrainingAssumption DEF BestFiles
<1>6. run.bestEpoch = run.epoch
  BY <1>1 DEF IInv, BestKept
<1>7. Setting' /\ Running'
  BY <1>1, <1>2, <1>5 DEF IInv, Setting, Stages, Running
<1>8. AllUndisturbed'
  BY <1>1, <1>4, <1>5 DEF IInv, AllUndisturbed, Undisturbed, Fitted
<1>9. AllSeen' /\ Continues'
  BY <1>1, <1>2 DEF IInv, AllSeen, Seen, Leads, Continues, GoesOnFrom, Improves
<1>10. BestKept'
  <2>1. Same(run)'
    BY <1>1, <1>5, <1>6 DEF Same
  <2>2. checkpoint # None => Near(checkpoint)'
    BY <1>1, <1>5, <1>6 DEF IInv, Continues, GoesOnFrom, Near, Mine, Improves
  <2>3. checkpoint = None /\ From = 1 => \A c \in Contracts : Near(Fresh(c))'
    BY <1>1, <1>5, <1>6 DEF IInv, Continues, GoesOnFrom, Near, Mine, Improves, Fresh
  <2>. QED  BY <1>1, <1>2, <1>3, <1>5, <2>1, <2>2, <2>3 DEF BestKept
<1>11. EpochsKept' /\ ResultKept'
  BY <1>1 DEF IInv, EpochsKept, ResultKept, ResultIsBest, FirstBest
<1>. QED  BY <1>7, <1>8, <1>9, <1>10, <1>11 DEF IInv

LEMMA SaveCheckpointKeeps ==
  ASSUME IInv, SaveCheckpoint
  PROVE  IInv'
<1>. USE DEF files, Judged, InEpoch, Beginning
<1>1. /\ UNCHANGED <<trainer, score, bestFile, epochFiles, result>>
      /\ pc = "checkpoint" /\ pc' = "ended"
      /\ run' = [run EXCEPT !.epoch = @ + 1, !.batch = 0] /\ checkpoint' = run'
  BY DEF SaveCheckpoint
<1>2. run \in Runs /\ run.epoch < Epochs /\ run.batch = Batches /\ From' = From
      /\ Undisturbed(run)
  BY <1>1 DEF IInv, Running, From, AllUndisturbed
<1>3. run.epoch \in 0..(Epochs - 1) /\ run.epoch \in Nat /\ run.epoch + 1 \in 0..Epochs
      /\ 0 \in 0..Batches
  BY <1>2, TrainingAssumption DEF Runs
<1>4. /\ run' \in Runs /\ run'.epoch = run.epoch + 1 /\ run'.batch = 0
      /\ run'.contract = run.contract /\ run'.model = run.model /\ run'.rng = run.rng
      /\ run'.history = run.history /\ run'.best = run.best
      /\ run'.bestEpoch = run.bestEpoch
  BY <1>1, <1>2, <1>3 DEF Runs
<1>5. Undisturbed(run)'
  <2>. DEFINE a == run.epoch * Batches
              b == (run.epoch + 1) * Batches
  <2>1. a \in Nat /\ b = a + Batches
    BY <1>3, NextEpoch
  <2>2. Fitted(run) = a + Batches
    BY <1>2 DEF Fitted
  <2>3. Fitted(run)' = b + 0
    BY <1>4 DEF Fitted
  <2>. HIDE DEF a, b
  <2>4. Fitted(run)' = Fitted(run)
    BY <2>1, <2>2, <2>3, TrainingAssumption
  <2>. QED  BY <1>2, <1>4, <2>4 DEF Undisturbed
<1>6. Seen(run, run.epoch)'
  <2>1. Seen(run, run.epoch + 1)
    BY <1>1 DEF IInv, AllSeen
  <2>. QED  BY <1>1, <1>2, <1>4, <2>1 DEF Seen, Leads
<1>7. Setting' /\ Running'
  BY <1>1, <1>2, <1>4 DEF IInv, Setting, Stages, Running
<1>8. AllUndisturbed'
  BY <1>1, <1>5 DEF IInv, AllUndisturbed, Undisturbed, Fitted
<1>9. AllSeen'
  BY <1>1, <1>6 DEF AllSeen
<1>10. Continues'
  BY <1>1, <1>4, NoneAssumption DEF Continues, GoesOnFrom
<1>11. BestKept'
  <2>1. Same(run)'
    BY <1>1, <1>4 DEF IInv, BestKept, Same, Mine
  <2>2. Near(checkpoint)'
    BY <1>1, <2>1 DEF Same, Near, Mine
  <2>. QED  BY <1>1, <1>2, <1>4, <2>1, <2>2, NoneAssumption DEF IInv, BestKept
<1>12. EpochsKept'
  <2>1. \A e \in 0..run.epoch : e \in 0..(run.epoch - 1) \/ e = run.epoch
    BY <1>3
  <2>. QED  BY <1>1, <1>3, <1>4, <2>1 DEF IInv, EpochsKept
<1>13. ResultKept'
  BY <1>1 DEF IInv, ResultKept, ResultIsBest, FirstBest
<1>. QED  BY <1>7, <1>8, <1>9, <1>10, <1>11, <1>12, <1>13 DEF IInv

(* There is one first best: a loop that has seen n epochs has it.          *)
LEMMA LeadsIsFirstBest ==
  ASSUME IInv, NEW r, NEW n \in 0..Epochs, Leads(r, n), r.bestEpoch \in Int,
         From = 1 => r.bestEpoch >= 0
  PROVE  FirstBest(n) = r.bestEpoch + 1 /\ r.best = score[FirstBest(n)]
<1>. DEFINE e == r.bestEpoch + 1
            First(x) == /\ \A d \in From..n : score[d] <= score[x]
                        /\ \A d \in From..(x - 1) : score[d] < score[x]
<1>1. /\ \A d \in 0..Epochs : score[d] \in Int
      /\ From \in {0, 1} /\ n \in Nat /\ e \in Int
  BY TrainersFacts, TrainingAssumption DEF IInv, Setting
<1>2. FirstBest(n) = IF (From = 0 /\ score[0] = Nan)
                          \/ score[CHOOSE x \in From..n : First(x)] = Nan
                       THEN 0 ELSE CHOOSE x \in From..n : First(x)
  BY DEF FirstBest, From
<1>3. CASE From = 0 /\ r.bestEpoch = -1 /\ r.best = Nan
  BY <1>2, <1>3 DEF Leads
<1>4. CASE ~(From = 0 /\ r.bestEpoch = -1 /\ r.best = Nan)
  <2>1. /\ e \in From..n /\ First(e) /\ r.best = score[e]
        /\ From = 0 => score[0] # Nan
        /\ score[e] # Nan
    <3>1. CASE r.bestEpoch = -1
      <4>1. From = 0 /\ e = 0 /\ r.best = score[0] /\ r.best # Nan
            /\ \A d \in 1..n : score[d] <= r.best
        BY <1>1, <1>4, <3>1 DEF Leads
      <4>2. \A d \in From..n : d = 0 \/ d \in 1..n
        BY <1>1, <4>1
      <4>3. 0 \in 0..Epochs /\ score[0] \in Int
        BY <1>1, TrainingAssumption
      <4>4. \A d \in From..n : score[d] <= score[0]
        BY <4>1, <4>2, <4>3
      <4>5. \A d \in From..(0 - 1) : FALSE
        BY <4>1
      <4>. QED  BY <1>1, <4>1, <4>4, <4>5
    <3>2. CASE r.bestEpoch # -1
      <4>1. /\ e \in 1..n /\ r.best = score[e] /\ score[e] # Nan
            /\ From = 0 => score[0] # Nan
            /\ First(e)
        BY <3>2 DEF Leads
      <4>. QED  BY <1>1, <4>1
    <3>. QED  BY <3>1, <3>2
  <2>2. \A x \in From..n : First(x) => x = e
    <3>1. SUFFICES ASSUME NEW x \in From..n, First(x)  PROVE x = e
      OBVIOUS
    <3>2. x \in 0..Epochs /\ e \in 0..Epochs /\ x \in Int
      BY <1>1, <2>1, TrainingAssumption
    <3>3. score[x] \in Int /\ score[e] \in Int
      BY <1>1, <3>2
    <3>4. score[x] <= score[e] /\ score[e] <= score[x]
      BY <2>1, <3>1
    <3>5. ~(x < e)
      <4>1. x < e => x \in From..(e - 1)
        BY <1>1, <2>1, <3>2
      <4>. QED  BY <2>1, <3>3, <3>4, <4>1
    <3>6. ~(e < x)
      <4>1. e < x => e \in From..(x - 1)
        BY <1>1, <2>1, <3>2
      <4>. QED  BY <3>1, <3>3, <3>4, <4>1
    <3>. QED  BY <1>1, <3>2, <3>5, <3>6
  <2>. HIDE DEF First, e
  <2>3. (CHOOSE x \in From..n : First(x)) = e
    BY <2>1, <2>2
  <2>4. FirstBest(n) = e
    BY <1>2, <2>1, <2>3
  <2>. QED  BY <2>1, <2>4 DEF e
<1>. QED  BY <1>3, <1>4

LEMMA WriteResultKeeps ==
  ASSUME IInv, WriteResult
  PROVE  IInv'
<1>1. /\ UNCHANGED <<trainer, score, checkpoint, bestFile, epochFiles>>
      /\ pc = "finish" /\ BestIsMine /\ pc' = "idle" /\ run' = None
      /\ result' = [contract |-> run.contract, model |-> bestFile.model,
                    bestEpoch |-> run.bestEpoch, best |-> run.best,
                    history |-> run.history]
  BY DEF WriteResult, Stopped
<1>. DEFINE n == run.epoch
<1>2. run \in Runs /\ Seen(run, n) /\ bestFile \in BestFiles
      /\ bestFile.contract = run.contract /\ bestFile.epoch = run.bestEpoch
      /\ (From = 1 => run.bestEpoch >= 0)
  BY <1>1 DEF IInv, Setting, Running, AllSeen, BestKept, Same, Mine, BestIsMine, Judged
<1>3. n \in 0..Epochs /\ n \in Nat /\ run.bestEpoch \in Int
      /\ run.bestEpoch + 1 \in Nat /\ run.contract \in Contracts
  <2>1. bestFile.epoch \in -1..(Epochs - 1)
    BY <1>2 DEF BestFiles
  <2>. QED  BY <1>2, <2>1, TrainingAssumption DEF Runs
<1>. DEFINE size == (run.bestEpoch + 1) * Batches
<1>4. bestFile.model = Exact(run.contract, size) /\ size \in Nat /\ Len(bestFile.model) = size
  <2>1. size \in Nat
    BY <1>3, NextEpoch
  <2>2. bestFile.model = Exact(run.contract, size)
    BY <1>1, <1>2 DEF IInv, AllUndisturbed, BestIsMine
  <2>. HIDE DEF size
  <2>3. Len(bestFile.model) = size
    BY <1>3, <2>1, <2>2, ExactFacts
  <2>. QED  BY <2>1, <2>2, <2>3
<1>5. Leads(run, n)
  BY <1>2 DEF Seen
<1>6. FirstBest(n) = run.bestEpoch + 1 /\ run.best = score[FirstBest(n)]
  BY <1>2, <1>3, <1>5, LeadsIsFirstBest
<1>8. Len(run.history) = n /\ \A e \in 1..n : run.history[e] = score[e]
  BY <1>2 DEF Seen
<1>9. trainer.epochFiles => \A e \in 0..(n - 1) : epochFiles[e] # None
  BY <1>1 DEF IInv, EpochsKept
<1>. HIDE DEF n
<1>10. \A m : (FirstBest(m))' = FirstBest(m)
  BY <1>1 DEF FirstBest
<1>11. /\ result'.model = bestFile.model /\ result'.contract = run.contract
       /\ result'.bestEpoch = run.bestEpoch /\ result'.best = run.best
       /\ result'.history = run.history
  BY <1>1
<1>12. run.bestEpoch = FirstBest(n) - 1
  BY <1>3, <1>6
<1>13. ResultKept'
  <2>1. result'.model = Exact(result'.contract, Len(result'.model))
    BY <1>4, <1>11
  <2>2. Len(result'.history) \in 0..Epochs
    BY <1>3, <1>8, <1>11
  <2>3. ResultIsBest'
    BY <1>1, <1>4, <1>6, <1>8, <1>9, <1>10, <1>11, <1>12 DEF ResultIsBest
  <2>. QED  BY <2>1, <2>2, <2>3 DEF ResultKept
<1>14. Setting' /\ Running' /\ AllUndisturbed'
  BY <1>1 DEF IInv, Setting, Stages, Running, InEpoch, Judged, Beginning,
              AllUndisturbed, Undisturbed, Fitted
<1>15. AllSeen' /\ Continues'
  BY <1>1 DEF IInv, AllSeen, Seen, Leads, From, Continues
<1>16. BestKept'
  BY <1>1 DEF IInv, BestKept, Near, Mine, Improves, From
<1>17. EpochsKept'
  BY <1>1 DEF IInv, EpochsKept
<1>. QED  BY <1>13, <1>14, <1>15, <1>16, <1>17 DEF IInv

LEMMA TrainingNext ==
  ASSUME IInv, [Next]_vars
  PROVE  IInv'
<1>1. CASE Begin \/ SaveInitialBest \/ SaveInitialCheckpoint \/ TrainBatch \/ SaveAfterBatch
  BY <1>1, BeginKeeps, SaveInitialBestKeeps, SaveInitialCheckpointKeeps, TrainBatchKeeps,
     SaveAfterBatchKeeps
<1>2. CASE EvaluateEpoch \/ SaveEpochFile \/ SaveBest \/ SaveCheckpoint \/ WriteResult
  BY <1>2, EvaluateKeeps, SaveEpochFileKeeps, SaveBestKeeps, SaveCheckpointKeeps,
     WriteResultKeeps
<1>3. CASE RefuseBest \/ Kill
  BY <1>3, StopKeeps DEF RefuseBest, Kill
<1>4. CASE StartEpoch \/ KeepAfterBatch \/ Pause \/ Unpause \/ UNCHANGED vars
  BY <1>4, MoveKeeps DEF StartEpoch, KeepAfterBatch, Pause, Unpause, vars, files
<1>5. CASE PauseAfterBatch
  BY <1>5, StopKeeps, MoveKeeps DEF PauseAfterBatch
<1>6. CASE EndEpoch
  BY <1>6, StopKeeps, MoveKeeps DEF EndEpoch
<1>. QED  BY <1>1, <1>2, <1>3, <1>4, <1>5, <1>6 DEF Next, Work

(***************************************************************************)
(* How many epochs a result has.                                           *)
(***************************************************************************)

(* A run counts the epochs since its best, and every epoch behind one      *)
(* after which patience was out had a command begun on it.                 *)
Counted(r, n) == r.stale = n - (r.bestEpoch + 1)
Excused(n) == \A e \in 1..(n - 1) : PatienceOut(e) => e \in overrun

OverrunInv ==
    /\ pc # "idle" =>
          /\ Counted(run, IF pc \in Judged THEN run.epoch + 1 ELSE run.epoch)
          /\ Excused(run.epoch)
    /\ pc \in InEpoch \cup Beginning \cup {"epoch"} => Excused(run.epoch + 1)
    /\ checkpoint # None => Counted(checkpoint, checkpoint.epoch) /\ Excused(checkpoint.epoch)
    /\ pc = "finish" => run.epoch = Epochs \/ run.stale >= Patience
    /\ ResultIsWhole

LEMMA LeadsFromOne ==
  ASSUME IInv, NEW r, NEW n \in 1..Epochs, Leads(r, n), r.bestEpoch \in Int
  PROVE  FirstBest(n) = r.bestEpoch + 1
<1>1. n \in 0..Epochs /\ n \in Nat /\ From \in {0, 1}
  BY TrainersFacts, TrainingAssumption DEF IInv, Setting
<1>2. CASE From = 1 => r.bestEpoch >= 0
  BY <1>1, <1>2, LeadsIsFirstBest
<1>3. CASE From = 1 /\ ~(r.bestEpoch >= 0)
  <2>1. r.bestEpoch = -1 /\ \A d \in 1..n : score[d] = Nan
    <3>1. r.bestEpoch = -1
      BY <1>1, <1>3 DEF Leads
    <3>. QED  BY <1>3, <3>1 DEF Leads
  <2>. DEFINE Is(x) == /\ \A d \in From..n : score[d] <= score[x]
                       /\ \A d \in From..(x - 1) : score[d] < score[x]
  <2>2. FirstBest(n) = IF (From = 0 /\ score[0] = Nan)
                            \/ score[CHOOSE x \in From..n : Is(x)] = Nan
                         THEN 0 ELSE CHOOSE x \in From..n : Is(x)
    BY DEF FirstBest, From
  <2>3. 1 \in From..n /\ Is(1)
    BY <1>1, <1>3, <2>1 DEF Nan
  <2>. HIDE DEF Is
  <2>4. (CHOOSE x \in From..n : Is(x)) \in 1..n
    BY <1>3, <2>3
  <2>. QED  BY <2>1, <2>2, <2>4
<1>. QED  BY <1>2, <1>3

(* The count says whether patience is out.                                 *)
LEMMA CountSaysPatience ==
  ASSUME IInv, NEW r \in Runs, NEW n \in 1..Epochs, Leads(r, n), Counted(r, n)
  PROVE  PatienceOut(n) <=> r.stale >= Patience
<1>1. FirstBest(n) = r.bestEpoch + 1
  BY LeadsFromOne DEF Runs
<1>. QED  BY <1>1 DEF PatienceOut, Counted

(* Scores and loop stay, and what was overrun remains so.                  *)
LEMMA OverrunRemains ==
  ASSUME UNCHANGED <<trainer, score>>, overrun \subseteq overrun'
  PROVE  /\ \A n : PatienceOut(n)' <=> PatienceOut(n)
         /\ \A n : Excused(n) => Excused(n)'
         /\ result' = result /\ ResultIsWhole => ResultIsWhole'
<1>1. \A n : FirstBest(n)' = FirstBest(n)
  BY DEF FirstBest
<1>2. \A n : PatienceOut(n)' <=> PatienceOut(n)
  BY <1>1 DEF PatienceOut
<1>3. \A n : Excused(n) => Excused(n)'
  BY <1>2 DEF Excused
<1>4. result' = result /\ ResultIsWhole => ResultIsWhole'
  BY <1>2 DEF ResultIsWhole
<1>. QED  BY <1>2, <1>3, <1>4

LEMMA BeginOverruns ==
  ASSUME IInv, OverrunInv, Begin
  PROVE  OverrunInv'
<1>. USE DEF Judged, InEpoch, Beginning
<1>1. PICK c \in Contracts :
        IF checkpoint # None
          THEN run' = Restored /\ pc' = "epoch"
          ELSE run' = Fresh(c) /\ pc' \in {"epoch", "initial"}
  BY DEF Begin
<1>2. /\ UNCHANGED <<trainer, score, checkpoint, result>> /\ overrun \subseteq overrun'
      /\ checkpoint # None /\ checkpoint.stale >= Patience => checkpoint.epoch \in overrun'
  BY DEF Begin, files
<1>3. /\ \A n : PatienceOut(n)' <=> PatienceOut(n)
      /\ \A n : Excused(n) => Excused(n)'
      /\ ResultIsWhole'
  BY <1>2, OverrunRemains DEF OverrunInv
<1>4. pc' # "finish"
  BY <1>1
<1>5. CASE checkpoint # None
  <2>1. run' = checkpoint /\ checkpoint' = checkpoint /\ pc' = "epoch"
    BY <1>1, <1>2, <1>5 DEF Restored
  <2>2. checkpoint \in Runs /\ checkpoint.epoch \in 0..Epochs /\ checkpoint.epoch \in Nat
    BY <1>5, TrainingAssumption DEF IInv, Setting, Runs
  <2>3. Counted(checkpoint, checkpoint.epoch) /\ Excused(checkpoint.epoch)
        /\ Excused(checkpoint.epoch)'
    <3>1. Excused(checkpoint.epoch) /\ Counted(checkpoint, checkpoint.epoch)
      BY <1>5 DEF OverrunInv
    <3>. QED  BY <1>2, <1>3, <3>1 DEF Excused
  <2>4. Excused(run.epoch + 1)'
    <3>1. SUFFICES ASSUME NEW e \in 1..checkpoint.epoch, PatienceOut(e)  PROVE e \in overrun'
      BY <1>3, <2>1, <2>2 DEF Excused
    <3>2. CASE e = checkpoint.epoch
      <4>1. e \in 1..Epochs /\ Leads(checkpoint, e)
        BY <1>5, <2>2, <3>2 DEF IInv, AllSeen, Seen
      <4>2. Counted(checkpoint, e)
        BY <2>3, <3>2
      <4>. QED  BY <1>2, <1>5, <2>2, <3>1, <3>2, <4>1, <4>2, CountSaysPatience
    <3>3. CASE e \in 1..(checkpoint.epoch - 1)
      BY <1>2, <2>3, <3>1, <3>3 DEF Excused
    <3>. QED  BY <2>2, <3>2, <3>3
  <2>. QED  BY <1>3, <1>4, <2>1, <2>3, <2>4 DEF OverrunInv, Counted
<1>6. CASE checkpoint = None
  <2>1. run' = Fresh(c) /\ pc' \in {"epoch", "initial"} /\ checkpoint' = None
    BY <1>1, <1>2, <1>6
  <2>2. run'.epoch = 0 /\ run'.bestEpoch = -1 /\ run'.stale = 0
    BY <2>1 DEF Fresh
  <2>3. Excused(run.epoch)' /\ Excused(run.epoch + 1)'
    BY <2>2 DEF Excused
  <2>. QED  BY <1>3, <1>4, <2>1, <2>2, <2>3 DEF OverrunInv, Counted
<1>. QED  BY <1>5, <1>6

(* Where an epoch ends, patience decides whether it goes on.               *)
LEMMA EndOverruns ==
  ASSUME IInv, OverrunInv, EndEpoch
  PROVE  OverrunInv'
<1>. USE DEF Judged, InEpoch, Beginning
<1>1. /\ pc = "ended" /\ UNCHANGED <<trainer, score, checkpoint, result, overrun>>
      /\ \/ pc' = "idle"
         \/ run' = run /\ pc' = IF run.stale >= Patience THEN "finish" ELSE "epoch"
  BY DEF EndEpoch, Stopped, files
<1>2. /\ \A n : PatienceOut(n)' <=> PatienceOut(n)
      /\ \A n : Excused(n) => Excused(n)'
      /\ ResultIsWhole'
  BY <1>1, OverrunRemains DEF OverrunInv
<1>3. checkpoint' # None => Counted(checkpoint, checkpoint.epoch)' /\ Excused(checkpoint.epoch)'
  BY <1>1, <1>2 DEF OverrunInv, Counted, Excused
<1>4. CASE pc' = "idle"
  BY <1>2, <1>3, <1>4 DEF OverrunInv
<1>5. CASE run' = run /\ pc' = IF run.stale >= Patience THEN "finish" ELSE "epoch"
  <2>1. run \in Runs /\ run.epoch \in 0..Epochs /\ run.epoch \in Nat /\ Leads(run, run.epoch)
    BY <1>1, TrainingAssumption DEF IInv, Running, AllSeen, Seen, Runs
  <2>2. Counted(run, run.epoch) /\ Excused(run.epoch)
    BY <1>1 DEF OverrunInv
  <2>3. Counted(run, run.epoch)' /\ Excused(run.epoch)'
    BY <1>1, <1>2, <1>5, <2>2 DEF Counted, Excused
  <2>4. pc' = "epoch" => Excused(run.epoch + 1)'
    <3>1. SUFFICES ASSUME ~(run.stale >= Patience),
                          NEW e \in 1..run.epoch, PatienceOut(e)  PROVE e \in overrun'
      BY <1>2, <1>5, <2>1 DEF Excused
    <3>2. e # run.epoch
      <4>1. SUFFICES ASSUME e = run.epoch  PROVE FALSE
        OBVIOUS
      <4>2. e \in 1..Epochs /\ Leads(run, e) /\ Counted(run, e)
        BY <2>1, <2>2, <4>1
      <4>. QED  BY <2>1, <3>1, <4>2, CountSaysPatience
    <3>. QED  BY <1>1, <2>1, <2>2, <3>1, <3>2 DEF Excused
  <2>. QED  BY <1>2, <1>3, <1>5, <2>3, <2>4 DEF OverrunInv
<1>. QED  BY <1>1, <1>4, <1>5

LEMMA ResultOverruns ==
  ASSUME IInv, OverrunInv, WriteResult
  PROVE  OverrunInv'
<1>. USE DEF Judged, InEpoch, Beginning
<1>1. /\ pc = "finish" /\ UNCHANGED <<trainer, score, checkpoint, overrun>>
      /\ pc' = "idle" /\ result'.history = run.history
  BY DEF WriteResult, Stopped
<1>2. /\ \A n : PatienceOut(n)' <=> PatienceOut(n)
      /\ \A n : Excused(n) => Excused(n)'
  BY <1>1, OverrunRemains
<1>3. /\ run \in Runs /\ run.epoch \in 0..Epochs /\ run.epoch \in Nat
      /\ Leads(run, run.epoch) /\ Len(run.history) = run.epoch
  BY <1>1, TrainingAssumption DEF IInv, Running, AllSeen, Seen, Runs
<1>4. /\ Counted(run, run.epoch) /\ Excused(run.epoch)
      /\ run.epoch = Epochs \/ run.stale >= Patience
  BY <1>1 DEF OverrunInv
<1>5. run.epoch = Epochs \/ PatienceOut(run.epoch)
  <2>1. SUFFICES ASSUME run.stale >= Patience  PROVE PatienceOut(run.epoch)
    BY <1>4
  <2>2. run.epoch \in 1..Epochs
    <3>1. run.bestEpoch = -1 \/ run.bestEpoch + 1 \in 1..run.epoch
      BY <1>3 DEF Leads
    <3>2. run.bestEpoch \in Int /\ run.stale \in Int
      BY <1>3 DEF Runs
    <3>. QED  BY <1>3, <1>4, <2>1, <3>1, <3>2, TrainingAssumption DEF Counted
  <2>. QED  BY <1>3, <1>4, <2>1, <2>2, CountSaysPatience
<1>6. ResultIsWhole'
  BY <1>1, <1>2, <1>3, <1>4, <1>5 DEF ResultIsWhole, Excused
<1>. QED  BY <1>1, <1>2, <1>6 DEF OverrunInv, Counted, Excused

(* The steps within an epoch and to its checkpoint.                        *)
LEMMA EpochOverruns ==
  ASSUME IInv, OverrunInv, UNCHANGED <<trainer, score, result, overrun>>,
         \/ SaveInitialBest \/ SaveInitialCheckpoint \/ TrainBatch \/ SaveAfterBatch
         \/ EvaluateEpoch \/ SaveEpochFile \/ SaveBest \/ SaveCheckpoint
  PROVE  OverrunInv'
<1>. USE DEF Judged, InEpoch, Beginning, files
<1>1. /\ \A n : PatienceOut(n)' <=> PatienceOut(n)
      /\ \A n : Excused(n) => Excused(n)'
      /\ ResultIsWhole'
  BY OverrunRemains DEF OverrunInv
<1>2. ASSUME checkpoint' = checkpoint
      PROVE  checkpoint' # None =>
                Counted(checkpoint, checkpoint.epoch)' /\ Excused(checkpoint.epoch)'
  BY <1>1, <1>2 DEF OverrunInv, Counted, Excused
<1>3. run \in Runs /\ run.epoch \in Nat /\ run.stale \in Int /\ run.bestEpoch \in Int
  <2>1. pc # "idle"
    BY DEF SaveInitialBest, SaveInitialCheckpoint, TrainBatch, SaveAfterBatch, EvaluateEpoch,
           SaveEpochFile, SaveBest, SaveCheckpoint
  <2>. QED  BY <2>1, TrainingAssumption DEF IInv, Running, Runs
<1>4. CASE SaveInitialBest
  <2>1. /\ pc = "initial" /\ pc' \in {"initialCheckpoint", "epoch"} /\ checkpoint' = checkpoint
        /\ run'.epoch = run.epoch /\ run'.stale = run.stale /\ run'.bestEpoch = run.bestEpoch
    BY <1>3, <1>4 DEF SaveInitialBest, Runs
  <2>. QED  BY <1>1, <1>2, <2>1 DEF OverrunInv, Counted, Excused
<1>5. CASE SaveInitialCheckpoint \/ SaveAfterBatch
  <2>1. /\ pc \in {"initialCheckpoint", "interval"} /\ pc' \in {"epoch", "pause"}
        /\ run' = run /\ checkpoint' = run
    BY <1>5 DEF SaveInitialCheckpoint, SaveAfterBatch
  <2>. QED  BY <1>1, <2>1 DEF OverrunInv, Counted, Excused
<1>6. CASE TrainBatch
  <2>1. /\ pc = "batch" /\ pc' \in {"interval", "batch"} /\ checkpoint' = checkpoint
        /\ run'.epoch = run.epoch /\ run'.stale = run.stale /\ run'.bestEpoch = run.bestEpoch
    BY <1>3, <1>6 DEF TrainBatch, Runs
  <2>. QED  BY <1>1, <1>2, <2>1 DEF OverrunInv, Counted, Excused
<1>7. CASE EvaluateEpoch
  <2>1. /\ pc = "batch" /\ run' = Evaluated(run) /\ checkpoint' = checkpoint
        /\ pc' \in {"epochFile", "best", "checkpoint"}
    BY <1>7 DEF EvaluateEpoch, AfterEvaluation
  <2>2. /\ run'.epoch = run.epoch
        /\ \/ run'.stale = 0 /\ run'.bestEpoch = run.epoch
           \/ run'.stale = run.stale + 1 /\ run'.bestEpoch = run.bestEpoch
    BY <1>3, <2>1 DEF Evaluated, Runs
  <2>3. Counted(run, run.epoch)
    BY <2>1 DEF OverrunInv
  <2>4. Counted(run, run.epoch + 1)'
    BY <1>3, <2>2, <2>3 DEF Counted
  <2>. QED  BY <1>1, <1>2, <2>1, <2>2, <2>4 DEF OverrunInv, Excused
<1>8. CASE SaveEpochFile \/ SaveBest
  <2>1. /\ pc \in {"epochFile", "best"} /\ pc' \in {"best", "checkpoint"}
        /\ run' = run /\ checkpoint' = checkpoint
    BY <1>8 DEF SaveEpochFile, SaveBest, AfterEvaluation
  <2>. QED  BY <1>1, <1>2, <2>1 DEF OverrunInv, Counted, Excused
<1>9. CASE SaveCheckpoint
  <2>1. /\ pc = "checkpoint" /\ pc' = "ended" /\ checkpoint' = run'
        /\ run'.epoch = run.epoch + 1 /\ run'.stale = run.stale
        /\ run'.bestEpoch = run.bestEpoch
    BY <1>3, <1>9 DEF SaveCheckpoint, Runs
  <2>. QED  BY <1>1, <2>1 DEF OverrunInv, Counted, Excused
<1>. QED  BY <1>4, <1>5, <1>6, <1>7, <1>8, <1>9

(* A process stops, or goes on with all it has.                            *)
LEMMA OtherOverruns ==
  ASSUME IInv, OverrunInv, UNCHANGED <<trainer, score, checkpoint, result, overrun>>,
         \/ Stopped
         \/ run' = run /\ pc' = pc
         \/ run' = run /\ StartEpoch
         \/ run' = run /\ pc \in {"interval", "pause"} /\ pc' \in {"pause", "batch"}
  PROVE  OverrunInv'
<1>. USE DEF Judged, InEpoch, Beginning
<1>1. /\ \A n : PatienceOut(n)' <=> PatienceOut(n)
      /\ \A n : Excused(n) => Excused(n)'
      /\ ResultIsWhole'
  BY OverrunRemains DEF OverrunInv
<1>2. checkpoint' # None => Counted(checkpoint, checkpoint.epoch)' /\ Excused(checkpoint.epoch)'
  BY <1>1 DEF OverrunInv, Counted, Excused
<1>3. CASE Stopped
  BY <1>1, <1>2, <1>3 DEF OverrunInv, Stopped
<1>4. CASE run' = run /\ pc' = pc
  BY <1>1, <1>2, <1>4 DEF OverrunInv, Counted, Excused
<1>5. CASE run' = run /\ StartEpoch
  <2>1. pc = "epoch" /\ pc' = IF run.epoch < Epochs THEN "batch" ELSE "finish"
    BY <1>5 DEF StartEpoch
  <2>2. run.epoch \in 0..Epochs
    BY <2>1 DEF IInv, Running, Runs
  <2>3. pc' = "finish" => run.epoch = Epochs
    BY <2>1, <2>2, TrainingAssumption
  <2>. QED  BY <1>1, <1>2, <1>5, <2>1, <2>3 DEF OverrunInv, Counted, Excused
<1>6. CASE run' = run /\ pc \in {"interval", "pause"} /\ pc' \in {"pause", "batch"}
  BY <1>1, <1>2, <1>6 DEF OverrunInv, Counted, Excused
<1>. QED  BY <1>3, <1>4, <1>5, <1>6

LEMMA OverrunNext ==
  ASSUME IInv, OverrunInv, [Next]_vars
  PROVE  OverrunInv'
<1>1. CASE Begin \/ EndEpoch \/ WriteResult
  BY <1>1, BeginOverruns, EndOverruns, ResultOverruns
<1>2. CASE \/ SaveInitialBest \/ SaveInitialCheckpoint \/ TrainBatch \/ SaveAfterBatch
           \/ EvaluateEpoch \/ SaveEpochFile \/ SaveBest \/ SaveCheckpoint
  <2>1. UNCHANGED <<trainer, score, result, overrun>>
    BY <1>2 DEF SaveInitialBest, SaveInitialCheckpoint, TrainBatch, SaveAfterBatch,
                EvaluateEpoch, SaveEpochFile, SaveBest, SaveCheckpoint, files
  <2>. QED  BY <1>2, <2>1, EpochOverruns
<1>3. CASE RefuseBest \/ Kill
  BY <1>3, OtherOverruns DEF RefuseBest, Kill, files
<1>4. CASE StartEpoch
  BY <1>4, OtherOverruns DEF StartEpoch, files
<1>5. CASE KeepAfterBatch \/ PauseAfterBatch
  BY <1>5, OtherOverruns DEF KeepAfterBatch, PauseAfterBatch, files
<1>6. CASE Pause \/ Unpause \/ UNCHANGED vars
  BY <1>6, OtherOverruns DEF Pause, Unpause, vars, files
<1>. QED  BY <1>1, <1>2, <1>3, <1>4, <1>5, <1>6 DEF Next, Work

LEMMA OverrunInit == Init => OverrunInv
  BY DEF Init, OverrunInv, InEpoch, Judged, Beginning, ResultIsWhole

LEMMA InvariantIsExact == IInv /\ OverrunInv => TrainingIsExact
<1>. SUFFICES ASSUME IInv, OverrunInv  PROVE TrainingIsExact
  OBVIOUS
<1>1. ASSUME NEW r \in {run, checkpoint}, r # None
      PROVE  /\ r.model = Exact(r.contract, Len(r.model))
             /\ r.rng = Len(r.model)
             /\ Len(r.model) = (r.epoch * Batches) + r.batch
  <2>1. r \in Runs /\ Undisturbed(r)
    BY <1>1 DEF IInv, Setting, Running, AllUndisturbed
  <2>2. r.contract \in Contracts /\ Fitted(r) \in Nat
    BY <2>1 DEF Runs, Undisturbed
  <2>3. Len(r.model) = Fitted(r)
    BY <2>1, <2>2, ExactFacts DEF Undisturbed
  <2>. QED  BY <2>1, <2>3 DEF Undisturbed, Fitted
<1>2. bestFile # None => bestFile.model = Exact(bestFile.contract, Len(bestFile.model))
  <2>. SUFFICES ASSUME bestFile # None
                PROVE  bestFile.model = Exact(bestFile.contract, Len(bestFile.model))
    OBVIOUS
  <2>. DEFINE size == (bestFile.epoch + 1) * Batches
  <2>1. bestFile.contract \in Contracts /\ bestFile.epoch + 1 \in Nat
    BY TrainingAssumption DEF IInv, Setting, BestFiles
  <2>2. size \in Nat
    BY <2>1, NextEpoch
  <2>3. bestFile.model = Exact(bestFile.contract, size)
    BY DEF IInv, AllUndisturbed
  <2>. HIDE DEF size
  <2>. QED  BY <2>1, <2>2, <2>3, ExactFacts
<1>3. result # None => result.model = Exact(result.contract, Len(result.model))
  BY DEF IInv, ResultKept
<1>4. \A e \in DOMAIN epochFiles :
         epochFiles[e] # None => Len(epochFiles[e]) = (e + 1) * Batches
  BY DEF IInv, Setting, AllUndisturbed
<1>5. ModelsAreExact
  BY <1>1, <1>2, <1>3, <1>4 DEF ModelsAreExact, Saved
<1>. QED  BY <1>5 DEF TrainingIsExact, IInv, ResultKept, OverrunInv

(* Whatever the epochs, batches, patience, contracts and scores, and       *)
(* however often a command was stopped and run again: its models were      *)
(* fitted on each batch of each epoch once, in order, with the generators  *)
(* where an uninterrupted command has them; its result carries the first   *)
(* best of all epochs trained; and it trained past an epoch after which    *)
(* patience was out only where a command was begun again on that epoch.    *)
THEOREM TrainingIsAlwaysExact == Spec => []TrainingIsExact
<1>1. Init => IInv /\ OverrunInv
  BY TrainingInit, OverrunInit
<1>2. IInv /\ OverrunInv /\ [Next]_vars => IInv' /\ OverrunInv'
  BY TrainingNext, OverrunNext
<1>3. IInv /\ OverrunInv => TrainingIsExact
  BY InvariantIsExact
<1>. QED  BY <1>1, <1>2, <1>3, PTL DEF Spec

(***************************************************************************)
(* The histories a build can have fed to its state.                        *)
(***************************************************************************)
Kinds == {"trade", "resolved", "actor"}
Event == Kinds \X Int \X Int
OfKind(h, kind) == {h[m] : m \in {m \in DOMAIN h : h[m][1] = kind}}

ResolvedIn(S) == {Resolved(r) : r \in S}
ActorsBy(k, A) == {Actor(Date(j)) : j \in {j \in 1 .. k : Date(j) \in A}}

Sees(h, n, k, i, R, A) ==
    /\ Before(h, n, "trade") = Earlier(k, i)
    /\ Before(h, n, "resolved") = ResolvedIn({r \in R : r < StreamDays[k][i]})
    /\ Before(h, n, "actor") = ActorsBy(k, A)

(* Causal, of any schedules.                                               *)
CausalIn(h, R, A) ==
    /\ IsInjective(h)
    /\ \A n \in DOMAIN h : h[n][1] = "trade" => Sees(h, n, h[n][2], h[n][3], R, A)

LEMMA CausalIsCausalIn ==
  ASSUME NEW h, CausalIn(h, resolutions, actors)
  PROVE  Causal(h)
  BY DEF CausalIn, Sees, Causal, ResolvedIn, ActorsBy

(* What two histories hold, one after the other.                           *)
LEMMA JoinFacts ==
  ASSUME NEW h \in Seq(Event), NEW g \in Seq(Event)
  PROVE  /\ h \o g \in Seq(Event)
         /\ Len(h \o g) = Len(h) + Len(g)
         /\ \A n \in 1 .. Len(h) : (h \o g)[n] = h[n]
         /\ \A n \in 1 .. Len(g) : (h \o g)[Len(h) + n] = g[n]
         /\ \A n \in 1 .. Len(h) + Len(g) :
               \/ n \in 1 .. Len(h)
               \/ \E m \in 1 .. Len(g) : n = Len(h) + m
<1>1. /\ h \o g \in Seq(Event)
      /\ Len(h \o g) = Len(h) + Len(g)
      /\ \A i \in 1 .. Len(h) + Len(g) :
            (h \o g)[i] = IF i <= Len(h) THEN h[i] ELSE g[i - Len(h)]
  BY ConcatProperties, Zenon
<1>2. Len(h) \in Nat /\ Len(g) \in Nat
  OBVIOUS
<1>. DEFINE a == Len(h)
            b == Len(g)
            j == h \o g
<1>3. \A n \in 1 .. a : j[n] = h[n]
  <2>1. \A n \in 1 .. a : n \in 1 .. a + b /\ n <= a
    BY <1>2
  <2>. QED  BY <1>1, <2>1
<1>4. \A n \in 1 .. b : j[a + n] = g[n]
  <2>2. \A i \in 1 .. a + b : j[i] = IF i <= a THEN h[i] ELSE g[i - a]
    BY <1>1
  <2>0. a \in Nat /\ b \in Nat
    BY <1>2
  <2>. HIDE DEF a, b, j
  <2>. SUFFICES ASSUME NEW n \in 1 .. b PROVE j[a + n] = g[n]
    OBVIOUS
  <2>. DEFINE i == a + n
  <2>3. i \in 1 .. a + b /\ ~(i <= a) /\ i - a = n
    BY <2>0
  <2>. HIDE DEF i
  <2>4. j[i] = g[n]
    BY <2>2, <2>3
  <2>. QED  BY <2>4 DEF i
<1>5. ASSUME NEW n \in 1 .. a + b
      PROVE  n \in 1 .. a \/ \E m \in 1 .. b : n = a + m
  <2>1. n \in 1 .. a \/ (n - a \in 1 .. b /\ n = a + (n - a))
    BY <1>2
  <2>. QED  BY <2>1
<1>. QED  BY <1>1, <1>3, <1>4, <1>5

LEMMA JoinThree ==
  ASSUME NEW h \in Seq(Event), NEW g \in Seq(Event), NEW j \in Seq(Event)
  PROVE  h \o g \o j = h \o (g \o j)
<1>. DEFINE E == Event
<1>1. h \in Seq(E) /\ g \in Seq(E) /\ j \in Seq(E)
  OBVIOUS
<1>. HIDE DEF E
<1>. QED  BY <1>1, ConcatAssociative

LEMMA JoinNothing ==
  ASSUME NEW h \in Seq(Event)
  PROVE  h \o <<>> = h
  BY ConcatEmptySeq, Zenon

LEMMA JoinKinds ==
  ASSUME NEW h \in Seq(Event), NEW g \in Seq(Event), NEW kind
  PROVE  OfKind(h \o g, kind) = OfKind(h, kind) \cup OfKind(g, kind)
<1>. DEFINE a == Len(h)
            b == Len(g)
            j == h \o g
<1>1. /\ a \in Nat /\ b \in Nat
      /\ DOMAIN h = 1 .. a /\ DOMAIN g = 1 .. b /\ DOMAIN j = 1 .. a + b
  <2>1. j \in Seq(Event) /\ Len(j) = a + b
    BY JoinFacts
  <2>. HIDE DEF j
  <2>. QED  BY <2>1
<1>2. /\ \A n \in 1 .. a : j[n] = h[n]
      /\ \A n \in 1 .. b : j[a + n] = g[n]
      /\ \A n \in 1 .. a + b : n \in 1 .. a \/ \E m \in 1 .. b : n = a + m
  BY JoinFacts
<1>3. (\A n \in 1 .. a : n \in 1 .. a + b) /\ (\A n \in 1 .. b : a + n \in 1 .. a + b)
  BY <1>1
<1>. HIDE DEF a, b, j
<1>4. OfKind(j, kind) \subseteq OfKind(h, kind) \cup OfKind(g, kind)
  <2>. SUFFICES ASSUME NEW n \in 1 .. a + b, j[n][1] = kind
                PROVE  j[n] \in OfKind(h, kind) \cup OfKind(g, kind)
    BY <1>1 DEF OfKind
  <2>1. CASE n \in 1 .. a
    BY <1>1, <1>2, <2>1 DEF OfKind
  <2>2. ASSUME NEW m \in 1 .. b, n = a + m PROVE j[n] \in OfKind(g, kind)
    BY <1>1, <1>2, <2>2 DEF OfKind
  <2>. QED  BY <1>2, <2>1, <2>2
<1>5. OfKind(h, kind) \subseteq OfKind(j, kind)
  BY <1>1, <1>2, <1>3 DEF OfKind
<1>6. OfKind(g, kind) \subseteq OfKind(j, kind)
  BY <1>1, <1>2, <1>3 DEF OfKind
<1>. QED  BY <1>4, <1>5, <1>6 DEF j

(* Whatever is fed after an event is not before it.                        *)
LEMMA JoinBefore ==
  ASSUME NEW h \in Seq(Event), NEW g \in Seq(Event), NEW kind
  PROVE  /\ \A n \in 1 .. Len(h) : Before(h \o g, n, kind) = Before(h, n, kind)
         /\ Before(h \o g, Len(h) + 1, kind) = OfKind(h, kind)
         /\ Before(h, Len(h) + 1, kind) = OfKind(h, kind)
<1>. DEFINE a == Len(h)
            j == h \o g
<1>1. a \in Nat /\ DOMAIN h = 1 .. a /\ \A n \in 1 .. a : j[n] = h[n]
  BY JoinFacts
<1>. HIDE DEF a, j
<1>2. ASSUME NEW n \in 1 .. a PROVE Before(j, n, kind) = Before(h, n, kind)
  <2>1. \A m \in 1 .. n - 1 : j[m] = h[m]
    BY <1>1
  <2>. QED  BY <2>1 DEF Before
<1>3. a + 1 - 1 = a
  BY <1>1
<1>4. Before(j, a + 1, kind) = OfKind(h, kind) /\ Before(h, a + 1, kind) = OfKind(h, kind)
  BY <1>1, <1>3 DEF Before, OfKind
<1>. QED  BY <1>2, <1>4 DEF a, j

(***************************************************************************)
(* Resolutions and actor deltas are fed between trades; a trade is fed     *)
(* when all it must see was.                                               *)
(***************************************************************************)
NoneTwice(h, g) ==
    /\ IsInjective(g)
    /\ \A kind \in Kinds : OfKind(h, kind) \cap OfKind(g, kind) = {}

LEMMA JoinInjective ==
  ASSUME NEW h \in Seq(Event), NEW g \in Seq(Event), IsInjective(h), NoneTwice(h, g)
  PROVE  IsInjective(h \o g)
<1>. DEFINE a == Len(h)
            b == Len(g)
            j == h \o g
<1>1. /\ a \in Nat /\ b \in Nat
      /\ DOMAIN h = 1 .. a /\ DOMAIN g = 1 .. b /\ DOMAIN j = 1 .. a + b
  <2>1. j \in Seq(Event) /\ Len(j) = a + b
    BY JoinFacts
  <2>. HIDE DEF j
  <2>. QED  BY <2>1
<1>2. /\ \A n \in 1 .. a : j[n] = h[n]
      /\ \A n \in 1 .. b : j[a + n] = g[n]
      /\ \A n \in 1 .. a + b : n \in 1 .. a \/ \E m \in 1 .. b : n = a + m
  BY JoinFacts
<1>3. \A n \in 1 .. a, m \in 1 .. b : h[n] # g[m]
  <2>. SUFFICES ASSUME NEW n \in 1 .. a, NEW m \in 1 .. b, h[n] = g[m]
                PROVE  FALSE
    OBVIOUS
  <2>1. h[n] \in Event
    BY <1>1
  <2>2. h[n][1] \in Kinds
    BY <2>1 DEF Event
  <2>3. h[n] \in OfKind(h, h[n][1]) /\ g[m] \in OfKind(g, h[n][1])
    BY <1>1 DEF OfKind
  <2>. QED  BY <2>2, <2>3 DEF NoneTwice
<1>. HIDE DEF a, b, j
<1>4. /\ \A n, m \in 1 .. a : h[n] = h[m] => n = m
      /\ \A n, m \in 1 .. b : g[n] = g[m] => n = m
  BY <1>1 DEF IsInjective, NoneTwice
<1>5. \A n, m \in 1 .. a + b : j[n] = j[m] => n = m
  <2>. SUFFICES ASSUME NEW n \in 1 .. a + b, NEW m \in 1 .. a + b, j[n] = j[m]
                PROVE  n = m
    OBVIOUS
  <2>1. CASE n \in 1 .. a /\ m \in 1 .. a
    BY <1>2, <1>4, <2>1
  <2>2. CASE n \in 1 .. a /\ \E p \in 1 .. b : m = a + p
    BY <1>2, <1>3, <2>2
  <2>3. CASE m \in 1 .. a /\ \E p \in 1 .. b : n = a + p
    BY <1>2, <1>3, <2>3
  <2>4. ASSUME NEW p \in 1 .. b, NEW q \in 1 .. b, n = a + p, m = a + q
        PROVE  n = m
    <3>1. g[p] = g[q]
      BY <1>2, <2>4
    <3>. QED  BY <1>4, <2>4, <3>1
  <2>. QED  BY <1>2, <2>1, <2>2, <2>3, <2>4
<1>. QED  BY <1>1, <1>5 DEF IsInjective, j

LEMMA FeedBetween ==
  ASSUME NEW h \in Seq(Event), NEW g \in Seq(Event), NEW R, NEW A,
         CausalIn(h, R, A), NoneTwice(h, g), OfKind(g, "trade") = {}
  PROVE  CausalIn(h \o g, R, A)
<1>. DEFINE a == Len(h)
            b == Len(g)
            j == h \o g
<1>1. /\ a \in Nat /\ b \in Nat
      /\ DOMAIN h = 1 .. a /\ DOMAIN g = 1 .. b /\ DOMAIN j = 1 .. a + b
  <2>1. j \in Seq(Event) /\ Len(j) = a + b
    BY JoinFacts
  <2>. HIDE DEF j
  <2>. QED  BY <2>1
<1>2. /\ \A n \in 1 .. a : j[n] = h[n]
      /\ \A n \in 1 .. b : j[a + n] = g[n]
      /\ \A n \in 1 .. a + b : n \in 1 .. a \/ \E m \in 1 .. b : n = a + m
  BY JoinFacts
<1>3. IsInjective(j)
  BY JoinInjective DEF CausalIn
<1>4. \A kind : \A n \in 1 .. a : Before(j, n, kind) = Before(h, n, kind)
  BY JoinBefore
<1>. HIDE DEF a, b, j
<1>5. ASSUME NEW n \in DOMAIN j, j[n][1] = "trade"
      PROVE  Sees(j, n, j[n][2], j[n][3], R, A)
  <2>1. n \in 1 .. a
    <3>. SUFFICES ASSUME NEW m \in 1 .. b, n = a + m PROVE FALSE
      BY <1>1, <1>2
    <3>1. g[m] \in OfKind(g, "trade")
      BY <1>1, <1>2, <1>5 DEF OfKind
    <3>. QED  BY <3>1
  <2>2. j[n] = h[n] /\ Sees(h, n, h[n][2], h[n][3], R, A)
    BY <1>1, <1>2, <1>5, <2>1 DEF CausalIn
  <2>. QED  BY <1>4, <2>1, <2>2 DEF Sees
<1>. QED  BY <1>3, <1>5 DEF CausalIn, j

ReadyFor(h, k, i, R, A) ==
    /\ OfKind(h, "trade") = Earlier(k, i) /\ Trade(k, i) \notin Earlier(k, i)
    /\ OfKind(h, "resolved") = ResolvedIn({r \in R : r < StreamDays[k][i]})
    /\ OfKind(h, "actor") = ActorsBy(k, A)

LEMMA FeedTrade ==
  ASSUME NEW h \in Seq(Event), NEW R, NEW A, NEW k \in Nat, NEW i \in Nat,
         CausalIn(h, R, A), ReadyFor(h, k, i, R, A)
  PROVE  /\ h \o <<Trade(k, i)>> \in Seq(Event)
         /\ CausalIn(h \o <<Trade(k, i)>>, R, A)
         /\ OfKind(h \o <<Trade(k, i)>>, "trade") = Earlier(k, i) \cup {Trade(k, i)}
         /\ OfKind(h \o <<Trade(k, i)>>, "resolved") = OfKind(h, "resolved")
         /\ OfKind(h \o <<Trade(k, i)>>, "actor") = OfKind(h, "actor")
<1>. DEFINE g == <<Trade(k, i)>>
            a == Len(h)
            j == h \o g
<1>1. g \in Seq(Event) /\ Len(g) = 1 /\ g[1] = Trade(k, i) /\ DOMAIN g = 1 .. 1
  BY DEF Trade, Event, Kinds
<1>2. /\ OfKind(g, "trade") = {Trade(k, i)}
      /\ OfKind(g, "resolved") = {} /\ OfKind(g, "actor") = {}
  BY DEF OfKind, Trade
<1>. HIDE DEF g
<1>3. NoneTwice(h, g)
  BY <1>1, <1>2 DEF NoneTwice, Kinds, IsInjective, ReadyFor
<1>4. j \in Seq(Event) /\ IsInjective(j)
  BY <1>1, <1>3, JoinFacts, JoinInjective DEF CausalIn
<1>5. \A kind : OfKind(j, kind) = OfKind(h, kind) \cup OfKind(g, kind)
  BY <1>1, JoinKinds
<1>6. /\ \A n \in 1 .. a : j[n] = h[n]
      /\ j[a + 1] = Trade(k, i)
      /\ \A n \in 1 .. a + 1 : n \in 1 .. a \/ n = a + 1
      /\ DOMAIN j = 1 .. a + 1 /\ a \in Nat /\ DOMAIN h = 1 .. a
  <2>1. /\ \A n \in 1 .. Len(h) : j[n] = h[n]
        /\ \A n \in 1 .. Len(g) : j[Len(h) + n] = g[n]
        /\ Len(j) = Len(h) + Len(g)
    BY <1>1, JoinFacts
  <2>2. a \in Nat /\ 1 \in 1 .. Len(g)
    BY <1>1
  <2>. HIDE DEF j
  <2>. QED  BY <1>1, <1>4, <2>1, <2>2
<1>7. \A kind : /\ \A n \in 1 .. a : Before(j, n, kind) = Before(h, n, kind)
                /\ Before(j, a + 1, kind) = OfKind(h, kind)
  BY <1>1, JoinBefore
<1>. HIDE DEF j, a
<1>8. ASSUME NEW n \in DOMAIN j, j[n][1] = "trade"
      PROVE  Sees(j, n, j[n][2], j[n][3], R, A)
  <2>1. CASE n \in 1 .. a
    <3>1. j[n] = h[n] /\ Sees(h, n, h[n][2], h[n][3], R, A)
      BY <1>6, <1>8, <2>1 DEF CausalIn
    <3>. QED  BY <1>7, <2>1, <3>1 DEF Sees
  <2>2. CASE n = a + 1
    <3>1. j[n][2] = k /\ j[n][3] = i
      BY <1>6, <2>2 DEF Trade
    <3>2. Sees(j, n, k, i, R, A)
      BY <1>7, <2>2 DEF Sees, ReadyFor
    <3>. QED  BY <3>1, <3>2
  <2>. QED  BY <1>6, <2>1, <2>2
<1>9. CausalIn(j, R, A)
  BY <1>4, <1>8 DEF CausalIn
<1>. QED  BY <1>2, <1>4, <1>5, <1>9 DEF j, g, ReadyFor

(* A finite set of seconds has one ascending enumeration: it lists each.   *)
Ascends(s, S) ==
    /\ s \in [1 .. Cardinality(S) -> S]
    /\ \A i, j \in DOMAIN s : i < j => s[i] < s[j]

LEMMA AscendingExists ==
  ASSUME NEW S \in SUBSET Nat, IsFiniteSet(S)
  PROVE  \E s : Ascends(s, S)
<1>. DEFINE n == Cardinality(S)
            P == [e \in S |-> {d \in S : d < e}]
            s == [i \in 1 .. n |-> CHOOSE e \in S : Cardinality(P[e]) = i - 1]
<1>1. n \in Nat
  BY FS_CardinalityType
<1>2. /\ P \in [S -> SUBSET S]
      /\ \A e \in S : e \notin P[e]
      /\ \A e, f \in S : e \in P[f] => P[e] \subseteq P[f]
      /\ \A e, f \in S : e = f \/ e \in P[f] \/ f \in P[e]
      /\ \A e, f \in S : e \in P[f] => e < f
  <2>1. \A e, f \in S : (e \in P[f] <=> e < f)
    OBVIOUS
  <2>2. P \in [S -> SUBSET S]
    OBVIOUS
  <2>. HIDE DEF P
  <2>3. \A e, f \in S : ~(e < e) /\ (e = f \/ e < f \/ f < e)
    OBVIOUS
  <2>4. \A d, e, f \in S : d < e /\ e < f => d < f
    OBVIOUS
  <2>5. \A e, f \in S : e \in P[f] => P[e] \subseteq P[f]
    BY <2>1, <2>2, <2>4
  <2>. QED  BY <2>1, <2>2, <2>3, <2>5
<1>. HIDE DEF P
<1>3. \A i \in 1 .. n : \E e \in S : Cardinality(P[e]) = i - 1
  BY <1>2, RanksCount
<1>4. \A i \in 1 .. n : s[i] \in S /\ Cardinality(P[s[i]]) = i - 1
  <2>. HIDE DEF n
  <2>. QED  BY <1>3
<1>5. s \in [1 .. n -> S]
  BY <1>4
<1>. HIDE DEF s
<1>6. \A i, j \in 1 .. n : i < j => s[i] \in P[s[j]]
  BY <1>2, <1>4, RankedListsAll
<1>. QED  BY <1>2, <1>4, <1>5, <1>6 DEF Ascends

LEMMA InOrderFacts ==
  ASSUME NEW S \in SUBSET Nat, IsFiniteSet(S)
  PROVE  /\ InOrder(S) \in Seq(Event)
         /\ IsInjective(InOrder(S))
         /\ OfKind(InOrder(S), "resolved") = ResolvedIn(S)
         /\ OfKind(InOrder(S), "trade") = {}
         /\ OfKind(InOrder(S), "actor") = {}
<1>. DEFINE n == Cardinality(S)
            s == CHOOSE s \in [1 .. n -> S] : \A i, j \in DOMAIN s : i < j => s[i] < s[j]
            g == InOrder(S)
<1>1. n \in Nat
  BY FS_CardinalityType
<1>2. s \in [1 .. n -> S] /\ \A i, j \in 1 .. n : i < j => s[i] < s[j]
  <2>1. PICK q : Ascends(q, S)
    BY AscendingExists
  <2>. HIDE DEF n
  <2>. QED  BY <2>1 DEF Ascends, n
<1>3. g = [i \in 1 .. n |-> Resolved(s[i])]
  BY <1>2 DEF InOrder
<1>. HIDE DEF s, g
<1>4. \A i, j \in 1 .. n : s[i] = s[j] => i = j
  <2>. SUFFICES ASSUME NEW i \in 1 .. n, NEW j \in 1 .. n, s[i] = s[j], i # j
                PROVE  FALSE
    OBVIOUS
  <2>1. s[i] \in Nat /\ s[j] \in Nat
    BY <1>2
  <2>2. i < j \/ j < i
    BY <1>1
  <2>. QED  BY <1>2, <2>1, <2>2
<1>5. \A r \in S : \E i \in 1 .. n : s[i] = r
  <2>1. s \in Injection(1 .. n, S)
    BY <1>2, <1>4 DEF Injection, IsInjective
  <2>2. IsFiniteSet(1 .. n) /\ Cardinality(1 .. n) = n
    BY <1>1, OneTo
  <2>3. s \in Surjection(1 .. n, S)
    <3>. HIDE DEF n
    <3>. QED  BY <2>1, <2>2, FS_Injection DEF n
  <2>. QED  BY <2>3 DEF Surjection
<1>6. \A i \in 1 .. n : Resolved(s[i]) \in Event
  <2>. SUFFICES ASSUME NEW i \in 1 .. n PROVE Resolved(s[i]) \in Event
    OBVIOUS
  <2>. DEFINE r == s[i]
  <2>1. r \in S
    BY <1>2
  <2>. HIDE DEF r
  <2>2. r \in Int
    BY <2>1
  <2>3. Resolved(r) \in Event
    BY <2>2 DEF Resolved, Event, Kinds
  <2>. QED  BY <2>3 DEF r
<1>7. g \in Seq(Event)
  BY <1>1, <1>3, <1>6
<1>8. IsInjective(g)
  BY <1>3, <1>4 DEF IsInjective, Resolved
<1>9. OfKind(g, "resolved") = ResolvedIn(S)
  <2>1. \A i \in 1 .. n : g[i] = Resolved(s[i]) /\ s[i] \in S
    BY <1>2, <1>3
  <2>2. DOMAIN g = 1 .. n
    BY <1>3
  <2>3. OfKind(g, "resolved") \subseteq ResolvedIn(S)
    BY <2>1, <2>2 DEF OfKind, ResolvedIn
  <2>4. ASSUME NEW r \in S PROVE Resolved(r) \in OfKind(g, "resolved")
    <3>1. PICK i \in 1 .. n : s[i] = r
      BY <1>5
    <3>2. g[i] = Resolved(r) /\ g[i][1] = "resolved"
      BY <2>1, <3>1 DEF Resolved
    <3>. QED  BY <2>2, <3>2 DEF OfKind
  <2>. QED  BY <2>3, <2>4 DEF ResolvedIn
<1>10. OfKind(g, "trade") = {} /\ OfKind(g, "actor") = {}
  BY <1>3 DEF OfKind, Resolved
<1>. QED  BY <1>7, <1>8, <1>9, <1>10 DEF g

(***************************************************************************)
(* One day, row by row.                                                    *)
(***************************************************************************)
Upto(k, R) == {r \in R : DateOf(r) =< Date(k)}

(* After i rows of day k, with these resolutions left.                     *)
RowsFed(h, left, k, i, R, A) ==
    /\ h \in Seq(Event) /\ CausalIn(h, R, A)
    /\ left \subseteq Upto(k, R)
    /\ OfKind(h, "trade") = Earlier(k, i + 1)
    /\ OfKind(h, "resolved") = ResolvedIn(Upto(k, R) \ left)
    /\ OfKind(h, "actor") = ActorsBy(k, A)
    /\ i < Len(StreamDays[k]) => \A r \in Upto(k, R) \ left : r < StreamDays[k][i + 1]

(* The whole of the days up to k was fed, with what belongs to them.       *)
DaysFed(h, k, R, A) ==
    /\ h \in Seq(Event) /\ CausalIn(h, R, A)
    /\ OfKind(h, "trade") = Earlier(k + 1, 1)
    /\ OfKind(h, "resolved") = ResolvedIn({r \in R : DateOf(r) =< ConsumedAt(k)})
    /\ OfKind(h, "actor") = ActorsBy(k, A)

LEMMA DayFacts ==
  ASSUME NEW k \in Days
  PROVE  /\ Len(StreamDays) \in Nat /\ k \in Nat /\ k >= 1
         /\ DOMAIN StreamDays[k] = 1 .. Len(StreamDays[k])
         /\ Len(StreamDays[k]) \in Nat \ {0}
         /\ \A i \in 1 .. Len(StreamDays[k]) :
               /\ StreamDays[k][i] \in Nat
               /\ DateOf(StreamDays[k][i]) = Date(k)
               /\ i > 1 => StreamDays[k][i - 1] <= StreamDays[k][i]
         /\ Date(k) \in Nat
         /\ \A j \in Days : j < k => Date(j) < Date(k)
<1>. DEFINE d == StreamDays[k]
<1>1. Len(StreamDays) \in Nat /\ k \in Nat /\ k >= 1 /\ d \in Seq(Nat) \ {<<>>}
  BY StreamAssumption DEF Days
<1>2. /\ \A i \in 2 .. Len(d) : d[i - 1] =< d[i]
      /\ \A i \in DOMAIN d : DateOf(d[i]) = Date(k)
      /\ \A j \in 1 .. k - 1 : Date(j) < Date(k)
  BY StreamAssumption
<1>3. \A j \in Days : j < k => j \in 1 .. k - 1
  BY <1>1 DEF Days
<1>. HIDE DEF d
<1>4. Len(d) \in Nat \ {0} /\ DOMAIN d = 1 .. Len(d) /\ \A i \in 1 .. Len(d) : d[i] \in Nat
  BY <1>1
<1>5. \A i \in 1 .. Len(d) : i > 1 => i \in 2 .. Len(d)
  BY <1>4
<1>6. Date(k) \in Nat
  <2>1. d[1] \in Nat
    BY <1>4
  <2>2. DayLength \in Nat \ {0}
    BY StreamAssumption
  <2>3. d[1] \div DayLength \in Nat
    BY <2>1, <2>2, Quotients
  <2>. QED  BY <2>3 DEF Date, DateOf, d
<1>. QED  BY <1>1, <1>2, <1>3, <1>4, <1>5, <1>6 DEF d

(* Dates order seconds.                                                    *)
LEMMA DatesOrder ==
  ASSUME NEW r \in Nat, NEW s \in Nat
  PROVE  /\ DateOf(r) \in Nat
         /\ r <= s => DateOf(r) <= DateOf(s)
         /\ DateOf(r) < DateOf(s) => r < s
<1>1. DayLength \in Nat \ {0}
  BY StreamAssumption
<1>. DEFINE p == r \div DayLength
            q == s \div DayLength
<1>2. p \in Nat /\ q \in Nat /\ (r <= s => p <= q) /\ (s <= r => q <= p)
  BY <1>1, Quotients
<1>. HIDE DEF p, q
<1>. QED  BY <1>2 DEF DateOf, p, q

LEMMA EarlierRow ==
  ASSUME NEW k \in Days, NEW i \in 1 .. Len(StreamDays[k])
  PROVE  /\ Earlier(k, i + 1) = Earlier(k, i) \cup {Trade(k, i)}
         /\ Trade(k, i) \notin Earlier(k, i)
<1>1. k \in Nat /\ i \in Nat /\ i >= 1
  BY DayFacts
<1>2. 1 .. i + 1 - 1 = (1 .. i - 1) \cup {i}
  BY <1>1
<1>. DEFINE past == UNION {{Trade(j, m) : m \in DOMAIN StreamDays[j]} : j \in 1 .. k - 1}
<1>3. \A n : Earlier(k, n) = past \cup {Trade(k, m) : m \in 1 .. n - 1}
  BY DEF Earlier
<1>4. Trade(k, i) \notin past
  <2>. SUFFICES ASSUME NEW j \in 1 .. k - 1, NEW m, Trade(k, i) = Trade(j, m)
                PROVE  FALSE
    OBVIOUS
  <2>1. k = j
    BY DEF Trade
  <2>. QED  BY <1>1, <2>1
<1>. HIDE DEF past
<1>5. {Trade(k, m) : m \in 1 .. i + 1 - 1} = {Trade(k, m) : m \in 1 .. i - 1} \cup {Trade(k, i)}
  BY <1>2
<1>6. \A m \in 1 .. i - 1 : Trade(k, i) # Trade(k, m)
  <2>. SUFFICES ASSUME NEW m \in 1 .. i - 1, Trade(k, i) = Trade(k, m)
                PROVE  FALSE
    OBVIOUS
  <2>1. i = m
    BY DEF Trade
  <2>. QED  BY <1>1, <2>1
<1>. QED  BY <1>3, <1>4, <1>5, <1>6

LEMMA EarlierDay ==
  ASSUME NEW k \in Days
  PROVE  Earlier(k + 1, 1) = Earlier(k, Len(StreamDays[k]) + 1)
<1>. DEFINE Of(j) == {Trade(j, m) : m \in DOMAIN StreamDays[j]}
<1>1. k \in Nat /\ k >= 1 /\ DOMAIN StreamDays[k] = 1 .. Len(StreamDays[k])
      /\ Len(StreamDays[k]) \in Nat
  BY DayFacts
<1>2. 1 .. k + 1 - 1 = (1 .. k - 1) \cup {k} /\ 1 .. 1 - 1 = {}
      /\ Len(StreamDays[k]) + 1 - 1 = Len(StreamDays[k])
  BY <1>1
<1>3. Earlier(k + 1, 1) = UNION {Of(j) : j \in 1 .. k + 1 - 1}
  BY <1>2 DEF Earlier
<1>4. Earlier(k, Len(StreamDays[k]) + 1) = (UNION {Of(j) : j \in 1 .. k - 1}) \cup Of(k)
  BY <1>1, <1>2 DEF Earlier
<1>. HIDE DEF Of
<1>5. UNION {Of(j) : j \in (1 .. k - 1) \cup {k}} = (UNION {Of(j) : j \in 1 .. k - 1}) \cup Of(k)
  OBVIOUS
<1>. QED  BY <1>2, <1>3, <1>4, <1>5

Resolvable(R) == R \in SUBSET Nat /\ IsFiniteSet(R)

LEMMA RowStep ==
  ASSUME NEW R, Resolvable(R), NEW A, NEW k \in Days,
         NEW i \in 1 .. Len(StreamDays[k]), NEW h, NEW left, RowsFed(h, left, k, i - 1, R, A),
         NEW due, due = Due(left, StreamDays[k][i])
  PROVE  RowsFed(h \o InOrder(due) \o <<Trade(k, i)>>, left \ due, k, i, R, A)
<1>. DEFINE s == StreamDays[k][i]
            g == InOrder(due)
            j == h \o g
            U == Upto(k, R)
            t == j \o <<Trade(k, i)>>
<1>1. /\ s \in Nat /\ DateOf(s) = Date(k) /\ k \in Nat /\ i \in Nat
      /\ i - 1 + 1 = i /\ i - 1 < Len(StreamDays[k])
  BY DayFacts
<1>2. /\ h \in Seq(Event) /\ CausalIn(h, R, A) /\ left \subseteq U
      /\ OfKind(h, "trade") = Earlier(k, i)
      /\ OfKind(h, "resolved") = ResolvedIn(U \ left)
      /\ OfKind(h, "actor") = ActorsBy(k, A)
      /\ \A r \in U \ left : r < s
  BY <1>1 DEF RowsFed
<1>3. U \subseteq R /\ R \subseteq Nat /\ IsFiniteSet(R)
  BY DEF Upto, Resolvable
<1>4. due \subseteq left /\ \A r \in left : r \in due <=> r < s
  BY DEF Due
<1>5. due \in SUBSET Nat /\ IsFiniteSet(due)
  <2>1. due \in SUBSET R
    BY <1>2, <1>3, <1>4
  <2>. QED  BY <1>3, <2>1, FS_Subset
<1>6. /\ g \in Seq(Event) /\ IsInjective(g)
      /\ OfKind(g, "resolved") = ResolvedIn(due)
      /\ OfKind(g, "trade") = {} /\ OfKind(g, "actor") = {}
  BY <1>5, InOrderFacts
<1>7. U \ (left \ due) = {r \in R : r < s}
  <2>1. ASSUME NEW r \in U \ (left \ due) PROVE r \in R /\ r < s
    BY <1>2, <1>3, <1>4, <2>1
  <2>2. ASSUME NEW r \in R, r < s PROVE r \in U \ (left \ due)
    <3>1. r \in Nat /\ r <= s
      BY <1>1, <1>3, <2>2
    <3>2. DateOf(r) <= Date(k)
      BY <1>1, <3>1, DatesOrder
    <3>3. r \in U
      BY <2>2, <3>2 DEF Upto
    <3>. QED  BY <1>4, <2>2, <3>3
  <2>. QED  BY <2>1, <2>2
<1>. HIDE DEF g, U, s
<1>8. NoneTwice(h, g)
  <2>1. ResolvedIn(U \ left) \cap ResolvedIn(due) = {}
    <3>1. \A p \in U \ left, q \in due : p # q
      BY <1>4
    <3>2. \A p, q : Resolved(p) = Resolved(q) => p = q
      BY DEF Resolved
    <3>. QED  BY <3>1, <3>2 DEF ResolvedIn
  <2>. QED  BY <1>2, <1>6, <2>1 DEF NoneTwice, Kinds
<1>9. /\ j \in Seq(Event) /\ CausalIn(j, R, A)
      /\ OfKind(j, "trade") = Earlier(k, i)
      /\ OfKind(j, "resolved") = ResolvedIn({r \in R : r < s})
      /\ OfKind(j, "actor") = ActorsBy(k, A)
  <2>1. j \in Seq(Event) /\ CausalIn(j, R, A)
    BY <1>2, <1>6, <1>8, JoinFacts, FeedBetween
  <2>2. \A kind : OfKind(j, kind) = OfKind(h, kind) \cup OfKind(g, kind)
    BY <1>2, <1>6, JoinKinds
  <2>3. ResolvedIn(U \ left) \cup ResolvedIn(due) = ResolvedIn(U \ (left \ due))
    <3>1. (U \ left) \cup due = U \ (left \ due)
      BY <1>2, <1>4
    <3>2. \A P, Q : ResolvedIn(P) \cup ResolvedIn(Q) = ResolvedIn(P \cup Q)
      BY DEF ResolvedIn
    <3>. QED  BY <3>1, <3>2
  <2>. HIDE DEF j
  <2>. QED  BY <1>2, <1>6, <1>7, <2>1, <2>2, <2>3
<1>. HIDE DEF j
<1>10. /\ Earlier(k, i + 1) = Earlier(k, i) \cup {Trade(k, i)}
       /\ Trade(k, i) \notin Earlier(k, i)
  BY EarlierRow
<1>11. /\ t \in Seq(Event) /\ CausalIn(t, R, A)
       /\ OfKind(t, "trade") = Earlier(k, i + 1)
       /\ OfKind(t, "resolved") = ResolvedIn({r \in R : r < s})
       /\ OfKind(t, "actor") = ActorsBy(k, A)
  <2>1. ReadyFor(j, k, i, R, A)
    BY <1>9, <1>10 DEF ReadyFor, s
  <2>2. /\ t \in Seq(Event) /\ CausalIn(t, R, A)
        /\ OfKind(t, "trade") = Earlier(k, i) \cup {Trade(k, i)}
        /\ OfKind(t, "resolved") = OfKind(j, "resolved")
        /\ OfKind(t, "actor") = OfKind(j, "actor")
    BY <1>1, <1>9, <2>1, FeedTrade
  <2>. HIDE DEF t
  <2>. QED  BY <1>9, <1>10, <2>2
<1>12. ASSUME i < Len(StreamDays[k])
       PROVE  \A r \in R : r < s => r < StreamDays[k][i + 1]
  <2>. DEFINE n == i + 1
  <2>1. n \in 1 .. Len(StreamDays[k]) /\ n > 1 /\ n - 1 = i
    BY <1>1, <1>12, DayFacts
  <2>. HIDE DEF n
  <2>2. StreamDays[k][n] \in Nat /\ StreamDays[k][n - 1] <= StreamDays[k][n]
    BY <2>1, DayFacts
  <2>3. s <= StreamDays[k][n]
    BY <2>1, <2>2 DEF s
  <2>4. \A r \in R : r < s => r < StreamDays[k][n]
    BY <1>1, <1>3, <2>2, <2>3
  <2>. QED  BY <2>4 DEF n
<1>. HIDE DEF t
<1>13. left \ due \subseteq Upto(k, R) /\ Upto(k, R) \ (left \ due) = {r \in R : r < s}
  BY <1>2, <1>7 DEF U
<1>14. RowsFed(t, left \ due, k, i, R, A)
  BY <1>11, <1>12, <1>13 DEF RowsFed
<1>. QED  BY <1>14 DEF t, j, g

LEMMA ConsumedBefore ==
  ASSUME NEW k \in Days
  PROVE  /\ ConsumedAt(k) = Date(k)
         /\ ConsumedAt(k - 1) \in Int /\ ConsumedAt(k - 1) < Date(k)
<1>1. k \in Nat /\ k >= 1 /\ Date(k) \in Nat
  BY DayFacts
<1>2. CASE k = 1
  BY <1>1, <1>2 DEF ConsumedAt
<1>3. CASE k # 1
  <2>. DEFINE j == k - 1
  <2>1. j \in Days /\ j < k /\ j # 0
    BY <1>1, <1>3 DEF Days
  <2>. HIDE DEF j
  <2>2. Date(j) \in Nat /\ Date(j) < Date(k)
    BY <2>1, DayFacts
  <2>. QED  BY <1>1, <2>1, <2>2 DEF ConsumedAt, j
<1>. QED  BY <1>2, <1>3

(* The day begins with the actor delta of its date.                        *)
DeltaIn(k, A) == IF Date(k) \in A THEN <<Actor(Date(k))>> ELSE <<>>
PendingIn(k, R) == {r \in R : ConsumedAt(k - 1) < DateOf(r) /\ DateOf(r) =< Date(k)}

LEMMA FirstStep ==
  ASSUME NEW R, Resolvable(R), NEW A, NEW k \in Days, NEW h, DaysFed(h, k - 1, R, A)
  PROVE  RowsFed(h \o DeltaIn(k, A), PendingIn(k, R), k, 0, R, A)
<1>. DEFINE g == DeltaIn(k, A)
            j == h \o g
            P == PendingIn(k, R)
            c == ConsumedAt(k - 1)
<1>1. /\ k \in Nat /\ k >= 1 /\ Date(k) \in Nat /\ c \in Int /\ c < Date(k)
      /\ k - 1 + 1 = k /\ 0 + 1 = 1
      /\ 1 \in 1 .. Len(StreamDays[k])
      /\ StreamDays[k][1] \in Nat /\ DateOf(StreamDays[k][1]) = Date(k)
  <2>1. 1 \in 1 .. Len(StreamDays[k])
    BY DayFacts
  <2>. QED  BY <2>1, DayFacts, ConsumedBefore
<1>2. /\ h \in Seq(Event) /\ CausalIn(h, R, A)
      /\ OfKind(h, "trade") = Earlier(k, 1)
      /\ OfKind(h, "resolved") = ResolvedIn({r \in R : DateOf(r) =< c})
      /\ OfKind(h, "actor") = ActorsBy(k - 1, A)
  BY <1>1 DEF DaysFed
<1>3. /\ g \in Seq(Event) /\ IsInjective(g)
      /\ OfKind(g, "trade") = {} /\ OfKind(g, "resolved") = {}
      /\ OfKind(g, "actor") = IF Date(k) \in A THEN {Actor(Date(k))} ELSE {}
  <2>1. CASE Date(k) \in A
    <3>. DEFINE e == Actor(Date(k))
    <3>1. e \in Event /\ e[1] = "actor"
      BY <1>1 DEF Actor, Event, Kinds
    <3>2. g = <<e>>
      BY <2>1 DEF DeltaIn
    <3>. HIDE DEF e, g
    <3>3. g \in Seq(Event) /\ DOMAIN g = 1 .. 1 /\ g[1] = e
      BY <3>1, <3>2
    <3>4. IsInjective(g) /\ OfKind(g, "trade") = {} /\ OfKind(g, "resolved") = {}
          /\ OfKind(g, "actor") = {e}
      BY <3>1, <3>3 DEF OfKind, IsInjective
    <3>. QED  BY <2>1, <3>3, <3>4 DEF e
  <2>2. CASE Date(k) \notin A
    <3>1. g = <<>>
      BY <2>2 DEF DeltaIn
    <3>. HIDE DEF g
    <3>. QED  BY <2>2, <3>1 DEF OfKind, IsInjective
  <2>. QED  BY <2>1, <2>2
<1>4. /\ ActorsBy(k - 1, A) \cap OfKind(g, "actor") = {}
      /\ ActorsBy(k - 1, A) \cup OfKind(g, "actor") = ActorsBy(k, A)
  <2>1. \A i \in 1 .. k - 1 : Date(i) < Date(k) /\ Date(i) \in Nat
    <3>1. \A i \in 1 .. k - 1 : i \in Days /\ i < k
      BY <1>1, DayFacts DEF Days
    <3>. QED  BY <3>1, DayFacts
  <2>2. \A i \in 1 .. k - 1 : Actor(Date(i)) # Actor(Date(k))
    BY <1>1, <2>1 DEF Actor
  <2>3. 1 .. k = (1 .. k - 1) \cup {k}
    BY <1>1
  <2>4. ActorsBy(k, A) = ActorsBy(k - 1, A) \cup (IF Date(k) \in A THEN {Actor(Date(k))} ELSE {})
    BY <2>3 DEF ActorsBy
  <2>5. Actor(Date(k)) \notin ActorsBy(k - 1, A)
    BY <2>2 DEF ActorsBy
  <2>. HIDE DEF g
  <2>. QED  BY <1>3, <2>4, <2>5
<1>. HIDE DEF g, P, c
<1>5. NoneTwice(h, g)
  BY <1>2, <1>3, <1>4 DEF NoneTwice, Kinds
<1>6. j \in Seq(Event) /\ CausalIn(j, R, A)
  BY <1>2, <1>3, <1>5, JoinFacts, FeedBetween
<1>7. \A kind : OfKind(j, kind) = OfKind(h, kind) \cup OfKind(g, kind)
  BY <1>2, <1>3, JoinKinds
<1>8. /\ P \subseteq Upto(k, R)
      /\ Upto(k, R) \ P = {r \in R : DateOf(r) =< c}
  <2>1. \A r \in R : DateOf(r) \in Nat
    BY DatesOrder DEF Resolvable
  <2>2. \A r \in R : r \in P <=> c < DateOf(r) /\ DateOf(r) =< Date(k)
    BY DEF P, PendingIn, c
  <2>3. \A r \in R : DateOf(r) =< c => DateOf(r) =< Date(k) /\ ~(c < DateOf(r))
    BY <1>1, <2>1
  <2>4. \A r \in R : ~(c < DateOf(r)) => DateOf(r) =< c
    BY <1>1, <2>1
  <2>5. P \subseteq R
    BY DEF P, PendingIn
  <2>. QED  BY <2>2, <2>3, <2>4, <2>5 DEF Upto
<1>9. ASSUME NEW r \in Upto(k, R) \ P
      PROVE  r < StreamDays[k][1]
  <2>1. r \in Nat /\ DateOf(r) =< c
    BY <1>8 DEF Upto, Resolvable
  <2>2. DateOf(r) < DateOf(StreamDays[k][1])
    <3>1. DateOf(r) \in Nat
      BY <2>1, DatesOrder
    <3>. QED  BY <1>1, <2>1, <3>1
  <2>. QED  BY <1>1, <2>1, <2>2, DatesOrder
<1>. HIDE DEF j
<1>10. /\ OfKind(j, "trade") = Earlier(k, 0 + 1)
       /\ OfKind(j, "resolved") = ResolvedIn(Upto(k, R) \ P)
       /\ OfKind(j, "actor") = ActorsBy(k, A)
  BY <1>1, <1>2, <1>3, <1>4, <1>7, <1>8
<1>11. \A r \in Upto(k, R) \ P : r < StreamDays[k][0 + 1]
  BY <1>1, <1>9
<1>12. RowsFed(j, P, k, 0, R, A)
  BY <1>6, <1>8, <1>10, <1>11 DEF RowsFed
<1>. QED  BY <1>12 DEF j, g, P

LEMMA LastStep ==
  ASSUME NEW R, Resolvable(R), NEW A, NEW k \in Days, NEW h, NEW left,
         RowsFed(h, left, k, Len(StreamDays[k]), R, A)
  PROVE  DaysFed(h \o InOrder(left), k, R, A)
<1>. DEFINE g == InOrder(left)
            j == h \o g
            U == Upto(k, R)
<1>1. /\ h \in Seq(Event) /\ CausalIn(h, R, A) /\ left \subseteq U
      /\ OfKind(h, "trade") = Earlier(k + 1, 1)
      /\ OfKind(h, "resolved") = ResolvedIn(U \ left)
      /\ OfKind(h, "actor") = ActorsBy(k, A)
  BY EarlierDay DEF RowsFed
<1>2. left \in SUBSET Nat /\ IsFiniteSet(left)
  <2>1. left \in SUBSET R /\ R \in SUBSET Nat /\ IsFiniteSet(R)
    BY <1>1 DEF Upto, Resolvable
  <2>. QED  BY <2>1, FS_Subset
<1>3. /\ g \in Seq(Event) /\ IsInjective(g)
      /\ OfKind(g, "resolved") = ResolvedIn(left)
      /\ OfKind(g, "trade") = {} /\ OfKind(g, "actor") = {}
  BY <1>2, InOrderFacts
<1>4. U = {r \in R : DateOf(r) =< ConsumedAt(k)}
  BY ConsumedBefore DEF Upto
<1>. HIDE DEF g, U
<1>5. /\ ResolvedIn(U \ left) \cap ResolvedIn(left) = {}
      /\ ResolvedIn(U \ left) \cup ResolvedIn(left) = ResolvedIn(U)
  <2>1. \A p, q : Resolved(p) = Resolved(q) => p = q
    BY DEF Resolved
  <2>. QED  BY <1>1, <2>1 DEF ResolvedIn
<1>6. NoneTwice(h, g)
  BY <1>1, <1>3, <1>5 DEF NoneTwice, Kinds
<1>7. j \in Seq(Event) /\ CausalIn(j, R, A)
  BY <1>1, <1>3, <1>6, JoinFacts, FeedBetween
<1>8. \A kind : OfKind(j, kind) = OfKind(h, kind) \cup OfKind(g, kind)
  BY <1>1, <1>3, JoinKinds
<1>. HIDE DEF j
<1>9. DaysFed(j, k, R, A)
  BY <1>1, <1>3, <1>4, <1>5, <1>7, <1>8 DEF DaysFed
<1>. QED  BY <1>9 DEF j, g

(* The recursion over the rows.                                            *)
Progress(P) == [events : Seq(Event), left : SUBSET P]
RowsTaken(f, k, P) ==
    /\ f \in [0 .. Len(StreamDays[k]) -> Progress(P)]
    /\ f[0] = [events |-> <<>>, left |-> P]
    /\ \A i \in 1 .. Len(StreamDays[k]) : f[i] = TakeRow(k, i, f[i - 1])
    /\ Fed(k, P) = f[Len(StreamDays[k])].events \o InOrder(f[Len(StreamDays[k])].left)

LEMMA TakeRowFacts ==
  ASSUME NEW k \in Days, NEW P, Resolvable(P), NEW i \in 1 .. Len(StreamDays[k]),
         NEW q \in Progress(P)
  PROVE  /\ TakeRow(k, i, q) \in Progress(P)
         /\ InOrder(Due(q.left, StreamDays[k][i])) \in Seq(Event)
         /\ <<Trade(k, i)>> \in Seq(Event)
<1>. DEFINE due == Due(q.left, StreamDays[k][i])
<1>1. q.events \in Seq(Event) /\ q.left \subseteq P /\ due \subseteq q.left
  BY DEF Progress, Due
<1>2. due \in SUBSET Nat /\ IsFiniteSet(due)
  <2>1. due \in SUBSET P
    BY <1>1
  <2>. QED  BY <2>1, FS_Subset DEF Resolvable
<1>3. InOrder(due) \in Seq(Event)
  BY <1>2, InOrderFacts
<1>4. <<Trade(k, i)>> \in Seq(Event)
  <2>1. Trade(k, i) \in Event
    BY DayFacts DEF Trade, Event, Kinds
  <2>. QED  BY <2>1
<1>. DEFINE a == q.events \o InOrder(due)
            e == a \o <<Trade(k, i)>>
<1>5. e \in Seq(Event)
  <2>1. a \in Seq(Event)
    BY <1>1, <1>3, JoinFacts
  <2>. HIDE DEF a
  <2>. QED  BY <1>4, <2>1, JoinFacts
<1>6. TakeRow(k, i, q) = [events |-> e, left |-> q.left \ due]
  BY DEF TakeRow
<1>7. q.left \ due \in SUBSET P
  BY <1>1
<1>8. TakeRow(k, i, q) \in Progress(P)
  <2>. HIDE DEF e
  <2>. QED  BY <1>5, <1>6, <1>7 DEF Progress
<1>. QED  BY <1>3, <1>4, <1>8

LEMMA RowTaken ==
  ASSUME NEW R, Resolvable(R), NEW A, NEW k \in Days, NEW P, Resolvable(P),
         NEW i \in 1 .. Len(StreamDays[k]), NEW q \in Progress(P), NEW b \in Seq(Event),
         RowsFed(b \o q.events, q.left, k, i - 1, R, A),
         NEW n, n = TakeRow(k, i, q)
  PROVE  RowsFed(b \o n.events, n.left, k, i, R, A)
<1>. DEFINE due == Due(q.left, StreamDays[k][i])
            e == q.events
            g == InOrder(due)
            t == <<Trade(k, i)>>
<1>1. /\ n.events = e \o g \o t /\ n.left = q.left \ due
      /\ g \in Seq(Event) /\ t \in Seq(Event)
  <2>1. n.events = e \o g \o t /\ n.left = q.left \ due
    BY DEF TakeRow
  <2>2. g \in Seq(Event) /\ t \in Seq(Event)
    <3>. HIDE DEF e
    <3>. QED  BY TakeRowFacts
  <2>. QED  BY <2>1, <2>2
<1>2. e \in Seq(Event)
  BY DEF Progress
<1>3. RowsFed(b \o e \o g \o t, q.left \ due, k, i, R, A)
  <2>. HIDE DEF due
  <2>1. due = Due(q.left, StreamDays[k][i])
    BY DEF due
  <2>. QED  BY <2>1, RowStep
<1>. HIDE DEF e, g, t
<1>4. b \o e \o g \o t = b \o (e \o g \o t)
  <2>1. b \o e \o g = b \o (e \o g)
    BY <1>1, <1>2, JoinThree
  <2>. DEFINE eg == e \o g
  <2>2. eg \in Seq(Event)
    BY <1>1, <1>2, JoinFacts
  <2>. HIDE DEF eg
  <2>3. b \o eg \o t = b \o (eg \o t)
    BY <1>1, <2>2, JoinThree
  <2>. QED  BY <2>1, <2>3 DEF eg
<1>. QED  BY <1>1, <1>3, <1>4

LEMMA RowsAreTaken ==
  ASSUME NEW k \in Days, NEW P, Resolvable(P)
  PROVE  \E f : RowsTaken(f, k, P)
<1>. DEFINE N == Len(StreamDays[k])
            S == Progress(P)
            base == [events |-> <<>>, left |-> P]
            step == [q \in (1 .. N) \X S |-> TakeRow(k, q[1], q[2])]
            Body(f) == [i \in 0 .. N |-> IF i = 0 THEN base ELSE TakeRow(k, i, f[i - 1])]
<1>1. N \in Nat /\ base \in S
  BY DayFacts DEF Progress
<1>2. \A i \in 1 .. N, q \in S : TakeRow(k, i, q) \in S
  BY TakeRowFacts
<1>. HIDE DEF S, N, base
<1>3. step \in StepsIn(S, N)
  BY <1>2 DEF StepsIn
<1>4. \A i \in 1 .. N, q \in S : step[<<i, q>>] = TakeRow(k, i, q)
  OBVIOUS
<1>. HIDE DEF step
<1>5. PICK f \in [0 .. N -> S] : Follows(f, base, step, N)
  BY <1>1, <1>3, StepsExist
<1>6. \A i \in 0 .. N : i = 0 \/ (i \in 1 .. N /\ i - 1 \in 0 .. N /\ f[i - 1] \in S)
  BY <1>1, <1>5
<1>7. \A i \in 0 .. N : f[i] = IF i = 0 THEN base ELSE TakeRow(k, i, f[i - 1])
  BY <1>4, <1>5, <1>6 DEF Follows
<1>8. f = Body(f)
  BY <1>5, <1>7
<1>. DEFINE F == CHOOSE h : h = Body(h)
<1>9. F = Body(F)
  <2>. HIDE DEF Body
  <2>. QED  BY <1>8
<1>10. Fed(k, P) = F[N].events \o InOrder(F[N].left)
  BY DEF Fed, N, base
<1>. HIDE DEF F
<1>11. F[0] = base /\ \A i \in 1 .. N : F[i] = TakeRow(k, i, F[i - 1])
  <2>1. 0 \in 0 .. N /\ \A i \in 1 .. N : i \in 0 .. N /\ i # 0
    BY <1>1
  <2>2. \A i \in 0 .. N : F[i] = IF i = 0 THEN base ELSE TakeRow(k, i, F[i - 1])
    BY <1>9
  <2>. QED  BY <2>1, <2>2
<1>12. \A i \in 0 .. N : F[i] \in S
  <2>. DEFINE T == {i \in 0 .. N : F[i] \in S}
  <2>1. 0 \in T
    BY <1>1, <1>11
  <2>2. \A i \in 1 .. N : i - 1 \in T => i \in T
    BY <1>2, <1>11
  <2>. HIDE DEF T
  <2>3. \A i \in 0 .. N : i \in T
    BY <1>1, <2>1, <2>2, UpTo
  <2>. QED  BY <2>3 DEF T
<1>13. F \in [0 .. N -> S]
  BY <1>9, <1>12
<1>14. RowsTaken(F, k, P)
  BY <1>10, <1>11, <1>13 DEF RowsTaken, N, S, base
<1>. QED  BY <1>14

(* A day that is fed after all the days before it leaves all days fed.     *)
LEMMA DayStep ==
  ASSUME NEW R, Resolvable(R), NEW A, NEW k \in Days, NEW h, DaysFed(h, k - 1, R, A)
  PROVE  DaysFed(h \o DeltaIn(k, A) \o Fed(k, PendingIn(k, R)), k, R, A)
<1>. DEFINE P == PendingIn(k, R)
            N == Len(StreamDays[k])
            b == h \o DeltaIn(k, A)
<1>1. RowsFed(b, P, k, 0, R, A)
  BY FirstStep
<1>2. Resolvable(P)
  <2>1. P \in SUBSET R
    BY DEF PendingIn
  <2>. QED  BY <2>1, FS_Subset DEF Resolvable
<1>3. PICK f : RowsTaken(f, k, P)
  BY <1>2, RowsAreTaken
<1>4. b \in Seq(Event) /\ N \in Nat
  BY <1>1, DayFacts DEF RowsFed
<1>. HIDE DEF P, N, b
<1>5. /\ \A i \in 0 .. N : f[i] \in Progress(P)
      /\ f[0] = [events |-> <<>>, left |-> P]
      /\ \A i \in 1 .. N : f[i] = TakeRow(k, i, f[i - 1])
      /\ Fed(k, P) = f[N].events \o InOrder(f[N].left)
  BY <1>3 DEF RowsTaken, N
<1>. DEFINE T == {i \in 0 .. N : RowsFed(b \o f[i].events, f[i].left, k, i, R, A)}
<1>6. 0 \in T
  <2>1. f[0].events = <<>> /\ f[0].left = P
    BY <1>5
  <2>2. b \o <<>> = b
    BY <1>4, JoinNothing
  <2>3. RowsFed(b \o f[0].events, f[0].left, k, 0, R, A)
    BY <1>1, <2>1, <2>2
  <2>. QED  BY <1>4, <2>3
<1>7. ASSUME NEW i \in 1 .. N, i - 1 \in T
      PROVE  i \in T
  <2>. DEFINE q == f[i - 1]
  <2>1. q \in Progress(P) /\ f[i] = TakeRow(k, i, q) /\ i \in 1 .. Len(StreamDays[k])
    BY <1>4, <1>5, <1>7 DEF N
  <2>2. RowsFed(b \o q.events, q.left, k, i - 1, R, A)
    BY <1>7
  <2>. HIDE DEF q, T
  <2>3. RowsFed(b \o f[i].events, f[i].left, k, i, R, A)
    BY <1>2, <1>4, <2>1, <2>2, RowTaken
  <2>. QED  BY <1>4, <2>3 DEF T
<1>. HIDE DEF T
<1>8. N \in 0 .. N /\ \A i \in 0 .. N : i \in T
  BY <1>4, <1>6, <1>7, UpTo
<1>. DEFINE e == f[N].events
            g == InOrder(f[N].left)
<1>9. RowsFed(b \o e, f[N].left, k, N, R, A)
  BY <1>8 DEF T
<1>10. DaysFed(b \o e \o g, k, R, A)
  BY <1>9, LastStep DEF N
<1>11. e \in Seq(Event) /\ g \in Seq(Event)
  <2>1. f[N] \in Progress(P)
    BY <1>5, <1>8
  <2>2. f[N].left \in SUBSET P /\ f[N].events \in Seq(Event)
    BY <2>1 DEF Progress
  <2>3. f[N].left \in SUBSET Nat /\ IsFiniteSet(f[N].left)
    BY <1>2, <2>2, FS_Subset DEF Resolvable
  <2>. QED  BY <2>2, <2>3, InOrderFacts
<1>12. Fed(k, P) = e \o g
  BY <1>5
<1>. HIDE DEF e, g
<1>13. b \o e \o g = b \o (e \o g)
  BY <1>4, <1>11, JoinThree
<1>. QED  BY <1>10, <1>12, <1>13 DEF b, P

(***************************************************************************)
(* What a build keeps, whatever stops it.                                  *)
(***************************************************************************)
FedOf(h, k) == DaysFed(h, k, resolutions, actors)

(* The days the state has behind it, when a day is begun.                  *)
Behind == IF dated > at - 1 THEN dated ELSE at - 1

ShardsFed == \A k \in DOMAIN shards : k \in Days /\ FedOf(shards[k], k)
ReceiptsMatch == \A k \in DOMAIN receipts : k \in DOMAIN shards /\ receipts[k] = shards[k]
LatestFed == latest = NoLatest \/ (latest.day \in Days /\ FedOf(latest.content, latest.day))

InDayStages == {"shard", "receipt", "between", "latest"}
Going == stage \in InDayStages \cup {"day", "lastLatest"} =>
            limit \in Days /\ dated \in 0 .. limit /\ at \in 1 .. limit + 1
BetweenDays == stage = "day" =>
    /\ FedOf(state, Behind) /\ consumed = ConsumedAt(Behind)
    /\ at > 1 => lastDay = at - 1
WithinDay == stage \in InDayStages =>
    /\ at =< limit /\ dated < at
    /\ FedOf(state, at) /\ consumed = ConsumedAt(at)
    /\ stage = "receipt" => at \in DOMAIN shards
    /\ stage \in {"between", "latest"} => lastDay = at
AtTheEnd == stage = "lastLatest" => lastDay \in Days /\ FedOf(state, lastDay)

FeatureInv ==
    /\ resolutions \in Resolutions /\ stage \in Locations
    /\ ~ shrunk => /\ ShardsFed /\ ReceiptsMatch /\ LatestFed
                   /\ Going /\ BetweenDays /\ WithinDay /\ AtTheEnd

LEMMA NothingFed ==
  ASSUME resolutions \in Resolutions
  PROVE  FedOf(<<>>, 0)
<1>1. <<>> \in Seq(Event) /\ CausalIn(<<>>, resolutions, actors)
  BY DEF CausalIn, IsInjective
<1>2. \A kind : OfKind(<<>>, kind) = {}
  BY DEF OfKind
<1>3. Earlier(0 + 1, 1) = {}
  BY DEF Earlier
<1>4. ResolvedIn({r \in resolutions : DateOf(r) =< ConsumedAt(0)}) = {}
  <2>1. resolutions \in SUBSET Nat
    BY StreamAssumption
  <2>2. \A r \in resolutions : DateOf(r) \in Nat
    BY <2>1, DatesOrder
  <2>3. \A r \in resolutions : ~ (DateOf(r) =< ConsumedAt(0))
    BY <2>2 DEF ConsumedAt
  <2>. QED  BY <2>3 DEF ResolvedIn
<1>5. ActorsBy(0, actors) = {}
  BY DEF ActorsBy
<1>. QED  BY <1>1, <1>2, <1>3, <1>4, <1>5 DEF FedOf, DaysFed

LEMMA ProcessedFed ==
  ASSUME resolutions \in Resolutions, NEW k \in Days,
         FedOf(state, k - 1), consumed = ConsumedAt(k - 1)
  PROVE  FedOf(Processed(k), k)
<1>1. Resolvable(resolutions)
  BY StreamAssumption DEF Resolvable
<1>2. Delta(k) = DeltaIn(k, actors) /\ Pending(k) = PendingIn(k, resolutions)
  BY DEF Delta, DeltaIn, Pending, PendingIn
<1>3. DaysFed(state \o DeltaIn(k, actors) \o Fed(k, PendingIn(k, resolutions)),
              k, resolutions, actors)
  BY <1>1, DayStep DEF FedOf
<1>. QED  BY <1>2, <1>3 DEF FedOf, Processed

LEMMA FeatureInitHolds ==
  ASSUME FeatureInit
  PROVE  FeatureInv
<1>1. DOMAIN shards = {} /\ DOMAIN receipts = {}
  BY DEF FeatureInit
<1>2. resolutions \in Resolutions /\ stage = "idle" /\ latest = NoLatest
  BY DEF FeatureInit
<1>. QED  BY <1>1, <1>2 DEF FeatureInv, Locations, ShardsFed, ReceiptsMatch, LatestFed,
             Going, BetweenDays, WithinDay, AtTheEnd, InDayStages

LEMMA DayNumbers ==
  ASSUME NEW l \in Days
  PROVE  /\ Len(StreamDays) \in Nat /\ l \in Nat /\ l >= 1 /\ l <= Len(StreamDays)
         /\ \A k \in 1 .. l : k \in Days
<1>1. Len(StreamDays) \in Nat
  BY StreamAssumption
<1>. QED  BY <1>1 DEF Days

(* Steps that change nothing on disk and nothing of the schedules.         *)
LEMMA DiskKept ==
  ASSUME FeatureInv, UNCHANGED <<schedules, disk>>, ~ shrunk
  PROVE  ShardsFed' /\ ReceiptsMatch' /\ LatestFed'
<1>1. /\ resolutions' = resolutions /\ actors' = actors /\ shards' = shards
      /\ receipts' = receipts /\ latest' = latest
  BY DEF schedules, disk
<1>. QED  BY <1>1 DEF FeatureInv, ShardsFed, ReceiptsMatch, LatestFed, FedOf

LEMMA BeginBuildKeeps ==
  ASSUME FeatureInv, NEW l \in Limits, BeginBuild(l)
  PROVE  FeatureInv'
<1>1. /\ UNCHANGED <<schedules, disk>> /\ resolutions' = resolutions /\ actors' = actors
      /\ stage' \in {"refused", "day"} /\ limit' = l /\ at' = 1
  BY DEF BeginBuild, schedules
<1>2. resolutions' \in Resolutions /\ stage' \in Locations
  BY <1>1 DEF FeatureInv, Locations
<1>3. ASSUME ~ shrunk'
      PROVE  ShardsFed' /\ ReceiptsMatch' /\ LatestFed'
             /\ Going' /\ BetweenDays' /\ WithinDay' /\ AtTheEnd'
  <2>1. ~ shrunk /\ (stage' = "day" => ~ (l < latest.day))
    BY <1>3 DEF BeginBuild
  <2>2. ShardsFed' /\ ReceiptsMatch' /\ LatestFed'
    BY <1>1, <2>1, DiskKept
  <2>3. WithinDay' /\ AtTheEnd'
    BY <1>1 DEF WithinDay, AtTheEnd, InDayStages
  <2>4. l \in Days /\ l \in Nat
    BY StreamAssumption, DayNumbers
  <2>5. CASE stage' = "refused"
    BY <2>2, <2>3, <2>5 DEF Going, BetweenDays, InDayStages
  <2>6. CASE stage' = "day"
    <3>1. /\ ~ Torn /\ dated' = latest.day /\ consumed' = ConsumedAt(latest.day)
          /\ state' = (IF latest = NoLatest THEN <<>> ELSE arrays)
      BY <2>6 DEF BeginBuild
    <3>2. dated' \in 0 .. l /\ FedOf(state', dated')
      <4>1. CASE latest = NoLatest
        <5>1. dated' = 0 /\ state' = <<>>
          BY <3>1, <4>1 DEF NoLatest
        <5>. QED  BY <2>4, <5>1, NothingFed DEF FeatureInv
      <4>2. CASE latest # NoLatest
        <5>1. latest.day \in Days /\ FedOf(latest.content, latest.day)
          BY <2>1, <4>2 DEF FeatureInv, LatestFed
        <5>2. state' = latest.content
          BY <3>1, <4>2 DEF Torn
        <5>3. latest.day \in Nat /\ latest.day =< l
          <6>1. latest.day \in Nat
            BY <5>1 DEF Days
          <6>. QED  BY <2>1, <2>4, <2>6, <6>1
        <5>. QED  BY <2>4, <3>1, <5>1, <5>2, <5>3
      <4>. QED  BY <4>1, <4>2
    <3>3. Behind' = dated'
      BY <1>1, <2>4, <3>2 DEF Behind
    <3>4. BetweenDays'
      BY <1>1, <3>1, <3>2, <3>3 DEF BetweenDays, FedOf
    <3>5. Going'
      BY <1>1, <2>4, <3>2 DEF Going
    <3>. QED  BY <2>2, <2>3, <3>4, <3>5
  <2>. QED  BY <1>1, <2>5, <2>6
<1>. QED  BY <1>2, <1>3 DEF FeatureInv

(* What a step of the work finds.                                          *)
LEMMA WorkFacts ==
  ASSUME FeatureInv, ~ shrunk, stage \in InDayStages \cup {"day", "lastLatest"}
  PROVE  /\ limit \in Days /\ limit \in Nat /\ limit >= 1
         /\ dated \in Nat /\ dated <= limit
         /\ at \in Nat /\ at >= 1 /\ at <= limit + 1
         /\ at <= limit => at \in Days
<1>1. limit \in Days /\ dated \in 0 .. limit /\ at \in 1 .. limit + 1
  BY DEF FeatureInv, Going
<1>2. limit \in Nat /\ limit >= 1
  BY <1>1, DayNumbers
<1>3. at <= limit => at \in 1 .. limit
  BY <1>1, <1>2
<1>. QED  BY <1>1, <1>2, <1>3, DayNumbers

LEMMA SkipKeeps ==
  ASSUME FeatureInv, SkipDay, ~ shrunk
  PROVE  FeatureInv'
<1>1. /\ stage = "day" /\ at =< limit /\ at =< dated
      /\ UNCHANGED <<schedules, disk>> /\ resolutions' = resolutions /\ actors' = actors
      /\ UNCHANGED <<limit, state, dated, consumed, shrunk>>
      /\ \/ stage' = "day" /\ at' = at + 1 /\ lastDay' = at
         \/ stage' = "refused"
  BY DEF SkipDay, InDay, schedules
<1>2. ShardsFed' /\ ReceiptsMatch' /\ LatestFed'
  BY <1>1, DiskKept
<1>3. resolutions' \in Resolutions /\ stage' \in Locations
  BY <1>1 DEF FeatureInv, Locations
<1>4. WithinDay' /\ AtTheEnd'
  BY <1>1 DEF WithinDay, AtTheEnd, InDayStages
<1>5. Going' /\ BetweenDays'
  <2>1. CASE stage' = "refused"
    BY <2>1 DEF Going, BetweenDays, InDayStages
  <2>2. CASE stage' = "day" /\ at' = at + 1 /\ lastDay' = at
    <3>1. /\ limit \in Days /\ limit \in Nat /\ at \in Nat /\ at >= 1
          /\ dated \in Nat /\ dated <= limit
      BY <1>1, WorkFacts
    <3>2. Behind = dated /\ Behind' = dated
      BY <1>1, <2>2, <3>1 DEF Behind
    <3>3. FedOf(state, dated) /\ consumed = ConsumedAt(dated)
      BY <1>1, <3>2 DEF FeatureInv, BetweenDays
    <3>4. BetweenDays'
      BY <1>1, <2>2, <3>1, <3>2, <3>3 DEF BetweenDays, FedOf
    <3>5. Going'
      BY <1>1, <2>2, <3>1 DEF Going
    <3>. QED  BY <3>4, <3>5
  <2>. QED  BY <1>1, <2>1, <2>2
<1>. QED  BY <1>2, <1>3, <1>4, <1>5 DEF FeatureInv

(* A day is fed, whether its features are emitted or its receipt is there. *)
LEMMA FeedKeeps ==
  ASSUME FeatureInv, ReplayDay \/ EmitDay, ~ shrunk
  PROVE  FeatureInv'
<1>1. /\ stage = "day" /\ at =< limit /\ at > dated
      /\ UNCHANGED <<schedules, disk>> /\ resolutions' = resolutions /\ actors' = actors
      /\ UNCHANGED <<limit, at, dated, shrunk>>
      /\ state' = Processed(at) /\ consumed' = Date(at)
      /\ \/ stage' = "between" /\ lastDay' = at
         \/ stage' = "shard"
  BY DEF ReplayDay, EmitDay, InDay, schedules
<1>2. ShardsFed' /\ ReceiptsMatch' /\ LatestFed'
  BY <1>1, DiskKept
<1>3. resolutions' \in Resolutions /\ stage' \in Locations
  BY <1>1 DEF FeatureInv, Locations
<1>4. BetweenDays' /\ AtTheEnd'
  BY <1>1 DEF BetweenDays, AtTheEnd
<1>5. /\ limit \in Days /\ limit \in Nat /\ at \in Nat /\ at >= 1
      /\ dated \in Nat /\ dated <= limit /\ at \in Days
  BY <1>1, WorkFacts
<1>6. Behind = at - 1
  BY <1>1, <1>5 DEF Behind
<1>7. FedOf(Processed(at), at) /\ Date(at) = ConsumedAt(at)
  <2>1. FedOf(state, at - 1) /\ consumed = ConsumedAt(at - 1)
    BY <1>1, <1>6 DEF FeatureInv, BetweenDays
  <2>. QED  BY <1>5, <2>1, ProcessedFed, ConsumedBefore DEF FeatureInv
<1>8. WithinDay'
  <2>1. dated' < at' /\ at' =< limit'
    BY <1>1, <1>5
  <2>2. FedOf(state, at)' /\ consumed' = ConsumedAt(at)'
    BY <1>1, <1>7 DEF FedOf
  <2>. QED  BY <1>1, <2>1, <2>2 DEF WithinDay
<1>9. Going'
  BY <1>1, <1>5 DEF Going
<1>. QED  BY <1>2, <1>3, <1>4, <1>8, <1>9 DEF FeatureInv

LEMMA WriteDayKeeps ==
  ASSUME FeatureInv, WriteDay, ~ shrunk
  PROVE  FeatureInv'
<1>1. /\ stage = "shard" /\ resolutions' = resolutions /\ actors' = actors
      /\ UNCHANGED <<limit, at, state, dated, lastDay, consumed, shrunk>>
      /\ receipts' = receipts /\ latest' = latest
      /\ \/ stage' = "refused" /\ shards' = shards
         \/ at \notin DOMAIN shards /\ stage' = "receipt" /\ shards' = With(shards, at, state)
  BY DEF WriteDay, schedules, memory
<1>2. resolutions' \in Resolutions /\ stage' \in Locations
  BY <1>1 DEF FeatureInv, Locations
<1>3. BetweenDays' /\ AtTheEnd'
  BY <1>1 DEF BetweenDays, AtTheEnd
<1>4. LatestFed'
  BY <1>1 DEF FeatureInv, LatestFed, FedOf
<1>5. CASE stage' = "refused"
  BY <1>1, <1>2, <1>3, <1>4, <1>5
  DEF FeatureInv, ShardsFed, ReceiptsMatch, FedOf, Going, WithinDay, InDayStages
<1>6. CASE /\ at \notin DOMAIN shards /\ stage' = "receipt"
           /\ shards' = With(shards, at, state)
  <2>1. /\ at =< limit /\ dated < at /\ FedOf(state, at) /\ consumed = ConsumedAt(at)
    BY <1>1 DEF FeatureInv, WithinDay, InDayStages
  <2>2. at \in Days
    BY <1>1, <2>1, WorkFacts DEF InDayStages
  <2>3. /\ DOMAIN shards' = DOMAIN shards \cup {at}
        /\ shards'[at] = state
        /\ \A k \in DOMAIN shards : shards'[k] = shards[k]
    BY <1>6 DEF With
  <2>4. ShardsFed'
    BY <1>1, <2>1, <2>2, <2>3 DEF FeatureInv, ShardsFed, FedOf
  <2>5. ReceiptsMatch'
    BY <1>1, <2>3 DEF FeatureInv, ReceiptsMatch
  <2>6. WithinDay'
    BY <1>1, <1>6, <2>1, <2>3 DEF WithinDay, FedOf
  <2>7. Going'
    BY <1>1 DEF FeatureInv, Going, InDayStages
  <2>. QED  BY <1>2, <1>3, <1>4, <2>4, <2>5, <2>6, <2>7 DEF FeatureInv
<1>. QED  BY <1>1, <1>5, <1>6

LEMMA WriteReceiptKeeps ==
  ASSUME FeatureInv, WriteReceipt, ~ shrunk
  PROVE  FeatureInv'
<1>1. /\ stage = "receipt" /\ stage' = "between"
      /\ resolutions' = resolutions /\ actors' = actors
      /\ UNCHANGED <<limit, at, state, dated, consumed, shrunk>>
      /\ shards' = shards /\ latest' = latest
      /\ receipts' = With(receipts, at, shards[at]) /\ lastDay' = at
  BY DEF WriteReceipt, schedules
<1>2. resolutions' \in Resolutions /\ stage' \in Locations
  BY <1>1 DEF FeatureInv, Locations
<1>3. BetweenDays' /\ AtTheEnd'
  BY <1>1 DEF BetweenDays, AtTheEnd
<1>4. LatestFed' /\ ShardsFed'
  BY <1>1 DEF FeatureInv, LatestFed, ShardsFed, FedOf
<1>5. /\ at =< limit /\ dated < at /\ FedOf(state, at) /\ consumed = ConsumedAt(at)
      /\ at \in DOMAIN shards
  BY <1>1 DEF FeatureInv, WithinDay, InDayStages
<1>6. ReceiptsMatch'
  <2>1. /\ DOMAIN receipts' = DOMAIN receipts \cup {at}
        /\ receipts'[at] = shards[at]
        /\ \A k \in DOMAIN receipts : k # at => receipts'[k] = receipts[k]
    BY <1>1 DEF With
  <2>. QED  BY <1>1, <1>5, <2>1 DEF FeatureInv, ReceiptsMatch
<1>7. WithinDay'
  BY <1>1, <1>5 DEF WithinDay, FedOf
<1>8. Going'
  BY <1>1 DEF FeatureInv, Going, InDayStages
<1>. QED  BY <1>2, <1>3, <1>4, <1>6, <1>7, <1>8 DEF FeatureInv

LEMMA GoOnKeeps ==
  ASSUME FeatureInv, GoOn, ~ shrunk
  PROVE  FeatureInv'
<1>1. /\ stage = "between" /\ stage' = "day" /\ at' = at + 1
      /\ UNCHANGED <<schedules, disk>> /\ resolutions' = resolutions /\ actors' = actors
      /\ UNCHANGED <<limit, state, dated, lastDay, consumed, shrunk>>
  BY DEF GoOn, schedules
<1>2. ShardsFed' /\ ReceiptsMatch' /\ LatestFed'
  BY <1>1, DiskKept
<1>3. resolutions' \in Resolutions /\ stage' \in Locations
  BY <1>1 DEF FeatureInv, Locations
<1>4. WithinDay' /\ AtTheEnd'
  BY <1>1 DEF WithinDay, AtTheEnd, InDayStages
<1>5. /\ at =< limit /\ dated < at /\ FedOf(state, at) /\ consumed = ConsumedAt(at)
      /\ lastDay = at
  BY <1>1 DEF FeatureInv, WithinDay, InDayStages
<1>6. limit \in Days /\ limit \in Nat /\ at \in Nat /\ at >= 1 /\ dated \in Nat
  BY <1>1, WorkFacts DEF InDayStages
<1>7. Behind' = at
  BY <1>1, <1>5, <1>6 DEF Behind
<1>8. BetweenDays'
  BY <1>1, <1>5, <1>6, <1>7 DEF BetweenDays, FedOf
<1>9. Going'
  BY <1>1, <1>5, <1>6 DEF Going
<1>. QED  BY <1>2, <1>3, <1>4, <1>8, <1>9 DEF FeatureInv

LEMMA SaveArraysKeeps ==
  ASSUME FeatureInv, SaveArrays, ~ shrunk
  PROVE  FeatureInv'
<1>1. /\ \/ stage = "between" /\ stage' = "latest"
         \/ stage = "day" /\ at > limit /\ stage' = "lastLatest"
      /\ resolutions' = resolutions /\ actors' = actors
      /\ UNCHANGED <<limit, at, state, dated, lastDay, consumed, shrunk>>
      /\ shards' = shards /\ receipts' = receipts /\ latest' = latest
  BY DEF SaveArrays, schedules, memory
<1>2. ShardsFed' /\ ReceiptsMatch' /\ LatestFed'
  BY <1>1 DEF FeatureInv, ShardsFed, ReceiptsMatch, LatestFed, FedOf
<1>3. resolutions' \in Resolutions /\ stage' \in Locations
  BY <1>1 DEF FeatureInv, Locations
<1>4. BetweenDays'
  BY <1>1 DEF BetweenDays
<1>5. Going'
  BY <1>1 DEF FeatureInv, Going, InDayStages
<1>6. CASE stage = "between" /\ stage' = "latest"
  <2>1. AtTheEnd'
    BY <1>6 DEF AtTheEnd
  <2>2. WithinDay'
    BY <1>1, <1>6 DEF FeatureInv, WithinDay, InDayStages, FedOf
  <2>. QED  BY <1>2, <1>3, <1>4, <1>5, <2>1, <2>2 DEF FeatureInv
<1>7. CASE stage = "day" /\ at > limit /\ stage' = "lastLatest"
  <2>1. WithinDay'
    BY <1>7 DEF WithinDay, InDayStages
  <2>2. /\ limit \in Days /\ limit \in Nat /\ limit >= 1
        /\ dated \in Nat /\ dated <= limit
        /\ at \in Nat /\ at = limit + 1
    BY <1>7, WorkFacts
  <2>3. Behind = limit
    BY <2>2 DEF Behind
  <2>4. lastDay = limit /\ FedOf(state, limit)
    BY <1>7, <2>2, <2>3 DEF FeatureInv, BetweenDays
  <2>5. AtTheEnd'
    BY <1>1, <2>2, <2>4 DEF AtTheEnd, FedOf
  <2>. QED  BY <1>2, <1>3, <1>4, <1>5, <2>1, <2>5 DEF FeatureInv
<1>. QED  BY <1>1, <1>6, <1>7

LEMMA SaveLatestKeeps ==
  ASSUME FeatureInv, SaveLatest, ~ shrunk
  PROVE  FeatureInv'
<1>1. /\ stage = "latest" /\ stage' = "day" /\ at' = at + 1 /\ dated' = at
      /\ resolutions' = resolutions /\ actors' = actors
      /\ UNCHANGED <<limit, state, lastDay, consumed, shrunk>>
      /\ shards' = shards /\ receipts' = receipts
      /\ latest'.day = at /\ latest'.content = state
  BY DEF SaveLatest, schedules
<1>2. ShardsFed' /\ ReceiptsMatch'
  BY <1>1 DEF FeatureInv, ShardsFed, ReceiptsMatch, FedOf
<1>3. resolutions' \in Resolutions /\ stage' \in Locations
  BY <1>1 DEF FeatureInv, Locations
<1>4. WithinDay' /\ AtTheEnd'
  BY <1>1 DEF WithinDay, AtTheEnd, InDayStages
<1>5. /\ at =< limit /\ dated < at /\ FedOf(state, at) /\ consumed = ConsumedAt(at)
      /\ lastDay = at
  BY <1>1 DEF FeatureInv, WithinDay, InDayStages
<1>6. limit \in Days /\ limit \in Nat /\ at \in Nat /\ at >= 1 /\ at \in Days
  BY <1>1, <1>5, WorkFacts DEF InDayStages
<1>7. LatestFed'
  BY <1>1, <1>5, <1>6 DEF LatestFed, FedOf
<1>8. Behind' = at
  BY <1>1, <1>6 DEF Behind
<1>9. BetweenDays'
  BY <1>1, <1>5, <1>6, <1>8 DEF BetweenDays, FedOf
<1>10. Going'
  BY <1>1, <1>5, <1>6 DEF Going
<1>. QED  BY <1>2, <1>3, <1>4, <1>7, <1>9, <1>10 DEF FeatureInv

LEMMA SaveLastKeeps ==
  ASSUME FeatureInv, SaveLast, ~ shrunk
  PROVE  FeatureInv'
<1>1. /\ stage = "lastLatest" /\ stage' = "manifest"
      /\ resolutions' = resolutions /\ actors' = actors
      /\ shards' = shards /\ receipts' = receipts
      /\ latest'.day = lastDay /\ latest'.content = state
  BY DEF SaveLast, LastDay, schedules
<1>2. ShardsFed' /\ ReceiptsMatch'
  BY <1>1 DEF FeatureInv, ShardsFed, ReceiptsMatch, FedOf
<1>3. resolutions' \in Resolutions /\ stage' \in Locations
  BY <1>1 DEF FeatureInv, Locations
<1>4. LatestFed'
  BY <1>1 DEF FeatureInv, AtTheEnd, LatestFed, FedOf
<1>. QED  BY <1>1, <1>2, <1>3, <1>4
     DEF FeatureInv, Going, BetweenDays, WithinDay, AtTheEnd, InDayStages

(* The manifest ends a command, a pause or a kill stops it.                *)
LEMMA EndKeeps ==
  ASSUME FeatureInv, WriteManifest \/ PauseBuild \/ KillBuild, ~ shrunk
  PROVE  FeatureInv'
<1>1. /\ stage' \in {"done", "refused", "idle"}
      /\ resolutions' = resolutions /\ actors' = actors
      /\ shards' = shards /\ receipts' = receipts /\ latest' = latest
  BY DEF WriteManifest, PauseBuild, KillBuild, Halt, schedules, disk
<1>2. ShardsFed' /\ ReceiptsMatch' /\ LatestFed'
  BY <1>1 DEF FeatureInv, ShardsFed, ReceiptsMatch, LatestFed, FedOf
<1>. QED  BY <1>1, <1>2
     DEF FeatureInv, Locations, Going, BetweenDays, WithinDay, AtTheEnd, InDayStages

(* Once a command fell short, only the schedules and the stages matter.    *)
LEMMA ShrunkKeeps ==
  ASSUME FeatureInv, BuildWork \/ PauseBuild \/ KillBuild, shrunk
  PROVE  FeatureInv'
<1>1. shrunk' = shrunk /\ resolutions' = resolutions /\ stage' \in Locations
  BY DEF BuildWork, PauseBuild, KillBuild, Halt, SkipDay, ReplayDay, EmitDay, WriteDay,
         WriteReceipt, GoOn, SaveArrays, SaveLatest, SaveLast, WriteManifest,
         schedules, Locations
<1>. QED  BY <1>1 DEF FeatureInv

LEMMA FeatureStep ==
  ASSUME FeatureInv, [FeatureNext]_featureVars
  PROVE  FeatureInv'
<1>1. ASSUME NEW l \in Limits, BeginBuild(l) PROVE FeatureInv'
  BY <1>1, BeginBuildKeeps
<1>2. ASSUME BuildWork \/ PauseBuild \/ KillBuild PROVE FeatureInv'
  <2>1. CASE shrunk
    BY <1>2, <2>1, ShrunkKeeps
  <2>2. CASE ~ shrunk
    <3>1. CASE SkipDay
      BY <2>2, <3>1, SkipKeeps
    <3>2. CASE ReplayDay \/ EmitDay
      BY <2>2, <3>2, FeedKeeps
    <3>3. CASE WriteDay
      BY <2>2, <3>3, WriteDayKeeps
    <3>4. CASE WriteReceipt
      BY <2>2, <3>4, WriteReceiptKeeps
    <3>5. CASE GoOn
      BY <2>2, <3>5, GoOnKeeps
    <3>6. CASE SaveArrays
      BY <2>2, <3>6, SaveArraysKeeps
    <3>7. CASE SaveLatest
      BY <2>2, <3>7, SaveLatestKeeps
    <3>8. CASE SaveLast
      BY <2>2, <3>8, SaveLastKeeps
    <3>9. CASE WriteManifest \/ PauseBuild \/ KillBuild
      BY <2>2, <3>9, EndKeeps
    <3>. QED  BY <1>2, <3>1, <3>2, <3>3, <3>4, <3>5, <3>6, <3>7, <3>8, <3>9 DEF BuildWork
  <2>. QED  BY <2>1, <2>2
<1>3. CASE UNCHANGED featureVars
  <2>1. /\ UNCHANGED <<resolutions, actors, limit, stage, at, state, dated, lastDay>>
        /\ UNCHANGED <<consumed, shards, receipts, latest, shrunk>>
    BY <1>3 DEF featureVars, schedules, memory, disk
  <2>. QED  BY <2>1 DEF FeatureInv, ShardsFed, ReceiptsMatch, LatestFed, FedOf, Going,
                 BetweenDays, Behind, WithinDay, AtTheEnd
<1>. QED  BY <1>1, <1>2, <1>3 DEF FeatureNext, Start, StartShorter

LEMMA FedIsCausal ==
  ASSUME NEW h, NEW k, FedOf(h, k)
  PROVE  Causal(h) /\ Through(h, k)
<1>1. /\ h \in Seq(Event) /\ CausalIn(h, resolutions, actors)
      /\ OfKind(h, "trade") = Earlier(k + 1, 1)
  BY DEF FedOf, DaysFed
<1>2. <<>> \in Seq(Event)
  OBVIOUS
<1>3. Before(h, Len(h) + 1, "trade") = OfKind(h, "trade")
  BY <1>1, <1>2, JoinBefore
<1>. QED  BY <1>1, <1>3, CausalIsCausalIn DEF Through

(* Whatever was paused, killed and started again, for any stream and any   *)
(* schedules: a day's receipt stands for features that saw each event of   *)
(* the past once and none of the present or the future, unless a shorter   *)
(* command came in between.                                                *)
THEOREM FeaturesAreAlwaysCausal == FeatureSpec => []FeaturesCausal
<1>1. FeatureInit => FeatureInv
  BY FeatureInitHolds
<1>2. FeatureInv /\ [FeatureNext]_featureVars => FeatureInv'
  BY FeatureStep
<1>3. FeatureInv => FeaturesCausal
  <2>1. ASSUME FeatureInv, ~ shrunk, NEW k \in DOMAIN receipts
        PROVE  receipts[k] = shards[k] /\ Causal(receipts[k]) /\ Through(receipts[k], k)
    <3>1. k \in DOMAIN shards /\ receipts[k] = shards[k] /\ FedOf(shards[k], k)
      BY <2>1 DEF FeatureInv, ShardsFed, ReceiptsMatch
    <3>. QED  BY <3>1, FedIsCausal
  <2>. QED  BY <2>1 DEF FeaturesCausal
<1>. QED  BY <1>1, <1>2, <1>3, PTL DEF FeatureSpec
====
