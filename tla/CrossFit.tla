------------------------------ MODULE CrossFit ------------------------------
(***************************************************************************)
(* The training of H022: for each seed one neural fit per fold of a cross  *)
(* fit and a final fit whose number of epochs is the median of the folds'  *)
(* best ones, each with a checkpoint after every epoch, then the seed's    *)
(* result and, after the last seed, the result of the command.             *)
(*                                                                         *)
(* A command that starts again does not know which folds were finished: it *)
(* fits each of them again from its checkpoint.  Nor does a checkpoint     *)
(* hold the state of the random generators, so whether a further epoch     *)
(* improves a fit is open.                                                 *)
(***************************************************************************)
EXTENDS Integers, Sequences, FiniteSets, Functions

CONSTANTS
    Seeds,      \* cross_fitting["seeds"], in their order
    Folds,      \* cross_fitting["folds"]
    Epochs,     \* neural_member["epochs"]
    Patience,   \* neural_member["early_stopping_patience"]
    MaxStops,   \* bound: kills and pauses
    NoFit

ASSUME CrossFitAssumption ==
    /\ Seeds \subseteq Nat /\ IsFiniteSet(Seeds)
    /\ Folds \in Nat /\ Folds % 2 = 1
    /\ Epochs \in Nat \ {0} /\ Patience \in Nat \ {0} /\ MaxStops \in Nat
    /\ NoFit \notin Nat

Final == Folds + 1
Fits == 1..Final

VARIABLES
    pc,          \* "idle": no process
    asked,       \* seeds of the command
    todo,        \* seeds it has not come to the end of
    fit,         \* the fit under way
    run,         \* its model in memory: epochs trained, best, stale ones
    receipts,    \* best epochs of the folds of this seed, this process's
    checkpoint,  \* checkpoint.pt of each seed and fit
    artifact,    \* the best epoch in best-neural.pt of each seed and fit
    seedResult,  \* result.json of each seed
    result,      \* result.json of the command
    outcome,     \* how the last command ended
    pauseFile,
    stops

process == <<pc, asked, todo, fit, run, receipts>>
files == <<checkpoint, artifact, seedResult, result>>
fitVars == <<process, files, outcome, pauseFile, stops>>

NextSeed == CHOOSE s \in todo : \A t \in todo : s <= t

FitInit ==
    /\ pc = "idle" /\ asked = {} /\ todo = {} /\ fit = 1 /\ run = NoFit
    /\ receipts = <<>>
    /\ checkpoint = [s \in Seeds |-> [f \in Fits |-> NoFit]]
    /\ artifact = [s \in Seeds |-> [f \in Fits |-> NoFit]]
    /\ seedResult = [s \in Seeds |-> NoFit]
    /\ result = NoFit
    /\ outcome = "none"
    /\ pauseFile = FALSE
    /\ stops = 0

(* The process is gone, and with it all it had in memory.                  *)
End(how) ==
    /\ pc' = "idle" /\ asked' = {} /\ todo' = {} /\ fit' = 1 /\ run' = NoFit
    /\ receipts' = <<>>
    /\ outcome' = how

Begin(chosen) ==
    /\ pc = "idle"
    /\ pc' = "seed" /\ asked' = chosen /\ todo' = chosen
    /\ UNCHANGED <<fit, run, receipts, files, outcome, pauseFile, stops>>

(* A seed with a valid result is not trained again, whatever it was        *)
(* trained from.                                                           *)
Cached(s) == seedResult[s] # NoFit

SkipSeed ==
    /\ pc = "seed" /\ todo # {}
    /\ Cached(NextSeed)
    /\ todo' = todo \ {NextSeed}
    /\ UNCHANGED <<pc, asked, fit, run, receipts, files, outcome, pauseFile, stops>>

BeginSeed ==
    /\ pc = "seed" /\ todo # {}
    /\ ~Cached(NextSeed)
    /\ pc' = "fit" /\ fit' = 1 /\ receipts' = <<>>
    /\ UNCHANGED <<asked, todo, run, files, outcome, pauseFile, stops>>

-----------------------------------------------------------------------------
Median(q) ==
    CHOOSE m \in Range(q) :
        /\ 2 * Cardinality({i \in DOMAIN q : q[i] <= m}) > Folds
        /\ 2 * Cardinality({i \in DOMAIN q : q[i] >= m}) > Folds

(* Epochs of the final fit; the folds have no fixed number, which is 0.    *)
FixedEpochs ==
    IF fit = Final THEN Median([f \in 1..Folds |-> receipts[f] + 1]) ELSE 0

FreshFit == [fixed |-> FixedEpochs, epochs |-> 0, best |-> -1, stale |-> 0]

Stored == checkpoint[NextSeed][fit]

(* Mutant: a final checkpoint for another number of epochs is taken up.    *)
SlipAccepted == TRUE

(* The contract of a fit has its fixed number of epochs in it.             *)
Accepted == Stored # NoFit => Stored.fixed = FixedEpochs

(* The neural fit begins, from its checkpoint if there is one.  Whether it *)
(* had come to its end is not asked.                                       *)
StartFit ==
    /\ pc = "fit"
    /\ Accepted
    /\ run' = IF Stored = NoFit THEN FreshFit ELSE Stored
    /\ pc' = "epoch"
    /\ UNCHANGED <<asked, todo, fit, receipts, files, outcome, pauseFile, stops>>

RefuseFit ==
    /\ pc = "fit"
    /\ ~Accepted
    /\ End("refused")
    /\ UNCHANGED <<files, pauseFile, stops>>

Limit == IF fit = Final THEN run.fixed ELSE Epochs

(* An epoch, its evaluation and the checkpoint.  The first epoch is the    *)
(* best so far whatever its score.                                         *)
TrainEpoch ==
    /\ pc = "epoch" /\ run.epochs < Limit
    /\ \E improved \in BOOLEAN :
        /\ run.best = -1 => improved
        /\ run' = [run EXCEPT !.epochs = @ + 1,
                              !.best = IF improved THEN run.epochs ELSE @,
                              !.stale = IF improved THEN 0 ELSE @ + 1]
    /\ checkpoint' = [checkpoint EXCEPT ![NextSeed][fit] = run']
    /\ pc' = "trained"
    /\ UNCHANGED <<asked, todo, fit, receipts, artifact, seedResult, result, outcome,
                   pauseFile, stops>>

(* After the checkpoint: PAUSE first, then the early stop, which a fit     *)
(* without validation rows does not have.                                  *)
PauseFit ==
    /\ pc = "trained" /\ pauseFile
    /\ End("paused")
    /\ UNCHANGED <<files, pauseFile, stops>>

EndEpoch ==
    /\ pc = "trained" /\ ~pauseFile
    /\ pc' = IF fit # Final /\ run.stale >= Patience THEN "fitted" ELSE "epoch"
    /\ UNCHANGED <<asked, todo, fit, run, receipts, files, outcome, pauseFile, stops>>

(* The best state goes into a file of its own; the fold's tree and its     *)
(* receipt follow.                                                         *)
SaveArtifact ==
    /\ \/ pc = "fitted"
       \/ pc = "epoch" /\ run.epochs >= Limit
    /\ artifact' = [artifact EXCEPT ![NextSeed][fit] = run.best]
    /\ receipts' = Append(receipts, run.best)
    /\ pc' = IF fit = Final THEN "stacked" ELSE "fold"
    /\ UNCHANGED <<asked, todo, fit, run, checkpoint, seedResult, result, outcome,
                   pauseFile, stops>>

PauseFold ==
    /\ pc = "fold" /\ pauseFile
    /\ End("paused")
    /\ UNCHANGED <<files, pauseFile, stops>>

EndFold ==
    /\ pc = "fold" /\ ~pauseFile
    /\ fit' = fit + 1
    /\ pc' = "fit"
    /\ UNCHANGED <<asked, todo, run, receipts, files, outcome, pauseFile, stops>>

WriteSeedResult ==
    /\ pc = "stacked"
    /\ seedResult' = [seedResult EXCEPT ![NextSeed] =
                        [best |-> receipts, epochs |-> run.epochs, fixed |-> run.fixed]]
    /\ todo' = todo \ {NextSeed}
    /\ pc' = "seed" /\ run' = NoFit /\ fit' = 1 /\ receipts' = <<>>
    /\ UNCHANGED <<asked, checkpoint, artifact, result, outcome, pauseFile, stops>>

(* The command's result is complete if every registered seed was asked.    *)
WriteResult ==
    /\ pc = "seed" /\ todo = {}
    /\ result' = [complete |-> asked = Seeds,
                  seeds |-> [s \in asked |-> seedResult[s]]]
    /\ End("ended")
    /\ UNCHANGED <<checkpoint, artifact, seedResult, pauseFile, stops>>

-----------------------------------------------------------------------------
Kill ==
    /\ pc # "idle" /\ stops < MaxStops
    /\ stops' = stops + 1
    /\ End("killed")
    /\ UNCHANGED <<files, pauseFile>>

Pause ==
    /\ ~pauseFile /\ stops < MaxStops
    /\ pauseFile' = TRUE
    /\ stops' = stops + 1
    /\ UNCHANGED <<process, files, outcome>>

Unpause ==
    /\ pauseFile
    /\ pauseFile' = FALSE
    /\ UNCHANGED <<process, files, outcome, stops>>

Work ==
    \/ SkipSeed \/ BeginSeed \/ StartFit \/ RefuseFit \/ TrainEpoch \/ PauseFit
    \/ EndEpoch \/ SaveArtifact \/ PauseFold \/ EndFold \/ WriteSeedResult
    \/ WriteResult

(* The command for some seeds or, with none named, for all.                *)
BeginSome == \E chosen \in SUBSET Seeds \ {{}} : Begin(chosen)

FitNext == BeginSome \/ Work \/ Kill \/ Pause \/ Unpause

FitSpec == FitInit /\ [][FitNext]_fitVars

-----------------------------------------------------------------------------
(* A seed's result belongs together: the final fit ran for the median of   *)
(* the folds' best epochs, no more and no less, and the files that are     *)
(* there are of the epochs the result names.                               *)
ResultsBelongTogether ==
    \A s \in Seeds : seedResult[s] # NoFit =>
        LET r == seedResult[s] IN
        /\ r.fixed = Median([f \in 1..Folds |-> r.best[f] + 1])
        /\ r.epochs = r.fixed
        /\ \A f \in Fits :
             /\ artifact[s][f] = r.best[f]
             /\ checkpoint[s][f].best = r.best[f]

=============================================================================
