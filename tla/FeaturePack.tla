---- MODULE FeaturePack ----
(***************************************************************************)
(* The H011 feature pack: every trade of the chronicle goes once, in       *)
(* order, through a recurrent state; each day leaves a shard of features   *)
(* and a receipt, and from time to time the state is checkpointed, so that *)
(* a build that is paused or killed can go on                              *)
(* (scripts/build_h011_feature_pack.py, sphinx_trace/h011_kernel.py).      *)
(*                                                                         *)
(* The arrays of the state are kept as the history of what was fed to      *)
(* them: two states agree when they were fed the same events in the same   *)
(* order.  A day's features are the history that led to them.              *)
(***************************************************************************)
EXTENDS Integers, Sequences, SequencesExt, FiniteSets

CONSTANTS
    StreamDays,   \* per day of the stream, the seconds of its trades in order
    DayLength,    \* seconds of a calendar day
    Resolutions,  \* sets of seconds at which wallets' markets resolve
    ActorDates,   \* sets of dates an actor delta becomes available on
    Limits,       \* values of --day-limit, as numbers of days
    MaxStops      \* bound on pauses and kills

Days == 1 .. Len(StreamDays)
DateOf(second) == second \div DayLength
Date(k) == DateOf(StreamDays[k][1])

(* The chronicle's writer opens a file per date of its rows' seconds, in   *)
(* time order (scripts/build_h009_chronicle.py:681).                       *)
ASSUME StreamAssumption ==
    /\ DayLength \in Nat \ {0}
    /\ StreamDays \in Seq(Seq(Nat) \ {<<>>})
    /\ \A k \in Days :
          /\ \A i \in 2 .. Len(StreamDays[k]) : StreamDays[k][i - 1] =< StreamDays[k][i]
          /\ \A i \in DOMAIN StreamDays[k] : DateOf(StreamDays[k][i]) = Date(k)
          /\ \A j \in 1 .. k - 1 : Date(j) < Date(k)
    /\ \A S \in Resolutions : S \subseteq Nat /\ IsFiniteSet(S)
    /\ Limits \subseteq Days /\ MaxStops \in Nat

VARIABLES
    resolutions,  \* the resolution schedule's events
    actors,       \* dates of the actor schedule
    limit,        \* days of the stream this command goes through
    stage,        \* where the command is
    at,           \* the day it is at
    state,        \* RecurrentState
    dated,        \* checkpoint_date as a day, 0 for none
    lastDay,      \* last_date as a day
    consumed,     \* resolution_cursor: the last date consumed
    previous,     \* the manifest the command found
    shards,       \* days' feature shards: a function on those on disk
    receipts,     \* days' receipts
    arrays,       \* state/latest.npz
    latest,       \* state/latest.json: its last date and its hash
    manifest,     \* manifest.json
    stops,
    shrunk        \* a command selected fewer days than the checkpoint covers

schedules == <<resolutions, actors>>
memory == <<limit, at, state, dated, lastDay, consumed, previous>>
disk == <<shards, receipts, arrays, latest, manifest>>
featureVars == <<schedules, memory, stage, disk, stops, shrunk>>

Trade(k, i) == <<"trade", k, i>>
Resolved(second) == <<"resolved", second, 0>>
Actor(date) == <<"actor", date, 0>>
NoFile == <<>>
NoLatest == [day |-> 0, content |-> NoFile]
NoManifest == [days |-> 0, features |-> NoFile, content |-> NoFile, valid |-> FALSE]

Locations == {"idle", "day", "shard", "receipt", "between", "latest", "lastLatest",
              "manifest", "refused", "done"}
Idle == stage \in {"idle", "refused", "done"}

FeatureInit ==
    /\ resolutions \in Resolutions /\ actors \in ActorDates
    /\ limit \in Limits
    /\ stage = "idle" /\ at = 1
    /\ state = <<>> /\ dated = 0 /\ lastDay = 0 /\ consumed = -1
    /\ previous = NoManifest
    /\ shards = <<>> /\ receipts = <<>>
    /\ arrays = NoFile /\ latest = NoLatest
    /\ manifest = NoManifest
    /\ stops = 0
    /\ shrunk = FALSE

(***************************************************************************)
(* A command starts: it restores the checkpoint, which is refused when the *)
(* arrays are not the ones the receipt was written for.                    *)
(***************************************************************************)

Torn == latest # NoLatest /\ latest.content # arrays

(* Resolution dates up to the checkpoint's are skipped.                    *)
ConsumedAt(k) == IF k = 0 THEN -1 ELSE Date(k)

BeginBuild(l) ==
    /\ Idle
    /\ limit' = l
    /\ previous' = manifest
    /\ at' = 1
    /\ lastDay' = latest.day
    /\ IF Torn
       THEN /\ stage' = "refused"
            /\ UNCHANGED <<state, dated, consumed>>
       ELSE /\ stage' = "day"
            /\ state' = (IF latest = NoLatest THEN <<>> ELSE arrays)
            /\ dated' = latest.day
            /\ consumed' = ConsumedAt(latest.day)
    /\ shrunk' = (shrunk \/ (~Torn /\ l < latest.day))
    /\ UNCHANGED <<schedules, disk, stops>>

(***************************************************************************)
(* One day.                                                                *)
(***************************************************************************)

\* Mutant: a resolution is visible in its own second.
SlipDue(S, second) == {r \in S : r =< second}

(* Resolutions due before a second, in time order.                         *)
Due(S, second) == {r \in S : r < second}
InOrder(S) ==
    LET sorted == CHOOSE s \in [1 .. Cardinality(S) -> S] :
                      \A i, j \in DOMAIN s : i < j => s[i] < s[j]
    IN  [i \in DOMAIN sorted |-> Resolved(sorted[i])]

(* Each row first takes the resolutions of earlier seconds; those left are *)
(* applied when the day is over.                                           *)
TakeRow(k, i, fed) ==
    LET due == Due(fed.left, StreamDays[k][i])
    IN  [events |-> fed.events \o InOrder(due) \o <<Trade(k, i)>>, left |-> fed.left \ due]
Fed(k, pending) ==
    LET fed[i \in 0 .. Len(StreamDays[k])] ==
            IF i = 0 THEN [events |-> <<>>, left |-> pending] ELSE TakeRow(k, i, fed[i - 1])
        last == fed[Len(StreamDays[k])]
    IN  last.events \o InOrder(last.left)

(* The actor delta of the day's own date, then the resolutions of every    *)
(* date not consumed yet, up to the day's.                                 *)
Delta(k) == IF Date(k) \in actors THEN <<Actor(Date(k))>> ELSE <<>>
Pending(k) == {r \in resolutions : consumed < DateOf(r) /\ DateOf(r) =< Date(k)}
Processed(k) == state \o Delta(k) \o Fed(k, Pending(k))

InDay == stage = "day" /\ at =< limit

\* Mutant: receipts behind the checkpoint are not looked for.
SlipCached(k) == k \in DOMAIN receipts /\ k =< dated

(* The day's receipt is on disk.                                           *)
Cached(k) == k \in DOMAIN receipts

(* A day the checkpoint covers needs its receipt and nothing else.         *)
SkipDay ==
    /\ InDay /\ at =< dated
    /\ IF Cached(at)
       THEN stage' = "day" /\ at' = at + 1 /\ lastDay' = at
       ELSE stage' = "refused" /\ UNCHANGED <<at, lastDay>>
    /\ UNCHANGED <<schedules, limit, state, dated, consumed, previous, disk, stops, shrunk>>

(* A day with a receipt behind the checkpoint is fed without emitting.     *)
ReplayDay ==
    /\ InDay /\ at > dated /\ Cached(at)
    /\ state' = Processed(at)
    /\ consumed' = Date(at)
    /\ lastDay' = at
    /\ stage' = "between"
    /\ UNCHANGED <<schedules, limit, at, dated, previous, disk, stops, shrunk>>

EmitDay ==
    /\ InDay /\ at > dated /\ ~Cached(at)
    /\ state' = Processed(at)
    /\ consumed' = Date(at)
    /\ stage' = "shard"
    /\ UNCHANGED <<schedules, limit, at, dated, lastDay, previous, disk, stops, shrunk>>

With(f, k, value) == [j \in DOMAIN f \cup {k} |-> IF j = k THEN value ELSE f[j]]

(* The shard is renamed into place, unless one is there already.           *)
WriteDay ==
    /\ stage = "shard"
    /\ IF at \in DOMAIN shards
       THEN stage' = "refused" /\ UNCHANGED shards
       ELSE stage' = "receipt" /\ shards' = With(shards, at, state)
    /\ UNCHANGED <<schedules, memory, receipts, arrays, latest, manifest, stops, shrunk>>

WriteReceipt ==
    /\ stage = "receipt"
    /\ receipts' = With(receipts, at, shards[at])
    /\ lastDay' = at
    /\ stage' = "between"
    /\ UNCHANGED <<schedules, limit, at, state, dated, consumed, previous,
                   shards, arrays, latest, manifest, stops, shrunk>>

(***************************************************************************)
(* The checkpoint: the arrays, then the receipt with their hash and date.  *)
(***************************************************************************)

GoOn ==
    /\ stage = "between"
    /\ stage' = "day" /\ at' = at + 1
    /\ UNCHANGED <<schedules, limit, state, dated, lastDay, consumed, previous,
                   disk, stops, shrunk>>

(* After a day when fifteen minutes have passed, and when all are done.    *)
SaveArrays ==
    /\ \/ stage = "between" /\ stage' = "latest"
       \/ stage = "day" /\ at > limit /\ stage' = "lastLatest"
    /\ arrays' = state
    /\ UNCHANGED <<schedules, memory, shards, receipts, latest, manifest, stops, shrunk>>

SaveLatest ==
    /\ stage = "latest"
    /\ latest' = [day |-> at, content |-> state]
    /\ dated' = at
    /\ stage' = "day" /\ at' = at + 1
    /\ UNCHANGED <<schedules, limit, state, lastDay, consumed, previous,
                   shards, receipts, arrays, manifest, stops, shrunk>>

(* last_date is the day the loop ended with.                               *)
LastDay == lastDay

SaveLast ==
    /\ stage = "lastLatest"
    /\ latest' = [day |-> LastDay, content |-> state]
    /\ stage' = "manifest"
    /\ UNCHANGED <<schedules, memory, shards, receipts, arrays, manifest, stops, shrunk>>

(* A manifest over the same days must have had the same hashes.            *)
WriteManifest ==
    /\ stage = "manifest"
    /\ LET features == [k \in 1 .. limit |-> receipts[k]]
           same == previous.days = limit =>
                      previous.features = features /\ previous.content = latest.content
       IN /\ manifest' = [days |-> limit, features |-> features,
                          content |-> latest.content, valid |-> same]
          /\ stage' = IF same THEN "done" ELSE "refused"
    /\ UNCHANGED <<schedules, memory, shards, receipts, arrays, latest, stops, shrunk>>

(***************************************************************************)
(* A PAUSE file is seen between two days; a kill takes effect anywhere.    *)
(* Either leaves what is on disk.                                          *)
(***************************************************************************)
Halt ==
    /\ stops < MaxStops
    /\ stops' = stops + 1
    /\ stage' = "idle"
    /\ UNCHANGED <<schedules, memory, disk, shrunk>>

PauseBuild == InDay /\ Halt
KillBuild == ~Idle /\ ~InDay /\ Halt

BuildWork ==
    \/ SkipDay \/ ReplayDay \/ EmitDay \/ WriteDay \/ WriteReceipt
    \/ GoOn \/ SaveArrays \/ SaveLatest \/ SaveLast \/ WriteManifest

Start == \E l \in Limits : l >= limit /\ BeginBuild(l)
(* A smaller day limit than the last command's, until one fell short.      *)
StartShorter == ~shrunk /\ \E l \in Limits : l < limit /\ BeginBuild(l)

FeatureNext == Start \/ StartShorter \/ BuildWork \/ PauseBuild \/ KillBuild

FeatureSpec == FeatureInit /\ [][FeatureNext]_featureVars
FairFeatureSpec == FeatureSpec /\ WF_featureVars(Start) /\ WF_featureVars(BuildWork)

(***************************************************************************)
(* Properties.                                                             *)
(***************************************************************************)

(* What was fed before the trade at position n of a history, of a kind.    *)
Before(h, n, kind) == {h[m] : m \in {m \in 1 .. n - 1 : h[m][1] = kind}}
Earlier(k, i) ==
    (UNION {{Trade(j, m) : m \in DOMAIN StreamDays[j]} : j \in 1 .. k - 1})
        \cup {Trade(k, m) : m \in 1 .. i - 1}

(* Each trade finds every earlier trade, every resolution of an earlier    *)
(* second and no other, and every actor delta of a streamed date so far;   *)
(* nothing was fed twice.                                                  *)
Causal(h) ==
    /\ IsInjective(h)
    /\ \A n \in DOMAIN h : h[n][1] = "trade" =>
          LET k == h[n][2] i == h[n][3] second == StreamDays[k][i]
          IN /\ Before(h, n, "trade") = Earlier(k, i)
             /\ Before(h, n, "resolved") = {Resolved(r) : r \in {r \in resolutions : r < second}}
             /\ Before(h, n, "actor") = {Actor(Date(j)) : j \in {j \in 1 .. k : Date(j) \in actors}}

(* The whole of the days up to k was fed.                                  *)
Through(h, k) == Before(h, Len(h) + 1, "trade") = Earlier(k + 1, 1)

(* Whatever was paused, killed and started again: a day's receipt stands   *)
(* for features that saw each event of the past once and none of the       *)
(* present or the future, unless a shorter command came in between.        *)
FeaturesCausal ==
    ~shrunk => \A k \in DOMAIN receipts :
        /\ receipts[k] = shards[k]
        /\ Causal(receipts[k]) /\ Through(receipts[k], k)

(* A build that is started again gets done, and goes on getting done,      *)
(* unless it was killed between a shard and its receipt or between the     *)
(* arrays and theirs: then every later command refuses.                    *)
FinishesUnlessTorn ==
    [](shrunk = FALSE) =>
        \/ []<>(stage = "done")
        \/ <>[](Torn \/ DOMAIN shards # DOMAIN receipts)
====
