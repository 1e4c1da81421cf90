---- MODULE Chronicle ----
(***************************************************************************)
(* The H009 chronicle: the ledger's scopes are merged into runs, the runs  *)
(* into one stream of daily files, and the stream is read once, in order,  *)
(* to place the decisions (scripts/build_h009_chronicle.py,                *)
(* sphinx_trace/chronicle_h009.py, scripts/validate_h009_chronicle.py).    *)
(* A build may be paused or killed and started again, on all scopes or on  *)
(* a spread of them, and the Polygon graph may be completed meanwhile.     *)
(*                                                                         *)
(* A file is its content and a hash is the content it was taken of.        *)
(***************************************************************************)
EXTENDS Totals, Sequences, SequencesExt, FiniteSetsExt

CONSTANTS
    Scopes,        \* the ledger: each scope's trades in time order
    GroupSize,     \* run_scope_group_size
    Limits,        \* values of --scope-limit; Len(Scopes) is no limit
    Workers,       \* run_workers
    DayLength,     \* seconds of a calendar day
    EarlyMaximum, Stride, Heartbeat,  \* of snapshot_reasons
    Atlases,       \* sequences of markets: events, closing time, replayable
    Splits,        \* the plan's windows in order: id, start, end
    LabelSplits,   \* windows whose terminal labels may be opened
    MaxStops       \* bound on pauses and kills

Open == -1  \* closed_at of a market that has not closed

(* The places of rows in a family of files, and the row at a place.        *)
Places(files) == UNION {{f} \X DOMAIN files[f] : f \in DOMAIN files}
Row(files, p) == files[p[1]][p[2]]

ASSUME ScopesAssumption ==
    /\ DOMAIN Scopes = 1 .. Len(Scopes) /\ Len(Scopes) \in Nat
    /\ \A s \in DOMAIN Scopes :
          /\ DOMAIN Scopes[s] = 1 .. Len(Scopes[s]) /\ Len(Scopes[s]) \in Nat
          /\ \A i \in DOMAIN Scopes[s] : Scopes[s][i].time \in Nat /\ Scopes[s][i].id \in Nat
          /\ \A i, j \in DOMAIN Scopes[s] : i < j => Scopes[s][i].time =< Scopes[s][j].time
    /\ \A p, q \in Places(Scopes) : Row(Scopes, p).id = Row(Scopes, q).id => p = q
    /\ Limits \subseteq 1 .. Len(Scopes)
    /\ {GroupSize, Workers, DayLength, Stride, Heartbeat} \subseteq Nat \ {0}
    /\ \A i \in 2 .. Len(Splits) : Splits[i - 1].end < Splits[i].start

ASSUME AtlasesAssumption ==
    /\ Atlases \subseteq Seq([events : Seq(Nat), closed : Nat \cup {Open}, replayable : BOOLEAN])
    /\ Splits \in Seq([id : STRING, start : Nat, end : Nat])
    /\ "none" \notin LabelSplits

VARIABLES
    atlas,         \* the markets of the atlas
    catalog,       \* catalog.sqlite: components, splits and labels of the markets
    polygon,       \* polygon-manifest.json says complete
    limit,         \* --scope-limit of the command
    pc,            \* where the command is
    todo,          \* run groups, then dates, it has yet to go through
    pool,          \* run groups its workers are at
    memory,        \* build_decisions: event states, polygon flag, day receipts
    runs,          \* run groups with a receipt
    runsManifest,
    streamFiles, streamReceipts, participants, streamManifest,
    decisionFiles, decisionStates, decisionManifest,
    receipt,
    stops,
    switched       \* the scope limit has changed between commands

streams == <<streamFiles, streamReceipts, participants, streamManifest>>
decisions == <<decisionFiles, decisionStates, decisionManifest>>
vars == <<atlas, catalog, polygon, limit, pc, todo, pool, memory, runs, runsManifest,
          streams, decisions, receipt, stops, switched>>

NoFile == [digest |-> <<>>]
With(f, k, value) == [j \in DOMAIN f \cup {k} |-> IF j = k THEN value ELSE f[j]]

(***************************************************************************)
(* The catalog: union-find over the events, then splits and labels.        *)
(***************************************************************************)

NoEvents == [parent |-> <<>>, rank |-> <<>>]

Add(uf, e) ==
    IF e \in DOMAIN uf.parent THEN uf
    ELSE [parent |-> With(uf.parent, e, e), rank |-> With(uf.rank, e, 0)]

(* The root of an event, and the events on the way to it.                  *)
Root(uf, e) ==
    LET root[x \in DOMAIN uf.parent] == IF uf.parent[x] = x THEN x ELSE root[uf.parent[x]]
    IN root[e]
Path(uf, e) ==
    LET path[x \in DOMAIN uf.parent] ==
            IF uf.parent[x] = x THEN {x} ELSE {x} \cup path[uf.parent[x]]
    IN path[e]

(* find leaves every event of the path directly under the root.            *)
Find(uf, e) ==
    LET known == Add(uf, e)
    IN [known EXCEPT !.parent = [x \in DOMAIN @ |->
            IF x \in Path(known, e) THEN Root(known, e) ELSE @[x]]]

\* Mutant: the second event itself is hung under the first one's root.
SlipUnion(uf, left, right) ==
    LET found == Find(Find(uf, left), right)
    IN [found EXCEPT !.parent[right] = Root(found, left)]

(* Union by rank, the smaller identifier winning a tie.                    *)
Union(uf, left, right) ==
    LET found == Find(Find(uf, left), right)
        a == Root(found, left) b == Root(found, right)
        tie == found.rank[a] = found.rank[b]
        swap == found.rank[a] < found.rank[b] \/ (tie /\ a > b)
        over == IF swap THEN b ELSE a
        under == IF swap THEN a ELSE b
    IN IF a = b THEN found
       ELSE [parent |-> [found.parent EXCEPT ![under] = over],
             rank |-> [found.rank EXCEPT ![over] = @ + (IF tie THEN 1 ELSE 0)]]

AddGroup(uf, events) ==
    IF events = <<>> THEN uf
    ELSE LET joined[n \in 0 .. Len(events) - 1] ==
                 IF n = 0 THEN Add(uf, events[1]) ELSE Union(joined[n - 1], events[1], events[n + 1])
         IN joined[Len(events) - 1]

Unions(markets) ==
    LET joined[n \in 0 .. Len(markets)] ==
            IF n = 0 THEN NoEvents ELSE AddGroup(joined[n - 1], markets[n].events)
    IN joined[Len(markets)]

(* A component's id is a digest of its members, an orphan's of its market. *)
Component(uf, markets, m) ==
    IF markets[m].events = <<>> THEN {<<"orphan", m>>}
    ELSE LET root == Root(uf, markets[m].events[1])
         IN {<<"event", e>> : e \in {e \in DOMAIN uf.parent : Root(uf, e) = root}}

Locate(time) ==
    LET containing == {i \in DOMAIN Splits : Splits[i].start =< time /\ time < Splits[i].end}
    IN IF containing = {} THEN "none" ELSE Splits[Min(containing)].id

(* None while a market of the component is open.                           *)
SplitOf(closings) ==
    IF Open \in closings THEN "none" ELSE Locate(Max(closings))

Catalog(markets) ==
    LET uf == Unions(markets)
        component == [m \in DOMAIN markets |-> Component(uf, markets, m)]
        split == [m \in DOMAIN markets |->
                     SplitOf({markets[n].closed : n \in {n \in DOMAIN markets : component[n] = component[m]}})]
    IN [component |-> component, split |-> split,
        labelled |-> {m \in DOMAIN markets : split[m] \in LabelSplits /\ markets[m].replayable}]

(***************************************************************************)
(* Merging: the least (time, id) at the head of any input comes next.      *)
(***************************************************************************)

Earlier(t, u) == t.time < u.time \/ (t.time = u.time /\ t.id < u.id)

\* Mutant: the inputs are taken in turn, whatever their heads.
SlipNextInput(inputs, given) == Min({i \in DOMAIN inputs : given[i] < Len(inputs[i])})

NextInput(inputs, given) ==
    LET waiting == {i \in DOMAIN inputs : given[i] < Len(inputs[i])}
        head == [i \in waiting |-> inputs[i][given[i] + 1]]
    IN CHOOSE i \in waiting : \A j \in waiting : ~Earlier(head[j], head[i])

(* How many rows each input has given when n rows are merged.              *)
Given(inputs) ==
    LET given[n \in 0 .. Cardinality(Places(inputs))] ==
            IF n = 0 THEN [i \in DOMAIN inputs |-> 0]
            ELSE LET before == given[n - 1]
                 IN [before EXCEPT ![NextInput(inputs, before)] = @ + 1]
    IN given

Merge(inputs) ==
    LET given == Given(inputs)
    IN [n \in 1 .. Cardinality(Places(inputs)) |->
          LET i == NextInput(inputs, given[n - 1]) IN inputs[i][given[n - 1][i] + 1]]

(* _spread_paths, and the groups of the chosen scopes.                     *)
Selected(n) == [i \in 1 .. n |-> ((i - 1) * Len(Scopes)) \div n + 1]
Groups(n) ==
    LET chosen == Selected(n)
    IN [g \in 1 .. (n + GroupSize - 1) \div GroupSize |->
          SubSeq(chosen, (g - 1) * GroupSize + 1, Min({g * GroupSize, n}))]

Run(group) == Merge([i \in DOMAIN group |-> Scopes[group[i]]])
DateOf(trade) == trade.time \div DayLength
InOrder(numbers) ==
    [n \in 1 .. Cardinality(numbers) |->
        CHOOSE x \in numbers : Cardinality({y \in numbers : y < x}) = n - 1]
OnDate(rows, date) ==
    LET at == InOrder({i \in DOMAIN rows : DateOf(rows[i]) = date})
    IN [n \in DOMAIN at |-> rows[at[n]]]

RunDates(groups) == UNION {{DateOf(t) : t \in ToSet(Run(groups[g]))} : g \in DOMAIN groups}
MergedDate(groups, date) == Merge([g \in DOMAIN groups |-> OnDate(Run(groups[g]), date)])
RowsOf(groups) == Total([g \in DOMAIN groups |-> Len(Run(groups[g]))], DOMAIN groups)
Wallets(groups) == UNION {{t.wallet : t \in ToSet(Run(groups[g]))} : g \in DOMAIN groups}

(***************************************************************************)
(* Decisions: which trades of a component make a snapshot.                 *)
(***************************************************************************)

Never == -1
Unseen == [count |-> 0, last |-> Never]
PowerOfTwo(n) == \E k \in 0 .. n : 2 ^ k = n

Snapshot(count, time, last) ==
    \/ count =< EarlyMaximum /\ PowerOfTwo(count)
    \/ count > EarlyMaximum /\ (count - EarlyMaximum) % Stride = 0
    \/ last # Never /\ time - last >= Heartbeat

StateOf(states, c) == IF c \in DOMAIN states THEN states[c] ELSE Unseen

(* One trade of the stream; a market missing from the catalog is skipped.  *)
Observe(index, pass, trade, flag) ==
    IF trade.market \notin DOMAIN index.component THEN pass
    ELSE LET c == index.component[trade.market]
             was == StateOf(pass.states, c)
             count == was.count + 1
             snapshot == Snapshot(count, trade.time, was.last)
         IN [states |-> With(pass.states, c,
                             [count |-> count, last |-> IF snapshot THEN trade.time ELSE was.last]),
             out |-> IF snapshot
                     THEN Append(pass.out, [component |-> c, split |-> index.split[trade.market],
                                            count |-> count, trade |-> trade.id, polygon |-> flag])
                     ELSE pass.out]

NoPass == [states |-> <<>>, out |-> <<>>]

Pass(index, states, rows, flag) ==
    LET pass[n \in 0 .. Len(rows)] ==
            IF n = 0 THEN [NoPass EXCEPT !.states = states]
            ELSE Observe(index, pass[n - 1], rows[n], flag)
    IN pass[Len(rows)]

(***************************************************************************)
(* States.                                                                 *)
(***************************************************************************)

NoMemory == [flag |-> FALSE, states |-> <<>>, rows |-> 0, shards |-> <<>>]
NoManifest == [scopes |-> <<>>]
NoParticipants == [file |-> {}, scopes |-> <<>>, wallets |-> {}]
NoReceipt == [structural |-> FALSE, qualified |-> FALSE]
NoCatalog == [component |-> <<>>, split |-> <<>>, labelled |-> {}]

Locations == {"idle", "catalog", "runs", "stream", "streamReceipt", "participants",
              "participantsReceipt", "streamManifest", "open", "decisions", "commit",
              "decisionManifest", "receipt", "refused", "done"}
Idle == pc \in {"idle", "refused", "done"}

Init ==
    /\ atlas \in Atlases /\ catalog = NoCatalog
    /\ polygon = FALSE
    /\ limit \in Limits /\ pc = "idle" /\ todo = <<>> /\ pool = {} /\ memory = NoMemory
    /\ runs = {} /\ runsManifest = NoManifest
    /\ streamFiles = <<>> /\ streamReceipts = <<>> /\ participants = NoParticipants
    /\ streamManifest = NoManifest
    /\ decisionFiles = <<>> /\ decisionStates = <<>> /\ decisionManifest = NoManifest
    /\ receipt = NoReceipt
    /\ stops = 0 /\ switched = FALSE

Begin(n) ==
    /\ Idle
    /\ limit' = n /\ pc' = "catalog"
    /\ switched' = (switched \/ n # limit)
    /\ UNCHANGED <<atlas, catalog, polygon, todo, pool, memory, runs, runsManifest,
                   streams, decisions, receipt, stops>>

(* A catalog of this contract is kept; else it is built and put in place.  *)
BuildCatalog ==
    /\ pc = "catalog"
    /\ catalog' = IF catalog = NoCatalog THEN Catalog(atlas) ELSE catalog
    /\ pc' = "runs"
    /\ todo' = [g \in DOMAIN Groups(limit) |-> g]
    /\ UNCHANGED <<atlas, polygon, limit, pool, memory, runs, runsManifest,
                   streams, decisions, receipt, stops, switched>>

(***************************************************************************)
(* Runs, several workers at a time.                                        *)
(***************************************************************************)

NextBatch ==
    /\ pc = "runs" /\ pool = {} /\ todo # <<>>
    /\ LET size == Min({Workers, Len(todo)})
       IN pool' = ToSet(SubSeq(todo, 1, size)) /\ todo' = SubSeq(todo, size + 1, Len(todo))
    /\ UNCHANGED <<atlas, catalog, polygon, limit, pc, memory, runs, runsManifest,
                   streams, decisions, receipt, stops, switched>>

(* A run is identified by its place and its scopes; its files are read     *)
(* only once its receipt is there, and one with a receipt is kept.         *)
BuildRun(g) ==
    /\ pc = "runs" /\ g \in pool
    /\ runs' = runs \cup {<<g, Groups(limit)[g]>>}
    /\ pool' = pool \ {g}
    /\ UNCHANGED <<atlas, catalog, polygon, limit, pc, todo, memory, runsManifest,
                   streams, decisions, receipt, stops, switched>>

WriteRunsManifest ==
    /\ pc = "runs" /\ pool = {} /\ todo = <<>>
    /\ runsManifest' = [scopes |-> Selected(limit), runs |-> Groups(limit),
                        rows |-> RowsOf(Groups(limit)), full |-> limit = Len(Scopes)]
    /\ pc' = "stream" /\ todo' = InOrder(RunDates(Groups(limit)))
    /\ UNCHANGED <<atlas, catalog, polygon, limit, pool, memory, runs,
                   streams, decisions, receipt, stops, switched>>

(***************************************************************************)
(* The stream: a file a date, then its receipt with the digest of scopes.  *)
(***************************************************************************)

(* The date's file is there, and a receipt for the same scopes.            *)
Streamed(date) ==
    /\ date \in DOMAIN streamReceipts /\ date \in DOMAIN streamFiles
    /\ streamReceipts[date].scopes = runsManifest.scopes

KeepStreamDate ==
    /\ pc = "stream" /\ todo # <<>> /\ Streamed(Head(todo))
    /\ todo' = Tail(todo)
    /\ UNCHANGED <<atlas, catalog, polygon, limit, pc, pool, memory, runs, runsManifest,
                   streams, decisions, receipt, stops, switched>>

WriteStreamFile ==
    /\ pc = "stream" /\ todo # <<>> /\ ~Streamed(Head(todo))
    /\ streamFiles' = With(streamFiles, Head(todo), MergedDate(runsManifest.runs, Head(todo)))
    /\ pc' = "streamReceipt"
    /\ UNCHANGED <<atlas, catalog, polygon, limit, todo, pool, memory, runs, runsManifest,
                   streamReceipts, participants, streamManifest, decisions, receipt, stops, switched>>

WriteStreamReceipt ==
    /\ pc = "streamReceipt"
    /\ streamReceipts' = With(streamReceipts, Head(todo),
                              [scopes |-> runsManifest.scopes, content |-> streamFiles[Head(todo)]])
    /\ pc' = "stream" /\ todo' = Tail(todo)
    /\ UNCHANGED <<atlas, catalog, polygon, limit, pool, memory, runs, runsManifest,
                   streamFiles, participants, streamManifest, decisions, receipt, stops, switched>>

StreamDates == RunDates(runsManifest.runs)
Shards == [d \in StreamDates |-> streamReceipts[d].content]
RowsIn(shards) == Total([d \in DOMAIN shards |-> Len(shards[d])], DOMAIN shards)

(* All dates done: the rows the receipts tell must be those of the runs.   *)
EndStream ==
    /\ pc = "stream" /\ todo = <<>>
    /\ pc' = IF RowsIn(Shards) # runsManifest.rows THEN "refused"
             ELSE IF participants.scopes = runsManifest.scopes THEN "streamManifest"
             ELSE "participants"
    /\ UNCHANGED <<atlas, catalog, polygon, limit, todo, pool, memory, runs, runsManifest,
                   streams, decisions, receipt, stops, switched>>

WriteParticipants ==
    /\ pc = "participants"
    /\ participants' = [participants EXCEPT !.file = Wallets(runsManifest.runs)]
    /\ pc' = "participantsReceipt"
    /\ UNCHANGED <<atlas, catalog, polygon, limit, todo, pool, memory, runs, runsManifest,
                   streamFiles, streamReceipts, streamManifest, decisions, receipt, stops, switched>>

WriteParticipantsReceipt ==
    /\ pc = "participantsReceipt"
    /\ participants' = [participants EXCEPT !.scopes = runsManifest.scopes, !.wallets = participants.file]
    /\ pc' = "streamManifest"
    /\ UNCHANGED <<atlas, catalog, polygon, limit, todo, pool, memory, runs, runsManifest,
                   streamFiles, streamReceipts, streamManifest, decisions, receipt, stops, switched>>

WriteStreamManifest ==
    /\ pc = "streamManifest"
    /\ streamManifest' = [scopes |-> runsManifest.scopes, full |-> runsManifest.full,
                          rows |-> RowsIn(Shards), wallets |-> participants.wallets, shards |-> Shards]
    /\ pc' = "open"
    /\ UNCHANGED <<atlas, catalog, polygon, limit, todo, pool, memory, runs, runsManifest,
                   streamFiles, streamReceipts, participants, decisions, receipt, stops, switched>>

(***************************************************************************)
(* The decisions: a database per set of scopes and Polygon availability    *)
(* keeps the components' counts and the days done; a day's file is         *)
(* replaced before the database commits the day.                           *)
(***************************************************************************)

NoDays == [states |-> <<>>, days |-> <<>>]
Database == <<streamManifest.scopes, memory.flag>>

OpenDecisions ==
    /\ pc = "open"
    /\ LET key == <<streamManifest.scopes, polygon>>
           stored == IF key \in DOMAIN decisionStates THEN decisionStates[key] ELSE NoDays
       IN /\ decisionStates' = With(decisionStates, key, stored)
          /\ memory' = [NoMemory EXCEPT !.flag = polygon, !.states = stored.states]
    /\ pc' = "decisions" /\ todo' = InOrder(DOMAIN streamManifest.shards)
    /\ UNCHANGED <<atlas, catalog, polygon, limit, pool, runs, runsManifest, streams,
                   decisionFiles, decisionManifest, receipt, stops, switched>>

DaysDone == decisionStates[Database].days

(* A day done must still have the file it was committed with.              *)
KeepDecisionDay ==
    /\ pc = "decisions" /\ todo # <<>> /\ Head(todo) \in DOMAIN DaysDone
    /\ LET stored == DaysDone[Head(todo)]
       IN IF decisionFiles[Head(todo)] = stored.content
          THEN /\ memory' = [memory EXCEPT !.rows = @ + stored.rows,
                                           !.shards = With(@, Head(todo), stored.content)]
               /\ todo' = Tail(todo) /\ UNCHANGED pc
          ELSE pc' = "refused" /\ UNCHANGED <<memory, todo>>
    /\ UNCHANGED <<atlas, catalog, polygon, limit, pool, runs, runsManifest, streams,
                   decisions, receipt, stops, switched>>

\* Mutant: rows of markets missing from the catalog are not counted.
SlipRowsRead(rows) == Len(SelectSeq(rows, LAMBDA t : t.market \in DOMAIN catalog.component))

(* Every row read counts, whether or not its market is in the catalog.     *)
RowsRead(rows) == Len(rows)

(* The day is read from the stream's file, not from what its receipt says. *)
WriteDecisions ==
    /\ pc = "decisions" /\ todo # <<>> /\ Head(todo) \notin DOMAIN DaysDone
    /\ LET date == Head(todo)
           pass == Pass(catalog, memory.states, streamFiles[date], memory.flag)
       IN /\ decisionFiles' = With(decisionFiles, date, pass.out)
          /\ memory' = [memory EXCEPT !.states = pass.states,
                                      !.rows = @ + RowsRead(streamFiles[date]),
                                      !.shards = With(@, date, pass.out)]
    /\ pc' = "commit"
    /\ UNCHANGED <<atlas, catalog, polygon, limit, todo, pool, runs, runsManifest, streams,
                   decisionStates, decisionManifest, receipt, stops, switched>>

(* The counts are committed together with the day.                         *)
Committed(stored) == memory.states

CommitDay ==
    /\ pc = "commit"
    /\ LET date == Head(todo)
       IN decisionStates' = [decisionStates EXCEPT ![Database] =
             [states |-> Committed(@),
              days |-> With(@.days, date, [content |-> memory.shards[date],
                                           rows |-> RowsRead(streamFiles[date])])]]
    /\ pc' = "decisions" /\ todo' = Tail(todo)
    /\ UNCHANGED <<atlas, catalog, polygon, limit, pool, memory, runs, runsManifest, streams,
                   decisionFiles, decisionManifest, receipt, stops, switched>>

WriteDecisionManifest ==
    /\ pc = "decisions" /\ todo = <<>>
    /\ decisionManifest' = [scopes |-> streamManifest.scopes, rows |-> memory.rows,
                            flag |-> memory.flag, shards |-> memory.shards]
    /\ pc' = "receipt"
    /\ UNCHANGED <<atlas, catalog, polygon, limit, todo, pool, memory, runs, runsManifest, streams,
                   decisionFiles, decisionStates, receipt, stops, switched>>

ManyMarkets == \E m, n \in DOMAIN catalog.component :
                  m # n /\ catalog.component[m] = catalog.component[n]

\* Mutant: the rows the decisions were read from are not compared.
SlipStructural == ManyMarkets /\ streamManifest.rows > 0

Structural ==
    /\ ManyMarkets
    /\ streamManifest.rows > 0
    /\ decisionManifest.rows = streamManifest.rows

WriteReceipt ==
    /\ pc = "receipt"
    /\ receipt' = [structural |-> Structural,
                   qualified |-> Structural /\ streamManifest.full /\ polygon]
    /\ pc' = "done" /\ memory' = NoMemory
    /\ UNCHANGED <<atlas, catalog, polygon, limit, todo, pool, runs, runsManifest, streams,
                   decisions, stops, switched>>

(***************************************************************************)
(* A PAUSE file is seen before a batch of runs and before a date; a kill   *)
(* takes effect anywhere.  The Polygon graph is completed beside a build.  *)
(***************************************************************************)
Halt ==
    /\ stops < MaxStops
    /\ stops' = stops + 1
    /\ pc' = "idle" /\ todo' = <<>> /\ pool' = {} /\ memory' = NoMemory
    /\ UNCHANGED <<atlas, catalog, polygon, limit, runs, runsManifest, streams, decisions,
                   receipt, switched>>

Boundary == pc \in {"runs", "stream", "decisions"} /\ pool = {} /\ todo # <<>>
Pause == Boundary /\ Halt
Kill == ~Idle /\ ~Boundary /\ Halt

PolygonCompletes ==
    /\ ~polygon /\ polygon' = TRUE
    /\ UNCHANGED <<atlas, catalog, limit, pc, todo, pool, memory, runs, runsManifest,
                   streams, decisions, receipt, stops, switched>>

Work == \/ BuildCatalog \/ NextBatch \/ (\E g \in pool : BuildRun(g)) \/ WriteRunsManifest
        \/ KeepStreamDate \/ WriteStreamFile \/ WriteStreamReceipt \/ EndStream
        \/ WriteParticipants \/ WriteParticipantsReceipt \/ WriteStreamManifest
        \/ OpenDecisions \/ KeepDecisionDay \/ WriteDecisions \/ CommitDay
        \/ WriteDecisionManifest \/ WriteReceipt
Start == \E n \in Limits : Begin(n)

Next == Start \/ Work \/ Pause \/ Kill \/ PolygonCompletes

Spec == Init /\ [][Next]_vars
(* WF_vars(Work), spelled out: some step of Work is enabled unless Idle.    *)
Progress == []<>Idle \/ []<><<Work>>_vars
FairSpec == Spec /\ WF_vars(Start) /\ Progress

(***************************************************************************)
(* The validator, with deep hashes; it may be run at any time.             *)
(***************************************************************************)

FilesMatch(shards, files) ==
    \A d \in DOMAIN shards : d \in DOMAIN files /\ files[d] = shards[d]

\* Mutant: the decisions' Polygon flag is not compared with the manifest.
SlipValid ==
    /\ streamManifest # NoManifest /\ decisionManifest # NoManifest
    /\ streamManifest.rows = decisionManifest.rows
    /\ participants.file = streamManifest.wallets
    /\ FilesMatch(streamManifest.shards, streamFiles)
    /\ FilesMatch(decisionManifest.shards, decisionFiles)

Valid ==
    /\ streamManifest # NoManifest /\ decisionManifest # NoManifest
    /\ streamManifest.rows = decisionManifest.rows
    /\ decisionManifest.flag = polygon
    /\ participants.file = streamManifest.wallets
    /\ FilesMatch(streamManifest.shards, streamFiles)
    /\ FilesMatch(decisionManifest.shards, decisionFiles)

(***************************************************************************)
(* Properties.                                                             *)
(***************************************************************************)

(* Markets that share an event, directly or through others.                *)
Sharing(m, n) == ToSet(atlas[m].events) \cap ToSet(atlas[n].events) # {}
Connected(m, n) ==
    \A S \in SUBSET DOMAIN atlas :
        m \in S /\ (\A x \in S, y \in DOMAIN atlas : Sharing(x, y) => y \in S) => n \in S
LastLabel == Max({Splits[i].end : i \in {i \in DOMAIN Splits : Splits[i].id \in LabelSplits}})

(* docs/RESEARCH.md, 590: no connected component crosses splits and no     *)
(* test payout is opened.  In the catalog put in place, markets joined     *)
(* through any chain of events are one component, and a label is opened    *)
(* only when the whole component closed before the development windows end.*)
Sealed ==
    \A m, n \in DOMAIN atlas :
        /\ Connected(m, n) <=> catalog.component[m] = catalog.component[n]
        /\ Connected(m, n) /\ m \in catalog.labelled =>
               atlas[n].closed # Open /\ atlas[n].closed < LastLabel
ComponentsSealed == [][catalog' # catalog => Sealed']_vars

(* A row of a scope, and the one that follows it there.                    *)
Followed == UNION {{<<Scopes[s][i - 1], Scopes[s][i]>> : i \in 2 .. Len(Scopes[s])} : s \in DOMAIN Scopes}

(* A place of the stream is a date and a row of its shard.                 *)
Ahead(p, q) == p[1] < q[1] \/ (p[1] = q[1] /\ p[2] < q[2])

(* The same place: no trade of the manifest's scopes is lost or doubled.   *)
(* The shards, put together, hold each trade of the chosen scopes once, in *)
(* time order and in the order its own scope had it, however often the     *)
(* build was stopped or run for other scopes in between.                   *)
StreamExact ==
    streamManifest # NoManifest =>
        LET places == Places(streamManifest.shards)
            row == [p \in places |-> Row(streamManifest.shards, p)]
            chosen == ToSet(streamManifest.scopes)
        IN /\ {row[p] : p \in places} = UNION {ToSet(Scopes[s]) : s \in chosen}
           /\ streamManifest.wallets = {row[p].wallet : p \in places}
           /\ \A p, q \in places : Ahead(p, q) =>
                 row[p] # row[q] /\ row[p].time =< row[q].time /\ <<row[q], row[p]>> \notin Followed

(* What one uninterrupted pass over the whole stream decides, day by day.  *)
OnePass(shards, flag) ==
    LET days == InOrder(DOMAIN shards)
        after[n \in 0 .. Len(days)] ==
            IF n = 0 THEN NoPass
            ELSE Pass(catalog, after[n - 1].states, shards[days[n]], flag)
    IN [d \in DOMAIN shards |-> after[CHOOSE n \in DOMAIN days : days[n] = d].out]

(* docs/RESEARCH.md, 584: a restart reproduces the artifacts' hashes.  A   *)
(* build that ends with a structurally valid receipt made the decisions of *)
(* one pass over the stream of its own manifest.  Same place, 595: a       *)
(* missing graph channel is not represented as zero activity.  Where the   *)
(* validator finds nothing, the files on disk are those decisions, with    *)
(* the Polygon flag there is now.  Row totals stand between a manifest and *)
(* a date whose file is another limit's, so this is meant for one spread   *)
(* beside the whole ledger (OneSpread of ChronicleProofs): where neither   *)
(* of two partial spreads holds the other, equal totals hide such a date.  *)
DecisionsAreOnePass ==
    /\ pc = "done" /\ receipt.structural =>
         /\ decisionManifest.scopes = streamManifest.scopes
         /\ decisionManifest.shards = OnePass(streamManifest.shards, decisionManifest.flag)
    /\ Valid => \A d \in DOMAIN streamManifest.shards :
         decisionFiles[d] = OnePass(streamManifest.shards, polygon)[d]

(* docs/CORPUS.md, 155: the same command resumes.  Kept to one set of      *)
(* scopes, stopped or not, with the graph completed when it may be, the    *)
(* build goes on ending with a structurally valid receipt.                 *)
SameCommandCompletes == [](~switched) => []<>(pc = "done" /\ receipt.structural)
====
