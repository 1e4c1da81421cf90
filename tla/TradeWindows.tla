---- MODULE TradeWindows ----
(***************************************************************************)
(* Collecting the public trades of groups of markets through a paged API   *)
(* (src/sphinx_corpus/trade_api.py).  A pool of threads takes the groups   *)
(* one by one.  A group's interval is cut into windows; a window is read   *)
(* page by page, and one that fills its last page, or times out, is halved *)
(* again and again.  Pages, windows, groups and the run leave receipts, so *)
(* that a run that was stopped, ran out of its request budget or met an    *)
(* error can be started again.                                             *)
(*                                                                         *)
(* The windows lie in the past, so the API answers the same question the   *)
(* same way: a page is modelled by its length, which the number of trades  *)
(* in the window determines, and a cached page by its name.                *)
(***************************************************************************)
EXTENDS Totals, Sequences, SequencesExt

CONSTANTS
    GroupCount,      \* groups are 1 .. GroupCount, in the order of submission
    Workers,         \* threads of the pool
    LastSecond,      \* the seconds of a group's interval are 0 .. LastSecond
    TradeCounts,     \* trades the groups may hold per second, a set of functions
    Partitions,      \* per group, partitions its volume asks for
    PageSize,
    MaximumOffset,   \* a multiple of PageSize
    MinimumWindow,   \* minimum_window_seconds
    Attempts,        \* requests _fetch makes for one page (6 in the code)
    MaxRequests,     \* the run's request budget
    MaxFaults        \* bound on failed requests and crashes of a behaviour

Groups == 1 .. GroupCount
Seconds == 0 .. LastSecond
Window == {w \in Seconds \X Seconds : w[1] =< w[2]}
SecondsIn(w) == w[1] .. w[2]

ASSUME TradeAssumption ==
    /\ GroupCount \in Nat \ {0}
    /\ LastSecond \in Nat
    /\ TradeCounts \subseteq [Groups -> [Seconds -> Nat]]
    /\ Partitions \in [Groups -> Nat \ {0}]
    /\ PageSize \in Nat \ {0}
    /\ MaximumOffset \in Nat \ {0}
    /\ MaximumOffset % PageSize = 0
    /\ MinimumWindow \in Nat
    /\ Attempts \in Nat \ {0}
    /\ MaxRequests \in Nat
    /\ MaxFaults \in Nat

VARIABLES
    trades,      \* per group and second, the trades the API knows
    pages,       \* raw pages on disk: <<group, window, offset>>
    windows,     \* window receipts
    normalizedRows,  \* windows whose normalized file exists: <<group, window>>
    groups,      \* group receipts
    summary,     \* the run's receipt
    mode,        \* the main thread
    result,      \* per group, what its future holds
    worker,      \* the threads
    requests,    \* requests reserved by this run
    faults       \* failed requests and crashes so far

disk == <<pages, windows, normalizedRows, groups, summary>>
tradeVars == <<trades, disk, mode, result, worker, requests, faults>>

Offsets == {o \in 0 .. MaximumOffset : o % PageSize = 0}
Whole(n) == [complete |-> TRUE, rows |-> n, gaps |-> 0]
Unresolved == [complete |-> FALSE, rows |-> 0, gaps |-> 1]
Unknown == [complete |-> FALSE, rows |-> 0, gaps |-> 0]
Both(a, b) ==
    [complete |-> a.complete /\ b.complete, rows |-> a.rows + b.rows, gaps |-> a.gaps + b.gaps]

Idle ==
    [group |-> 0, at |-> "idle", todo |-> <<>>, stack |-> <<>>, sum |-> Whole(0),
     value |-> Unknown, offset |-> 0, attempt |-> 0]
Steps ==
    {"idle", "enter", "page", "split", "rows", "receipt", "clean", "return", "group"}

(* A frame of _window: its window, and what the left half returned.        *)
Frame(w) == [window |-> w, side |-> "left", left |-> Unknown]

TradeInit ==
    /\ trades \in TradeCounts
    /\ pages = {}
    /\ windows = [p \in Groups \X Window |-> [status |-> "none", outcome |-> Unknown]]
    /\ normalizedRows = {}
    /\ groups = [g \in Groups |-> Unknown]
    /\ summary = [complete |-> FALSE, requests |-> 0]
    /\ mode = "down"
    /\ result = [g \in Groups |-> "none"]
    /\ worker = [t \in Workers |-> Idle]
    /\ requests = 0
    /\ faults = 0

(***************************************************************************)
(* The main thread.                                                        *)
(***************************************************************************)
Launch ==
    /\ mode = "down"
    /\ ~summary.complete
    /\ mode' = "running"
    /\ result' = [g \in Groups |-> "none"]
    /\ requests' = 0
    /\ UNCHANGED <<trades, disk, worker, faults>>

(* A future holds an exception: the groups no thread took are cancelled.   *)
Notice(g) ==
    /\ mode = "running"
    /\ result[g] \in {"budget", "error"}
    /\ mode' = result[g]
    /\ UNCHANGED <<trades, disk, result, worker, requests, faults>>

Done == mode = "running" /\ \A g \in Groups : result[g] \in {"completed", "skipped"}

(* The pool is shut down only when every thread is back; an error is then  *)
(* raised, and everything else writes the run's receipt.                   *)
EndRun ==
    /\ mode # "down"
    /\ mode = "running" => \A g \in Groups : result[g] \in {"completed", "skipped", "incomplete"}
    /\ \A t \in Workers : worker[t].at = "idle"
    /\ summary' = IF mode = "error" THEN summary
                  ELSE [complete |-> Done, requests |-> requests]
    /\ mode' = "down"
    /\ UNCHANGED <<trades, pages, windows, normalizedRows, groups, result, worker, requests, faults>>

Crash ==
    /\ mode # "down"
    /\ faults < MaxFaults
    /\ faults' = faults + 1
    /\ mode' = "down"
    /\ worker' = [t \in Workers |-> Idle]
    /\ UNCHANGED <<trades, disk, result, requests>>

(***************************************************************************)
(* A thread: _collect_group.                                               *)
(***************************************************************************)
Top(t) == Last(worker[t].stack).window
Group(t) == worker[t].group
Here(t) == <<Group(t), Top(t)>>

InitialWindows(g) ==
    LET duration == LastSecond + 1
        count == IF Partitions[g] =< duration THEN Partitions[g] ELSE duration
    IN  [i \in 1 .. count |->
            <<(duration * (i - 1)) \div count, (duration * i) \div count - 1>>]

Take(t, g) ==
    /\ mode = "running"
    /\ worker[t].at = "idle"
    /\ result[g] = "none"
    /\ \A h \in 1 .. g - 1 : result[h] # "none"
    /\ IF groups[g].complete
       THEN result' = [result EXCEPT ![g] = "skipped"] /\ UNCHANGED worker
       ELSE /\ result' = [result EXCEPT ![g] = "running"]
            /\ worker' = [worker EXCEPT ![t] =
                  [Idle EXCEPT !.group = g, !.at = "enter", !.todo = Tail(InitialWindows(g)),
                               !.stack = <<Frame(Head(InitialWindows(g)))>>]]
    /\ UNCHANGED <<trades, disk, mode, requests, faults>>

(***************************************************************************)
(* _window, for the top frame of the thread's stack.                       *)
(***************************************************************************)

\* Mutant: a gap is not asked for again.
SlipLeaf(p) == windows[p].status \in {"leaf_complete", "unresolved"}

Leaf(p) == windows[p].status = "leaf_complete" /\ p \in normalizedRows
Split(p) == windows[p].status \in {"split", "split_complete"}
Cut(w) == w[1] + (w[2] - w[1]) \div 2
LeftHalf(w) == <<w[1], Cut(w)>>

RightHalf(w) == <<Cut(w) + 1, w[2]>>

Enter(t) ==
    /\ worker[t].at = "enter"
    /\ worker' = [worker EXCEPT ![t] =
          IF Leaf(Here(t)) THEN [@ EXCEPT !.at = "return", !.value = windows[Here(t)].outcome]
          ELSE IF Split(Here(t))
               THEN [@ EXCEPT !.stack = Append(worker[t].stack, Frame(LeftHalf(Top(t))))]
          ELSE [@ EXCEPT !.at = "page", !.offset = 0, !.attempt = 0]]
    /\ UNCHANGED <<trades, disk, mode, result, requests, faults>>

Count(p) == Total(trades[p[1]], SecondsIn(p[2]))
Least(a, b) == IF a =< b THEN a ELSE b
Length(p, o) == IF Count(p) =< o THEN 0 ELSE Least(PageSize, Count(p) - o)
Full(p, o) == Length(p, o) = PageSize

(* Where the thread goes with a page: the first one, then the one at the   *)
(* maximum offset, then those in between until one is short.               *)
After(p, o) ==
    IF o = 0 THEN IF Full(p, 0) THEN <<"page", MaximumOffset>> ELSE <<"rows", 0>>
    ELSE IF o = MaximumOffset
         THEN IF Full(p, o) THEN <<"split", 0>>
              ELSE IF PageSize < MaximumOffset THEN <<"page", PageSize>> ELSE <<"rows", 0>>
    ELSE IF Full(p, o) /\ o + PageSize < MaximumOffset THEN <<"page", o + PageSize>>
    ELSE <<"rows", 0>>

GotPage(t) ==
    worker' = [worker EXCEPT ![t] =
        [@ EXCEPT !.at = After(Here(t), worker[t].offset)[1],
                  !.offset = After(Here(t), worker[t].offset)[2], !.attempt = 0]]

Page(t) == <<Group(t), Top(t), worker[t].offset>>

PageCached(t) ==
    /\ worker[t].at = "page"
    /\ Page(t) \in pages
    /\ GotPage(t)
    /\ UNCHANGED <<trades, disk, mode, result, requests, faults>>

(* RequestCounter.reserve, under its lock.                                 *)
InBudget == requests < MaxRequests

(* The answer comes and is written as a raw page with its receipt.         *)
PageFetched(t) ==
    /\ worker[t].at = "page"
    /\ Page(t) \notin pages
    /\ InBudget
    /\ requests' = requests + 1
    /\ pages' = pages \cup {Page(t)}
    /\ GotPage(t)
    /\ UNCHANGED <<trades, windows, normalizedRows, groups, summary, mode, result, faults>>

(* The exception leaves the thread; its future holds it.                   *)
Raise(t, why) ==
    /\ worker' = [worker EXCEPT ![t] = Idle]
    /\ result' = [result EXCEPT ![Group(t)] = why]

(* A request fails: it is made again, and after the last attempt a time    *)
(* out halves the window while any other error is raised.                  *)
RequestFails(t, kind) ==
    /\ worker[t].at = "page"
    /\ Page(t) \notin pages
    /\ InBudget
    /\ requests' = requests + 1
    /\ faults < MaxFaults
    /\ faults' = faults + 1
    /\ IF worker[t].attempt < Attempts - 1
       THEN worker' = [worker EXCEPT ![t].attempt = @ + 1] /\ UNCHANGED result
       ELSE \/ /\ kind = "timeout"
               /\ worker' = [worker EXCEPT ![t] =
                                [@ EXCEPT !.at = "split", !.offset = 0, !.attempt = 0]]
               /\ UNCHANGED result
            \/ kind = "error" /\ Raise(t, "error")
    /\ UNCHANGED <<trades, disk, mode>>

OverBudget(t) ==
    /\ worker[t].at = "page"
    /\ Page(t) \notin pages
    /\ ~InBudget
    /\ Raise(t, "budget")
    /\ UNCHANGED <<trades, disk, mode, requests, faults>>

Receipt(p, status, outcome) ==
    windows' = [windows EXCEPT ![p] = [status |-> status, outcome |-> outcome]]

(* A window too small to be halved is given up as a gap.                   *)
SplitWindow(t) ==
    /\ worker[t].at = "split"
    /\ IF Top(t)[2] - Top(t)[1] =< MinimumWindow
       THEN /\ Receipt(Here(t), "unresolved", Unresolved)
            /\ worker' = [worker EXCEPT ![t] = [@ EXCEPT !.at = "return", !.value = Unresolved]]
       ELSE /\ Receipt(Here(t), "split", Unknown)
            /\ worker' = [worker EXCEPT ![t].at = "enter"]
    /\ UNCHANGED <<trades, pages, normalizedRows, groups, summary, mode, result, requests, faults>>

Normalize(t) ==
    /\ worker[t].at = "rows"
    /\ normalizedRows' = normalizedRows \cup {Here(t)}
    /\ worker' = [worker EXCEPT ![t].at = "receipt"]
    /\ UNCHANGED <<trades, pages, windows, groups, summary, mode, result, requests, faults>>

(* The rows of the pages that were read.                                   *)
RowsRead(p) == Total([o \in Offsets |-> Length(p, o)], Offsets)

LeafReceipt(t) ==
    /\ worker[t].at = "receipt"
    /\ Receipt(Here(t), "leaf_complete", Whole(RowsRead(Here(t))))
    /\ worker' = [worker EXCEPT ![t] =
                     [@ EXCEPT !.at = "return", !.value = Whole(RowsRead(Here(t)))]]
    /\ UNCHANGED <<trades, pages, normalizedRows, groups, summary, mode, result, requests, faults>>

\* Mutant: the receipt of a split forgets the left half.
SlipCombined(t) == worker[t].value

(* What the halves of the frame below the top come to.                     *)
Combined(t) == Both(worker[t].stack[Len(worker[t].stack) - 1].left, worker[t].value)

Superseded(t) == Combined(t).complete

(* The top frame returns to the frame below it, or to _collect_group.      *)
ReturnLeft(t) ==
    LET n == Len(worker[t].stack)
    IN  /\ worker[t].at = "return"
        /\ n > 1
        /\ worker[t].stack[n - 1].side = "left"
        /\ LET parent == worker[t].stack[n - 1]
           IN  worker' = [worker EXCEPT ![t] =
                  [@ EXCEPT !.at = "enter", !.value = Unknown,
                            !.stack = SubSeq(worker[t].stack, 1, n - 2) \o
                                <<[parent EXCEPT !.side = "right", !.left = worker[t].value],
                                  Frame(RightHalf(parent.window))>>]]
        /\ UNCHANGED <<trades, disk, mode, result, requests, faults>>

ReturnRight(t) ==
    LET n == Len(worker[t].stack)
    IN  /\ worker[t].at = "return"
        /\ n > 1
        /\ worker[t].stack[n - 1].side = "right"
        /\ Receipt(<<Group(t), worker[t].stack[n - 1].window>>, "split_complete", Combined(t))
        /\ worker' = [worker EXCEPT ![t] =
              [@ EXCEPT !.at = IF Superseded(t) THEN "clean" ELSE "return",
                        !.value = Combined(t), !.stack = SubSeq(worker[t].stack, 1, n - 1)]]
        /\ UNCHANGED <<trades, pages, normalizedRows, groups, summary, mode, result, requests, faults>>

(* A split whose halves are complete needs its own pages no longer.        *)
Clean(t) ==
    /\ worker[t].at = "clean"
    /\ pages' = pages \ {<<Group(t), Top(t), o>> : o \in {0, MaximumOffset}}
    /\ worker' = [worker EXCEPT ![t].at = "return"]
    /\ UNCHANGED <<trades, windows, normalizedRows, groups, summary, mode, result, requests, faults>>

NextInitial(t) ==
    /\ worker[t].at = "return"
    /\ Len(worker[t].stack) = 1
    /\ LET sum == Both(worker[t].sum, worker[t].value)
           todo == worker[t].todo
       IN  worker' = [worker EXCEPT ![t] =
              IF todo = <<>> THEN [@ EXCEPT !.at = "group", !.sum = sum, !.stack = <<>>]
              ELSE [@ EXCEPT !.at = "enter", !.sum = sum, !.value = Unknown,
                             !.todo = Tail(todo), !.stack = <<Frame(Head(todo))>>]]
    /\ UNCHANGED <<trades, disk, mode, result, requests, faults>>

GroupReceipt(t) ==
    /\ worker[t].at = "group"
    /\ groups' = [groups EXCEPT ![Group(t)] = worker[t].sum]
    /\ result' = [result EXCEPT ![Group(t)] =
                     IF worker[t].sum.complete THEN "completed" ELSE "incomplete"]
    /\ worker' = [worker EXCEPT ![t] = Idle]
    /\ UNCHANGED <<trades, pages, windows, normalizedRows, summary, mode, requests, faults>>

Thread(t) ==
    \/ \E g \in Groups : Take(t, g)
    \/ Enter(t) \/ PageCached(t) \/ PageFetched(t) \/ OverBudget(t)
    \/ SplitWindow(t) \/ Normalize(t) \/ LeafReceipt(t)
    \/ ReturnLeft(t) \/ ReturnRight(t) \/ Clean(t)
    \/ NextInitial(t) \/ GroupReceipt(t)

Main == Launch \/ EndRun \/ \E g \in Groups : Notice(g)

TradeNext ==
    \/ Main
    \/ \E t \in Workers : Thread(t)
    \/ \E t \in Workers, kind \in {"timeout", "error"} : RequestFails(t, kind)
    \/ Crash

TradeSpec == TradeInit /\ [][TradeNext]_tradeVars

(* Threads and main thread go on, and a run that did not collect           *)
(* everything is started again.                                            *)
FairTradeSpec == TradeSpec /\ WF_tradeVars(Main) /\ \A t \in Workers : WF_tradeVars(Thread(t))

(***************************************************************************)
(* Properties.                                                             *)
(***************************************************************************)
Files(g) == {w \in Window : <<g, w>> \in normalizedRows}

(* A receipt that says complete counts every trade of its window once, and *)
(* every one of them is in a normalized file: halving loses no second,     *)
(* whatever was timed out, cached, crashed and started again; and the      *)
(* run's receipt says complete only when every group's does.               *)
CompleteIsExact ==
    /\ \A p \in Groups \X Window :
          windows[p].outcome.complete =>
             /\ windows[p].outcome = Whole(Count(p))
             /\ SecondsIn(p[2]) \subseteq UNION {SecondsIn(w) : w \in Files(p[1])}
    /\ \A g \in Groups :
          groups[g].complete =>
             /\ groups[g].rows = Total(trades[g], Seconds)
             /\ Seconds = UNION {SecondsIn(w) : w \in Files(g)}
    /\ summary.complete => \A g \in Groups : groups[g].complete

(* A window of minimal size that holds more trades than the pages reach.   *)
Saturated(p) ==
    /\ Full(p, 0) /\ Full(p, MaximumOffset)
    /\ p[2][2] - p[2][1] =< MinimumWindow

(* Runs that are repeated collect every group, however small the budget of *)
(* each, unless a window of it too small to be halved is saturated.        *)
Collects ==
    \A g \in Groups :
        <>[](groups[g].complete \/ \E w \in Window : Saturated(<<g, w>>))
====
