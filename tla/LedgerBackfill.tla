---- MODULE LedgerBackfill ----
(***************************************************************************)
(* Collecting the order fills of one exchange contract from an RPC node    *)
(* into files, one per range of blocks (src/sphinx_corpus/ledger.py,       *)
(* src/sphinx_corpus/rpc.py).  The range of the corpus window is found by  *)
(* binary search over block timestamps; the spans asked for adapt to the   *)
(* node's errors and to the number of logs; a state file says how far the  *)
(* collection is, and a run may stop anywhere and be started again.        *)
(*                                                                         *)
(* A confirmed block never changes, so what a file of a range holds is     *)
(* determined by the range: files are modelled by the ranges in their      *)
(* names, and the counts of rows by the blocks' fills.                     *)
(***************************************************************************)
EXTENDS Totals

CONSTANTS
    LastBlock,       \* bound on the chain: confirmed blocks are 0 .. LastBlock
    Stamps,          \* timestamps the chain may have, a set of functions
    FillCounts,      \* matching logs its blocks may hold, a set of functions
    WindowStart,     \* the intersection of corpus window and active window,
    WindowEnd,       \* its end excluded
    InitialSpan, MinimumSpan, MaximumSpan, TargetLogs,
    MaxChunks,       \* max_chunks, LastBlock + 1 for None
    MaxStops         \* bound on errors, refusals and crashes of a behaviour

Blocks == 0 .. LastBlock

ASSUME ChainAssumption ==
    /\ LastBlock \in Nat
    /\ Stamps \subseteq [Blocks -> Nat]
    /\ \A s \in Stamps : \A b, c \in Blocks : b =< c => s[b] =< s[c]
    /\ \A s \in Stamps : s[LastBlock] >= WindowEnd
    /\ FillCounts \subseteq [Blocks -> Nat]
    /\ WindowStart \in Nat
    /\ WindowEnd \in Nat
    /\ WindowStart < WindowEnd

ASSUME ScanAssumption ==
    /\ InitialSpan \in Nat \ {0}
    /\ MinimumSpan \in Nat \ {0}
    /\ MaximumSpan \in Nat
    /\ MinimumSpan =< MaximumSpan
    /\ TargetLogs \in Nat
    /\ MaxChunks \in Nat \ {0}
    /\ MaxStops \in Nat

VARIABLES
    stamp, fills,    \* the chain
    tip,             \* the newest confirmed block
    pc,              \* where the run is; "idle": no process runs
    head,            \* the newest block this run asked for
    low, high,       \* the binary search
    first,           \* its answer for WindowStart
    saved,           \* the state file
    span, last,      \* the range asked for: span blocks, last its last one
    raw, normalized, receipts,   \* the ranges of the files
    done,            \* chunks of this run
    stops,           \* errors, refusals and crashes so far
    torn             \* a run stopped between a range's first file and the state

chain == <<stamp, fills>>
search == <<head, low, high, first>>
ask == <<span, last>>
files == <<raw, normalized, receipts>>
vars == <<chain, tip, pc, search, saved, ask, files, done, stops, torn>>

Spans == Blocks \X Blocks
In(r) == r[1] .. r[2]

Locations ==
    {"idle", "searchStart", "searchEnd", "loop", "asking",
     "raw", "normalized", "receipt", "state"}

(* The state file; present is FALSE as long as it does not exist.          *)
NoState ==
    [present |-> FALSE, start |-> 0, end |-> 0, next |-> 0, span |-> InitialSpan,
     rows |-> 0, complete |-> FALSE]
State ==
    [present : BOOLEAN, start : Blocks, end : -1 .. LastBlock, next : 0 .. LastBlock + 1,
     span : Nat, rows : Nat, complete : BOOLEAN]

TypeOK ==
    /\ stamp \in Stamps
    /\ fills \in FillCounts
    /\ tip \in Blocks
    /\ pc \in Locations
    /\ head \in Blocks
    /\ low \in Blocks
    /\ high \in Blocks
    /\ first \in Blocks
    /\ saved \in State
    /\ span \in Nat
    /\ last \in Blocks
    /\ raw \subseteq Spans
    /\ normalized \subseteq Spans
    /\ receipts \subseteq Spans
    /\ done \in 0 .. MaxChunks
    /\ stops \in 0 .. MaxStops
    /\ torn \in BOOLEAN

Init ==
    /\ stamp \in Stamps
    /\ fills \in FillCounts
    /\ tip \in Blocks
    /\ pc = "idle"
    /\ head = 0 /\ low = 0 /\ high = 0 /\ first = 0
    /\ saved = NoState
    /\ span = 1 /\ last = 0
    /\ raw = {} /\ normalized = {} /\ receipts = {}
    /\ done = 0
    /\ stops = 0
    /\ torn = FALSE

(* A block becomes confirmed.                                              *)
Grow ==
    /\ tip < LastBlock
    /\ tip' = tip + 1
    /\ UNCHANGED <<chain, pc, search, saved, ask, files, done, stops, torn>>

(* The run is over, by its end or by an exception.                         *)
Leave ==
    /\ pc' = "idle"
    /\ head' = 0 /\ low' = 0 /\ high' = 0 /\ first' = 0
    /\ span' = 1 /\ last' = 0
    /\ done' = 0

(***************************************************************************)
(* The range of the window: block_at_or_after for its start and its end,   *)
(* both below the same newest block; either raises when that is too early. *)
(***************************************************************************)
Start ==
    /\ pc = "idle"
    /\ ~saved.complete
    /\ IF saved.present
       THEN pc' = "loop" /\ UNCHANGED <<head, high>>
       ELSE /\ stamp[tip] >= WindowStart
            /\ pc' = "searchStart"
            /\ head' = tip
            /\ high' = tip
    /\ UNCHANGED <<chain, tip, low, first, saved, ask, files, done, stops, torn>>

Target == IF pc = "searchStart" THEN WindowStart ELSE WindowEnd
Middle == (low + high) \div 2

\* Mutant: a block of exactly the target's second counts as too early.
SlipHalve ==
    /\ pc \in {"searchStart", "searchEnd"}
    /\ low < high
    /\ IF stamp[Middle] =< Target
       THEN low' = Middle + 1 /\ UNCHANGED high
       ELSE high' = Middle /\ UNCHANGED low
    /\ UNCHANGED <<chain, tip, pc, head, first, saved, ask, files, done, stops, torn>>

Halve ==
    /\ pc \in {"searchStart", "searchEnd"}
    /\ low < high
    /\ IF stamp[Middle] < Target
       THEN low' = Middle + 1 /\ UNCHANGED high
       ELSE high' = Middle /\ UNCHANGED low
    /\ UNCHANGED <<chain, tip, pc, head, first, saved, ask, files, done, stops, torn>>

FoundStart ==
    /\ pc = "searchStart"
    /\ low = high
    /\ IF stamp[head] >= WindowEnd
       THEN /\ pc' = "searchEnd"
            /\ first' = low
            /\ low' = 0
            /\ high' = head
            /\ UNCHANGED <<head, ask, done>>
       ELSE Leave
    /\ UNCHANGED <<chain, tip, saved, files, stops, torn>>

(* _initial_state, written before anything is collected.                   *)
FoundEnd ==
    /\ pc = "searchEnd"
    /\ low = high
    /\ saved' = [NoState EXCEPT !.present = TRUE, !.start = first, !.end = low - 1,
                                !.next = first]
    /\ pc' = "loop"
    /\ head' = 0 /\ low' = 0 /\ high' = 0 /\ first' = 0
    /\ UNCHANGED <<chain, tip, ask, files, done, stops, torn>>

(***************************************************************************)
(* The chunks of _collect_contract.                                        *)
(***************************************************************************)
Smaller(a, b) == IF a =< b THEN a ELSE b
Larger(a, b) == IF a =< b THEN b ELSE a
Half(n) == Larger(MinimumSpan, n \div 2)

Spent == done >= MaxChunks

Finish ==
    /\ pc = "loop"
    /\ saved.next > saved.end \/ Spent
    /\ Leave
    /\ UNCHANGED <<chain, tip, saved, files, stops, torn>>

NextChunk ==
    /\ pc = "loop"
    /\ saved.next =< saved.end
    /\ ~Spent
    /\ span' = Larger(MinimumSpan, Smaller(MaximumSpan, saved.span))
    /\ pc' = "asking"
    /\ UNCHANGED <<chain, tip, search, saved, last, files, done, stops, torn>>

Asked == Smaller(saved.end, saved.next + span - 1)
Rows(r) == Total(fills, In(r))

(* eth_getLogs fails; the smallest span is not asked for again.            *)
AskFails ==
    /\ pc = "asking"
    /\ stops < MaxStops
    /\ stops' = stops + 1
    /\ IF span =< MinimumSpan
       THEN Leave
       ELSE span' = Half(span) /\ UNCHANGED <<pc, search, last, done>>
    /\ UNCHANGED <<chain, tip, saved, files, torn>>

TooMany == Rows(<<saved.next, Asked>>) > TargetLogs /\ span > MinimumSpan

AskLess ==
    /\ pc = "asking"
    /\ TooMany
    /\ span' = Half(span)
    /\ UNCHANGED <<chain, tip, pc, search, saved, last, files, done, stops, torn>>

Answered ==
    /\ pc = "asking"
    /\ ~TooMany
    /\ last' = Asked
    /\ pc' = "raw"
    /\ UNCHANGED <<chain, tip, search, saved, span, files, done, stops, torn>>

Chunk == <<saved.next, last>>

\* Mutant: the receipt is written in front of the normalized rows.
SlipWriteNormalized ==
    /\ pc = "normalized"
    /\ receipts' = receipts \cup {Chunk}
    /\ pc' = "receipt"
    /\ UNCHANGED <<chain, tip, search, saved, ask, raw, normalized, done, stops, torn>>

WriteRaw ==
    /\ pc = "raw"
    /\ raw' = raw \cup {Chunk}
    /\ pc' = "normalized"
    /\ UNCHANGED <<chain, tip, search, saved, ask, normalized, receipts, done, stops, torn>>

WriteNormalized ==
    /\ pc = "normalized"
    /\ normalized' = normalized \cup {Chunk}
    /\ pc' = "receipt"
    /\ UNCHANGED <<chain, tip, search, saved, ask, raw, receipts, done, stops, torn>>

WriteReceipt ==
    /\ pc = "receipt"
    /\ receipts' = receipts \cup {Chunk}
    /\ pc' = "state"
    /\ UNCHANGED <<chain, tip, search, saved, ask, raw, normalized, done, stops, torn>>

(* Few logs double the span, many halve it.                                *)
NextSpan(n) ==
    IF n < Larger(1, TargetLogs \div 4) THEN Smaller(MaximumSpan, span * 2)
    ELSE IF n > (TargetLogs * 4) \div 5 THEN Half(span)
    ELSE span

\* Mutant: the last block of a chunk is the first of the next.
SlipFollowing == last

Following == last + 1

\* Mutant: the collection is complete only behind its last block.
SlipAtEnd == last > saved.end

AtEnd == last >= saved.end

SaveState ==
    /\ pc = "state"
    /\ saved' = [saved EXCEPT !.next = Following, !.rows = @ + Rows(Chunk),
                              !.span = NextSpan(Rows(Chunk)), !.complete = AtEnd]
    /\ done' = done + 1
    /\ pc' = "loop"
    /\ span' = 1 /\ last' = 0
    /\ UNCHANGED <<chain, tip, search, files, stops, torn>>

(* Any other exception (a block header, the disk reserve), or the process  *)
(* is killed.  The files on disk stay as they are.                         *)
Stop ==
    /\ pc # "idle"
    /\ stops < MaxStops
    /\ stops' = stops + 1
    /\ torn' = (torn \/ pc \in {"normalized", "receipt", "state"})
    /\ Leave
    /\ UNCHANGED <<chain, tip, saved, files>>

Work ==
    \/ Start \/ Halve \/ FoundStart \/ FoundEnd
    \/ Finish \/ NextChunk \/ AskLess \/ Answered
    \/ WriteRaw \/ WriteNormalized \/ WriteReceipt \/ SaveState

Next == Grow \/ Work \/ AskFails \/ Stop

Spec == Init /\ [][Next]_vars

(* The chain goes on, a run that is on its way takes its next step, and    *)
(* one that ended is started again.                                        *)
FairSpec == Spec /\ WF_vars(Grow) /\ WF_vars(Work)

(***************************************************************************)
(* Properties.                                                             *)
(***************************************************************************)
IsFirst(b, t) == stamp[b] >= t /\ \A c \in 0 .. b - 1 : stamp[c] < t

(* The range in the state file is that of the window: its first block is   *)
(* the first of the window, and the block behind its last the first that   *)
(* is past it (block_at_or_after at both ends, _bounds takes one off).     *)
BoundsExact ==
    saved.present => IsFirst(saved.start, WindowStart) /\ IsFirst(saved.end + 1, WindowEnd)

(* The state file counts every fill of the blocks behind it once, however  *)
(* often runs were stopped and whatever spans they asked for.              *)
RowsExact == saved.present => saved.rows = Total(fills, saved.start .. saved.next - 1)

(* Every block the state file counts as collected is in a range with a     *)
(* receipt, and a receipt is never ahead of its files.                     *)
FilesCover ==
    /\ \A b \in saved.start .. saved.next - 1 : \E r \in receipts : b \in In(r)
    /\ receipts \subseteq normalized
    /\ normalized \subseteq raw

(* As long as no run stopped between the first file of a range and the     *)
(* state file, no block is in two files; the manifest's row_count adds up  *)
(* the rows of all files.                                                  *)
FilesDisjoint ==
    torn \/ \A r, s \in raw : r = s \/ In(r) \cap In(s) = {}

(* What the state file says is so: its range is the window's, the fills of *)
(* the blocks behind it are counted once, and their rows are stored, once  *)
(* unless a run was torn.                                                  *)
StateIsTrue == BoundsExact /\ RowsExact /\ FilesCover /\ FilesDisjoint

(* Errors that end do not keep the collection from its end, unless the     *)
(* window holds no block at all: then complete is never set.               *)
Completes == <>(saved.complete \/ (saved.present /\ saved.end < saved.start))
====
