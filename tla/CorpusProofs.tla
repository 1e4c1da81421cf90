---------------------------- MODULE CorpusProofs ----------------------------
(***************************************************************************)
(* What the corpus says it has collected is true: the state file of the    *)
(* ledger, for every chain, window and span, wherever errors, refusals and *)
(* crashes stop the runs; and the receipts of the trade collector, for any *)
(* trades, windows, page sizes, budgets, threads and stops.                *)
(***************************************************************************)
EXTENDS LedgerBackfill, TradeWindows, TotalsProofs, SequenceTheorems

(***************************************************************************)
(* The ledger.                                                             *)
(***************************************************************************)
LEMMA BlocksAreNats ==
  /\ LastBlock \in Nat
  /\ Blocks \subseteq Nat
  /\ \A b : b \in Blocks <=> b \in Int /\ 0 =< b /\ b =< LastBlock
  BY ChainAssumption DEF Blocks

(***************************************************************************)
(* The inductive invariant.                                                *)
(***************************************************************************)

Searching == pc \in {"searchStart", "searchEnd"}
Writing == {"raw", "normalized", "receipt", "state"}

(* The block searched for is between low and high.                         *)
Bracket ==
    /\ pc = "idle" => low = 0
    /\ Searching => /\ low =< high /\ high =< head
                    /\ stamp[high] >= Target
                    /\ \A c \in 0 .. low - 1 : stamp[c] < Target
    /\ pc = "searchEnd" => IsFirst(first, WindowStart)

(* The state file exists where chunks are collected, and stays within its  *)
(* bounds.                                                                 *)
Progress ==
    /\ ~saved.present => saved = NoState
    /\ Searching => ~saved.present
    /\ saved.present => saved.start =< saved.next /\ saved.next =< saved.end + 1
    /\ pc \in {"loop", "asking"} \cup Writing => saved.present
    /\ pc = "asking" => saved.next =< saved.end /\ span >= 1
    /\ pc \in Writing => saved.next =< last /\ last =< saved.end
    /\ pc \in {"asking"} \cup Writing => done < MaxChunks

(* What is on disk of the chunk at hand, and where the rest is.            *)
Stored ==
    /\ pc \in {"normalized", "receipt", "state"} => Chunk \in raw
    /\ pc \in {"receipt", "state"} => Chunk \in normalized
    /\ pc = "state" => Chunk \in receipts
    /\ torn \/ \A r \in raw :
          r[2] < saved.next \/ (pc \in {"normalized", "receipt", "state"} /\ r = Chunk)

IInv == TypeOK /\ Bracket /\ Progress /\ Stored /\ StateIsTrue

(***************************************************************************)
(* The search.                                                             *)
(***************************************************************************)

LEMMA StampsAscend ==
  ASSUME TypeOK
  PROVE  /\ stamp \in [Blocks -> Nat]
         /\ \A b, c \in Blocks : b =< c => stamp[b] =< stamp[c]
  BY ChainAssumption DEF TypeOK

LEMMA BracketHalves ==
  ASSUME TypeOK, Bracket, Searching, low < high
  PROVE  /\ Middle \in Blocks /\ Middle + 1 \in Blocks
         /\ low =< Middle /\ Middle < high
         /\ stamp[Middle] < Target => \A c \in 0 .. Middle : stamp[c] < Target
<1>1. low \in Nat /\ high \in Nat /\ high =< LastBlock
  BY BlocksAreNats DEF TypeOK
<1>2. Middle \in Nat /\ low =< Middle /\ Middle < high
  BY <1>1 DEF Middle
<1>3. Middle \in Blocks /\ Middle + 1 \in Blocks
  BY <1>1, <1>2, BlocksAreNats
<1>4. ASSUME stamp[Middle] < Target, NEW c \in 0 .. Middle
      PROVE  stamp[c] < Target
  <2>1. c \in Blocks /\ c =< Middle
    BY <1>1, <1>2, BlocksAreNats
  <2>2. stamp[c] =< stamp[Middle] /\ stamp[c] \in Nat /\ stamp[Middle] \in Nat
    BY <1>3, <2>1, StampsAscend
  <2>3. Target \in Nat
    BY ChainAssumption DEF Target
  <2>. QED  BY <1>4, <2>2, <2>3
<1>. QED  BY <1>2, <1>3, <1>4

(* Where the bracket has closed is the block that was searched for.        *)
LEMMA SearchFinds ==
  ASSUME TypeOK, Bracket, Searching, low = high
  PROVE  IsFirst(low, Target)
  BY DEF Bracket, IsFirst

LEMMA WindowOrder ==
  ASSUME TypeOK, NEW b \in Blocks, NEW c \in Blocks,
         IsFirst(b, WindowStart), IsFirst(c, WindowEnd)
  PROVE  b =< c
<1>1. stamp[c] \in Nat /\ stamp[c] >= WindowEnd /\ WindowStart < WindowEnd
  BY StampsAscend, ChainAssumption DEF IsFirst
<1>2. ~ (stamp[c] < WindowStart)
  BY <1>1, ChainAssumption
<1>3. c \notin 0 .. b - 1
  BY <1>2 DEF IsFirst
<1>. QED  BY <1>3, BlocksAreNats

(***************************************************************************)
(* Steps that leave the state file and the files alone.                    *)
(***************************************************************************)

LEMMA TruthKept ==
  ASSUME StateIsTrue, UNCHANGED <<chain, saved, files, torn>>
  PROVE  StateIsTrue'
  BY DEF StateIsTrue, BoundsExact, RowsExact, FilesCover, FilesDisjoint, IsFirst, chain, files, In

LEMMA ScanFacts ==
  /\ MinimumSpan \in Nat /\ MinimumSpan >= 1 /\ MaximumSpan \in Nat /\ InitialSpan \in Nat
  /\ \A n \in Nat : Half(n) \in Nat /\ Half(n) >= 1
  /\ \A n \in Nat : /\ Larger(MinimumSpan, Smaller(MaximumSpan, n)) \in Nat
                    /\ Larger(MinimumSpan, Smaller(MaximumSpan, n)) >= 1
  BY ScanAssumption DEF Half, Larger, Smaller

LEMMA LedgerInit ==
  ASSUME Init
  PROVE  IInv
<1>1. 0 \in Blocks /\ 0 \in -1 .. LastBlock /\ 0 \in 0 .. LastBlock + 1
  BY BlocksAreNats
<1>2. NoState \in State
  BY <1>1, ScanAssumption DEF NoState, State
<1>3. TypeOK
  <2>1. 0 \in 0 .. MaxChunks /\ 0 \in 0 .. MaxStops
    BY ScanAssumption
  <2>. QED  BY <1>1, <1>2, <2>1 DEF Init, TypeOK, Locations
<1>4. Bracket
  BY DEF Init, Bracket, Searching
<1>5. ~ saved.present /\ saved.start = 0 /\ saved.next = 0
  BY DEF Init, NoState
<1>6. Progress
  BY <1>5 DEF Init, Progress, Searching, Writing
<1>7. Stored
  BY DEF Init, Stored
<1>8. StateIsTrue
  BY <1>5 DEF Init, StateIsTrue, BoundsExact, RowsExact, FilesCover, FilesDisjoint
<1>. QED  BY <1>3, <1>4, <1>6, <1>7, <1>8 DEF IInv

LEMMA GrowKeeps ==
  ASSUME IInv, Grow
  PROVE  IInv'
<1>. USE DEF IInv, Grow
<1>1. TypeOK'
  BY BlocksAreNats DEF TypeOK, chain, search, ask, files
<1>2. Bracket'
  BY DEF Bracket, Searching, Target, IsFirst, chain, search
<1>3. Progress'
  BY DEF Progress, Searching, Writing, ask
<1>4. Stored'
  BY DEF Stored, Chunk, files, ask
<1>5. StateIsTrue'
  BY TruthKept
<1>. QED  BY <1>1, <1>2, <1>3, <1>4, <1>5

LEMMA StartKeeps ==
  ASSUME IInv, Start
  PROVE  IInv'
<1>. USE DEF IInv, Start
<1>1. TypeOK'
  BY BlocksAreNats DEF TypeOK, Locations, chain, ask, files
<1>2. Bracket'
  <2>1. low' = 0 /\ stamp' = stamp
    BY DEF Bracket, chain
  <2>2. CASE saved.present
    BY <2>1, <2>2 DEF Bracket, Searching
  <2>3. CASE ~ saved.present
    <3>1. pc' = "searchStart" /\ head' = tip /\ high' = tip /\ stamp[tip] >= WindowStart
      BY <2>3
    <3>2. tip \in Nat
      BY BlocksAreNats DEF TypeOK
    <3>3. 0 .. 0 - 1 = {}
      OBVIOUS
    <3>. QED  BY <2>1, <3>1, <3>2, <3>3 DEF Bracket, Searching, Target
  <2>. QED  BY <2>2, <2>3
<1>3. Progress'
  BY DEF Progress, Searching, Writing, ask
<1>4. Stored'
  BY DEF Stored, Chunk, files, ask
<1>5. StateIsTrue'
  BY TruthKept
<1>. QED  BY <1>1, <1>2, <1>3, <1>4, <1>5

LEMMA HalveKeeps ==
  ASSUME IInv, Halve
  PROVE  IInv'
<1>. USE DEF IInv, Halve
<1>1. Searching /\ low < high /\ low \in Nat /\ high \in Nat /\ head \in Nat
  BY BlocksAreNats DEF Searching, TypeOK
<1>2. /\ Middle \in Blocks /\ Middle + 1 \in Blocks
      /\ low =< Middle /\ Middle < high
      /\ stamp[Middle] < Target => \A c \in 0 .. Middle : stamp[c] < Target
  BY <1>1, BracketHalves
<1>3. TypeOK'
  BY <1>2 DEF TypeOK, chain, ask, files
<1>4. Bracket'
  <2>1. Target' = Target /\ stamp' = stamp /\ pc' = pc /\ head' = head /\ first' = first
    BY DEF Target, chain
  <2>2. Middle \in Nat /\ Target \in Nat /\ stamp[Middle] \in Nat
    BY <1>2, BlocksAreNats, StampsAscend, ChainAssumption DEF Target
  <2>3. CASE stamp[Middle] < Target
    <3>1. low' = Middle + 1 /\ high' = high /\ Middle + 1 - 1 = Middle
      BY <2>2, <2>3
    <3>2. low' =< high' /\ high' =< head' /\ stamp'[high'] >= Target'
      BY <1>1, <1>2, <2>1, <2>2, <3>1 DEF Bracket
    <3>3. \A c \in 0 .. low' - 1 : stamp'[c] < Target'
      BY <1>2, <2>1, <2>2, <2>3, <3>1
    <3>. QED  BY <1>1, <2>1, <3>2, <3>3 DEF Bracket, IsFirst, Searching
  <2>4. CASE ~ (stamp[Middle] < Target)
    <3>1. low' = low /\ high' = Middle
      BY <2>4
    <3>2. low' =< high' /\ high' =< head' /\ stamp'[high'] >= Target'
      BY <1>1, <1>2, <2>1, <2>2, <2>4, <3>1 DEF Bracket
    <3>3. \A c \in 0 .. low' - 1 : stamp'[c] < Target'
      BY <1>1, <2>1, <3>1 DEF Bracket
    <3>. QED  BY <1>1, <2>1, <3>2, <3>3 DEF Bracket, IsFirst, Searching
  <2>. QED  BY <2>3, <2>4
<1>5. Progress'
  BY DEF Progress, Searching, Writing, ask
<1>6. Stored'
  BY DEF Stored, Chunk, files, ask
<1>7. StateIsTrue'
  BY TruthKept
<1>. QED  BY <1>3, <1>4, <1>5, <1>6, <1>7

LEMMA LeaveKeeps ==
  ASSUME IInv, Leave, UNCHANGED <<chain, saved, files>>, stops' \in 0 .. MaxStops,
         tip' = tip, torn' \in BOOLEAN, torn => torn',
         torn' \/ pc \notin {"normalized", "receipt", "state"}
  PROVE  IInv'
<1>. USE DEF IInv, Leave
<1>1. 0 \in Blocks /\ 0 \in 0 .. MaxChunks
  BY BlocksAreNats, ScanAssumption
<1>2. TypeOK'
  BY <1>1 DEF TypeOK, Locations, chain, files
<1>3. Bracket'
  BY DEF Bracket, Searching
<1>4. Progress'
  BY DEF Progress, Searching, Writing
<1>5. Stored'
  BY DEF Stored, files
<1>6. StateIsTrue'
  BY DEF StateIsTrue, BoundsExact, RowsExact, FilesCover, FilesDisjoint, IsFirst, chain, files, In
<1>. QED  BY <1>2, <1>3, <1>4, <1>5, <1>6

LEMMA FoundStartKeeps ==
  ASSUME IInv, FoundStart
  PROVE  IInv'
<1>1. CASE Leave
  BY <1>1, LeaveKeeps DEF FoundStart, IInv, TypeOK
<1>2. CASE /\ stamp[head] >= WindowEnd
           /\ pc' = "searchEnd"
           /\ first' = low
           /\ low' = 0
           /\ high' = head
           /\ UNCHANGED <<head, ask, done>>
  <2>. USE DEF IInv
  <2>1. pc = "searchStart" /\ low = high /\ UNCHANGED <<chain, tip, saved, files, stops, torn>>
    BY DEF FoundStart
  <2>2. TypeOK'
    BY <1>2, <2>1, BlocksAreNats DEF TypeOK, Locations, chain, ask, files
  <2>3. Bracket'
    <3>1. IsFirst(low, WindowStart)
      BY <2>1, SearchFinds DEF Searching, Target
    <3>2. IsFirst(first, WindowStart)'
      BY <1>2, <2>1, <3>1 DEF IsFirst, chain
    <3>3. Target' = WindowEnd /\ stamp' = stamp
      BY <1>2, <2>1 DEF Target, chain
    <3>4. head \in Nat /\ 0 .. 0 - 1 = {}
      BY BlocksAreNats DEF TypeOK
    <3>. QED  BY <1>2, <3>2, <3>3, <3>4 DEF Bracket, Searching
  <2>4. Progress'
    BY <1>2, <2>1 DEF Progress, Searching, Writing
  <2>5. Stored'
    BY <1>2, <2>1 DEF Stored, files
  <2>6. StateIsTrue'
    BY <2>1, TruthKept
  <2>. QED  BY <2>2, <2>3, <2>4, <2>5, <2>6
<1>. QED  BY <1>1, <1>2 DEF FoundStart

(* The first state file: nothing is counted, and nothing is on disk that   *)
(* could lie behind it.                                                    *)
LEMMA FoundEndKeeps ==
  ASSUME IInv, FoundEnd
  PROVE  IInv'
<1>. USE DEF IInv, FoundEnd
<1>1. /\ pc = "searchEnd" /\ low = high /\ UNCHANGED <<chain, ask, files, torn>>
      /\ pc' = "loop" /\ tip' = tip /\ done' = done /\ stops' = stops
      /\ saved' = [NoState EXCEPT !.present = TRUE, !.start = first, !.end = low - 1,
                                  !.next = first]
  OBVIOUS
<1>2. /\ saved'.present /\ saved'.start = first /\ saved'.end = low - 1
      /\ saved'.next = first /\ saved'.rows = 0
  BY <1>1 DEF NoState
<1>3. first \in Blocks /\ low \in Blocks /\ 0 \in Blocks
  BY BlocksAreNats DEF TypeOK
<1>4. IsFirst(first, WindowStart) /\ IsFirst(low, WindowEnd) /\ first =< low
  <2>1. IsFirst(first, WindowStart)
    BY <1>1 DEF Bracket
  <2>2. IsFirst(low, WindowEnd)
    BY <1>1, SearchFinds DEF Searching, Target
  <2>. QED  BY <1>3, <2>1, <2>2, WindowOrder
<1>5. TypeOK'
  <2>1. saved' \in State
    <3>1. low - 1 \in -1 .. LastBlock /\ first \in 0 .. LastBlock + 1 /\ InitialSpan \in Nat
      BY <1>3, BlocksAreNats, ScanAssumption
    <3>2. saved' = [present |-> TRUE, start |-> first, end |-> low - 1, next |-> first,
                    span |-> InitialSpan, rows |-> 0, complete |-> FALSE]
      BY <1>1 DEF NoState
    <3>3. FALSE \in BOOLEAN /\ TRUE \in BOOLEAN /\ 0 \in Nat
      OBVIOUS
    <3>. HIDE DEF FoundEnd, IInv
    <3>. QED  BY <1>3, <3>1, <3>2, <3>3, Zenon DEF State
  <2>. QED  BY <1>1, <1>3, <2>1 DEF TypeOK, Locations, chain, ask, files
<1>6. Bracket'
  BY <1>1 DEF Bracket, Searching
<1>7. low - 1 + 1 = low /\ low \in Nat /\ first \in Nat
  BY <1>3, BlocksAreNats
<1>8. Progress'
  BY <1>1, <1>2, <1>4, <1>7 DEF Progress, Searching, Writing
<1>9. Stored'
  <2>1. saved.next = 0
    BY <1>1 DEF Progress, Searching, NoState
  <2>2. \A r \in raw : ~ (r[2] < 0)
    BY BlocksAreNats DEF TypeOK, Spans
  <2>3. torn \/ raw = {}
    BY <1>1, <2>1, <2>2 DEF Stored
  <2>. QED  BY <1>1, <2>3 DEF Stored, files
<1>10. StateIsTrue'
  <2>1. saved'.start .. saved'.next - 1 = {} /\ Total(fills, {}) = 0
    BY <1>2, <1>7, TotalZero
  <2>2. RowsExact'
    BY <1>1, <1>2, <2>1 DEF RowsExact, chain
  <2>3. FilesCover'
    BY <1>1, <2>1 DEF FilesCover, StateIsTrue, files
  <2>4. FilesDisjoint'
    BY <1>1 DEF FilesDisjoint, StateIsTrue, files, In
  <2>5. BoundsExact'
    BY <1>1, <1>2, <1>4, <1>7 DEF BoundsExact, IsFirst, chain
  <2>. QED  BY <2>2, <2>3, <2>4, <2>5 DEF StateIsTrue
<1>. QED  BY <1>5, <1>6, <1>8, <1>9, <1>10

(***************************************************************************)
(* Collecting a chunk.                                                     *)
(***************************************************************************)

LEMMA SavedTypes ==
  ASSUME TypeOK
  PROVE  /\ saved.start \in Nat /\ saved.next \in Nat /\ saved.rows \in Nat /\ saved.span \in Nat
         /\ saved.end \in -1 .. LastBlock /\ saved.end \in Int
         /\ saved.start \in Blocks /\ saved.next \in 0 .. LastBlock + 1
         /\ last \in Nat /\ last =< LastBlock /\ span \in Nat
  BY BlocksAreNats DEF TypeOK, State

LEMMA NextChunkKeeps ==
  ASSUME IInv, NextChunk
  PROVE  IInv'
<1>. USE DEF IInv, NextChunk
<1>1. span' \in Nat /\ span' >= 1
  BY SavedTypes, ScanFacts
<1>2. done < MaxChunks
  BY ScanAssumption DEF Spent, TypeOK
<1>3. TypeOK'
  BY <1>1 DEF TypeOK, Locations, chain, search, files
<1>4. Bracket'
  BY DEF Bracket, Searching, search
<1>5. Progress'
  BY <1>1, <1>2 DEF Progress, Searching, Writing
<1>6. Stored'
  BY DEF Stored, files
<1>7. StateIsTrue'
  BY TruthKept
<1>. QED  BY <1>3, <1>4, <1>5, <1>6, <1>7

LEMMA HalvedSpanKeeps ==
  ASSUME IInv, pc = "asking", span' = Half(span), stops' \in 0 .. MaxStops,
         UNCHANGED <<chain, tip, pc, search, saved, last, files, done, torn>>
  PROVE  IInv'
<1>. USE DEF IInv
<1>1. span' \in Nat /\ span' >= 1
  BY SavedTypes, ScanFacts
<1>2. TypeOK'
  BY <1>1 DEF TypeOK, chain, search, files
<1>3. Bracket'
  BY DEF Bracket, Searching, search
<1>4. Progress'
  BY <1>1 DEF Progress, Searching, Writing
<1>5. Stored'
  BY DEF Stored, files
<1>6. StateIsTrue'
  BY TruthKept
<1>. QED  BY <1>2, <1>3, <1>4, <1>5, <1>6

LEMMA AnsweredKeeps ==
  ASSUME IInv, Answered
  PROVE  IInv'
<1>. USE DEF IInv, Answered
<1>1. saved.next =< saved.end /\ span >= 1 /\ saved.present /\ done < MaxChunks
  BY DEF Progress
<1>2. last' \in Int /\ saved.next =< last' /\ last' =< saved.end
  BY <1>1, SavedTypes DEF Asked, Smaller
<1>3. last' \in Blocks
  BY <1>2, SavedTypes, BlocksAreNats
<1>4. TypeOK'
  BY <1>3 DEF TypeOK, Locations, chain, search, files
<1>5. Bracket'
  BY DEF Bracket, Searching, search
<1>6. Progress'
  BY <1>1, <1>2 DEF Progress, Searching, Writing
<1>7. Stored'
  BY DEF Stored, files
<1>8. StateIsTrue'
  BY TruthKept
<1>. QED  BY <1>4, <1>5, <1>6, <1>7, <1>8

LEMMA ChunkIsSpan ==
  ASSUME IInv, pc \in Writing
  PROVE  /\ Chunk \in Spans
         /\ saved.present /\ saved.start =< saved.next
         /\ saved.next =< last /\ last =< saved.end
         /\ In(Chunk) = saved.next .. last
<1>1. saved.next =< last /\ last =< saved.end /\ saved.present /\ saved.start =< saved.next
  BY DEF IInv, Progress, Writing
<1>2. saved.next \in Blocks /\ last \in Blocks
  BY <1>1, SavedTypes, BlocksAreNats DEF IInv
<1>. QED  BY <1>1, <1>2 DEF Chunk, Spans, In

LEMMA WriteRawKeeps ==
  ASSUME IInv, WriteRaw
  PROVE  IInv'
<1>. USE DEF IInv, WriteRaw
<1>1. pc \in Writing
  BY DEF Writing
<1>2. Chunk' = Chunk
  BY DEF Chunk, ask
<1>3. TypeOK'
  BY <1>1, ChunkIsSpan DEF TypeOK, Locations, chain, search, ask
<1>4. Bracket'
  BY DEF Bracket, Searching, search
<1>5. Progress'
  BY DEF Progress, Searching, Writing, ask
<1>6. Stored'
  BY <1>2 DEF Stored
<1>7. FilesDisjoint'
  <2>. SUFFICES ASSUME ~ torn, NEW r \in raw', NEW s \in raw', r # s
                PROVE  In(r) \cap In(s) = {}
    BY DEF FilesDisjoint, In
  <2>1. \A q \in raw : q[1] \in Nat /\ q[2] \in Nat /\ q[2] < saved.next
    BY BlocksAreNats DEF TypeOK, Spans, Stored
  <2>2. \A q \in raw : In(q) \cap In(Chunk) = {}
    <3>1. In(Chunk) = saved.next .. last /\ saved.next \in Nat /\ last \in Nat
      BY <1>1, ChunkIsSpan, SavedTypes
    <3>2. \A q \in raw : In(q) \cap (saved.next .. last) = {}
      BY <2>1, <3>1 DEF In
    <3>. QED  BY <3>1, <3>2
  <2>3. CASE r \in raw /\ s \in raw
    BY <2>3 DEF StateIsTrue, FilesDisjoint
  <2>4. CASE r = Chunk \/ s = Chunk
    BY <2>2, <2>4
  <2>. QED  BY <2>3, <2>4
<1>8. StateIsTrue'
  BY <1>7 DEF StateIsTrue, BoundsExact, RowsExact, FilesCover, IsFirst, chain, In
<1>. QED  BY <1>3, <1>4, <1>5, <1>6, <1>8

LEMMA WriteNormalizedKeeps ==
  ASSUME IInv, WriteNormalized
  PROVE  IInv'
<1>. USE DEF IInv, WriteNormalized
<1>1. pc \in Writing
  BY DEF Writing
<1>2. Chunk' = Chunk /\ Chunk \in raw
  BY DEF Chunk, ask, Stored
<1>3. TypeOK'
  BY <1>1, ChunkIsSpan DEF TypeOK, Locations, chain, search, ask
<1>4. Bracket'
  BY DEF Bracket, Searching, search
<1>5. Progress'
  BY DEF Progress, Searching, Writing, ask
<1>6. Stored'
  BY <1>2 DEF Stored
<1>7. StateIsTrue'
  BY <1>2 DEF StateIsTrue, BoundsExact, RowsExact, FilesCover, FilesDisjoint, IsFirst, chain, In
<1>. QED  BY <1>3, <1>4, <1>5, <1>6, <1>7

LEMMA WriteReceiptKeeps ==
  ASSUME IInv, WriteReceipt
  PROVE  IInv'
<1>. USE DEF IInv, WriteReceipt
<1>1. pc \in Writing
  BY DEF Writing
<1>2. Chunk' = Chunk /\ Chunk \in raw /\ Chunk \in normalized
  BY DEF Chunk, ask, Stored
<1>3. TypeOK'
  BY <1>1, ChunkIsSpan DEF TypeOK, Locations, chain, search, ask
<1>4. Bracket'
  BY DEF Bracket, Searching, search
<1>5. Progress'
  BY DEF Progress, Searching, Writing, ask
<1>6. Stored'
  BY <1>2 DEF Stored
<1>7. StateIsTrue'
  BY <1>2 DEF StateIsTrue, BoundsExact, RowsExact, FilesCover, FilesDisjoint, IsFirst, chain, In
<1>. QED  BY <1>3, <1>4, <1>5, <1>6, <1>7

(* The next state file counts the chunk on top of what the last counted.   *)
LEMMA SaveStateKeeps ==
  ASSUME IInv, SaveState
  PROVE  IInv'
<1>. USE DEF IInv
<1>1. /\ pc = "state" /\ pc' = "loop" /\ done' = done + 1 /\ span' = 1 /\ last' = 0
      /\ UNCHANGED <<chain, tip, search, files, stops, torn>>
  BY DEF SaveState
<1>2. saved' = [saved EXCEPT !.next = last + 1, !.rows = @ + Rows(Chunk),
                             !.span = NextSpan(Rows(Chunk)), !.complete = AtEnd]
  BY DEF SaveState, Following
<1>3. pc \in Writing
  BY <1>1 DEF Writing
<1>4. /\ Chunk \in Spans /\ saved.present /\ saved.start =< saved.next
      /\ saved.next =< last /\ last =< saved.end
      /\ In(Chunk) = saved.next .. last
      /\ Chunk \in receipts
  BY <1>1, <1>3, ChunkIsSpan DEF Stored
<1>5. /\ saved'.present /\ saved'.start = saved.start /\ saved'.end = saved.end
      /\ saved'.next = last + 1 /\ saved'.rows = saved.rows + Rows(Chunk)
  BY <1>2, <1>4 DEF TypeOK, State
<1>6. /\ saved.start \in Nat /\ saved.next \in Nat /\ last \in Nat /\ last =< LastBlock
      /\ saved.rows \in Nat /\ saved.end \in Int
  BY SavedTypes
<1>7. /\ Rows(Chunk) \in Nat
      /\ Total(fills, saved.start .. last)
            = Total(fills, saved.start .. saved.next - 1) + Rows(Chunk)
  <2>. DEFINE S == saved.start .. last
              T == saved.start .. saved.next - 1
  <2>1. fills \in [Blocks -> Nat]
    BY ChainAssumption DEF TypeOK
  <2>2. S \subseteq Blocks /\ T \in SUBSET S /\ S \ T = saved.next .. last
    BY <1>4, <1>6, BlocksAreNats
  <2>3. IsFiniteSet(S) /\ IsFiniteSet(S \ T)
    <3>1. IsFiniteSet(S)
      <4>1. saved.start \in Int /\ last \in Int
        BY <1>6
      <4>. QED  BY <4>1, FS_Interval
    <3>. HIDE DEF S, T
    <3>. QED  BY <3>1, FS_Subset
  <2>4. \A b \in S : fills[b] \in Nat
    BY <2>1, <2>2
  <2>5. Rows(Chunk) = Total(fills, S \ T)
    BY <1>4, <2>2 DEF Rows
  <2>. HIDE DEF S, T
  <2>6. Total(fills, S) = Total(fills, T) + Total(fills, S \ T)
    BY <2>2, <2>3, <2>4, TotalSplit
  <2>7. Total(fills, S \ T) \in Nat
    BY <2>3, <2>4, TotalType
  <2>. QED  BY <2>5, <2>6, <2>7 DEF S, T
<1>8. TypeOK'
  <2>1. NextSpan(Rows(Chunk)) \in Nat
    BY SavedTypes, ScanFacts DEF NextSpan, Smaller
  <2>2. AtEnd \in BOOLEAN
    BY DEF AtEnd
  <2>3. last + 1 \in 0 .. LastBlock + 1 /\ saved.rows + Rows(Chunk) \in Nat /\ 0 \in Blocks
    BY <1>6, <1>7, BlocksAreNats
  <2>4. saved' \in State
    BY <1>2, <2>1, <2>2, <2>3 DEF TypeOK, State
  <2>5. done + 1 \in 0 .. MaxChunks
    BY <1>3, ScanAssumption DEF TypeOK, Progress
  <2>. QED  BY <1>1, <2>3, <2>4, <2>5 DEF TypeOK, Locations, chain, search, files
<1>9. Bracket'
  BY <1>1 DEF Bracket, Searching, search
<1>10. Progress'
  BY <1>1, <1>4, <1>5, <1>6 DEF Progress, Searching, Writing
<1>11. Stored'
  <2>1. \A r \in raw : r[2] \in Nat
    BY BlocksAreNats DEF TypeOK, Spans
  <2>2. torn \/ \A r \in raw : r[2] < saved.next \/ r = <<saved.next, last>>
    BY DEF Stored, Chunk
  <2>3. torn \/ \A r \in raw : r[2] < last + 1
    BY <1>4, <1>6, <2>1, <2>2
  <2>. QED  BY <1>1, <1>5, <2>3 DEF Stored, files
<1>12. StateIsTrue'
  <2>1. BoundsExact'
    BY <1>1, <1>4, <1>5 DEF StateIsTrue, BoundsExact, IsFirst, chain
  <2>2. RowsExact'
    <3>1. saved.rows = Total(fills, saved.start .. saved.next - 1)
      BY <1>4 DEF StateIsTrue, RowsExact
    <3>2. saved'.next - 1 = last
      BY <1>5, <1>6
    <3>. QED  BY <1>1, <1>5, <1>7, <3>1, <3>2 DEF RowsExact, chain
  <2>3. FilesCover'
    <3>1. ASSUME NEW b \in saved.start .. last
          PROVE  \E r \in receipts : b \in In(r)
      <4>1. CASE b \in saved.start .. saved.next - 1
        BY <4>1 DEF StateIsTrue, FilesCover
      <4>2. CASE b \in saved.next .. last
        BY <1>4, <4>2
      <4>. QED  BY <1>6, <4>1, <4>2
    <3>2. saved'.start .. saved'.next - 1 = saved.start .. last
      BY <1>5, <1>6
    <3>. QED  BY <1>1, <3>1, <3>2 DEF StateIsTrue, FilesCover, files, In
  <2>4. FilesDisjoint'
    BY <1>1 DEF StateIsTrue, FilesDisjoint, files, In
  <2>. QED  BY <2>1, <2>2, <2>3, <2>4 DEF StateIsTrue
<1>. QED  BY <1>8, <1>9, <1>10, <1>11, <1>12

LEMMA LedgerNext ==
  ASSUME IInv, [Next]_vars
  PROVE  IInv'
<1>1. CASE Grow
  BY <1>1, GrowKeeps
<1>2. CASE Work
  <2>1. CASE Finish
    BY <2>1, LeaveKeeps DEF Finish, IInv, TypeOK
  <2>2. CASE AskLess
    BY <2>2, HalvedSpanKeeps DEF AskLess, IInv, TypeOK
  <2>. QED  BY <1>2, <2>1, <2>2, StartKeeps, HalveKeeps, FoundStartKeeps, FoundEndKeeps,
               NextChunkKeeps, AnsweredKeeps, WriteRawKeeps, WriteNormalizedKeeps,
               WriteReceiptKeeps, SaveStateKeeps DEF Work
<1>3. stops < MaxStops => stops + 1 \in 0 .. MaxStops
  BY ScanAssumption DEF IInv, TypeOK
<1>4. CASE AskFails
  <2>1. stops' \in 0 .. MaxStops /\ pc = "asking"
    BY <1>3, <1>4 DEF AskFails
  <2>2. CASE Leave
    BY <1>4, <2>1, <2>2, LeaveKeeps DEF AskFails, IInv, TypeOK
  <2>3. CASE span' = Half(span) /\ UNCHANGED <<pc, search, last, done>>
    BY <1>4, <2>1, <2>3, HalvedSpanKeeps DEF AskFails
  <2>. QED  BY <1>4, <2>2, <2>3 DEF AskFails
<1>5. CASE Stop
  BY <1>3, <1>5, LeaveKeeps DEF Stop, IInv, TypeOK
<1>6. CASE UNCHANGED vars
  <2>1. StateIsTrue'
    BY <1>6, TruthKept DEF IInv, vars
  <2>2. TypeOK' /\ Bracket' /\ Progress' /\ Stored'
    BY <1>6 DEF IInv, TypeOK, Bracket, Progress, Stored, Searching, Writing, Target, IsFirst,
                Chunk, vars, chain, search, ask, files
  <2>. QED  BY <2>1, <2>2 DEF IInv
<1>. QED  BY <1>1, <1>2, <1>4, <1>5, <1>6 DEF Next

THEOREM LedgerInvariant == Spec => []IInv
<1>1. Init => IInv
  BY LedgerInit
<1>2. IInv /\ [Next]_vars => IInv'
  BY LedgerNext
<1>. QED  BY <1>1, <1>2, PTL DEF Spec

(* Whatever the chain and however often the node fails, a span is refused  *)
(* or the process dies: the range in the state file is exactly the         *)
(* window's, each fill behind it is counted once, and its rows are stored, *)
(* once unless a run was torn (block_at_or_after and _collect_contract).   *)
THEOREM StateIsAlwaysTrue == Spec => []StateIsTrue
  BY LedgerInvariant, PTL DEF IInv
----

(***************************************************************************)
(* The trade collector.                                                    *)
(***************************************************************************)
(* A total over a run of seconds is that of its two parts.                 *)
LEMMA TotalOfRuns ==
  ASSUME NEW a \in Int, NEW b \in Int, NEW c \in Int, a <= c + 1, c <= b,
         NEW f, \A s \in a .. b : f[s] \in Nat
  PROVE  Total(f, a .. b) = Total(f, a .. c) + Total(f, c + 1 .. b)
<1>1. IsFiniteSet(a .. b)
  BY FS_Interval
<1>2. a .. c \in SUBSET (a .. b) /\ (a .. b) \ (a .. c) = c + 1 .. b
  OBVIOUS
<1>. QED  BY <1>1, <1>2, TotalSplit

LEMMA TotalOfNone ==
  ASSUME NEW f
  PROVE  Total(f, {}) = 0
<1>1. IsFiniteSet({}) /\ \A x \in {} : f[x] = 0
  BY FS_EmptySet
<1>. QED  BY <1>1, TotalZero

(***************************************************************************)
(* The pages of a window add up to its trades.                             *)
(***************************************************************************)
TradesOK == trades \in [Groups -> [Seconds -> Nat]]

LEMMA CountIsNat ==
  ASSUME TradesOK, NEW g \in Groups, NEW a \in Nat, NEW b \in Int, b <= LastSecond
  PROVE  /\ \A s \in a .. b : trades[g][s] \in Nat
         /\ Total(trades[g], a .. b) \in Nat
<1>1. LastSecond \in Nat
  BY TradeAssumption
<1>2. \A s \in a .. b : s \in Seconds
  BY <1>1 DEF Seconds
<1>3. \A s \in a .. b : trades[g][s] \in Nat
  BY <1>2 DEF TradesOK
<1>4. IsFiniteSet(a .. b)
  BY FS_Interval
<1>. QED  BY <1>3, <1>4, TotalType

LEMMA WindowCount ==
  ASSUME TradesOK, NEW g \in Groups, NEW w \in Window
  PROVE  /\ w[1] \in Nat /\ w[2] \in Nat /\ w[1] <= w[2] /\ w[2] <= LastSecond
         /\ Count(<<g, w>>) = Total(trades[g], w[1] .. w[2])
         /\ Count(<<g, w>>) \in Nat
         /\ \A s \in w[1] .. w[2] : trades[g][s] \in Nat
<1>1. w[1] \in Nat /\ w[2] \in Nat /\ w[1] <= w[2] /\ w[2] <= LastSecond
  BY TradeAssumption DEF Window, Seconds
<1>2. /\ Total(trades[g], w[1] .. w[2]) \in Nat
      /\ \A s \in w[1] .. w[2] : trades[g][s] \in Nat
  <2>. DEFINE a == w[1]
              b == w[2]
  <2>1. a \in Nat /\ b \in Int /\ b <= LastSecond
    BY <1>1
  <2>. HIDE DEF a, b
  <2>2. Total(trades[g], a .. b) \in Nat /\ \A s \in a .. b : trades[g][s] \in Nat
    BY <2>1, CountIsNat
  <2>. QED  BY <2>2 DEF a, b
<1>. QED  BY <1>1, <1>2 DEF Count, SecondsIn

(* A window whose page at the maximum offset is not full is read whole.    *)
LEMMA PagesAddUp ==
  ASSUME TradesOK, NEW g \in Groups, NEW w \in Window, ~ Full(<<g, w>>, MaximumOffset)
  PROVE  RowsRead(<<g, w>>) = Count(<<g, w>>)
<1>. DEFINE p == <<g, w>>
            C == Count(p)
            P == PageSize
            M == MaximumOffset
            m == M \div P
            L == [o \in Offsets |-> Length(p, o)]
            Up(k) == {o \in Offsets : o < k * P}
            T == {k \in 0 .. m + 1 : Total(L, Up(k)) = Least(C, k * P)}
<1>1. C \in Nat
  BY WindowCount
<1>2. P \in Nat \ {0} /\ M \in Nat /\ m \in Nat /\ M = m * P
  <2>1. P \in Nat \ {0} /\ M \in Nat /\ M % P = 0
    BY TradeAssumption
  <2>2. m \in Nat /\ M = m * P + (M % P)
    BY <2>1
  <2>. QED  BY <2>1, <2>2
<1>. HIDE DEF C
<1>3. C < M + P
  <2>1. ~(Length(p, M) = P)
    BY DEF Full
  <2>. QED  BY <1>1, <1>2, <2>1 DEF Length, Least, C
<1>. HIDE DEF P, M, m
<1>4. Offsets = {o \in 0 .. M : o % P = 0}
  BY DEF Offsets, P, M
<1>5. IsFiniteSet(Offsets)
  <2>1. IsFiniteSet(0 .. M)
    BY <1>2, FS_Interval
  <2>. QED  BY <1>4, <2>1, FS_Subset
<1>6. \A o \in Offsets : /\ o \in Nat
                         /\ L[o] = IF C <= o THEN 0 ELSE Least(P, C - o)
                         /\ L[o] \in Nat
  BY <1>1, <1>2, <1>4 DEF Length, Least, C, P
<1>. HIDE DEF L, p
<1>7. 0 \in T
  <2>1. Up(0) = {} /\ 0 * P = 0
    BY <1>2, <1>6
  <2>2. Total(L, {}) = 0
    BY TotalZero
  <2>. QED  BY <1>1, <1>2, <2>1, <2>2 DEF Least
<1>8. ASSUME NEW n \in 1 .. m + 1, n - 1 \in T
      PROVE  n \in T
  <2>. DEFINE k == n - 1
              o == k * P
  <2>1. k \in Nat /\ k <= m /\ n = k + 1 /\ n \in 0 .. m + 1
    BY <1>2
  <2>2. Total(L, Up(k)) = Least(C, o)
    BY <1>8
  <2>. HIDE DEF k
  <2>3. o \in Nat /\ o % P = 0 /\ (k + 1) * P = o + P
    BY <1>2, <2>1, Multiples
  <2>4. o <= M
    <3>1. ~(m * P < k * P)
      BY <1>2, <2>1, Multiples
    <3>2. m * P \in Nat /\ k * P \in Nat
      BY <1>2, <2>1, Multiples
    <3>. QED  BY <1>2, <3>1, <3>2
  <2>5. Up(n) = Up(k) \cup {o}
    <3>1. ASSUME NEW i \in Offsets, i < (k + 1) * P
          PROVE  i = o \/ i < o
      <4>1. i \in Nat /\ i % P = 0
        BY <1>4, <1>6
      <4>2. PICK q \in Nat : i = q * P
        BY <1>2, <4>1, Multiples
      <4>3. q < k + 1
        BY <1>2, <2>1, <3>1, <4>2, Multiples
      <4>4. q = k \/ q < k
        BY <2>1, <4>3
      <4>5. q < k => q * P < k * P
        BY <1>2, <2>1, Multiples
      <4>. QED  BY <4>2, <4>4, <4>5
    <3>2. o \in Offsets /\ o < (k + 1) * P
      BY <1>2, <1>4, <2>3, <2>4
    <3>3. \A i \in Offsets : i < o => i < (k + 1) * P
      BY <1>2, <1>6, <2>3
    <3>4. Up(n) = {i \in Offsets : i < (k + 1) * P} /\ Up(k) = {i \in Offsets : i < o}
      BY <2>1
    <3>. HIDE DEF o, Up
    <3>. QED  BY <3>1, <3>2, <3>3, <3>4
  <2>. HIDE DEF o
  <2>6. o \in Up(n) /\ o \notin Up(k) /\ Up(n) \in SUBSET Offsets /\ Up(n) \ {o} = Up(k)
    <3>1. o \notin Up(k)
      BY <2>3 DEF o
    <3>. QED  BY <2>5, <3>1
  <2>. HIDE DEF Up
  <2>7. Total(L, Up(n)) = L[o] + Total(L, Up(k))
    <3>1. IsFiniteSet(Up(n))
      BY <1>5, <2>6, FS_Subset
    <3>2. \A i \in Up(n) : L[i] \in Nat
      BY <1>6, <2>6
    <3>. QED  BY <2>6, <3>1, <3>2, TotalRemove
  <2>8. L[o] = IF C <= o THEN 0 ELSE Least(P, C - o)
    BY <1>6, <2>6
  <2>9. Total(L, Up(n)) = Least(C, o + P)
    BY <1>1, <1>2, <2>2, <2>3, <2>7, <2>8 DEF Least
  <2>. QED  BY <2>1, <2>3, <2>9
<1>. HIDE DEF T
<1>9. m + 1 \in T
  <2>1. m + 1 \in Nat /\ m + 1 \in 0 .. m + 1
    BY <1>2
  <2>. QED  BY <1>7, <1>8, <2>1, UpTo
<1>10. (m + 1) * P = M + P
  BY <1>2, Multiples
<1>11. Up(m + 1) = Offsets
  BY <1>2, <1>4, <1>10
<1>12. Total(L, Offsets) = C
  <2>1. Total(L, Up(m + 1)) = Least(C, (m + 1) * P)
    BY <1>9 DEF T
  <2>. HIDE DEF Up
  <2>. QED  BY <1>1, <1>2, <1>3, <1>10, <1>11, <2>1 DEF Least
<1>. QED  BY <1>12 DEF RowsRead, L, C, p

(***************************************************************************)
(* What threads and receipts know, and when it is true.                    *)
(***************************************************************************)

(* Windows that follow each other from a second to the end of the interval. *)
ChainFrom(s, todo) ==
    /\ IF todo = <<>> THEN s = LastSecond + 1
       ELSE todo[1][1] = s /\ todo[Len(todo)][2] = LastSecond
    /\ \A i \in 1 .. Len(todo) - 1 : todo[i + 1][1] = todo[i][2] + 1

LEMMA ChainTail ==
  ASSUME NEW s, NEW todo \in Seq(Window), todo # <<>>, ChainFrom(s, todo)
  PROVE  /\ Head(todo) \in Window /\ Head(todo)[1] = s /\ Tail(todo) \in Seq(Window)
         /\ ChainFrom(Head(todo)[2] + 1, Tail(todo))
<1>. DEFINE n == Len(todo)
            rest == Tail(todo)
<1>1. n \in Nat /\ n >= 1 /\ Head(todo) = todo[1] /\ todo[1] \in Window
  OBVIOUS
<1>2. rest \in Seq(Window) /\ Len(rest) = n - 1 /\ \A i \in 1 .. n - 1 : rest[i] = todo[i + 1]
  OBVIOUS
<1>. HIDE DEF rest
<1>3. CASE n = 1
  <2>1. rest = <<>> /\ todo[1][2] = LastSecond
    BY <1>2, <1>3 DEF ChainFrom
  <2>2. ChainFrom(Head(todo)[2] + 1, rest)
    BY <1>1, <1>2, <1>3, <2>1 DEF ChainFrom
  <2>. QED  BY <1>1, <1>2, <2>2 DEF ChainFrom, rest
<1>4. CASE n # 1
  <2>1. rest # <<>> /\ rest[1] = todo[2] /\ rest[Len(rest)] = todo[n]
    BY <1>1, <1>2, <1>4
  <2>2. todo[2][1] = todo[1][2] + 1 /\ todo[n][2] = LastSecond
    <3>. HIDE DEF n
    <3>1. 1 \in 1 .. n - 1 /\ 1 + 1 = 2
      <4>1. n \in Nat /\ n >= 1
        BY <1>1
      <4>. QED  BY <1>4, <4>1
    <3>2. todo[1 + 1][1] = todo[1][2] + 1
      BY <3>1 DEF ChainFrom, n
    <3>. QED  BY <3>1, <3>2 DEF ChainFrom, n
  <2>3. \A i \in 1 .. Len(rest) - 1 : rest[i + 1][1] = rest[i][2] + 1
    <3>1. \A i \in 1 .. Len(rest) - 1 : i + 1 \in 1 .. n - 1 /\ i \in 1 .. n - 1
      BY <1>1, <1>2
    <3>. QED  BY <1>2, <3>1 DEF ChainFrom
  <2>4. ChainFrom(Head(todo)[2] + 1, rest)
    BY <1>1, <2>1, <2>2, <2>3 DEF ChainFrom
  <2>. QED  BY <1>1, <1>2, <2>4 DEF ChainFrom, rest
<1>. QED  BY <1>3, <1>4

(* A group's first windows divide its interval.                            *)
LEMMA InitialChain ==
  ASSUME NEW g \in Groups
  PROVE  /\ InitialWindows(g) \in Seq(Window) /\ InitialWindows(g) # <<>>
         /\ ChainFrom(0, InitialWindows(g))
<1>. DEFINE D == LastSecond + 1
            c == IF Partitions[g] =< D THEN Partitions[g] ELSE D
            lo(i) == (D * (i - 1)) \div c
            hi(i) == (D * i) \div c - 1
            s == [i \in 1 .. c |-> <<lo(i), hi(i)>>]
<1>1. D \in Nat \ {0} /\ c \in Nat \ {0} /\ c <= D /\ LastSecond \in Nat
  BY TradeAssumption
<1>2. InitialWindows(g) = s
  BY DEF InitialWindows
<1>. HIDE DEF c, D
<1>3. ASSUME NEW i \in 1 .. c
      PROVE  lo(i) \in Nat /\ hi(i) \in Nat /\ lo(i) <= hi(i) /\ hi(i) <= LastSecond
  <2>. DEFINE x == D * (i - 1)
              y == D * i
              z == D * c
  <2>1. x \in Nat /\ y \in Nat /\ z \in Nat /\ x + D = y /\ y <= z
    <3>1. i - 1 \in Nat /\ i \in Nat /\ i <= c
      BY <1>1
    <3>2. \A a \in Nat, b \in Nat : D * a \in Nat /\ D * (a + 1) = D * a + D
                                    /\ (a <= b => D * a <= D * b)
      BY <1>1
    <3>3. i - 1 + 1 = i
      BY <3>1
    <3>. QED  BY <1>1, <3>1, <3>2, <3>3
  <2>2. z \div c = D
    BY <1>1, Quotients
  <2>. HIDE DEF x, y, z
  <2>3. /\ x \div c + 1 <= y \div c /\ y \div c <= z \div c
        /\ x \div c \in Nat /\ y \div c \in Nat
    BY <1>1, <2>1, Quotients
  <2>4. D = LastSecond + 1
    BY DEF D
  <2>. QED  BY <1>1, <2>2, <2>3, <2>4 DEF x, y
<1>4. lo(1) = 0 /\ hi(c) = LastSecond
  <2>1. (D * 0) \div c = 0 /\ (D * c) \div c = D
    BY <1>1, Quotients
  <2>. QED  BY <1>1, <2>1 DEF D
<1>5. \A i \in 1 .. c - 1 : lo(i + 1) = hi(i) + 1 /\ i \in 1 .. c /\ i + 1 \in 1 .. c
  <2>. SUFFICES ASSUME NEW i \in 1 .. c - 1
                PROVE  lo(i + 1) = hi(i) + 1 /\ i \in 1 .. c /\ i + 1 \in 1 .. c
    OBVIOUS
  <2>1. i + 1 - 1 = i /\ i \in 1 .. c /\ i + 1 \in 1 .. c
    BY <1>1
  <2>2. (D * i) \div c \in Int
    BY <1>1
  <2>3. (D * i) \div c - 1 + 1 = (D * i) \div c
    BY <2>2
  <2>. QED  BY <2>1, <2>3
<1>. HIDE DEF lo, hi
<1>6. s \in [1 .. c -> Window]
  <2>1. \A i \in 1 .. c : <<lo(i), hi(i)>> \in Window
    BY <1>1, <1>3 DEF Window, Seconds
  <2>. QED  BY <2>1
<1>7. \A i \in 1 .. c : s[i][1] = lo(i) /\ s[i][2] = hi(i)
  OBVIOUS
<1>. HIDE DEF s
<1>8. s \in Seq(Window) /\ Len(s) = c /\ s # <<>> /\ 1 \in 1 .. c /\ c \in 1 .. c
  BY <1>1, <1>6
<1>9. ChainFrom(0, s)
  BY <1>1, <1>4, <1>5, <1>7, <1>8 DEF ChainFrom
<1>. QED  BY <1>2, <1>8, <1>9

(* N are the windows whose rows are in a file: every second of a run of    *)
(* seconds is in one of them.                                              *)
Held(g, a, b, N) == \A s \in a .. b : \E w \in Window : <<g, w>> \in N /\ s \in SecondsIn(w)

(* What is said of a window, and of the seconds of a group up to one.      *)
Right(g, w, v, N) == v.complete => v = Whole(Count(<<g, w>>)) /\ Held(g, w[1], w[2], N)
UpToSecond(g, b, v, N) == v.complete => v.rows = Total(trades[g], 0 .. b) /\ Held(g, 0, b, N)

Outcome == [complete : BOOLEAN, rows : Nat, gaps : Nat]
FrameSet == [window : Window, side : {"left", "right"}, left : Outcome]
ThreadSet ==
    [group : 0 .. GroupCount, at : Steps, todo : Seq(Window), stack : Seq(FrameSet),
     sum : Outcome, value : Outcome, offset : Nat, attempt : Nat]

(* A frame and the window of the frame it called.                          *)
Calls(g, f, c, N) ==
    /\ f.window[1] < f.window[2]
    /\ f.side = "left" => c = LeftHalf(f.window)
    /\ f.side = "right" => /\ c = RightHalf(f.window)
                           /\ Right(g, LeftHalf(f.window), f.left, N)
Frames(g, s, N) == \A i \in 1 .. Len(s) - 1 : Calls(g, s[i], s[i + 1].window, N)

Reading == {"enter", "page", "split", "rows", "receipt"}
InWindow == Reading \cup {"clean", "return"}

(* A thread in a window: the seconds before its first window are summed    *)
(* up, those behind it are to do, and the frames call each other.          *)
OnStack(r, N) ==
    /\ r.stack # <<>>
    /\ ChainFrom(r.stack[1].window[2] + 1, r.todo)
    /\ UpToSecond(r.group, r.stack[1].window[1] - 1, r.sum, N)
    /\ Frames(r.group, r.stack, N)

(* The window on top is read whole where its rows are written, and         *)
(* returned with what is true of it.                                       *)
AtTop(r, f, N) ==
    LET p == <<r.group, f.window>>
    IN  /\ r.at \in Reading => f.side = "left"
        /\ r.at = "page" => r.offset \in {0, MaximumOffset} \/ ~ Full(p, MaximumOffset)
        /\ r.at \in {"rows", "receipt"} => ~ Full(p, MaximumOffset)
        /\ r.at = "receipt" => p \in N
        /\ r.at \in {"clean", "return"} => Right(r.group, f.window, r.value, N)

Working(r, N) ==
    /\ r.at # "idle" => r.group \in Groups
    /\ r.at \in InWindow => OnStack(r, N) /\ AtTop(r, r.stack[Len(r.stack)], N)
    /\ r.at = "group" => UpToSecond(r.group, LastSecond, r.sum, N)

WindowReceipt ==
    [status : {"none", "leaf_complete", "unresolved", "split", "split_complete"},
     outcome : Outcome]

ReceiptsRight(W, N) ==
    /\ W \in [Groups \X Window -> WindowReceipt]
    /\ \A g \in Groups, w \in Window :
          /\ Right(g, w, W[<<g, w>>].outcome, N)
          /\ W[<<g, w>>].status \in {"split", "split_complete"} => w[1] < w[2]

LEMMA OutcomeFacts ==
  ASSUME NEW n \in Nat, NEW a \in Outcome, NEW b \in Outcome
  PROVE  /\ Whole(n) \in Outcome /\ Unresolved \in Outcome /\ Unknown \in Outcome
         /\ ~ Unresolved.complete /\ ~ Unknown.complete
         /\ Whole(n).complete /\ Whole(n).rows = n /\ Whole(n).gaps = 0
         /\ Both(a, b) \in Outcome
         /\ Both(a, b).complete => a.complete /\ b.complete
         /\ Both(a, b).rows = a.rows + b.rows
  BY DEF Whole, Unresolved, Unknown, Both, Outcome

LEMMA BothWhole ==
  ASSUME NEW x \in Nat, NEW y \in Nat
  PROVE  Both(Whole(x), Whole(y)) = Whole(x + y)
<1>1. Both(Whole(x), Whole(y)) = [complete |-> TRUE /\ TRUE, rows |-> x + y, gaps |-> 0 + 0]
  BY DEF Both, Whole
<1>2. 0 + 0 = 0
  OBVIOUS
<1>3. (TRUE /\ TRUE) = TRUE
  OBVIOUS
<1>. QED  BY <1>1, <1>2, <1>3 DEF Whole

LEMMA HalvesFacts ==
  ASSUME NEW w \in Window, w[1] < w[2]
  PROVE  /\ LeftHalf(w) \in Window /\ RightHalf(w) \in Window
         /\ LeftHalf(w)[1] = w[1] /\ RightHalf(w)[1] = LeftHalf(w)[2] + 1
         /\ RightHalf(w)[2] = w[2] /\ LeftHalf(w)[2] < w[2] /\ w[1] <= LeftHalf(w)[2]
<1>1. LastSecond \in Nat
  BY TradeAssumption
<1>2. w[1] \in Nat /\ w[2] \in Nat /\ w[2] <= LastSecond
  BY <1>1 DEF Window, Seconds
<1>3. Cut(w) \in Nat /\ w[1] <= Cut(w) /\ Cut(w) < w[2]
  BY <1>2 DEF Cut
<1>. QED  BY <1>1, <1>2, <1>3 DEF LeftHalf, RightHalf, Window, Seconds

LEMMA HeldJoins ==
  ASSUME NEW g, NEW N, NEW a \in Int, NEW b \in Int, NEW c \in Int,
         Held(g, a, c, N), Held(g, c + 1, b, N)
  PROVE  Held(g, a, b, N)
<1>1. \A s \in a .. b : s \in a .. c \/ s \in c + 1 .. b
  OBVIOUS
<1>. QED  BY <1>1 DEF Held

(* What is true of both halves is true of the window.                      *)
LEMMA HalvesJoin ==
  ASSUME TradesOK, NEW g \in Groups, NEW w \in Window, w[1] < w[2], NEW N,
         NEW a \in Outcome, NEW b \in Outcome,
         Right(g, LeftHalf(w), a, N), Right(g, RightHalf(w), b, N)
  PROVE  Right(g, w, Both(a, b), N)
<1>. DEFINE l == LeftHalf(w)
            r == RightHalf(w)
<1>0. SUFFICES ASSUME Both(a, b).complete
               PROVE  Both(a, b) = Whole(Count(<<g, w>>)) /\ Held(g, w[1], w[2], N)
  BY DEF Right
<1>1. a.complete /\ b.complete
  BY <1>0, OutcomeFacts
<1>2. /\ l \in Window /\ r \in Window /\ l[1] = w[1] /\ r[1] = l[2] + 1 /\ r[2] = w[2]
      /\ l[2] < w[2] /\ w[1] <= l[2]
  BY HalvesFacts
<1>3. /\ a = Whole(Count(<<g, l>>)) /\ Held(g, l[1], l[2], N)
      /\ b = Whole(Count(<<g, r>>)) /\ Held(g, r[1], r[2], N)
  BY <1>1 DEF Right
<1>. HIDE DEF l, r
<1>4. /\ l[1] \in Nat /\ l[2] \in Nat /\ r[1] \in Nat /\ r[2] \in Nat
      /\ w[1] \in Nat /\ w[2] \in Nat /\ w[2] <= LastSecond
      /\ Count(<<g, l>>) = Total(trades[g], l[1] .. l[2]) /\ Count(<<g, l>>) \in Nat
      /\ Count(<<g, r>>) = Total(trades[g], r[1] .. r[2]) /\ Count(<<g, r>>) \in Nat
      /\ Count(<<g, w>>) = Total(trades[g], w[1] .. w[2])
  BY <1>2, WindowCount
<1>5. Count(<<g, w>>) = Count(<<g, l>>) + Count(<<g, r>>)
  <2>1. \A s \in w[1] .. w[2] : trades[g][s] \in Nat
    BY WindowCount
  <2>2. Total(trades[g], w[1] .. w[2])
          = Total(trades[g], w[1] .. l[2]) + Total(trades[g], l[2] + 1 .. w[2])
    <3>1. w[1] \in Int /\ w[2] \in Int /\ l[2] \in Int /\ w[1] <= l[2] + 1 /\ l[2] <= w[2]
      BY <1>2, <1>4
    <3>. DEFINE f == trades[g]
                x == w[1]
                y == w[2]
                z == l[2]
    <3>2. \A s \in x .. y : f[s] \in Nat
      BY <2>1
    <3>4. x \in Int /\ y \in Int /\ z \in Int /\ x <= z + 1 /\ z <= y
      BY <3>1
    <3>. HIDE DEF f, x, y, z
    <3>3. Total(f, x .. y) = Total(f, x .. z) + Total(f, z + 1 .. y)
      BY <3>2, <3>4, TotalOfRuns
    <3>. QED  BY <3>3 DEF f, x, y, z
  <2>. QED  BY <1>2, <1>4, <2>2
<1>6. Both(a, b) = Whole(Count(<<g, w>>))
  <2>1. Both(a, b) = Whole(Count(<<g, l>>) + Count(<<g, r>>))
    BY <1>3, <1>4, BothWhole
  <2>. QED  BY <1>5, <2>1
<1>7. Held(g, w[1], w[2], N)
  BY <1>2, <1>3, <1>4, HeldJoins
<1>. QED  BY <1>6, <1>7

(* A first window joins the seconds before it.                             *)
LEMMA SumGrows ==
  ASSUME TradesOK, NEW g \in Groups, NEW w \in Window, NEW N,
         NEW a \in Outcome, NEW b \in Outcome,
         UpToSecond(g, w[1] - 1, a, N), Right(g, w, b, N)
  PROVE  UpToSecond(g, w[2], Both(a, b), N)
<1>0. SUFFICES ASSUME Both(a, b).complete
               PROVE  Both(a, b).rows = Total(trades[g], 0 .. w[2]) /\ Held(g, 0, w[2], N)
  BY DEF UpToSecond
<1>1. a.complete /\ b.complete
  BY <1>0, OutcomeFacts
<1>2. a.rows = Total(trades[g], 0 .. w[1] - 1) /\ Held(g, 0, w[1] - 1, N)
  BY <1>1 DEF UpToSecond
<1>3. b = Whole(Count(<<g, w>>)) /\ Held(g, w[1], w[2], N)
  BY <1>1 DEF Right
<1>4. /\ w[1] \in Nat /\ w[2] \in Nat /\ w[1] <= w[2] /\ w[2] <= LastSecond
      /\ Count(<<g, w>>) = Total(trades[g], w[1] .. w[2])
  BY WindowCount
<1>5. Both(a, b).rows = Total(trades[g], 0 .. w[1] - 1) + Total(trades[g], w[1] .. w[2])
  <2>1. Both(a, b).rows = a.rows + b.rows
    BY OutcomeFacts
  <2>2. b.rows = Count(<<g, w>>)
    BY <1>3 DEF Whole
  <2>. QED  BY <1>2, <1>4, <2>1, <2>2
<1>6. /\ 0 \in Int /\ w[1] - 1 \in Int /\ w[2] \in Int /\ 0 <= w[1] - 1 + 1 /\ w[1] - 1 <= w[2]
      /\ w[1] - 1 + 1 = w[1]
  BY <1>4
<1>7. Total(trades[g], 0 .. w[2]) = Total(trades[g], 0 .. w[1] - 1) + Total(trades[g], w[1] .. w[2])
  <2>1. \A s \in 0 .. w[2] : trades[g][s] \in Nat
    BY <1>4, CountIsNat
  <2>. QED  BY <1>6, <2>1, TotalOfRuns
<1>8. Held(g, 0, w[2], N)
  BY <1>2, <1>3, <1>6, HeldJoins
<1>. QED  BY <1>5, <1>7, <1>8

(***************************************************************************)
(* The inductive invariant.                                                *)
(***************************************************************************)
ThreadsRight(W, N) == W \in [Workers -> ThreadSet] /\ \A t \in Workers : Working(W[t], N)
GroupsRight(G, N) ==
    G \in [Groups -> Outcome] /\ \A g \in Groups : UpToSecond(g, LastSecond, G[g], N)

Collected ==
    /\ trades \in TradeCounts
    /\ ReceiptsRight(windows, normalizedRows)
    /\ GroupsRight(groups, normalizedRows)
    /\ ThreadsRight(worker, normalizedRows)

Active(t) == worker[t].at # "idle"

FutureSet == {"none", "running", "completed", "skipped", "incomplete", "budget", "error"}

(* A group is in the hands of one thread at most, and complete once its    *)
(* future says so; no thread runs without the main thread, and nothing     *)
(* happens behind a receipt of the run that says complete.                 *)
Orderly ==
    /\ result \in [Groups -> FutureSet]
    /\ \A g \in Groups : result[g] \in {"completed", "skipped"} => groups[g].complete
    /\ mode = "down" => \A t \in Workers : ~ Active(t)
    /\ summary.complete => mode = "down" /\ \A g \in Groups : groups[g].complete
    /\ \A t \in Workers : Active(t) => result[worker[t].group] = "running"
    /\ \A t, u \in Workers :
          t # u /\ Active(t) /\ Active(u) => worker[t].group # worker[u].group

CollectInv == Collected /\ Orderly

LEMMA CollectFrozen ==
  ASSUME trades' = trades, trades \in TradeCounts,
         ReceiptsRight(windows', normalizedRows'),
         GroupsRight(groups', normalizedRows'),
         ThreadsRight(worker', normalizedRows')
  PROVE  Collected'
<1>1. \A p : Count(p)' = Count(p)
  BY DEF Count, SecondsIn
<1>2. \A p, o : Full(p, o)' = Full(p, o)
  BY <1>1 DEF Full, Length
<1>3. \A g, w, v, N : Right(g, w, v, N)' <=> Right(g, w, v, N)
  BY <1>1 DEF Right
<1>4. \A g, b, v, N : UpToSecond(g, b, v, N)' <=> UpToSecond(g, b, v, N)
  BY DEF UpToSecond
<1>5. \A g, f, c, N : Calls(g, f, c, N)' <=> Calls(g, f, c, N)
  BY <1>3 DEF Calls
<1>6. \A g, s, N : Frames(g, s, N)' <=> Frames(g, s, N)
  BY <1>5 DEF Frames
<1>7. \A r, N : OnStack(r, N)' <=> OnStack(r, N)
  BY <1>4, <1>6 DEF OnStack
<1>8. \A r, f, N : AtTop(r, f, N)' <=> AtTop(r, f, N)
  BY <1>2, <1>3 DEF AtTop
<1>9. \A r, N : Working(r, N)' <=> Working(r, N)
  BY <1>4, <1>7, <1>8 DEF Working
<1>10. ReceiptsRight(windows, normalizedRows)'
  BY <1>3 DEF ReceiptsRight
<1>11. GroupsRight(groups, normalizedRows)'
  BY <1>4 DEF GroupsRight
<1>12. ThreadsRight(worker, normalizedRows)'
  BY <1>9 DEF ThreadsRight
<1>. QED  BY <1>10, <1>11, <1>12 DEF Collected

(* A further file of rows takes nothing away.                              *)
LEMMA MoreRows ==
  ASSUME NEW N, NEW M, N \subseteq M
  PROVE  /\ \A g, w, v : Right(g, w, v, N) => Right(g, w, v, M)
         /\ \A g, b, v : UpToSecond(g, b, v, N) => UpToSecond(g, b, v, M)
         /\ \A g, s : Frames(g, s, N) => Frames(g, s, M)
         /\ \A r : OnStack(r, N) => OnStack(r, M)
         /\ \A r : Working(r, N) => Working(r, M)
         /\ \A W : ReceiptsRight(W, N) => ReceiptsRight(W, M)
         /\ \A G : GroupsRight(G, N) => GroupsRight(G, M)
<1>1. \A g, a, b : Held(g, a, b, N) => Held(g, a, b, M)
  BY DEF Held
<1>2. \A g, w, v : Right(g, w, v, N) => Right(g, w, v, M)
  BY <1>1 DEF Right
<1>3. \A g, b, v : UpToSecond(g, b, v, N) => UpToSecond(g, b, v, M)
  BY <1>1 DEF UpToSecond
<1>4. \A g, f, c : Calls(g, f, c, N) => Calls(g, f, c, M)
  BY <1>2 DEF Calls
<1>5. \A g, s : Frames(g, s, N) => Frames(g, s, M)
  BY <1>4 DEF Frames
<1>6. \A r : OnStack(r, N) => OnStack(r, M)
  BY <1>3, <1>5 DEF OnStack
<1>7. \A r, f : AtTop(r, f, N) => AtTop(r, f, M)
  BY <1>2 DEF AtTop
<1>8. \A r : Working(r, N) => Working(r, M)
  BY <1>3, <1>6, <1>7 DEF Working
<1>9. \A W : ReceiptsRight(W, N) => ReceiptsRight(W, M)
  BY <1>2 DEF ReceiptsRight
<1>10. \A G : GroupsRight(G, N) => GroupsRight(G, M)
  BY <1>3 DEF GroupsRight
<1>. QED  BY <1>2, <1>3, <1>5, <1>6, <1>8, <1>9, <1>10

(* A receipt that tells the truth.                                         *)
LEMMA ReceiptKept ==
  ASSUME NEW N, NEW W, ReceiptsRight(W, N), NEW g \in Groups, NEW w \in Window,
         NEW s, NEW o \in Outcome, Right(g, w, o, N),
         s \in {"none", "leaf_complete", "unresolved", "split", "split_complete"},
         s \in {"split", "split_complete"} => w[1] < w[2]
  PROVE  ReceiptsRight([W EXCEPT ![<<g, w>>] = [status |-> s, outcome |-> o]], N)
<1>. DEFINE e == [status |-> s, outcome |-> o]
            V == [W EXCEPT ![<<g, w>>] = e]
<1>1. e \in WindowReceipt /\ e.status = s /\ e.outcome = o
  BY DEF WindowReceipt
<1>2. W \in [Groups \X Window -> WindowReceipt]
  BY DEF ReceiptsRight
<1>. HIDE DEF e
<1>3. V \in [Groups \X Window -> WindowReceipt]
  BY <1>1, <1>2
<1>4. \A h \in Groups, v \in Window : V[<<h, v>>] = IF h = g /\ v = w THEN e ELSE W[<<h, v>>]
  BY <1>2
<1>. HIDE DEF V
<1>5. ASSUME NEW h \in Groups, NEW v \in Window
      PROVE  /\ Right(h, v, V[<<h, v>>].outcome, N)
             /\ V[<<h, v>>].status \in {"split", "split_complete"} => v[1] < v[2]
  <2>1. CASE h = g /\ v = w
    BY <1>1, <1>4, <2>1
  <2>2. CASE ~(h = g /\ v = w)
    BY <1>4, <2>2 DEF ReceiptsRight
  <2>. QED  BY <2>1, <2>2
<1>. QED  BY <1>3, <1>5 DEF ReceiptsRight, V, e

(* A step of one thread that keeps its group in hand.                      *)
LEMMA LocalStep ==
  ASSUME CollectInv, NEW t \in Workers, NEW r \in ThreadSet, Active(t), r.at # "idle",
         r.group = worker[t].group, worker' = [worker EXCEPT ![t] = r],
         UNCHANGED <<trades, groups, summary, mode, result>>,
         normalizedRows \subseteq normalizedRows', Working(r, normalizedRows'),
         ReceiptsRight(windows', normalizedRows')
  PROVE  CollectInv'
<1>1. worker \in [Workers -> ThreadSet]
  BY DEF CollectInv, Collected, ThreadsRight
<1>2. \A u \in Workers : worker'[u] = IF u = t THEN r ELSE worker[u]
  BY <1>1
<1>3. ThreadsRight(worker', normalizedRows')
  <2>1. \A u \in Workers : Working(worker[u], normalizedRows')
    BY MoreRows DEF CollectInv, Collected, ThreadsRight
  <2>. QED  BY <1>1, <1>2, <2>1 DEF ThreadsRight
<1>4. GroupsRight(groups', normalizedRows')
  BY MoreRows DEF CollectInv, Collected
<1>5. Collected'
  BY <1>3, <1>4, CollectFrozen DEF CollectInv, Collected
<1>6. \A u \in Workers : Active(u)' = Active(u) /\ worker'[u].group = worker[u].group
  BY <1>2 DEF Active
<1>7. Orderly'
  BY <1>6 DEF CollectInv, Orderly
<1>. QED  BY <1>5, <1>7 DEF CollectInv

(* A step within the window on top of the stack.                           *)
LEMMA SameStack ==
  ASSUME NEW N, NEW M, N \subseteq M, NEW r \in ThreadSet, Working(r, N), r.at \in InWindow,
         NEW q \in ThreadSet, q.group = r.group, q.stack = r.stack, q.todo = r.todo,
         q.sum = r.sum, q.at \in InWindow, AtTop(q, q.stack[Len(q.stack)], M)
  PROVE  Working(q, M)
<1>1. OnStack(q, M)
  <2>1. OnStack(r, M)
    BY MoreRows DEF Working
  <2>. QED  BY <2>1 DEF OnStack
<1>2. q.group \in Groups /\ q.at # "group"
  BY DEF Working, InWindow, Reading
<1>. QED  BY <1>1, <1>2 DEF Working

(* What the invariant says of a thread in a window.                        *)
LEMMA ThreadFacts ==
  ASSUME CollectInv, NEW t \in Workers
  PROVE  /\ TradesOK /\ worker \in [Workers -> ThreadSet] /\ worker[t] \in ThreadSet
         /\ Working(worker[t], normalizedRows)
         /\ ReceiptsRight(windows, normalizedRows)
         /\ worker[t].at \in InWindow =>
               /\ Active(t) /\ Group(t) \in Groups /\ Top(t) \in Window
               /\ Here(t) = <<Group(t), Top(t)>> /\ Here(t) \in Groups \X Window
               /\ worker[t].stack # <<>> /\ Len(worker[t].stack) \in Nat \ {0}
               /\ worker[t].stack[Len(worker[t].stack)] \in FrameSet
               /\ worker[t].stack[Len(worker[t].stack)].window = Top(t)
               /\ OnStack(worker[t], normalizedRows)
               /\ AtTop(worker[t], worker[t].stack[Len(worker[t].stack)], normalizedRows)
<1>1. /\ TradesOK /\ worker \in [Workers -> ThreadSet]
      /\ Working(worker[t], normalizedRows) /\ ReceiptsRight(windows, normalizedRows)
  BY TradeAssumption DEF CollectInv, Collected, ThreadsRight, TradesOK
<1>2. worker[t] \in ThreadSet
  BY <1>1
<1>3. ASSUME worker[t].at \in InWindow
      PROVE  /\ Active(t) /\ Group(t) \in Groups /\ Top(t) \in Window
             /\ Here(t) = <<Group(t), Top(t)>> /\ Here(t) \in Groups \X Window
             /\ worker[t].stack # <<>> /\ Len(worker[t].stack) \in Nat \ {0}
             /\ worker[t].stack[Len(worker[t].stack)] \in FrameSet
             /\ worker[t].stack[Len(worker[t].stack)].window = Top(t)
             /\ OnStack(worker[t], normalizedRows)
             /\ AtTop(worker[t], worker[t].stack[Len(worker[t].stack)], normalizedRows)
  <2>. DEFINE s == worker[t].stack
              n == Len(s)
  <2>1. worker[t].at # "idle" /\ Group(t) \in Groups
    BY <1>1, <1>3 DEF Working, Group, InWindow, Reading
  <2>2. OnStack(worker[t], normalizedRows) /\ AtTop(worker[t], s[n], normalizedRows)
    BY <1>1, <1>3 DEF Working
  <2>3. s \in Seq(FrameSet) /\ s # <<>>
    BY <1>2, <2>2 DEF ThreadSet, OnStack
  <2>. HIDE DEF s
  <2>4. n \in Nat \ {0} /\ s[n] \in FrameSet
    BY <2>3
  <2>5. Top(t) = s[n].window
    BY DEF Top, Last, s
  <2>6. s[n].window \in Window
    BY <2>4 DEF FrameSet
  <2>. QED  BY <2>1, <2>2, <2>3, <2>4, <2>5, <2>6 DEF Active, Here, s
<1>. QED  BY <1>1, <1>2, <1>3

(* A page leads on to rows only when the window is read whole.             *)
LEMMA AfterFacts ==
  ASSUME TradesOK, NEW g \in Groups, NEW w \in Window, NEW o \in Nat,
         o \in {0, MaximumOffset} \/ ~ Full(<<g, w>>, MaximumOffset),
         NEW a, a = After(<<g, w>>, o)
  PROVE  /\ a[1] \in {"page", "rows", "split"} /\ a[2] \in Nat
         /\ a[1] = "page" => a[2] \in {0, MaximumOffset} \/ ~ Full(<<g, w>>, MaximumOffset)
         /\ a[1] = "rows" => ~ Full(<<g, w>>, MaximumOffset)
<1>. DEFINE p == <<g, w>>
<1>1. Count(p) \in Nat /\ PageSize \in Nat \ {0} /\ MaximumOffset \in Nat \ {0}
  BY WindowCount, TradeAssumption
<1>2. ~ Full(p, 0) => ~ Full(p, MaximumOffset)
  BY <1>1 DEF Full, Length, Least
<1>. HIDE DEF p
<1>3. o + PageSize \in Nat
  BY <1>1
<1>4. CASE o = 0
  BY <1>1, <1>2, <1>4 DEF After, p
<1>5. CASE o # 0 /\ o = MaximumOffset
  BY <1>1, <1>5 DEF After, p
<1>6. CASE o # 0 /\ o # MaximumOffset
  BY <1>1, <1>3, <1>6 DEF After, p
<1>. QED  BY <1>4, <1>5, <1>6

LEMMA GotPageKeeps ==
  ASSUME CollectInv, NEW t \in Workers, worker[t].at = "page", GotPage(t),
         UNCHANGED <<trades, windows, normalizedRows, groups, summary, mode, result>>
  PROVE  CollectInv'
<1>. DEFINE w == worker[t]
            a == After(Here(t), w.offset)
            r == [w EXCEPT !.at = a[1], !.offset = a[2], !.attempt = 0]
            N == normalizedRows
            f == w.stack[Len(w.stack)]
<1>1. w.at \in InWindow /\ w.at \in Reading
  BY DEF InWindow, Reading
<1>2. /\ TradesOK /\ w \in ThreadSet /\ Working(w, N) /\ ReceiptsRight(windows, N)
      /\ Active(t) /\ Group(t) \in Groups /\ Top(t) \in Window /\ Here(t) = <<Group(t), Top(t)>>
      /\ f.window = Top(t) /\ AtTop(w, f, N)
  BY <1>1, ThreadFacts
<1>3. w.offset \in Nat /\ f.side = "left"
      /\ (w.offset \in {0, MaximumOffset} \/ ~ Full(Here(t), MaximumOffset))
  BY <1>1, <1>2 DEF ThreadSet, AtTop, Group
<1>4. /\ a[1] \in {"page", "rows", "split"} /\ a[2] \in Nat
      /\ a[1] = "page" => a[2] \in {0, MaximumOffset} \/ ~ Full(Here(t), MaximumOffset)
      /\ a[1] = "rows" => ~ Full(Here(t), MaximumOffset)
  BY <1>2, <1>3, AfterFacts
<1>. HIDE DEF a
<1>5. worker' = [worker EXCEPT ![t] = r]
  BY DEF GotPage, a
<1>. HIDE DEF w
<1>6. /\ r \in ThreadSet /\ r.at = a[1] /\ r.offset = a[2] /\ r.group = w.group
      /\ r.stack = w.stack /\ r.todo = w.todo /\ r.sum = w.sum
  BY <1>2, <1>4 DEF ThreadSet, Steps
<1>. HIDE DEF r
<1>7. AtTop(r, f, N)
  BY <1>2, <1>3, <1>4, <1>6 DEF AtTop, Group, w
<1>8. r.at \in InWindow /\ r.at # "idle"
  BY <1>4, <1>6 DEF InWindow, Reading
<1>9. Working(r, N)
  BY <1>1, <1>2, <1>6, <1>7, <1>8, SameStack DEF w
<1>. QED  BY <1>2, <1>5, <1>6, <1>8, <1>9, LocalStep DEF w

(* A step of a thread within the window on top of its stack.               *)
LEMMA TopStep ==
  ASSUME CollectInv, NEW t \in Workers, worker[t].at \in InWindow,
         NEW r \in ThreadSet, r.at \in InWindow,
         r.group = worker[t].group, r.stack = worker[t].stack, r.todo = worker[t].todo,
         r.sum = worker[t].sum, worker' = [worker EXCEPT ![t] = r],
         UNCHANGED <<trades, groups, summary, mode, result>>,
         normalizedRows \subseteq normalizedRows',
         AtTop(r, worker[t].stack[Len(worker[t].stack)], normalizedRows'),
         ReceiptsRight(windows', normalizedRows')
  PROVE  CollectInv'
<1>1. Active(t) /\ worker[t] \in ThreadSet /\ Working(worker[t], normalizedRows)
  BY ThreadFacts
<1>2. r.at # "idle"
  BY DEF InWindow, Reading
<1>3. Working(r, normalizedRows')
  BY <1>1, SameStack
<1>. QED  BY <1>1, <1>2, <1>3, LocalStep

LEMMA EnterKeeps ==
  ASSUME CollectInv, NEW t \in Workers, Enter(t)
  PROVE  CollectInv'
<1>. DEFINE w == worker[t]
            N == normalizedRows
            n == Len(w.stack)
            f == w.stack[n]
            u == Top(t)
<1>1. w.at = "enter" /\ w.at \in InWindow /\ w.at \in Reading
  BY DEF InWindow, Reading, Enter
<1>2. /\ TradesOK /\ w \in ThreadSet /\ Working(w, N) /\ ReceiptsRight(windows, N)
      /\ Active(t) /\ Group(t) \in Groups /\ u \in Window /\ Here(t) = <<Group(t), u>>
      /\ n \in Nat \ {0} /\ f \in FrameSet /\ f.window = u
      /\ OnStack(w, N) /\ AtTop(w, f, N)
  BY <1>1, ThreadFacts
<1>3. f.side = "left"
  BY <1>1, <1>2 DEF AtTop
<1>4. UNCHANGED <<trades, groups, summary, mode, result, windows, normalizedRows>>
  BY DEF Enter, disk
<1>5. ReceiptsRight(windows', N') /\ N \subseteq N' /\ N' = N
  BY <1>2, <1>4
<1>6. Group(t) = w.group
  BY DEF Group
<1>7. CASE Leaf(Here(t))
  <2>. DEFINE v == windows[Here(t)].outcome
              r == [w EXCEPT !.at = "return", !.value = v]
  <2>1. worker' = [worker EXCEPT ![t] = r]
    BY <1>7 DEF Enter
  <2>2. v \in Outcome /\ Right(Group(t), u, v, N)
    BY <1>2 DEF ReceiptsRight, WindowReceipt
  <2>. HIDE DEF v, w
  <2>3. /\ r \in ThreadSet /\ r.at = "return" /\ r.value = v /\ r.group = w.group
        /\ r.stack = w.stack /\ r.todo = w.todo /\ r.sum = w.sum
    BY <1>2, <2>2 DEF ThreadSet, Steps
  <2>. HIDE DEF r
  <2>4. AtTop(r, f, N)
    BY <1>2, <1>6, <2>2, <2>3 DEF AtTop, Reading
  <2>5. r.at \in InWindow
    BY <2>3 DEF InWindow
  <2>6. AtTop(r, f, N')
    BY <1>5, <2>4
  <2>. QED  BY <1>1, <1>4, <1>5, <2>1, <2>3, <2>5, <2>6, TopStep DEF w
<1>8. CASE ~ Leaf(Here(t)) /\ Split(Here(t))
  <2>. DEFINE c == Frame(LeftHalf(u))
              s == Append(w.stack, c)
              r == [w EXCEPT !.stack = s]
  <2>1. worker' = [worker EXCEPT ![t] = r]
    BY <1>8 DEF Enter
  <2>2. u[1] < u[2]
    BY <1>2, <1>8 DEF ReceiptsRight, Split
  <2>3. c \in FrameSet /\ c.window = LeftHalf(u) /\ c.side = "left"
    <3>1. LeftHalf(u) \in Window
      BY <1>2, <2>2, HalvesFacts
    <3>. QED  BY <3>1 DEF Frame, FrameSet, Unknown, Outcome
  <2>. HIDE DEF c, w, u
  <2>4. w.stack \in Seq(FrameSet)
    BY <1>2 DEF ThreadSet
  <2>5. /\ s \in Seq(FrameSet) /\ Len(s) = n + 1 /\ s # <<>> /\ s[n + 1] = c
        /\ \A i \in 1 .. n : s[i] = w.stack[i]
    BY <1>2, <2>3, <2>4
  <2>. HIDE DEF s
  <2>6. /\ r \in ThreadSet /\ r.at = "enter" /\ r.group = w.group
        /\ r.stack = s /\ r.todo = w.todo /\ r.sum = w.sum
    BY <1>1, <1>2, <2>5 DEF ThreadSet, Steps
  <2>. HIDE DEF r
  <2>7. Frames(w.group, s, N)
    <3>. SUFFICES ASSUME NEW i \in 1 .. n
                  PROVE  Calls(w.group, s[i], s[i + 1].window, N)
      BY <1>2, <2>5 DEF Frames
    <3>1. CASE i = n
      <4>1. s[i] = f /\ s[i + 1] = c
        BY <1>2, <2>5, <3>1
      <4>. QED  BY <1>2, <1>3, <2>2, <2>3, <4>1 DEF Calls
    <3>2. CASE i # n
      <4>1. i \in 1 .. n - 1 /\ i + 1 \in 1 .. n
        BY <1>2, <3>2
      <4>2. s[i] = w.stack[i] /\ s[i + 1] = w.stack[i + 1]
        BY <2>5, <4>1
      <4>3. Frames(w.group, w.stack, N)
        BY <1>2 DEF OnStack
      <4>. QED  BY <4>1, <4>2, <4>3 DEF Frames
    <3>. QED  BY <3>1, <3>2
  <2>8. OnStack(r, N)
    <3>1. s[1] = w.stack[1]
      BY <1>2, <2>5
    <3>. QED  BY <1>2, <2>5, <2>6, <2>7, <3>1 DEF OnStack
  <2>9. AtTop(r, c, N)
    BY <2>3, <2>6 DEF AtTop
  <2>10. Working(r, N)
    BY <1>2, <1>6, <2>5, <2>6, <2>8, <2>9 DEF Working
  <2>11. r.at # "idle"
    BY <2>6
  <2>12. Working(r, N')
    BY <1>5, <2>10
  <2>. QED  BY <1>2, <1>4, <1>5, <2>1, <2>6, <2>11, <2>12, LocalStep DEF w
<1>9. CASE ~ Leaf(Here(t)) /\ ~ Split(Here(t))
  <2>. DEFINE r == [w EXCEPT !.at = "page", !.offset = 0, !.attempt = 0]
  <2>1. worker' = [worker EXCEPT ![t] = r]
    BY <1>9 DEF Enter
  <2>. HIDE DEF w
  <2>3. /\ r \in ThreadSet /\ r.at = "page" /\ r.offset = 0 /\ r.group = w.group
        /\ r.stack = w.stack /\ r.todo = w.todo /\ r.sum = w.sum
    BY <1>2 DEF ThreadSet, Steps
  <2>. HIDE DEF r
  <2>4. AtTop(r, f, N)
    BY <1>3, <2>3 DEF AtTop
  <2>5. r.at \in InWindow
    BY <2>3 DEF InWindow, Reading
  <2>6. AtTop(r, f, N')
    BY <1>5, <2>4
  <2>. QED  BY <1>1, <1>4, <1>5, <2>1, <2>3, <2>5, <2>6, TopStep DEF w
<1>. QED  BY <1>7, <1>8, <1>9

LEMMA SplitWindowKeeps ==
  ASSUME CollectInv, NEW t \in Workers, SplitWindow(t)
  PROVE  CollectInv'
<1>. DEFINE w == worker[t]
            N == normalizedRows
            f == w.stack[Len(w.stack)]
            u == Top(t)
<1>1. w.at = "split" /\ w.at \in InWindow /\ w.at \in Reading
  BY DEF InWindow, Reading, SplitWindow
<1>2. /\ TradesOK /\ w \in ThreadSet /\ ReceiptsRight(windows, N)
      /\ Group(t) \in Groups /\ u \in Window /\ Here(t) = <<Group(t), u>>
      /\ f.window = u /\ AtTop(w, f, N)
  BY <1>1, ThreadFacts
<1>3. f.side = "left"
  BY <1>1, <1>2 DEF AtTop
<1>4. UNCHANGED <<trades, groups, summary, mode, result, normalizedRows>>
  BY DEF SplitWindow
<1>5. N \subseteq N' /\ N' = N
  BY <1>4
<1>6. Group(t) = w.group
  BY DEF Group
<1>7. u[1] \in Nat /\ u[2] \in Nat /\ MinimumWindow \in Nat
  BY <1>2, TradeAssumption, WindowCount
<1>8. /\ Right(Group(t), u, Unresolved, N) /\ Right(Group(t), u, Unknown, N)
      /\ Unresolved \in Outcome /\ Unknown \in Outcome
  BY DEF Unresolved, Unknown, Outcome, Right
<1>9. CASE u[2] - u[1] =< MinimumWindow
  <2>. DEFINE r == [w EXCEPT !.at = "return", !.value = Unresolved]
  <2>1. /\ worker' = [worker EXCEPT ![t] = r]
        /\ windows' = [windows EXCEPT ![Here(t)] =
                           [status |-> "unresolved", outcome |-> Unresolved]]
    BY <1>9 DEF SplitWindow, Receipt
  <2>2. ReceiptsRight(windows', N)
    BY <1>2, <1>8, <2>1, ReceiptKept
  <2>. HIDE DEF w
  <2>3. /\ r \in ThreadSet /\ r.at = "return" /\ r.value = Unresolved /\ r.group = w.group
        /\ r.stack = w.stack /\ r.todo = w.todo /\ r.sum = w.sum
    BY <1>2, <1>8 DEF ThreadSet, Steps
  <2>. HIDE DEF r
  <2>4. AtTop(r, f, N)
    BY <1>2, <1>6, <1>8, <2>3 DEF AtTop, Reading
  <2>5. r.at \in InWindow
    BY <2>3 DEF InWindow
  <2>6. AtTop(r, f, N') /\ ReceiptsRight(windows', N')
    BY <1>5, <2>2, <2>4
  <2>. QED  BY <1>1, <1>4, <1>5, <2>1, <2>3, <2>5, <2>6, TopStep DEF w
<1>10. CASE ~(u[2] - u[1] =< MinimumWindow)
  <2>. DEFINE r == [w EXCEPT !.at = "enter"]
  <2>1. /\ worker' = [worker EXCEPT ![t] = r]
        /\ windows' = [windows EXCEPT ![Here(t)] =
                           [status |-> "split", outcome |-> Unknown]]
    BY <1>10 DEF SplitWindow, Receipt
  <2>2. ReceiptsRight(windows', N)
    <3>1. u[1] < u[2]
      BY <1>7, <1>10
    <3>. QED  BY <1>2, <1>8, <2>1, <3>1, ReceiptKept
  <2>. HIDE DEF w
  <2>3. /\ r \in ThreadSet /\ r.at = "enter" /\ r.group = w.group
        /\ r.stack = w.stack /\ r.todo = w.todo /\ r.sum = w.sum
    BY <1>2 DEF ThreadSet, Steps
  <2>. HIDE DEF r
  <2>4. AtTop(r, f, N)
    BY <1>3, <2>3 DEF AtTop
  <2>5. r.at \in InWindow
    BY <2>3 DEF InWindow, Reading
  <2>6. AtTop(r, f, N') /\ ReceiptsRight(windows', N')
    BY <1>5, <2>2, <2>4
  <2>. QED  BY <1>1, <1>4, <1>5, <2>1, <2>3, <2>5, <2>6, TopStep DEF w
<1>. QED  BY <1>9, <1>10

LEMMA NormalizeKeeps ==
  ASSUME CollectInv, NEW t \in Workers, Normalize(t)
  PROVE  CollectInv'
<1>. DEFINE w == worker[t]
            N == normalizedRows
            f == w.stack[Len(w.stack)]
            r == [w EXCEPT !.at = "receipt"]
<1>1. w.at = "rows" /\ w.at \in InWindow
  BY DEF InWindow, Reading, Normalize
<1>2. /\ w \in ThreadSet /\ ReceiptsRight(windows, N) /\ Here(t) = <<Group(t), Top(t)>>
      /\ f.window = Top(t) /\ AtTop(w, f, N) /\ Group(t) = w.group
  BY <1>1, ThreadFacts DEF Group
<1>3. f.side = "left" /\ ~ Full(<<w.group, f.window>>, MaximumOffset)
  BY <1>1, <1>2 DEF AtTop, Reading
<1>4. /\ UNCHANGED <<trades, groups, summary, mode, result, windows>>
      /\ N' = N \cup {Here(t)} /\ worker' = [worker EXCEPT ![t] = r]
  BY DEF Normalize
<1>5. N \subseteq N'
  BY <1>4
<1>6. ReceiptsRight(windows, N')
  BY <1>2, <1>5, MoreRows
<1>. HIDE DEF w
<1>7. /\ r \in ThreadSet /\ r.at = "receipt" /\ r.group = w.group
      /\ r.stack = w.stack /\ r.todo = w.todo /\ r.sum = w.sum
  BY <1>2 DEF ThreadSet, Steps
<1>. HIDE DEF r
<1>8. <<r.group, f.window>> \in N'
  BY <1>2, <1>4, <1>7
<1>9. AtTop(r, f, N')
  BY <1>3, <1>7, <1>8 DEF AtTop
<1>10. r.at \in InWindow
  BY <1>7 DEF InWindow, Reading
<1>11. ReceiptsRight(windows', N')
  BY <1>4, <1>6
<1>. QED  BY <1>1, <1>4, <1>5, <1>7, <1>9, <1>10, <1>11, TopStep DEF w

LEMMA LeafReceiptKeeps ==
  ASSUME CollectInv, NEW t \in Workers, LeafReceipt(t)
  PROVE  CollectInv'
<1>. DEFINE w == worker[t]
            N == normalizedRows
            f == w.stack[Len(w.stack)]
            u == Top(t)
            v == Whole(RowsRead(Here(t)))
            r == [w EXCEPT !.at = "return", !.value = v]
<1>1. w.at = "receipt" /\ w.at \in InWindow
  BY DEF InWindow, Reading, LeafReceipt
<1>2. /\ TradesOK /\ w \in ThreadSet /\ ReceiptsRight(windows, N)
      /\ Group(t) \in Groups /\ u \in Window /\ Here(t) = <<Group(t), u>>
      /\ f.window = u /\ AtTop(w, f, N) /\ Group(t) = w.group
  BY <1>1, ThreadFacts DEF Group
<1>3. ~ Full(Here(t), MaximumOffset) /\ Here(t) \in N
  BY <1>1, <1>2 DEF AtTop
<1>4. /\ UNCHANGED <<trades, groups, summary, mode, result, normalizedRows>>
      /\ worker' = [worker EXCEPT ![t] = r]
      /\ windows' = [windows EXCEPT ![Here(t)] = [status |-> "leaf_complete", outcome |-> v]]
  BY DEF LeafReceipt, Receipt
<1>5. N \subseteq N' /\ N' = N
  BY <1>4
<1>6. RowsRead(Here(t)) = Count(Here(t)) /\ Count(Here(t)) \in Nat
  BY <1>2, <1>3, PagesAddUp, WindowCount
<1>7. v \in Outcome /\ v = Whole(Count(Here(t)))
  <2>1. v = Whole(Count(Here(t)))
    BY <1>6
  <2>2. Whole(Count(Here(t))) \in Outcome
    BY <1>6 DEF Whole, Outcome
  <2>. QED  BY <2>1, <2>2
<1>8. Right(Group(t), u, v, N)
  <2>1. Held(Group(t), u[1], u[2], N)
    BY <1>2, <1>3 DEF Held, SecondsIn
  <2>. QED  BY <1>2, <1>7, <2>1 DEF Right
<1>. HIDE DEF v, u
<1>9. ReceiptsRight(windows', N)
  BY <1>2, <1>4, <1>7, <1>8, ReceiptKept
<1>. HIDE DEF w
<1>10. /\ r \in ThreadSet /\ r.at = "return" /\ r.value = v /\ r.group = w.group
       /\ r.stack = w.stack /\ r.todo = w.todo /\ r.sum = w.sum
  BY <1>2, <1>7 DEF ThreadSet, Steps
<1>. HIDE DEF r
<1>11. AtTop(r, f, N')
  BY <1>2, <1>5, <1>8, <1>10 DEF AtTop, Reading
<1>12. r.at \in InWindow /\ ReceiptsRight(windows', N')
  BY <1>5, <1>9, <1>10 DEF InWindow
<1>. QED  BY <1>1, <1>4, <1>5, <1>10, <1>11, <1>12, TopStep DEF w

LEMMA CleanKeeps ==
  ASSUME CollectInv, NEW t \in Workers, Clean(t)
  PROVE  CollectInv'
<1>. DEFINE w == worker[t]
            N == normalizedRows
            f == w.stack[Len(w.stack)]
            r == [w EXCEPT !.at = "return"]
<1>1. w.at = "clean" /\ w.at \in InWindow
  BY DEF InWindow, Clean
<1>2. w \in ThreadSet /\ ReceiptsRight(windows, N) /\ AtTop(w, f, N)
  BY <1>1, ThreadFacts
<1>3. Right(w.group, f.window, w.value, N)
  BY <1>1, <1>2 DEF AtTop
<1>4. /\ UNCHANGED <<trades, groups, summary, mode, result, windows, normalizedRows>>
      /\ worker' = [worker EXCEPT ![t] = r]
  BY DEF Clean
<1>5. N \subseteq N' /\ N' = N /\ ReceiptsRight(windows', N')
  BY <1>2, <1>4
<1>. HIDE DEF w
<1>6. /\ r \in ThreadSet /\ r.at = "return" /\ r.value = w.value /\ r.group = w.group
      /\ r.stack = w.stack /\ r.todo = w.todo /\ r.sum = w.sum
  BY <1>2 DEF ThreadSet, Steps
<1>. HIDE DEF r
<1>7. AtTop(r, f, N') /\ r.at \in InWindow
  BY <1>3, <1>5, <1>6 DEF AtTop, Reading, InWindow
<1>. QED  BY <1>1, <1>4, <1>5, <1>6, <1>7, TopStep DEF w

LEMMA PageCachedKeeps ==
  ASSUME CollectInv, NEW t \in Workers, PageCached(t)
  PROVE  CollectInv'
<1>1. /\ worker[t].at = "page" /\ GotPage(t)
      /\ UNCHANGED <<trades, windows, normalizedRows, groups, summary, mode, result>>
  BY DEF PageCached, disk
<1>. QED  BY <1>1, GotPageKeeps

LEMMA PageFetchedKeeps ==
  ASSUME CollectInv, NEW t \in Workers, PageFetched(t)
  PROVE  CollectInv'
<1>1. /\ worker[t].at = "page" /\ GotPage(t)
      /\ UNCHANGED <<trades, windows, normalizedRows, groups, summary, mode, result>>
  BY DEF PageFetched
<1>. QED  BY <1>1, GotPageKeeps

LEMMA IdleFacts ==
  ASSUME NEW N
  PROVE  Idle \in ThreadSet /\ Idle.at = "idle" /\ Working(Idle, N)
<1>1. 0 \in 0 .. GroupCount /\ <<>> \in Seq(Window) /\ <<>> \in Seq(FrameSet)
  BY TradeAssumption
<1>2. Whole(0) \in Outcome /\ Unknown \in Outcome
  BY DEF Whole, Unknown, Outcome
<1>3. Idle.at = "idle"
  BY DEF Idle
<1>4. Idle \in ThreadSet
  BY <1>1, <1>2 DEF Idle, ThreadSet, Steps
<1>5. Working(Idle, N)
  BY <1>3 DEF Working, InWindow, Reading
<1>. QED  BY <1>3, <1>4, <1>5

(* A thread lets its group go.                                             *)
LEMMA LeaveStep ==
  ASSUME CollectInv, NEW t \in Workers, Active(t), NEW why \in FutureSet,
         worker' = [worker EXCEPT ![t] = Idle],
         result' = [result EXCEPT ![Group(t)] = why],
         UNCHANGED <<trades, windows, normalizedRows, summary, mode>>,
         GroupsRight(groups', normalizedRows),
         \A g \in Groups : g # Group(t) => groups'[g] = groups[g],
         why \in {"completed", "skipped"} => groups'[Group(t)].complete
  PROVE  CollectInv'
<1>. DEFINE N == normalizedRows
<1>1. /\ worker \in [Workers -> ThreadSet] /\ \A u \in Workers : Working(worker[u], N)
      /\ ReceiptsRight(windows, N) /\ trades \in TradeCounts
  BY DEF CollectInv, Collected, ThreadsRight
<1>2. \A u \in Workers : worker'[u] = IF u = t THEN Idle ELSE worker[u]
  BY <1>1
<1>3. Idle \in ThreadSet /\ Idle.at = "idle" /\ Working(Idle, N)
  BY IdleFacts
<1>4. ThreadsRight(worker', N)
  BY <1>1, <1>2, <1>3 DEF ThreadsRight
<1>5. Collected'
  <2>1. N' = N /\ windows' = windows /\ trades' = trades
    OBVIOUS
  <2>. QED  BY <1>1, <1>4, <2>1, CollectFrozen
<1>6. Group(t) \in Groups /\ ThreadsRight(worker, N)
  <2>1. Working(worker[t], N)
    BY <1>1
  <2>. QED  BY <2>1 DEF Working, Active, Group, CollectInv, Collected
<1>7. result \in [Groups -> FutureSet]
  BY DEF CollectInv, Orderly
<1>8. \A g \in Groups : result'[g] = IF g = Group(t) THEN why ELSE result[g]
  BY <1>7
<1>9. result' \in [Groups -> FutureSet]
  BY <1>6, <1>7
<1>10. \A u \in Workers : Active(u)' <=> u # t /\ Active(u)
  BY <1>2, <1>3 DEF Active
<1>11. \A u \in Workers : Active(u)' => worker'[u] = worker[u] /\ worker[u].group # Group(t)
  BY <1>2, <1>10 DEF CollectInv, Orderly, Group
<1>12. ~ summary.complete
  BY DEF CollectInv, Orderly
<1>13. \A g \in Groups : result'[g] \in {"completed", "skipped"} => groups'[g].complete
  BY <1>8 DEF CollectInv, Orderly
<1>14. mode' = "down" => \A u \in Workers : ~ Active(u)'
  BY <1>10 DEF CollectInv, Orderly
<1>15. \A u \in Workers : Active(u)' => result'[worker'[u].group] = "running"
  <2>. SUFFICES ASSUME NEW u \in Workers, Active(u)'
                PROVE  result'[worker'[u].group] = "running"
    OBVIOUS
  <2>1. Active(u) /\ worker'[u].group = worker[u].group /\ worker[u].group # Group(t)
    BY <1>10, <1>11
  <2>2. result[worker[u].group] = "running"
    BY <2>1 DEF CollectInv, Orderly
  <2>3. worker[u].group \in Groups
    BY <1>1, <2>1 DEF Working, Active
  <2>. QED  BY <1>8, <2>1, <2>2, <2>3
<1>16. \A u, x \in Workers :
          u # x /\ Active(u)' /\ Active(x)' => worker'[u].group # worker'[x].group
  BY <1>10, <1>11 DEF CollectInv, Orderly
<1>17. Orderly'
  BY <1>9, <1>12, <1>13, <1>14, <1>15, <1>16 DEF Orderly
<1>. QED  BY <1>5, <1>17 DEF CollectInv

LEMMA RaiseKeeps ==
  ASSUME CollectInv, NEW t \in Workers, worker[t].at = "page",
         NEW why \in {"budget", "error"}, Raise(t, why), UNCHANGED <<trades, disk, mode>>
  PROVE  CollectInv'
<1>1. Active(t)
  BY DEF Active
<1>2. /\ worker' = [worker EXCEPT ![t] = Idle]
      /\ result' = [result EXCEPT ![Group(t)] = why]
      /\ UNCHANGED <<trades, windows, normalizedRows, summary, mode, groups>>
  BY DEF Raise, disk
<1>3. GroupsRight(groups', normalizedRows)
  BY <1>2 DEF CollectInv, Collected
<1>4. why \in FutureSet /\ why \notin {"completed", "skipped"}
  BY DEF FutureSet
<1>. QED  BY <1>1, <1>2, <1>3, <1>4, LeaveStep

LEMMA OverBudgetKeeps ==
  ASSUME CollectInv, NEW t \in Workers, OverBudget(t)
  PROVE  CollectInv'
<1>1. worker[t].at = "page" /\ Raise(t, "budget") /\ UNCHANGED <<trades, disk, mode>>
  BY DEF OverBudget
<1>. QED  BY <1>1, RaiseKeeps

LEMMA RequestFailsKeeps ==
  ASSUME CollectInv, NEW t \in Workers, NEW kind, RequestFails(t, kind)
  PROVE  CollectInv'
<1>. DEFINE w == worker[t]
            N == normalizedRows
            f == w.stack[Len(w.stack)]
<1>1. w.at = "page" /\ w.at \in InWindow /\ w.at \in Reading
  BY DEF InWindow, Reading, RequestFails
<1>2. w \in ThreadSet /\ ReceiptsRight(windows, N) /\ AtTop(w, f, N)
  BY <1>1, ThreadFacts
<1>3. UNCHANGED <<trades, groups, summary, mode, windows, normalizedRows>>
  BY DEF RequestFails, disk
<1>4. N \subseteq N' /\ N' = N /\ ReceiptsRight(windows', N')
  BY <1>2, <1>3
<1>5. CASE worker' = [worker EXCEPT ![t].attempt = @ + 1] /\ UNCHANGED result
  <2>. DEFINE r == [w EXCEPT !.attempt = w.attempt + 1]
  <2>1. worker' = [worker EXCEPT ![t] = r]
    BY <1>5
  <2>. HIDE DEF w
  <2>2. w.attempt + 1 \in Nat
    BY <1>2 DEF ThreadSet
  <2>3. /\ r \in ThreadSet /\ r.at = w.at /\ r.offset = w.offset /\ r.group = w.group
        /\ r.stack = w.stack /\ r.todo = w.todo /\ r.sum = w.sum /\ r.value = w.value
    BY <1>2, <2>2 DEF ThreadSet
  <2>. HIDE DEF r
  <2>4. AtTop(r, f, N') /\ r.at \in InWindow
    BY <1>1, <1>2, <1>4, <2>3 DEF AtTop
  <2>. QED  BY <1>1, <1>3, <1>4, <1>5, <2>1, <2>3, <2>4, TopStep DEF w
<1>6. CASE /\ worker' = [worker EXCEPT ![t] =
                             [@ EXCEPT !.at = "split", !.offset = 0, !.attempt = 0]]
           /\ UNCHANGED result
  <2>. DEFINE r == [w EXCEPT !.at = "split", !.offset = 0, !.attempt = 0]
  <2>1. worker' = [worker EXCEPT ![t] = r]
    BY <1>6
  <2>. HIDE DEF w
  <2>3. /\ r \in ThreadSet /\ r.at = "split" /\ r.group = w.group
        /\ r.stack = w.stack /\ r.todo = w.todo /\ r.sum = w.sum
    BY <1>2 DEF ThreadSet, Steps
  <2>. HIDE DEF r
  <2>4. AtTop(r, f, N') /\ r.at \in InWindow
    BY <1>1, <1>2, <2>3 DEF AtTop, InWindow, Reading
  <2>. QED  BY <1>1, <1>3, <1>4, <1>6, <2>1, <2>3, <2>4, TopStep DEF w
<1>7. CASE Raise(t, "error")
  BY <1>1, <1>7, RaiseKeeps DEF RequestFails
<1>. QED  BY <1>5, <1>6, <1>7 DEF RequestFails

LEMMA GroupReceiptKeeps ==
  ASSUME CollectInv, NEW t \in Workers, GroupReceipt(t)
  PROVE  CollectInv'
<1>. DEFINE w == worker[t]
            N == normalizedRows
            g == Group(t)
            why == IF w.sum.complete THEN "completed" ELSE "incomplete"
<1>1. w.at = "group" /\ Active(t)
  BY DEF GroupReceipt, Active
<1>2. w \in ThreadSet /\ Working(w, N)
  BY ThreadFacts
<1>3. w.sum \in Outcome /\ g \in Groups /\ UpToSecond(g, LastSecond, w.sum, N)
  BY <1>1, <1>2 DEF Working, ThreadSet, Group
<1>4. GroupsRight(groups, N)
  BY DEF CollectInv, Collected
<1>. HIDE DEF w, g
<1>5. groups' = [groups EXCEPT ![g] = w.sum]
  BY DEF GroupReceipt, g, w
<1>6. groups \in [Groups -> Outcome] /\ \A h \in Groups : UpToSecond(h, LastSecond, groups[h], N)
  BY <1>4 DEF GroupsRight
<1>7. \A h \in Groups : groups'[h] = IF h = g THEN w.sum ELSE groups[h]
  BY <1>5, <1>6
<1>8. GroupsRight(groups', N)
  BY <1>3, <1>5, <1>6, <1>7 DEF GroupsRight
<1>9. why \in FutureSet /\ (why \in {"completed", "skipped"} => groups'[g].complete)
  <2>1. CASE w.sum.complete
    <3>1. why = "completed" /\ groups'[g].complete
      BY <1>3, <1>7, <2>1
    <3>. HIDE DEF why
    <3>. QED  BY <3>1 DEF FutureSet
  <2>2. CASE ~ w.sum.complete
    <3>1. why = "incomplete"
      BY <2>2
    <3>. HIDE DEF why
    <3>. QED  BY <3>1 DEF FutureSet
  <2>. QED  BY <2>1, <2>2
<1>10. /\ worker' = [worker EXCEPT ![t] = Idle]
       /\ result' = [result EXCEPT ![g] = why]
       /\ UNCHANGED <<trades, windows, normalizedRows, summary, mode>>
  BY DEF GroupReceipt, g, w
<1>. HIDE DEF why
<1>. QED  BY <1>1, <1>7, <1>8, <1>9, <1>10, LeaveStep DEF g

(* A sequence of which the last entry but one is replaced, and the last.   *)
LEMMA EndReplaced ==
  ASSUME NEW S, NEW k \in Nat, NEW z \in Seq(S), Len(z) = k, NEW q \in S, NEW c \in S
  PROVE  /\ z \o <<q, c>> \in Seq(S) /\ Len(z \o <<q, c>>) = k + 2 /\ z \o <<q, c>> # <<>>
         /\ (z \o <<q, c>>)[k + 1] = q /\ (z \o <<q, c>>)[k + 2] = c
         /\ \A i \in 1 .. k : (z \o <<q, c>>)[i] = z[i]
<1>. DEFINE y == <<q, c>>
<1>1. y \in Seq(S) /\ Len(y) = 2 /\ y[1] = q /\ y[2] = c
  OBVIOUS
<1>. HIDE DEF y
<1>2. /\ z \o y \in Seq(S) /\ Len(z \o y) = k + 2
      /\ \A i \in 1 .. k + 2 : (z \o y)[i] = IF i <= k THEN z[i] ELSE y[i - k]
  <2>1. y \in Seq(S) /\ z \in Seq(S)
    BY <1>1
  <2>2. /\ z \o y \in Seq(S)
        /\ Len(z \o y) = Len(z) + Len(y)
        /\ \A i \in 1 .. Len(z) + Len(y) :
              (z \o y)[i] = IF i <= Len(z) THEN z[i] ELSE y[i - Len(z)]
    BY <2>1, ConcatProperties, Zenon
  <2>. QED  BY <1>1, <2>2, Zenon
<1>4. k + 1 \in 1 .. k + 2 /\ k + 2 \in 1 .. k + 2 /\ k + 1 - k = 1 /\ k + 2 - k = 2
      /\ ~(k + 1 <= k) /\ ~(k + 2 <= k)
  OBVIOUS
<1>5. (z \o y)[k + 1] = q /\ (z \o y)[k + 2] = c
  BY <1>1, <1>2, <1>4
<1>6. z \o y # <<>>
  BY <1>2
<1>. QED  BY <1>2, <1>5, <1>6 DEF y

LEMMA ReturnLeftKeeps ==
  ASSUME CollectInv, NEW t \in Workers, ReturnLeft(t)
  PROVE  CollectInv'
<1>. DEFINE w == worker[t]
            N == normalizedRows
            n == Len(w.stack)
            f == w.stack[n]
            p == w.stack[n - 1]
            q == [p EXCEPT !.side = "right", !.left = w.value]
            c == Frame(RightHalf(p.window))
            s == SubSeq(w.stack, 1, n - 2) \o <<q, c>>
            r == [w EXCEPT !.at = "enter", !.value = Unknown, !.stack = s]
<1>1. w.at = "return" /\ w.at \in InWindow /\ n > 1 /\ p.side = "left"
  BY DEF InWindow, ReturnLeft
<1>2. /\ w \in ThreadSet /\ ReceiptsRight(windows, N) /\ Active(t) /\ Group(t) \in Groups
      /\ n \in Nat /\ OnStack(w, N) /\ AtTop(w, f, N) /\ Group(t) = w.group
  BY <1>1, ThreadFacts DEF Group
<1>3. worker' = [worker EXCEPT ![t] = r]
  BY DEF ReturnLeft
<1>4. UNCHANGED <<trades, groups, summary, mode, result, windows, normalizedRows>>
  BY DEF ReturnLeft, disk
<1>5. N \subseteq N' /\ N' = N /\ ReceiptsRight(windows', N')
  BY <1>2, <1>4
<1>. HIDE DEF w, r
<1>6. w.stack \in Seq(FrameSet) /\ w.value \in Outcome
  BY <1>2 DEF ThreadSet
<1>7. n - 1 \in 1 .. n /\ n - 2 \in 0 .. n /\ p \in FrameSet
  <2>1. n - 1 \in 1 .. n /\ n - 2 \in 0 .. n
    BY <1>1, <1>2
  <2>. QED  BY <1>6, <2>1
<1>8. Right(w.group, f.window, w.value, N) /\ Frames(w.group, w.stack, N)
  BY <1>1, <1>2 DEF AtTop, OnStack
<1>9. Calls(w.group, p, f.window, N)
  <2>1. n - 1 \in 1 .. n - 1 /\ n - 1 + 1 = n
    BY <1>1, <1>2
  <2>. QED  BY <1>8, <2>1 DEF Frames
<1>10. p.window \in Window /\ p.window[1] < p.window[2] /\ f.window = LeftHalf(p.window)
  BY <1>1, <1>7, <1>9 DEF Calls, FrameSet
<1>11. c \in FrameSet /\ c.window = RightHalf(p.window) /\ c.side = "left"
  <2>1. RightHalf(p.window) \in Window
    BY <1>10, HalvesFacts
  <2>. QED  BY <2>1 DEF Frame, FrameSet, Unknown, Outcome
<1>12. q \in FrameSet /\ q.window = p.window /\ q.side = "right" /\ q.left = w.value
  BY <1>6, <1>7 DEF FrameSet
<1>. HIDE DEF f, p, q, c
<1>13. /\ s \in Seq(FrameSet) /\ Len(s) = n /\ s # <<>> /\ s[n - 1] = q /\ s[n] = c
       /\ \A i \in 1 .. n - 2 : s[i] = w.stack[i]
  <2>. DEFINE z == SubSeq(w.stack, 1, n - 2)
  <2>1. z \in Seq(FrameSet) /\ Len(z) = n - 2 /\ \A i \in 1 .. n - 2 : z[i] = w.stack[i]
    BY <1>6, <1>7
  <2>. HIDE DEF z
  <2>2. n - 2 \in Nat /\ n - 2 + 1 = n - 1 /\ n - 2 + 2 = n
    BY <1>1, <1>2
  <2>. DEFINE k == n - 2
  <2>3. k \in Nat /\ Len(z) = k
    BY <2>1, <2>2
  <2>. HIDE DEF k
  <2>4. /\ z \o <<q, c>> \in Seq(FrameSet) /\ Len(z \o <<q, c>>) = k + 2
        /\ z \o <<q, c>> # <<>>
        /\ (z \o <<q, c>>)[k + 1] = q /\ (z \o <<q, c>>)[k + 2] = c
        /\ \A i \in 1 .. k : (z \o <<q, c>>)[i] = z[i]
    BY <1>11, <1>12, <2>1, <2>3, EndReplaced
  <2>. QED  BY <2>1, <2>2, <2>4 DEF z, k
<1>. HIDE DEF s
<1>14. /\ r \in ThreadSet /\ r.at = "enter" /\ r.group = w.group
       /\ r.stack = s /\ r.todo = w.todo /\ r.sum = w.sum
  BY <1>2, <1>13 DEF ThreadSet, Steps, Unknown, Outcome, r
<1>15. \A i \in 1 .. n - 1 : s[i].window = w.stack[i].window
  <2>. SUFFICES ASSUME NEW i \in 1 .. n - 1
                PROVE  s[i].window = w.stack[i].window
    OBVIOUS
  <2>1. i = n - 1 \/ i \in 1 .. n - 2
    BY <1>2
  <2>2. CASE i = n - 1
    BY <1>12, <1>13, <2>2 DEF p
  <2>3. CASE i \in 1 .. n - 2
    BY <1>13, <2>3
  <2>. QED  BY <2>1, <2>2, <2>3
<1>16. Frames(w.group, s, N)
  <2>. SUFFICES ASSUME NEW i \in 1 .. n - 1
                PROVE  Calls(w.group, s[i], s[i + 1].window, N)
    BY <1>13 DEF Frames
  <2>1. CASE i = n - 1
    <3>1. s[i] = q /\ s[i + 1] = c
      BY <1>2, <1>13, <2>1
    <3>. QED  BY <1>8, <1>10, <1>11, <1>12, <3>1 DEF Calls
  <2>2. CASE i # n - 1
    <3>1. i \in 1 .. n - 2 /\ i + 1 \in 1 .. n - 1
      BY <1>2, <2>2
    <3>2. s[i] = w.stack[i] /\ s[i + 1].window = w.stack[i + 1].window
      BY <1>13, <1>15, <3>1
    <3>. QED  BY <1>8, <3>2 DEF Frames
  <2>. QED  BY <2>1, <2>2
<1>17. OnStack(r, N)
  <2>1. 1 \in 1 .. n - 1
    BY <1>1, <1>2
  <2>2. s[1].window = w.stack[1].window
    BY <1>15, <2>1
  <2>. QED  BY <1>2, <1>13, <1>14, <1>16, <2>2 DEF OnStack
<1>18. AtTop(r, c, N)
  BY <1>11, <1>14 DEF AtTop
<1>19. Working(r, N)
  BY <1>2, <1>13, <1>14, <1>17, <1>18 DEF Working
<1>20. r.at # "idle" /\ Working(r, N')
  BY <1>5, <1>14, <1>19
<1>. QED  BY <1>2, <1>3, <1>4, <1>5, <1>14, <1>20, LocalStep DEF w

LEMMA ReturnRightKeeps ==
  ASSUME CollectInv, NEW t \in Workers, ReturnRight(t)
  PROVE  CollectInv'
<1>. DEFINE w == worker[t]
            N == normalizedRows
            n == Len(w.stack)
            f == w.stack[n]
            p == w.stack[n - 1]
            v == Both(p.left, w.value)
            at == IF Superseded(t) THEN "clean" ELSE "return"
            s == SubSeq(w.stack, 1, n - 1)
            r == [w EXCEPT !.at = at, !.value = v, !.stack = s]
<1>1. w.at = "return" /\ w.at \in InWindow /\ n > 1 /\ p.side = "right"
  BY DEF InWindow, ReturnRight
<1>2. /\ TradesOK /\ w \in ThreadSet /\ ReceiptsRight(windows, N) /\ Active(t)
      /\ Group(t) \in Groups /\ n \in Nat /\ OnStack(w, N) /\ AtTop(w, f, N)
      /\ Group(t) = w.group
  BY <1>1, ThreadFacts DEF Group
<1>3. /\ worker' = [worker EXCEPT ![t] = r]
      /\ windows' = [windows EXCEPT ![<<w.group, p.window>>] =
                         [status |-> "split_complete", outcome |-> v]]
  BY <1>2 DEF ReturnRight, Receipt, Combined
<1>4. UNCHANGED <<trades, groups, summary, mode, result, normalizedRows>>
  BY DEF ReturnRight
<1>5. N \subseteq N' /\ N' = N
  BY <1>4
<1>. HIDE DEF w, r
<1>6. w.stack \in Seq(FrameSet) /\ w.value \in Outcome
  BY <1>2 DEF ThreadSet
<1>7. n - 1 \in 1 .. n /\ p \in FrameSet
  <2>1. n - 1 \in 1 .. n
    BY <1>1, <1>2
  <2>. QED  BY <1>6, <2>1
<1>8. Right(w.group, f.window, w.value, N) /\ Frames(w.group, w.stack, N)
  BY <1>1, <1>2 DEF AtTop, OnStack
<1>9. Calls(w.group, p, f.window, N)
  <2>1. n - 1 \in 1 .. n - 1 /\ n - 1 + 1 = n
    BY <1>1, <1>2
  <2>. QED  BY <1>8, <2>1 DEF Frames
<1>10. /\ p.window \in Window /\ p.window[1] < p.window[2] /\ p.left \in Outcome
       /\ f.window = RightHalf(p.window) /\ Right(w.group, LeftHalf(p.window), p.left, N)
  BY <1>1, <1>7, <1>9 DEF Calls, FrameSet
<1>. HIDE DEF f, p
<1>11. v \in Outcome /\ Right(w.group, p.window, v, N)
  <2>1. v \in Outcome
    BY <1>6, <1>10 DEF Both, Outcome
  <2>2. w.group \in Groups /\ Right(w.group, RightHalf(p.window), w.value, N)
    BY <1>2, <1>8, <1>10
  <2>. QED  BY <1>2, <1>6, <1>10, <2>1, <2>2, HalvesJoin
<1>. HIDE DEF v
<1>12. ReceiptsRight(windows', N')
  <2>1. w.group \in Groups
    BY <1>2
  <2>2. ReceiptsRight(windows', N)
    BY <1>2, <1>3, <1>10, <1>11, <2>1, ReceiptKept
  <2>. QED  BY <1>5, <2>2
<1>13. /\ s \in Seq(FrameSet) /\ Len(s) = n - 1 /\ s # <<>> /\ s[n - 1] = p
       /\ \A i \in 1 .. n - 1 : s[i] = w.stack[i]
  <2>1. s \in Seq(FrameSet) /\ Len(s) = n - 1 /\ \A i \in 1 .. n - 1 : s[i] = w.stack[i]
    BY <1>6, <1>7
  <2>. HIDE DEF s
  <2>2. n - 1 \in 1 .. n - 1
    BY <1>1, <1>2
  <2>3. s # <<>>
    BY <2>1, <2>2
  <2>. QED  BY <2>1, <2>2, <2>3 DEF p
<1>. HIDE DEF s
<1>14. at \in {"clean", "return"}
  OBVIOUS
<1>. HIDE DEF at
<1>15. /\ r \in ThreadSet /\ r.at = at /\ r.group = w.group /\ r.value = v
       /\ r.stack = s /\ r.todo = w.todo /\ r.sum = w.sum
  BY <1>2, <1>11, <1>13, <1>14 DEF ThreadSet, Steps, r
<1>16. OnStack(r, N)
  <2>1. s[1] = w.stack[1]
    <3>1. 1 \in 1 .. n - 1
      BY <1>1, <1>2
    <3>. QED  BY <1>13, <3>1
  <2>2. Frames(w.group, s, N)
    <3>. SUFFICES ASSUME NEW i \in 1 .. Len(s) - 1
                  PROVE  Calls(w.group, s[i], s[i + 1].window, N)
      BY DEF Frames
    <3>1. i \in 1 .. n - 1 /\ i + 1 \in 1 .. n - 1
      BY <1>2, <1>13
    <3>2. s[i] = w.stack[i] /\ s[i + 1] = w.stack[i + 1]
      BY <1>13, <3>1
    <3>. QED  BY <1>8, <3>1, <3>2 DEF Frames
  <2>. QED  BY <1>2, <1>13, <1>15, <2>1, <2>2 DEF OnStack
<1>17. AtTop(r, p, N)
  BY <1>11, <1>14, <1>15 DEF AtTop, Reading
<1>18. Working(r, N)
  BY <1>2, <1>13, <1>14, <1>15, <1>16, <1>17 DEF Working
<1>19. r.at # "idle" /\ Working(r, N')
  BY <1>5, <1>14, <1>15, <1>18
<1>. QED  BY <1>2, <1>3, <1>4, <1>5, <1>12, <1>15, <1>19, LocalStep DEF w

LEMMA NextInitialKeeps ==
  ASSUME CollectInv, NEW t \in Workers, NextInitial(t)
  PROVE  CollectInv'
<1>. DEFINE w == worker[t]
            N == normalizedRows
            f == w.stack[1]
            u == f.window
            v == Both(w.sum, w.value)
            todo == w.todo
<1>1. w.at = "return" /\ w.at \in InWindow /\ Len(w.stack) = 1
  BY DEF InWindow, NextInitial
<1>2. /\ TradesOK /\ w \in ThreadSet /\ ReceiptsRight(windows, N) /\ Active(t)
      /\ Group(t) \in Groups /\ OnStack(w, N) /\ AtTop(w, f, N)
      /\ Group(t) = w.group /\ f \in FrameSet
  BY <1>1, ThreadFacts DEF Group
<1>3. worker' = [worker EXCEPT ![t] =
         IF todo = <<>> THEN [w EXCEPT !.at = "group", !.sum = v, !.stack = <<>>]
         ELSE [w EXCEPT !.at = "enter", !.sum = v, !.value = Unknown,
                        !.todo = Tail(todo), !.stack = <<Frame(Head(todo))>>]]
  BY DEF NextInitial
<1>4. UNCHANGED <<trades, groups, summary, mode, result, windows, normalizedRows>>
  BY DEF NextInitial, disk
<1>5. N \subseteq N' /\ N' = N /\ ReceiptsRight(windows', N')
  BY <1>2, <1>4
<1>. HIDE DEF w
<1>6. /\ w.sum \in Outcome /\ w.value \in Outcome /\ todo \in Seq(Window)
      /\ u \in Window /\ w.group \in Groups /\ u[2] \in Nat
  <2>1. u \in Window
    BY <1>2 DEF FrameSet
  <2>. QED  BY <1>2, <2>1, WindowCount DEF ThreadSet
<1>7. /\ Right(w.group, u, w.value, N) /\ ChainFrom(u[2] + 1, todo)
      /\ UpToSecond(w.group, u[1] - 1, w.sum, N)
  BY <1>1, <1>2 DEF AtTop, OnStack
<1>. HIDE DEF f
<1>8. UpToSecond(w.group, u[2], v, N)
  BY <1>2, <1>6, <1>7, SumGrows
<1>9. v \in Outcome
  BY <1>6 DEF Both, Outcome
<1>. HIDE DEF v, u, todo
<1>10. CASE todo = <<>>
  <2>. DEFINE r == [w EXCEPT !.at = "group", !.sum = v, !.stack = <<>>]
  <2>1. worker' = [worker EXCEPT ![t] = r]
    BY <1>3, <1>10
  <2>2. /\ r \in ThreadSet /\ r.at = "group" /\ r.group = w.group /\ r.sum = v
    <3>1. <<>> \in Seq(FrameSet)
      OBVIOUS
    <3>. QED  BY <1>2, <1>9, <3>1 DEF ThreadSet, Steps
  <2>. HIDE DEF r
  <2>3. u[2] = LastSecond
    <3>1. u[2] + 1 = LastSecond + 1
      BY <1>7, <1>10 DEF ChainFrom
    <3>. QED  BY <1>6, <3>1, TradeAssumption
  <2>4. Working(r, N)
    <3>1. r.at \notin InWindow
      BY <2>2 DEF InWindow, Reading
    <3>. QED  BY <1>6, <1>8, <2>2, <2>3, <3>1 DEF Working
  <2>5. r.at # "idle" /\ Working(r, N')
    BY <1>5, <2>2, <2>4
  <2>. QED  BY <1>2, <1>4, <1>5, <2>1, <2>2, <2>5, LocalStep DEF w
<1>11. CASE todo # <<>>
  <2>. DEFINE h == Head(todo)
              c == Frame(h)
              s == <<c>>
              r == [w EXCEPT !.at = "enter", !.sum = v, !.value = Unknown,
                             !.todo = Tail(todo), !.stack = s]
  <2>1. worker' = [worker EXCEPT ![t] = r]
    BY <1>3, <1>11
  <2>2. /\ h \in Window /\ h[1] = u[2] + 1 /\ Tail(todo) \in Seq(Window)
        /\ ChainFrom(h[2] + 1, Tail(todo))
    BY <1>6, <1>7, <1>11, ChainTail
  <2>. HIDE DEF h
  <2>3. c \in FrameSet /\ c.window = h /\ c.side = "left"
    BY <2>2 DEF Frame, FrameSet, Unknown, Outcome
  <2>. HIDE DEF c
  <2>4. s \in Seq(FrameSet) /\ Len(s) = 1 /\ s # <<>> /\ s[1] = c
    BY <2>3
  <2>. HIDE DEF s
  <2>5. /\ r \in ThreadSet /\ r.at = "enter" /\ r.group = w.group
        /\ r.stack = s /\ r.todo = Tail(todo) /\ r.sum = v
    BY <1>2, <1>9, <2>2, <2>4 DEF ThreadSet, Steps, Unknown, Outcome
  <2>. HIDE DEF r
  <2>6. OnStack(r, N)
    <3>1. h[1] - 1 = u[2]
      BY <1>6, <2>2
    <3>2. Frames(w.group, s, N)
      BY <2>4 DEF Frames
    <3>. QED  BY <1>8, <2>2, <2>3, <2>4, <2>5, <3>1, <3>2 DEF OnStack
  <2>7. AtTop(r, c, N)
    BY <2>3, <2>5 DEF AtTop
  <2>8. Working(r, N)
    BY <1>6, <2>4, <2>5, <2>6, <2>7 DEF Working
  <2>9. r.at # "idle" /\ Working(r, N')
    BY <1>5, <2>5, <2>8
  <2>. QED  BY <1>2, <1>4, <1>5, <2>1, <2>5, <2>9, LocalStep DEF w
<1>. QED  BY <1>10, <1>11

LEMMA TakeKeeps ==
  ASSUME CollectInv, NEW t \in Workers, NEW g \in Groups, Take(t, g)
  PROVE  CollectInv'
<1>. DEFINE N == normalizedRows
            todo == InitialWindows(g)
            h == Head(todo)
            c == Frame(h)
            s == <<c>>
            r == [Idle EXCEPT !.group = g, !.at = "enter", !.todo = Tail(todo), !.stack = s]
            why == IF groups[g].complete THEN "skipped" ELSE "running"
<1>1. /\ worker \in [Workers -> ThreadSet] /\ \A u \in Workers : Working(worker[u], N)
      /\ ReceiptsRight(windows, N) /\ trades \in TradeCounts /\ GroupsRight(groups, N)
      /\ result \in [Groups -> FutureSet] /\ TradesOK
  BY ThreadFacts DEF CollectInv, Collected, ThreadsRight, Orderly
<1>2. /\ worker[t].at = "idle" /\ result[g] = "none" /\ mode = "running"
      /\ UNCHANGED <<trades, windows, normalizedRows, groups, summary, mode>>
      /\ result' = [result EXCEPT ![g] = why]
      /\ worker' = IF groups[g].complete THEN worker ELSE [worker EXCEPT ![t] = r]
  BY DEF Take, disk
<1>3. /\ h \in Window /\ h[1] = 0 /\ Tail(todo) \in Seq(Window)
      /\ ChainFrom(h[2] + 1, Tail(todo))
  <2>1. todo \in Seq(Window) /\ todo # <<>> /\ ChainFrom(0, todo)
    BY InitialChain
  <2>. HIDE DEF todo
  <2>. QED  BY <2>1, ChainTail
<1>. HIDE DEF h, todo
<1>4. c \in FrameSet /\ c.window = h /\ c.side = "left"
  BY <1>3 DEF Frame, FrameSet, Unknown, Outcome
<1>. HIDE DEF c
<1>5. s \in Seq(FrameSet) /\ Len(s) = 1 /\ s # <<>> /\ s[1] = c
  BY <1>4
<1>. HIDE DEF s
<1>6. /\ r \in ThreadSet /\ r.at = "enter" /\ r.group = g
      /\ r.stack = s /\ r.todo = Tail(todo) /\ r.sum = Whole(0)
  <2>1. g \in 0 .. GroupCount
    BY TradeAssumption DEF Groups
  <2>. QED  BY <1>3, <1>5, <2>1 DEF Idle, ThreadSet, Steps, Whole, Unknown, Outcome
<1>. HIDE DEF r
<1>7. UpToSecond(g, h[1] - 1, Whole(0), N)
  <2>1. 0 .. h[1] - 1 = {}
    BY <1>3
  <2>2. Whole(0).rows = Total(trades[g], {})
    BY TotalOfNone DEF Whole
  <2>3. Held(g, 0, h[1] - 1, N)
    BY <2>1 DEF Held
  <2>. QED  BY <2>1, <2>2, <2>3 DEF UpToSecond
<1>8. Working(r, N)
  <2>1. Frames(g, s, N)
    BY <1>5 DEF Frames
  <2>2. OnStack(r, N)
    BY <1>3, <1>4, <1>5, <1>6, <1>7, <2>1 DEF OnStack
  <2>3. AtTop(r, c, N)
    BY <1>4, <1>6 DEF AtTop
  <2>. QED  BY <1>5, <1>6, <2>2, <2>3 DEF Working
<1>9. \A u \in Workers : worker'[u] = IF ~ groups[g].complete /\ u = t THEN r ELSE worker[u]
  BY <1>1, <1>2
<1>10. worker' \in [Workers -> ThreadSet]
  BY <1>1, <1>2, <1>6
<1>11. Collected'
  <2>1. ThreadsRight(worker', N)
    BY <1>1, <1>8, <1>9, <1>10 DEF ThreadsRight
  <2>2. N' = N /\ windows' = windows /\ groups' = groups /\ trades' = trades
    BY <1>2
  <2>. QED  BY <1>1, <2>1, <2>2, CollectFrozen
<1>12. why \in FutureSet /\ (why \in {"completed", "skipped"} => groups[g].complete)
  BY DEF FutureSet
<1>13. why = "running" <=> ~ groups[g].complete
  OBVIOUS
<1>. HIDE DEF why
<1>14. result' \in [Groups -> FutureSet]
       /\ \A k \in Groups : result'[k] = IF k = g THEN why ELSE result[k]
  BY <1>1, <1>2, <1>12
<1>15. \A u \in Workers : Active(u) => worker[u].group # g /\ worker[u].group \in Groups
  BY <1>1, <1>2 DEF CollectInv, Orderly, Active, Working
<1>16. \A u \in Workers : Active(u)' <=> Active(u) \/ (~ groups[g].complete /\ u = t)
  BY <1>2, <1>6, <1>9 DEF Active
<1>17. ~ Active(t)
  BY <1>2 DEF Active
<1>18. \A u \in Workers : Active(u)' => result'[worker'[u].group] = "running"
  <2>. SUFFICES ASSUME NEW u \in Workers, Active(u)'
                PROVE  result'[worker'[u].group] = "running"
    OBVIOUS
  <2>1. CASE ~ groups[g].complete /\ u = t
    BY <1>6, <1>9, <1>13, <1>14, <2>1
  <2>2. CASE ~(~ groups[g].complete /\ u = t)
    <3>1. worker'[u] = worker[u] /\ Active(u)
      BY <1>9, <1>16, <2>2
    <3>2. result[worker[u].group] = "running"
      BY <3>1 DEF CollectInv, Orderly
    <3>. QED  BY <1>14, <1>15, <3>1, <3>2
  <2>. QED  BY <2>1, <2>2
<1>19. ASSUME NEW u \in Workers, NEW x \in Workers, u # x, Active(u)', Active(x)'
       PROVE  worker'[u].group # worker'[x].group
  <2>1. CASE ~ groups[g].complete /\ u = t
    <3>1. worker'[u].group = g /\ worker'[x] = worker[x] /\ Active(x)
      BY <1>6, <1>9, <1>16, <1>19, <2>1
    <3>. QED  BY <1>15, <3>1
  <2>2. CASE ~ groups[g].complete /\ x = t
    <3>1. worker'[x].group = g /\ worker'[u] = worker[u] /\ Active(u)
      BY <1>6, <1>9, <1>16, <1>19, <2>2
    <3>. QED  BY <1>15, <3>1
  <2>3. CASE groups[g].complete \/ (u # t /\ x # t)
    <3>1. worker'[u] = worker[u] /\ worker'[x] = worker[x] /\ Active(u) /\ Active(x)
      BY <1>9, <1>16, <1>19, <2>3
    <3>. QED  BY <1>19, <3>1 DEF CollectInv, Orderly
  <2>. QED  BY <2>1, <2>2, <2>3
<1>20. Orderly'
  <2>1. ~ summary.complete /\ mode' # "down" /\ summary' = summary /\ groups' = groups
    BY <1>2 DEF CollectInv, Orderly
  <2>2. \A k \in Groups : result'[k] \in {"completed", "skipped"} => groups'[k].complete
    BY <1>12, <1>14, <2>1 DEF CollectInv, Orderly
  <2>. QED  BY <1>14, <1>18, <1>19, <2>1, <2>2 DEF Orderly
<1>. QED  BY <1>11, <1>20 DEF CollectInv

(* A step that touches neither the threads nor what they write.            *)
LEMMA SameThreads ==
  ASSUME CollectInv, UNCHANGED <<trades, windows, normalizedRows, groups, worker>>
  PROVE  Collected' /\ \A t \in Workers : Active(t)' = Active(t)
<1>1. Collected'
  <2>1. /\ ReceiptsRight(windows', normalizedRows') /\ GroupsRight(groups', normalizedRows')
        /\ ThreadsRight(worker', normalizedRows') /\ trades \in TradeCounts
    BY DEF CollectInv, Collected
  <2>. QED  BY <2>1, CollectFrozen
<1>2. \A t \in Workers : Active(t)' = Active(t)
  BY DEF Active
<1>. QED  BY <1>1, <1>2

LEMMA MainKeeps ==
  ASSUME CollectInv, Main
  PROVE  CollectInv'
<1>1. CASE Launch
  <2>1. /\ mode = "down" /\ ~ summary.complete /\ mode' = "running"
        /\ UNCHANGED <<trades, windows, normalizedRows, groups, summary, worker>>
        /\ result' = [g \in Groups |-> "none"]
    BY <1>1 DEF Launch, disk
  <2>2. Collected' /\ \A t \in Workers : Active(t)' = Active(t)
    BY <2>1, SameThreads
  <2>3. \A t \in Workers : ~ Active(t)
    BY <2>1 DEF CollectInv, Orderly
  <2>4. /\ result' \in [Groups -> FutureSet]
        /\ \A g \in Groups : result'[g] \notin {"completed", "skipped"}
    BY <2>1 DEF FutureSet
  <2>5. Orderly'
    BY <2>1, <2>2, <2>3, <2>4 DEF Orderly
  <2>. QED  BY <2>2, <2>5 DEF CollectInv
<1>2. CASE EndRun
  <2>1. /\ \A t \in Workers : ~ Active(t)
        /\ UNCHANGED <<trades, windows, normalizedRows, groups, worker, result>>
        /\ mode' = "down"
        /\ summary' = IF mode = "error" THEN summary
                      ELSE [complete |-> Done, requests |-> requests]
    BY <1>2 DEF EndRun, Active
  <2>2. Collected' /\ \A t \in Workers : Active(t)' = Active(t)
    BY <2>1, SameThreads
  <2>3. summary'.complete => \A g \in Groups : groups[g].complete
    <3>1. CASE mode = "error"
      BY <2>1, <3>1 DEF CollectInv, Orderly
    <3>2. CASE mode # "error"
      <4>1. summary'.complete = Done
        BY <2>1, <3>2
      <4>. QED  BY <4>1 DEF Done, CollectInv, Orderly
    <3>. QED  BY <3>1, <3>2
  <2>4. Orderly'
    BY <2>1, <2>2, <2>3 DEF CollectInv, Orderly
  <2>. QED  BY <2>2, <2>4 DEF CollectInv
<1>3. ASSUME NEW g \in Groups, Notice(g)
      PROVE  CollectInv'
  <2>1. /\ mode = "running" /\ result[g] \in {"budget", "error"} /\ mode' = result[g]
        /\ UNCHANGED <<trades, windows, normalizedRows, groups, worker, result, summary>>
    BY <1>3 DEF Notice, disk
  <2>2. Collected' /\ \A t \in Workers : Active(t)' = Active(t)
    BY <2>1, SameThreads
  <2>3. mode' # "down" /\ ~ summary.complete
    BY <2>1 DEF CollectInv, Orderly
  <2>4. Orderly'
    BY <2>1, <2>2, <2>3 DEF CollectInv, Orderly
  <2>. QED  BY <2>2, <2>4 DEF CollectInv
<1>. QED  BY <1>1, <1>2, <1>3 DEF Main

LEMMA CrashKeeps ==
  ASSUME CollectInv, Crash
  PROVE  CollectInv'
<1>1. /\ mode # "down" /\ mode' = "down" /\ worker' = [t \in Workers |-> Idle]
      /\ UNCHANGED <<trades, windows, normalizedRows, groups, result, summary>>
  BY DEF Crash, disk
<1>2. \A t \in Workers : worker'[t] = Idle
  BY <1>1
<1>3. Idle \in ThreadSet /\ Idle.at = "idle" /\ Working(Idle, normalizedRows)
  BY IdleFacts
<1>4. ThreadsRight(worker', normalizedRows)
  BY <1>1, <1>2, <1>3 DEF ThreadsRight
<1>5. Collected'
  <2>1. /\ ReceiptsRight(windows', normalizedRows') /\ GroupsRight(groups', normalizedRows')
        /\ ThreadsRight(worker', normalizedRows') /\ trades \in TradeCounts /\ trades' = trades
    BY <1>1, <1>4 DEF CollectInv, Collected
  <2>. QED  BY <2>1, CollectFrozen
<1>6. \A t \in Workers : ~ Active(t)'
  BY <1>2, <1>3 DEF Active
<1>7. Orderly'
  BY <1>1, <1>6 DEF CollectInv, Orderly
<1>. QED  BY <1>5, <1>7 DEF CollectInv

LEMMA CollectInit ==
  ASSUME TradeInit
  PROVE  CollectInv
<1>. DEFINE N == normalizedRows
<1>1. /\ trades \in TradeCounts /\ mode = "down" /\ summary.complete = FALSE
      /\ windows = [p \in Groups \X Window |-> [status |-> "none", outcome |-> Unknown]]
      /\ groups = [g \in Groups |-> Unknown] /\ result = [g \in Groups |-> "none"]
      /\ worker = [t \in Workers |-> Idle]
  BY DEF TradeInit
<1>2. Unknown \in Outcome /\ ~ Unknown.complete
  BY DEF Unknown, Outcome
<1>3. ReceiptsRight(windows, N)
  <2>. DEFINE e == [status |-> "none", outcome |-> Unknown]
  <2>1. e \in WindowReceipt /\ e.status = "none" /\ e.outcome = Unknown
    BY <1>2 DEF WindowReceipt
  <2>. HIDE DEF e
  <2>2. \A g \in Groups, w \in Window : windows[<<g, w>>] = e
    BY <1>1 DEF e
  <2>3. windows \in [Groups \X Window -> WindowReceipt]
    BY <1>1, <2>1 DEF e
  <2>. QED  BY <1>2, <2>1, <2>2, <2>3 DEF ReceiptsRight, Right
<1>4. GroupsRight(groups, N)
  BY <1>1, <1>2 DEF GroupsRight, UpToSecond
<1>5. Idle \in ThreadSet /\ Idle.at = "idle" /\ Working(Idle, N)
  BY IdleFacts
<1>6. ThreadsRight(worker, N)
  BY <1>1, <1>5 DEF ThreadsRight
<1>7. Orderly
  BY <1>1, <1>5 DEF Orderly, Active, FutureSet
<1>. QED  BY <1>1, <1>3, <1>4, <1>6, <1>7 DEF CollectInv, Collected

(* What is collected is true of the receipts.                              *)
LEMMA CollectedIsExact ==
  ASSUME CollectInv
  PROVE  CompleteIsExact
<1>. DEFINE N == normalizedRows
<1>1. ReceiptsRight(windows, N) /\ GroupsRight(groups, N)
  BY DEF CollectInv, Collected
<1>2. ASSUME NEW g, NEW a, NEW b, Held(g, a, b, N)
      PROVE  a .. b \subseteq UNION {SecondsIn(w) : w \in Files(g)}
  BY <1>2 DEF Held, Files
<1>3. ASSUME NEW p \in Groups \X Window, windows[p].outcome.complete
      PROVE  /\ windows[p].outcome = Whole(Count(p))
             /\ SecondsIn(p[2]) \subseteq UNION {SecondsIn(w) : w \in Files(p[1])}
  <2>1. p[1] \in Groups /\ p[2] \in Window /\ p = <<p[1], p[2]>>
    OBVIOUS
  <2>2. Right(p[1], p[2], windows[<<p[1], p[2]>>].outcome, N)
    BY <1>1, <2>1 DEF ReceiptsRight
  <2>3. /\ windows[p].outcome = Whole(Count(p))
        /\ Held(p[1], p[2][1], p[2][2], N)
    BY <1>3, <2>1, <2>2 DEF Right
  <2>. QED  BY <1>2, <2>3 DEF SecondsIn
<1>4. ASSUME NEW g \in Groups, groups[g].complete
      PROVE  /\ groups[g].rows = Total(trades[g], Seconds)
             /\ Seconds = UNION {SecondsIn(w) : w \in Files(g)}
  <2>1. groups[g].rows = Total(trades[g], 0 .. LastSecond) /\ Held(g, 0, LastSecond, N)
    BY <1>1, <1>4 DEF GroupsRight, UpToSecond
  <2>2. 0 .. LastSecond \subseteq UNION {SecondsIn(w) : w \in Files(g)}
    BY <1>2, <2>1
  <2>3. \A w \in Files(g) : SecondsIn(w) \subseteq 0 .. LastSecond
    BY TradeAssumption DEF Files, Window, Seconds, SecondsIn
  <2>4. UNION {SecondsIn(w) : w \in Files(g)} \subseteq 0 .. LastSecond
    BY <2>3
  <2>. QED  BY <2>1, <2>2, <2>4 DEF Seconds
<1>5. summary.complete => \A g \in Groups : groups[g].complete
  BY DEF CollectInv, Orderly
<1>. QED  BY <1>3, <1>4, <1>5 DEF CompleteIsExact

(* A receipt that says complete counts every trade of its window once, the *)
(* rows are in files, and the run's receipt says complete only when every  *)
(* group's does: whatever was halved, timed out, cached or started again   *)
(* by collect_trade_history, for any windows, page sizes and budgets.      *)
THEOREM CompleteIsAlwaysExact == TradeSpec => []CompleteIsExact
<1>1. TradeInit => CollectInv
  BY CollectInit
<1>2. CollectInv /\ [TradeNext]_tradeVars => CollectInv'
  <2>. SUFFICES ASSUME CollectInv, [TradeNext]_tradeVars
                PROVE  CollectInv'
    OBVIOUS
  <2>1. CASE Main
    BY <2>1, MainKeeps
  <2>2. ASSUME NEW t \in Workers, Thread(t)
        PROVE  CollectInv'
    BY <2>2, TakeKeeps, EnterKeeps, PageCachedKeeps, PageFetchedKeeps, OverBudgetKeeps,
       SplitWindowKeeps, NormalizeKeeps, LeafReceiptKeeps, ReturnLeftKeeps, ReturnRightKeeps,
       CleanKeeps, NextInitialKeeps, GroupReceiptKeeps DEF Thread
  <2>3. ASSUME NEW t \in Workers, NEW kind, RequestFails(t, kind)
        PROVE  CollectInv'
    BY <2>3, RequestFailsKeeps
  <2>4. CASE Crash
    BY <2>4, CrashKeeps
  <2>5. CASE UNCHANGED tradeVars
    <3>1. UNCHANGED <<trades, windows, normalizedRows, groups, worker, mode, result, summary>>
      BY <2>5 DEF tradeVars, disk
    <3>2. Collected' /\ \A t \in Workers : Active(t)' = Active(t)
      BY <3>1, SameThreads
    <3>3. Orderly'
      BY <3>1, <3>2 DEF CollectInv, Orderly
    <3>. QED  BY <3>2, <3>3 DEF CollectInv
  <2>. QED  BY <2>1, <2>2, <2>3, <2>4, <2>5 DEF TradeNext
<1>3. CollectInv => CompleteIsExact
  BY CollectedIsExact
<1>. QED  BY <1>1, <1>2, <1>3, PTL DEF TradeSpec
====
