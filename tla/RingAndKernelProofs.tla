------------------------ MODULE RingAndKernelProofs -------------------------
(***************************************************************************)
(* Three places where something is shared.  The ring of chunks between     *)
(* processes, and the threads of a block of the selection kernel between   *)
(* their barriers, for any number of participants; and the rejection       *)
(* kernel, which splits one uniform sample between the target and the      *)
(* draft model, for any vocabulary and weights.                            *)
(*                                                                         *)
(* The shared-memory ring keeps its promise for any number of readers and  *)
(* chunks.  Published and Marked say, from the positions of the writer and *)
(* of a reader, in which lap a chunk was last published and last read; the *)
(* invariant ties the flags to them.                                       *)
(***************************************************************************)
EXTENDS ShmRingBuffer, FiniteSetTheorems, WellFoundedInduction, TLAPS

\* The lap in which chunk c was last published, and last marked by r; -1 if never.
Published(c) == IF c < widx THEN wlap ELSE wlap - 1
Marked(r, c) == IF c < ridx[r] THEN rlap[r] ELSE rlap[r] - 1

Types ==
  /\ widx \in Chunks /\ wlap \in Nat
  /\ ridx \in [Readers -> Chunks] /\ rlap \in [Readers -> Nat]
  /\ written \in [Chunks -> {0, 1}]
  /\ read \in [Chunks -> [Readers -> {0, 1}]]
  /\ data \in [Chunks -> Int]
  /\ rflag \in [Readers -> {0, 1}]
  /\ buf \in [Readers -> Int]
  /\ taken \in [Readers -> Int \X Int]
  /\ wpc \in {"idle", "scan", "write", "writing", "reset"}
  /\ rpc \in [Readers -> {"idle", "loaded", "read", "reading"}]

\* The writer is never a whole lap ahead of a reader, nor behind it.
Apart ==
  \A r \in Readers, c \in Chunks : Published(c) \in {Marked(r, c), Marked(r, c) + 1}

\* An unwritten chunk has been read by all; in a written one the read flags
\* tell who has, and the payload is that of the last lap it was published in.
Flags ==
  \A c \in Chunks :
    /\ written[c] = 0 => \A r \in Readers : Marked(r, c) = Published(c)
    /\ written[c] = 1 => /\ data[c] = Published(c)
                         /\ \A r \in Readers : read[c][r] = 1 <=> Marked(r, c) = Published(c)

WriterAt ==
  /\ wpc \in {"write", "writing", "reset"} => written[widx] = 0
  /\ wpc = "scan" => \A r \in seen : r \in Readers => read[widx][r] = 1
  /\ wpc = "reset" => /\ data[widx] = wlap
                      /\ \A r \in scanned : r \in Readers => read[widx][r] = 0

ReaderAt ==
  \A r \in Readers :
    /\ rpc[r] = "loaded" /\ rflag[r] = 0 => read[ridx[r]][r] = 0
    /\ rpc[r] \in {"read", "reading"} => /\ written[ridx[r]] = 1
                                         /\ Published(ridx[r]) = rlap[r]
    /\ rpc[r] = "reading" => buf[r] = rlap[r]

Inv == Types /\ Apart /\ Flags /\ WriterAt /\ ReaderAt

\* The next index of the ring.
LEMMA NextIndex ==
  ASSUME NEW i \in Chunks
  PROVE  /\ (i + 1) % MaxChunks \in Chunks
         /\ (i + 1) % MaxChunks = IF i + 1 = MaxChunks THEN 0 ELSE i + 1
BY RingAssumption, SMTT(30) DEF Chunks

\* Initially nothing is published and nobody has read.
LEMMA InitInv == Init => Inv
BY RingAssumption DEF Init, Inv, Types, Apart, Flags, WriterAt, ReaderAt, Published, Marked, Chunks, Torn

\* Starting to scan touches no flag.
LEMMA WriteCallInv == ASSUME Inv, WriteCall PROVE Inv'
BY RingAssumption DEF WriteCall, Inv, Types, Apart, Flags, WriterAt, ReaderAt, Published, Marked, rvars, wvars

\* A flag counted as set stays set while the writer scans.
LEMMA ScanInv == ASSUME Inv, NEW r \in Readers, Scan(r) PROVE Inv'
BY RingAssumption DEF Scan, Inv, Types, Apart, Flags, WriterAt, ReaderAt, Published, Marked, rvars, wvars

\* A new scan forgets the old one.
LEMMA ScanAgainInv == ASSUME Inv, ScanAgain PROVE Inv'
BY RingAssumption DEF ScanAgain, Inv, Types, Apart, Flags, WriterAt, ReaderAt, Published, Marked, rvars, wvars

\* The writer takes a chunk only when nobody is reading it.
LEMMA AcquireWriteInv == ASSUME Inv, AcquireWrite PROVE Inv'
<1>. USE RingAssumption DEF AcquireWrite, Inv
<1>1. widx \in Chunks /\ \A r \in Readers : Marked(r, widx) = Published(widx)
  <2>1. CASE written[widx] = 0
    BY <2>1, Zenon DEF Types, Flags
  <2>2. CASE written[widx] = 1
    BY <2>2, Zenon DEF Types, Flags, WriterAt
  <2>. QED BY <2>1, <2>2, Zenon DEF Types
<1>2. \A r \in Readers : rpc[r] \in {"read", "reading"} => ridx[r] # widx
  BY <1>1 DEF Types, ReaderAt, Marked, Chunks
<1>3. Types' /\ Apart' BY Zenon DEF Types, Apart, Published, Marked, rvars
<1>4. Flags' BY <1>1 DEF Types, Flags, Published, Marked, rvars
<1>5. WriterAt' BY Zenon DEF Types, WriterAt
<1>6. ReaderAt' BY <1>2, Zenon DEF Types, ReaderAt, Published, rvars
<1>. QED BY <1>3, <1>4, <1>5, <1>6, Zenon

\* The chunk being written is marked unwritten.
LEMMA BeginPayloadInv == ASSUME Inv, BeginPayload PROVE Inv'
BY RingAssumption DEF BeginPayload, Inv, Types, Apart, Flags, WriterAt, ReaderAt, Published, Marked, rvars, wvars, Torn

\* The payload is that of the current lap.
LEMMA EndPayloadInv == ASSUME Inv, EndPayload PROVE Inv'
BY RingAssumption DEF EndPayload, Inv, Types, Apart, Flags, WriterAt, ReaderAt, Published, Marked, rvars, wvars

\* A failed write leaves an unwritten chunk.
LEMMA WriteFailsInv == ASSUME Inv, WriteFails PROVE Inv'
BY RingAssumption DEF WriteFails, Inv, Types, Apart, Flags, WriterAt, ReaderAt, Published, Marked, rvars, wvars

\* No reader is in the chunk whose flags are reset.
LEMMA ResetFlagInv == ASSUME Inv, NEW r \in Readers, ResetFlag(r) PROVE Inv'
BY RingAssumption DEF ResetFlag, Inv, Types, Apart, Flags, WriterAt, ReaderAt, Published, Marked, rvars, wvars

\* Publishing moves the writer one chunk on.
LEMMA PublishInv == ASSUME Inv, Publish PROVE Inv'
<1>. USE RingAssumption DEF Publish, Inv
<1>1. /\ widx' \in Chunks /\ wlap' \in Nat
      /\ widx' = IF widx + 1 = MaxChunks THEN 0 ELSE widx + 1
      /\ wlap' = IF widx' = 0 THEN wlap + 1 ELSE wlap
  BY NextIndex DEF Types
<1>2. \A c \in Chunks : Published(c)' = IF c = widx THEN wlap ELSE Published(c)
  BY <1>1 DEF Types, Published, Chunks
<1>3. \A r \in Readers, c \in Chunks : Marked(r, c)' = Marked(r, c)
  BY Zenon DEF Marked, rvars
<1>4. \A r \in Readers : Marked(r, widx) = wlap - 1
  BY DEF Types, WriterAt, Flags, Published, Chunks
<1>5. \A r \in Readers, c \in Chunks : Marked(r, c) \in Int /\ Published(c) \in Int
  BY DEF Types, Marked, Published
<1>6. Types' BY <1>1, Zenon DEF Types, rvars
<1>7. Apart'
  <2>. SUFFICES ASSUME NEW r \in Readers, NEW c \in Chunks
                PROVE  Published(c)' \in {Marked(r, c)', Marked(r, c)' + 1}
    BY Zenon DEF Apart
  <2>1. Published(c) \in {Marked(r, c), Marked(r, c) + 1} BY Zenon DEF Apart
  <2>2. wlap \in Int BY DEF Types
  <2>. QED BY <1>2, <1>3, <1>4, <1>5, <2>1, <2>2
<1>8. \A c \in Chunks : written[c]' = 0 => \A r \in Readers : Marked(r, c)' = Published(c)'
  BY <1>2, <1>3, <1>5 DEF Types, Flags
<1>9. \A c \in Chunks : written[c]' = 1 =>
        /\ data[c]' = Published(c)'
        /\ \A r \in Readers : read[c][r]' = 1 <=> Marked(r, c)' = Published(c)'
  BY <1>2, <1>3, <1>4, <1>5 DEF Types, Flags, WriterAt
<1>10. Flags' BY <1>8, <1>9, Zenon DEF Flags
<1>11. WriterAt' BY Zenon DEF WriterAt
<1>12. ReaderAt' BY <1>2 DEF Types, WriterAt, ReaderAt, rvars
<1>. QED BY <1>6, <1>7, <1>10, <1>11, <1>12, Zenon

\* The flag a reader loads as 0 stays 0 until it marks the chunk.
LEMMA LoadReadFlagInv == ASSUME Inv, NEW r \in Readers, LoadReadFlag(r) PROVE Inv'
BY RingAssumption DEF LoadReadFlag, Inv, Types, Apart, Flags, WriterAt, ReaderAt, Published, Marked, rvars, wvars

\* A written chunk with the reader's flag at 0 is the one it is due.
LEMMA LoadWrittenFlagInv == ASSUME Inv, NEW r \in Readers, LoadWrittenFlag(r) PROVE Inv'
<1>. USE RingAssumption DEF LoadWrittenFlag, Inv
<1>1. ASSUME rpc'[r] = "read" PROVE written[ridx[r]] = 1 /\ Published(ridx[r]) = rlap[r]
  <2>1. ridx[r] \in Chunks /\ written[ridx[r]] = 1 /\ rflag[r] = 0
    BY <1>1, Zenon DEF Types
  <2>2. read[ridx[r]][r] = 0
    BY <2>1, Zenon DEF ReaderAt
  <2>3. Marked(r, ridx[r]) = rlap[r] - 1 /\ rlap[r] \in Nat
    BY <2>1 DEF Types, Marked, Chunks
  <2>4. Marked(r, ridx[r]) # Published(ridx[r])
    BY <2>1, <2>2 DEF Flags
  <2>. QED BY <2>1, <2>3, <2>4 DEF Apart
<1>2. Types' /\ Apart' /\ Flags' /\ WriterAt'
  BY DEF Types, Apart, Flags, WriterAt, Published, Marked, wvars
<1>3. ReaderAt'
  BY <1>1, Zenon DEF Types, ReaderAt, Published, wvars
<1>. QED BY <1>2, <1>3, Zenon

\* The reader copies the message it is due.
LEMMA CopyPayloadInv == ASSUME Inv, NEW r \in Readers, CopyPayload(r) PROVE Inv'
BY RingAssumption DEF CopyPayload, Inv, Types, Apart, Flags, WriterAt, ReaderAt, Published, Marked, rvars, wvars

\* A failed read leaves the chunk unread.
LEMMA ReadFailsInv == ASSUME Inv, NEW r \in Readers, ReadFails(r) PROVE Inv'
BY RingAssumption DEF ReadFails, Inv, Types, Apart, Flags, WriterAt, ReaderAt, Published, Marked, rvars, wvars

\* Marking a chunk moves the reader one chunk on.
LEMMA MarkReadInv == ASSUME Inv, NEW r \in Readers, MarkRead(r) PROVE Inv'
<1>. USE RingAssumption DEF MarkRead, Inv
<1>. DEFINE i == ridx[r]
<1>1. i \in Chunks /\ rlap[r] \in Nat /\ written[i] = 1 /\ Published(i) = rlap[r]
  BY Zenon DEF Types, ReaderAt
<1>2. /\ ridx'[r] \in Chunks /\ rlap'[r] \in Nat
      /\ ridx'[r] = IF i + 1 = MaxChunks THEN 0 ELSE i + 1
      /\ rlap'[r] = IF ridx'[r] = 0 THEN rlap[r] + 1 ELSE rlap[r]
  BY <1>1, NextIndex DEF Types
<1>3. \A q \in Readers : q # r => ridx'[q] = ridx[q] /\ rlap'[q] = rlap[q]
  BY Zenon DEF Types
<1>4. \A q \in Readers, c \in Chunks :
        Marked(q, c)' = IF q = r /\ c = i THEN rlap[r] ELSE Marked(q, c)
  <2>. SUFFICES ASSUME NEW q \in Readers, NEW c \in Chunks
                PROVE  Marked(q, c)' = IF q = r /\ c = i THEN rlap[r] ELSE Marked(q, c)
    BY Zenon
  <2>1. CASE q = r
    BY <1>1, <1>2, <2>1 DEF Marked, Chunks
  <2>2. CASE q # r
    BY <1>3, <2>2 DEF Marked
  <2>. QED BY <2>1, <2>2, Zenon
<1>5. \A c \in Chunks : Published(c)' = Published(c)
  BY Zenon DEF Published, wvars
<1>6. Types'
  <2>1. ridx' \in [Readers -> Chunks] /\ rlap' \in [Readers -> Nat]
    BY <1>2, <1>3, Zenon DEF Types
  <2>2. read' \in [Chunks -> [Readers -> {0, 1}]] BY Zenon DEF Types
  <2>3. taken' \in [Readers -> Int \X Int] BY <1>1 DEF Types, Chunks
  <2>. QED BY <2>1, <2>2, <2>3, Zenon DEF Types, wvars
<1>7. Apart' BY <1>1, <1>4, <1>5, Zenon DEF Apart
<1>8. \A c \in Chunks : read'[c] = IF c = i THEN [read[c] EXCEPT ![r] = 1] ELSE read[c]
  BY Zenon DEF Types
<1>9. Flags' BY <1>1, <1>4, <1>5, <1>8 DEF Types, Flags
<1>10. WriterAt' BY <1>1, <1>8 DEF Types, WriterAt, wvars
<1>11. ReaderAt' BY <1>1, <1>3, <1>5, <1>8 DEF Types, ReaderAt
<1>. QED BY <1>6, <1>7, <1>9, <1>10, <1>11, Zenon

\* Every step keeps the invariant.
LEMMA NextInv == ASSUME Inv, [Next]_vars PROVE Inv'
<1>1. CASE UNCHANGED vars
  BY <1>1 DEF Inv, Types, Apart, Flags, WriterAt, ReaderAt, Published, Marked, vars, rvars, wvars
<1>2. CASE WriteCall BY <1>2, WriteCallInv, Zenon
<1>3. CASE Writer
  BY <1>3, ScanInv, ResetFlagInv, ScanAgainInv, AcquireWriteInv, BeginPayloadInv, EndPayloadInv,
     PublishInv, Zenon DEF Writer
<1>4. CASE WriteFails BY <1>4, WriteFailsInv, Zenon
<1>5. ASSUME NEW r \in Readers, Reader(r) \/ ReadFails(r) PROVE Inv'
  BY <1>5, LoadReadFlagInv, LoadWrittenFlagInv, CopyPayloadInv, MarkReadInv, ReadFailsInv, Zenon DEF Reader
<1>. QED BY <1>1, <1>2, <1>3, <1>4, <1>5, Zenon DEF Next

\* A reader always looks at the message it is due, whole (acquire_read and
\* acquire_write), whatever the number of readers, chunks, laps and faults.
THEOREM RingReadsWhole == Spec => []ReadsWhole
<1>1. Inv => ReadsWhole
  BY Zenon DEF Inv, Types, Flags, ReaderAt, ReadsWhole
<1>. QED BY <1>1, InitInv, NextInv, PTL DEF Spec

-----------------------------------------------------------------------------
(* The refinement.  Messages are numbered lap by lap. *)

Number(l, c) == l * MaxChunks + c

\* What a reader has returned is the message just before its position.
Counted ==
  \A r \in Readers : Number(taken[r][1], taken[r][2]) + 1 = Number(rlap[r], ridx[r])

\* The next position of the ring has the next number.
LEMMA NextNumber ==
  ASSUME NEW l \in Nat, NEW c \in Chunks, NEW m, NEW d,
         d = (c + 1) % MaxChunks, m = IF d = 0 THEN l + 1 ELSE l
  PROVE  Number(m, d) = Number(l, c) + 1 /\ Number(l, c) \in Int
<1>1. l * MaxChunks \in Int /\ (l + 1) * MaxChunks = l * MaxChunks + MaxChunks
  BY RingAssumption
<1>2. c \in Nat /\ MaxChunks \in Nat BY RingAssumption DEF Chunks
<1>3. d = IF c + 1 = MaxChunks THEN 0 ELSE c + 1 BY NextIndex, Zenon
<1>. QED BY <1>1, <1>2, <1>3 DEF Number

\* Reading is the only step that moves what a reader has got.
LEMMA CountedStep ==
  ASSUME Inv, Counted, [Next]_vars
  PROVE  Counted'
<1>1. ASSUME NEW r \in Readers, MarkRead(r) PROVE Counted'
  <2>1. /\ ridx[r] \in Chunks /\ rlap[r] \in Nat /\ buf[r] = rlap[r]
        /\ taken'[r] = <<rlap[r], ridx[r]>>
    BY <1>1, Zenon DEF Inv, Types, ReaderAt, MarkRead
  <2>2. Number(rlap'[r], ridx'[r]) = Number(rlap[r], ridx[r]) + 1
    <3>1. ridx'[r] = (ridx[r] + 1) % MaxChunks /\ rlap'[r] = IF ridx'[r] = 0 THEN rlap[r] + 1 ELSE rlap[r]
      BY <1>1, Zenon DEF MarkRead, Inv, Types
    <3>. QED BY <2>1, <3>1, NextNumber
  <2>3. \A q \in Readers : q # r => taken'[q] = taken[q] /\ ridx'[q] = ridx[q] /\ rlap'[q] = rlap[q]
    BY <1>1, Zenon DEF MarkRead, Inv, Types
  <2>. QED BY <2>1, <2>2, <2>3 DEF Counted, Number
<1>2. CASE UNCHANGED <<taken, rlap, ridx>>
  BY <1>2, Zenon DEF Counted, Number
<1>. QED
  BY <1>1, <1>2, Zenon DEF Next, vars, rvars, Writer, Reader, WriteCall, Scan, ScanAgain, AcquireWrite,
     BeginPayload, EndPayload, WriteFails, ResetFlag, Publish, LoadReadFlag, LoadWrittenFlag,
     CopyPayload, ReadFails

\* Publishing a chunk is a write of the queue: no reader is a whole ring behind.
LEMMA PublishWrites == ASSUME Inv, Counted, Publish PROVE Contract!Write
<1>1. Number(wlap', widx') = Number(wlap, widx) + 1
  BY NextNumber DEF Publish, Inv, Types
<1>2. ASSUME NEW r \in Readers
      PROVE  Number(wlap, widx) - (Number(taken[r][1], taken[r][2]) + 1) < MaxChunks
  <2>1. /\ widx \in Nat /\ ridx[r] \in Nat /\ widx < MaxChunks /\ ridx[r] < MaxChunks /\ MaxChunks \in Nat
        /\ wlap \in Nat /\ rlap[r] \in Nat
    BY RingAssumption DEF Inv, Types, Chunks
  <2>2. \/ widx < ridx[r] /\ wlap = rlap[r] + 1
        \/ widx >= ridx[r] /\ wlap = rlap[r]
    BY <2>1 DEF Publish, Inv, Types, WriterAt, Flags, Marked, Published
  <2>3. rlap[r] * MaxChunks \in Int /\ (rlap[r] + 1) * MaxChunks = rlap[r] * MaxChunks + MaxChunks
    BY <2>1
  <2>4. Number(wlap, widx) - Number(rlap[r], ridx[r]) < MaxChunks
    BY <2>1, <2>2, <2>3 DEF Number
  <2>. QED BY <2>4, Zenon DEF Counted
<1>3. UNCHANGED taken BY Zenon DEF Publish, rvars
<1>. QED BY <1>1, <1>2, <1>3, Zenon DEF Contract!Write, Number

\* Marking a chunk is a read of the queue: the message was there, and the next.
LEMMA MarkReads == ASSUME Inv, Counted, NEW r \in Readers, MarkRead(r) PROVE Contract!Read(r)
<1>1. /\ ridx[r] \in Chunks /\ rlap[r] \in Nat /\ Published(ridx[r]) = rlap[r] /\ buf[r] = rlap[r]
      /\ widx \in Chunks /\ wlap \in Nat
  BY Zenon DEF MarkRead, Inv, Types, ReaderAt
<1>2. Number(rlap[r], ridx[r]) < Number(wlap, widx)
  <2>1. \/ ridx[r] < widx /\ wlap = rlap[r]
        \/ ridx[r] >= widx /\ wlap = rlap[r] + 1
    BY <1>1 DEF Published, Chunks
  <2>2. rlap[r] * MaxChunks \in Int /\ (rlap[r] + 1) * MaxChunks = rlap[r] * MaxChunks + MaxChunks
    BY <1>1, RingAssumption
  <2>. QED BY <1>1, <2>1, <2>2, RingAssumption DEF Number, Chunks
<1>3. taken' = [taken EXCEPT ![r] = <<rlap[r], ridx[r]>>] /\ taken \in [Readers -> Int \X Int]
  BY <1>1, Zenon DEF MarkRead, Inv, Types
<1>4. Number(rlap[r], ridx[r]) = Number(taken[r][1], taken[r][2]) + 1 BY Zenon DEF Counted
<1>5. UNCHANGED <<wlap, widx>> BY Zenon DEF MarkRead, wvars
<1>. QED BY <1>2, <1>3, <1>4, <1>5, Zenon DEF Contract!Read, Number

\* Every step of the ring is a step of the queue, or none.
LEMMA StepSimulation ==
  ASSUME Inv, Counted, [Next]_vars
  PROVE  [Contract!Next]_<<wlap * MaxChunks + widx,
                           [r \in Readers |-> taken[r][1] * MaxChunks + taken[r][2] + 1]>>
<1>1. CASE Publish BY <1>1, PublishWrites, Zenon DEF Contract!Next
<1>2. ASSUME NEW r \in Readers, MarkRead(r) PROVE Contract!Next
  BY <1>2, MarkReads, Zenon DEF Contract!Next
<1>3. CASE UNCHANGED <<taken, wlap, widx>> BY <1>3, Zenon
<1>. QED
  BY <1>1, <1>2, <1>3, Zenon DEF Next, vars, rvars, wvars, Writer, Reader, WriteCall, Scan, ScanAgain,
     AcquireWrite, BeginPayload, EndPayload, WriteFails, ResetFlag, LoadReadFlag, LoadWrittenFlag,
     CopyPayload, ReadFails

\* The lock-free ring implements the bounded broadcast queue: every reader gets
\* every published message once and in order, and the writer is never more than
\* MaxChunks messages ahead of a reader, whatever the interleaving and the faults.
THEOREM RingBroadcasts == Spec => Broadcasts
<1>1. Init => Counted /\ Contract!Init
  BY RingAssumption DEF Init, Counted, Number, Contract!Init, Chunks
<1>. QED
  BY <1>1, InitInv, NextInv, CountedStep, StepSimulation, PTL DEF Spec, Broadcasts, Contract!Spec

-----------------------------------------------------------------------------
(***************************************************************************)
(* BlockInStep for any number of threads and passes, when the mass scan    *)
(* ends at its last pass only.                                             *)
(*                                                                         *)
(* The inductive invariant says between which two barriers the block is,   *)
(* and what the threads there have done of their work: which of them have  *)
(* zeroed their bucket, and whose candidates are in the histogram.  Where  *)
(* threads read st.done while thread 0 may already be past its own read,   *)
(* it says why they still decide alike.                                    *)
(***************************************************************************)
CONSTANTS Threads, Leader, NumPasses, EarlyEnds
VARIABLES pc, pass, counting, done, cnt, bucket

Block == INSTANCE SelectBarriers

(* A launch of the kernel; a scan over values of one digit has one pass. *)
Launch ==
  /\ IsFiniteSet(Threads) /\ Leader \in Threads
  /\ NumPasses \in Nat \ {0} /\ EarlyEnds = FALSE

BlockTypes ==
  /\ pass \in [Threads -> 0 .. NumPasses] /\ counting \in [Threads -> BOOLEAN]
  /\ done \in BOOLEAN /\ cnt \in [Threads -> Nat] /\ bucket \in [Threads -> Threads]
  /\ pc \in [Threads -> {"init", "init_sync", "loop", "zero", "zero_sync", "count",
                         "count_sync", "choose", "choose_sync", "clamp", "clamp_sync",
                         "count_test", "remaining_sync", "exit"}]

At(S) == \A t \in Threads : pc[t] \in S
Alike == \A t \in Threads : pass[t] = pass[Leader] /\ counting[t] = counting[Leader]
Continues == pass[Leader] < NumPasses /\ ~done
Candidates(b, S) == {t \in Threads : bucket[t] = b /\ pc[t] \in S}

Starting ==
  /\ At({"init", "init_sync"}) /\ ~done
  /\ \A t \in Threads : pass[t] = 0 /\ counting[t] = FALSE
Zeroing ==
  /\ At({"loop", "zero", "zero_sync"}) /\ Alike /\ Continues
  /\ \A t \in Threads : pc[t] = "zero_sync" => cnt[t] = 0
Counting ==
  /\ At({"count", "count_sync"}) /\ Alike /\ Continues
  /\ \A b \in Threads : cnt[b] = Cardinality(Candidates(b, {"count_sync"}))
(* The mass scan ends with its last pass and not before. *)
Choosing ==
  /\ At({"choose", "choose_sync"}) /\ Alike /\ pass[Leader] < NumPasses
  /\ \A b \in Threads : cnt[b] = Cardinality({t \in Threads : bucket[t] = b})
  /\ pc[Leader] = "choose_sync" /\ ~counting[Leader] => done = (pass[Leader] = NumPasses - 1)
(* Thread 0 may have set st.done again: the pass alone ends the mass scan. *)
Clamping ==
  /\ At({"loop", "clamp", "clamp_sync"}) /\ Alike
  /\ pass[Leader] = NumPasses /\ counting[Leader] = FALSE
Leaving == At({"loop", "exit"}) /\ Alike /\ ~Continues /\ counting[Leader] = TRUE
Testing ==
  /\ At({"count_test", "remaining_sync"}) /\ ~done
  /\ \A t \in Threads :
       /\ pc[t] = "count_test" => pass[t] = NumPasses /\ counting[t] = FALSE
       /\ pc[t] = "remaining_sync" => pass[t] = 0 /\ counting[t] = TRUE
Satisfied ==
  /\ At({"count_test", "exit"}) /\ Alike /\ done
  /\ pass[Leader] = NumPasses /\ counting[Leader] = FALSE

BlockInv ==
  /\ BlockTypes
  /\ \/ Starting \/ Zeroing \/ Counting \/ Choosing
     \/ Clamping \/ Leaving \/ Testing \/ Satisfied

(* The block starts before its first barrier. *)
LEMMA BlockInitInv == ASSUME Launch, Block!Init PROVE BlockInv
<1>1. 0 \in 0 .. NumPasses
  BY SMT DEF Launch
<1>2. BlockTypes
  BY <1>1, Zenon DEF Block!Init, BlockTypes
<1>3. Starting
  BY Zenon DEF Block!Init, Starting, At
<1> QED
  BY <1>2, <1>3, Zenon DEF BlockInv

(* Thread 0 resets st.done, and does not end the scan yet. *)
LEMMA InitStateInv ==
  ASSUME Launch, BlockInv, NEW t \in Threads, Block!InitState(t)
  PROVE  BlockInv'
<1>1. Starting
  BY Zenon DEF BlockInv, Block!InitState, BlockTypes, At, Starting, Zeroing, Counting, Choosing, Clamping, Leaving, Testing, Satisfied
<1>2. done' = FALSE
  <2>1. CASE t = Leader
    BY <2>1, Zenon DEF Block!InitState, Launch
  <2>2. CASE t # Leader
    BY <1>1, <2>2 DEF Block!InitState, Starting
  <2> QED
    BY <2>1, <2>2, Zenon
<1> QED
  BY <1>1, <1>2, Zenon DEF BlockInv, Block!InitState, Block!Goto, BlockTypes, At, Starting

(* Between two barriers every thread evaluates the loop's condition to the   *)
(* same value, also after thread 0 has gone on to change st.done.            *)
LEMMA LoopTestInv ==
  ASSUME Launch, BlockInv, NEW t \in Threads, Block!LoopTest(t)
  PROVE  BlockInv'
<1>1. Zeroing \/ Clamping \/ Leaving
  BY Zenon DEF BlockInv, Block!LoopTest, BlockTypes, At, Starting, Zeroing, Counting, Choosing, Clamping, Leaving, Testing, Satisfied
<1>2. BlockTypes'
  BY Zenon DEF BlockInv, Block!LoopTest, Block!Goto, BlockTypes
<1>3. CASE Zeroing
  <2>1. pc' = [pc EXCEPT ![t] = "zero"]
    BY <1>3, Zenon DEF Block!LoopTest, Block!Goto, Zeroing, Alike, Continues
  <2>2. Zeroing'
    BY <1>3, <2>1, Zenon DEF BlockInv, BlockTypes, Block!LoopTest, Zeroing, At, Alike, Continues
  <2> QED
    BY <1>2, <2>2, Zenon DEF BlockInv
<1>4. CASE Clamping
  <2>0. ~(pass[t] < NumPasses) /\ counting[t] = FALSE
    BY <1>4, SMT DEF Clamping, Alike, Launch
  <2>1. pc' = [pc EXCEPT ![t] = "clamp"]
    BY <2>0, Zenon DEF Block!LoopTest, Block!Goto
  <2>2. Clamping'
    BY <1>4, <2>1, Zenon DEF BlockInv, BlockTypes, Block!LoopTest, Clamping, At, Alike
  <2> QED
    BY <1>2, <2>2, Zenon DEF BlockInv
<1>5. CASE Leaving
  <2>1. pc' = [pc EXCEPT ![t] = "exit"]
    BY <1>5, Zenon DEF Block!LoopTest, Block!Goto, Leaving, Alike, Continues
  <2>2. Leaving'
    BY <1>5, <2>1, Zenon DEF BlockInv, BlockTypes, Block!LoopTest, Leaving, At, Alike, Continues
  <2> QED
    BY <1>2, <2>2, Zenon DEF BlockInv
<1> QED
  BY <1>1, <1>3, <1>4, <1>5, Zenon

(* A thread zeroes its own bucket while no thread counts. *)
LEMMA ZeroInv ==
  ASSUME Launch, BlockInv, NEW t \in Threads, Block!Zero(t)
  PROVE  BlockInv'
<1>1. Zeroing
  BY Zenon DEF BlockInv, Block!Zero, BlockTypes, At, Starting, Zeroing, Counting, Choosing, Clamping, Leaving, Testing, Satisfied
<1>2. BlockTypes'
  BY Zenon DEF BlockInv, Block!Zero, Block!Goto, BlockTypes
<1>3. Zeroing'
  BY <1>1, Zenon DEF BlockInv, Block!Zero, Block!Goto, BlockTypes, Zeroing, At, Alike, Continues
<1> QED
  BY <1>2, <1>3, Zenon DEF BlockInv

(* A candidate is added to its bucket once. *)
LEMMA CountInv ==
  ASSUME Launch, BlockInv, NEW t \in Threads, Block!Count(t)
  PROVE  BlockInv'
<1>1. Counting
  BY Zenon DEF BlockInv, Block!Count, BlockTypes, At, Starting, Zeroing, Counting, Choosing, Clamping, Leaving, Testing, Satisfied
<1>2. BlockTypes'
  BY DEF BlockInv, Block!Count, Block!Goto, BlockTypes
<1>3. ASSUME NEW b \in Threads
      PROVE  cnt'[b] = Cardinality(Candidates(b, {"count_sync"})')
  <2> DEFINE C == Candidates(b, {"count_sync"})
  <2>1. IsFiniteSet(C) /\ cnt[b] = Cardinality(C) /\ t \notin C
    BY <1>1, FS_Subset, Zenon DEF Launch, Counting, Candidates, Block!Count
  <2>2. CASE b = bucket[t]
    <3>1. C' = C \union {t}
      BY <2>2, Zenon DEF BlockInv, BlockTypes, Candidates, Block!Count, Block!Goto
    <3>2. cnt'[b] = cnt[b] + 1
      BY <2>2, Zenon DEF BlockInv, BlockTypes, Block!Count
    <3> QED
      BY <2>1, <3>1, <3>2, FS_AddElement, Zenon
  <2>3. CASE b # bucket[t]
    <3>1. C' = C
      BY <2>3, Zenon DEF BlockInv, BlockTypes, Candidates, Block!Count, Block!Goto
    <3>2. cnt'[b] = cnt[b]
      BY <2>3, Zenon DEF BlockInv, BlockTypes, Block!Count
    <3> QED
      BY <2>1, <3>1, <3>2, Zenon
  <2> QED
    BY <2>2, <2>3, Zenon
<1>4. Counting'
  BY <1>1, <1>3, Zenon DEF BlockInv, Block!Count, Block!Goto, BlockTypes, Counting, At, Alike, Continues
<1> QED
  BY <1>2, <1>4, Zenon DEF BlockInv

(* Thread 0 chooses from a whole histogram. *)
LEMMA ChooseInv ==
  ASSUME Launch, BlockInv, NEW t \in Threads, Block!Choose(t)
  PROVE  BlockInv'
<1>1. Choosing
  BY Zenon DEF BlockInv, Block!Choose, BlockTypes, At, Starting, Zeroing, Counting, Choosing, Clamping, Leaving, Testing, Satisfied
<1>2. done' \in BOOLEAN
  BY Zenon DEF BlockInv, Block!Choose, BlockTypes, Block!MayBeDone, Launch
<1>3. BlockTypes'
  BY <1>2, Zenon DEF BlockInv, Block!Choose, Block!Goto, BlockTypes
<1>4. ASSUME pc'[Leader] = "choose_sync", ~counting[Leader]
      PROVE  done' = (pass[Leader] = NumPasses - 1)
  <2>1. CASE t = Leader
    BY <1>4, <2>1, Zenon DEF Block!Choose, Block!MayBeDone, Launch
  <2>2. CASE t # Leader
    <3>1. done' = done /\ pc[Leader] = "choose_sync"
      BY <1>4, <2>2, Zenon DEF Block!Choose, Block!Goto, BlockInv, BlockTypes, Launch
    <3> QED
      BY <1>1, <1>4, <3>1, Zenon DEF Choosing
  <2> QED
    BY <2>1, <2>2, Zenon
<1>5. Choosing'
  BY <1>1, <1>4 DEF BlockInv, Block!Choose, Block!Goto, BlockTypes, Choosing, At, Alike
<1> QED
  BY <1>3, <1>5, Zenon DEF BlockInv

(* Thread 0 may clear st.done while others have yet to leave the loop. *)
LEMMA ClampInv ==
  ASSUME Launch, BlockInv, NEW t \in Threads, Block!Clamp(t)
  PROVE  BlockInv'
<1>1. Clamping
  BY Zenon DEF BlockInv, Block!Clamp, BlockTypes, At, Starting, Zeroing, Counting, Choosing, Clamping, Leaving, Testing, Satisfied
<1>2. BlockTypes'
  BY Zenon DEF BlockInv, Block!Clamp, Block!Goto, BlockTypes
<1>3. Clamping'
  BY <1>1, Zenon DEF BlockInv, Block!Clamp, Block!Goto, BlockTypes, Clamping, At, Alike
<1> QED
  BY <1>2, <1>3, Zenon DEF BlockInv

(* Nothing writes st.done between the barriers around its test. *)
LEMMA CountTestInv ==
  ASSUME Launch, BlockInv, NEW t \in Threads, Block!CountTest(t)
  PROVE  BlockInv'
<1>1. Testing \/ Satisfied
  BY Zenon DEF BlockInv, Block!CountTest, BlockTypes, At, Starting, Zeroing, Counting, Choosing, Clamping, Leaving, Testing, Satisfied
<1>0. 0 \in 0 .. NumPasses
  BY SMT DEF Launch
<1>2. BlockTypes'
  BY <1>0, Zenon DEF BlockInv, Block!CountTest, Block!Goto, BlockTypes
<1>3. CASE Testing
  <2>1. Testing'
    BY <1>3 DEF BlockInv, Block!CountTest, Block!Goto, BlockTypes, Testing, At
  <2> QED
    BY <1>2, <2>1, Zenon DEF BlockInv
<1>4. CASE Satisfied
  <2>1. Satisfied'
    BY <1>4, Zenon DEF BlockInv, Block!CountTest, Block!Goto, BlockTypes, Satisfied, At, Alike
  <2> QED
    BY <1>2, <2>1, Zenon DEF BlockInv
<1> QED
  BY <1>1, <1>3, <1>4, Zenon

(* A barrier takes the whole block from one phase to the next. *)
LEMMA BarrierInv ==
  ASSUME Launch, BlockInv, Block!Barrier
  PROVE  BlockInv'
<1> DEFINE Syncs == {"init_sync", "zero_sync", "count_sync", "choose_sync", "clamp_sync",
                     "remaining_sync"}
<1>1. DOMAIN Block!AfterSync = Syncs
  BY Zenon DEF Block!AfterSync
<1>2. /\ \A t \in Threads : pc[t] \in Syncs \union {"exit"}
      /\ \E t \in Threads : pc[t] \in Syncs
      /\ \A t \in Threads : pc'[t] = IF pc[t] \in Syncs THEN Block!AfterSync[pc[t]] ELSE pc[t]
      /\ DOMAIN pc' = Threads
  BY <1>1, Zenon DEF Block!Barrier
<1>3. /\ pass' = [t \in Threads |-> IF pc[t] = "choose_sync" THEN pass[t] + 1 ELSE pass[t]]
      /\ UNCHANGED <<counting, done, cnt, bucket>>
  BY Zenon DEF Block!Barrier
<1>4. /\ Block!AfterSync["init_sync"] = "loop" /\ Block!AfterSync["zero_sync"] = "count"
      /\ Block!AfterSync["count_sync"] = "choose" /\ Block!AfterSync["choose_sync"] = "loop"
      /\ Block!AfterSync["clamp_sync"] = "count_test" /\ Block!AfterSync["remaining_sync"] = "loop"
  BY Zenon DEF Block!AfterSync
<1>5. \A t \in Threads : pc[t] = "choose_sync" => pass[t] < NumPasses
  BY SMT DEF BlockInv, BlockTypes, Launch, At, Alike, Starting, Zeroing, Counting, Choosing, Clamping, Leaving, Testing, Satisfied
<1>6. pass' \in [Threads -> 0 .. NumPasses]
  BY <1>3, <1>5, SMT DEF BlockInv, BlockTypes, Launch
<1>7. BlockTypes'
  <2>1. \A t \in Threads : pc'[t] \in {"loop", "count", "choose", "count_test", "exit"}
    BY <1>2, <1>4
  <2>2. pc' = [t \in Threads |-> pc'[t]]
    BY Zenon DEF Block!Barrier
  <2> QED
    BY <1>3, <1>6, <2>1, <2>2, Zenon DEF BlockInv, BlockTypes
<1>8. Leader \in Threads /\ NumPasses \in Nat /\ 0 < NumPasses /\ pass[Leader] \in 0 .. NumPasses
  BY SMT DEF Launch, BlockInv, BlockTypes
<1>9. CASE Starting
  <2>1. \A t \in Threads : pc[t] = "init_sync"
    BY <1>2, <1>9, Zenon DEF Starting, At
  <2>2. \A t \in Threads : pc'[t] = "loop" /\ pass'[t] = 0 /\ counting'[t] = FALSE
    BY <1>2, <1>3, <1>4, <1>9, <2>1 DEF Starting
  <2>3. Zeroing'
    BY <1>3, <1>8, <1>9, <2>2, Zenon DEF Starting, Zeroing, At, Alike, Continues
  <2> QED
    BY <1>7, <2>3, Zenon DEF BlockInv
<1>10. CASE Zeroing
  <2>1. \A t \in Threads : pc[t] = "zero_sync"
    BY <1>2, <1>10, Zenon DEF Zeroing, At
  <2>2. \A t \in Threads : pc'[t] = "count" /\ pass'[t] = pass[t] /\ cnt'[t] = 0
    BY <1>2, <1>3, <1>4, <1>10, <2>1 DEF Zeroing
  <2>3. \A b \in Threads : Candidates(b, {"count_sync"})' = {}
    BY <2>2, Zenon DEF Candidates
  <2>4. Counting'
    BY <1>3, <1>8, <1>10, <2>2, <2>3, FS_EmptySet, Zenon DEF Zeroing, Counting, At, Alike, Continues
  <2> QED
    BY <1>7, <2>4, Zenon DEF BlockInv
<1>11. CASE Counting
  <2>1. \A t \in Threads : pc[t] = "count_sync"
    BY <1>2, <1>11, Zenon DEF Counting, At
  <2>2. \A t \in Threads : pc'[t] = "choose" /\ pass'[t] = pass[t]
    BY <1>2, <1>3, <1>4, <2>1
  <2>3. \A b \in Threads : Candidates(b, {"count_sync"}) = {t \in Threads : bucket[t] = b}
    BY <2>1, Zenon DEF Candidates
  <2>4. \A b \in Threads : cnt'[b] = Cardinality({t \in Threads : bucket'[t] = b})
    BY <1>3, <1>11, <2>3, Zenon DEF Counting
  <2>5. Choosing'
    BY <1>3, <1>8, <1>11, <2>2, <2>4, Zenon DEF Counting, Choosing, At, Alike, Continues
  <2> QED
    BY <1>7, <2>5, Zenon DEF BlockInv
<1>12. CASE Choosing
  <2>1. \A t \in Threads : pc[t] = "choose_sync"
    BY <1>2, <1>12, Zenon DEF Choosing, At
  <2>2. \A t \in Threads : pc'[t] = "loop" /\ pass'[t] = pass[Leader] + 1
    BY <1>2, <1>3, <1>4, <1>12, <2>1 DEF Choosing, Alike
  <2>3. Alike'
    BY <1>3, <1>8, <1>12, <2>2, Zenon DEF Choosing, Alike
  <2>4. CASE Continues'
    <3>1. Zeroing'
      BY <2>2, <2>3, <2>4, Zenon DEF Zeroing, At
    <3> QED
      BY <1>7, <3>1, Zenon DEF BlockInv
  <2>5. CASE ~Continues' /\ counting[Leader] = TRUE
    <3>1. Leaving'
      BY <1>3, <2>2, <2>3, <2>5, Zenon DEF Leaving, At, Continues
    <3> QED
      BY <1>7, <3>1, Zenon DEF BlockInv
  <2>6. CASE ~Continues' /\ counting[Leader] = FALSE
    <3>1. done => pass[Leader] = NumPasses - 1
      BY <1>8, <1>12, <2>1, <2>6, Zenon DEF Choosing
    <3>2. pass[Leader] < NumPasses
      BY <1>12, Zenon DEF Choosing
    <3>3. ~done => ~(pass[Leader] + 1 < NumPasses)
      BY <1>3, <1>8, <2>2, <2>6, Zenon DEF Continues
    <3>4. pass'[Leader] = NumPasses
      BY <1>8, <2>2, <3>1, <3>2, <3>3, SMT
    <3>5. Clamping'
      BY <1>3, <2>2, <2>3, <2>6, <3>4, Zenon DEF Clamping, At
    <3> QED
      BY <1>7, <3>5, Zenon DEF BlockInv
  <2> QED
    BY <1>8, <2>4, <2>5, <2>6, Zenon DEF BlockInv, BlockTypes
<1>13. CASE Clamping
  <2>1. \A t \in Threads : pc[t] = "clamp_sync"
    BY <1>2, <1>13, Zenon DEF Clamping, At
  <2>2. \A t \in Threads : pc'[t] = "count_test" /\ pass'[t] = NumPasses /\ counting'[t] = FALSE
    BY <1>2, <1>3, <1>4, <1>13, <2>1 DEF Clamping, Alike
  <2>3. CASE done
    <3>1. Satisfied'
      BY <1>3, <1>8, <2>2, <2>3, Zenon DEF Satisfied, At, Alike
    <3> QED
      BY <1>7, <3>1, Zenon DEF BlockInv
  <2>4. CASE ~done
    <3>1. Testing'
      BY <1>3, <2>2, <2>4, Zenon DEF Testing, At
    <3> QED
      BY <1>7, <3>1, Zenon DEF BlockInv
  <2> QED
    BY <2>3, <2>4, Zenon
<1>14. CASE Testing
  <2>1. \A t \in Threads : pc[t] = "remaining_sync"
    BY <1>2, <1>14, Zenon DEF Testing, At
  <2>2. \A t \in Threads : pc'[t] = "loop" /\ pass'[t] = 0 /\ counting'[t] = TRUE
    BY <1>2, <1>3, <1>4, <1>14, <2>1 DEF Testing
  <2>3. Zeroing'
    BY <1>3, <1>8, <1>14, <2>2, Zenon DEF Testing, Zeroing, At, Alike, Continues
  <2> QED
    BY <1>7, <2>3, Zenon DEF BlockInv
<1>15. ~Leaving /\ ~Satisfied
  BY <1>2, Zenon DEF Leaving, Satisfied, At
<1> QED
  BY <1>9, <1>10, <1>11, <1>12, <1>13, <1>14, <1>15, Zenon DEF BlockInv

(* Every step keeps the block in one phase. *)
LEMMA BlockNextInv ==
  ASSUME Launch, BlockInv, [Block!Next]_Block!vars
  PROVE  BlockInv'
<1>1. ASSUME NEW t \in Threads,
             \/ Block!InitState(t) \/ Block!LoopTest(t) \/ Block!Zero(t) \/ Block!Count(t)
             \/ Block!Choose(t) \/ Block!Clamp(t) \/ Block!CountTest(t)
      PROVE  BlockInv'
  BY <1>1, InitStateInv, LoopTestInv, ZeroInv, CountInv, ChooseInv, ClampInv, CountTestInv, Zenon
<1>2. CASE UNCHANGED Block!vars
  BY <1>2 DEF Block!vars, BlockInv, BlockTypes, At, Alike, Continues, Candidates, Starting, Zeroing, Counting, Choosing, Clamping, Leaving, Testing, Satisfied
<1> QED
  BY <1>1, <1>2, BarrierInv, Zenon DEF Block!Next, Block!Ended

(* In one phase the histogram is whole at the choice, and the threads of a   *)
(* barrier are at the same one.                                              *)
LEMMA InvBlockInStep ==
  ASSUME Launch, BlockInv
  PROVE  Block!BlockInStep
<1>1. Block!HistogramWhole
  <2>1. Leader \in Threads
    BY Zenon DEF Launch
  <2>2. pc[Leader] = "choose" => Choosing
    BY <2>1, Zenon DEF BlockInv, At, Starting, Zeroing, Counting, Clamping, Leaving, Testing, Satisfied
  <2>3. ASSUME Choosing, NEW b \in Threads
        PROVE  cnt[b] = Cardinality({t \in Threads : bucket[t] = b})
    BY <2>3, Zenon DEF Choosing
  <2>4. ASSUME NEW S PROVE Block!Cardinality(S) = Cardinality(S)
    BY Zenon DEF Block!Cardinality, Cardinality
  <2> QED
    BY <2>2, <2>3, <2>4, Zenon DEF Block!HistogramWhole
<1>2. DOMAIN Block!AfterSync = {"init_sync", "zero_sync", "count_sync", "choose_sync", "clamp_sync", "remaining_sync"}
  BY Zenon DEF Block!AfterSync
<1>3. Block!BarriersAgree
  <2> SUFFICES ASSUME \A t \in Threads : pc[t] \in DOMAIN Block!AfterSync \union {"exit"}
               PROVE  \A t, u \in Threads :
                        pc[t] = pc[u] /\ pass[t] = pass[u] /\ counting[t] = counting[u]
    BY Zenon DEF Block!BarriersAgree
  <2>1. CASE Starting
    BY <1>2, <2>1, Zenon DEF Starting, At
  <2>2. CASE Zeroing \/ Counting \/ Choosing \/ Clamping \/ Leaving \/ Satisfied
    BY <1>2, <2>2 DEF At, Alike, Zeroing, Counting, Choosing, Clamping, Leaving, Satisfied
  <2>3. CASE Testing
    BY <1>2, <2>3, Zenon DEF Testing, At
  <2> QED
    BY <2>1, <2>2, <2>3, Zenon DEF BlockInv
<1> QED
  BY <1>1, <1>3, Zenon DEF Block!BlockInStep

(* SelectKernel, launched with any number of threads over digits of any      *)
(* number of passes, stays in step when the mass scan does not end early:    *)
(* thread 0 always chooses from a whole histogram, and every __syncthreads() *)
(* is met by the whole block at the same place of the kernel.                *)
THEOREM BlockStaysInStep == ASSUME Launch PROVE Block!Spec => []Block!BlockInStep
<1>1. Block!Init => BlockInv
  BY BlockInitInv, Zenon
<1>2. BlockInv /\ [Block!Next]_Block!vars => BlockInv'
  BY BlockNextInv, Zenon
<1>3. BlockInv => Block!BlockInStep
  BY InvBlockInStep, Zenon
<1> QED
  BY <1>1, <1>2, <1>3, PTL DEF Block!Spec

-----------------------------------------------------------------------------
(* EmitsTarget for every vocabulary, every pair of distributions and every   *)
(* precision of the weights, for a request without penalties.  Sum folds     *)
(* over Vocab in some fixed order.  Its laws (SumAdd, SumScale, SumPoint,    *)
(* SumPositive) are proved by induction along that order, as the absence of  *)
(* a least counterexample.  With them the weight of each emitted token is a  *)
(* constant times its target weight.                                         *)
CONSTANTS Vocab, Total, Scale, Penalties
VARIABLES target, draft, penalised, draft_probs, out

Odds == INSTANCE RejectionSampling WITH seen <- penalised

(* A vocabulary with its token 0, and weights fine enough that every ratio   *)
(* the kernel compares with its uniform sample is exact.                     *)
Setting ==
  /\ IsFiniteSet(Vocab) /\ 0 \in Vocab
  /\ Total \in Nat \ {0} /\ Scale \in Nat
  /\ \A n \in 1 .. Total : Scale % n = 0

(* The element that Sum's fold takes next, and the sums it builds. *)
Pick(s) == CHOOSE x \in s : TRUE
Rest(s) == s \ {Pick(s)}
PartialSums(w, g) ==
  g = [s \in SUBSET Vocab |-> IF s = {} THEN 0 ELSE w[Pick(s)] + g[Rest(s)]]

-----------------------------------------------------------------------------
(* A nonempty set of naturals has a least element. *)
LEMMA LeastNat ==
  ASSUME NEW T \in SUBSET Nat, T # {}
  PROVE  \E x \in T : \A y \in T : x <= y
<1>1. PICK x \in T : \A y \in T : ~(<<y, x>> \in OpToRel(<, Nat))
  BY WFMin, NatLessThanWellFounded, Zenon
<1>2. \A y \in T : ~(y < x)
  BY <1>1, Zenon DEF OpToRel
<1> QED
  BY <1>2, SMT

(* The fold takes one element off a set. *)
LEMMA RestSmaller ==
  ASSUME IsFiniteSet(Vocab), NEW s \in SUBSET Vocab, s # {}
  PROVE  /\ Pick(s) \in s /\ Pick(s) \in Vocab /\ Rest(s) \in SUBSET Vocab
         /\ Cardinality(s) \in Nat \ {0} /\ Cardinality(Rest(s)) = Cardinality(s) - 1
<1>1. Pick(s) \in s
  BY Zenon DEF Pick
<1>2. IsFiniteSet(s) /\ Cardinality(s) \in Nat /\ Cardinality(s) # 0
  BY FS_Subset, FS_CardinalityType, FS_EmptySet, Zenon
<1>3. Cardinality(Rest(s)) = Cardinality(s) - 1
  BY <1>1, <1>2, FS_RemoveElement, Zenon DEF Rest
<1> QED
  BY <1>1, <1>2, <1>3, Zenon DEF Rest

(* Induction along the fold: what holds of the empty set, and of a set when  *)
(* it holds of the set less its next element, holds of every set of tokens.  *)
LEMMA FoldInduction ==
  ASSUME IsFiniteSet(Vocab), NEW T, {} \in T,
         \A s \in SUBSET Vocab : s # {} /\ Rest(s) \in T => s \in T
  PROVE  \A s \in SUBSET Vocab : s \in T
<1> DEFINE Bad == {n \in Nat : \E s \in SUBSET Vocab : s \notin T /\ Cardinality(s) = n}
<1>1. SUFFICES ASSUME NEW s0 \in SUBSET Vocab, s0 \notin T PROVE FALSE
  BY Zenon
<1>2. Cardinality(s0) \in Bad
  BY <1>1, RestSmaller, Zenon
<1>3. PICK n \in Bad : \A m \in Bad : n <= m
  <2> HIDE DEF Bad
  <2>1. Bad \in SUBSET Nat
    BY Zenon DEF Bad
  <2> QED
    BY <1>2, <2>1, LeastNat, Zenon
<1>4. PICK s \in SUBSET Vocab : s \notin T /\ Cardinality(s) = n
  BY <1>3, Zenon
<1>5. s # {} /\ Rest(s) \notin T
  BY <1>4, Zenon
<1>6. Rest(s) \in SUBSET Vocab /\ Cardinality(Rest(s)) = n - 1 /\ n \in Nat \ {0}
  BY <1>4, <1>5, RestSmaller, Zenon
<1>7. n - 1 \in Bad
  BY <1>5, <1>6
<1> QED
  BY <1>3, <1>6, <1>7, SMT

(* The sums over all subsets of Vocab exist, built up by size. *)
LEMMA PartialSumsExist ==
  ASSUME IsFiniteSet(Vocab), NEW w \in [Vocab -> Int]
  PROVE  \E g : PartialSums(w, g)
<1> DEFINE Part(n) == {s \in SUBSET Vocab : Cardinality(s) <= n}
           On(n, g) == \A s \in Part(n) : g[s] = IF s = {} THEN 0 ELSE w[Pick(s)] + g[Rest(s)]
           Has(n) == \E g \in [Part(n) -> Int] : On(n, g)
           Bad == {n \in Nat : ~Has(n)}
<1>1. Cardinality({}) = 0 /\ \A s \in SUBSET Vocab : Cardinality(s) \in Nat
  BY RestSmaller, FS_EmptySet
<1>2. Has(0)
  <2>1. Part(0) = {{}}
    BY <1>1, RestSmaller
  <2> WITNESS [s \in Part(0) |-> 0] \in [Part(0) -> Int]
  <2> QED
    BY <2>1, Zenon
<1>3. ASSUME NEW n \in Nat, Has(n) PROVE Has(n + 1)
  <2>1. PICK g \in [Part(n) -> Int] : On(n, g)
    BY <1>3, Zenon
  <2> DEFINE h == [s \in Part(n + 1) |-> IF s = {} THEN 0 ELSE w[Pick(s)] + g[Rest(s)]]
  <2>2. ASSUME NEW s \in Part(n + 1), s # {}
        PROVE  Pick(s) \in Vocab /\ Rest(s) \in Part(n)
    <3>1. /\ Pick(s) \in Vocab /\ Rest(s) \in SUBSET Vocab /\ Cardinality(s) \in Nat
          /\ Cardinality(Rest(s)) = Cardinality(s) - 1 /\ Cardinality(s) <= n + 1
      BY <2>2, RestSmaller, Zenon
    <3>2. Cardinality(Rest(s)) <= n
      BY <3>1, SMT
    <3> QED
      BY <3>1, <3>2, Zenon
  <2>3. h \in [Part(n + 1) -> Int]
    BY <2>2, SMT
  <2>4. ASSUME NEW s \in Part(n) PROVE s \in Part(n + 1)
    <3>1. Cardinality(s) \in Nat /\ Cardinality(s) <= n
      BY <1>1, Zenon
    <3>2. Cardinality(s) <= n + 1
      BY <3>1, SMT
    <3> QED
      BY <3>2, Zenon
  <2>5. \A s \in Part(n) : h[s] = g[s]
    BY <2>1, <2>4, Zenon
  <2>6. On(n + 1, h)
    BY <2>2, <2>5, Zenon
  <2> QED
    BY <2>3, <2>6, Zenon
<1>4. ASSUME NEW k \in Nat PROVE Has(k)
  <2> HIDE DEF Has
  <2>1. SUFFICES ASSUME Bad # {} PROVE FALSE
    BY Zenon
  <2>2. PICK n \in Bad : \A m \in Bad : n <= m
    BY <2>1, LeastNat, Zenon
  <2>3. n # 0 /\ n \in Nat
    BY <1>2, Zenon
  <2>4. n - 1 \in Nat /\ n - 1 \notin Bad /\ (n - 1) + 1 = n
    BY <2>2, <2>3, SMT
  <2>5. Has((n - 1) + 1)
    BY <2>4, <1>3, Zenon
  <2> QED
    BY <2>4, <2>5, Zenon
<1>5. Part(Cardinality(Vocab)) = SUBSET Vocab
  BY <1>1, FS_Subset, Zenon
<1>6. PICK g \in [SUBSET Vocab -> Int] : On(Cardinality(Vocab), g)
  BY <1>1, <1>4, <1>5, Zenon
<1>7. PartialSums(w, g)
  BY <1>5, <1>6, Zenon DEF PartialSums
<1> QED
  BY <1>7, Zenon

(* Sum(w) is the last of w's partial sums, which are integers. *)
LEMMA SumIsLast ==
  ASSUME IsFiniteSet(Vocab), NEW w \in [Vocab -> Int]
  PROVE  \E g \in [SUBSET Vocab -> Int] :
           /\ Odds!Sum(w) = g[Vocab] /\ g[{}] = 0
           /\ \A s \in SUBSET Vocab : s # {} => g[s] = w[Pick(s)] + g[Rest(s)]
<1> DEFINE g == CHOOSE g : PartialSums(w, g)
<1>1. Odds!Sum(w) = g[Vocab]
  BY Zenon DEF Odds!Sum, Odds!MapThenSumSet, Odds!MapThenFoldSet, PartialSums, Pick, Rest
<1>2. PartialSums(w, g)
  BY PartialSumsExist, Zenon
<1> HIDE DEF g
<1>3. /\ g = [s \in SUBSET Vocab |-> g[s]] /\ g[{}] = 0
      /\ \A s \in SUBSET Vocab : s # {} => g[s] = w[Pick(s)] + g[Rest(s)]
  BY <1>2, Zenon DEF PartialSums
<1>4. \A s \in SUBSET Vocab : g[s] \in Int
  <2> DEFINE T == {s \in SUBSET Vocab : g[s] \in Int}
  <2>1. {} \in T
    BY <1>3
  <2>2. ASSUME NEW s \in SUBSET Vocab, s # {}, Rest(s) \in T PROVE s \in T
    <3>1. Pick(s) \in Vocab /\ g[s] = w[Pick(s)] + g[Rest(s)]
      BY <1>3, <2>2, RestSmaller, Zenon
    <3> QED
      BY <2>2, <3>1
  <2>3. \A s \in SUBSET Vocab : s \in T
    <3> HIDE DEF T
    <3> QED
      BY <2>1, <2>2, FoldInduction, Zenon
  <2> QED
    BY <2>3, Zenon
<1> QED
  BY <1>1, <1>3, <1>4, Zenon

(* The sum of integers is an integer. *)
LEMMA SumInt ==
  ASSUME IsFiniteSet(Vocab), NEW w \in [Vocab -> Int]
  PROVE  Odds!Sum(w) \in Int
<1>1. PICK g \in [SUBSET Vocab -> Int] : Odds!Sum(w) = g[Vocab]
  BY SumIsLast, Zenon
<1> QED
  BY <1>1, Zenon

(* Sum is additive. *)
LEMMA SumAdd ==
  ASSUME IsFiniteSet(Vocab), NEW a \in [Vocab -> Int], NEW b \in [Vocab -> Int],
         NEW c \in [Vocab -> Int], \A t \in Vocab : c[t] = a[t] + b[t]
  PROVE  Odds!Sum(c) = Odds!Sum(a) + Odds!Sum(b)
<1>1. PICK f \in [SUBSET Vocab -> Int] :
           /\ Odds!Sum(a) = f[Vocab] /\ f[{}] = 0
           /\ \A s \in SUBSET Vocab : s # {} => f[s] = a[Pick(s)] + f[Rest(s)]
  BY SumIsLast, Zenon
<1>2. PICK g \in [SUBSET Vocab -> Int] :
           /\ Odds!Sum(b) = g[Vocab] /\ g[{}] = 0
           /\ \A s \in SUBSET Vocab : s # {} => g[s] = b[Pick(s)] + g[Rest(s)]
  BY SumIsLast, Zenon
<1>3. PICK h \in [SUBSET Vocab -> Int] :
           /\ Odds!Sum(c) = h[Vocab] /\ h[{}] = 0
           /\ \A s \in SUBSET Vocab : s # {} => h[s] = c[Pick(s)] + h[Rest(s)]
  BY SumIsLast, Zenon
<1> DEFINE T == {s \in SUBSET Vocab : h[s] = f[s] + g[s]}
<1>4. {} \in T
  BY <1>1, <1>2, <1>3
<1>5. ASSUME NEW s \in SUBSET Vocab, s # {}, Rest(s) \in T PROVE s \in T
  <2>1. Pick(s) \in Vocab /\ Rest(s) \in SUBSET Vocab
    BY <1>5, RestSmaller, Zenon
  <2>2. h[s] = a[Pick(s)] + b[Pick(s)] + f[Rest(s)] + g[Rest(s)]
    BY <1>3, <1>5, <2>1, SMT
  <2>3. f[s] = a[Pick(s)] + f[Rest(s)] /\ g[s] = b[Pick(s)] + g[Rest(s)]
    BY <1>1, <1>2, <1>5, Zenon
  <2> QED
    BY <2>1, <2>2, <2>3, SMT
<1>6. Vocab \in T
  <2> HIDE DEF T
  <2> QED
    BY <1>4, <1>5, FoldInduction, Zenon
<1> QED
  BY <1>1, <1>2, <1>3, <1>6, Zenon

(* A common factor can be taken out. *)
LEMMA SumScale ==
  ASSUME IsFiniteSet(Vocab), NEW k \in Int, NEW a \in [Vocab -> Int],
         NEW c \in [Vocab -> Int], \A t \in Vocab : c[t] = k * a[t]
  PROVE  Odds!Sum(c) = k * Odds!Sum(a)
<1>1. PICK f \in [SUBSET Vocab -> Int] :
           /\ Odds!Sum(a) = f[Vocab] /\ f[{}] = 0
           /\ \A s \in SUBSET Vocab : s # {} => f[s] = a[Pick(s)] + f[Rest(s)]
  BY SumIsLast, Zenon
<1>2. PICK h \in [SUBSET Vocab -> Int] :
           /\ Odds!Sum(c) = h[Vocab] /\ h[{}] = 0
           /\ \A s \in SUBSET Vocab : s # {} => h[s] = c[Pick(s)] + h[Rest(s)]
  BY SumIsLast, Zenon
<1> DEFINE T == {s \in SUBSET Vocab : h[s] = k * f[s]}
<1>3. {} \in T
  BY <1>1, <1>2
<1>4. ASSUME NEW s \in SUBSET Vocab, s # {}, Rest(s) \in T PROVE s \in T
  <2>1. Pick(s) \in Vocab /\ Rest(s) \in SUBSET Vocab
    BY <1>4, RestSmaller, Zenon
  <2>2. h[s] = k * a[Pick(s)] + k * f[Rest(s)]
    BY <1>2, <1>4, <2>1, SMT
  <2>3. f[s] = a[Pick(s)] + f[Rest(s)]
    BY <1>1, <1>4, Zenon
  <2> QED
    BY <2>1, <2>2, <2>3, SMT
<1>5. Vocab \in T
  <2> HIDE DEF T
  <2> QED
    BY <1>3, <1>4, FoldInduction, Zenon
<1> QED
  BY <1>1, <1>2, <1>5, Zenon

(* The sum of weights that are 0 but for one token. *)
LEMMA SumPoint ==
  ASSUME IsFiniteSet(Vocab), NEW d \in Vocab, NEW c \in [Vocab -> Int],
         \A t \in Vocab : t # d => c[t] = 0
  PROVE  Odds!Sum(c) = c[d]
<1>1. PICK h \in [SUBSET Vocab -> Int] :
           /\ Odds!Sum(c) = h[Vocab] /\ h[{}] = 0
           /\ \A s \in SUBSET Vocab : s # {} => h[s] = c[Pick(s)] + h[Rest(s)]
  BY SumIsLast, Zenon
<1> DEFINE T == {s \in SUBSET Vocab : h[s] = IF d \in s THEN c[d] ELSE 0}
<1>2. {} \in T
  BY <1>1, Zenon
<1>3. ASSUME NEW s \in SUBSET Vocab, s # {}, Rest(s) \in T PROVE s \in T
  <2>1. Pick(s) \in Vocab /\ Pick(s) \in s /\ Rest(s) \in SUBSET Vocab
    BY <1>3, RestSmaller, Zenon
  <2>2. h[s] = c[Pick(s)] + h[Rest(s)]
    BY <1>1, <1>3, Zenon
  <2>3. CASE Pick(s) = d
    <3>1. d \notin Rest(s) /\ d \in s /\ h[Rest(s)] = 0
      BY <1>3, <2>1, <2>3, Zenon DEF Rest
    <3> QED
      BY <2>2, <2>3, <3>1, SMT
  <2>4. CASE Pick(s) # d
    <3>1. (d \in Rest(s)) = (d \in s) /\ c[Pick(s)] = 0
      BY <2>1, <2>4 DEF Rest
    <3>2. h[s] = h[Rest(s)]
      BY <2>1, <2>2, <3>1, SMT
    <3> QED
      BY <1>3, <3>1, <3>2, Zenon
  <2> QED
    BY <2>3, <2>4, Zenon
<1>4. Vocab \in T
  <2> HIDE DEF T
  <2> QED
    BY <1>2, <1>3, FoldInduction, Zenon
<1> QED
  BY <1>1, <1>4, Zenon

(* Weights that are nowhere negative add up to 0 only if all are 0. *)
LEMMA SumPositive ==
  ASSUME IsFiniteSet(Vocab), NEW c \in [Vocab -> Int], \A t \in Vocab : c[t] >= 0
  PROVE  /\ Odds!Sum(c) >= 0
         /\ Odds!Sum(c) = 0 => \A t \in Vocab : c[t] = 0
<1>1. PICK h \in [SUBSET Vocab -> Int] :
           /\ Odds!Sum(c) = h[Vocab] /\ h[{}] = 0
           /\ \A s \in SUBSET Vocab : s # {} => h[s] = c[Pick(s)] + h[Rest(s)]
  BY SumIsLast, Zenon
<1> DEFINE T == {s \in SUBSET Vocab : h[s] >= 0 /\ \A t \in s : c[t] <= h[s]}
<1>2. {} \in T
  BY <1>1
<1>3. ASSUME NEW s \in SUBSET Vocab, s # {}, Rest(s) \in T PROVE s \in T
  <2>1. Pick(s) \in Vocab /\ Rest(s) \in SUBSET Vocab
    BY <1>3, RestSmaller, Zenon
  <2>2. h[s] = c[Pick(s)] + h[Rest(s)] /\ c[Pick(s)] >= 0 /\ h[Rest(s)] >= 0
    BY <1>1, <1>3, <2>1, Zenon
  <2>3. ASSUME NEW t \in s PROVE c[t] <= h[s]
    <3>1. CASE t = Pick(s)
      BY <2>1, <2>2, <3>1, SMT
    <3>2. CASE t # Pick(s)
      <4>1. c[t] <= h[Rest(s)]
        BY <1>3, <3>2, Zenon DEF Rest
      <4> QED
        BY <2>1, <2>2, <4>1, SMT
    <3> QED
      BY <3>1, <3>2, Zenon
  <2>4. h[s] >= 0
    BY <2>1, <2>2, SMT
  <2> QED
    BY <2>3, <2>4, Zenon
<1>4. Vocab \in T
  <2> HIDE DEF T
  <2> QED
    BY <1>2, <1>3, FoldInduction, Zenon
<1> QED
  BY <1>1, <1>4, SMT

-----------------------------------------------------------------------------
(* A position of a request without penalties. *)
Position ==
  /\ target \in Odds!Dists /\ draft \in Odds!Dists /\ penalised = {} /\ draft_probs \in BOOLEAN
  /\ ~draft_probs => \E t \in Vocab : draft[t] = Total

(* Without penalties the odds are those of the model. *)
LEMMA NoPenalty ==
  ASSUME Setting, penalised = {}, NEW w \in Odds!Dists
  PROVE  /\ w \in [Vocab -> Int] /\ Odds!Sum(w) = Total /\ \A t \in Vocab : w[t] \in 0 .. Total
         /\ Odds!apply_penalties(w) = [t \in Vocab |-> 2 * w[t]]
         /\ Odds!Sum(Odds!apply_penalties(w)) = 2 * Total
<1>1. w \in [Vocab -> Int] /\ Odds!Sum(w) = Total /\ \A t \in Vocab : w[t] \in 0 .. Total
  BY SMT DEF Odds!Dists, Setting
<1>2. Odds!apply_penalties(w) = [t \in Vocab |-> 2 * w[t]]
  BY Zenon DEF Odds!apply_penalties
<1> DEFINE u == [t \in Vocab |-> 2 * w[t]]
<1>3. u \in [Vocab -> Int] /\ \A t \in Vocab : u[t] = 2 * w[t]
  BY <1>1
<1> HIDE DEF u
<1>4. Odds!Sum(u) = 2 * Odds!Sum(w)
  <2>1. 2 \in Int /\ IsFiniteSet(Vocab)
    BY DEF Setting
  <2> QED
    BY <1>1, <1>3, <2>1, SumScale, Zenon
<1> QED
  BY <1>1, <1>2, <1>4, Zenon DEF u

(* Weights that are a multiple of the target's are distributed as it is. *)
LEMMA Proportional ==
  ASSUME Setting, Position, NEW k \in Int, NEW o \in [Vocab -> Int],
         \A t \in Vocab : o[t] = k * target[t]
  PROVE  \A t \in Vocab : o[t] * Odds!Sum(Odds!target_probs) = Odds!target_probs[t] * Odds!Sum(o)
<1>1. /\ target \in [Vocab -> Int] /\ Odds!Sum(target) = Total
      /\ Odds!target_probs = [t \in Vocab |-> 2 * target[t]] /\ Odds!Sum(Odds!target_probs) = 2 * Total
  BY NoPenalty, Zenon DEF Position, Odds!target_probs
<1>2. Odds!Sum(o) = k * Total
  <2>1. Odds!Sum(o) = k * Odds!Sum(target)
    BY <1>1, SumScale, Zenon DEF Setting
  <2> QED
    BY <1>1, <2>1, Zenon
<1>3. ASSUME NEW a \in Int, NEW n \in Int PROVE (k * a) * (2 * n) = (2 * a) * (k * n)
  BY SMT
<1>4. ASSUME NEW t \in Vocab PROVE o[t] * Odds!Sum(Odds!target_probs) = Odds!target_probs[t] * Odds!Sum(o)
  <2>1. /\ target[t] \in Int /\ Total \in Int /\ o[t] = k * target[t]
        /\ Odds!target_probs[t] = 2 * target[t]
    BY <1>1 DEF Setting
  <2> QED
    BY <1>1, <1>2, <1>3, <2>1
<1> QED
  BY <1>4, Zenon

(* The draft's weight cancels the division in the acceptance test. *)
LEMMA AcceptExact ==
  ASSUME Setting, Position, NEW t \in Vocab
  PROVE  /\ Odds!Accept(t) \in Int
         /\ draft[t] * Odds!Accept(t) = 2 * Total * Scale * Odds!Smaller(draft[t], target[t])
<1>1. /\ target[t] \in 0 .. Total /\ draft[t] \in 0 .. Total
      /\ Odds!target_probs[t] = 2 * target[t] /\ Odds!Sum(Odds!target_probs) = 2 * Total
  BY NoPenalty, Zenon DEF Position, Odds!target_probs
<1>2. Total \in Nat /\ Scale \in Nat
  BY Zenon DEF Setting
<1>3. CASE draft[t] = 0
  <2>1. Odds!Accept(t) = 0 /\ Odds!Smaller(draft[t], target[t]) = 0
    BY <1>1, <1>2, <1>3, SMT DEF Odds!Accept, Odds!compute_probs, Odds!Smaller
  <2> QED
    BY <1>2, <1>3, <2>1, SMT
<1>4. CASE draft[t] # 0
  <2> DEFINE k == Scale \div draft[t]
             m == Odds!Smaller(draft[t], target[t])
  <2>1. draft[t] \in 1 .. Total /\ Scale % draft[t] = 0
    BY <1>1, <1>2, <1>4 DEF Setting
  <2>2. k \in Nat /\ k * draft[t] = Scale
    BY <1>1, <1>2, <2>1, SMT
  <2>3. m \in Nat
    BY <1>1, SMT DEF Odds!Smaller
  <2>4. Odds!Smaller(2 * Total * draft[t], 2 * target[t] * Total) = 2 * Total * m
    BY <1>1, <1>2, SMT DEF Odds!Smaller, Setting
  <2>5. Odds!Accept(t) = 2 * Total * m * k
    BY <1>1, <1>4, <2>4, Zenon DEF Odds!Accept, Odds!compute_probs
  <2> HIDE DEF k, m
  <2>6. draft[t] * Odds!Accept(t) = 2 * Total * m * (k * draft[t])
    BY <1>1, <1>2, <2>2, <2>3, <2>5, SMT
  <2>7. Odds!Accept(t) \in Int
    BY <1>2, <2>2, <2>3, <2>5, SMT
  <2>8. draft[t] * Odds!Accept(t) = 2 * Total * Scale * m
    BY <1>2, <2>2, <2>3, <2>6, SMT
  <2> QED
    BY <2>7, <2>8, Zenon DEF m
<1> QED
  BY <1>3, <1>4, Zenon

(* What token 0 alone weighs. *)
LEMMA UnitSum ==
  ASSUME Setting
  PROVE  LET u == [t \in Vocab |-> IF t = 0 THEN 1 ELSE 0]
         IN  u \in [Vocab -> Int] /\ Odds!Sum(u) = 1
<1> DEFINE u == [t \in Vocab |-> IF t = 0 THEN 1 ELSE 0]
<1>1. u \in [Vocab -> Int] /\ u[0] = 1 /\ \A t \in Vocab : t # 0 => u[t] = 0
  BY DEF Setting
<1>2. IsFiniteSet(Vocab) /\ 0 \in Vocab
  BY Zenon DEF Setting
<1> HIDE DEF u
<1>3. Odds!Sum(u) = u[0]
  BY <1>1, <1>2, SumPoint, Zenon
<1> QED
  BY <1>1, <1>3, Zenon DEF u

(* Where the draft model's odds exceed the target's, by as much in all as    *)
(* the target's exceed the draft model's elsewhere: what is rejected equals  *)
(* what is missing.                                                          *)
LEMMA Excess ==
  ASSUME Setting, Position, NEW e, NEW r,
         e = [t \in Vocab |-> draft[t] - Odds!Smaller(draft[t], target[t])],
         r = [t \in Vocab |-> target[t] - Odds!Smaller(draft[t], target[t])]
  PROVE  /\ e \in [Vocab -> Int] /\ r \in [Vocab -> Int]
         /\ \A t \in Vocab : e[t] >= 0 /\ r[t] >= 0
         /\ Odds!Sum(e) \in Nat /\ Odds!Sum(e) = Odds!Sum(r)
<1> DEFINE m == [t \in Vocab |-> Odds!Smaller(draft[t], target[t])]
<1>1. /\ target \in [Vocab -> Int] /\ Odds!Sum(target) = Total
      /\ draft \in [Vocab -> Int] /\ Odds!Sum(draft) = Total
  BY NoPenalty, Zenon DEF Position
<1>2. /\ m \in [Vocab -> Int] /\ e \in [Vocab -> Int] /\ r \in [Vocab -> Int]
      /\ \A t \in Vocab : e[t] >= 0 /\ r[t] >= 0
      /\ \A t \in Vocab : draft[t] = m[t] + e[t]
      /\ \A t \in Vocab : target[t] = m[t] + r[t]
  BY <1>1, SMT DEF Odds!Smaller
<1>3. IsFiniteSet(Vocab)
  BY Zenon DEF Setting
<1> HIDE DEF m
<1>4. Odds!Sum(draft) = Odds!Sum(m) + Odds!Sum(e)
  BY <1>1, <1>2, <1>3, SumAdd, ZenonT(30)
<1>5. Odds!Sum(target) = Odds!Sum(m) + Odds!Sum(r)
  BY <1>1, <1>2, <1>3, SumAdd, ZenonT(30)
<1>6. Odds!Sum(m) \in Int /\ Odds!Sum(e) \in Int /\ Odds!Sum(r) \in Int
  BY <1>2, <1>3, SumInt, Zenon
<1>7. Odds!Sum(e) >= 0
  BY <1>2, <1>3, SumPositive, Zenon
<1>8. Odds!Sum(e) = Odds!Sum(r)
  <2>1. Odds!Sum(m) + Odds!Sum(e) = Odds!Sum(m) + Odds!Sum(r)
    BY <1>1, <1>4, <1>5, Zenon
  <2>2. \A x, y, z \in Int : x + y = x + z => y = z
    BY SMT
  <2> QED
    BY <1>6, <2>1, <2>2, Zenon
<1> QED
  BY <1>2, <1>6, <1>7, <1>8

(* A draft with probabilities: accepted, or replaced by a token drawn from   *)
(* the residual, every token comes out in proportion to its target weight.   *)
LEMMA VerifyProportional ==
  ASSUME Setting, Position, draft_probs = TRUE, Odds!Verify
  PROVE  out' \in [Vocab -> Int] /\ \E k \in Int : \A t \in Vocab : out'[t] = k * target[t]
<1> DEFINE e == [t \in Vocab |-> draft[t] - Odds!Smaller(draft[t], target[t])]
           r == [t \in Vocab |-> target[t] - Odds!Smaller(draft[t], target[t])]
           D == Odds!Sum(e)
           c == 4 * Total * Scale
           f == [d \in Vocab |-> Odds!Proposed[d] * (Odds!Unit - Odds!Accept(d))]
           prob == [t \in Vocab |->
                      Odds!Larger(Odds!target_probs[t] * Total - Odds!compute_probs[t] * Odds!Sum(Odds!target_probs), 0)]
           u == [t \in Vocab |-> IF t = 0 THEN 1 ELSE 0]
           res == IF Odds!Sum(prob) = 0 THEN u ELSE prob
<1>1. /\ e \in [Vocab -> Int] /\ r \in [Vocab -> Int] /\ \A t \in Vocab : e[t] >= 0 /\ r[t] >= 0
      /\ D \in Nat /\ D = Odds!Sum(r)
  BY Excess, Zenon
<1>2. /\ target \in [Vocab -> Int] /\ Odds!target_probs = [t \in Vocab |-> 2 * target[t]]
      /\ draft \in [Vocab -> Int] /\ Odds!Proposed = [t \in Vocab |-> 2 * draft[t]]
      /\ Odds!Sum(Odds!target_probs) = 2 * Total
      /\ \A t \in Vocab : target[t] \in 0 .. Total /\ draft[t] \in 0 .. Total
  BY NoPenalty, Zenon DEF Position, Odds!target_probs, Odds!Proposed
<1>3. /\ IsFiniteSet(Vocab) /\ Total \in Nat \ {0} /\ Scale \in Nat
      /\ c \in Int /\ 2 * Total \in Int /\ Odds!Unit = 2 * Total * Scale
  BY <1>2, SMT DEF Setting, Odds!Unit
<1>4. ASSUME NEW t \in Vocab
      PROVE  /\ Odds!Accept(t) \in Int
             /\ Odds!Proposed[t] * Odds!Accept(t) = c * (target[t] - r[t])
             /\ f[t] = c * e[t]
             /\ prob[t] = (2 * Total) * r[t]
  <2> DEFINE m == Odds!Smaller(draft[t], target[t])
  <2>1. Odds!Accept(t) \in Int /\ draft[t] * Odds!Accept(t) = 2 * Total * Scale * m
    BY AcceptExact, Zenon
  <2>2. draft[t] \in Nat /\ target[t] \in Nat /\ m \in Nat
    BY <1>2, SMT DEF Odds!Smaller
  <2>3. r[t] = target[t] - m /\ e[t] = draft[t] - m /\ Odds!Proposed[t] = 2 * draft[t]
    BY <1>2, Zenon
  <2>4. prob[t] = (2 * Total) * r[t]
    <3>1. prob[t] = Odds!Larger((2 * target[t]) * Total - draft[t] * (2 * Total), 0)
      BY <1>2, Zenon DEF Odds!compute_probs
    <3>2. (2 * target[t]) * Total - draft[t] * (2 * Total) = (2 * Total) * (target[t] - draft[t])
      BY <1>3, <2>2, SMT
    <3>3. target[t] - draft[t] >= 0 => m = draft[t]
      BY <2>2, SMT DEF Odds!Smaller
    <3>4. ~(target[t] - draft[t] >= 0) => m = target[t]
      BY <2>2, SMT DEF Odds!Smaller
    <3> HIDE DEF m
    <3>5. ASSUME NEW a \in Int, a >= 0 PROVE Odds!Larger((2 * Total) * a, 0) = (2 * Total) * a
      BY <1>3, <3>5, SMT DEF Odds!Larger
    <3>6. ASSUME NEW a \in Int, ~(a >= 0) PROVE Odds!Larger((2 * Total) * a, 0) = 0
      BY <1>3, <3>6, SMT DEF Odds!Larger
    <3>7. (2 * Total) * 0 = 0 /\ target[t] - draft[t] \in Int
      BY <1>3, <2>2, SMT
    <3>8. CASE target[t] - draft[t] >= 0
      BY <2>3, <3>1, <3>2, <3>3, <3>5, <3>7, <3>8, Zenon
    <3>9. CASE ~(target[t] - draft[t] >= 0)
      <4>1. r[t] = 0
        BY <2>2, <2>3, <3>4, <3>9, SMT
      <4> QED
        BY <3>1, <3>2, <3>6, <3>7, <3>9, <4>1, Zenon
    <3> QED
      BY <3>8, <3>9, Zenon
  <2> HIDE DEF m, e, r, prob
  <2>5. Odds!Proposed[t] * Odds!Accept(t) = c * m
    <3>1. Odds!Proposed[t] * Odds!Accept(t) = 2 * (draft[t] * Odds!Accept(t))
      BY <2>1, <2>2, <2>3, SMT
    <3>2. 2 * (2 * Total * Scale * m) = c * m
      BY <1>3, <2>2, SMT
    <3> QED
      BY <2>1, <3>1, <3>2, Zenon
  <2>6. f[t] = Odds!Proposed[t] * Odds!Unit - Odds!Proposed[t] * Odds!Accept(t)
    <3>1. f[t] = Odds!Proposed[t] * (Odds!Unit - Odds!Accept(t))
      BY Zenon
    <3>2. Odds!Proposed[t] \in Int /\ Odds!Unit \in Int
      BY <1>3, <2>2, <2>3, SMT
    <3> QED
      BY <2>1, <3>1, <3>2, SMT
  <2>7. Odds!Proposed[t] * Odds!Unit = c * draft[t]
    BY <1>3, <2>2, <2>3, SMT
  <2>8. f[t] = c * e[t]
    <3>1. c * draft[t] - c * m = c * (draft[t] - m)
      BY <1>3, <2>2, SMT
    <3> QED
      BY <2>3, <2>5, <2>6, <2>7, <3>1, Zenon
  <2>9. target[t] - r[t] = m
    BY <2>2, <2>3, SMT
  <2> QED
    BY <2>1, <2>4, <2>5, <2>8, <2>9, Zenon
<1>5. f \in [Vocab -> Int] /\ prob \in [Vocab -> Int]
  <2>1. \A t \in Vocab : c * e[t] \in Int /\ (2 * Total) * r[t] \in Int
    BY <1>1, <1>3, SMT
  <2> HIDE DEF e, r, c
  <2>2. \A t \in Vocab : f[t] \in Int /\ prob[t] \in Int
    BY <1>4, <2>1, Zenon
  <2> QED
    BY <2>2, Zenon
<1>6. Odds!Sum(f) = c * D /\ Odds!Sum(prob) = (2 * Total) * D
  <2> HIDE DEF e, r, c, f, prob, D
  <2>1. Odds!Sum(f) = c * Odds!Sum(e)
    BY <1>1, <1>3, <1>4, <1>5, SumScale, ZenonT(30)
  <2>2. Odds!Sum(prob) = (2 * Total) * Odds!Sum(r)
    BY <1>1, <1>3, <1>4, <1>5, SumScale, ZenonT(30)
  <2> QED
    BY <1>1, <2>1, <2>2, Zenon DEF D
<1>7. \A d : Odds!Residual(d) = res
  BY Zenon DEF Odds!Residual
<1>8. out' = [t \in Vocab |-> Odds!Proposed[t] * Odds!Accept(t) * Odds!Sum(res) + Odds!Sum(f) * res[t]]
  BY <1>7, Zenon DEF Odds!Verify
<1>9. u \in [Vocab -> Int] /\ Odds!Sum(u) = 1
  BY UnitSum, Zenon
<1>10. CASE D = 0
  <2>1. Odds!Sum(prob) = 0 /\ Odds!Sum(f) = 0
    BY <1>3, <1>6, <1>10, SMT
  <2>2. \A t \in Vocab : r[t] = 0
    <3> HIDE DEF r, e, D
    <3> QED
      BY <1>1, <1>3, <1>10, SumPositive, Zenon
  <2>3. ASSUME NEW t \in Vocab PROVE out'[t] = c * target[t]
    <3>1. out'[t] = (c * (target[t] - r[t])) * 1 + 0 * u[t] /\ u[t] \in Int /\ target[t] \in Int
      BY <1>2, <1>4, <1>8, <1>9, <2>1, Zenon
    <3> HIDE DEF r, u, c
    <3> QED
      BY <1>3, <2>2, <3>1, SMT
  <2>4. c \in Int /\ \A t \in Vocab : c * target[t] \in Int
    BY <1>2, <1>3, SMT
  <2>5. out' \in [Vocab -> Int]
    <3>1. \A t \in Vocab : out'[t] \in Int
      BY <2>3, <2>4, Zenon
    <3> QED
      BY <1>8, <3>1, Zenon
  <2> QED
    BY <2>3, <2>4, <2>5, Zenon
<1>11. CASE D # 0
  <2> DEFINE k == c * ((2 * Total) * D)
  <2>1. Odds!Sum(prob) # 0
    BY <1>1, <1>3, <1>6, <1>11, SMT
  <2>2. ASSUME NEW t \in Vocab PROVE out'[t] = k * target[t]
    <3>1. target[t] \in Int /\ r[t] \in Int /\ D \in Int
      BY <1>1, <1>2
    <3> HIDE DEF e, r, c, f, D, prob, k
    <3>3. out'[t] = Odds!Proposed[t] * Odds!Accept(t) * Odds!Sum(prob) + Odds!Sum(f) * prob[t]
      BY <1>8, <2>1, Zenon
    <3>4. out'[t] = (c * (target[t] - r[t])) * ((2 * Total) * D) + (c * D) * ((2 * Total) * r[t])
      BY <1>4, <1>6, <3>3, Zenon
    <3>2. ASSUME NEW x \in Int, NEW a \in Int, NEW b \in Int, NEW z \in Int
          PROVE  \A y \in Int : (x * (a - b)) * (y * z) + (x * z) * (y * b) = (x * (y * z)) * a
      BY SMT
    <3>6. \A y \in Int : (c * (target[t] - r[t])) * (y * D) + (c * D) * (y * r[t])
            = (c * (y * D)) * target[t]
      BY <1>3, <3>1, <3>2
    <3>5. (c * (target[t] - r[t])) * ((2 * Total) * D) + (c * D) * ((2 * Total) * r[t])
            = (c * ((2 * Total) * D)) * target[t]
      BY <1>3, <3>6, Zenon
    <3> QED
      BY <3>4, <3>5, Zenon DEF k
  <2>3. k \in Int /\ \A t \in Vocab : k * target[t] \in Int
    <3> HIDE DEF c, D
    <3>1. k \in Int
      <4>1. (2 * Total) * D \in Int
        BY <1>1, <1>3, SMT
      <4> QED
        BY <1>3, <4>1, SMT
    <3> HIDE DEF k
    <3> QED
      BY <1>2, <3>1, SMT
  <2> HIDE DEF k
  <2>4. out' \in [Vocab -> Int]
    <3>1. \A t \in Vocab : out'[t] \in Int
      BY <2>2, <2>3, Zenon
    <3> QED
      BY <1>8, <3>1, Zenon
  <2> QED
    BY <2>2, <2>3, <2>4, Zenon
<1> QED
  BY <1>10, <1>11, Zenon

(* A draft without probabilities, of a proposer that proposes one token.     *)
LEMMA VerifyOneProportional ==
  ASSUME Setting, Position, draft_probs = FALSE, Odds!Verify
  PROVE  out' \in [Vocab -> Int] /\ \E k \in Int : \A t \in Vocab : out'[t] = k * target[t]
<1>1. PICK d \in Vocab : draft[d] = Total
  BY Zenon DEF Position
<1>2. /\ target \in [Vocab -> Int] /\ Odds!target_probs = [t \in Vocab |-> 2 * target[t]]
      /\ draft \in [Vocab -> Int] /\ Odds!Proposed = draft
      /\ Odds!Sum(target) = Total /\ Odds!Sum(draft) = Total /\ Odds!Sum(Odds!target_probs) = 2 * Total
      /\ \A t \in Vocab : target[t] \in 0 .. Total /\ draft[t] \in 0 .. Total
  BY NoPenalty, Zenon DEF Position, Odds!target_probs, Odds!Proposed
<1>3. /\ IsFiniteSet(Vocab) /\ Total \in Nat \ {0} /\ Scale \in Nat
      /\ Odds!Unit = 2 * Total * Scale
  BY <1>2, SMT DEF Setting, Odds!Unit
<1>4. ASSUME NEW w \in [Vocab -> Int], \A t \in Vocab : w[t] >= 0, Odds!Sum(w) = w[d]
      PROVE  \A t \in Vocab : t # d => w[t] = 0
  <2> DEFINE a == [t \in Vocab |-> IF t = d THEN w[d] ELSE 0]
             b == [t \in Vocab |-> IF t = d THEN 0 ELSE w[t]]
  <2>1. /\ a \in [Vocab -> Int] /\ b \in [Vocab -> Int] /\ a[d] = w[d]
        /\ \A t \in Vocab : t # d => a[t] = 0
        /\ \A t \in Vocab : b[t] >= 0
        /\ \A t \in Vocab : w[t] = a[t] + b[t]
    BY <1>1, <1>4, SMT
  <2>2. \A t \in Vocab : t # d => b[t] = w[t]
    BY Zenon
  <2> HIDE DEF a, b
  <2>3. Odds!Sum(a) = w[d]
    BY <1>1, <1>3, <2>1, SumPoint, Zenon
  <2>4. Odds!Sum(w) = Odds!Sum(a) + Odds!Sum(b)
    BY <1>3, <1>4, <2>1, SumAdd, Zenon
  <2>5. Odds!Sum(b) \in Int /\ w[d] \in Int
    BY <1>1, <1>3, <2>1, SumInt, Zenon
  <2>6. \A x, y \in Int : x = x + y => y = 0
    BY SMT
  <2>7. Odds!Sum(b) = 0
    BY <1>4, <2>3, <2>4, <2>5, <2>6, Zenon
  <2> QED
    BY <1>3, <2>1, <2>2, <2>7, SumPositive, Zenon
<1>5. \A t \in Vocab : t # d => draft[t] = 0
  BY <1>1, <1>2, <1>4
<1>6. (CHOOSE x \in Odds!Drafts : TRUE) = d
  <2>1. Odds!Drafts = {d}
    BY <1>1, <1>2, <1>3, <1>5, SMT DEF Odds!Drafts
  <2> QED
    BY <2>1, Zenon
<1> DEFINE p == target[d]
           c == 2 * Total * Scale
           f == [t \in Vocab |-> Odds!Proposed[t] * (Odds!Unit - Odds!Accept(t))]
           prob == [t \in Vocab |-> IF t = d THEN 0 ELSE Odds!target_probs[t]]
           u == [t \in Vocab |-> IF t = 0 THEN 1 ELSE 0]
           res == IF Odds!Sum(prob) = 0 THEN u ELSE prob
<1>7. p \in 0 .. Total /\ c \in Int /\ Odds!Unit = c
  BY <1>1, <1>2, <1>3, SMT
<1>8. Odds!Accept(d) \in Int /\ Odds!Proposed[d] * Odds!Accept(d) = c * p
  <2>1. Odds!Accept(d) \in Int /\ draft[d] * Odds!Accept(d) = 2 * Total * Scale * Odds!Smaller(draft[d], target[d])
    BY <1>1, AcceptExact, Zenon
  <2>2. Odds!Smaller(draft[d], target[d]) = p
    BY <1>1, <1>2, <1>3, SMT DEF Odds!Smaller
  <2> QED
    BY <1>2, <2>1, <2>2, Zenon
<1>9. \A t \in Vocab : t # d => Odds!Proposed[t] = 0 /\ Odds!Accept(t) \in Int /\ Odds!Proposed[t] * Odds!Accept(t) = 0
  <2>1. \A t \in Vocab : Odds!Accept(t) \in Int
    BY AcceptExact, Zenon
  <2> QED
    BY <1>2, <1>5, <2>1, SMT
<1>10. f \in [Vocab -> Int] /\ Odds!Sum(f) = c * (Total - p)
  <2>1. \A t \in Vocab : t # d => f[t] = 0
    <3>1. \A x \in Int : 0 * x = 0
      BY SMT
    <3> QED
      BY <1>7, <1>9, <3>1, SMT
  <2>2. f[d] = c * (Total - p)
    <3>1. f[d] = Odds!Proposed[d] * (c - Odds!Accept(d)) /\ Odds!Proposed[d] = Total
      BY <1>1, <1>2, <1>7, Zenon
    <3> HIDE DEF c, p, f
    <3>2. Total * (c - Odds!Accept(d)) = Total * c - Total * Odds!Accept(d)
      <4>1. \A x, y, z \in Int : x * (y - z) = x * y - x * z
        BY SMT
      <4>2. Total \in Int
        BY <1>3
      <4> QED
        BY <1>7, <1>8, <4>1, <4>2, Zenon
    <3>3. Total * c - c * p = c * (Total - p)
      BY <1>3, <1>7, SMT
    <3> QED
      BY <1>8, <3>1, <3>2, <3>3, Zenon
  <2>3. c * (Total - p) \in Int
    <3> HIDE DEF c, p
    <3> QED
      BY <1>3, <1>7, SMT
  <2>4. f \in [Vocab -> Int]
    <3>1. \A t \in Vocab : f[t] \in Int
      BY <2>1, <2>2, <2>3
    <3> QED
      BY <3>1, Zenon
  <2> HIDE DEF f, c, p
  <2> QED
    BY <1>1, <1>3, <2>1, <2>2, <2>4, SumPoint, Zenon
<1>11. prob \in [Vocab -> Int] /\ Odds!Sum(prob) = 2 * (Total - p)
  <2> DEFINE a == [t \in Vocab |-> IF t = d THEN 2 * p ELSE 0]
  <2>1. /\ a \in [Vocab -> Int] /\ prob \in [Vocab -> Int] /\ Odds!target_probs \in [Vocab -> Int]
        /\ a[d] = 2 * p /\ \A t \in Vocab : t # d => a[t] = 0
        /\ \A t \in Vocab : Odds!target_probs[t] = a[t] + prob[t]
    BY <1>1, <1>2, SMT
  <2> HIDE DEF a, prob, p
  <2>2. Odds!Sum(a) = 2 * p
    BY <1>1, <1>3, <2>1, SumPoint, Zenon
  <2>3. Odds!Sum(Odds!target_probs) = Odds!Sum(a) + Odds!Sum(prob)
    BY <1>3, <2>1, SumAdd, Zenon
  <2>4. Odds!Sum(prob) \in Int
    BY <1>3, <2>1, SumInt, Zenon
  <2>5. 2 * Total = 2 * p + Odds!Sum(prob)
    BY <1>2, <2>2, <2>3, Zenon
  <2> QED
    BY <1>3, <1>7, <2>1, <2>4, <2>5, SMT
<1>12. Odds!Residual(d) = res
  BY Zenon DEF Odds!Residual
<1>13. out' = [t \in Vocab |-> Odds!Proposed[t] * Odds!Accept(t) * Odds!Sum(res) + Odds!Sum(f) * res[t]]
  <2> HIDE DEF f, res
  <2>1. out' = [t \in Vocab |-> Odds!Proposed[t] * Odds!Accept(t) * Odds!Sum(Odds!Residual(CHOOSE x \in Odds!Drafts : TRUE))
                                + Odds!Sum(f) * Odds!Residual(CHOOSE x \in Odds!Drafts : TRUE)[t]]
    BY Zenon DEF Odds!Verify, f
  <2>2. out' = [t \in Vocab |-> Odds!Proposed[t] * Odds!Accept(t) * Odds!Sum(Odds!Residual(d))
                                + Odds!Sum(f) * Odds!Residual(d)[t]]
    BY <1>6, <2>1
  <2> QED
    BY <1>12, <2>2, Zenon
<1>14. u \in [Vocab -> Int] /\ Odds!Sum(u) = 1
  BY UnitSum, Zenon
<1>15. CASE p = Total
  <2>1. Odds!Sum(prob) = 0 /\ Odds!Sum(f) = 0
    BY <1>3, <1>7, <1>10, <1>11, <1>15, SMT
  <2>2. \A t \in Vocab : t # d => target[t] = 0
    BY <1>2, <1>4, <1>15
  <2>3. ASSUME NEW t \in Vocab PROVE out'[t] = c * target[t]
    <3>1. out'[t] = Odds!Proposed[t] * Odds!Accept(t) * 1 + 0 * u[t] /\ u[t] \in Int
      BY <1>13, <1>14, <2>1, Zenon
    <3>2. Odds!Proposed[t] * Odds!Accept(t) = c * target[t]
      <4>1. c * 0 = 0
        BY <1>7, SMT
      <4> QED
        BY <1>8, <1>9, <2>2, <4>1, Zenon
    <3>3. c * target[t] \in Int
      BY <1>2, <1>7, SMT
    <3>4. \A x, y \in Int : x * 1 + 0 * y = x
      BY SMT
    <3> QED
      BY <3>1, <3>2, <3>3, <3>4, Zenon
  <2>4. \A t \in Vocab : c * target[t] \in Int
    BY <1>2, <1>7, SMT
  <2>5. out' \in [Vocab -> Int]
    <3>1. \A t \in Vocab : out'[t] \in Int
      BY <2>3, <2>4, Zenon
    <3> QED
      BY <1>13, <3>1, Zenon
  <2> QED
    BY <1>7, <2>3, <2>5, Zenon
<1>16. CASE p # Total
  <2> DEFINE k == c * (2 * (Total - p))
  <2>1. Odds!Sum(prob) # 0
    BY <1>3, <1>7, <1>11, <1>16, SMT
  <2>2. Total - p \in Int /\ 2 * (Total - p) \in Int /\ \A t \in Vocab : target[t] \in Int
    BY <1>2, <1>3, <1>7, SMT
  <2>3. k \in Int
    <3> HIDE DEF c, p
    <3> QED
      BY <1>7, <2>2, SMT
  <2>4. ASSUME NEW t \in Vocab PROVE out'[t] = k * target[t]
    <3>1. out'[t] = Odds!Proposed[t] * Odds!Accept(t) * (2 * (Total - p)) + (c * (Total - p)) * prob[t]
      BY <1>10, <1>11, <1>13, <2>1, Zenon
    <3>2. CASE t = d
      <4>1. prob[t] = 0 /\ target[t] = p
        BY <3>2, Zenon
      <4> HIDE DEF c, p, prob
      <4>2. out'[t] = (c * p) * (2 * (Total - p)) + (c * (Total - p)) * 0
        BY <1>8, <3>1, <3>2, <4>1, Zenon
      <4>3. \A x, y, z \in Int : (x * y) * (2 * z) + (x * z) * 0 = (x * (2 * z)) * y
        BY SMT
      <4>4. p \in Int
        BY <1>7
      <4>5. (c * p) * (2 * (Total - p)) + (c * (Total - p)) * 0 = (c * (2 * (Total - p))) * p
        BY <1>7, <2>2, <4>3, <4>4, Zenon
      <4> QED
        BY <4>1, <4>2, <4>5, Zenon DEF k
    <3>3. CASE t # d
      <4>1. prob[t] = 2 * target[t] /\ target[t] \in Int
        BY <1>2, <3>3, Zenon
      <4> HIDE DEF c, p, prob
      <4>2. out'[t] = 0 * (2 * (Total - p)) + (c * (Total - p)) * (2 * target[t])
        BY <1>9, <3>1, <3>3, <4>1, Zenon
      <4>3. \A x, y, z \in Int : 0 * (2 * z) + (x * z) * (2 * y) = (x * (2 * z)) * y
        BY SMT
      <4> QED
        BY <1>7, <2>2, <4>1, <4>2, <4>3, ZenonT(30) DEF k
    <3> QED
      BY <3>2, <3>3, Zenon
  <2> HIDE DEF k
  <2>5. \A t \in Vocab : k * target[t] \in Int
    BY <2>2, <2>3, SMT
  <2>6. out' \in [Vocab -> Int]
    <3>1. \A t \in Vocab : out'[t] \in Int
      BY <2>4, <2>5, Zenon
    <3> QED
      BY <1>13, <3>1, Zenon
  <2> QED
    BY <2>3, <2>4, <2>6, Zenon
<1> QED
  BY <1>15, <1>16, Zenon

-----------------------------------------------------------------------------
(* Verifying one position of a request without penalties emits every token   *)
(* exactly as often as sampling from the target model would, for every       *)
(* vocabulary and every target and draft distribution: speculation with      *)
(* rejection_random_sample_kernel and sample_recovered_tokens_kernel is      *)
(* lossless, with draft probabilities and without.                           *)
THEOREM SpeculationIsLossless ==
  ASSUME Setting, Penalties = FALSE
  PROVE  Odds!Spec => []Odds!EmitsTarget
<1> DEFINE Emitted == Position /\ Odds!EmitsTarget
<1>1. Odds!Init => Emitted
  BY Zenon DEF Odds!Init, Position, Odds!EmitsTarget
<1>2. Emitted /\ [Odds!Next]_(Odds!vars) => Emitted'
  <2> SUFFICES ASSUME Emitted, [Odds!Next]_(Odds!vars) PROVE Emitted'
    BY Zenon
  <2>1. CASE UNCHANGED Odds!vars
    BY <2>1, Zenon DEF Odds!vars, Position, Odds!EmitsTarget, Odds!target_probs, Odds!apply_penalties
  <2>2. CASE Odds!Verify
    <3>1. PICK k \in Int : out' \in [Vocab -> Int] /\ \A t \in Vocab : out'[t] = k * target[t]
      BY <2>2, VerifyProportional, VerifyOneProportional, Zenon DEF Position
    <3>2. \A t \in Vocab : out'[t] * Odds!Sum(Odds!target_probs) = Odds!target_probs[t] * Odds!Sum(out')
      BY <3>1, Proportional, Zenon
    <3>3. Odds!target_probs' = Odds!target_probs /\ Position'
      BY <2>2, Zenon DEF Odds!Verify, Odds!target_probs, Odds!apply_penalties, Position
    <3>4. Odds!Sum(Odds!target_probs)' = Odds!Sum(Odds!target_probs) /\ Odds!Sum(out)' = Odds!Sum(out')
      BY <3>3, Zenon
    <3>5. Odds!EmitsTarget'
      BY <3>2, <3>3, <3>4, Zenon DEF Odds!EmitsTarget
    <3> QED
      BY <3>3, <3>5, Zenon
  <2> QED
    BY <2>1, <2>2, Zenon DEF Odds!Next
<1> QED
  BY <1>1, <1>2, PTL DEF Odds!Spec
=============================================================================
