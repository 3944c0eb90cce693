---------------------------- MODULE ShmRingBuffer ----------------------------
(***************************************************************************)
(* The shared-memory ring of MessageQueue (shm_broadcast.py): one writer   *)
(* process and a few local reader processes, with no lock.  Every chunk    *)
(* has a written flag and one read flag per reader, and every access to a  *)
(* flag or to the payload is a step of its own; memory_fence() makes the   *)
(* steps take effect in program order.  The payload of a chunk is the lap  *)
(* in which it was written, and the lap counters are there to tell the     *)
(* messages apart: the program keeps only the chunk indices.               *)
(***************************************************************************)
EXTENDS Integers

CONSTANTS
  Readers,
  MaxChunks,
  MaxLaps,     \* bound: laps of the ring the writer makes
  MaxFaults    \* bound: exceptions raised by the code that uses a chunk

ASSUME RingAssumption == MaxChunks \in Nat \ {0} /\ MaxLaps \in Nat /\ MaxFaults \in Nat

Chunks == 0..(MaxChunks - 1)
Torn == -1

VARIABLES
  written,   \* written_flag of each chunk
  read,      \* read[c][r]: reader r's flag of chunk c
  data,      \* payload of each chunk
  wpc, widx, wlap,   \* the writer: next step, current_idx, laps so far
  scanned, seen,     \* the writer's sum over the read flags, as it goes
  rpc, ridx, rlap,   \* per reader
  rflag,     \* per reader: the read_flag it loaded
  buf,       \* per reader: what it copied out of the chunk
  taken,     \* per reader: the last message it returned, as <<lap, chunk>>
  faults

wvars == <<wpc, widx, wlap, scanned, seen>>
rvars == <<rpc, ridx, rlap, rflag, buf, taken>>
vars == <<written, read, data, wvars, rvars, faults>>

Init ==
  /\ written = [c \in Chunks |-> 0]
  /\ read = [c \in Chunks |-> [r \in Readers |-> 0]]
  /\ data = [c \in Chunks |-> Torn]
  /\ wpc = "idle" /\ widx = 0 /\ wlap = 0 /\ scanned = {} /\ seen = {}
  /\ rpc = [r \in Readers |-> "idle"]
  /\ ridx = [r \in Readers |-> 0]
  /\ rlap = [r \in Readers |-> 0]
  /\ rflag = [r \in Readers |-> 0]
  /\ buf = [r \in Readers |-> Torn]
  /\ taken = [r \in Readers |-> <<0, -1>>]
  /\ faults = 0

(***************************************************************************)
(* The writer: acquire_write.                                              *)
(***************************************************************************)
WriteCall ==
  /\ wpc = "idle"
  /\ wlap < MaxLaps
  /\ wpc' = "scan"
  /\ scanned' = {} /\ seen' = {}
  /\ UNCHANGED <<written, read, data, widx, wlap, rvars, faults>>

\* sum(metadata_buffer[1:]), one flag at a time.
Scan(r) ==
  /\ wpc = "scan"
  /\ r \notin scanned
  /\ scanned' = scanned \cup {r}
  /\ seen' = IF read[widx][r] = 1 THEN seen \cup {r} ELSE seen
  /\ UNCHANGED <<written, read, data, wpc, widx, wlap, rvars, faults>>

\* Spin, or time out, while the chunk is written and not read by all.
ScanAgain ==
  /\ wpc = "scan" /\ scanned = Readers
  /\ written[widx] = 1 /\ seen # Readers
  /\ wpc' \in {"scan", "idle"}
  /\ scanned' = {} /\ seen' = {}
  /\ UNCHANGED <<written, read, data, widx, wlap, rvars, faults>>

AcquireWrite ==
  /\ wpc = "scan" /\ scanned = Readers
  /\ written[widx] = 0 \/ seen = Readers
  /\ written' = [written EXCEPT ![widx] = 0]
  /\ wpc' = "write"
  /\ UNCHANGED <<read, data, widx, wlap, scanned, seen, rvars, faults>>

BeginPayload ==
  /\ wpc = "write"
  /\ data' = [data EXCEPT ![widx] = Torn]
  /\ wpc' = "writing"
  /\ UNCHANGED <<written, read, widx, wlap, scanned, seen, rvars, faults>>

EndPayload ==
  /\ wpc = "writing"
  /\ data' = [data EXCEPT ![widx] = wlap]
  /\ wpc' = "reset"
  /\ scanned' = {}
  /\ UNCHANGED <<written, read, widx, wlap, seen, rvars, faults>>

\* An exception inside the with block leaves the chunk unwritten.
WriteFails ==
  /\ wpc = "writing"
  /\ faults < MaxFaults
  /\ faults' = faults + 1
  /\ wpc' = "idle"
  /\ UNCHANGED <<written, read, data, widx, wlap, scanned, seen, rvars>>

ResetFlag(r) ==
  /\ wpc = "reset"
  /\ r \notin scanned
  /\ read' = [read EXCEPT ![widx][r] = 0]
  /\ scanned' = scanned \cup {r}
  /\ UNCHANGED <<written, data, wpc, widx, wlap, seen, rvars, faults>>

PublishMutant ==
  /\ wpc = "reset"
  /\ written' = [written EXCEPT ![widx] = 1]
  /\ wpc' = "idle"
  /\ widx' = (widx + 1) % MaxChunks
  /\ wlap' = IF widx' = 0 THEN wlap + 1 ELSE wlap
  /\ UNCHANGED <<read, data, scanned, seen, rvars, faults>>
Publish ==
  /\ wpc = "reset" /\ scanned = Readers
  /\ written' = [written EXCEPT ![widx] = 1]
  /\ wpc' = "idle"
  /\ widx' = (widx + 1) % MaxChunks
  /\ wlap' = IF widx' = 0 THEN wlap + 1 ELSE wlap
  /\ UNCHANGED <<read, data, scanned, seen, rvars, faults>>

Writer ==
  \/ \E r \in Readers : Scan(r) \/ ResetFlag(r)
  \/ ScanAgain \/ AcquireWrite \/ BeginPayload \/ EndPayload \/ Publish

(***************************************************************************)
(* A reader: acquire_read, called again and again.                         *)
(***************************************************************************)
LoadReadFlag(r) ==
  /\ rpc[r] = "idle"
  /\ rflag' = [rflag EXCEPT ![r] = read[ridx[r]][r]]
  /\ rpc' = [rpc EXCEPT ![r] = "loaded"]
  /\ UNCHANGED <<written, read, data, wvars, ridx, rlap, buf, taken, faults>>

\* Spin, time out or be cancelled, or go on to the payload.
LoadWrittenFlag(r) ==
  /\ rpc[r] = "loaded"
  /\ rpc' = [rpc EXCEPT ![r] =
               IF written[ridx[r]] = 0 \/ rflag[r] = 1 THEN "idle" ELSE "read"]
  /\ UNCHANGED <<written, read, data, wvars, ridx, rlap, rflag, buf, taken, faults>>

CopyPayload(r) ==
  /\ rpc[r] = "read"
  /\ buf' = [buf EXCEPT ![r] = data[ridx[r]]]
  /\ rpc' = [rpc EXCEPT ![r] = "reading"]
  /\ UNCHANGED <<written, read, data, wvars, ridx, rlap, rflag, taken, faults>>

ReadFailsMutant(r) ==
  /\ rpc[r] = "reading"
  /\ faults < MaxFaults
  /\ faults' = faults + 1
  /\ ridx' = [ridx EXCEPT ![r] = (@ + 1) % MaxChunks]
  /\ rlap' = [rlap EXCEPT ![r] = IF ridx'[r] = 0 THEN @ + 1 ELSE @]
  /\ read' = [read EXCEPT ![ridx[r]][r] = 1]
  /\ rpc' = [rpc EXCEPT ![r] = "idle"]
  /\ UNCHANGED <<written, data, wvars, rflag, buf, taken>>
\* An exception inside the with block: the chunk stays unread.
ReadFails(r) ==
  /\ rpc[r] = "reading"
  /\ faults < MaxFaults
  /\ faults' = faults + 1
  /\ rpc' = [rpc EXCEPT ![r] = "idle"]
  /\ UNCHANGED <<written, read, data, wvars, ridx, rlap, rflag, buf, taken>>

MarkRead(r) ==
  /\ rpc[r] = "reading"
  /\ read' = [read EXCEPT ![ridx[r]][r] = 1]
  /\ taken' = [taken EXCEPT ![r] = <<buf[r], ridx[r]>>]
  /\ ridx' = [ridx EXCEPT ![r] = (@ + 1) % MaxChunks]
  /\ rlap' = [rlap EXCEPT ![r] = IF ridx'[r] = 0 THEN @ + 1 ELSE @]
  /\ rpc' = [rpc EXCEPT ![r] = "idle"]
  /\ UNCHANGED <<written, data, wvars, rflag, buf, faults>>

Reader(r) == LoadReadFlag(r) \/ LoadWrittenFlag(r) \/ CopyPayload(r) \/ MarkRead(r)

Next ==
  \/ WriteCall \/ Writer \/ WriteFails
  \/ \E r \in Readers : Reader(r) \/ ReadFails(r)

Spec == Init /\ [][Next]_vars

\* A writer that has been called and every reader loop keep taking steps: the
\* processes spin with sched_yield and are never blocked on one another.
FairSpec == Spec /\ WF_vars(Writer) /\ \A r \in Readers : WF_vars(Reader(r))

(***************************************************************************)
(* Properties.                                                             *)
(***************************************************************************)

\* A reader between its flag test and its mark looks at a chunk that holds the
\* message it is due, whole, and keeps holding it: the writer neither tears nor
\* replaces a chunk that is being read.
ReadsWhole ==
  \A r \in Readers : rpc[r] \in {"read", "reading"} => data[ridx[r]] = rlap[r]

\* The ring is a bounded broadcast queue: in what they return from their chunks
\* the readers get every message, once and in the order it was published, and
\* the writer is never more than MaxChunks messages ahead of one of them.
Contract == INSTANCE BroadcastQueue WITH
  Capacity <- MaxChunks,
  sent <- wlap * MaxChunks + widx,
  got <- [r \in Readers |-> taken[r][1] * MaxChunks + taken[r][2] + 1]
Broadcasts == Contract!Spec

\* A writer waiting for a chunk leaves its wait, even if it has no timeout: what
\* the readers have not seen yet they eventually read, and their flags let it go.
WriterGetsChunk == (wpc = "scan") ~> (wpc # "scan")

\* Every published message reaches every reader: again and again, and for good once
\* the writer has made its laps or pauses, all readers have caught up with it.
AllDelivered ==
  []<>(\A r \in Readers :
         taken[r][1] * MaxChunks + taken[r][2] + 1 = wlap * MaxChunks + widx)
=============================================================================
