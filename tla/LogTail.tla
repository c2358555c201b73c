------------------------------ MODULE LogTail ------------------------------
(***************************************************************************)
(* The tail of one process log file (log/process-log-tail.ts).  The        *)
(* service appends to the file whether or not the backend runs; the        *)
(* supervisor archives an oversized file when it starts the service        *)
(* (process-file.ts); the backend polls the file in chunks, publishes its  *)
(* complete lines and keeps the offset up to which it has done so, in      *)
(* memory and, at the end of a tick, on disk.                              *)
(*                                                                         *)
(* A byte of line k is k, its newline is -k, so that what is published     *)
(* tells which line it came from, even across files; carriage returns are  *)
(* left out.  A file that is missing reads like an empty one.              *)
(***************************************************************************)
EXTENDS Integers, Sequences, FiniteSets, SequencesExt

CONSTANTS
    Chunk,        \* READ_CHUNK_BYTES
    MaxPending,   \* maxPendingLineBytes: longer lines are dropped
    Backfill,     \* INITIAL_BACKFILL_BYTES
    RotateBytes,  \* a longer file is archived when the service starts
    MaxBytes,     \* bound: the length of the file
    MaxLines,     \* bound: lines ever begun
    MaxFaults,    \* bound: faults
    Faults        \* the kinds of faults that happen

ASSUME LogTailAssumption ==
    /\ Chunk \in Nat \ {0} /\ MaxPending \in Nat \ {0} /\ Backfill \in Nat \ {0}
    /\ RotateBytes \in Nat /\ MaxBytes \in Nat /\ MaxLines \in Nat \ {0} /\ MaxFaults \in Nat

\* "sure" is a ghost: the offset refers to the present file, not to one that
\* has been archived since.
NoOffset == [at |-> -1, sure |-> TRUE]
NoCursor == [read |-> -1, committed |-> -1, pending |-> <<>>, discard |-> FALSE, sure |-> TRUE]
Start == [read |-> 0, committed |-> 0, pending |-> <<>>, discard |-> FALSE, sure |-> TRUE]

VARIABLES
    file,      \* the bytes of the log file
    lineLen,   \* length of each line that is complete (0: archived unfinished)
    cursor,    \* the cursor in the map, NoCursor while the service is not in the catalog
    offsets,   \* this.offsets of the path
    dirty,     \* offsetsDirty
    disk,      \* the state file's offset of the path
    pc,        \* the step of the tick; "down" while the backend does not run
    d,         \* the cursor object that drain works on
    own,       \* d is still the object in the map
    want,      \* length to read, from the size that stat gave
    buf,       \* bytes read and not yet published
    nxt,       \* nextReadOffset
    stream,    \* ghost: lines published since the last start or failure
    ingested,  \* ghost: lines ever published whole
    floor,     \* ghost: the last line cut off by the bounded backfill
    faults

log == <<file, lineLen>>
tick == <<pc, d, own, want, buf, nxt>>
saved == <<offsets, dirty, disk>>
ghosts == <<stream, ingested, floor>>
vars == <<log, cursor, saved, tick, ghosts, faults>>

Lesser(a, b) == IF a < b THEN a ELSE b
Newline(s) == SelectInSeq(s, LAMBDA b : b < 0)
LineOf(byte) == IF byte < 0 THEN -byte ELSE byte
Writing == Len(lineLen) + 1

Fault(kind) == kind \in Faults /\ faults < MaxFaults /\ faults' = faults + 1

Init ==
    /\ file = <<>> /\ lineLen = <<>>
    /\ cursor = NoCursor /\ offsets = NoOffset /\ dirty = FALSE /\ disk = NoOffset
    /\ pc = "down" /\ d = NoCursor /\ own = FALSE /\ want = 0 /\ buf = <<>> /\ nxt = 0
    /\ stream = <<>> /\ ingested = {} /\ floor = 0 /\ faults = 0

-----------------------------------------------------------------------------
(* The service and the supervisor. *)

\* The service appends a byte of its line, or ends the line.
Write ==
    /\ Len(file) < MaxBytes /\ Writing <= MaxLines
    /\ \/ file' = Append(file, Writing) /\ UNCHANGED lineLen
       \/ /\ file' = Append(file, -Writing)
          /\ lineLen' = Append(lineLen, Cardinality({i \in DOMAIN file : file[i] = Writing}))
    /\ UNCHANGED <<cursor, saved, tick, ghosts, faults>>

\* An offset into the file that is archived says nothing about the next one.
Archived(o) == [o EXCEPT !.sure = @ /\ o.at <= 0]
ArchivedCursor(c) == [c EXCEPT !.sure = @ /\ c.read <= 0]

\* A start of the service archives an oversized file (rotateIfOversized).
Rotate ==
    /\ Len(file) > RotateBytes
    /\ file' = <<>>
    /\ lineLen' = IF Last(file) > 0 THEN Append(lineLen, 0) ELSE lineLen
    /\ cursor' = ArchivedCursor(cursor)
    /\ d' = [ArchivedCursor(d) EXCEPT !.sure = @ /\ pc # "publish"]
    /\ offsets' = Archived(offsets) /\ disk' = Archived(disk)
    /\ UNCHANGED <<dirty, pc, own, want, buf, nxt, ghosts, faults>>

-----------------------------------------------------------------------------
(* The tail. *)

\* ensureCursor: from the saved offset, or from the last Backfill bytes, where
\* the rest of the line the window begins in is dropped.
EnsureCursor(offset) ==
    LET size == Len(file)
        fresh == offset = NoOffset
        at == IF fresh THEN size - Lesser(size, Backfill) ELSE Lesser(offset.at, size)
    IN  /\ cursor' = [read |-> at, committed |-> at, pending |-> <<>>,
                      discard |-> fresh /\ at > 0, sure |-> fresh \/ offset.sure]
        /\ floor' = IF fresh /\ at > 0 THEN LineOf(file[at + 1]) ELSE floor
        /\ stream' = <<>>
        /\ UNCHANGED ingested

\* start: a state file that cannot be read counts as none.
Boot ==
    /\ pc = "down"
    /\ \/ offsets' = disk /\ UNCHANGED faults
       \/ offsets' = NoOffset /\ disk # NoOffset /\ Fault("unreadable")
    /\ EnsureCursor(offsets')
    /\ pc' = "idle" /\ dirty' = FALSE
    /\ UNCHANGED <<log, disk, d, own, want, buf, nxt>>

\* refresh: the service leaves the catalog, whatever the tick is doing.
Uncatalog ==
    /\ pc # "down" /\ cursor # NoCursor /\ Fault("refresh")
    /\ cursor' = NoCursor /\ own' = FALSE
    /\ UNCHANGED <<log, saved, pc, d, want, buf, nxt, ghosts>>

\* refresh: it is back.
Catalog ==
    /\ pc # "down" /\ cursor = NoCursor
    /\ EnsureCursor(offsets)
    /\ UNCHANGED <<log, saved, tick, faults>>

\* drain is over; a cursor that was put into the map meanwhile is still to come.
LeaveTo(s) ==
    /\ pc' = IF own THEN "persist" ELSE "next"
    /\ stream' = IF own THEN s ELSE <<>>
    /\ d' = NoCursor /\ own' = FALSE /\ want' = 0 /\ buf' = <<>> /\ nxt' = 0
Leave == LeaveTo(stream)

\* drain up to its first await: a file shorter than the cursor was rotated.
Stat ==
    /\ pc \in {"idle", "next"} /\ cursor # NoCursor
    /\ LET c == IF Len(file) < cursor.read THEN Start ELSE cursor
       IN  /\ cursor' = c
           /\ \/ /\ Len(file) > c.read
                 /\ pc' = "read" /\ d' = c /\ own' = TRUE
                 /\ want' = Lesser(Chunk, Len(file) - c.read)
              \/ /\ Len(file) = c.read
                 /\ pc' = "persist" /\ UNCHANGED <<d, own, want>>
    /\ UNCHANGED <<log, saved, buf, nxt, ghosts, faults>>

NoneToDrain ==
    /\ pc \in {"idle", "next"} /\ cursor = NoCursor
    /\ pc' = "persist"
    /\ UNCHANGED <<log, cursor, saved, d, own, want, buf, nxt, ghosts, faults>>

\* The chunk is taken into account: cursor and offset advance together.
Complete(c) ==
    /\ cursor' = IF own THEN c ELSE cursor
    /\ offsets' = [at |-> c.committed, sure |-> c.sure] /\ dirty' = TRUE
    /\ Leave
    /\ UNCHANGED disk

\* file.read: it may find less than stat saw, or a file that was replaced.
Read ==
    /\ pc = "read"
    /\ LET bytes == SubSeq(file, d.read + 1, Lesser(d.read + want, Len(file)))
           combined == d.pending \o bytes
           n == Newline(combined)
           to == d.read + Len(bytes)
       IN  \/ /\ bytes = <<>>
              /\ Leave /\ UNCHANGED <<cursor, saved>>
           \/ /\ bytes # <<>> /\ d.discard /\ n = 0
              /\ Complete([d EXCEPT !.read = to, !.committed = to, !.pending = <<>>])
           \/ /\ bytes # <<>> /\ (d.discard => n # 0)
              /\ buf' = IF d.discard THEN SubSeq(combined, n + 1, Len(combined)) ELSE combined
              /\ pc' = "publish" /\ nxt' = to /\ want' = 0
              /\ UNCHANGED <<cursor, saved, d, own, stream>>
    /\ UNCHANGED <<log, ingested, floor, faults>>

\* A failed stat, open or read: the tick warns and goes on.
ReadFails ==
    /\ pc = "read" /\ Fault("io")
    /\ Leave
    /\ UNCHANGED <<log, cursor, saved, ingested, floor>>

Text == SubSeq(buf, 1, Newline(buf) - 1)
Publishable == Len(Text) \in 1..MaxPending

\* The next complete line of the chunk: published, dropped when oversized.
Publish ==
    /\ pc = "publish" /\ Newline(buf) # 0
    /\ buf' = SubSeq(buf, Newline(buf) + 1, Len(buf))
    /\ IF Publishable
       THEN /\ stream' = Append(stream, [text |-> Text, sure |-> d.sure])
            /\ ingested' = ingested \cup
                   {k \in {Text[1]} : Text = [i \in 1..lineLen[k] |-> k]}
       ELSE UNCHANGED <<stream, ingested>>
    /\ UNCHANGED <<log, cursor, saved, pc, d, own, want, nxt, floor, faults>>

\* Mutant: a chunk whose publish was rejected counts as read.
RejectAdvances ==
    /\ pc = "publish" /\ Newline(buf) # 0 /\ Publishable /\ Fault("reject")
    /\ Complete([read |-> nxt, committed |-> nxt, pending |-> <<>>, discard |-> FALSE, sure |-> d.sure])
    /\ UNCHANGED <<log, ingested, floor>>

\* A rejected publish abandons the chunk, which is read again.
Reject ==
    /\ pc = "publish" /\ Newline(buf) # 0 /\ Publishable /\ Fault("reject")
    /\ LeaveTo(<<>>)
    /\ UNCHANGED <<log, cursor, saved, ingested, floor>>

\* Mutant: the offset counts the pending bytes as done.
FinishCommitsPending ==
    /\ pc = "publish" /\ Newline(buf) = 0
    /\ LET over == Len(buf) > MaxPending
           rest == IF over THEN <<>> ELSE buf
       IN  Complete([read |-> nxt, committed |-> nxt, pending |-> rest,
                     discard |-> over, sure |-> d.sure])
    /\ UNCHANGED <<log, ingested, floor, faults>>

\* Mutant: an oversized head is dropped, and its tail taken for a line.
FinishForgetsDiscard ==
    /\ pc = "publish" /\ Newline(buf) = 0
    /\ LET over == Len(buf) > MaxPending
           rest == IF over THEN <<>> ELSE buf
       IN  Complete([read |-> nxt, committed |-> nxt - Len(rest), pending |-> rest,
                     discard |-> FALSE, sure |-> d.sure])
    /\ UNCHANGED <<log, ingested, floor, faults>>

\* Mutant: once discarding, the next chunks lose their first line too.
FinishKeepsDiscard ==
    /\ pc = "publish" /\ Newline(buf) = 0
    /\ LET over == Len(buf) > MaxPending
           rest == IF over THEN <<>> ELSE buf
       IN  Complete([read |-> nxt, committed |-> nxt - Len(rest), pending |-> rest,
                     discard |-> over \/ d.discard, sure |-> d.sure])
    /\ UNCHANGED <<log, ingested, floor, faults>>

\* What is left of the chunk is the head of a line: kept, unless too long.
Finish ==
    /\ pc = "publish" /\ Newline(buf) = 0
    /\ LET over == Len(buf) > MaxPending
           rest == IF over THEN <<>> ELSE buf
       IN  Complete([read |-> nxt, committed |-> nxt - Len(rest), pending |-> rest,
                     discard |-> over, sure |-> d.sure])
    /\ UNCHANGED <<log, ingested, floor, faults>>

\* persistOffsets: by rename, so all or nothing.  A failed write is tried again
\* after the next tick, a failed mkdir only once more has been read.
Persist ==
    /\ pc = "persist" /\ pc' = "idle"
    /\ \/ /\ disk' = (IF dirty THEN offsets ELSE disk) /\ dirty' = FALSE
          /\ UNCHANGED faults
       \/ dirty /\ Fault("io") /\ dirty' \in BOOLEAN /\ UNCHANGED disk
    /\ UNCHANGED <<log, cursor, offsets, d, own, want, buf, nxt, ghosts>>

Down ==
    /\ pc' = "down" /\ cursor' = NoCursor /\ offsets' = NoOffset /\ dirty' = FALSE
    /\ d' = NoCursor /\ own' = FALSE /\ want' = 0 /\ buf' = <<>> /\ nxt' = 0 /\ stream' = <<>>
    /\ UNCHANGED <<log, ingested, floor>>

\* stop: the tick has ended; what an earlier tick could not save is saved.
Stop ==
    /\ pc = "idle" /\ Fault("stop")
    /\ disk' = IF dirty THEN offsets ELSE disk
    /\ Down

\* The backend dies at any step.
Crash ==
    /\ pc # "down" /\ Fault("crash")
    /\ Down /\ UNCHANGED disk

Tick == Stat \/ NoneToDrain \/ Read \/ Publish \/ Finish \/ Persist

Next ==
    \/ Write \/ Rotate
    \/ Boot \/ Uncatalog \/ Catalog \/ Stop \/ Crash
    \/ Stat \/ NoneToDrain \/ Read \/ ReadFails \/ Publish \/ Reject \/ Finish \/ Persist

Spec == Init /\ [][Next]_vars

\* The poll is scheduled again after every tick, failed ones included, and the
\* supervisor starts a backend that died again.
FairSpec == Spec /\ WF_vars(Tick) /\ WF_vars(Boot)

-----------------------------------------------------------------------------
(* Properties. *)

Owed(k) == k \in 1..Len(lineLen) /\ lineLen[k] \in 1..MaxPending
\* Lines that end within the first n bytes of the file.
LinesBelow(n) == {-file[i] : i \in {j \in 1..Lesser(n, Len(file)) : file[j] < 0}}

\* Every variable holds a value of its type, and the pending bytes of a cursor
\* are those of the file between its committed and its read offset.
CursorOK(c) ==
    c # NoCursor =>
        /\ c.read \in 0..MaxBytes /\ c.discard \in BOOLEAN /\ c.sure \in BOOLEAN
        /\ c.committed + Len(c.pending) = c.read /\ Len(c.pending) <= MaxPending
        /\ c.discard => c.pending = <<>>
        /\ c.sure => c.read <= Len(file) /\ c.pending = SubSeq(file, c.committed + 1, c.read)
TypeOK ==
    /\ Len(file) <= MaxBytes /\ Len(lineLen) <= MaxLines
    /\ pc \in {"down", "idle", "next", "read", "publish", "persist"}
    /\ CursorOK(cursor) /\ (pc = "read" => CursorOK(d))
    /\ \A o \in {offsets, disk} : o.at \in -1..MaxBytes /\ o.sure \in BOOLEAN
    /\ dirty \in BOOLEAN /\ own \in BOOLEAN /\ want \in 0..Chunk /\ nxt \in 0..MaxBytes
    /\ d = NoCursor <=> pc \notin {"read", "publish"}
    /\ ingested \subseteq 1..MaxLines /\ floor \in 0..MaxLines /\ faults \in 0..MaxFaults

\* At least once: an offset - on disk, in memory or in the cursor - is never
\* beyond a line that was not published, whatever failed or died on the way;
\* only lines before the backfill window, oversized ones, and those of a
\* rotation the offset has not noticed are exempt.
NothingSkipped ==
    \A o \in {disk, offsets, [at |-> cursor.committed, sure |-> cursor.sure]} :
        o.sure => \A k \in LinesBelow(o.at) : Owed(k) => k \in ingested \/ k <= floor

\* Between two failures whole lines are published, in the order they were
\* written and none of them twice.  The exception is the tail of a line too
\* long to publish, or cut by the backfill, and only as the first line after a
\* start: the saved offset does not say that a line was being discarded.
WholeLinesInOrder ==
    \A i \in DOMAIN stream :
        LET p == stream[i]  k == p.text[1]
        IN  /\ p.sure => \/ p.text = [j \in 1..lineLen[k] |-> k]
                         \/ i = 1 /\ Range(p.text) = {k} /\ (lineLen[k] > MaxPending \/ k <= floor)
            /\ \A j \in 1..(i - 1) : Last(stream[j].text) < Last(p.text)

\* Every line that can be published is, although the backend may die and
\* publishing, reading and saving may fail; unless it is archived first, the
\* service leaves the catalog, or a rotation went unnoticed.
LinesArrive ==
    \A k \in 1..MaxLines :
        Owed(k) /\ k \in LinesBelow(Len(file)) ~>
            \/ k \in ingested \/ k <= floor
            \/ k \notin LinesBelow(Len(file))
            \/ pc # "down" /\ (cursor = NoCursor \/ ~cursor.sure)
            \/ pc = "down" /\ ~disk.sure

\* "resumes from a persisted offset and ingests lines written while Ex was
\* down": a start passes over no line of the present file.
ResumesAfterDown ==
    [][pc = "down" /\ pc' = "idle" =>
          \A k \in LinesBelow(cursor'.committed) :
              Owed(k) => k \in ingested \/ k <= floor']_vars
=============================================================================
