---------------------------- MODULE LogTailProofs ----------------------------
(***************************************************************************)
(* What module LogTail promises, proved for every chunk size, line limit,  *)
(* backfill window and rotation size, and any number of lines and faults.  *)
(*                                                                         *)
(* None of the properties is inductive.  FileInv says how a log file looks:*)
(* lines in order, contiguous, of the recorded length.  OffsetInv and      *)
(* CursorInv say where an offset may stand: at the beginning of a line, or *)
(* inside one that need not be published (Boundary), with everything       *)
(* before it done (Done).  Held and Follows relate the bytes a cursor or a *)
(* tick holds to the file before and after them, and to what was           *)
(* published; they survive a rotation, after which the bytes at hand come  *)
(* before all that will be written.  FloorInv says that the backfill       *)
(* window has only moved forward.                                          *)
(*                                                                         *)
(* First facts of sequences and of the file, then what a longer file keeps *)
(* of each part (Extends), then one lemma per action.                      *)
(***************************************************************************)
EXTENDS LogTail, SequenceTheorems, FiniteSetTheorems, WellFoundedInduction, TLAPS

\* b may follow a in a file: lines are in order, and nothing of a line comes
\* after its newline.
Before(a, b) == LineOf(a) <= LineOf(b) /\ (a < 0 => LineOf(a) < LineOf(b))

\* The bytes of s may stand in this order in a file.
Ordered(s) == \A i, j \in 1..Len(s) : i < j => Before(s[i], s[j])

\* A byte of a line that was begun; its newline is of one that is complete.
Known(a) ==
    LineOf(a) \in 1..MaxLines /\ (a > 0 => a <= Writing) /\ (a < 0 => -a <= Len(lineLen))

\* The bytes of the file, and the lengths, are of lines that were begun.
FileTypes ==
    /\ file \in Seq(Int) /\ lineLen \in Seq(Nat)
    /\ Len(file) <= MaxBytes /\ Len(lineLen) <= MaxLines
    /\ \A i \in 1..Len(file) : Known(file[i])

\* Between bytes of two lines there is a newline.
Contiguous ==
    \A i, j \in 1..Len(file) :
        i < j /\ LineOf(file[i]) # LineOf(file[j]) => \E l \in i..(j - 1) : file[l] < 0

\* Right before the newline of a line stand as many bytes of it as lineLen
\* says, and none elsewhere.
Lengths ==
    \A j \in 1..Len(file) : file[j] < 0 =>
        /\ lineLen[-file[j]] < j
        /\ \A i \in 1..(j - 1) : file[i] = -file[j] <=> i >= j - lineLen[-file[j]]

\* What does not end with a newline ends with the line being written.
Unfinished ==
    /\ file # <<>> /\ file[Len(file)] > 0 => file[Len(file)] = Writing
    /\ \E m \in 0..Len(file) : \A i \in 1..Len(file) : file[i] = Writing <=> i > m

\* A log file is in order: all four.
FileInv == FileTypes /\ Ordered(file) /\ Contiguous /\ Lengths /\ Unfinished

\* The backfill window has only moved forward.
FloorInv ==
    /\ floor \in 0..MaxLines /\ floor <= Writing
    /\ \A i \in 1..Len(file) : i > Len(file) - Backfill => floor <= LineOf(file[i])

\* A line begins after position p.
Clean(p) == p = 0 \/ file[p] < 0

\* Position p is so far in its line that this cannot be published.
Over(p) == p > MaxPending /\ file[p - MaxPending] = file[p]

\* Position p is in a line that need not be published.
Exempt(p) == p > 0 /\ file[p] > 0 /\ (file[p] <= floor \/ Over(p))

\* Nothing to be published is cut in two by position p.
Boundary(p) == Clean(p) \/ Exempt(p)

\* Position p is in a line that need not be published, or right before what is
\* left of one: the state of a cursor that discards.
Dropping(p) == Exempt(p) \/ (p \in 1..(Len(file) - 1) /\ LineOf(file[p + 1]) <= floor)

\* Every line that ends up to position p was published, or need not be.
Done(p) ==
    \A i \in 1..Len(file) : i <= p /\ file[i] < 0 /\ Owed(-file[i])
        => -file[i] \in ingested \/ -file[i] <= floor

\* The offset o is at a boundary of the present file, and all before it is done.
OffsetInv(o) ==
    /\ o \in [at : -1..MaxBytes, sure : BOOLEAN]
    /\ o.at = -1 => o.sure
    /\ o.sure /\ o.at # -1 => o.at <= Len(file) /\ Boundary(o.at) /\ Done(o.at)

\* What a cursor that has read n bytes has still to read: all of the file when
\* it is so short that it must be a new one.
Rest(n) == {q \in 1..Len(file) : q > n \/ Len(file) < n}

\* s are the bytes read up to position n and not yet published.  They come
\* before the rest; and if they are surely of the present file, they are where
\* they should be, and what is before them is done.
Held(s, n, sure) ==
    /\ s \in Seq(Int) /\ n \in 0..MaxBytes /\ Len(s) <= n
    /\ \A i \in 1..Len(s) : Known(s[i])
    /\ Ordered(s)
    /\ \A i \in 1..Len(s), q \in Rest(n) : Before(s[i], file[q])
    /\ sure =>
           /\ n <= Len(file)
           /\ \A i \in 1..Len(s) : s[i] = file[n - Len(s) + i]
           /\ Boundary(n - Len(s)) /\ Done(n - Len(s))

\* The cursor objects.
Cursors == [read : Int, committed : Int, pending : Seq(Int), discard : BOOLEAN, sure : BOOLEAN]

\* The pending bytes of a cursor are held, and short enough; a cursor that
\* drops is in a line that need not be published.
CursorInv(c) ==
    /\ c \in Cursors
    /\ c # NoCursor =>
           /\ Held(c.pending, c.read, c.sure)
           /\ c.committed + Len(c.pending) = c.read /\ Len(c.pending) <= MaxPending
           /\ c.discard => c.pending = <<>>
           /\ c.sure /\ c.discard => Dropping(c.read)

\* The text t is a whole line.
Whole(t) == t = [j \in 1..lineLen[t[1]] |-> t[1]]

\* The text t is the rest of a line that need not be published.
Cut(t) == Range(t) = {t[1]} /\ (lineLen[t[1]] > MaxPending \/ t[1] <= floor)

\* What is published, with the certainty that it is of the present file.
Entries == [text : Seq(Int), sure : BOOLEAN]

\* Every published text is whole, unless it is the first and need not be, and
\* of a later line than those before it.
StreamInv ==
    /\ stream \in Seq(Entries)
    /\ \A i \in 1..Len(stream) :
           LET t == stream[i].text
           IN  /\ t # <<>> /\ t[Len(t)] <= Len(lineLen)
               /\ stream[i].sure =>
                      t[1] \in 1..Len(lineLen) /\ (Whole(t) \/ (i = 1 /\ Cut(t)))
               /\ \A j \in 1..(i - 1) : stream[j].text[Len(stream[j].text)] < t[Len(t)]

\* The bytes s at hand and the rest of the file from n on are of later lines
\* than all that was published.
Follows(s, n, sure, discard) ==
    /\ \A j \in 1..Len(stream) :
           LET k == stream[j].text[Len(stream[j].text)]
           IN  /\ \A i \in 1..Len(s) : k < LineOf(s[i])
               /\ \A q \in Rest(n) : k < LineOf(file[q])
    /\ stream # <<>> /\ sure /\ ~discard => Clean(n - Len(s))

\* A cursor reads on where the stream ends.
FollowsCursor(c) == Follows(c.pending, c.read, c.sure, c.discard)

\* The locals of a tick, step by step: while it reads, its cursor is as good
\* as the one in the map; while it publishes, its buffer is.
TickInv ==
    /\ pc \in {"down", "idle", "next", "read", "publish", "persist"}
    /\ dirty \in BOOLEAN /\ own \in BOOLEAN /\ want \in 0..Chunk /\ nxt \in 0..MaxBytes
    /\ ingested \subseteq 1..MaxLines /\ faults \in 0..MaxFaults
    /\ d \in Cursors /\ (d = NoCursor <=> pc \notin {"read", "publish"})
    /\ pc = "read" => CursorInv(d) /\ FollowsCursor(d) /\ (own => cursor = d)
    /\ pc = "publish" => Held(buf, nxt, d.sure) /\ Follows(buf, nxt, d.sure, FALSE)
    /\ pc \notin {"read", "publish"} /\ cursor # NoCursor => FollowsCursor(cursor)

\* The inductive invariant.
IInv ==
    /\ FileInv /\ FloorInv /\ OffsetInv(offsets) /\ OffsetInv(disk)
    /\ CursorInv(cursor) /\ StreamInv /\ TickInv

-----------------------------------------------------------------------------
(* Sequences and files                                                     *)

\* A set of naturals has a least element.
LEMMA MinFacts ==
    ASSUME NEW I, I \subseteq Nat, I # {}
    PROVE  Min(I) \in I /\ \A y \in I : Min(I) <= y
<1> DEFINE R == {p \in Nat \X Nat : p[1] < p[2]}
<1>1. IsWellFoundedOn(R, Nat)
    BY NatLessThanWellFounded DEF OpToRel
<1>2. \A x, y \in Nat : <<y, x>> \notin R => x <= y
    OBVIOUS
<1> HIDE DEF R
<1>3. PICK x \in I : \A y \in I : ~(<<y, x>> \in R)
    BY <1>1, WFMin
<1>4. \A y \in I : x <= y
    BY <1>2, <1>3
<1> QED BY <1>4 DEF Min

\* Newline finds the first newline, or none.
LEMMA NewlineFacts ==
    ASSUME NEW s \in Seq(Int)
    PROVE  /\ Newline(s) \in 0..Len(s)
           /\ Newline(s) = 0 => \A i \in 1..Len(s) : s[i] >= 0
           /\ Newline(s) # 0 =>
                  s[Newline(s)] < 0 /\ \A i \in 1..(Newline(s) - 1) : s[i] >= 0
<1> DEFINE I == {i \in 1..Len(s) : s[i] < 0}
<1>1. Newline(s) = IF I # {} THEN Min(I) ELSE 0
    BY DEF Newline, SelectInSeq
<1>2. CASE I = {}
    BY <1>1, <1>2
<1>3. CASE I # {}
  <2>1. I \subseteq Nat
      OBVIOUS
  <2> HIDE DEF I
  <2>2. Min(I) \in I /\ \A y \in I : Min(I) <= y
      BY <1>3, <2>1, MinFacts
  <2>3. Newline(s) = Min(I)
      BY <1>1, <1>3
  <2>4. Newline(s) \in I /\ \A y \in I : Newline(s) <= y
      BY <2>2, <2>3
  <2>5. Len(s) \in Nat /\ \A i \in 1..Len(s) : s[i] \in Int
      BY LenProperties
  <2> QED BY <2>4, <2>5 DEF I
<1> QED BY <1>2, <1>3

\* What the sequence operators give, element by element.
LEMMA AppendFacts ==
    ASSUME NEW S, NEW s \in Seq(S), NEW e \in S
    PROVE  /\ Append(s, e) \in Seq(S) /\ Len(Append(s, e)) = Len(s) + 1
           /\ Len(s) \in Nat /\ DOMAIN s = 1..Len(s)
           /\ DOMAIN Append(s, e) = 1..(Len(s) + 1)
           /\ \A i \in 1..Len(s) : Append(s, e)[i] = s[i]
           /\ Append(s, e)[Len(s) + 1] = e
BY AppendProperties, LenProperties

\* A slice has the elements of the sequence, in their order.
LEMMA SliceFacts ==
    ASSUME NEW s \in Seq(Int), NEW a \in Nat, NEW b \in Nat, b <= Len(s)
    PROVE  /\ SubSeq(s, a + 1, b) \in Seq(Int)
           /\ Len(SubSeq(s, a + 1, b)) = IF a < b THEN b - a ELSE 0
           /\ DOMAIN SubSeq(s, a + 1, b) = 1..Len(SubSeq(s, a + 1, b))
           /\ \A i \in 1..(b - a) : SubSeq(s, a + 1, b)[i] = s[a + i]
<1>1. /\ SubSeq(s, a + 1, b) \in Seq(Int)
      /\ Len(SubSeq(s, a + 1, b)) = IF a + 1 <= b THEN b - (a + 1) + 1 ELSE 0
      /\ \A i \in 1..(b - (a + 1) + 1) : SubSeq(s, a + 1, b)[i] = s[(a + 1) + i - 1]
  <2>1. \A i \in (a + 1)..b : s[i] \in Int
      BY ElementOfSeq
  <2> QED BY <2>1, SubSeqProperties, a + 1 \in Int, b \in Int
<1>2. DOMAIN SubSeq(s, a + 1, b) = 1..Len(SubSeq(s, a + 1, b))
    BY <1>1, LenProperties
<1> QED BY <1>1, <1>2

\* A concatenation has those of the first sequence, then of the second.
LEMMA ConcatFacts ==
    ASSUME NEW s \in Seq(Int), NEW t \in Seq(Int)
    PROVE  /\ s \o t \in Seq(Int) /\ Len(s \o t) = Len(s) + Len(t)
           /\ DOMAIN (s \o t) = 1..(Len(s) + Len(t))
           /\ \A i \in 1..Len(s) : (s \o t)[i] = s[i]
           /\ \A i \in 1..Len(t) : (s \o t)[Len(s) + i] = t[i]
           /\ Len(s) \in Nat /\ DOMAIN s = 1..Len(s)
           /\ Len(t) \in Nat /\ DOMAIN t = 1..Len(t)
BY ConcatProperties, LenProperties

\* The types of the file and of the line lengths.
LEMMA FileFacts ==
    ASSUME FileInv
    PROVE  /\ Len(file) \in Nat /\ DOMAIN file = 1..Len(file)
           /\ \A i \in 1..Len(file) : file[i] \in Int
           /\ Len(lineLen) \in Nat /\ DOMAIN lineLen = 1..Len(lineLen)
           /\ \A k \in 1..Len(lineLen) : lineLen[k] \in Nat
           /\ Writing \in Nat /\ Writing = Len(lineLen) + 1
BY DEF FileInv, FileTypes, Writing

\* Between two bytes with no newline between them there is one line.
LEMMA SameLine ==
    ASSUME FileInv, NEW i \in 1..Len(file), NEW j \in 1..Len(file), i <= j,
           \A l \in i..(j - 1) : file[l] > 0
    PROVE  LineOf(file[i]) = LineOf(file[j])
<1>1. CASE i = j
    BY <1>1
<1>2. CASE i < j
    BY <1>2, FileFacts DEF FileInv, Contiguous
<1> QED BY <1>1, <1>2

\* The text between a clean position and the next newline is its whole line.
LEMMA WholeText ==
    ASSUME FileInv, NEW p \in Nat, NEW e \in Nat \ {0}, p + e <= Len(file), Clean(p),
           file[p + e] < 0, \A i \in (p + 1)..(p + e - 1) : file[i] > 0
    PROVE  /\ -file[p + e] \in 1..Len(lineLen) /\ lineLen[-file[p + e]] = e - 1
           /\ \A i \in (p + 1)..(p + e - 1) : file[i] = -file[p + e]
<1> DEFINE j == p + e
           k == -file[p + e]
<1>1. j \in 1..Len(file) /\ k \in 1..Len(lineLen) /\ lineLen[k] \in Nat
    BY FileFacts DEF FileInv, FileTypes, Known, LineOf
<1>2. lineLen[k] < j /\ \A i \in 1..(j - 1) : file[i] = k <=> i >= j - lineLen[k]
    BY <1>1, FileFacts DEF FileInv, Lengths
<1>3. \A i \in (p + 1)..(j - 1) : file[i] = k
  <2> SUFFICES ASSUME NEW i \in (p + 1)..(j - 1) PROVE file[i] = k
      OBVIOUS
  <2>1. LineOf(file[i]) = LineOf(file[j])
      BY <1>1, SameLine
  <2> QED BY <1>1, <2>1, FileFacts DEF LineOf
<1>4. p = 0 \/ ~(p >= j - lineLen[k])
  <2>1. p # 0 => file[p] # k
      BY <1>1, FileFacts DEF Clean
  <2> QED BY <1>1, <1>2, <2>1
<1>5. e > 1 => p + 1 >= j - lineLen[k]
    BY <1>1, <1>2, <1>3
<1> QED BY <1>1, <1>2, <1>3, <1>4, <1>5

\* The line of a newline after an exempt position is not owed.
LEMMA ExemptLine ==
    ASSUME FileInv, FloorInv, MaxPending \in Nat, NEW p \in Nat, NEW j \in 1..Len(file), p < j,
           Exempt(p), file[j] < 0, \A i \in (p + 1)..(j - 1) : file[i] > 0
    PROVE  /\ file[p] = -file[j] /\ -file[j] \in 1..Len(lineLen)
           /\ -file[j] <= floor \/ lineLen[-file[j]] > MaxPending
<1>1. p \in 1..Len(file) /\ file[p] > 0
    BY FileFacts DEF Exempt
<1>2. LineOf(file[p]) = LineOf(file[j])
    BY <1>1, SameLine
<1>3. file[p] = -file[j] /\ -file[j] \in 1..Len(lineLen)
    BY <1>1, <1>2, FileFacts DEF LineOf, FileInv, FileTypes, Known
<1>4. CASE Over(p)
  <2>1. p - MaxPending \in 1..(j - 1) /\ file[p - MaxPending] = -file[j]
      BY <1>1, <1>3, <1>4 DEF Over
  <2>2. p - MaxPending >= j - lineLen[-file[j]]
      BY <2>1, FileFacts DEF FileInv, Lengths
  <2> QED BY <1>1, <1>3, <2>1, <2>2, FileFacts
<1> QED BY <1>3, <1>4 DEF Exempt

-----------------------------------------------------------------------------
(* The file under its writers                                              *)

\* The service appends one byte b of the line it writes, and may complete it.
Grows(b) ==
    /\ b \in Int /\ LineOf(b) = Writing
    /\ file' \in Seq(Int) /\ Len(file') = Len(file) + 1 /\ Len(file') <= MaxBytes
    /\ file'[Len(file) + 1] = b /\ \A i \in 1..Len(file) : file'[i] = file[i]
    /\ lineLen' \in Seq(Nat) /\ Len(lineLen') = Len(lineLen) + (IF b < 0 THEN 1 ELSE 0)
    /\ Len(lineLen') <= MaxLines /\ Writing <= MaxLines
    /\ \A k \in 1..Len(lineLen) : lineLen'[k] = lineLen[k]

\* What Write does is to append one such byte, and to count it.
LEMMA WriteGrows ==
    ASSUME FileInv, Write
    PROVE  \E b \in Int :
             /\ Grows(b)
             /\ b < 0 => \A m \in 0..Len(file) :
                    (\A i \in 1..Len(file) : file[i] = Writing <=> i > m)
                        => lineLen'[Writing] = Len(file) - m
<1> /\ file \in Seq(Int) /\ lineLen \in Seq(Nat) /\ Writing \in Int /\ Writing > 0
    /\ -Writing \in Int
    /\ Len(file) + 1 <= MaxBytes /\ Writing <= MaxLines /\ Writing = Len(lineLen) + 1
    /\ Len(lineLen) <= MaxLines
  <2>1. Len(file) < MaxBytes => Len(file) + 1 <= MaxBytes
      BY FileFacts, LogTailAssumption
  <2> QED BY <2>1, FileFacts DEF FileInv, FileTypes, Write
<1>1. CASE file' = Append(file, Writing) /\ lineLen' = lineLen
  <2>1. Grows(Writing)
    <3>1. /\ file' \in Seq(Int) /\ Len(file') = Len(file) + 1
          /\ \A i \in 1..Len(file) : file'[i] = file[i]
          /\ file'[Len(file) + 1] = Writing
        BY <1>1, AppendFacts
    <3> QED BY <1>1, <3>1 DEF Grows, LineOf
  <2> QED BY <2>1, FileFacts
<1>2. CASE /\ file' = Append(file, -Writing)
           /\ lineLen' = Append(lineLen, Cardinality({i \in DOMAIN file : file[i] = Writing}))
  <2> DEFINE W == {i \in DOMAIN file : file[i] = Writing}
  <2>1. \A m \in 0..Len(file) :
            (\A i \in 1..Len(file) : file[i] = Writing <=> i > m)
                => Cardinality(W) = Len(file) - m
    <3> SUFFICES ASSUME NEW m \in 0..Len(file),
                        \A i \in 1..Len(file) : file[i] = Writing <=> i > m
                 PROVE  Cardinality(W) = Len(file) - m
        OBVIOUS
    <3>1. W = (m + 1)..Len(file)
        BY FileFacts
    <3>2. Cardinality((m + 1)..Len(file))
              = IF m + 1 > Len(file) THEN 0 ELSE Len(file) - (m + 1) + 1
      <4>1. m + 1 \in Int /\ Len(file) \in Int
          BY FileFacts
      <4> HIDE DEF Writing
      <4> QED BY <4>1, FS_Interval
    <3>3. Cardinality(W) = Cardinality((m + 1)..Len(file))
        BY <3>1
    <3> HIDE DEF W
    <3> QED BY <3>2, <3>3, FileFacts
  <2>2. Cardinality(W) \in Nat
    <3>1. PICK m \in 0..Len(file) : \A i \in 1..Len(file) : file[i] = Writing <=> i > m
        BY DEF FileInv, Unfinished
    <3>2. Cardinality(W) = Len(file) - m
        BY <2>1, <3>1
    <3> QED BY <3>2, FileFacts
  <2> HIDE DEF W
  <2>3. lineLen' = Append(lineLen, Cardinality(W))
      BY <1>2 DEF W
  <2>4. /\ lineLen' \in Seq(Nat) /\ Len(lineLen') = Len(lineLen) + 1
        /\ \A k \in 1..Len(lineLen) : lineLen'[k] = lineLen[k]
        /\ lineLen'[Len(lineLen) + 1] = Cardinality(W)
      BY <2>2, <2>3, AppendFacts
  <2>5. /\ file' \in Seq(Int) /\ Len(file') = Len(file) + 1
        /\ \A i \in 1..Len(file) : file'[i] = file[i]
        /\ file'[Len(file) + 1] = -Writing
      BY <1>2, AppendFacts
  <2>6. Grows(-Writing)
      BY <2>4, <2>5, FileFacts DEF Grows, LineOf
  <2> QED BY <2>1, <2>4, <2>6, FileFacts
<1> QED BY <1>1, <1>2 DEF Write

\* In every line the bytes of a file come before what is written next.
LEMMA GrownFacts ==
    ASSUME FileInv, NEW b \in Int, Grows(b)
    PROVE  /\ Writing \in Nat \ {0} /\ Writing' = Writing + (IF b < 0 THEN 1 ELSE 0)
           /\ Writing = Len(lineLen) + 1 /\ Writing' = Len(lineLen') + 1 /\ Len(lineLen') \in Nat
           /\ \A k \in 1..Len(lineLen) : lineLen[k] \in Nat
           /\ Len(file) \in Nat /\ Len(file') = Len(file) + 1
           /\ \A i \in 1..Len(file) : file[i] \in Int /\ file'[i] = file[i]
           /\ file'[Len(file) + 1] = b /\ b # 0 /\ (b > 0 => b = Writing) /\ (b < 0 => -b = Writing)
           /\ \A a \in Int : Known(a) => Known(a)' /\ Before(a, b)
           /\ Known(b)'
<1>1. /\ Writing \in Nat \ {0} /\ Writing = Len(lineLen) + 1 /\ Writing' = Len(lineLen') + 1
      /\ Writing' = Writing + (IF b < 0 THEN 1 ELSE 0) /\ Len(lineLen') \in Nat
      /\ Len(lineLen) \in Nat
  <2>1. Writing' = Len(lineLen') + 1
      BY DEF Writing
  <2> QED BY <2>1, FileFacts DEF Grows
<1>2. b # 0 /\ (b > 0 => b = Writing) /\ (b < 0 => -b = Writing)
    BY <1>1 DEF Grows, LineOf
<1>3. \A a \in Int : Known(a) => Known(a)' /\ Before(a, b)
    BY <1>1, <1>2 DEF Known, Before, LineOf
<1>4. Known(b)'
    BY <1>1, <1>2, FileFacts DEF Known, LineOf, Grows
<1> QED BY <1>1, <1>2, <1>3, <1>4, FileFacts DEF Grows

\* A file that is written to stays in order.
LEMMA FileWritten ==
    ASSUME FileInv, Write
    PROVE  FileInv'
<1>1. PICK b \in Int :
             /\ Grows(b)
             /\ b < 0 => \A m \in 0..Len(file) :
                    (\A i \in 1..Len(file) : file[i] = Writing <=> i > m)
                        => lineLen'[Writing] = Len(file) - m
    BY WriteGrows
<1> DEFINE j == Len(file) + 1
<1>0. /\ Writing \in Nat \ {0} /\ Writing' = Writing + (IF b < 0 THEN 1 ELSE 0)
      /\ Writing = Len(lineLen) + 1 /\ Writing' = Len(lineLen') + 1 /\ Len(lineLen') \in Nat
      /\ \A k \in 1..Len(lineLen) : lineLen[k] \in Nat
      /\ Len(file) \in Nat /\ Len(file') = Len(file) + 1
      /\ \A i \in 1..Len(file) : file[i] \in Int /\ file'[i] = file[i]
      /\ file'[Len(file) + 1] = b /\ b # 0 /\ (b > 0 => b = Writing) /\ (b < 0 => -b = Writing)
    BY <1>1, GrownFacts
<1>k. (\A a \in Int : Known(a) => Known(a)' /\ Before(a, b)) /\ Known(b)'
    BY <1>1, GrownFacts
<1>f. /\ \A i \in 1..Len(file) : file[i] # 0 /\ (file[i] > 0 => file[i] <= Writing)
      /\ \A i \in 1..Len(file) : file[i] < 0 => -file[i] \in 1..Len(lineLen)
      /\ \A k \in 1..Len(lineLen) : lineLen'[k] = lineLen[k]
      /\ Len(lineLen) \in Nat
  <2>1. \A i \in 1..Len(file) : Known(file[i])
      BY DEF FileInv, FileTypes
  <2>2. \A a \in Int : Known(a) =>
            a # 0 /\ (a < 0 => -a \in 1..Len(lineLen)) /\ (a > 0 => a <= Writing)
      BY FileFacts DEF Known, LineOf
  <2> QED BY <1>0, <1>1, <2>1, <2>2, FileFacts DEF Grows
<1>2. FileTypes'
  <2>1. \A i \in 1..Len(file) : Known(file[i])
      BY DEF FileInv, FileTypes
  <2>2. \A i \in 1..Len(file') : Known(file[i])'
      BY <1>0, <1>k, <2>1
  <2> QED BY <1>1, <2>2 DEF FileTypes, Grows
<1>3. Ordered(file)'
  <2>1. \A i \in 1..Len(file), k \in 1..Len(file) : i < k => Before(file[i], file[k])
      BY DEF FileInv, Ordered
  <2>2. \A i \in 1..Len(file) : Before(file[i], b)
    <3>1. \A i \in 1..Len(file) : Known(file[i])
        BY DEF FileInv, FileTypes
    <3> QED BY <1>0, <1>k, <3>1
  <2>3. \A i \in 1..Len(file'), k \in 1..Len(file') : i < k => Before(file'[i], file'[k])
      BY <1>0, <2>1, <2>2
  <2> QED BY <2>3 DEF Ordered, Before, LineOf
<1>4. Contiguous'
  <2> SUFFICES ASSUME NEW i \in 1..Len(file'), NEW k \in 1..Len(file'), i < k,
                      LineOf(file'[i]) # LineOf(file'[k])
               PROVE  \E l \in i..(k - 1) : file'[l] < 0
      BY DEF Contiguous, LineOf
  <2>1. CASE k <= Len(file)
    <3>1. PICK l \in i..(k - 1) : file[l] < 0
        BY <1>0, <2>1 DEF FileInv, Contiguous
    <3> QED BY <1>0, <2>1, <3>1
  <2>2. CASE k = j
    <3>1. CASE file[Len(file)] < 0
        BY <1>0, <2>2, <3>1
    <3>2. CASE file[Len(file)] > 0
      <4>1. file[Len(file)] = Writing /\ LineOf(file'[k]) = Writing /\ LineOf(Writing) = Writing
          BY <1>0, <2>2, <3>2 DEF FileInv, Unfinished, LineOf
      <4>2. PICK l \in i..(Len(file) - 1) : file[l] < 0
          BY <1>0, <2>2, <4>1 DEF FileInv, Contiguous
      <4> QED BY <1>0, <2>2, <4>2
    <3>3. file[Len(file)] # 0
        BY <1>0, <1>f, <2>2
    <3> QED BY <1>0, <2>2, <3>1, <3>2, <3>3
  <2>3. k <= Len(file) \/ k = j
    <3>1. Len(file) \in Nat /\ Len(file') = Len(file) + 1
        BY <1>0
    <3> QED BY <3>1
  <2> QED BY <2>1, <2>2, <2>3
<1>5. PICK m \in 0..Len(file) : \A i \in 1..Len(file) : file[i] = Writing <=> i > m
    BY DEF FileInv, Unfinished
<1>6. Lengths'
  <2>1. ASSUME NEW l \in 1..Len(file), file[l] < 0
        PROVE  -file[l] \in 1..Len(lineLen) /\ lineLen'[-file[l]] = lineLen[-file[l]]
      BY <1>1, <2>1, <1>0, <1>f 
  <2>2. b < 0 => lineLen'[-b] = Len(file) - m
      BY <1>1, <1>5, <1>0, <1>f
  <2>3. \A l \in 1..Len(file) : file'[l] < 0 =>
            /\ lineLen'[-file'[l]] < l
            /\ \A i \in 1..(l - 1) : file'[i] = -file'[l] <=> i >= l - lineLen'[-file'[l]]
    <3>1. \A l \in 1..Len(file) : file[l] < 0 =>
              /\ lineLen[-file[l]] < l
              /\ \A i \in 1..(l - 1) : file[i] = -file[l] <=> i >= l - lineLen[-file[l]]
        BY DEF FileInv, Lengths
    <3> QED BY <2>1, <3>1, <1>0, <1>f
  <2>4. b < 0 =>
            /\ lineLen'[-b] < j
            /\ \A i \in 1..(j - 1) : file'[i] = -b <=> i >= j - lineLen'[-b]
      BY <1>1, <1>5, <2>2, <1>0, <1>f
  <2>5. \A l \in 1..Len(file') : l \in 1..Len(file) \/ l = j
      BY <1>0
  <2>6. \A l \in 1..Len(file') : file'[l] < 0 =>
            /\ lineLen'[-file'[l]] < l
            /\ \A i \in 1..(l - 1) : file'[i] = -file'[l] <=> i >= l - lineLen'[-file'[l]]
      BY <1>0, <2>3, <2>4, <2>5
  <2> QED BY <2>6 DEF Lengths
<1>7. Unfinished'
  <2>1. b > 0 => file'[Len(file')] = Writing'
      BY <1>0, <1>f
  <2>2. CASE b > 0
    <3>1. \A i \in 1..Len(file') : file'[i] = Writing' <=> i > m
        BY <1>1, <1>5, <2>2, <1>0, <1>f
    <3> QED BY <1>1, <2>1, <3>1, <1>0, <1>f DEF Unfinished
  <2>3. CASE b < 0
    <3>1. Writing' = Writing + 1 /\ b # Writing'
        BY <1>0, <2>3
    <3>2. \A i \in 1..Len(file) : file[i] # Writing'
        BY <1>0, <1>f, <3>1
    <3>3. \A i \in 1..Len(file') : file'[i] # Writing'
        BY <1>0, <3>1, <3>2
    <3>4. Len(file') \in 0..Len(file') /\ ~(file'[Len(file')] > 0)
        BY <1>0, <2>3
    <3>5. \A i \in 1..Len(file') : ~(i > Len(file'))
        BY <1>0
    <3> QED BY <3>3, <3>4, <3>5 DEF Unfinished
  <2> QED BY <1>1, <2>2, <2>3, <1>0, <1>f
<1> QED BY <1>2, <1>3, <1>4, <1>6, <1>7 DEF FileInv

\* An archived file leaves an empty one, and its last line is complete.
LEMMA FileRotated ==
    ASSUME FileInv, Rotate
    PROVE  /\ FileInv' /\ Len(file') = 0 /\ Writing' >= Writing /\ Writing' \in Nat
           /\ lineLen' \in Seq(Nat) /\ Len(lineLen') >= Len(lineLen)
           /\ \A k \in 1..Len(lineLen) : lineLen'[k] = lineLen[k]
           /\ \A a \in Int : Known(a) => Known(a)'
           /\ Writing' = Len(lineLen') + 1
<1>1. file' = <<>> /\ Len(file') = 0 /\ Len(file) > RotateBytes /\ file' \in Seq(Int)
    BY DEF Rotate
<1>2. Writing' = Len(lineLen') + 1
    BY DEF Writing
<1>3. Len(file) > 0 /\ Len(file) \in 1..Len(file)
    BY <1>1, FileFacts, LogTailAssumption
<1>4. /\ lineLen' \in Seq(Nat) /\ Len(lineLen') \in {Len(lineLen), Len(lineLen) + 1}
      /\ \A k \in 1..Len(lineLen) : lineLen'[k] = lineLen[k]
      /\ file[Len(file)] > 0 => Len(lineLen') = Len(lineLen) + 1
      /\ Len(lineLen') <= MaxLines
  <2>1. CASE file[Len(file)] > 0
    <3>1. lineLen' = Append(lineLen, 0) /\ lineLen \in Seq(Nat)
        BY <2>1 DEF Rotate, Last, FileInv, FileTypes
    <3>2. Writing <= MaxLines
        BY <1>1, <1>3, <2>1, FileFacts DEF FileInv, FileTypes, Unfinished, Known, LineOf
    <3> QED BY <3>1, <3>2, FileFacts, AppendFacts
  <2>2. CASE ~(file[Len(file)] > 0)
      BY <2>2, FileFacts DEF Rotate, Last, FileInv, FileTypes
  <2> QED BY <2>1, <2>2
<1>5. FileInv'
  <2>1. FileTypes'
      BY <1>1, <1>4, LogTailAssumption DEF FileTypes
  <2>2. (Ordered(file) /\ Contiguous /\ Lengths)'
      BY <1>1 DEF Ordered, Contiguous, Lengths
  <2>3. Unfinished'
      BY <1>1 DEF Unfinished
  <2> QED BY <2>1, <2>2, <2>3 DEF FileInv
<1>6. \A a \in Int : Known(a) => Known(a)'
    BY <1>1, <1>2, <1>4, FileFacts DEF Known, LineOf
<1> QED BY <1>1, <1>2, <1>4, <1>5, <1>6, FileFacts

-----------------------------------------------------------------------------
(* What a longer file, a higher floor or more published lines keep         *)

\* The file has all it had and maybe more, the floor is no lower, and no line
\* is forgotten to have been published.
Extends ==
    /\ Len(file') \in Nat /\ Len(file) <= Len(file')
    /\ \A i \in 1..Len(file) : file'[i] = file[i]
    /\ \A i \in (Len(file) + 1)..Len(file') : \A a \in Int : Known(a) => Before(a, file'[i])
    /\ \A a \in Int : Known(a) => Known(a)'
    /\ Len(lineLen') \in Nat /\ Len(lineLen) <= Len(lineLen')
    /\ \A k \in 1..Len(lineLen) : lineLen'[k] = lineLen[k]
    /\ floor' \in Nat /\ floor <= floor' /\ ingested \subseteq ingested'

\* A write extends the file.
LEMMA WriteExtends ==
    ASSUME FileInv, FloorInv, NEW b \in Int, Grows(b), UNCHANGED <<floor, ingested>>
    PROVE  Extends
<1>1. /\ Len(file) \in Nat /\ Len(file') = Len(file) + 1
      /\ \A i \in 1..Len(file) : file'[i] = file[i]
      /\ file'[Len(file) + 1] = b
      /\ Len(lineLen') \in Nat
    BY GrownFacts
<1>2. (\A a \in Int : Known(a) => Known(a)' /\ Before(a, b))
    BY GrownFacts
<1>3. /\ Len(lineLen) <= Len(lineLen')
      /\ \A k \in 1..Len(lineLen) : lineLen'[k] = lineLen[k]
    BY FileFacts DEF Grows
<1>4. \A i \in (Len(file) + 1)..Len(file') : i = Len(file) + 1
    BY <1>1
<1>5. \A i \in (Len(file) + 1)..Len(file') : \A a \in Int : Known(a) => Before(a, file'[i])
    BY <1>1, <1>2, <1>4
<1>6. floor \in Nat
    BY LogTailAssumption DEF FloorInv
<1> QED BY <1>1, <1>2, <1>3, <1>5, <1>6 DEF Extends

\* So does a step that leaves it alone.
LEMMA SameExtends ==
    ASSUME FileInv, FloorInv, UNCHANGED log, floor' \in Nat, floor <= floor',
           ingested \subseteq ingested'
    PROVE  Extends /\ FileInv'
<1>1. file' = file /\ lineLen' = lineLen /\ Writing' = Writing
    BY DEF log, Writing
<1>2. \A a : Known(a)' <=> Known(a)
    BY <1>1 DEF Known
<1>3. FileInv'
    BY <1>1, <1>2 DEF FileInv, FileTypes, Ordered, Before, Contiguous, Lengths, Unfinished
<1>4. \A i \in (Len(file) + 1)..Len(file') : FALSE
    BY <1>1, FileFacts
<1> QED BY <1>1, <1>2, <1>3, <1>4, FileFacts DEF Extends

\* What is true of a position stays true when the file is extended.
LEMMA PlacesKeep ==
    ASSUME FileInv, FloorInv, Extends, NEW p \in 0..Len(file)
    PROVE  /\ Clean(p) => Clean(p)'
           /\ Exempt(p) => Exempt(p)'
           /\ Boundary(p) => Boundary(p)'
           /\ Dropping(p) => Dropping(p)'
           /\ Done(p) => Done(p)'
<1>0. Len(file) \in Nat /\ \A i \in 1..Len(file) : file[i] \in Int /\ file'[i] = file[i]
    BY FileFacts DEF Extends
<1>1. Clean(p) => Clean(p)'
    BY <1>0 DEF Clean
<1>2. /\ p \in Nat /\ floor \in Nat /\ floor' \in Nat /\ floor <= floor'
      /\ Len(file') \in Nat /\ Len(file) <= Len(file')
    BY <1>0, LogTailAssumption DEF FloorInv, Extends
<1>3. Over(p) => Over(p)'
    BY <1>0, <1>2, LogTailAssumption DEF Over
<1>4. Exempt(p) => Exempt(p)'
    BY <1>0, <1>2, <1>3 DEF Exempt
<1>5. Dropping(p) => Dropping(p)'
    BY <1>0, <1>2, <1>4 DEF Dropping, LineOf
<1>6. Done(p) => Done(p)'
  <2> SUFFICES ASSUME Done(p), NEW i \in 1..Len(file'), i <= p, file'[i] < 0, Owed(-file[i])'
               PROVE  -file'[i] \in ingested' \/ -file'[i] <= floor'
      BY DEF Done
  <2>1. i \in 1..Len(file) /\ file'[i] = file[i] /\ file[i] < 0 /\ file[i] \in Int
      BY <1>0, <1>2
  <2>2. -file[i] \in 1..Len(lineLen)
      BY <2>1, FileFacts DEF FileInv, FileTypes, Known, LineOf
  <2>3. Owed(-file[i])
    <3>1. lineLen'[-file[i]] = lineLen[-file[i]]
        BY <2>2 DEF Extends
    <3> QED BY <2>1, <2>2, <3>1 DEF Owed
  <2>4. -file[i] \in ingested \/ -file[i] <= floor
      BY <2>1, <2>3 DEF Done
  <2> QED BY <1>2, <2>1, <2>2, <2>4 DEF Extends
<1> QED BY <1>1, <1>4, <1>5, <1>6 DEF Boundary

\* So do the bytes at hand,
LEMMA HeldKeeps ==
    ASSUME FileInv, FloorInv, Extends, NEW s, NEW n, NEW sure, Held(s, n, sure)
    PROVE  Held(s, n, sure)'
<1>0. /\ Len(file) \in Nat /\ Len(file') \in Nat /\ Len(file) <= Len(file')
      /\ \A i \in 1..Len(file) : file[i] \in Int /\ file'[i] = file[i]
    BY FileFacts DEF Extends
<1>1. /\ s \in Seq(Int) /\ n \in 0..MaxBytes /\ Len(s) <= n /\ Ordered(s) /\ n \in Nat
      /\ Len(s) \in Nat /\ \A i \in 1..Len(s) : Known(s[i]) /\ s[i] \in Int
    BY LogTailAssumption DEF Held
<1>2. \A i \in 1..Len(s) : Known(s[i])'
    BY <1>1 DEF Extends
<1>3. ASSUME NEW i \in 1..Len(s), NEW q \in Rest(n)' PROVE Before(s[i], file'[q])
  <2>1. q \in 1..Len(file') /\ (q > n \/ Len(file') < n)
      BY DEF Rest
  <2>2. CASE q \in 1..Len(file)
    <3>1. q \in Rest(n) /\ file'[q] = file[q]
        BY <1>0, <1>1, <2>1, <2>2 DEF Rest
    <3> QED BY <3>1 DEF Held
  <2>3. CASE q \in (Len(file) + 1)..Len(file')
      BY <1>1, <2>3 DEF Extends
  <2> QED BY <1>0, <2>1, <2>2, <2>3
<1>4. ASSUME sure
      PROVE  /\ n <= Len(file')
             /\ \A i \in 1..Len(s) : s[i] = file'[n - Len(s) + i]
             /\ Boundary(n - Len(s))' /\ Done(n - Len(s))'
  <2>1. /\ n <= Len(file) /\ \A i \in 1..Len(s) : s[i] = file[n - Len(s) + i]
        /\ Boundary(n - Len(s)) /\ Done(n - Len(s))
      BY <1>4 DEF Held
  <2>2. n - Len(s) \in 0..Len(file)
      BY <1>0, <1>1, <2>1
  <2>3. Boundary(n - Len(s))' /\ Done(n - Len(s))'
      BY <2>1, <2>2, PlacesKeep
  <2>4. \A i \in 1..Len(s) : n - Len(s) + i \in 1..Len(file)
      BY <1>0, <1>1, <2>1
  <2> QED BY <1>0, <1>1, <2>1, <2>3, <2>4
<1>5. Ordered(s)'
    BY <1>1 DEF Ordered, Before, LineOf
<1>6. \A i \in 1..Len(s), q \in Rest(n)' : Before(s[i], file[q])'
    BY <1>3 DEF Before, LineOf
<1> QED BY <1>1, <1>2, <1>4, <1>5, <1>6 DEF Held

\* the offsets,
LEMMA OffsetKeeps ==
    ASSUME FileInv, FloorInv, Extends, NEW o, OffsetInv(o)
    PROVE  OffsetInv(o)'
<1>1. CASE o.sure /\ o.at # -1
  <2>1. o.at \in 0..Len(file) /\ Boundary(o.at) /\ Done(o.at)
      BY <1>1, FileFacts, LogTailAssumption DEF OffsetInv
  <2>2. Boundary(o.at)' /\ Done(o.at)'
      BY <2>1, PlacesKeep
  <2>3. o.at <= Len(file')
      BY <2>1, FileFacts DEF Extends
  <2> QED BY <2>2, <2>3 DEF OffsetInv
<1> QED BY <1>1 DEF OffsetInv

\* and the cursors.
LEMMA CursorKeeps ==
    ASSUME FileInv, FloorInv, Extends, NEW c, CursorInv(c)
    PROVE  CursorInv(c)'
<1>1. CASE c # NoCursor
  <2>1. Held(c.pending, c.read, c.sure)'
      BY <1>1, HeldKeeps DEF CursorInv
  <2>2. c.sure /\ c.discard => Dropping(c.read)'
    <3> SUFFICES ASSUME c.sure, c.discard PROVE Dropping(c.read)'
        OBVIOUS
    <3>1. c.read \in 0..Len(file) /\ Dropping(c.read)
        BY <1>1, FileFacts, LogTailAssumption DEF CursorInv, Held
    <3> QED BY <3>1, PlacesKeep
  <2> QED BY <1>1, <2>1, <2>2 DEF CursorInv
<1>2. CASE c = NoCursor
    BY <1>2 DEF CursorInv
<1> QED BY <1>1, <1>2

\* The types of the published texts.
LEMMA StreamFacts ==
    ASSUME StreamInv, NEW j \in 1..Len(stream)
    PROVE  /\ stream[j].text \in Seq(Int) /\ stream[j].text # <<>>
           /\ Len(stream[j].text) \in Nat \ {0}
           /\ stream[j].text[Len(stream[j].text)] \in Int
           /\ stream[j].text[Len(stream[j].text)] <= Len(lineLen)
<1>0. stream[j] \in Entries
    BY ElementOfSeq DEF StreamInv
<1>1. stream[j].text \in Seq(Int)
    BY <1>0 DEF Entries
<1>2. stream[j].text # <<>> /\ stream[j].text[Len(stream[j].text)] <= Len(lineLen)
    BY DEF StreamInv
<1>3. Len(stream[j].text) \in Nat \ {0}
    BY <1>1, <1>2
<1> QED BY <1>1, <1>2, <1>3

\* What was published stays in order and whole.
LEMMA StreamKeeps ==
    ASSUME StreamInv, stream' = stream,
           Len(lineLen) \in Nat, Len(lineLen') \in Nat, Len(lineLen) <= Len(lineLen'),
           \A k \in 1..Len(lineLen) : lineLen'[k] = lineLen[k],
           floor \in Nat, floor' \in Nat, floor <= floor'
    PROVE  StreamInv'
<1>1. /\ Len(lineLen) \in Nat /\ Len(lineLen') \in Nat /\ Len(lineLen) <= Len(lineLen')
      /\ \A k \in 1..Len(lineLen) : lineLen'[k] = lineLen[k]
      /\ floor \in Nat /\ floor' \in Nat /\ floor <= floor'
    OBVIOUS
<1>2. \A t \in Seq(Int) : t[1] \in 1..Len(lineLen) =>
          /\ t[1] \in 1..Len(lineLen')
          /\ Whole(t) => Whole(t)'
          /\ Cut(t) => Cut(t)'
  <2> SUFFICES ASSUME NEW t \in Seq(Int), t[1] \in 1..Len(lineLen)
               PROVE  /\ t[1] \in 1..Len(lineLen')
                      /\ Whole(t) => Whole(t)'
                      /\ Cut(t) => Cut(t)'
      OBVIOUS
  <2>1. lineLen'[t[1]] = lineLen[t[1]] /\ t[1] \in 1..Len(lineLen') /\ t[1] \in Nat
      BY <1>1
  <2>2. Whole(t) => Whole(t)'
      BY <2>1 DEF Whole
  <2>3. Cut(t) => Cut(t)'
      BY <1>1, <2>1 DEF Cut
  <2> QED BY <2>1, <2>2, <2>3
<1>3. \A i \in 1..Len(stream) : stream[i].text \in Seq(Int) /\ stream[i].text # <<>>
    BY StreamFacts
<1>4. \A i \in 1..Len(stream) :
          LET t == stream[i].text
          IN  /\ t[Len(t)] <= Len(lineLen')
              /\ stream[i].sure =>
                     t[1] \in 1..Len(lineLen') /\ (Whole(t)' \/ (i = 1 /\ Cut(t)'))
  <2> TAKE i \in 1..Len(stream)
  <2> DEFINE t == stream[i].text
  <2>1. t \in Seq(Int) /\ t # <<>> /\ t[Len(t)] \in Int
      BY <1>3
  <2>2. t[Len(t)] <= Len(lineLen) /\ (stream[i].sure =>
                     t[1] \in 1..Len(lineLen) /\ (Whole(t) \/ (i = 1 /\ Cut(t))))
      BY DEF StreamInv
  <2>0. t' = t
      OBVIOUS
  <2> HIDE DEF t
  <2>3. t[Len(t)] <= Len(lineLen')
      BY <1>1, <2>1, <2>2
  <2>4. stream[i].sure =>
                     t[1] \in 1..Len(lineLen') /\ (Whole(t)' \/ (i = 1 /\ Cut(t)'))
      BY <1>2, <2>0, <2>1, <2>2
  <2> QED BY <2>3, <2>4 DEF t
<1> QED BY <1>4 DEF StreamInv

\* What is to come still follows it, when what is new in the file does.
LEMMA FollowsKeeps ==
    ASSUME FileInv, FloorInv, StreamInv, Extends, stream' = stream,
           \A i \in (Len(file) + 1)..Len(file') :
               LineOf(file'[i]) \in Int /\ LineOf(file'[i]) > Len(lineLen),
           NEW s, NEW n, NEW sure, NEW discard, Held(s, n, sure), Follows(s, n, sure, discard)
    PROVE  Follows(s, n, sure, discard)'
<1>0. /\ Len(file) \in Nat /\ Len(file') \in Nat /\ Len(file) <= Len(file')
      /\ \A i \in 1..Len(file) : file[i] \in Int /\ file'[i] = file[i]
      /\ n \in Nat /\ Len(s) \in Nat /\ Len(s) <= n /\ Len(lineLen) \in Nat
    BY FileFacts, LogTailAssumption DEF Extends, Held
<1>1. ASSUME NEW j \in 1..Len(stream), NEW q \in Rest(n)'
      PROVE  stream[j].text[Len(stream[j].text)] < LineOf(file'[q])
  <2>1. q \in 1..Len(file') /\ (q > n \/ Len(file') < n)
      BY DEF Rest
  <2>2. CASE q \in 1..Len(file)
    <3>1. q \in Rest(n) /\ file'[q] = file[q]
        BY <1>0, <2>1, <2>2 DEF Rest
    <3> QED BY <3>1 DEF Follows
  <2>3. CASE q \in (Len(file) + 1)..Len(file')
    <3>1. stream[j].text[Len(stream[j].text)] <= Len(lineLen)
          /\ stream[j].text[Len(stream[j].text)] \in Int
        BY StreamFacts
    <3>2. LineOf(file'[q]) \in Int /\ LineOf(file'[q]) > Len(lineLen)
        BY <2>3
    <3> QED BY <1>0, <3>1, <3>2
  <2> QED BY <1>0, <2>1, <2>2, <2>3
<1>2. stream # <<>> /\ sure /\ ~discard => Clean(n - Len(s))'
  <2> SUFFICES ASSUME stream # <<>>, sure, ~discard PROVE Clean(n - Len(s))'
      OBVIOUS
  <2>1. Clean(n - Len(s)) /\ n - Len(s) \in 0..Len(file)
      BY <1>0 DEF Follows, Held
  <2> QED BY <2>1, PlacesKeep
<1> QED BY <1>1, <1>2 DEF Follows, LineOf

-----------------------------------------------------------------------------
(* A rotation: what has been read comes before all that will be written    *)

\* After a rotation the file is empty, so that nothing in it can be missed.
LEMMA RotateFacts ==
    ASSUME FileInv, Rotate
    PROVE  /\ Len(file') = 0 /\ Len(lineLen') \in Nat /\ Len(lineLen) <= Len(lineLen')
           /\ \A k \in 1..Len(lineLen) : lineLen'[k] = lineLen[k]
           /\ \A a \in Int : Known(a) => Known(a)'
           /\ \A n : Rest(n)' = {}
           /\ \A p \in Nat : p = 0 => Boundary(p)' /\ Clean(p)'
           /\ \A p : Done(p)'
<1>1. Len(file') = 0 /\ 1..Len(file') = {}
    BY FileRotated
<1>2. \A n : Rest(n)' = {}
    BY <1>1 DEF Rest
<1>3. \A p : Done(p)'
    BY <1>1 DEF Done
<1>4. Len(lineLen') \in Nat /\ \A a \in Int : Known(a) => Known(a)'
    BY FileRotated
<1> QED BY <1>1, <1>2, <1>3, <1>4, FileRotated DEF Boundary, Clean

\* The bytes at hand come before all that will be written to it;
LEMMA HeldRotated ==
    ASSUME FileInv, Rotate, NEW s, NEW n, NEW sure, Held(s, n, sure),
           NEW fresh, fresh => n <= 0
    PROVE  Held(s, n, fresh)'
<1>1. /\ s \in Seq(Int) /\ n \in 0..MaxBytes /\ Len(s) <= n /\ Ordered(s) /\ n \in Nat
      /\ Len(s) \in Nat /\ \A i \in 1..Len(s) : Known(s[i]) /\ s[i] \in Int
    BY LogTailAssumption DEF Held
<1>2. \A i \in 1..Len(s) : Known(s[i])'
    BY <1>1, RotateFacts
<1>3. Ordered(s)'
    BY <1>1 DEF Ordered, Before, LineOf
<1>4. Rest(n)' = {}
    BY RotateFacts
<1>5. fresh => n <= Len(file') /\ n - Len(s) = 0 /\ Len(s) = 0
    BY <1>1, RotateFacts
<1>6. fresh => Boundary(n - Len(s))' /\ Done(n - Len(s))'
    BY <1>5, RotateFacts
<1> QED BY <1>1, <1>2, <1>3, <1>4, <1>5, <1>6 DEF Held

\* they still follow what was published.
LEMMA FollowsRotated ==
    ASSUME FileInv, Rotate, stream' = stream,
           NEW s, NEW n, NEW sure, NEW discard, Held(s, n, sure), Follows(s, n, sure, discard),
           NEW fresh, fresh => n <= 0
    PROVE  Follows(s, n, fresh, discard)'
<1>1. n \in Nat /\ Len(s) \in Nat /\ Len(s) <= n
    BY LogTailAssumption DEF Held
<1>2. Rest(n)' = {}
    BY RotateFacts
<1>3. fresh => n - Len(s) = 0
    BY <1>1
<1>4. fresh => Clean(n - Len(s))'
    BY <1>3, RotateFacts
<1> QED BY <1>2, <1>4 DEF Follows, LineOf

\* An offset is no longer sure, unless nothing was read;
LEMMA OffsetRotated ==
    ASSUME FileInv, Rotate, NEW o, OffsetInv(o)
    PROVE  OffsetInv(Archived(o))'
<1>1. /\ Archived(o).at = o.at /\ Archived(o).sure = (o.sure /\ o.at <= 0)
      /\ Archived(o) \in [at : -1..MaxBytes, sure : BOOLEAN]
    BY DEF Archived, OffsetInv
<1>2. o.at = -1 => Archived(o).sure
    BY <1>1 DEF OffsetInv
<1>3. ASSUME Archived(o).sure, Archived(o).at # -1
      PROVE  o.at = 0 /\ o.at <= Len(file') /\ Boundary(o.at)' /\ Done(o.at)'
  <2>1. o.at = 0
      BY <1>1, <1>3, LogTailAssumption DEF OffsetInv
  <2> QED BY <2>1, RotateFacts
<1> HIDE DEF Archived
<1> QED BY <1>1, <1>2, <1>3 DEF OffsetInv, Archived

\* nor is a cursor.
LEMMA CursorRotated ==
    ASSUME FileInv, Rotate, NEW c, CursorInv(c)
    PROVE  /\ CursorInv(ArchivedCursor(c))'
           /\ c = NoCursor => ArchivedCursor(c) = NoCursor
           /\ c # NoCursor => ArchivedCursor(c) # NoCursor
           /\ ArchivedCursor(c).read = c.read /\ ArchivedCursor(c).pending = c.pending
           /\ ArchivedCursor(c).committed = c.committed /\ ArchivedCursor(c).discard = c.discard
           /\ ArchivedCursor(c).sure = (c.sure /\ c.read <= 0)
<1> DEFINE a == ArchivedCursor(c)
<1>1. /\ a \in Cursors /\ a.read = c.read /\ a.pending = c.pending
      /\ a.committed = c.committed /\ a.discard = c.discard /\ a.sure = (c.sure /\ c.read <= 0)
    BY DEF ArchivedCursor, CursorInv, Cursors
<1>2. NoCursor.read = -1 /\ NoCursor.sure = TRUE
    BY DEF NoCursor
<1>3. CASE c = NoCursor
  <2> HIDE DEF a
  <2>0. c \in Cursors /\ c.read = -1 /\ c.sure = TRUE
      BY <1>2, <1>3 DEF CursorInv
  <2>1. a = c
      BY <1>1, <2>0 DEF Cursors
  <2>2. c \in Cursors /\ CursorInv(NoCursor)'
      BY <1>1, <1>3, <2>1 DEF CursorInv
  <2> QED BY <1>1, <1>3, <2>1, <2>2 DEF a
<1>4. CASE c # NoCursor
  <2>1. Held(c.pending, c.read, c.sure) /\ c.read \in Nat
      BY <1>4, LogTailAssumption DEF CursorInv, Held
  <2>2. a # NoCursor
      BY <1>1, <1>2, <2>1
  <2>3. Held(c.pending, c.read, a.sure)'
      BY <1>1, <2>1, HeldRotated
  <2> HIDE DEF a
  <2>4. a.sure => ~c.discard
    <3> SUFFICES ASSUME a.sure, c.discard PROVE FALSE
        OBVIOUS
    <3>0. a.sure = (c.sure /\ c.read <= 0)
        BY <1>1
    <3>1. c.sure /\ c.read <= 0
        BY <3>0, Zenon
    <3>2. c.read = 0
        BY <2>1, <3>1
    <3>3. Dropping(0)
        BY <1>4, <3>1, <3>2 DEF CursorInv
    <3> QED BY <3>3 DEF Dropping, Exempt
  <2>5. CursorInv(a)'
      BY <1>1, <1>4, <2>2, <2>3, <2>4 DEF CursorInv
  <2> QED BY <1>1, <1>4, <2>2, <2>5 DEF a
<1> QED BY <1>3, <1>4

-----------------------------------------------------------------------------
(* Every step keeps the invariant                                          *)

\* The invariant's parts, for a step that takes no step of the tick.
LEMMA WriteKeeps ==
    ASSUME IInv, Write
    PROVE  IInv'
<1>1. /\ FileInv /\ FloorInv /\ OffsetInv(offsets) /\ OffsetInv(disk)
      /\ CursorInv(cursor) /\ StreamInv /\ TickInv
    BY DEF IInv
<1>2. UNCHANGED <<cursor, offsets, dirty, disk, pc, d, own, want, buf, nxt,
                  stream, ingested, floor, faults>>
    BY DEF Write, saved, tick, ghosts
<1>3. PICK b \in Int : Grows(b)
    BY <1>1, WriteGrows
<1>4. Extends
    BY <1>1, <1>2, <1>3, WriteExtends
<1>5. FileInv'
    BY <1>1, FileWritten
<1>6. \A i \in (Len(file) + 1)..Len(file') :
          LineOf(file'[i]) \in Int /\ LineOf(file'[i]) > Len(lineLen)
  <2>1. /\ Len(file) \in Nat /\ Len(file') = Len(file) + 1 /\ file'[Len(file) + 1] = b
        /\ Writing = Len(lineLen) + 1 /\ Writing \in Nat
      BY <1>1, <1>3, GrownFacts
  <2>2. LineOf(b) = Writing
      BY <1>3 DEF Grows
  <2>3. \A i \in (Len(file) + 1)..Len(file') : i = Len(file) + 1
      BY <2>1
  <2>4. LineOf(b) \in Int /\ LineOf(b) > Len(lineLen)
      BY <2>1, <2>2, <1>1, FileFacts
  <2> QED BY <2>1, <2>3, <2>4
<1>7. FloorInv'
  <2>1. /\ Len(file) \in Nat /\ Len(file') = Len(file) + 1 /\ file'[Len(file) + 1] = b
        /\ Writing \in Nat /\ Writing' >= Writing /\ Writing' \in Nat
        /\ \A i \in 1..Len(file) : file[i] \in Int /\ file'[i] = file[i]
      BY <1>1, <1>3, GrownFacts
  <2>2. LineOf(b) = Writing
      BY <1>3 DEF Grows
  <2>3. /\ floor \in 0..MaxLines /\ floor <= Writing /\ floor' = floor
        /\ \A i \in 1..Len(file) : i > Len(file) - Backfill => floor <= LineOf(file[i])
      BY <1>1, <1>2 DEF FloorInv
  <2>4. \A i \in 1..Len(file') : i > Len(file') - Backfill => floor <= LineOf(file'[i])
    <3>1. \A i \in 1..Len(file) : i > Len(file') - Backfill => floor <= LineOf(file'[i])
        BY <2>1, <2>3, LogTailAssumption
    <3>2. floor <= LineOf(file'[Len(file) + 1])
        BY <2>1, <2>2, <2>3
    <3>3. \A i \in 1..Len(file') : i \in 1..Len(file) \/ i = Len(file) + 1
        BY <2>1
    <3> QED BY <3>1, <3>2, <3>3
  <2>5. floor <= Writing'
      BY <2>1, <2>3, LogTailAssumption
  <2> QED BY <2>3, <2>4, <2>5 DEF FloorInv, LineOf
<1>8. OffsetInv(offsets)' /\ OffsetInv(disk)' /\ CursorInv(cursor)'
    BY <1>1, <1>2, <1>4, OffsetKeeps, CursorKeeps
<1>9. StreamInv'
    BY <1>1, <1>2, <1>4, StreamKeeps, FileFacts, LogTailAssumption DEF Extends, FloorInv
<1>10. TickInv'
  <2>1. pc = "read" => CursorInv(d)' /\ FollowsCursor(d)'
    <3> SUFFICES ASSUME pc = "read" PROVE CursorInv(d)' /\ FollowsCursor(d)'
        OBVIOUS
    <3>1. CursorInv(d) /\ FollowsCursor(d) /\ d # NoCursor
        BY <1>1 DEF TickInv
    <3>2. Held(d.pending, d.read, d.sure)
        BY <3>1 DEF CursorInv
    <3> QED BY <1>1, <1>2, <1>4, <1>6, <3>1, <3>2, CursorKeeps, FollowsKeeps DEF FollowsCursor
  <2>2. pc = "publish" => Held(buf, nxt, d.sure)' /\ Follows(buf, nxt, d.sure, FALSE)'
      BY <1>1, <1>2, <1>4, <1>6, HeldKeeps, FollowsKeeps DEF TickInv
  <2>3. pc \notin {"read", "publish"} /\ cursor # NoCursor => FollowsCursor(cursor)'
    <3> SUFFICES ASSUME pc \notin {"read", "publish"}, cursor # NoCursor
                 PROVE  FollowsCursor(cursor)'
        OBVIOUS
    <3>1. Held(cursor.pending, cursor.read, cursor.sure) /\ FollowsCursor(cursor)
        BY <1>1 DEF CursorInv, TickInv
    <3> QED BY <1>1, <1>2, <1>4, <1>6, <3>1, FollowsKeeps DEF FollowsCursor
  <2> QED BY <1>1, <1>2, <2>1, <2>2, <2>3 DEF TickInv
<1> QED BY <1>5, <1>7, <1>8, <1>9, <1>10 DEF IInv

\* Rotate keeps the invariant.
LEMMA RotateKeeps ==
    ASSUME IInv, Rotate
    PROVE  IInv'
<1>1. /\ FileInv /\ FloorInv /\ OffsetInv(offsets) /\ OffsetInv(disk)
      /\ CursorInv(cursor) /\ StreamInv /\ TickInv
    BY DEF IInv
<1>2. /\ UNCHANGED <<dirty, pc, own, want, buf, nxt, stream, ingested, floor, faults>>
      /\ cursor' = ArchivedCursor(cursor) /\ offsets' = Archived(offsets) /\ disk' = Archived(disk)
      /\ d' = [ArchivedCursor(d) EXCEPT !.sure = @ /\ pc # "publish"]
    BY DEF Rotate, ghosts
<1>3. FileInv'
    BY <1>1, FileRotated
<1>4. FloorInv'
  <2>1. Writing' >= Writing /\ Writing' \in Nat /\ Writing \in Nat /\ Len(file') = 0
      BY <1>1, FileRotated, FileFacts
  <2>2. floor \in 0..MaxLines /\ floor <= Writing /\ floor' = floor
      BY <1>1, <1>2 DEF FloorInv
  <2>3. floor <= Writing'
      BY <2>1, <2>2, LogTailAssumption
  <2> QED BY <2>1, <2>2, <2>3 DEF FloorInv
<1>5. OffsetInv(offsets)' /\ OffsetInv(disk)'
    BY <1>1, <1>2, OffsetRotated
<1>6. CursorInv(cursor)' /\ (cursor' = NoCursor <=> cursor = NoCursor)
    BY <1>1, <1>2, CursorRotated
<1>7. StreamInv'
    BY <1>1, <1>2, RotateFacts, StreamKeeps, FileFacts, LogTailAssumption DEF FloorInv
<1>8. d \in Cursors
    BY <1>1 DEF TickInv
<1>9. /\ d' \in Cursors /\ d'.read = d.read /\ d'.pending = d.pending /\ d'.discard = d.discard
      /\ d'.committed = d.committed /\ d'.sure = (d.sure /\ d.read <= 0 /\ pc # "publish")
      /\ pc # "publish" => d' = ArchivedCursor(d)
    BY <1>2, <1>8 DEF ArchivedCursor, Cursors
<1>10. d' = NoCursor <=> d = NoCursor
  <2>1. NoCursor.sure = TRUE /\ NoCursor.read = -1
      BY DEF NoCursor
  <2>2. CASE pc = "publish"
      BY <1>1, <1>9, <2>1, <2>2 DEF TickInv
  <2>3. CASE pc = "read"
      BY <1>1, <1>9, <2>3, CursorRotated DEF TickInv
  <2>4. CASE pc \notin {"read", "publish"}
    <3>1. d = NoCursor /\ CursorInv(d)
        BY <1>1, <2>4 DEF TickInv, CursorInv
    <3> QED BY <1>1, <1>9, <2>4, <3>1, CursorRotated
  <2> QED BY <2>2, <2>3, <2>4
<1>11. pc = "read" => CursorInv(d)' /\ FollowsCursor(d)' /\ (own => cursor' = d')
  <2> SUFFICES ASSUME pc = "read" PROVE CursorInv(d)' /\ FollowsCursor(d)' /\ (own => cursor' = d')
      OBVIOUS
  <2>1. /\ CursorInv(d) /\ FollowsCursor(d) /\ d # NoCursor /\ (own => cursor = d)
        /\ d' = ArchivedCursor(d)
      BY <1>1, <1>9 DEF TickInv
  <2>2. CursorInv(d)'
      BY <1>1, <2>1, CursorRotated
  <2>3. Held(d.pending, d.read, d.sure)
      BY <2>1 DEF CursorInv
  <2>4. Follows(d.pending, d.read, d.sure, d.discard)'
      BY <1>1, <1>2, <1>9, <2>1, <2>3, FollowsRotated DEF FollowsCursor
  <2> QED BY <1>2, <2>1, <2>2, <2>4 DEF FollowsCursor
<1>12. pc = "publish" => Held(buf, nxt, d.sure)' /\ Follows(buf, nxt, d.sure, FALSE)'
    BY <1>1, <1>2, <1>9, HeldRotated, FollowsRotated DEF TickInv
<1>13. pc \notin {"read", "publish"} /\ cursor # NoCursor => FollowsCursor(cursor)'
  <2> SUFFICES ASSUME pc \notin {"read", "publish"}, cursor # NoCursor PROVE FollowsCursor(cursor)'
      OBVIOUS
  <2>1. Held(cursor.pending, cursor.read, cursor.sure) /\ FollowsCursor(cursor)
      BY <1>1 DEF CursorInv, TickInv
  <2>2. /\ cursor'.read = cursor.read /\ cursor'.pending = cursor.pending
        /\ cursor'.discard = cursor.discard /\ cursor'.sure = (cursor.sure /\ cursor.read <= 0)
      BY <1>1, <1>2, CursorRotated
  <2>3. Follows(cursor.pending, cursor.read, cursor.sure, cursor.discard)'
      BY <1>1, <1>2, <2>1, <2>2, FollowsRotated DEF FollowsCursor
  <2> QED BY <2>3 DEF FollowsCursor
<1>14. TickInv'
    BY <1>1, <1>2, <1>6, <1>9, <1>10, <1>11, <1>12, <1>13 DEF TickInv
<1> QED BY <1>3, <1>4, <1>5, <1>6, <1>7, <1>14 DEF IInv

\* A cursor is put into the map.
LEMMA EnsureFacts ==
    ASSUME FileInv, FloorInv, NEW o, OffsetInv(o), UNCHANGED log, EnsureCursor(o)
    PROVE  /\ Extends /\ FileInv' /\ FloorInv' /\ StreamInv'
           /\ CursorInv(cursor)' /\ FollowsCursor(cursor)' /\ cursor' # NoCursor
           /\ stream' = <<>> /\ ingested' = ingested
<1> DEFINE size == Len(file)
           sure == o = NoOffset \/ o.sure
<1>0. /\ size \in Nat /\ size <= MaxBytes /\ \A i \in 1..size : file[i] \in Int /\ Known(file[i])
      /\ floor \in Nat /\ floor \in 0..MaxLines /\ Backfill \in Nat \ {0} /\ MaxBytes \in Nat
      /\ MaxLines \in Nat
    BY FileFacts, LogTailAssumption DEF FileInv, FileTypes, FloorInv
<1>1. o = NoOffset \/ o.at \in Nat
    BY LogTailAssumption DEF OffsetInv, NoOffset
<1>2. PICK at \in 0..size :
        /\ cursor' = [read |-> at, committed |-> at, pending |-> <<>>,
                      discard |-> o = NoOffset /\ at > 0, sure |-> sure]
        /\ floor' = IF o = NoOffset /\ at > 0 THEN LineOf(file[at + 1]) ELSE floor
        /\ o = NoOffset /\ at > 0 => at = size - Backfill /\ at + 1 \in 1..size
        /\ o # NoOffset => at = (IF o.at < size THEN o.at ELSE size)
  <2> DEFINE p == IF o = NoOffset THEN size - Lesser(size, Backfill) ELSE Lesser(o.at, size)
  <2>1. /\ p \in 0..size
        /\ o = NoOffset /\ p > 0 => p = size - Backfill /\ p + 1 \in 1..size
        /\ o # NoOffset => p = (IF o.at < size THEN o.at ELSE size)
      BY <1>0, <1>1 DEF Lesser
  <2>2. /\ cursor' = [read |-> p, committed |-> p, pending |-> <<>>,
                      discard |-> o = NoOffset /\ p > 0, sure |-> sure]
        /\ floor' = IF o = NoOffset /\ p > 0 THEN LineOf(file[p + 1]) ELSE floor
      BY DEF EnsureCursor
  <2> HIDE DEF p
  <2> QED BY <2>1, <2>2
<1>3. stream' = <<>> /\ ingested' = ingested /\ file' = file /\ lineLen' = lineLen
    BY DEF EnsureCursor, log
<1>4. at \in Nat /\ at <= size
    BY <1>0
<1>5. \A i \in 1..size : LineOf(file[i]) \in 1..MaxLines /\ LineOf(file[i]) <= Writing
    BY <1>0, <1>4, FileFacts DEF Known, LineOf
<1>6. /\ floor' \in 0..MaxLines /\ floor <= floor' /\ floor' <= Writing
      /\ o = NoOffset /\ at > 0 => floor' = LineOf(file[at + 1])
  <2>1. floor <= Writing
      BY DEF FloorInv
  <2>2. CASE o = NoOffset /\ at > 0
    <3>1. floor' = LineOf(file[at + 1]) /\ at + 1 \in 1..size /\ at + 1 > size - Backfill
        BY <1>0, <1>2, <1>4, <1>3, <2>2
    <3>2. floor <= LineOf(file[at + 1])
        BY <3>1 DEF FloorInv
    <3> QED BY <1>0, <1>2, <1>4, <1>5, <3>1, <3>2
  <2> QED BY <1>2, <1>3, <1>0, <1>4, <2>1, <2>2
<1>7. Extends /\ FileInv'
    BY <1>2, <1>3, <1>0, <1>4, <1>6, SameExtends
<1>8. FloorInv'
  <2>1. ASSUME NEW i \in 1..size, i > size - Backfill PROVE floor' <= LineOf(file[i])
    <3>1. CASE o = NoOffset /\ at > 0
      <4>1. at + 1 \in 1..size /\ (i = at + 1 \/ at + 1 < i)
          BY <1>0, <1>2, <1>4, <2>1, <3>1
      <4>2. LineOf(file[at + 1]) <= LineOf(file[i])
          BY <1>5, <4>1 DEF FileInv, Ordered, Before
      <4> QED BY <1>6, <3>1, <4>2
    <3>2. CASE ~(o = NoOffset /\ at > 0)
        BY <1>2, <1>3, <2>1, <3>2 DEF FloorInv
    <3> QED BY <3>1, <3>2
  <2>2. Writing' = Writing
      BY <1>2, <1>3 DEF Writing
  <2> QED BY <1>2, <1>3, <1>6, <2>1, <2>2 DEF FloorInv, LineOf
<1>9. ASSUME sure
      PROVE  Boundary(at)' /\ Done(at)'
  <2>1. CASE o = NoOffset /\ at > 0
    <3>1. at \in 1..(size - 1) /\ floor' = LineOf(file[at + 1]) /\ at + 1 \in 1..size
        BY <1>0, <1>2, <1>4, <1>6, <2>1
    <3>2. \A i \in 1..at : LineOf(file[i]) <= floor'
        BY <1>0, <1>2, <1>4, <3>1 DEF FileInv, Ordered, Before
    <3>3. \A i \in 1..at : file[i] < 0 => -file[i] <= floor'
        BY <1>0, <1>2, <1>4, <3>1, <3>2 DEF LineOf
    <3>4. Done(at)'
      <4>1. \A i \in 1..Len(file) : i <= at => i \in 1..at
          BY <1>0, <1>2, <1>4, <3>1
      <4> QED BY <1>2, <1>3, <3>3, <4>1 DEF Done
    <3>5. Boundary(at)'
      <4>1. file[at] \in Int /\ file[at] # 0 /\ (file[at] > 0 => file[at] <= floor')
          BY <1>0, <1>2, <1>4, <1>5, <3>1, <3>2 DEF LineOf
      <4> QED BY <1>2, <1>3, <3>1, <4>1 DEF Boundary, Clean, Exempt
    <3> QED BY <3>4, <3>5
  <2>2. CASE at = 0
    <3>1. \A i \in 1..Len(file) : ~(i <= at)
        BY <1>0, <1>2, <1>4, <2>2
    <3> QED BY <1>2, <1>3, <2>2, <3>1 DEF Boundary, Clean, Done
  <2>3. CASE o # NoOffset /\ at > 0
    <3>1. o.at # -1 /\ o.sure
        BY <1>1, <1>9, <2>3
    <3>2. o.at <= size /\ Boundary(o.at) /\ Done(o.at)
        BY <3>1 DEF OffsetInv
    <3>3. at = o.at
        BY <1>0, <1>1, <1>2, <2>3, <3>2
    <3> QED BY <1>4, <1>7, <3>2, <3>3, PlacesKeep
  <2> QED BY <1>0, <1>2, <1>4, <2>1, <2>2, <2>3
<1>10. cursor'.read = at /\ cursor'.committed = at /\ cursor'.pending = <<>>
       /\ cursor'.discard = (o = NoOffset /\ at > 0) /\ cursor'.sure = sure
       /\ cursor' \in Cursors
  <2>1. o.sure \in BOOLEAN /\ at \in Int /\ <<>> \in Seq(Int)
      BY <1>0, <1>2, <1>4, EmptySeq DEF OffsetInv
  <2> QED BY <1>2, <1>3, <2>1 DEF Cursors
<1>11. Held(<<>>, at, sure)'
  <2>1. <<>> \in Seq(Int) /\ Len(<<>>) = 0 /\ 1..Len(<<>>) = {} /\ at - Len(<<>>) = at
      BY <1>0, <1>2, <1>4, EmptySeq
  <2>2. sure => Boundary(at - Len(<<>>))' /\ Done(at - Len(<<>>))'
      BY <1>9, <1>10, <2>1
  <2>3. at \in 0..MaxBytes /\ Len(<<>>) <= at /\ at <= Len(file')
      BY <1>0, <1>2, <1>4, <1>3, <2>1
  <2> QED BY <2>1, <2>2, <2>3 DEF Held, Ordered
<1>12. sure /\ o = NoOffset /\ at > 0 => Dropping(at)'
  <2> SUFFICES ASSUME o = NoOffset, at > 0 PROVE Dropping(at)'
      OBVIOUS
  <2>1. at \in 1..(Len(file') - 1) /\ floor' = LineOf(file'[at + 1])
      BY <1>0, <1>2, <1>4, <1>3, <1>6
  <2>2. LineOf(file'[at + 1]) <= floor'
      BY <1>6, <2>1, LogTailAssumption
  <2> QED BY <2>1, <2>2 DEF Dropping, LineOf
<1>13. cursor' # NoCursor
    BY <1>0, <1>2, <1>4, <1>10 DEF NoCursor
<1>14. CursorInv(cursor)'
  <2>1. Len(<<>>) = 0 /\ at + Len(<<>>) = at /\ Len(<<>>) <= MaxPending
      BY <1>0, <1>2, <1>4, LogTailAssumption, EmptySeq
  <2> QED BY <1>10, <1>11, <1>12, <1>13, <2>1 DEF CursorInv
<1>15. StreamInv' /\ FollowsCursor(cursor)'
  <2>1. <<>> \in Seq(Entries) /\ 1..Len(stream') = {} /\ stream' = <<>>
      BY <1>2, <1>3, EmptySeq
  <2> QED BY <2>1 DEF StreamInv, FollowsCursor, Follows
<1> QED BY <1>2, <1>3, <1>7, <1>8, <1>13, <1>14, <1>15

\* The invariant's parts, spelled out for a step.
LEMMA Parts ==
    ASSUME IInv
    PROVE  /\ FileInv /\ FloorInv /\ OffsetInv(offsets) /\ OffsetInv(disk)
           /\ CursorInv(cursor) /\ StreamInv /\ TickInv
           /\ floor \in Nat /\ ingested \subseteq 1..MaxLines
           /\ faults \in 0..MaxFaults /\ MaxPending \in Nat \ {0}
<1>1. /\ FileInv /\ FloorInv /\ OffsetInv(offsets) /\ OffsetInv(disk)
      /\ CursorInv(cursor) /\ StreamInv /\ TickInv
    BY DEF IInv
<1>2. ingested \subseteq 1..MaxLines /\ faults \in 0..MaxFaults
    BY <1>1 DEF TickInv
<1>3. floor \in Nat
    BY <1>1, LogTailAssumption DEF FloorInv
<1> QED BY <1>1, <1>2, <1>3, LogTailAssumption

\* A fault is counted.
LEMMA FaultTypes ==
    ASSUME NEW kind, faults \in 0..MaxFaults, Fault(kind) PROVE faults' \in 0..MaxFaults
BY LogTailAssumption DEF Fault

\* No offset is an offset.
LEMMA NoOffsetInv == OffsetInv(NoOffset)
BY LogTailAssumption DEF OffsetInv, NoOffset

\* No cursor is a cursor.
LEMMA NoCursorInv == CursorInv(NoCursor) /\ NoCursor \in Cursors
BY EmptySeq DEF CursorInv, NoCursor, Cursors

\* Boot keeps the invariant.
LEMMA BootKeeps ==
    ASSUME IInv, Boot
    PROVE  IInv'
<1>1. PICK o \in {disk, NoOffset} : offsets' = o /\ EnsureCursor(o)
    BY DEF Boot, EnsureCursor
<1>2. OffsetInv(o)
    BY <1>1, Parts, NoOffsetInv
<1>3. UNCHANGED log /\ UNCHANGED <<disk, d, own, want, buf, nxt>> /\ pc' = "idle" /\ dirty' = FALSE
    BY DEF Boot
<1>4. /\ Extends /\ FileInv' /\ FloorInv' /\ StreamInv'
      /\ CursorInv(cursor)' /\ FollowsCursor(cursor)' /\ cursor' # NoCursor
      /\ stream' = <<>> /\ ingested' = ingested
    BY <1>1, <1>2, <1>3, Parts, EnsureFacts
<1>5. OffsetInv(o)' /\ OffsetInv(disk)'
    BY <1>2, <1>3, <1>4, Parts, OffsetKeeps
<1>6. OffsetInv(offsets)'
    BY <1>1, <1>5
<1>7. faults' \in 0..MaxFaults
    BY Parts, FaultTypes DEF Boot
<1>8. TickInv'
  <2>1. pc = "down" /\ d = NoCursor
      BY Parts DEF Boot, TickInv
  <2> QED BY <1>3, <1>4, <1>7, <2>1, Parts DEF TickInv
<1> QED BY <1>4, <1>5, <1>6, <1>8 DEF IInv

\* Catalog keeps the invariant: a tick in progress does not own the new cursor.
LEMMA CatalogKeeps ==
    ASSUME IInv, Catalog
    PROVE  IInv'
<1>1. PICK o : o = offsets /\ EnsureCursor(o) /\ OffsetInv(o)
    BY Parts DEF Catalog
<1>2. UNCHANGED log /\ UNCHANGED <<offsets, dirty, disk, pc, d, own, want, buf, nxt, faults>>
    BY DEF Catalog, saved, tick
<1>3. /\ Extends /\ FileInv' /\ FloorInv' /\ StreamInv'
      /\ CursorInv(cursor)' /\ FollowsCursor(cursor)' /\ cursor' # NoCursor
      /\ stream' = <<>> /\ ingested' = ingested
    BY <1>1, <1>2, Parts, EnsureFacts
<1>4. OffsetInv(offsets)' /\ OffsetInv(disk)'
    BY <1>2, <1>3, Parts, OffsetKeeps
<1>5. pc = "read" => CursorInv(d)' /\ FollowsCursor(d)' /\ (own => cursor' = d')
  <2>1. \A j \in 1..Len(stream') : FALSE
      BY <1>3, EmptySeq
  <2>2. FollowsCursor(d)'
      BY <1>3, <2>1 DEF FollowsCursor, Follows
  <2>3. pc = "read" => ~own
      BY Parts DEF Catalog, TickInv
  <2> QED BY <1>2, <1>3, <2>2, <2>3, Parts, CursorKeeps DEF TickInv
<1>6. pc = "publish" => Held(buf, nxt, d.sure)' /\ Follows(buf, nxt, d.sure, FALSE)'
  <2>1. \A j \in 1..Len(stream') : FALSE
      BY <1>3, EmptySeq
  <2>2. Follows(buf, nxt, d.sure, FALSE)'
      BY <1>3, <2>1 DEF Follows
  <2> QED BY <1>2, <1>3, <2>2, Parts, HeldKeeps DEF TickInv
<1>7. TickInv'
    BY <1>2, <1>3, <1>5, <1>6, Parts DEF TickInv
<1> QED BY <1>3, <1>4, <1>7 DEF IInv

\* A step that leaves the file and the backfill floor alone.
LEMMA QuietFacts ==
    ASSUME IInv, UNCHANGED log, floor' = floor, ingested \subseteq ingested'
    PROVE  /\ Extends /\ FileInv' /\ FloorInv'
           /\ \A i \in (Len(file) + 1)..Len(file') :
                  LineOf(file'[i]) \in Int /\ LineOf(file'[i]) > Len(lineLen)
           /\ stream' \in {stream, <<>>} => StreamInv'
<1>1. Extends /\ FileInv'
    BY Parts, SameExtends
<1>2. file' = file /\ lineLen' = lineLen /\ Writing' = Writing
    BY DEF log, Writing
<1>3. FloorInv'
    BY <1>2, Parts DEF FloorInv
<1>4. \A i \in (Len(file) + 1)..Len(file') : FALSE
    BY <1>2, Parts, FileFacts
<1>5. stream' = stream => StreamInv'
    BY <1>2, Parts, FileFacts, StreamKeeps
<1>6. stream' = <<>> => StreamInv'
  <2>1. <<>> \in Seq(Entries) /\ Len(<<>>) = 0 /\ 1..Len(<<>>) = {}
      BY EmptySeq
  <2> QED BY <2>1 DEF StreamInv
<1> QED BY <1>1, <1>3, <1>4, <1>5, <1>6

\* Uncatalog keeps the invariant.
LEMMA UncatalogKeeps ==
    ASSUME IInv, Uncatalog
    PROVE  IInv'
<1>1. /\ UNCHANGED log
      /\ UNCHANGED <<offsets, dirty, disk, pc, d, want, buf, nxt, stream, ingested, floor>>
      /\ cursor' = NoCursor /\ own' = FALSE /\ faults' \in 0..MaxFaults
    BY Parts, FaultTypes DEF Uncatalog, saved, ghosts
<1>2. /\ Extends /\ FileInv' /\ FloorInv' /\ StreamInv'
      /\ \A i \in (Len(file) + 1)..Len(file') :
             LineOf(file'[i]) \in Int /\ LineOf(file'[i]) > Len(lineLen)
    BY <1>1, QuietFacts
<1>3. OffsetInv(offsets)' /\ OffsetInv(disk)'
    BY <1>1, <1>2, Parts, OffsetKeeps
<1>4. CursorInv(cursor)'
    BY <1>1, <1>2, Parts, NoCursorInv, CursorKeeps
<1>5. pc = "read" => CursorInv(d)' /\ FollowsCursor(d)'
  <2> SUFFICES ASSUME pc = "read" PROVE CursorInv(d)' /\ FollowsCursor(d)'
      OBVIOUS
  <2>1. CursorInv(d) /\ FollowsCursor(d) /\ d # NoCursor
      BY Parts DEF TickInv
  <2>2. Held(d.pending, d.read, d.sure)
      BY <2>1 DEF CursorInv
  <2> QED BY <1>1, <1>2, <2>1, <2>2, Parts, CursorKeeps, FollowsKeeps DEF FollowsCursor
<1>6. pc = "publish" => Held(buf, nxt, d.sure)' /\ Follows(buf, nxt, d.sure, FALSE)'
    BY <1>1, <1>2, Parts, HeldKeeps, FollowsKeeps DEF TickInv
<1>7. TickInv'
    BY <1>1, <1>5, <1>6, Parts DEF TickInv
<1> QED BY <1>2, <1>3, <1>4, <1>7 DEF IInv

\* So does the end of the backend, whatever it left on disk:
LEMMA DownKeeps ==
    ASSUME IInv, Down, disk' \in {disk, offsets}, faults' \in 0..MaxFaults
    PROVE  IInv'
<1>1. /\ UNCHANGED log /\ stream' = <<>> /\ ingested' = ingested /\ floor' = floor
      /\ cursor' = NoCursor /\ offsets' = NoOffset /\ pc' = "down" /\ dirty' = FALSE
      /\ d' = NoCursor /\ own' = FALSE /\ want' = 0 /\ nxt' = 0
    BY DEF Down
<1>2. Extends /\ FileInv' /\ FloorInv' /\ StreamInv'
    BY <1>1, QuietFacts
<1>3. PICK o \in {disk, offsets} : disk' = o
    OBVIOUS
<1>4. OffsetInv(o)' /\ OffsetInv(NoOffset)' /\ CursorInv(NoCursor)'
    BY <1>2, <1>3, Parts, NoOffsetInv, NoCursorInv, OffsetKeeps, CursorKeeps
<1>5. OffsetInv(disk)' /\ OffsetInv(offsets)' /\ CursorInv(cursor)'
    BY <1>1, <1>3, <1>4
<1>6. TickInv'
  <2>1. 0 \in 0..Chunk /\ 0 \in 0..MaxBytes
      BY LogTailAssumption
  <2>2. ingested' \subseteq 1..MaxLines
      BY <1>1, Parts
  <2>3. d' \in Cursors /\ (d' = NoCursor <=> pc' \notin {"read", "publish"})
      BY <1>1, NoCursorInv
  <2>4. pc' # "read" /\ pc' # "publish" /\ ~(cursor' # NoCursor)
      BY <1>1
  <2> QED BY <1>1, <2>1, <2>2, <2>3, <2>4 DEF TickInv
<1> QED BY <1>2, <1>5, <1>6 DEF IInv

\* a stop and a crash.
LEMMA StopCrashKeep ==
    ASSUME IInv, Stop \/ Crash
    PROVE  IInv'
BY Parts, FaultTypes, DownKeeps DEF Stop, Crash

\* A cursor that is as good as before.
LEMMA QuietCursor ==
    ASSUME IInv, UNCHANGED log, floor' = floor, ingested' = ingested, stream' = stream,
           NEW c, c # NoCursor, CursorInv(c), FollowsCursor(c)
    PROVE  CursorInv(c)' /\ FollowsCursor(c)'
<1>1. /\ Extends /\ \A i \in (Len(file) + 1)..Len(file') :
             LineOf(file'[i]) \in Int /\ LineOf(file'[i]) > Len(lineLen)
    BY QuietFacts
<1>2. Held(c.pending, c.read, c.sure)
    BY DEF CursorInv
<1> QED BY <1>1, <1>2, Parts, CursorKeeps, FollowsKeeps DEF FollowsCursor

\* Nothing has been published yet that anything must follow.
LEMMA FollowsNothing ==
    ASSUME stream' = <<>>, NEW s, NEW n, NEW sure, NEW discard
    PROVE  Follows(s, n, sure, discard)'
<1>1. 1..Len(stream') = {} /\ ~(stream' # <<>>)
    OBVIOUS
<1> QED BY <1>1 DEF Follows

\* The cursor that a rotated file is read with, from its beginning.
LEMMA StartFacts ==
    ASSUME IInv, pc \notin {"read", "publish"}, cursor # NoCursor, Len(file) < cursor.read
    PROVE  Start # NoCursor /\ CursorInv(Start) /\ FollowsCursor(Start)
<1>1. /\ Start \in Cursors /\ Start.read = 0 /\ Start.committed = 0 /\ Start.pending = <<>>
      /\ Start.discard = FALSE /\ Start.sure = TRUE /\ Start # NoCursor
    BY EmptySeq DEF Start, NoCursor, Cursors
<1>2. <<>> \in Seq(Int) /\ Len(<<>>) = 0 /\ 1..Len(<<>>) = {} /\ 0 - Len(<<>>) = 0
  <2>1. <<>> \in Seq(Int)
      BY EmptySeq
  <2>2. Len(<<>>) = 0
      OBVIOUS
  <2>3. 1..0 = {} /\ 0 - 0 = 0
      OBVIOUS
  <2> QED BY <2>1, <2>2, <2>3
<1>3. Clean(0) /\ Boundary(0)
    BY DEF Boundary, Clean
<1>4. Done(0)
  <2>1. \A i \in 1..Len(file) : ~(i <= 0)
      OBVIOUS
  <2> QED BY <2>1 DEF Done
<1>5. Len(file) \in Nat /\ 0 <= Len(file) /\ 0 \in 0..MaxBytes
    BY Parts, FileFacts, LogTailAssumption
<1>6. Held(<<>>, 0, TRUE)
    BY <1>2, <1>3, <1>4, <1>5 DEF Held, Ordered
<1>7. CursorInv(Start)
  <2>1. 0 + Len(<<>>) = 0 /\ Len(<<>>) <= MaxPending
      BY <1>2, LogTailAssumption
  <2> QED BY <1>1, <1>6, <2>1 DEF CursorInv
<1>8. FollowsCursor(Start)
  <2>1. FollowsCursor(cursor)
      BY Parts DEF TickInv
  <2>2. \A q \in Rest(0) : q \in Rest(cursor.read)
      BY DEF Rest
  <2>3. Follows(<<>>, 0, TRUE, FALSE)
      BY <1>2, <1>3, <2>1, <2>2 DEF FollowsCursor, Follows
  <2> QED BY <1>1, <2>3 DEF FollowsCursor
<1> QED BY <1>1, <1>7, <1>8

\* Stat keeps the invariant.
LEMMA StatKeeps ==
    ASSUME IInv, Stat
    PROVE  IInv'
<1>1. PICK c :
        /\ c = IF Len(file) < cursor.read THEN Start ELSE cursor
        /\ cursor' = c
        /\ \/ /\ Len(file) > c.read
              /\ pc' = "read" /\ d' = c /\ own' = TRUE
              /\ want' = Lesser(Chunk, Len(file) - c.read)
           \/ pc' = "persist" /\ UNCHANGED <<d, own, want>>
    BY DEF Stat
<1>2. /\ UNCHANGED log /\ UNCHANGED <<offsets, dirty, disk, buf, nxt, faults>>
      /\ floor' = floor /\ stream' = stream /\ ingested' = ingested
      /\ pc \in {"idle", "next"} /\ cursor # NoCursor
    BY DEF Stat, saved, ghosts
<1>3. c # NoCursor /\ CursorInv(c) /\ FollowsCursor(c)
    BY <1>1, <1>2, StartFacts, Parts DEF TickInv
<1>4. CursorInv(c)' /\ FollowsCursor(c)'
    BY <1>2, <1>3, QuietCursor
<1>5. Extends /\ FileInv' /\ FloorInv' /\ StreamInv'
    BY <1>2, QuietFacts
<1>6. OffsetInv(offsets)' /\ OffsetInv(disk)' /\ CursorInv(cursor)' /\ FollowsCursor(cursor)'
    BY <1>1, <1>2, <1>4, <1>5, Parts, OffsetKeeps DEF FollowsCursor
<1>7. TickInv'
  <2>1. CASE pc' = "read"
    <3>1. d' = c /\ own' = TRUE /\ want' = Lesser(Chunk, Len(file) - c.read) /\ Len(file) > c.read
        BY <1>1, <2>1
    <3>2. want' \in 0..Chunk
      <4>1. c.read \in Nat /\ Len(file) \in Nat
          BY <1>3, Parts, FileFacts, LogTailAssumption DEF CursorInv, Held
      <4> QED BY <3>1, <4>1, LogTailAssumption DEF Lesser
    <3>3. CursorInv(d)' /\ FollowsCursor(d)'
        BY <1>4, <3>1 DEF FollowsCursor
    <3>4. d' \in Cursors /\ d' # NoCursor
        BY <1>3, <3>1 DEF CursorInv
    <3>5. /\ dirty' \in BOOLEAN /\ nxt' \in 0..MaxBytes /\ ingested' \subseteq 1..MaxLines
          /\ faults' \in 0..MaxFaults
        BY <1>2, Parts DEF TickInv
    <3> QED BY <1>1, <2>1, <3>1, <3>2, <3>3, <3>4, <3>5 DEF TickInv
  <2>2. CASE pc' = "persist" /\ UNCHANGED <<d, own, want>>
      BY <1>2, <1>6, <2>2, Parts DEF TickInv
  <2> QED BY <1>1, <2>1, <2>2
<1> QED BY <1>5, <1>6, <1>7 DEF IInv

\* NoneToDrain keeps the invariant.
LEMMA NoneToDrainKeeps ==
    ASSUME IInv, NoneToDrain
    PROVE  IInv'
<1>1. /\ UNCHANGED log /\ UNCHANGED <<cursor, offsets, dirty, disk, d, own, want, buf, nxt, faults>>
      /\ floor' = floor /\ stream' = stream /\ ingested' = ingested
      /\ pc \in {"idle", "next"} /\ pc' = "persist" /\ cursor = NoCursor
    BY DEF NoneToDrain, saved, ghosts
<1>2. Extends /\ FileInv' /\ FloorInv' /\ StreamInv'
    BY <1>1, QuietFacts
<1>3. OffsetInv(offsets)' /\ OffsetInv(disk)' /\ CursorInv(cursor)'
    BY <1>1, <1>2, Parts, OffsetKeeps, CursorKeeps
<1>4. TickInv'
    BY <1>1, Parts DEF TickInv
<1> QED BY <1>2, <1>3, <1>4 DEF IInv

\* Persist keeps the invariant: all of the offset is saved, or nothing.
LEMMA PersistKeeps ==
    ASSUME IInv, Persist
    PROVE  IInv'
<1>1. /\ UNCHANGED log /\ UNCHANGED <<cursor, offsets, d, own, want, buf, nxt>>
      /\ floor' = floor /\ stream' = stream /\ ingested' = ingested
      /\ pc = "persist" /\ pc' = "idle"
    BY DEF Persist, ghosts
<1>2. PICK o \in {disk, offsets} : disk' = o
    BY DEF Persist
<1>3. dirty' \in BOOLEAN /\ faults' \in 0..MaxFaults
    BY Parts, FaultTypes DEF Persist, TickInv
<1>4. /\ Extends /\ FileInv' /\ FloorInv' /\ StreamInv'
    BY <1>1, QuietFacts
<1>5. OffsetInv(o)' /\ OffsetInv(offsets)' /\ CursorInv(cursor)'
    BY <1>1, <1>2, <1>4, Parts, OffsetKeeps, CursorKeeps
<1>6. OffsetInv(disk)'
    BY <1>2, <1>5
<1>7. cursor # NoCursor => FollowsCursor(cursor)'
  <2> SUFFICES ASSUME cursor # NoCursor PROVE FollowsCursor(cursor)'
      OBVIOUS
  <2>1. PICK c : c = cursor /\ CursorInv(c) /\ FollowsCursor(c)
      BY <1>1, Parts DEF TickInv
  <2>2. FollowsCursor(c)'
      BY <1>1, <2>1, QuietCursor
  <2> QED BY <1>1, <2>1, <2>2 DEF FollowsCursor
<1>8. TickInv'
    BY <1>1, <1>3, <1>7, Parts DEF TickInv
<1> QED BY <1>4, <1>5, <1>6, <1>8 DEF IInv

\* A step of others keeps the invariant.
LEMMA StutterKeeps ==
    ASSUME IInv, UNCHANGED vars
    PROVE  IInv'
<1>1. /\ UNCHANGED log
      /\ UNCHANGED <<cursor, offsets, dirty, disk, pc, d, own, want, buf, nxt, faults>>
      /\ floor' = floor /\ stream' = stream /\ ingested' = ingested
    BY DEF vars, saved, tick, ghosts
<1>2. /\ Extends /\ FileInv' /\ FloorInv' /\ StreamInv'
      /\ \A i \in (Len(file) + 1)..Len(file') :
             LineOf(file'[i]) \in Int /\ LineOf(file'[i]) > Len(lineLen)
    BY <1>1, QuietFacts
<1>3. OffsetInv(offsets)' /\ OffsetInv(disk)' /\ CursorInv(cursor)'
    BY <1>1, <1>2, Parts, OffsetKeeps, CursorKeeps
<1>4. pc = "read" => CursorInv(d)' /\ FollowsCursor(d)'
  <2> SUFFICES ASSUME pc = "read" PROVE CursorInv(d)' /\ FollowsCursor(d)'
      OBVIOUS
  <2>1. PICK c : c = d /\ CursorInv(c) /\ FollowsCursor(c) /\ c # NoCursor
      BY Parts DEF TickInv
  <2>2. CursorInv(c)' /\ FollowsCursor(c)'
      BY <1>1, <2>1, QuietCursor
  <2> QED BY <1>1, <2>1, <2>2 DEF FollowsCursor
<1>5. pc = "publish" => Held(buf, nxt, d.sure)' /\ Follows(buf, nxt, d.sure, FALSE)'
    BY <1>1, <1>2, Parts, HeldKeeps, FollowsKeeps DEF TickInv
<1>6. pc \notin {"read", "publish"} /\ cursor # NoCursor => FollowsCursor(cursor)'
  <2> SUFFICES ASSUME pc \notin {"read", "publish"}, cursor # NoCursor PROVE FollowsCursor(cursor)'
      OBVIOUS
  <2>1. PICK c : c = cursor /\ CursorInv(c) /\ FollowsCursor(c)
      BY Parts DEF TickInv
  <2>2. FollowsCursor(c)'
      BY <1>1, <2>1, QuietCursor
  <2> QED BY <1>1, <2>1, <2>2 DEF FollowsCursor
<1>7. TickInv'
    BY <1>1, <1>4, <1>5, <1>6, Parts DEF TickInv
<1> QED BY <1>2, <1>3, <1>7 DEF IInv

\* Drain is over: what it left in the map, in the offsets and in the stream is
\* all that matters.
Leaves ==
    /\ UNCHANGED log /\ floor' = floor /\ ingested' = ingested
    /\ pc' \in {"persist", "next"} /\ d' = NoCursor /\ own' = FALSE
    /\ want' = 0 /\ buf' = <<>> /\ nxt' = 0 /\ (~own => stream' = <<>>)
    /\ dirty' \in BOOLEAN /\ faults' \in 0..MaxFaults

\* If these are good, leaving keeps the invariant.
LEMMA LeaveKeeps ==
    ASSUME IInv, Leaves, OffsetInv(offsets)', OffsetInv(disk)', CursorInv(cursor)',
           own => StreamInv' /\ (cursor' # NoCursor => FollowsCursor(cursor)')
    PROVE  IInv'
<1>1. Extends /\ FileInv' /\ FloorInv' /\ (stream' = <<>> => StreamInv')
    BY QuietFacts DEF Leaves
<1>2. StreamInv' /\ (cursor' # NoCursor => FollowsCursor(cursor)')
  <2>1. CASE stream' = <<>>
      BY <1>1, <2>1, FollowsNothing DEF FollowsCursor
  <2>2. CASE own
      BY <2>2
  <2> QED BY <2>1, <2>2, Parts DEF TickInv, Leaves
<1>3. TickInv'
  <2>1. 0 \in 0..Chunk /\ 0 \in 0..MaxBytes
      BY LogTailAssumption
  <2>2. ingested' \subseteq 1..MaxLines
      BY Parts DEF Leaves
  <2>3. d' \in Cursors /\ (d' = NoCursor <=> pc' \notin {"read", "publish"})
      BY NoCursorInv DEF Leaves
  <2>4. pc' # "read" /\ pc' # "publish"
      BY DEF Leaves
  <2> QED BY <1>2, <2>1, <2>2, <2>3, <2>4 DEF TickInv, Leaves
<1> QED BY <1>1, <1>2, <1>3 DEF IInv

\* The cursor that drain gives back unchanged.
LEMMA LeaveUnread ==
    ASSUME IInv, Leaves, UNCHANGED <<cursor, saved>>,
           stream' = <<>> \/ (pc = "read" /\ stream' = stream)
    PROVE  IInv'
<1>1. UNCHANGED <<cursor, offsets, disk>>
    BY DEF saved
<1>2. Extends /\ (stream' \in {stream, <<>>} => StreamInv')
    BY QuietFacts DEF Leaves
<1>3. OffsetInv(offsets)' /\ OffsetInv(disk)' /\ CursorInv(cursor)'
    BY <1>1, <1>2, Parts, OffsetKeeps, CursorKeeps
<1>4. own => (cursor' # NoCursor => FollowsCursor(cursor)')
  <2> SUFFICES ASSUME own, cursor # NoCursor PROVE FollowsCursor(cursor)'
      BY <1>1
  <2>1. CASE stream' = <<>>
      BY <2>1, FollowsNothing DEF FollowsCursor
  <2>2. CASE pc = "read" /\ stream' = stream
    <3>1. PICK c : c = cursor /\ CursorInv(c) /\ FollowsCursor(c)
        BY <2>2, Parts DEF TickInv
    <3>2. FollowsCursor(c)'
        BY <2>2, <3>1, QuietCursor DEF Leaves
    <3> QED BY <1>1, <3>1, <3>2 DEF FollowsCursor
  <2> QED BY <2>1, <2>2
<1> QED BY <1>2, <1>3, <1>4, LeaveKeeps

\* ReadFails keeps the invariant.
LEMMA ReadFailsKeeps ==
    ASSUME IInv, ReadFails
    PROVE  IInv'
<1>1. Leaves
    BY Parts, FaultTypes DEF ReadFails, Leave, LeaveTo, Leaves, TickInv, saved
<1>2. UNCHANGED <<cursor, saved>> /\ pc = "read" /\ stream' \in {stream, <<>>}
    BY DEF ReadFails, Leave, LeaveTo
<1> QED BY <1>1, <1>2, LeaveUnread

\* Reject keeps the invariant: the cursor did not move.
LEMMA RejectKeeps ==
    ASSUME IInv, Reject
    PROVE  IInv'
<1>1. Leaves
    BY Parts, FaultTypes DEF Reject, LeaveTo, Leaves, TickInv, saved
<1>2. UNCHANGED <<cursor, saved>> /\ stream' = <<>>
    BY DEF Reject, LeaveTo
<1> QED BY <1>1, <1>2, LeaveUnread

-----------------------------------------------------------------------------
(* The bytes at hand: read, dropped, kept and published                    *)

\* What it means that bytes are held.
LEMMA HeldFacts ==
    ASSUME FileInv, NEW s, NEW n, NEW sure, Held(s, n, sure)
    PROVE  /\ s \in Seq(Int) /\ n \in Nat /\ n \in 0..MaxBytes /\ Len(s) \in Nat /\ Len(s) <= n
           /\ DOMAIN s = 1..Len(s)
           /\ \A i \in 1..Len(s) :
                  /\ s[i] \in Int /\ s[i] # 0 /\ Known(s[i])
                  /\ s[i] < 0 => -s[i] <= Len(lineLen)
           /\ \A i, j \in 1..Len(s) : i < j => Before(s[i], s[j])
           /\ \A i \in 1..Len(s), q \in Rest(n) : Before(s[i], file[q])
           /\ sure => /\ n <= Len(file) /\ n - Len(s) \in 0..Len(file)
                      /\ \A i \in 1..Len(s) : s[i] = file[n - Len(s) + i]
                      /\ Boundary(n - Len(s)) /\ Done(n - Len(s))
<1>1. s \in Seq(Int) /\ n \in Nat /\ n \in 0..MaxBytes /\ Len(s) \in Nat /\ Len(s) <= n
    BY LogTailAssumption DEF Held
<1>2. ASSUME NEW i \in 1..Len(s)
      PROVE  s[i] \in Int /\ s[i] # 0 /\ Known(s[i]) /\ (s[i] < 0 => -s[i] <= Len(lineLen))
  <2>1. s[i] \in Int
      BY <1>1, ElementOfSeq
  <2>2. Known(s[i])
      BY DEF Held
  <2> QED BY <2>1, <2>2, LogTailAssumption DEF Known, LineOf
<1>3. \A i, j \in 1..Len(s) : i < j => Before(s[i], s[j])
    BY DEF Held, Ordered
<1>4. sure => /\ n <= Len(file) /\ n - Len(s) \in 0..Len(file)
              /\ \A i \in 1..Len(s) : s[i] = file[n - Len(s) + i]
              /\ Boundary(n - Len(s)) /\ Done(n - Len(s))
    BY <1>1, FileFacts DEF Held
<1>5. \A i \in 1..Len(s), q \in Rest(n) : Before(s[i], file[q])
    BY DEF Held
<1> QED BY <1>1, <1>2, <1>3, <1>4, <1>5, LenProperties

\* t is s without its first a elements.
Suffix(t, s, a) ==
    /\ t \in Seq(Int) /\ a \in Nat /\ a <= Len(s) /\ Len(t) = Len(s) - a
    /\ \A i \in 1..Len(t) : t[i] = s[a + i]

\* That is what SubSeq gives.
LEMMA SuffixFacts ==
    ASSUME NEW s \in Seq(Int), NEW a \in 0..Len(s)
    PROVE  Suffix(SubSeq(s, a + 1, Len(s)), s, a)
<1>1. Len(s) \in Nat /\ a \in Nat /\ a <= Len(s) /\ Len(s) <= Len(s)
    BY LenProperties
<1>2. PICK t : t = SubSeq(s, a + 1, Len(s))
    OBVIOUS
<1>3. /\ t \in Seq(Int) /\ Len(t) = (IF a < Len(s) THEN Len(s) - a ELSE 0)
      /\ \A i \in 1..(Len(s) - a) : t[i] = s[a + i]
    BY <1>1, <1>2, SliceFacts
<1> QED BY <1>1, <1>2, <1>3 DEF Suffix

\* The first a of the bytes at hand are dealt with.
LEMMA HeldDrop ==
    ASSUME FileInv, UNCHANGED log, NEW s, NEW n, NEW sure, Held(s, n, sure),
           NEW a, NEW t, Suffix(t, s, a),
           NEW p, p = n - Len(s) + a, sure => Boundary(p)' /\ Done(p)'
    PROVE  Held(t, n, sure)'
<1>1. /\ s \in Seq(Int) /\ n \in Nat /\ n \in 0..MaxBytes /\ Len(s) \in Nat /\ Len(s) <= n
      /\ \A i \in 1..Len(s) : Known(s[i])
      /\ \A i, j \in 1..Len(s) : i < j => Before(s[i], s[j])
      /\ \A i \in 1..Len(s), q \in Rest(n) : Before(s[i], file[q])
      /\ sure => n <= Len(file) /\ \A i \in 1..Len(s) : s[i] = file[n - Len(s) + i]
    BY HeldFacts
<1>2. file' = file /\ lineLen' = lineLen /\ Writing' = Writing
    BY DEF log, Writing
<1>3. /\ t \in Seq(Int) /\ Len(t) \in Nat /\ Len(t) <= n /\ p = n - Len(t) /\ p \in Nat
      /\ \A i \in 1..Len(t) : t[i] = s[a + i] /\ a + i \in 1..Len(s)
      /\ \A i \in 1..Len(t) : n - Len(s) + (a + i) = p + i
      /\ \A i, j \in 1..Len(t) : i < j => a + i < a + j
    BY <1>1 DEF Suffix
<1>4. \A i \in 1..Len(t) : Known(t[i])'
  <2>1. \A i \in 1..Len(t) : Known(t[i])
      BY <1>1, <1>3
  <2> QED BY <1>2, <2>1 DEF Known
<1>5. Ordered(t)'
  <2>1. \A i, j \in 1..Len(t) : i < j => Before(t[i], t[j])
      BY <1>1, <1>3
  <2> QED BY <2>1 DEF Ordered, Before, LineOf
<1>6. \A i \in 1..Len(t), q \in Rest(n)' : Before(t[i], file[q])'
  <2>1. \A i \in 1..Len(t), q \in Rest(n) : Before(t[i], file[q])
      BY <1>1, <1>3
  <2> QED BY <1>2, <2>1 DEF Rest, Before, LineOf
<1>7. sure => \A i \in 1..Len(t) : t[i] = file'[n - Len(t) + i]
  <2> SUFFICES ASSUME sure, NEW i \in 1..Len(t) PROVE t[i] = file[p + i]
      BY <1>2, <1>3
  <2>1. t[i] = s[a + i] /\ a + i \in 1..Len(s) /\ n - Len(s) + (a + i) = p + i
      BY <1>3
  <2> QED BY <1>1, <2>1
<1>8. sure => n <= Len(file') /\ Boundary(n - Len(t))' /\ Done(n - Len(t))'
    BY <1>1, <1>2, <1>3
<1> QED BY <1>1, <1>3, <1>4, <1>5, <1>6, <1>7, <1>8 DEF Held

\* What remains still follows what was published.
LEMMA FollowsDrop ==
    ASSUME FileInv, UNCHANGED log, stream' = stream,
           NEW s, NEW n, NEW sure, NEW was, Held(s, n, sure), Follows(s, n, sure, was),
           NEW a, NEW t, Suffix(t, s, a),
           NEW p, p = n - Len(s) + a, NEW discard, sure /\ ~discard => Clean(p)'
    PROVE  Follows(t, n, sure, discard)'
<1>1. n \in Nat /\ Len(s) \in Nat /\ Len(s) <= n /\ file' = file
    BY HeldFacts DEF log
<1>2. /\ p = n - Len(t)
      /\ \A i \in 1..Len(t) : t[i] = s[a + i] /\ a + i \in 1..Len(s)
    BY <1>1 DEF Suffix
<1>3. ASSUME NEW j \in 1..Len(stream)
      PROVE  /\ \A i \in 1..Len(t) : stream[j].text[Len(stream[j].text)] < LineOf(t[i])
             /\ \A q \in Rest(n) : stream[j].text[Len(stream[j].text)] < LineOf(file[q])
    BY <1>2 DEF Follows
<1> QED BY <1>1, <1>2, <1>3 DEF Follows, Rest, LineOf

\* The file beyond a position that is kept, up to another one.
LEMMA DoneBeyond ==
    ASSUME FileInv, NEW p \in 0..Len(file), NEW q \in 0..Len(file), p <= q, Done(p),
           \A j \in (p + 1)..q : file[j] < 0 /\ Owed(-file[j]) =>
               -file[j] \in ingested' \/ -file[j] <= floor,
           UNCHANGED log, floor' = floor, ingested \subseteq ingested'
    PROVE  Done(q)'
<1>1. file' = file /\ lineLen' = lineLen
    BY DEF log
<1> SUFFICES ASSUME NEW i \in 1..Len(file), i <= q, file[i] < 0, Owed(-file[i])
             PROVE  -file[i] \in ingested' \/ -file[i] <= floor
    BY <1>1 DEF Done, Owed
<1>2. i <= p \/ i \in (p + 1)..q
    OBVIOUS
<1>3. i <= p => -file[i] \in ingested \/ -file[i] <= floor
    BY DEF Done
<1> QED BY <1>2, <1>3

\* Bytes of one line, without its end.
LEMMA SameByte ==
    ASSUME FileInv, NEW i \in 1..Len(file), NEW j \in 1..Len(file), i <= j,
           \A l \in i..j : file[l] > 0
    PROVE  file[i] = file[j]
<1>1. LineOf(file[i]) = LineOf(file[j])
    BY FileFacts, SameLine
<1>2. file[i] > 0 /\ file[j] > 0 /\ file[i] \in Int /\ file[j] \in Int
    BY FileFacts
<1> QED BY <1>1, <1>2 DEF LineOf

-----------------------------------------------------------------------------
(* The chunk is taken into account                                         *)

\* A cursor that is good may be put into the map and into the offsets.
LEMMA CompleteKeeps ==
    ASSUME IInv, Leaves, NEW c, cursor' = (IF own THEN c ELSE cursor),
           offsets' = [at |-> c.committed, sure |-> c.sure], disk' = disk,
           stream' = (IF own THEN stream ELSE <<>>),
           c # NoCursor, CursorInv(c)', FollowsCursor(c)' \/ ~own
    PROVE  IInv'
<1>1. Extends /\ FileInv' /\ (stream' \in {stream, <<>>} => StreamInv')
    BY QuietFacts DEF Leaves
<1>2. OffsetInv(disk)'
    BY <1>1, Parts, OffsetKeeps
<1>3. CursorInv(cursor)'
  <2>1. CursorInv(cursor) /\ (CursorInv(c)' /\ own => CursorInv(cursor)')
      BY Parts
  <2>2. PICK b : b = cursor /\ CursorInv(b)
      BY <2>1
  <2>3. CursorInv(b)'
      BY <1>1, <2>2, Parts, CursorKeeps
  <2>4. ~own => cursor' = b
      BY <2>2
  <2>5. ~own => CursorInv(cursor)'
      BY <2>3, <2>4
  <2> QED BY <2>1, <2>5
<1>4. PICK o : o = [at |-> c.committed, sure |-> c.sure]
    OBVIOUS
<1>5. OffsetInv(o)'
  <2>1. /\ c \in Cursors /\ Held(c.pending, c.read, c.sure)'
        /\ c.committed + Len(c.pending) = c.read
      BY DEF CursorInv
  <2>2. c.committed \in Int /\ c.sure \in BOOLEAN
      BY <2>1 DEF Cursors
  <2>3. PICK s, n, p, sure : s = c.pending /\ n = c.read /\ p = c.committed /\ sure = c.sure
      OBVIOUS
  <2>4. Held(s, n, sure)' /\ p + Len(s) = n /\ p \in Int /\ sure \in BOOLEAN
      BY <2>1, <2>2, <2>3
  <2>5. /\ s \in Seq(Int) /\ n \in 0..MaxBytes /\ Len(s) <= n
        /\ sure => n <= Len(file') /\ Boundary(n - Len(s))' /\ Done(n - Len(s))'
      BY <2>4 DEF Held
  <2>6. Len(s) \in Nat /\ MaxBytes \in Nat /\ Len(file') \in Nat
      BY <1>1, <2>5, LenProperties, LogTailAssumption DEF Extends
  <2>7. p \in 0..MaxBytes /\ p = n - Len(s) /\ (sure => p <= Len(file'))
      BY <2>4, <2>5, <2>6
  <2>8. sure => Boundary(p)' /\ Done(p)'
      BY <2>5, <2>7
  <2>9. o.at = p /\ o.sure = sure /\ o \in [at : -1..MaxBytes, sure : BOOLEAN] /\ p # -1
      BY <1>4, <2>3, <2>4, <2>6, <2>7
  <2> QED BY <2>7, <2>8, <2>9 DEF OffsetInv
<1>6. OffsetInv(offsets)'
    BY <1>4, <1>5
<1>7. own => StreamInv' /\ (cursor' # NoCursor => FollowsCursor(cursor)')
    BY <1>1 DEF FollowsCursor
<1> QED BY <1>2, <1>3, <1>6, <1>7, LeaveKeeps

\* No newline in what was read: the line it ends in is the same all along.
LEMMA FinishKeeps ==
    ASSUME IInv, Finish
    PROVE  IInv'
<1>1. /\ pc = "publish" /\ Newline(buf) = 0
      /\ Held(buf, nxt, d.sure) /\ Follows(buf, nxt, d.sure, FALSE) /\ d \in Cursors
    BY Parts DEF Finish, TickInv
<1>2. PICK s, n, sure : s = buf /\ n = nxt /\ sure = d.sure
    OBVIOUS
<1>3. Held(s, n, sure) /\ Follows(s, n, sure, FALSE) /\ sure \in BOOLEAN /\ Newline(s) = 0
    BY <1>1, <1>2 DEF Cursors
<1> DEFINE over == Len(s) > MaxPending
           rest == IF over THEN <<>> ELSE s
<1>4. PICK c : c = [read |-> n, committed |-> n - Len(rest), pending |-> rest,
                    discard |-> over, sure |-> sure]
    OBVIOUS
<1>c. /\ c.read = n /\ c.committed = n - Len(rest) /\ c.pending = rest
      /\ c.discard = over /\ c.sure = sure
    BY <1>4
<1>5. /\ cursor' = IF own THEN c ELSE cursor
      /\ offsets' = [at |-> c.committed, sure |-> c.sure]
      /\ dirty' = TRUE /\ Leave /\ disk' = disk
      /\ UNCHANGED log /\ UNCHANGED <<ingested, floor, faults>>
    BY <1>2, <1>4 DEF Finish, Complete
<1>6. Leaves /\ stream' = IF own THEN stream ELSE <<>>
    BY <1>5, Parts DEF Leave, LeaveTo, Leaves
<1>7. Extends
    BY <1>6, QuietFacts DEF Leaves
<1>8. /\ s \in Seq(Int) /\ n \in Nat /\ Len(s) \in Nat /\ Len(s) <= n
      /\ \A i \in 1..Len(s) : s[i] \in Int /\ s[i] > 0
      /\ sure => /\ n <= Len(file) /\ n - Len(s) \in 0..Len(file)
                 /\ \A i \in 1..Len(s) : s[i] = file[n - Len(s) + i]
                 /\ Boundary(n - Len(s)) /\ Done(n - Len(s))
  <2>1. /\ s \in Seq(Int) /\ n \in Nat /\ Len(s) \in Nat /\ Len(s) <= n
        /\ \A i \in 1..Len(s) : s[i] \in Int /\ s[i] # 0
        /\ sure => /\ n <= Len(file) /\ n - Len(s) \in 0..Len(file)
                   /\ \A i \in 1..Len(s) : s[i] = file[n - Len(s) + i]
                   /\ Boundary(n - Len(s)) /\ Done(n - Len(s))
      BY <1>3, Parts, HeldFacts
  <2>2. \A i \in 1..Len(s) : s[i] >= 0
      BY <1>3, <2>1, NewlineFacts
  <2> QED BY <2>1, <2>2
<1>9. c # NoCursor /\ c \in Cursors
    BY <1>3, <1>4, <1>8, EmptySeq DEF NoCursor, Cursors
<1>10. CASE ~over
  <2>0. c.discard = FALSE
    <3>1. over = FALSE
        BY <1>10
    <3> QED BY <1>c, <3>1
  <2>1. /\ c.pending = s /\ c.read = n /\ c.sure = sure /\ c.discard = FALSE
        /\ c.committed + Len(s) = n /\ Len(s) <= MaxPending
      BY <1>c, <1>8, <1>10, <2>0, Parts
  <2>2. Held(s, n, sure)'
      BY <1>3, <1>7, Parts, HeldKeeps
  <2>3. CursorInv(c)'
      BY <1>9, <2>1, <2>2 DEF CursorInv
  <2>4. own => Follows(s, n, sure, FALSE)'
      BY <1>3, <1>6, Parts, QuietFacts, FollowsKeeps DEF Leaves
  <2>5. FollowsCursor(c)' \/ ~own
      BY <2>1, <2>4 DEF FollowsCursor
  <2> QED BY <1>5, <1>6, <1>9, <2>3, <2>5, CompleteKeeps
<1>11. CASE over
  <2>0. c.discard = TRUE
      BY <1>c, <1>11, Zenon
  <2>1. /\ c.pending = <<>> /\ c.read = n /\ c.sure = sure /\ c.discard = TRUE
        /\ c.committed + Len(<<>>) = n /\ Len(<<>>) <= MaxPending
      BY <1>c, <1>8, <1>11, <2>0, EmptySeq, Parts
  <2>2. Suffix(<<>>, s, Len(s)) /\ n = n - Len(s) + Len(s)
      BY <1>8, EmptySeq DEF Suffix
  <2>3. ASSUME sure
        PROVE  Exempt(n) /\ Exempt(n)' /\ Done(n)' /\ n \in 0..Len(file)
    <3>1. PICK p : p = n - Len(s) /\ p \in 0..Len(file)
        BY <1>8, <2>3
    <3>2. /\ n \in 1..Len(file) /\ p < n - MaxPending /\ Len(file) \in Nat
          /\ MaxPending \in Nat \ {0}
          /\ \A j \in (p + 1)..n : j \in 1..Len(file) /\ file[j] > 0
      <4>1. Len(s) > MaxPending /\ MaxPending \in Nat \ {0} /\ Len(file) \in Nat
          BY <1>11, Parts, FileFacts
      <4>2. \A j \in (p + 1)..n : j - p \in 1..Len(s) /\ file[j] = s[j - p]
          BY <1>8, <2>3, <3>1
      <4>3. n \in Nat /\ Len(s) \in Nat /\ n <= Len(file) /\ p = n - Len(s) /\ p \in Nat
          BY <1>8, <2>3, <3>1
      <4>4. n \in 1..Len(file) /\ p < n - MaxPending /\ \A j \in (p + 1)..n : j \in 1..Len(file)
          BY <4>1, <4>3
      <4>5. \A j \in (p + 1)..n : file[j] > 0
          BY <1>8, <4>2
      <4> QED BY <4>1, <4>4, <4>5
    <3>3. n - MaxPending \in 1..Len(file) /\ n - MaxPending <= n
          /\ \A l \in (n - MaxPending)..n : file[l] > 0
        BY <3>1, <3>2
    <3>4. file[n - MaxPending] = file[n] /\ file[n] > 0
        BY <3>2, <3>3, Parts, SameByte
    <3>5. Exempt(n)
        BY <3>2, <3>3, <3>4 DEF Exempt, Over
    <3>6. n \in 0..Len(file) /\ p <= n
        BY <3>1, <3>2, <1>8
    <3>7. Exempt(n)'
        BY <1>7, <3>5, <3>6, Parts, PlacesKeep
    <3>8. \A j \in (p + 1)..n : ~(file[j] < 0)
        BY <3>2, Parts, FileFacts
    <3>9. Done(p)
        BY <1>8, <2>3, <3>1
    <3>10. Done(n)'
        BY <1>6, <3>1, <3>6, <3>8, <3>9, Parts, DoneBeyond DEF Leaves
    <3> QED BY <3>5, <3>6, <3>7, <3>10
  <2>4. Held(<<>>, n, sure)'
      BY <1>3, <1>6, <2>2, <2>3, Parts, HeldDrop DEF Boundary, Leaves
  <2>5. CursorInv(c)'
      BY <1>9, <2>1, <2>3, <2>4 DEF CursorInv, Dropping
  <2>6. own => Follows(<<>>, n, sure, TRUE)'
      BY <1>3, <1>6, <2>2, Parts, FollowsDrop DEF Leaves
  <2>7. FollowsCursor(c)' \/ ~own
      BY <2>1, <2>6 DEF FollowsCursor
  <2> QED BY <1>5, <1>6, <1>9, <2>5, <2>7, CompleteKeeps
<1> QED BY <1>4, <1>10, <1>11

-----------------------------------------------------------------------------
(* Reading                                                                 *)

\* After b the bytes of the file from r to e are at hand too.
Reads(s, b, r, e) ==
    e \in Nat /\ r < e /\ e <= Len(file) /\ s = b \o SubSeq(file, r + 1, e)

\* What was read is in its place, and follows what was published.
LEMMA HeldReads ==
    ASSUME FileInv, NEW b, NEW r, NEW sure, NEW was, Held(b, r, sure), Follows(b, r, sure, was),
           NEW s, NEW e, Reads(s, b, r, e)
    PROVE  /\ Held(s, e, sure) /\ Follows(s, e, sure, was)
           /\ Len(s) = Len(b) + (e - r) /\ e - Len(s) = r - Len(b)
           /\ \A i \in 1..(e - r) : s[Len(b) + i] = file[r + i]
<1> e \in Nat /\ r < e /\ e <= Len(file) /\ s = b \o SubSeq(file, r + 1, e)
    BY DEF Reads
<1>1. /\ b \in Seq(Int) /\ r \in Nat /\ r \in 0..MaxBytes /\ Len(b) \in Nat /\ Len(b) <= r
      /\ \A i \in 1..Len(b) : b[i] \in Int /\ Known(b[i])
      /\ \A i, j \in 1..Len(b) : i < j => Before(b[i], b[j])
      /\ \A i \in 1..Len(b), q \in Rest(r) : Before(b[i], file[q])
      /\ sure => /\ \A i \in 1..Len(b) : b[i] = file[r - Len(b) + i]
                 /\ Boundary(r - Len(b)) /\ Done(r - Len(b))
    BY HeldFacts
<1>2. /\ file \in Seq(Int) /\ Len(file) \in Nat /\ Len(file) <= MaxBytes
      /\ \A i \in 1..Len(file) : file[i] \in Int /\ Known(file[i])
      /\ \A i, j \in 1..Len(file) : i < j => Before(file[i], file[j])
    BY FileFacts DEF FileInv, FileTypes, Ordered
<1>3. PICK t : /\ t = SubSeq(file, r + 1, e) /\ t \in Seq(Int) /\ Len(t) = e - r
               /\ \A i \in 1..(e - r) : t[i] = file[r + i]
  <2>1. /\ SubSeq(file, r + 1, e) \in Seq(Int)
        /\ Len(SubSeq(file, r + 1, e)) = IF r < e THEN e - r ELSE 0
        /\ \A i \in 1..(e - r) : SubSeq(file, r + 1, e)[i] = file[r + i]
      BY <1>1, <1>2, SliceFacts
  <2> QED BY <2>1
<1>4. /\ s \in Seq(Int) /\ Len(s) = Len(b) + (e - r)
      /\ \A i \in 1..Len(b) : s[i] = b[i]
      /\ \A i \in 1..(e - r) : s[Len(b) + i] = file[r + i]
  <2>1. s = b \o t
      BY <1>3
  <2>2. /\ b \o t \in Seq(Int) /\ Len(b \o t) = Len(b) + Len(t)
        /\ \A i \in 1..Len(b) : (b \o t)[i] = b[i]
        /\ \A i \in 1..Len(t) : (b \o t)[Len(b) + i] = t[i]
      BY <1>1, <1>3, ConcatFacts
  <2> QED BY <1>3, <2>1, <2>2
<1>5. /\ e \in Nat /\ r \in Nat /\ Len(b) \in Nat /\ Len(s) \in Nat /\ Len(b) <= r /\ r < e
      /\ e <= Len(file) /\ e <= MaxBytes /\ MaxBytes \in Nat
      /\ Len(s) = Len(b) + (e - r) /\ e - Len(s) = r - Len(b) /\ Len(s) <= e
    BY <1>1, <1>2, <1>4, LogTailAssumption
\* Each byte at hand is one of the file that was not read before, or an old one.
<1>6. \A i \in 1..Len(s) :
          \/ i \in 1..Len(b) /\ s[i] = b[i]
          \/ \E k \in (r + 1)..e : i = k - r + Len(b) /\ k \in 1..Len(file) /\ s[i] = file[k]
  <2> SUFFICES ASSUME NEW i \in 1..Len(s), i \notin 1..Len(b)
               PROVE  \E k \in (r + 1)..e :
                          i = k - r + Len(b) /\ k \in 1..Len(file) /\ s[i] = file[k]
      BY <1>4
  <2>1. /\ i - Len(b) \in 1..(e - r) /\ r + (i - Len(b)) \in (r + 1)..e
        /\ r + (i - Len(b)) \in 1..Len(file)
        /\ Len(b) + (i - Len(b)) = i /\ i = (r + (i - Len(b))) - r + Len(b)
      BY <1>5
  <2>2. s[i] = file[r + (i - Len(b))]
      BY <1>4, <2>1
  <2> QED BY <2>1, <2>2
<1>7. \A k \in (r + 1)..e : k \in Rest(r) /\ k \in 1..Len(file)
    BY <1>2, <1>5 DEF Rest
<1>8. \A q \in Rest(e) : q \in 1..Len(file) /\ q > e /\ q \in Rest(r)
    BY <1>2, <1>5 DEF Rest
<1>9. \A i \in 1..Len(s) : Known(s[i])
    BY <1>1, <1>2, <1>6
<1>10. Ordered(s)
  <2> SUFFICES ASSUME NEW i \in 1..Len(s), NEW j \in 1..Len(s), i < j PROVE Before(s[i], s[j])
      BY DEF Ordered
  <2>1. CASE j \in 1..Len(b)
    <3>1. i \in 1..Len(b)
        BY <1>5, <2>1
    <3> QED BY <1>1, <1>4, <2>1, <3>1
  <2>2. CASE j \notin 1..Len(b)
    <3>1. PICK k \in (r + 1)..e : j = k - r + Len(b) /\ k \in 1..Len(file) /\ s[j] = file[k]
        BY <1>6, <2>2
    <3>2. CASE i \in 1..Len(b)
        BY <1>1, <1>4, <1>7, <3>1, <3>2
    <3>3. CASE i \notin 1..Len(b)
      <4>1. PICK l \in (r + 1)..e : i = l - r + Len(b) /\ l \in 1..Len(file) /\ s[i] = file[l]
          BY <1>6, <3>3
      <4>2. l < k
          BY <1>5, <3>1, <4>1
      <4> QED BY <1>2, <3>1, <4>1, <4>2
    <3> QED BY <3>2, <3>3
  <2> QED BY <2>1, <2>2
<1>11. \A i \in 1..Len(s), q \in Rest(e) : Before(s[i], file[q])
  <2> SUFFICES ASSUME NEW i \in 1..Len(s), NEW q \in Rest(e) PROVE Before(s[i], file[q])
      OBVIOUS
  <2>1. CASE i \in 1..Len(b)
      BY <1>1, <1>4, <1>8, <2>1
  <2>2. CASE i \notin 1..Len(b)
    <3>1. PICK l \in (r + 1)..e : l \in 1..Len(file) /\ s[i] = file[l]
        BY <1>6, <2>2
    <3>2. q \in 1..Len(file) /\ l < q
        BY <1>5, <1>8, <3>1
    <3> QED BY <1>2, <3>1, <3>2
  <2> QED BY <2>1, <2>2
<1>12. PICK p : p = r - Len(b) /\ p = e - Len(s)
    BY <1>5
<1>13. sure => \A i \in 1..Len(s) : s[i] = file[p + i]
  <2> SUFFICES ASSUME sure, NEW i \in 1..Len(s) PROVE s[i] = file[p + i]
      OBVIOUS
  <2>1. CASE i \in 1..Len(b)
      BY <1>1, <1>4, <1>12, <2>1
  <2>2. CASE i \notin 1..Len(b)
    <3>1. PICK k \in (r + 1)..e : i = k - r + Len(b) /\ s[i] = file[k]
        BY <1>6, <2>2
    <3>2. p + i = k
        BY <1>5, <1>12, <3>1
    <3> QED BY <3>1, <3>2
  <2> QED BY <2>1, <2>2
<1>14. sure => Boundary(p) /\ Done(p)
    BY <1>1, <1>12
<1>15. e \in 0..MaxBytes
    BY <1>5
<1>16. Held(s, e, sure)
    BY <1>4, <1>5, <1>9, <1>10, <1>11, <1>12, <1>13, <1>14, <1>15 DEF Held
<1>17. Follows(s, e, sure, was)
  <2>1. ASSUME NEW j \in 1..Len(stream)
        PROVE  /\ \A i \in 1..Len(s) : stream[j].text[Len(stream[j].text)] < LineOf(s[i])
               /\ \A q \in Rest(e) : stream[j].text[Len(stream[j].text)] < LineOf(file[q])
    <3>1. /\ \A i \in 1..Len(b) : stream[j].text[Len(stream[j].text)] < LineOf(b[i])
          /\ \A q \in Rest(r) : stream[j].text[Len(stream[j].text)] < LineOf(file[q])
        BY DEF Follows
    <3> QED BY <1>6, <1>7, <1>8, <3>1
  <2>2. stream # <<>> /\ sure /\ ~was => Clean(p)
      BY <1>12 DEF Follows
  <2> QED BY <1>12, <2>1, <2>2 DEF Follows
<1> QED BY <1>4, <1>5, <1>16, <1>17

\* From the middle of a line that is dropped: bytes r + 1 to e - 1 do not end it.
LEMMA DropFacts ==
    ASSUME FileInv, FloorInv, MaxPending \in Nat \ {0}, NEW r \in Nat, NEW e \in Nat,
           r < e, e <= Len(file), Dropping(r), \A j \in (r + 1)..(e - 1) : file[j] > 0
    PROVE  /\ file[e] > 0 => Exempt(e)
           /\ file[e] < 0 => /\ Clean(e)
                             /\ Owed(-file[e]) => -file[e] <= floor
<1>0. /\ e \in 1..Len(file) /\ r + 1 \in 1..Len(file) /\ r + 1 <= e /\ Len(file) \in Nat
      /\ file[e] \in Int /\ floor \in Nat /\ MaxPending \in Nat \ {0}
    BY FileFacts, LogTailAssumption DEF FloorInv
<1>1. CASE Exempt(r) /\ file[e] < 0
  <2>1. -file[e] <= floor \/ lineLen[-file[e]] > MaxPending
      BY <1>0, <1>1, ExemptLine
  <2> QED BY <1>0, <1>1, <2>1, FileFacts DEF Clean, Owed
<1>2. CASE Exempt(r) /\ file[e] > 0
  <2>1. r \in 1..Len(file) /\ file[r] > 0 /\ r <= e
      BY <1>0, <1>2 DEF Exempt
  <2>2. \A l \in r..e : file[l] > 0
    <3>1. \A l \in r..e : l = r \/ l = e \/ l \in (r + 1)..(e - 1)
        BY <1>0, <2>1
    <3> QED BY <1>2, <2>1, <3>1
  <2>3. file[r] = file[e]
      BY <1>0, <2>1, <2>2, SameByte
  <2>4. CASE file[r] <= floor
      BY <1>0, <1>2, <2>3, <2>4 DEF Exempt
  <2>5. CASE Over(r)
    <3>1. r - MaxPending \in 1..Len(file) /\ file[r - MaxPending] = file[r]
        BY <1>0, <2>1, <2>5 DEF Over
    <3>2. /\ e - MaxPending \in 1..Len(file) /\ r - MaxPending <= e - MaxPending
          /\ e - MaxPending < e /\ e > MaxPending
        BY <1>0, <2>1, <3>1
    <3>3. LineOf(file[r - MaxPending]) <= LineOf(file[e - MaxPending])
      <4>1. CASE r - MaxPending = e - MaxPending
          BY <3>1, <3>2, <4>1, FileFacts DEF LineOf
      <4>2. CASE r - MaxPending < e - MaxPending
          BY <3>1, <3>2, <4>2 DEF FileInv, Ordered, Before
      <4>3. r - MaxPending \in Int /\ e - MaxPending \in Int
          BY <1>0
      <4> QED BY <3>2, <4>1, <4>2, <4>3
    <3>4. /\ LineOf(file[e - MaxPending]) <= LineOf(file[e])
          /\ file[e - MaxPending] < 0 => LineOf(file[e - MaxPending]) < LineOf(file[e])
        BY <1>0, <3>2 DEF FileInv, Ordered, Before
    <3>5. file[e - MaxPending] \in Int /\ file[r - MaxPending] = file[e] /\ file[e] \in Int
        BY <1>0, <2>3, <3>1, <3>2, FileFacts
    <3>6. file[e - MaxPending] = file[e]
        BY <1>2, <3>3, <3>4, <3>5 DEF LineOf
    <3> QED BY <1>0, <1>2, <3>2, <3>6 DEF Exempt, Over
  <2> QED BY <1>2, <2>4, <2>5 DEF Exempt
<1>3. CASE LineOf(file[r + 1]) <= floor
  <2>1. LineOf(file[r + 1]) = LineOf(file[e])
      BY <1>0, SameLine
  <2> QED BY <1>0, <1>3, <2>1 DEF LineOf, Exempt, Clean
<1>4. file[e] # 0
    BY <1>0, LogTailAssumption DEF FileInv, FileTypes, Known, LineOf
<1> QED BY <1>0, <1>1, <1>2, <1>3, <1>4 DEF Dropping

\* The chunk is at hand, to be published.
LEMMA ChunkKeeps ==
    ASSUME IInv, pc = "read", UNCHANGED log, floor' = floor, ingested' = ingested, stream' = stream,
           UNCHANGED <<cursor, saved, d, own, faults>>, pc' = "publish", want' = 0,
           Held(buf, nxt, d.sure)', Follows(buf, nxt, d.sure, FALSE)'
    PROVE  IInv'
<1>1. UNCHANGED <<cursor, offsets, dirty, disk, d, own, faults>>
    BY DEF saved
<1>2. Extends /\ FileInv' /\ FloorInv' /\ StreamInv'
    BY QuietFacts
<1>3. OffsetInv(offsets)' /\ OffsetInv(disk)' /\ CursorInv(cursor)'
    BY <1>1, <1>2, Parts, OffsetKeeps, CursorKeeps
<1>4. TickInv'
  <2>1. 0 \in 0..Chunk /\ nxt' \in 0..MaxBytes
      BY LogTailAssumption DEF Held
  <2>2. d' \in Cursors /\ d' # NoCursor
      BY <1>1, Parts DEF TickInv
  <2> QED BY <1>1, <2>1, <2>2, Parts DEF TickInv
<1> QED BY <1>2, <1>3, <1>4 DEF IInv

\* Read keeps the invariant: a chunk without a newline of a dropped line is
\* dropped; the line ends where the first newline is; otherwise all is at hand.
LEMMA ReadKeeps ==
    ASSUME IInv, Read
    PROVE  IInv'
<1>1. PICK c : c = d
    OBVIOUS
<1>2. /\ pc = "read" /\ c # NoCursor /\ CursorInv(c) /\ FollowsCursor(c) /\ own \in BOOLEAN
      /\ want \in Nat
    BY <1>1, Parts, LogTailAssumption DEF Read, TickInv
<1>3. PICK b, r, sure, was : b = c.pending /\ r = c.read /\ sure = c.sure /\ was = c.discard
    OBVIOUS
<1>4. /\ Held(b, r, sure) /\ Follows(b, r, sure, was) /\ (was => b = <<>>)
      /\ sure /\ was => Dropping(r)
      /\ sure \in BOOLEAN /\ was \in BOOLEAN
    BY <1>2, <1>3 DEF CursorInv, FollowsCursor, Cursors
<1>5. b \in Seq(Int) /\ r \in Nat /\ Len(file) \in Nat /\ file \in Seq(Int) /\ floor \in Nat
    BY <1>4, Parts, HeldFacts, FileFacts DEF FileInv, FileTypes
<1>6. PICK e, t, s, n :
        /\ e = Lesser(r + want, Len(file)) /\ t = SubSeq(file, r + 1, e)
        /\ s = b \o t /\ n = Newline(s)
    OBVIOUS
<1>7. e \in Nat /\ e <= Len(file)
    BY <1>2, <1>5, <1>6 DEF Lesser
<1>8. /\ UNCHANGED log /\ ingested' = ingested /\ floor' = floor /\ faults' = faults
      /\ \/ /\ t = <<>>
            /\ Leave /\ UNCHANGED <<cursor, saved>>
         \/ /\ t # <<>> /\ was /\ n = 0
            /\ Complete([c EXCEPT !.read = r + Len(t), !.committed = r + Len(t), !.pending = <<>>])
         \/ /\ t # <<>> /\ (was => n # 0)
            /\ buf' = IF was THEN SubSeq(s, n + 1, Len(s)) ELSE s
            /\ pc' = "publish" /\ nxt' = r + Len(t) /\ want' = 0
            /\ UNCHANGED <<cursor, saved, d, own, stream>>
    BY <1>1, <1>3, <1>6 DEF Read
<1>9. CASE t = <<>>
  <2>1. Leave /\ UNCHANGED <<cursor, saved>>
      BY <1>8, <1>9
  <2>2. stream' \in {stream, <<>>}
      BY <2>1 DEF Leave, LeaveTo
  <2>3. Leaves
      BY <1>8, <2>1, Parts DEF Leave, LeaveTo, Leaves, TickInv, saved
  <2> QED BY <1>2, <2>1, <2>2, <2>3, LeaveUnread
<1>10. CASE t # <<>>
  <2>1. /\ r < e /\ r + Len(t) = e
    <3>1. /\ SubSeq(file, r + 1, e) \in Seq(Int)
          /\ Len(SubSeq(file, r + 1, e)) = IF r < e THEN e - r ELSE 0
        BY <1>5, <1>7, SliceFacts
    <3>2. t \in Seq(Int) /\ Len(t) = (IF r < e THEN e - r ELSE 0) /\ Len(t) # 0
        BY <1>6, <1>10, <3>1, EmptySeq
    <3> QED BY <1>5, <1>7, <3>2
  <2>2. /\ Held(s, e, sure) /\ Follows(s, e, sure, was)
        /\ Len(s) = Len(b) + (e - r) /\ e - Len(s) = r - Len(b)
        /\ \A i \in 1..(e - r) : s[Len(b) + i] = file[r + i]
    <3>1. Reads(s, b, r, e)
        BY <1>6, <1>7, <2>1 DEF Reads
    <3> QED BY <1>4, <3>1, Parts, HeldReads
  <2>3. Extends
      BY <1>8, QuietFacts
  <2>4. /\ s \in Seq(Int) /\ Len(s) \in Nat /\ Len(s) <= e
        /\ \A i \in 1..Len(s) : s[i] \in Int /\ s[i] # 0
        /\ n \in 0..Len(s)
        /\ n = 0 => \A i \in 1..Len(s) : s[i] > 0
        /\ n # 0 => s[n] < 0 /\ \A i \in 1..(n - 1) : s[i] > 0
    <3>1. /\ s \in Seq(Int) /\ Len(s) \in Nat /\ Len(s) <= e
          /\ \A i \in 1..Len(s) : s[i] \in Int /\ s[i] # 0
        BY <2>2, Parts, HeldFacts
    <3>2. /\ n \in 0..Len(s)
          /\ n = 0 => \A i \in 1..Len(s) : s[i] >= 0
          /\ n # 0 => s[n] < 0 /\ \A i \in 1..(n - 1) : s[i] >= 0
        BY <1>6, <3>1, NewlineFacts
    <3>3. \A i \in 1..(n - 1) : i \in 1..Len(s)
        BY <3>1, <3>2
    <3> QED BY <3>1, <3>2, <3>3
  <2>5. CASE ~was
    <3>1. /\ buf' = s /\ pc' = "publish" /\ nxt' = e /\ want' = 0
          /\ UNCHANGED <<cursor, saved, d, own, stream>>
        BY <1>8, <1>10, <2>1, <2>5
    <3>2. Held(s, e, sure)' /\ Follows(s, e, sure, FALSE)'
      <4>1. was = FALSE
          BY <1>4, <2>5
      <4>2. Follows(s, e, sure, FALSE)
          BY <2>2, <4>1
      <4> QED BY <1>8, <2>2, <2>3, <3>1, <4>2, Parts, QuietFacts, HeldKeeps, FollowsKeeps
    <3>3. d'.sure = sure
        BY <1>1, <1>3, <3>1
    <3>4. Held(buf, nxt, d.sure)' /\ Follows(buf, nxt, d.sure, FALSE)'
        BY <3>1, <3>2, <3>3
    <3> QED BY <1>2, <1>8, <3>1, <3>4, ChunkKeeps
  <2>6. CASE was
    <3>1. b = <<>> /\ Len(b) = 0 /\ Len(s) = e - r /\ \A i \in 1..(e - r) : s[i] = file[r + i]
      <4>1. b = <<>> /\ Len(b) = 0
          BY <1>4, <2>6, EmptySeq
      <4>2. \A i \in 1..(e - r) : s[0 + i] = file[r + i]
          BY <2>2, <4>1
      <4>3. Len(s) = 0 + (e - r)
          BY <2>2, <4>1
      <4>4. \A i \in 1..(e - r) : 0 + i = i
          BY <1>5, <1>7
      <4>5. 0 + (e - r) = e - r
          BY <1>5, <1>7
      <4> QED BY <4>1, <4>2, <4>3, <4>4, <4>5
    <3>2. \A j \in (r + 1)..e : j - r \in 1..Len(s) /\ file[j] = s[j - r]
      <4>1. \A j \in (r + 1)..e : j - r \in 1..(e - r) /\ r + (j - r) = j
          BY <1>5, <1>7
      <4> QED BY <3>1, <4>1
    <3>3. sure => r \in 0..Len(file) /\ Done(r)
      <4>1. sure => r - Len(b) \in 0..Len(file) /\ Done(r - Len(b))
          BY <1>4, Parts, HeldFacts
      <4>2. r - Len(b) = r
          BY <1>5, <3>1
      <4> QED BY <4>1, <4>2
    <3>4. CASE n = 0
      <4>1. PICK k : /\ k = [c EXCEPT !.read = r + Len(t), !.committed = r + Len(t),
                                      !.pending = <<>>]
                     /\ Complete(k)
          BY <1>8, <1>10, <2>6, <3>4
      <4>2. /\ k \in Cursors /\ k.read = e /\ k.committed = e /\ k.pending = <<>> /\ k.sure = sure
            /\ k.discard = was /\ k # NoCursor
        <5>1. c \in Cursors /\ e \in Int /\ <<>> \in Seq(Int) /\ e # -1
            BY <1>2, <1>7, EmptySeq DEF CursorInv
        <5>2. /\ k \in Cursors /\ k.read = e /\ k.committed = e /\ k.pending = <<>> /\ k.sure = sure
              /\ k.discard = was
            BY <1>3, <2>1, <4>1, <5>1 DEF Cursors
        <5>3. NoCursor.read = -1
            BY DEF NoCursor
        <5> QED BY <5>1, <5>2, <5>3
      <4>3. /\ cursor' = (IF own THEN k ELSE cursor)
            /\ offsets' = [at |-> k.committed, sure |-> k.sure] /\ disk' = disk
            /\ stream' = (IF own THEN stream ELSE <<>>) /\ Leaves
          BY <1>8, <4>1, Parts DEF Complete, Leave, LeaveTo, Leaves, TickInv
      <4>4. ASSUME sure
            PROVE  Exempt(e) /\ Exempt(e)' /\ Done(e)'
        <5>1. \A j \in (r + 1)..e : file[j] > 0
            BY <2>4, <3>2, <3>4
        <5>2. file[e] > 0 /\ \A j \in (r + 1)..(e - 1) : file[j] > 0
          <6>1. \A j \in (r + 1)..(e - 1) : j \in (r + 1)..e
              BY <1>5, <1>7
          <6>2. e \in (r + 1)..e
              BY <1>5, <1>7, <2>1
          <6> QED BY <5>1, <6>1, <6>2
        <5>3. Exempt(e)
            BY <1>4, <1>5, <1>7, <2>1, <2>6, <4>4, <5>2, Parts, DropFacts
        <5>4. e \in 0..Len(file) /\ r <= e
            BY <1>5, <1>7, <2>1
        <5>5. Exempt(e)'
            BY <2>3, <5>3, <5>4, Parts, PlacesKeep
        <5>6. \A j \in (r + 1)..e : ~(file[j] < 0)
          <6>1. \A j \in (r + 1)..e : j \in 1..Len(file)
              BY <1>5, <1>7
          <6> QED BY <5>1, <6>1, Parts, FileFacts
        <5>7. Done(e)'
            BY <1>8, <3>3, <4>4, <5>4, <5>6, Parts, DoneBeyond
        <5> QED BY <5>3, <5>5, <5>7
      <4>5. Suffix(<<>>, s, Len(s)) /\ e = e - Len(s) + Len(s)
          BY <1>7, <2>4, EmptySeq DEF Suffix
      <4>6. Held(<<>>, e, sure)'
          BY <1>8, <2>2, <4>4, <4>5, Parts, HeldDrop DEF Boundary
      <4>7. k.discard = TRUE
          BY <1>4, <2>6, <4>2
      <4>8. CursorInv(k)'
        <5>1. e + Len(<<>>) = e /\ Len(<<>>) <= MaxPending
            BY <1>7, Parts, EmptySeq
        <5>2. sure => Dropping(e)'
            BY <4>4 DEF Dropping
        <5> QED BY <4>2, <4>6, <5>1, <5>2 DEF CursorInv
      <4>9. own => Follows(<<>>, e, sure, TRUE)'
          BY <1>8, <2>2, <4>3, <4>5, Parts, FollowsDrop
      <4>10. FollowsCursor(k)' \/ ~own
          BY <4>2, <4>7, <4>9 DEF FollowsCursor
      <4> QED BY <4>2, <4>3, <4>8, <4>10, CompleteKeeps
    <3>5. CASE n # 0
      <4>1. PICK u : /\ u = SubSeq(s, n + 1, Len(s)) /\ buf' = u
                     /\ pc' = "publish" /\ nxt' = e /\ want' = 0
                     /\ UNCHANGED <<cursor, saved, d, own, stream>>
          BY <1>8, <1>10, <2>1, <2>6, <3>5
      <4>2. Suffix(u, s, n)
          BY <2>4, <4>1, SuffixFacts
      <4>3. PICK p : p = r + n /\ p = e - Len(s) + n /\ r < p /\ p <= e /\ p \in Nat
          BY <1>5, <1>7, <2>4, <3>1, <3>5
      <4>4. file[p] < 0 /\ \A j \in (r + 1)..(p - 1) : file[j] > 0
        <5>1. /\ p \in (r + 1)..e /\ p - r = n
              /\ \A j \in (r + 1)..(p - 1) : j \in (r + 1)..e /\ j - r \in 1..(n - 1)
            BY <1>5, <1>7, <2>4, <4>3
        <5> QED BY <2>4, <3>2, <3>5, <5>1
      <4>5. ASSUME sure
            PROVE  Clean(p)' /\ Done(p)'
        <5>1. p \in 0..Len(file) /\ p <= Len(file) /\ r <= p
            BY <1>5, <1>7, <4>3
        <5>2. Clean(p) /\ (Owed(-file[p]) => -file[p] <= floor)
            BY <1>4, <1>5, <2>6, <4>3, <4>4, <4>5, <5>1, Parts, DropFacts
        <5>3. Clean(p)'
            BY <2>3, <5>1, <5>2, Parts, PlacesKeep
        <5>4. \A j \in (r + 1)..p : file[j] < 0 /\ Owed(-file[j]) => -file[j] <= floor
          <6>1. \A j \in (r + 1)..p : j = p \/ j \in (r + 1)..(p - 1)
              BY <1>5, <4>3
          <6>2. \A j \in (r + 1)..(p - 1) : j \in 1..Len(file)
              BY <1>5, <5>1
          <6>3. \A j \in (r + 1)..(p - 1) : ~(file[j] < 0)
              BY <4>4, <6>2, Parts, FileFacts
          <6> QED BY <5>2, <6>1, <6>3
        <5>5. Done(p)'
            BY <1>8, <3>3, <4>5, <5>1, <5>4, Parts, DoneBeyond
        <5> QED BY <5>3, <5>5
      <4>6. Held(u, e, sure)'
          BY <1>8, <2>2, <4>2, <4>3, <4>5, Parts, HeldDrop DEF Boundary
      <4>7. Follows(u, e, sure, FALSE)'
          BY <1>8, <2>2, <4>1, <4>2, <4>3, <4>5, Parts, FollowsDrop
      <4>8. d'.sure = sure
          BY <1>1, <1>3, <4>1
      <4>9. Held(buf, nxt, d.sure)' /\ Follows(buf, nxt, d.sure, FALSE)'
          BY <4>1, <4>6, <4>7, <4>8
      <4> QED BY <1>2, <1>8, <4>1, <4>9, ChunkKeeps
    <3> QED BY <3>4, <3>5
  <2> QED BY <1>4, <2>5, <2>6
<1> QED BY <1>9, <1>10

-----------------------------------------------------------------------------
(* Publishing                                                              *)

\* The first line of the bytes at hand, s, ends at its e-th byte.
FirstLine(s, e) ==
    /\ e \in 1..Len(s) /\ s[e] < 0 /\ \A i \in 1..(e - 1) : s[i] > 0

\* It is certain that they begin after position p of the file.
LineAt(p, e, s, n) == p = n - Len(s) /\ Held(s, n, TRUE) /\ FirstLine(s, e)

\* The line is whole, or the rest of a line that need not be published.
LEMMA LineFacts ==
    ASSUME FileInv, FloorInv, MaxPending \in Nat \ {0},
           NEW s, NEW n, NEW e, NEW p, LineAt(p, e, s, n)
    PROVE  /\ -s[e] \in 1..Len(lineLen) /\ \A i \in 1..(e - 1) : s[i] = -s[e]
           /\ Clean(p) => lineLen[-s[e]] = e - 1
           /\ ~Clean(p) => -s[e] <= floor \/ lineLen[-s[e]] > MaxPending
           /\ p \in 0..Len(file) /\ p + e \in 1..Len(file) /\ file[p + e] = s[e]
           /\ \A j \in (p + 1)..(p + e - 1) : file[j] > 0
<1>0. Held(s, n, TRUE) /\ FirstLine(s, e) /\ p = n - Len(s)
    BY DEF LineAt
<1>1. /\ p \in Nat /\ p <= Len(file) /\ Len(s) \in Nat /\ n \in Nat /\ n = p + Len(s)
      /\ n <= Len(file)
      /\ \A i \in 1..Len(s) : s[i] = file[p + i]
      /\ Boundary(p) /\ Len(file) \in Nat /\ \A i \in 1..Len(s) : s[i] \in Int
  <2>1. /\ n \in Nat /\ Len(s) \in Nat /\ Len(s) <= n /\ n <= Len(file)
        /\ n - Len(s) \in 0..Len(file)
        /\ \A i \in 1..Len(s) : s[i] = file[n - Len(s) + i]
        /\ Boundary(n - Len(s))
        /\ \A i \in 1..Len(s) : s[i] \in Int
      BY <1>0, HeldFacts
  <2>2. Len(file) \in Nat
      BY FileFacts
  <2>3. p \in Nat /\ p <= Len(file) /\ n = p + Len(s) /\ p = n - Len(s)
      BY <1>0, <2>1, <2>2
  <2> QED BY <2>1, <2>2, <2>3
<1>2. /\ e \in Nat \ {0} /\ e <= Len(s) /\ s[e] < 0
      /\ \A i \in 1..(e - 1) : s[i] > 0 /\ i \in 1..Len(s)
    BY <1>0, <1>1 DEF FirstLine
<1>3. p + e \in 1..Len(file) /\ file[p + e] = s[e] /\ p + e <= Len(file)
    BY <1>1, <1>2
<1>4. \A j \in (p + 1)..(p + e - 1) : j - p \in 1..(e - 1) /\ p + (j - p) = j
    BY <1>1, <1>2
<1>5. \A j \in (p + 1)..(p + e - 1) : file[j] = s[j - p] /\ file[j] > 0
    BY <1>1, <1>2, <1>4
<1>6. CASE Clean(p)
  <2>1. /\ -file[p + e] \in 1..Len(lineLen) /\ lineLen[-file[p + e]] = e - 1
        /\ \A i \in (p + 1)..(p + e - 1) : file[i] = -file[p + e]
      BY <1>1, <1>2, <1>3, <1>5, <1>6, WholeText
  <2>2. \A i \in 1..(e - 1) : p + i \in (p + 1)..(p + e - 1) /\ s[i] = file[p + i]
      BY <1>1, <1>2
  <2> QED BY <1>1, <1>3, <1>5, <1>6, <2>1, <2>2
<1>7. CASE ~Clean(p)
  <2>0. PICK j : j = p + e
      OBVIOUS
  <2>1. /\ Exempt(p) /\ p < j /\ j \in 1..Len(file) /\ file[j] = s[e] /\ file[j] < 0
        /\ \A l \in (p + 1)..(j - 1) : file[l] > 0
      BY <1>1, <1>2, <1>3, <1>5, <1>7, <2>0 DEF Boundary
  <2>2. /\ file[p] = -file[j] /\ -file[j] \in 1..Len(lineLen)
        /\ -file[j] <= floor \/ lineLen[-file[j]] > MaxPending
      BY <1>1, <2>1, ExemptLine
  <2>3. \A i \in 1..(e - 1) : s[i] = -s[e]
    <3> SUFFICES ASSUME NEW i \in 1..(e - 1) PROVE s[i] = -s[e]
        OBVIOUS
    <3>1. PICK k : k = p + i
        OBVIOUS
    <3>2. /\ k \in 1..Len(file) /\ k <= j /\ s[i] = file[k] /\ s[i] > 0
          /\ \A l \in k..(j - 1) : l \in (p + 1)..(j - 1)
        BY <1>1, <1>2, <2>0, <3>1
    <3>3. LineOf(file[k]) = LineOf(file[j])
        BY <2>1, <3>2, SameLine
    <3> QED BY <1>1, <1>2, <2>1, <3>2, <3>3 DEF LineOf
  <2> QED BY <1>1, <1>3, <1>5, <1>7, <2>1, <2>2, <2>3
<1> QED BY <1>6, <1>7

\* A line that is to be published, as soon as its text t is.
LEMMA LineDone ==
    ASSUME FileInv, FloorInv, MaxPending \in Nat \ {0}, UNCHANGED log, floor' = floor,
           ingested \subseteq ingested', NEW s, NEW n, NEW e, NEW p, LineAt(p, e, s, n),
           e - 1 \in 1..MaxPending /\ lineLen[-s[e]] = e - 1 => -s[e] \in ingested'
    PROVE  Clean(p + e)' /\ Boundary(p + e)' /\ Done(p + e)'
<1>1. /\ -s[e] \in 1..Len(lineLen)
      /\ Clean(p) => lineLen[-s[e]] = e - 1
      /\ ~Clean(p) => -s[e] <= floor \/ lineLen[-s[e]] > MaxPending
      /\ p \in 0..Len(file) /\ p + e \in 1..Len(file) /\ file[p + e] = s[e]
      /\ \A j \in (p + 1)..(p + e - 1) : file[j] > 0
    BY LineFacts
<1>2. file' = file /\ s[e] < 0 /\ e \in Int /\ Len(file) \in Nat /\ e > 0
    BY HeldFacts, FileFacts DEF log, FirstLine, LineAt
<1>3. Clean(p + e)' /\ Boundary(p + e)'
    BY <1>1, <1>2 DEF Clean, Boundary
<1>4. Owed(-file[p + e]) => -file[p + e] \in ingested' \/ -file[p + e] <= floor
  <2>1. CASE Clean(p)
      BY <1>1, <2>1 DEF Owed
  <2>2. CASE ~Clean(p)
      BY <1>1, <2>2, FileFacts DEF Owed
  <2> QED BY <2>1, <2>2
<1>5. \A j \in (p + 1)..(p + e) :
          file[j] < 0 /\ Owed(-file[j]) => -file[j] \in ingested' \/ -file[j] <= floor
  <2>1. \A j \in (p + 1)..(p + e) : j = p + e \/ j \in (p + 1)..(p + e - 1)
      BY <1>1, <1>2
  <2>2. \A j \in (p + 1)..(p + e - 1) : j \in 1..Len(file)
      BY <1>1, <1>2
  <2>3. \A j \in (p + 1)..(p + e - 1) : ~(file[j] < 0)
      BY <1>1, <2>2, FileFacts
  <2> QED BY <1>4, <2>1, <2>3
<1>6. Done(p)
  <2>1. Done(n - Len(s)) /\ p = n - Len(s)
      BY HeldFacts DEF LineAt
  <2> QED BY <2>1
<1>7. p + e \in 0..Len(file) /\ p <= p + e
    BY <1>1, <1>2
<1>8. Done(p + e)'
    BY <1>1, <1>5, <1>6, <1>7, DoneBeyond
<1> QED BY <1>3, <1>8

\* A text of one byte only.
LEMMA Constant ==
    ASSUME NEW t \in Seq(Int), NEW m \in Nat, Len(t) = m, NEW k, \A i \in 1..m : t[i] = k
    PROVE  t = [i \in 1..m |-> k]
<1>1. t = [i \in 1..Len(t) |-> t[i]]
    BY LenProperties, SeqDef
<1> QED BY <1>1

\* One more text in the stream.
LEMMA StreamAppends ==
    ASSUME StreamInv, UNCHANGED log, floor' = floor, Len(lineLen) \in Nat,
           NEW t \in Seq(Int), NEW sure \in BOOLEAN,
           stream' = Append(stream, [text |-> t, sure |-> sure]),
           t # <<>>, t[Len(t)] <= Len(lineLen),
           sure => t[1] \in 1..Len(lineLen) /\ (Whole(t) \/ (stream = <<>> /\ Cut(t))),
           \A j \in 1..Len(stream) : stream[j].text[Len(stream[j].text)] < t[Len(t)]
    PROVE  /\ StreamInv'
           /\ Len(stream') = Len(stream) + 1 /\ Len(stream) \in Nat
           /\ \A j \in 1..Len(stream) : stream'[j] = stream[j]
           /\ stream'[Len(stream) + 1].text = t
<1>1. stream \in Seq(Entries) /\ [text |-> t, sure |-> sure] \in Entries
    BY DEF StreamInv, Entries
<1>2. /\ stream' \in Seq(Entries) /\ Len(stream') = Len(stream) + 1 /\ Len(stream) \in Nat
      /\ \A j \in 1..Len(stream) : stream'[j] = stream[j]
      /\ stream'[Len(stream) + 1] = [text |-> t, sure |-> sure]
    BY <1>1, AppendFacts
<1>3. stream'[Len(stream) + 1].text = t /\ stream'[Len(stream) + 1].sure = sure
    BY <1>2
<1>4. lineLen' = lineLen /\ floor' = floor
    BY DEF log
<1>5. \A i \in 1..Len(stream') : i \in 1..Len(stream) \/ i = Len(stream) + 1
    BY <1>2
<1>6. ASSUME NEW i \in 1..Len(stream), NEW x, x = stream[i].text
      PROVE  /\ x # <<>> /\ x[Len(x)] <= Len(lineLen)
             /\ stream[i].sure =>
                    x[1] \in 1..Len(lineLen) /\ (Whole(x) \/ (i = 1 /\ Cut(x)))
             /\ \A j \in 1..(i - 1) : stream[j].text[Len(stream[j].text)] < x[Len(x)]
    BY <1>6 DEF StreamInv
<1>7. stream = <<>> => Len(stream) + 1 = 1
    BY EmptySeq
<1>8. ASSUME NEW i \in 1..Len(stream'), NEW x, x = stream'[i].text
      PROVE  /\ x # <<>> /\ x[Len(x)] <= Len(lineLen)
             /\ stream'[i].sure =>
                    x[1] \in 1..Len(lineLen) /\ (Whole(x) \/ (i = 1 /\ Cut(x)))
             /\ \A j \in 1..(i - 1) : stream'[j].text[Len(stream'[j].text)] < x[Len(x)]
  <2>1. CASE i \in 1..Len(stream)
    <3>1. x = stream[i].text /\ stream'[i] = stream[i]
        BY <1>2, <1>8, <2>1
    <3>2. \A j \in 1..(i - 1) : stream'[j] = stream[j]
        BY <1>2, <2>1
    <3> QED BY <1>6, <2>1, <3>1, <3>2
  <2>2. CASE i = Len(stream) + 1
    <3>1. x = t /\ stream'[i].sure = sure
        BY <1>3, <1>8, <2>2
    <3>2. \A j \in 1..(i - 1) : j \in 1..Len(stream) /\ stream'[j] = stream[j]
        BY <1>2, <2>2
    <3> QED BY <1>7, <2>2, <3>1, <3>2
  <2> QED BY <1>5, <2>1, <2>2
<1>9. \A i \in 1..Len(stream') :
          LET x == stream'[i].text
          IN  /\ x # <<>> /\ x[Len(x)] <= Len(lineLen)
              /\ stream'[i].sure =>
                     x[1] \in 1..Len(lineLen) /\ (Whole(x) \/ (i = 1 /\ Cut(x)))
              /\ \A j \in 1..(i - 1) : stream'[j].text[Len(stream'[j].text)] < x[Len(x)]
    BY <1>8
<1>10. StreamInv'
    BY <1>2, <1>4, <1>9 DEF StreamInv, Whole, Cut
<1> QED BY <1>2, <1>3, <1>10

\* Publish keeps the invariant: the line is published whole, or need not be,
\* and what is left of the chunk begins after it.
LEMMA PublishKeeps ==
    ASSUME IInv, Publish
    PROVE  IInv'
<1>1. PICK s, n, sure, e, t :
        s = buf /\ n = nxt /\ sure = d.sure /\ e = Newline(s) /\ t = SubSeq(s, 1, e - 1)
    OBVIOUS
<1>2. /\ pc = "publish" /\ e # 0 /\ Held(s, n, sure) /\ Follows(s, n, sure, FALSE)
      /\ sure \in BOOLEAN
    BY <1>1, Parts DEF Publish, TickInv, Cursors
<1>3. /\ UNCHANGED log /\ UNCHANGED <<cursor, offsets, dirty, disk, pc, d, own, want, nxt, faults>>
      /\ floor' = floor /\ buf' = SubSeq(s, e + 1, Len(s))
      /\ IF Len(t) \in 1..MaxPending
         THEN /\ stream' = Append(stream, [text |-> t, sure |-> sure])
              /\ ingested' = ingested \cup {k \in {t[1]} : t = [i \in 1..lineLen[k] |-> k]}
         ELSE UNCHANGED <<stream, ingested>>
    BY <1>1 DEF Publish, Publishable, Text, saved
<1>4. /\ s \in Seq(Int) /\ n \in Nat /\ Len(s) \in Nat /\ Len(s) <= n
      /\ \A i \in 1..Len(s) : s[i] \in Int /\ s[i] # 0 /\ (s[i] < 0 => -s[i] <= Len(lineLen))
      /\ \A i, j \in 1..Len(s) : i < j => Before(s[i], s[j])
      /\ \A i \in 1..Len(s), q \in Rest(n) : Before(s[i], file[q])
    BY <1>2, Parts, HeldFacts
<1>5. FirstLine(s, e)
  <2>1. e \in 0..Len(s) /\ s[e] < 0 /\ \A i \in 1..(e - 1) : s[i] >= 0
      BY <1>1, <1>2, <1>4, NewlineFacts
  <2>2. e \in 1..Len(s) /\ \A i \in 1..(e - 1) : i \in 1..Len(s)
      BY <1>2, <1>4, <2>1
  <2> QED BY <1>4, <2>1, <2>2 DEF FirstLine
<1>6. /\ e \in 1..Len(s) /\ e \in Nat /\ e > 0 /\ s[e] < 0
      /\ \A i \in 1..(e - 1) : s[i] > 0 /\ i \in 1..Len(s)
    BY <1>4, <1>5 DEF FirstLine
<1>7. /\ t \in Seq(Int) /\ Len(t) = e - 1 /\ DOMAIN t = 1..(e - 1)
      /\ \A i \in 1..(e - 1) : t[i] = s[i]
  <2>1. 0 \in Nat /\ e - 1 \in Nat /\ e - 1 <= Len(s)
      BY <1>4, <1>6
  <2>2. PICK m \in Nat : m = e - 1
      BY <2>1
  <2>3. /\ SubSeq(s, 0 + 1, m) \in Seq(Int)
        /\ Len(SubSeq(s, 0 + 1, m)) = (IF 0 < m THEN m - 0 ELSE 0)
        /\ DOMAIN SubSeq(s, 0 + 1, m) = 1..Len(SubSeq(s, 0 + 1, m))
        /\ \A i \in 1..(m - 0) : SubSeq(s, 0 + 1, m)[i] = s[0 + i]
      BY <1>4, <2>1, <2>2, SliceFacts
  <2>4. t = SubSeq(s, 0 + 1, m) /\ 0 + 1 = 1 /\ m - 0 = m
      BY <1>1, <2>2
  <2>5. \A i \in 1..m : 0 + i = i
      BY <2>2
  <2> QED BY <2>2, <2>3, <2>4, <2>5
<1>8. ingested \subseteq ingested'
    BY <1>3
<1>9. Extends /\ FileInv' /\ FloorInv' /\ (stream' \in {stream, <<>>} => StreamInv')
    BY <1>3, <1>8, QuietFacts
<1>10. PICK u : u = buf' /\ Suffix(u, s, e)
  <2>1. Suffix(SubSeq(s, e + 1, Len(s)), s, e)
      BY <1>4, <1>6, SuffixFacts
  <2> QED BY <1>3, <2>1
<1>11. PICK p, b : p = n - Len(s) /\ b = p + e /\ b = n - Len(s) + e /\ n - Len(u) = b
    BY <1>4, <1>6, <1>10 DEF Suffix
<1>12. ASSUME sure
       PROVE  /\ LineAt(p, e, s, n) /\ Clean(b)' /\ Boundary(b)' /\ Done(b)'
              /\ -s[e] \in 1..Len(lineLen) /\ \A i \in 1..(e - 1) : s[i] = -s[e]
              /\ Clean(p) => lineLen[-s[e]] = e - 1
              /\ ~Clean(p) => -s[e] <= floor \/ lineLen[-s[e]] > MaxPending
              /\ lineLen[-s[e]] = e - 1 => t = [i \in 1..lineLen[-s[e]] |-> -s[e]]
  <2>1. LineAt(p, e, s, n)
    <3>1. sure = TRUE
        BY <1>2, <1>12
    <3>2. Held(s, n, TRUE)
        BY <1>2, <3>1
    <3> QED BY <1>5, <1>11, <3>2 DEF LineAt
  <2>2. /\ -s[e] \in 1..Len(lineLen) /\ \A i \in 1..(e - 1) : s[i] = -s[e]
        /\ Clean(p) => lineLen[-s[e]] = e - 1
        /\ ~Clean(p) => -s[e] <= floor \/ lineLen[-s[e]] > MaxPending
      BY <2>1, Parts, LineFacts
  <2>3. lineLen[-s[e]] = e - 1 => t = [i \in 1..lineLen[-s[e]] |-> -s[e]]
    <3>1. e - 1 \in Nat /\ Len(t) = e - 1 /\ \A i \in 1..(e - 1) : t[i] = -s[e]
        BY <1>6, <1>7, <2>2
    <3>2. t = [i \in 1..(e - 1) |-> -s[e]]
        BY <1>7, <3>1, Constant
    <3> QED BY <3>2
  <2>4. e - 1 \in 1..MaxPending /\ lineLen[-s[e]] = e - 1 => -s[e] \in ingested'
    <3> SUFFICES ASSUME e - 1 \in 1..MaxPending, lineLen[-s[e]] = e - 1 PROVE -s[e] \in ingested'
        OBVIOUS
    <3>1. t[1] = -s[e]
      <4>1. 1 \in 1..(e - 1)
          BY <1>6
      <4> QED BY <1>7, <2>2, <4>1
    <3>2. ingested' = ingested \cup {k \in {t[1]} : t = [i \in 1..lineLen[k] |-> k]}
        BY <1>3, <1>7
    <3> QED BY <2>3, <3>1, <3>2
  <2>5. Clean(p + e)' /\ Boundary(p + e)' /\ Done(p + e)'
      BY <1>3, <1>8, <2>1, <2>4, Parts, LineDone
  <2> QED BY <1>11, <2>1, <2>2, <2>3, <2>5
<1>13. Held(u, n, sure)'
    BY <1>2, <1>3, <1>10, <1>11, <1>12, Parts, HeldDrop
<1>14. StreamInv' /\ Follows(u, n, sure, FALSE)'
  <2>1. CASE Len(t) \notin 1..MaxPending
    <3>1. stream' = stream
        BY <1>3, <2>1
    <3> QED BY <1>2, <1>3, <1>9, <1>10, <1>11, <1>12, <3>1, Parts, FollowsDrop
  <2>2. CASE Len(t) \in 1..MaxPending
    <3>1. /\ stream' = Append(stream, [text |-> t, sure |-> sure])
          /\ e > 1 /\ e - 1 \in 1..(e - 1) /\ 1 \in 1..(e - 1) /\ e - 1 \in 1..Len(s) /\ e - 1 < e
        BY <1>3, <1>6, <1>7, <2>2
    <3>2. t # <<>> /\ t[Len(t)] = s[e - 1] /\ s[e - 1] > 0 /\ s[e - 1] \in Int
        BY <1>4, <1>6, <1>7, <3>1, EmptySeq
    <3>3. s[e - 1] <= -s[e] /\ -s[e] <= Len(lineLen) /\ s[e] \in Int /\ Len(lineLen) \in Nat
      <4>1. Before(s[e - 1], s[e])
          BY <1>4, <1>6, <3>1
      <4>2. /\ s[e] \in Int /\ s[e] < 0 /\ s[e - 1] > 0 /\ s[e - 1] \in Int
            /\ -s[e] <= Len(lineLen)
          BY <1>4, <1>6, <3>2
      <4>3. Len(lineLen) \in Nat
          BY Parts, FileFacts
      <4>4. s[e - 1] <= -s[e]
        <5>1. LineOf(s[e - 1]) = s[e - 1] /\ LineOf(s[e]) = -s[e]
            BY <4>2 DEF LineOf
        <5> QED BY <4>1, <5>1 DEF Before
      <4> QED BY <4>2, <4>3, <4>4
    <3>4. \A j \in 1..Len(stream) : stream[j].text[Len(stream[j].text)] < t[Len(t)]
      <4>1. LineOf(s[e - 1]) = s[e - 1]
          BY <3>2 DEF LineOf
      <4> QED BY <1>2, <3>1, <3>2, <4>1 DEF Follows
    <3>5. sure => t[1] \in 1..Len(lineLen) /\ (Whole(t) \/ (stream = <<>> /\ Cut(t)))
      <4> SUFFICES ASSUME sure
                   PROVE  t[1] \in 1..Len(lineLen) /\ (Whole(t) \/ (stream = <<>> /\ Cut(t)))
          OBVIOUS
      <4>1. t[1] = -s[e] /\ t[1] \in 1..Len(lineLen)
          BY <1>7, <1>12, <3>1
      <4>2. CASE Clean(p)
          BY <1>12, <4>1, <4>2 DEF Whole
      <4>3. CASE ~Clean(p)
        <5>1. stream = <<>>
            BY <1>2, <1>11, <4>3 DEF Follows
        <5>2. Range(t) = {t[1]}
          <6>1. \A i \in 1..(e - 1) : t[i] = t[1]
              BY <1>7, <1>12, <4>1
          <6> QED BY <1>7, <3>1, <6>1 DEF Range
        <5> QED BY <1>12, <4>1, <4>3, <5>1, <5>2 DEF Cut
      <4> QED BY <4>1, <4>2, <4>3
    <3>6. /\ StreamInv' /\ Len(stream') = Len(stream) + 1 /\ Len(stream) \in Nat
          /\ \A j \in 1..Len(stream) : stream'[j] = stream[j]
          /\ stream'[Len(stream) + 1].text = t
      <4>1. t[Len(t)] <= Len(lineLen)
          BY <3>2, <3>3
      <4> QED BY <1>2, <1>3, <1>7, <3>1, <3>2, <3>3, <3>4, <3>5, <4>1, Parts, StreamAppends
    <3>7. Follows(u, n, sure, FALSE)'
      <4>1. \A i \in 1..Len(u) : u[i] = s[e + i] /\ e + i \in 1..Len(s) /\ e < e + i
          BY <1>4, <1>6, <1>10 DEF Suffix
      <4>2. \A i \in 1..Len(u) : s[e - 1] < LineOf(u[i])
        <5> SUFFICES ASSUME NEW i \in 1..Len(u) PROVE s[e - 1] < LineOf(u[i])
            OBVIOUS
        <5>1. Before(s[e], u[i]) /\ u[i] \in Int
            BY <1>4, <1>6, <4>1
        <5> QED BY <1>6, <3>2, <3>3, <5>1 DEF Before, LineOf
      <4>3. \A q \in Rest(n) : s[e - 1] < LineOf(file[q])
        <5> SUFFICES ASSUME NEW q \in Rest(n) PROVE s[e - 1] < LineOf(file[q])
            OBVIOUS
        <5>1. Before(s[e], file[q]) /\ file[q] \in Int
            BY <1>4, <1>6, Parts, FileFacts DEF Rest
        <5> QED BY <1>6, <3>2, <3>3, <5>1 DEF Before, LineOf
      <4>4. \A j \in 1..Len(stream) : LET k == stream[j].text[Len(stream[j].text)]
                IN  /\ \A i \in 1..Len(u) : k < LineOf(u[i])
                    /\ \A q \in Rest(n) : k < LineOf(file[q])
          BY <1>2, <4>1 DEF Follows
      <4>5. \A j \in 1..Len(stream') : j \in 1..Len(stream) \/ j = Len(stream) + 1
          BY <3>6
      <4>6. \A j \in 1..Len(stream') : LET k == stream'[j].text[Len(stream'[j].text)]
                IN  /\ \A i \in 1..Len(u) : k < LineOf(u[i])
                    /\ \A q \in Rest(n) : k < LineOf(file[q])
          BY <3>2, <3>6, <4>2, <4>3, <4>4, <4>5
      <4>7. file' = file
          BY <1>3 DEF log
      <4>8. sure => Clean(n - Len(u))'
          BY <1>11, <1>12
      <4> QED BY <4>6, <4>7, <4>8 DEF Follows, Rest, LineOf
    <3> QED BY <3>6, <3>7
  <2> QED BY <2>1, <2>2
<1>15. OffsetInv(offsets)' /\ OffsetInv(disk)' /\ CursorInv(cursor)'
    BY <1>3, <1>9, Parts, OffsetKeeps, CursorKeeps
<1>16. TickInv'
  <2>1. ingested' \subseteq 1..MaxLines
    <3>1. CASE Len(t) \in 1..MaxPending
      <4>1. 1 \in 1..Len(s) /\ t[1] = s[1] /\ s[1] > 0
          BY <1>4, <1>6, <1>7, <3>1
      <4>2. s[1] \in 1..MaxLines
          BY <1>2, <4>1, Parts, LogTailAssumption DEF Held, Known, LineOf
      <4> QED BY <1>3, <3>1, <4>1, <4>2, Parts
    <3>2. CASE Len(t) \notin 1..MaxPending
        BY <1>3, <3>2, Parts
    <3> QED BY <3>1, <3>2
  <2>2. /\ dirty' \in BOOLEAN /\ own' \in BOOLEAN /\ want' \in 0..Chunk /\ nxt' \in 0..MaxBytes
        /\ faults' \in 0..MaxFaults /\ d' \in Cursors /\ d' # NoCursor /\ pc' = "publish"
      BY <1>2, <1>3, Parts DEF TickInv
  <2>3. Held(buf, nxt, d.sure)' /\ Follows(buf, nxt, d.sure, FALSE)'
    <3>1. buf' = u /\ nxt' = n /\ d'.sure = sure
        BY <1>1, <1>3, <1>10
    <3> QED BY <1>13, <1>14, <3>1
  <2> QED BY <2>1, <2>2, <2>3 DEF TickInv
<1> QED BY <1>9, <1>14, <1>15, <1>16 DEF IInv

-----------------------------------------------------------------------------
(* The theorems                                                            *)

\* The initial states.
LEMMA Initially == Init => IInv
<1> SUFFICES ASSUME Init PROVE IInv
    OBVIOUS
<1>1. file = <<>> /\ lineLen = <<>> /\ stream = <<>> /\ floor = 0 /\ ingested = {} /\ faults = 0
      /\ cursor = NoCursor /\ offsets = NoOffset /\ disk = NoOffset /\ d = NoCursor
      /\ pc = "down" /\ dirty = FALSE /\ own = FALSE /\ want = 0 /\ nxt = 0
    BY DEF Init
<1>2. /\ Len(file) = 0 /\ Len(lineLen) = 0 /\ 1..0 = {} /\ Writing = 1
      /\ file \in Seq(Int) /\ lineLen \in Seq(Nat) /\ stream \in Seq(Entries) /\ Len(stream) = 0
      /\ 0 <= MaxBytes /\ 0 <= MaxLines /\ 0 \in 0..MaxLines /\ 0 \in 0..0
      /\ 0 \in 0..Chunk /\ 0 \in 0..MaxBytes /\ 0 \in 0..MaxFaults /\ {} \subseteq 1..MaxLines
    BY <1>1, LogTailAssumption, EmptySeq DEF Writing
<1>3. FileInv
    BY <1>1, <1>2 DEF FileInv, FileTypes, Ordered, Contiguous, Lengths, Unfinished
<1>4. FloorInv
    BY <1>1, <1>2 DEF FloorInv
<1>5. OffsetInv(offsets) /\ OffsetInv(disk) /\ CursorInv(cursor)
    BY <1>1, NoOffsetInv, NoCursorInv
<1>6. StreamInv
    BY <1>1, <1>2 DEF StreamInv
<1>7. TickInv
    BY <1>1, <1>2, NoCursorInv DEF TickInv
<1> QED BY <1>3, <1>4, <1>5, <1>6, <1>7 DEF IInv

\* Every step keeps the invariant, for every chunk size, limit and number of
\* faults: the heart of the three theorems that follow.
THEOREM InductiveInvariant == Spec => []IInv
<1>1. IInv /\ [Next]_vars => IInv'
  <2> SUFFICES ASSUME IInv, [Next]_vars PROVE IInv'
      OBVIOUS
  <2>1. CASE Write
      BY <2>1, WriteKeeps
  <2>2. CASE Rotate
      BY <2>2, RotateKeeps
  <2>3. CASE Boot
      BY <2>3, BootKeeps
  <2>4. CASE Uncatalog
      BY <2>4, UncatalogKeeps
  <2>5. CASE Catalog
      BY <2>5, CatalogKeeps
  <2>6. CASE Stop \/ Crash
      BY <2>6, StopCrashKeep
  <2>7. CASE Stat
      BY <2>7, StatKeeps
  <2>8. CASE NoneToDrain
      BY <2>8, NoneToDrainKeeps
  <2>9. CASE Read
      BY <2>9, ReadKeeps
  <2>10. CASE ReadFails
      BY <2>10, ReadFailsKeeps
  <2>11. CASE Publish
      BY <2>11, PublishKeeps
  <2>12. CASE Reject
      BY <2>12, RejectKeeps
  <2>13. CASE Finish
      BY <2>13, FinishKeeps
  <2>14. CASE Persist
      BY <2>14, PersistKeeps
  <2>15. CASE UNCHANGED vars
      BY <2>15, StutterKeeps
  <2> QED BY <2>1, <2>2, <2>3, <2>4, <2>5, <2>6, <2>7, <2>8, <2>9, <2>10, <2>11, <2>12,
             <2>13, <2>14, <2>15 DEF Next
<1> QED BY <1>1, Initially, PTL DEF Spec

\* The pending bytes of a sure cursor are a slice of the file.
LEMMA CursorTyped ==
    ASSUME FileInv, NEW c, CursorInv(c)
    PROVE  CursorOK(c)
<1> SUFFICES ASSUME c # NoCursor
             PROVE  /\ c.read \in 0..MaxBytes /\ c.discard \in BOOLEAN /\ c.sure \in BOOLEAN
                    /\ c.committed + Len(c.pending) = c.read /\ Len(c.pending) <= MaxPending
                    /\ c.discard => c.pending = <<>>
                    /\ c.sure => /\ c.read <= Len(file)
                                 /\ c.pending = SubSeq(file, c.committed + 1, c.read)
    BY DEF CursorOK
<1>1. /\ c.discard \in BOOLEAN /\ c.sure \in BOOLEAN /\ c.committed \in Int
      /\ Held(c.pending, c.read, c.sure)
      /\ c.committed + Len(c.pending) = c.read /\ Len(c.pending) <= MaxPending
      /\ c.discard => c.pending = <<>>
    BY DEF CursorInv, Cursors
<1>2. PICK s, n, p : s = c.pending /\ n = c.read /\ p = c.committed
    OBVIOUS
<1>3. /\ s \in Seq(Int) /\ n \in Nat /\ n \in 0..MaxBytes /\ Len(s) \in Nat /\ Len(s) <= n
      /\ p \in Int /\ p + Len(s) = n
      /\ c.sure => n <= Len(file) /\ \A i \in 1..Len(s) : s[i] = file[n - Len(s) + i]
    BY <1>1, <1>2, HeldFacts
<1>4. ASSUME c.sure PROVE s = SubSeq(file, p + 1, n)
  <2>1. p \in Nat /\ n \in Nat /\ n <= Len(file) /\ p <= n /\ n - Len(s) = p /\ Len(s) = n - p
      BY <1>3, <1>4
  <2>2. file \in Seq(Int)
      BY DEF FileInv, FileTypes
  <2>3. PICK t : t = SubSeq(file, p + 1, n)
      OBVIOUS
  <2>4. /\ t \in Seq(Int) /\ Len(t) = (IF p < n THEN n - p ELSE 0)
        /\ \A i \in 1..(n - p) : t[i] = file[p + i]
      BY <2>1, <2>2, <2>3, SliceFacts
  <2>5. Len(t) = Len(s) /\ \A i \in 1..Len(s) : s[i] = t[i]
    <3>1. Len(t) = Len(s)
        BY <2>1, <2>4
    <3>2. \A i \in 1..Len(s) : s[i] = file[(n - Len(s)) + i]
        BY <1>3, <1>4
    <3>3. \A i \in 1..Len(s) : s[i] = file[p + i]
        BY <2>1, <3>2
    <3> QED BY <2>1, <2>4, <3>1, <3>3
  <2>6. s = t
      BY <1>3, <2>4, <2>5, SeqEqual
  <2> QED BY <2>3, <2>6
<1> QED BY <1>1, <1>2, <1>3, <1>4

\* Every variable has its type, and a cursor's pending bytes are in the file.
THEOREM TypesHold == Spec => []TypeOK
<1>1. IInv => TypeOK
  <2> SUFFICES ASSUME IInv PROVE TypeOK
      OBVIOUS
  <2>1. Len(file) <= MaxBytes /\ Len(lineLen) <= MaxLines /\ floor \in 0..MaxLines
      BY Parts DEF FileInv, FileTypes, FloorInv
  <2>2. CursorOK(cursor) /\ (pc = "read" => CursorOK(d))
      BY Parts, CursorTyped DEF TickInv
  <2>3. \A o \in {offsets, disk} : o.at \in -1..MaxBytes /\ o.sure \in BOOLEAN
      BY Parts DEF OffsetInv
  <2> QED BY <2>1, <2>2, <2>3, Parts DEF TypeOK, TickInv
<1> QED BY <1>1, InductiveInvariant, PTL

\* Nothing before an offset that is sure is still to be published.
THEOREM NeverSkips == Spec => []NothingSkipped
<1>1. IInv => NothingSkipped
  <2> SUFFICES ASSUME IInv,
                      NEW o \in {disk, offsets, [at |-> cursor.committed, sure |-> cursor.sure]},
                      o.sure, NEW k \in LinesBelow(o.at), Owed(k)
               PROVE  k \in ingested \/ k <= floor
      BY DEF NothingSkipped
  <2>1. PICK i \in 1..Lesser(o.at, Len(file)) : file[i] < 0 /\ k = -file[i]
      BY DEF LinesBelow
  <2>2. o.at # -1 => Done(o.at) /\ o.at \in Nat
    <3> SUFFICES ASSUME o.at # -1 PROVE Done(o.at) /\ o.at \in Nat
        OBVIOUS
    <3>1. CASE o \in {disk, offsets}
        BY <3>1, Parts, LogTailAssumption DEF OffsetInv
    <3>2. CASE o = [at |-> cursor.committed, sure |-> cursor.sure]
      <4>0. o.at = cursor.committed /\ cursor.sure
        <5>1. PICK b \in BOOLEAN : b = cursor.sure
            BY Parts DEF CursorInv, Cursors
        <5> QED BY <3>2, <5>1
      <4>1. cursor # NoCursor
          BY <4>0 DEF NoCursor
      <4>2. PICK s, n, p : s = cursor.pending /\ n = cursor.read /\ p = cursor.committed
          OBVIOUS
      <4>3. Held(s, n, cursor.sure) /\ p + Len(s) = n /\ p \in Int /\ cursor.sure
          BY <4>0, <4>1, <4>2, Parts DEF CursorInv, Cursors
      <4>4. n \in Nat /\ Len(s) \in Nat /\ n - Len(s) \in 0..Len(file) /\ Done(n - Len(s))
          BY <4>3, Parts, HeldFacts
      <4>5. n - Len(s) = p /\ p \in Nat
          BY <4>3, <4>4, Parts, FileFacts
      <4>6. Done(p)
          BY <4>4, <4>5
      <4>7. o.at = p
          BY <4>0, <4>2
      <4> QED BY <4>5, <4>6, <4>7
    <3> QED BY <3>1, <3>2
  <2>3. o.at # -1 /\ i \in 1..Len(file) /\ i <= o.at
    <3>1. CASE o.at = -1
      <4>1. 1..Lesser(-1, Len(file)) = {}
          BY Parts, FileFacts DEF Lesser
      <4> QED BY <3>1, <4>1
    <3>2. CASE o.at # -1
        BY <2>2, <3>2, Parts, FileFacts DEF Lesser
    <3> QED BY <3>1, <3>2
  <2> QED BY <2>1, <2>2, <2>3 DEF Done
<1> QED BY <1>1, InductiveInvariant, PTL

\* Whole lines, in the order of the file and none twice.
THEOREM InOrder == Spec => []WholeLinesInOrder
<1>1. IInv => WholeLinesInOrder
  <2> SUFFICES ASSUME IInv, NEW i \in DOMAIN stream
               PROVE  LET p == stream[i]  k == p.text[1]
                      IN  /\ p.sure => \/ p.text = [j \in 1..lineLen[k] |-> k]
                                       \/ /\ i = 1 /\ Range(p.text) = {k}
                                          /\ lineLen[k] > MaxPending \/ k <= floor
                          /\ \A j \in 1..(i - 1) : Last(stream[j].text) < Last(p.text)
      BY DEF WholeLinesInOrder
  <2>1. DOMAIN stream = 1..Len(stream) /\ Len(stream) \in Nat
      BY Parts DEF StreamInv
  <2>2. \A x : Last(x) = x[Len(x)]
      BY DEF Last
  <2>3. PICK t : t = stream[i].text
      OBVIOUS
  <2>4. /\ stream[i].sure => Whole(t) \/ (i = 1 /\ Cut(t))
        /\ \A j \in 1..(i - 1) : stream[j].text[Len(stream[j].text)] < t[Len(t)]
      BY <2>1, <2>3, Parts DEF StreamInv
  <2>5. stream[i].sure => \/ t = [j \in 1..lineLen[t[1]] |-> t[1]]
                          \/ /\ i = 1 /\ Range(t) = {t[1]}
                             /\ lineLen[t[1]] > MaxPending \/ t[1] <= floor
      BY <2>4 DEF Whole, Cut
  <2>6. \A j \in 1..(i - 1) : Last(stream[j].text) < Last(t)
      BY <2>2, <2>4
  <2> QED BY <2>3, <2>5, <2>6
<1> QED BY <1>1, InductiveInvariant, PTL
=============================================================================
