------------------------------- MODULE IoLib -------------------------------
(***************************************************************************)
(* The handles of src/lua/iolib.cpp: opening, default files, reading,      *)
(* writing, seeking and closing.  The streams below them are the C++       *)
(* library's: a stream has one position, keeps what is written until it is *)
(* flushed, reads ahead, and once it has failed does nothing until it is   *)
(* cleared.  The data of standard streams, pipes and temporary files is    *)
(* left out; opening may also fail, which changes nothing.                 *)
(***************************************************************************)
EXTENDS Integers, Sequences, FiniteSetsExt

CONSTANTS
  Path,        \* names of files
  Chunk,       \* what a call may write, each a sequence of bytes (none does nothing)
  Formats,     \* arguments of read, each a sequence of formats
  SeekArgs,    \* arguments of seek, each whence and offset
  Slot,        \* places for handles that are not standard streams
  MaxLength    \* bound: the positions in a file

Std == {"std"}    \* stdin, stdout and stderr, which differ in nothing modelled
Missing == <<"missing">>
Free == [kind |-> "free"]

Digit == {"1"}
Space == {"nl"}
Sign == {"-"}
Byte == Digit \cup Space \cup Sign \cup {".", "e", "hole"}
Format == {"l", "a", "n", "2"}

ASSUME MaxLengthIsNat == MaxLength \in Nat
ASSUME SlotsAreNotStandard == Slot \cap Std = {}
ASSUME ChunksAreBytes == \A data \in Chunk : data \in Seq(Byte) /\ data # <<>>
ASSUME FormatsAreKnown == \A fmts \in Formats : fmts \in Seq(Format) /\ fmts # <<>>
ASSUME SeekArgsAreKnown == \A s \in SeekArgs : s \in {"set", "cur", "end"} \X Int

VARIABLES
  disk,      \* the contents of every file, Missing if there is none
  handle,    \* the file handles by userdata
  default,   \* io.__default_in and io.__default_out
  reading,   \* the read under way: by which handle, and the formats to come
  said,      \* history: the contents as the program has written them
  mixed      \* history: files written while another handle was at work

vars == <<disk, handle, default, reading, said, mixed>>

(* FileHandle.  in, out: how the stream was opened.  good: no failure flag  *)
(* is set.  ahead: read from disk beyond pos.  pending: written before pos  *)
(* and not yet on disk.  ended, a history: a read or a seek has failed      *)
(* since the last good seek.                                                *)
Other(k) == [kind |-> k, closed |-> FALSE]
Stream(p, m, at, own) ==
  [kind |-> "stream", closed |-> FALSE, close_on_eof |-> own, path |-> p,
   in |-> m.in, out |-> m.out, good |-> TRUE, pos |-> at,
   ahead |-> <<>>, pending |-> <<>>, ended |-> FALSE]

NoRead == [by |-> "std", fmts |-> <<>>]

StreamsOn(p) == {h \in Slot : handle[h].kind = "stream" /\ handle[h].path = p}
Alive(h) == handle[h].kind # "free"
IsOpen(h) == handle[h].kind = "stream" /\ ~handle[h].closed

Init ==
  /\ disk = [p \in Path |-> Missing]
  /\ handle = [h \in Std \cup Slot |-> IF h \in Std THEN Other("std") ELSE Free]
  /\ default = [in |-> "std", out |-> "std"]
  /\ reading = NoRead
  /\ said = disk
  /\ mixed = {}

-----------------------------------------------------------------------------
(* A file of bytes: data written at position at. *)
Overlay(c, at, data) ==
  LET old == IF c = Missing THEN <<>> ELSE c
      new == at + Len(data)
  IN  IF data = <<>> THEN c
      ELSE [i \in 1 .. (IF Len(old) > new THEN Len(old) ELSE new) |->
              IF i > at /\ i <= new THEN data[i - at]
              ELSE IF i <= Len(old) THEN old[i] ELSE "hole"]

Flushed(f) == Overlay(disk[f.path], f.pos - Len(f.pending), f.pending)
Synced(f) == [f EXCEPT !.pending = <<>>]

(* The handle becomes f2 after its buffer went to disk. *)
FlushTo(h, f2) ==
  /\ disk' = [disk EXCEPT ![handle[h].path] = Flushed(handle[h])]
  /\ handle' = [handle EXCEPT ![h] = f2]

-----------------------------------------------------------------------------
(* open_file: the streams' flags by mode.  "a" opens for writing at the     *)
(* end, which truncates; "a+" opens for both at the end.                    *)
OpenMode(m) ==
  CASE m = "r"  -> [in |-> TRUE,  out |-> FALSE, trunc |-> FALSE, ate |-> FALSE]
    [] m = "r+" -> [in |-> TRUE,  out |-> TRUE,  trunc |-> FALSE, ate |-> FALSE]
    [] m = "w"  -> [in |-> FALSE, out |-> TRUE,  trunc |-> TRUE,  ate |-> FALSE]
    [] m = "w+" -> [in |-> TRUE,  out |-> TRUE,  trunc |-> TRUE,  ate |-> FALSE]
    [] m = "a"  -> [in |-> FALSE, out |-> TRUE,  trunc |-> TRUE,  ate |-> TRUE]
    [] m = "a+" -> [in |-> TRUE,  out |-> TRUE,  trunc |-> FALSE, ate |-> TRUE]

OpenFile(h, p, mode, own) ==
  LET m == OpenMode(mode)
      c == IF m.trunc THEN <<>> ELSE disk[p]
      others == {g \in StreamsOn(p) : ~handle[g].closed}
  IN
  /\ handle[h] = Free
  /\ m.trunc \/ disk[p] # Missing
  /\ disk' = [disk EXCEPT ![p] = c]
  /\ handle' = [handle EXCEPT ![h] = Stream(p, m, IF m.ate THEN Len(c) ELSE 0, own)]
  /\ said' = [said EXCEPT ![p] = IF others = {} \/ m.trunc THEN c ELSE @]
  /\ mixed' = IF others = {} THEN mixed \ {p} ELSE IF m.trunc THEN mixed \cup {p} ELSE mixed

(* io.open(p, mode) *)
Open(h, p, mode) == OpenFile(h, p, mode, FALSE) /\ UNCHANGED default

(* io.input(p), io.output(p) *)
OpenDefault(h, p, d) ==
  /\ OpenFile(h, p, IF d = "in" THEN "r" ELSE "w", FALSE)
  /\ default' = [default EXCEPT ![d] = h]

(* io.input(f), io.output(f): f may be closed. *)
SetDefault(h, d) ==
  /\ Alive(h)
  /\ default' = [default EXCEPT ![d] = h]
  /\ UNCHANGED <<disk, handle, said, mixed>>

(* io.lines(p): the loop owns the handle. *)
OpenLines(h, p) == OpenFile(h, p, "r", TRUE) /\ UNCHANGED default

(* io.popen, io.tmpfile *)
OpenOther(h, k) ==
  /\ handle[h] = Free
  /\ handle' = [handle EXCEPT ![h] = Other(k)]
  /\ UNCHANGED <<disk, default, said, mixed>>

-----------------------------------------------------------------------------
CloseStreamUnflushed(h, f) ==
  /\ handle' = [handle EXCEPT ![h] = [Synced(f) EXCEPT !.closed = TRUE, !.ahead = <<>>]]
  /\ UNCHANGED disk
CloseStream(h, f) == FlushTo(h, [Synced(f) EXCEPT !.closed = TRUE, !.ahead = <<>>])

CloseStandardToo(h) ==
  IF handle[h].closed THEN UNCHANGED <<disk, handle>>
  ELSE IF handle[h].kind = "stream" THEN CloseStream(h, handle[h])
  ELSE handle' = [handle EXCEPT ![h].closed = TRUE] /\ UNCHANGED disk

(* close_file: nothing for a closed handle and for a standard stream. *)
CloseFile(h) ==
  IF handle[h].closed \/ handle[h].kind = "std" THEN UNCHANGED <<disk, handle>>
  ELSE IF handle[h].kind = "stream" THEN CloseStream(h, handle[h])
  ELSE handle' = [handle EXCEPT ![h].closed = TRUE] /\ UNCHANGED disk

(* f:close(), io.close(f), and io.close() of the default output, which      *)
(* stays the default.                                                       *)
Close(h) == Alive(h) /\ CloseFile(h) /\ UNCHANGED <<default, said, mixed>>

(* The program has dropped the handle and the collector destroys it.        *)
Drop(h) ==
  /\ Alive(h) /\ h \notin {default.in, default.out}
  /\ IF handle[h].kind = "stream" THEN FlushTo(h, Free)
     ELSE handle' = [handle EXCEPT ![h] = Free] /\ UNCHANGED disk
  /\ UNCHANGED <<default, said, mixed>>

-----------------------------------------------------------------------------
(* Reading.  The bytes that reading one by one would return before the end, *)
(* the file being as c.                                                     *)
CanRead(f) == f.good /\ f.in /\ ~f.closed
Available(f, c) ==
  IF CanRead(f) THEN f.ahead \o SubSeq(c, f.pos + Len(f.ahead) + 1, Len(c)) ELSE <<>>

(* The first place from i on where s has no byte of B. *)
Span(s, i, B) ==
  IF \E j \in i .. Len(s) : s[j] \notin B
    THEN Min({j \in i .. Len(s) : s[j] \notin B}) ELSE Len(s) + 1
IsAt(s, i, B) == i <= Len(s) /\ s[i] \in B
Optional(s, i, B) == IF IsAt(s, i, B) THEN i + 1 ELSE i

(* read_number: what it takes off the front of s, how far it has looked     *)
(* (it peeks at the byte behind what it takes), and whether that is a       *)
(* number.                                                                  *)
NumberAt(s) ==
  LET start == Optional(s, Span(s, 1, Space), Sign)
      whole == Span(s, start, Digit)
      point == IsAt(s, whole, {"."})
      mantissa == IF point THEN Span(s, whole + 1, Digit) ELSE whole
      digits == mantissa - start - (IF point THEN 1 ELSE 0)
      power == Optional(s, mantissa + 1, Sign)
      end == IF IsAt(s, mantissa, {"e"}) THEN Span(s, power, Digit) ELSE mantissa
  IN  [taken |-> end - 1, seen |-> end, met_end |-> end > Len(s),
       nil |-> digits = 0 \/ (end > mantissa /\ end = power)]

(* One format of read: the bytes taken and seen, whether the end was met,   *)
(* and whether the result is nil.                                           *)
Gets(n, met, nil) == [taken |-> n, seen |-> n, met_end |-> met, nil |-> nil]
ReadFormat(fmt, s) ==
  CASE fmt = "l" ->
         LET i == Span(s, 1, {s[j] : j \in DOMAIN s} \ {"nl"}) IN
         Gets(IF i > Len(s) THEN Len(s) ELSE i, i > Len(s), s = <<>>)
    [] fmt = "a" -> Gets(Len(s), TRUE, FALSE)
    [] fmt = "n" -> NumberAt(s)
    [] fmt = "2" -> Gets(IF Len(s) < 2 THEN Len(s) ELSE 2, Len(s) < 2, s = <<>>)

(* The handle after one format.  To look beyond what it has read ahead, be  *)
(* it to peek only, a stream reads ahead the rest of the file.  A stream    *)
(* that cannot be read fails and keeps its buffer.                          *)
Advance(f, c, r) ==
  LET buffer == IF r.seen <= Len(f.ahead) THEN f.ahead ELSE Available(f, c) IN
  IF CanRead(f)
    THEN [f EXCEPT !.pos = @ + r.taken, !.ahead = SubSeq(buffer, r.taken + 1, Len(buffer)),
                   !.good = ~r.met_end, !.ended = @ \/ r.met_end]
    ELSE [f EXCEPT !.good = FALSE, !.ended = TRUE]

Waiting(g, p) == g \in StreamsOn(p) /\ handle[g].pending # <<>>
Busy(g, p) == Waiting(g, p) \/ (g \in StreamsOn(p) /\ handle[g].ahead # <<>>)
AfterUse(h, InTheWay(_, _)) ==
  IF \E g \in Slot \ {h} : InTheWay(g, handle[h].path) THEN mixed \cup {handle[h].path} ELSE mixed

(* Only a stream that can be read writes its buffer out first. *)
ReadInto(h, f2) ==
  IF CanRead(handle[h]) THEN FlushTo(h, f2)
  ELSE UNCHANGED disk /\ handle' = [handle EXCEPT ![h] = [f2 EXCEPT !.pending = handle[h].pending]]

(* A turn of read_impl's loop: formats after the first stay to be read,      *)
(* unless it yields nil.                                                    *)
ReadTurn(h, fmts) ==
  LET f == handle[h]
      c == Flushed(f)
      r == ReadFormat(Head(fmts), Available(f, c))
  IN
  /\ ReadInto(h, Advance(Synced(f), c, r))
  /\ reading' = IF r.nil \/ Tail(fmts) = <<>> THEN NoRead ELSE [by |-> h, fmts |-> Tail(fmts)]
  /\ mixed' = AfterUse(h, Waiting)
  /\ UNCHANGED <<default, said>>

(* f:read(...), io.read(...) of the default input, and the turns after the  *)
(* first, which nothing comes between.                                      *)
Read(h, fmts) == handle[h].kind = "stream" /\ ReadTurn(h, fmts)
ReadOn == reading # NoRead /\ ReadTurn(reading.by, reading.fmts)

(* lines_iter: a line; at the end, a handle that io.lines opened is closed. *)
LinesNext(h) ==
  LET f == handle[h]
      c == Flushed(f)
      r == ReadFormat("l", Available(f, c))
      f2 == Advance(Synced(f), c, r)
  IN
  /\ f.kind = "stream"
  /\ IF r.nil /\ f.close_on_eof /\ ~f.closed THEN CloseStream(h, f2) ELSE ReadInto(h, f2)
  /\ mixed' = AfterUse(h, Waiting)
  /\ UNCHANGED <<default, said>>

-----------------------------------------------------------------------------
(* Writing.  A program may count on the bytes when the handle is open for   *)
(* writing and has not failed since the last seek.                          *)
MayExpect(f) == f.out /\ ~f.closed /\ ~f.ended

WrittenUnchecked(f, data) == [f EXCEPT !.pending = @ \o data, !.pos = @ + Len(data), !.ahead = <<>>]
WrittenAheadKept(f, data) ==
  IF f.good /\ f.out /\ ~f.closed
    THEN [f EXCEPT !.pending = @ \o data, !.pos = @ + Len(data)]
    ELSE [f EXCEPT !.good = FALSE, !.ended = f.ended \/ ~f.out]

Written(f, data) ==
  IF f.good /\ f.out /\ ~f.closed
    THEN [f EXCEPT !.pending = @ \o data, !.pos = @ + Len(data), !.ahead = <<>>]
    ELSE [f EXCEPT !.good = FALSE, !.ended = f.ended \/ ~f.out]

(* f:write(data), io.write(data) to the default output. *)
Write(h, data) ==
  LET f == handle[h] IN
  /\ f.kind = "stream"
  /\ f.pos + Len(data) <= MaxLength
  /\ handle' = [handle EXCEPT ![h] = Written(f, data)]
  /\ said' = IF MayExpect(f) THEN [said EXCEPT ![f.path] = Overlay(@, f.pos, data)] ELSE said
  /\ mixed' = AfterUse(h, Busy)
  /\ UNCHANGED <<disk, default>>

(* f:flush().  A stream that has failed may leave its buffer as it is.      *)
Flush(h) ==
  /\ IsOpen(h)
  /\ FlushTo(h, Synced(handle[h])) \/ (~handle[h].good /\ UNCHANGED <<disk, handle>>)
  /\ UNCHANGED <<default, said, mixed>>

-----------------------------------------------------------------------------
(* f:seek(whence, off).  The stream is cleared, and then positioned twice,  *)
(* for reading and for writing, although it has one position only.          *)
SeekOnce(f, c, whence, off) ==
  LET base == CASE whence = "set" -> 0 [] whence = "cur" -> f.pos [] whence = "end" -> Len(c)
      to == base + off
  IN  IF ~f.good THEN f
      ELSE IF whence = "cur" /\ off = 0 /\ ~f.closed THEN f
      ELSE IF f.closed \/ to < 0 THEN [Synced(f) EXCEPT !.good = FALSE]
      ELSE [Synced(f) EXCEPT !.pos = to, !.ahead = <<>>]

SeekStream(f, c, whence, off) ==
  SeekOnce(SeekOnce([f EXCEPT !.good = TRUE], c, whence, off), c, whence, off)

Seek(h, whence, off) ==
  LET f == handle[h]
      f2 == SeekStream(f, Flushed(f), whence, off)
  IN
  /\ f.kind = "stream" /\ f2.pos <= MaxLength
  /\ handle' = [handle EXCEPT ![h] = [f2 EXCEPT !.ended = ~f2.good]]
  /\ disk' = IF f.pending # f2.pending THEN [disk EXCEPT ![f.path] = Flushed(f)] ELSE disk
  /\ UNCHANGED <<default, said, mixed>>

-----------------------------------------------------------------------------
Mode == {"r", "r+", "w", "w+", "a", "a+"}

Operate ==
  \/ \E h \in Slot, p \in Path :
       \/ \E m \in Mode : Open(h, p, m)
       \/ \E d \in {"in", "out"} : OpenDefault(h, p, d)
       \/ OpenLines(h, p)
  \/ \E h \in Slot, k \in {"popen", "tmpfile"} : OpenOther(h, k)
  \/ \E h \in Std \cup Slot : Close(h) \/ \E d \in {"in", "out"} : SetDefault(h, d)
  \/ \E h \in Slot :
       \/ Drop(h) \/ LinesNext(h) \/ Flush(h)
       \/ \E data \in Chunk : Write(h, data)
       \/ \E s \in SeekArgs : Seek(h, s[1], s[2])

Next ==
  \/ reading = NoRead /\ Operate /\ UNCHANGED reading
  \/ reading = NoRead /\ \E h \in Slot, fmts \in Formats : Read(h, fmts)
  \/ ReadOn

Spec == Init /\ [][Next]_vars

-----------------------------------------------------------------------------
(* A standard stream stays one and is never closed, even as a default file  *)
(* or through io.close without an argument (iolib.cpp:124).                 *)
StdStaysOpen == \A h \in Std : handle[h].kind = "std" /\ ~handle[h].closed

TypeOK ==
  /\ \A p \in Path : disk[p] = Missing \/ (disk[p] \in Seq(Byte) /\ Len(disk[p]) <= MaxLength)
  /\ StdStaysOpen
  /\ \A h \in Slot :
       \/ handle[h] = Free
       \/ handle[h] \in [kind : {"popen", "tmpfile"}, closed : BOOLEAN]
       \/ handle[h] \in [kind : {"stream"}, closed : BOOLEAN, close_on_eof : BOOLEAN,
                         path : Path, in : BOOLEAN, out : BOOLEAN, good : BOOLEAN,
                         pos : 0 .. MaxLength, ahead : Seq(Byte), pending : Seq(Byte),
                         ended : BOOLEAN]
  /\ default \in [in : Std \cup Slot, out : Std \cup Slot]
  /\ Alive(default.in) /\ Alive(default.out)
  /\ reading = NoRead \/ reading \in [by : Slot, fmts : Seq(Format)]

(* What a program has written and may count on is on disk once no handle    *)
(* holds any of it back: after close, flush or seek, or when the collector  *)
(* destroys the handle, whatever was read, sought and reopened between (for *)
(* files that no two handles were at work on at a time).                    *)
WrittenIsStored ==
  \A p \in Path \ mixed :
    (\A h \in StreamsOn(p) : handle[h].pending = <<>>) => disk[p] = said[p]

(* A handle reads what was last written where it stands, by itself too,     *)
(* however reads, writes and seeks are mixed and handles take turns (for    *)
(* files that none has written to, or read, while another held bytes back,  *)
(* nor written to while another had read ahead).                            *)
ReadsWhatWasWritten ==
  \A h \in Slot :
    (IsOpen(h) /\ handle[h].good /\ handle[h].in /\ handle[h].path \notin mixed) =>
      LET f == handle[h] IN
      \/ \E g \in StreamsOn(f.path) \ {h} : handle[g].pending # <<>>
      \/ Available(f, Flushed(f)) = SubSeq(said[f.path], f.pos + 1, Len(said[f.path]))

(* A closed handle stays closed and no call on it touches a file, until the *)
(* collector takes it (there is no check: iolib.cpp:43).                    *)
ClosedIsInert ==
  [][\A h \in Slot : handle[h].kind = "stream" /\ handle[h].closed =>
       /\ handle[h].pending = <<>>
       /\ handle'[h] = Free \/ handle'[h].closed
       /\ handle'[h] # handle[h] => disk' = disk]_vars

-----------------------------------------------------------------------------
(* The inductive invariant.  The types of the histories too, and that a     *)
(* read under way is one of a stream, *)
Content == {Missing} \cup Seq(Byte)

Types ==
  /\ TypeOK
  /\ disk \in [Path -> Content] /\ said \in [Path -> Content]
  /\ DOMAIN handle = Std \cup Slot
  /\ reading # NoRead => reading.fmts # <<>> /\ handle[reading.by].kind = "stream"

(* what a stream's buffers say of its position, of its file and of the flag *)
(* that a program may rely on, *)
Buffers == \A h \in Slot : handle[h].kind = "stream" =>
  LET f == handle[h] IN
  /\ disk[f.path] # Missing
  /\ Len(f.pending) <= f.pos /\ f.pos + Len(f.ahead) <= MaxLength
  /\ f.closed => f.pending = <<>> /\ f.ahead = <<>>
  /\ ~f.closed => (f.good <=> ~f.ended)

(* that one stream at most holds back what is still to be stored, *)
OneWriter == \A p \in Path \ mixed : \A g, h \in StreamsOn(p) :
  handle[g].pending # <<>> /\ handle[h].pending # <<>> => g = h

(* which is all that the disk lacks, *)
HeldBack == \A p \in Path \ mixed : \A h \in StreamsOn(p) :
  handle[h].pending # <<>> => said[p] = Flushed(handle[h])

(* and that what was read ahead is what has been written.                   *)
AheadFresh == \A p \in Path \ mixed : \A h \in StreamsOn(p) :
  LET f == handle[h] IN
  f.ahead # <<>> =>
    /\ f.pos + Len(f.ahead) <= Len(said[p])
    /\ \A k \in 1 .. Len(f.ahead) : f.ahead[k] = said[p][f.pos + k]

IInv == Types /\ Buffers /\ OneWriter /\ HeldBack /\ WrittenIsStored /\ AheadFresh
=============================================================================
