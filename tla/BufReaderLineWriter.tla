------------------------ MODULE BufReaderLineWriter ------------------------
(***************************************************************************)
(* `BufReaderLineWriter<Inner>` of src/buffered/buf_reader_line_writer.rs  *)
(* and the `BufReaderLineWriterShim` that gives its backend line           *)
(* buffering: complete lines go to the device at once, the last partial    *)
(* line stays in the buffer.  Reads, flush, into_inner and drop are those  *)
(* of BufDuplexerBackend.                                                  *)
(***************************************************************************)
EXTENDS BufDuplexerBackend

Offers == { p \in Chunks(MaxArg) : Len(accepted) + Len(p) <= MaxOut }

(* memrchr(b'\n', s) == Some(i - 1).                                       *)
IsLineEnd(s, i) == s[i] = NL /\ ~Holds(Skip(s, i), NL)

EndsLine(s) == s # << >> /\ s[Len(s)] = NL

(* Mutant of FlushIfCompletedLine: the stale line is left where it is.     *)
FlushIfCompletedLine_Never == << >>

(* flush_if_completed_line.                                                *)
FlushIfCompletedLine ==
    IF EndsLine(writer_buf) THEN << Do("flush_buf", 0) >> ELSE << >>

(* write, write_vectored and write_all of data without a newline.          *)
CallWritePartial ==
    \E p \in Offers, name \in WriteCalls :
        /\ ~Holds(p, NL)
        /\ Enter(name, FlushIfCompletedLine \o << Do(name, Len(p)) >>, p)

(* write: everything up to the last newline is for the device.             *)
CallWriteLines ==
    \E p \in Offers : \E i \in 1..Len(p) :
        /\ IsLineEnd(p, i)
        /\ Enter("write", << Do("flush_buf", 0), Do("line_write", i) >>, p)

(* write_vectored: everything up to the end of the slice that holds the    *)
(* last newline, which may lie anywhere from that newline on.              *)
CallWriteVectored ==
    \E p \in Offers : \E i \in 1..Len(p) : \E m \in i..Len(p) :
        /\ IsLineEnd(p, i)
        /\ Enter("write",
                 << Do("flush_buf", 0), Do("line_write_vectored", m) >>, p)

(* Mutant of CallWriteAllLines: the buffer is not flushed after the lines. *)
CallWriteAllLines_NoFlush ==
    \E p \in Offers : \E i \in 1..Len(p) :
        /\ IsLineEnd(p, i)
        /\ Enter("write_all",
                 << Do(IF writer_buf = << >> THEN "line_write_all"
                       ELSE "write_all", i),
                    Do("write_all", Len(p) - i) >>, p)

(* write_all: lines join a non-empty buffer, which is then flushed.        *)
CallWriteAllLines ==
    \E p \in Offers : \E i \in 1..Len(p) :
        /\ IsLineEnd(p, i)
        /\ Enter("write_all",
                 (IF writer_buf = << >>
                  THEN << Do("line_write_all", i) >>
                  ELSE << Do("write_all", i), Do("flush_buf", 0) >>)
                 \o << Do("write_all", Len(p) - i) >>, p)

-----------------------------------------------------------------------------
(* Mutant of IsTail: what fits is kept, wherever that cuts.                *)
IsTail_CutsAnywhere(rest, flushed, len) ==
    IF flushed >= N THEN len = Len(rest)
    ELSE len = Least(N - flushed, WCap)

(* How much of `rest`, what is left after a write of `flushed` of the N    *)
(* bytes of complete lines, to keep: all of it if only a partial line is   *)
(* left, else out to the last newline if that fits the buffer, else out to *)
(* the last newline that does, else what fits.                             *)
IsTail(rest, flushed, len) ==
    IF flushed >= N THEN len = Len(rest)
    ELSE IF N - flushed <= WCap THEN len = N - flushed
    ELSE LET scan_area == Take(rest, WCap) IN
         \/ len \in 1..WCap /\ IsLineEnd(scan_area, len)
         \/ len = WCap /\ ~Holds(scan_area, NL)

(* The device panics or fails on lines that bypass the buffer.  These      *)
(* paths do not touch `panicked`.                                          *)
LinesFail ==
    /\ At("line_write") \/ At("line_write_vectored")
    /\ \E kind \in {"err", "wpanic"} : Abandon(kind)
    /\ UNCHANGED << writerVars, readerVars, outVars, inVars >>

(* Mutant of KeepTail: the room in the buffer is not checked.              *)
KeepTail_NoLimit(k, len) ==
    /\ sink' = sink \o Take(arg, k)
    /\ writer_buf' = writer_buf \o Take(Skip(arg, k), len)
    /\ Return("ok", Moved(arg) + k + len)
    /\ UNCHANGED << written, panicked, readerVars, synced, inVars >>

(* Mutant of KeepTail: the buffered bytes are not reported.                *)
KeepTail_ReportsFlushed(k, len) ==
    LET buffered == Least(Room, len) IN
    /\ sink' = sink \o Take(arg, k)
    /\ writer_buf' = writer_buf \o Take(Skip(arg, k), buffered)
    /\ Return("ok", Moved(arg) + k)
    /\ UNCHANGED << written, panicked, readerVars, synced, inVars >>

(* write_to_buf(tail) after the device took k bytes of the lines.          *)
KeepTail(k, len) ==
    LET buffered == Least(Room, len) IN
    /\ sink' = sink \o Take(arg, k)
    /\ writer_buf' = writer_buf \o Take(Skip(arg, k), buffered)
    /\ Return("ok", Moved(arg) + k + buffered)
    /\ UNCHANGED << written, panicked, readerVars, synced, inVars >>

(* write: one attempt on the lines, then buffer what should be kept;       *)
(* Ok(0) is passed on.                                                     *)
LineWrite ==
    /\ At("line_write")
    /\ \/ KeepTail(0, 0)
       \/ \E k \in 1..N, len \in 0..Len(arg) :
             IsTail(Skip(arg, k), k, len) /\ KeepTail(k, len)

(* Mutant of LineWriteVectored: after a partial write the slices behind    *)
(* the lines are buffered all the same.                                    *)
LineWriteVectored_Hole ==
    /\ At("line_write_vectored")
    /\ \E k \in 1..N :
          LET buffered == Least(Room, Len(arg) - N) IN
          /\ sink' = sink \o Take(arg, k)
          /\ writer_buf' = writer_buf \o Take(Skip(arg, N), buffered)
          /\ Return("ok", Moved(arg) + k + buffered)
          /\ UNCHANGED << written, panicked, readerVars, synced, inVars >>

(* write_vectored: after a partial write nothing is buffered.              *)
LineWriteVectored ==
    /\ At("line_write_vectored")
    /\ \/ \E k \in 0..(N - 1) : KeepTail(k, 0)
       \/ KeepTail(N, Len(arg) - N)

(* write_all on an empty buffer: inner.write_all(lines).                   *)
LineWriteAll ==
    /\ At("line_write_all")
    /\ \/ /\ sink' = sink \o Take(arg, N)
          /\ Proceed(Skip(arg, N))
       \/ \E k \in 0..(N - 1), kind \in {"err", "wpanic"} :
             /\ sink' = sink \o Take(arg, k)
             /\ Return(kind, Moved(Skip(arg, k)))
    /\ UNCHANGED << writerVars, readerVars, synced, inVars >>

-----------------------------------------------------------------------------
CallWrite ==
    \/ CallWritePartial \/ CallWriteLines \/ CallWriteVectored
    \/ CallWriteAllLines

Lines == LineWrite \/ LineWriteVectored \/ LineWriteAll \/ LinesFail

Closed == ~open /\ UNCHANGED vars

Next ==
    \/ CallWrite \/ CallCommon
    \/ FlushBuf \/ InnerFlush \/ Write \/ Read \/ Lines
    \/ Closed

Spec == Init /\ [][Next]_vars

-----------------------------------------------------------------------------
(* A complete line the buffer could not get rid of is the end of the       *)
(* buffer, so flush_if_completed_line, which looks at the last byte only,  *)
(* sees it: between calls a newline in the buffer means the buffer ends    *)
(* with one.                                                               *)
StaleLineIsLast ==
    (call = "idle" /\ Holds(Remaining, NL)) => EndsLine(Remaining)

(* A line whose flush failed is retried by the next write: once a write    *)
(* call has succeeded, every line completed before that call is on the     *)
(* device.                                                                 *)
LinesRetried ==
    (call = "idle" /\ result.of \in WriteCalls /\ result.kind = "ok")
      => \A i \in 1..(Len(accepted) - result.n) :
             accepted[i] = NL => i <= Len(sink)

(* After a successful write_all the device has every complete line.        *)
WriteAllSendsLines ==
    (call = "idle" /\ result.of = "write_all" /\ result.kind = "ok")
      => ~Holds(Remaining, NL)

(* BufReaderLineWriter implements the abstract two-way channel as well.    *)
ImplementsChannel == Channel!Spec

-----------------------------------------------------------------------------
(* The inductive invariant behind the theorems of BufReaderLineWriterProofs*)

Placed == Moved(arg)

(* A write without a line end, and the last part of a write_all with one.  *)
PartialStages(c, n) == WriteStages(c, n) \cup { << Do("flush_buf", 0), Do(c, n) >> }
LineStages(op, n) == { << Do("flush_buf", 0), Do(op, n) >>, << Do(op, n) >> }
LineAllStages(n, rest) ==
    { << Do("line_write_all", n), Do("write_all", rest) >>,
      << Do("write_all", n), Do("flush_buf", 0), Do("write_all", rest) >>,
      << Do("flush_buf", 0), Do("put_all", n), Do("flush_buf", 0), Do("write_all", rest) >>,
      << Do("put_all", n), Do("flush_buf", 0), Do("write_all", rest) >> }

(* The code each call may still have to run, and where the lines end in    *)
(* what it still has to place.                                             *)
Control ==
    \/ call = "idle" /\ todo = << >>
    \/ /\ call \in WriteCalls /\ todo \in PartialStages(call, Len(arg))
       /\ ~Holds(arg, NL)
    \/ /\ call = "write"
       /\ \E i \in 1..Len(arg) :
             /\ IsLineEnd(arg, i)
             /\ \/ todo \in LineStages("line_write", i)
                \/ \E m \in i..Len(arg) : todo \in LineStages("line_write_vectored", m)
    \/ /\ call = "write_all"
       /\ \E i \in 1..Len(arg) :
             IsLineEnd(arg, i) /\ todo \in LineAllStages(i, Len(arg) - i)
    \/ call = "flush" /\ todo \in FlushStages
    \/ call = "read" /\ todo # << >> /\ todo \in ReadStages(LastN)
    \/ call = "read_until" /\ todo # << >> /\ todo \in UntilStages(LastN)
    \/ call = "fill_buf" /\ todo = << Do("fill_buf", 0) >>
    \/ call \in {"into_inner", "drop"} /\ todo = << Do("flush_buf", 0) >>

(* arg is the back of the argument; only write_all places a part of it     *)
(* before it returns.                                                      *)
Offered ==
    /\ Placed \in 0..Len(payload) /\ arg = Skip(payload, Placed)
    /\ call # "write_all" => arg = payload
    /\ call \notin WriteCalls => payload = << >>

GuardAtRest == ~At("flush_buf") => written = 0

Fits ==
    (At("put") \/ At("put_all")) =>
        IF N < WCap THEN Len(writer_buf) + N <= WCap ELSE writer_buf = << >>

(* Lines go to the device past an empty buffer; and a part without a line  *)
(* end joins a buffer without one.                                         *)
Bare ==
    (At("line_write") \/ At("line_write_vectored") \/ At("line_write_all"))
      => writer_buf = << >>
Unlined ==
    (Len(todo) = 1 /\ (At("write") \/ At("write_all") \/ At("put") \/ At("put_all")))
      => ~Holds(writer_buf, NL)

(* A line that is left anywhere in the buffer ends it, between calls and   *)
(* within them.                                                            *)
Stale == Holds(Remaining, NL) => EndsLine(Remaining)

Accounted == sink \o Remaining = accepted \o Take(payload, Placed)

WriteTypes ==
    /\ writer_buf \in Seq(Byte) /\ written \in 0..Len(writer_buf)
    /\ payload \in Seq(Byte) /\ arg \in Seq(Byte)
    /\ accepted \in Seq(Byte) /\ sink \in Seq(Byte)

Inv ==
    /\ WriteTypes /\ Control /\ Offered /\ GuardAtRest /\ Fits /\ Bare /\ Unlined
    /\ Stale /\ Accounted /\ CapacityKept /\ LinesRetried /\ WriteAllSendsLines

(* What the two-way channel needs besides: a call that flushes has emptied *)
(* the buffer when flush_buf is behind it, and the read half.              *)
Emptied ==
    (call \in {"flush", "read", "read_until"} /\ ~At("flush_buf"))
      => writer_buf = << >>

ReadInv == TypeOK /\ InConserved /\ Emptied
=============================================================================
