---------------------------- MODULE PipedWriter ----------------------------
(***************************************************************************)
(* `StreamWriter::piped_thread` of src/streams.rs: a boxed writer is moved *)
(* to a helper thread that copies a pipe into it, and the stream is the    *)
(* write end of that pipe.  Nothing can say "flush" through a pipe, so     *)
(* flush closes it, joins the thread, takes the boxed writer back and      *)
(* starts over with a new pipe and a new thread.                           *)
(*                                                                         *)
(* The pipe, the boxed writer, the thread primitives and the loop of       *)
(* std::io::copy are outside the repository.  The caller of the stream and *)
(* the helper thread interleave at every call they make to them.  The i-th *)
(* byte the caller writes is the number i, so that a byte lost, repeated   *)
(* or out of order shows.                                                  *)
(***************************************************************************)
EXTENDS Slices, SequencesExt

CONSTANTS
    MaxOut,         \* bound: bytes written to the stream
    MaxArg,         \* bound: length of one write
    PipeCap,        \* capacity of the pipe
    CopyBuf,        \* size of the buffer of std::io::copy
    WriterMayFail,  \* the boxed writer may return errors and panic
    SpawnMayFail,   \* pipe() and thread::Builder::spawn may fail
    Signals         \* a blocking write may be interrupted by a signal

ASSUME BoundAssumption == MaxOut \in Nat /\ MaxArg \in Nat
ASSUME SizeAssumption == PipeCap \in Nat \ {0} /\ CopyBuf \in Nat \ {0}
ASSUME FaultAssumption == {WriterMayFail, SpawnMayFail, Signals} \subseteq BOOLEAN

VARIABLES
    slot,       \* the Option in WriteResources::PipedThread is Some
    open,       \* the caller still owns the stream
    call,       \* the caller's call in progress, or "idle"
    left,       \* bytes that call still has to write
    result,     \* what the last finished call returned
    pipe,       \* bytes in the pipe
    writerEnd,  \* pipe_writer is open
    thread,     \* what the helper thread does, or how it ended
    chunk,      \* bytes copy has read and not yet written
    accepted,   \* bytes the pipe has taken from the caller
    sink,       \* bytes the boxed writer has taken
    flushed,    \* how many of them its last successful flush covers
    reported    \* some call has returned an error or panicked

caller == << slot, open, call, left, result, reported >>
helper == << thread, chunk, sink, flushed >>
vars   == << caller, helper, pipe, writerEnd, accepted >>

Ended == {"ok", "err", "panicked"}

(* `handle`: the thread runs copy and the slot holds it.                   *)
Init ==
    /\ slot = TRUE /\ open = TRUE /\ call = "idle" /\ left = 0
    /\ result = [of |-> "new", kind |-> "ok"] /\ reported = FALSE
    /\ pipe = << >> /\ writerEnd = TRUE /\ accepted = << >>
    /\ thread = "read" /\ chunk = << >> /\ sink = << >> /\ flushed = 0

-----------------------------------------------------------------------------
(* The helper thread: copy(&mut pipe_reader, &mut *boxed_write)?;          *)
(* boxed_write.flush()?; Ok(boxed_write).  It owns pipe_reader, which      *)
(* closes when the thread ends.                                            *)

Read ==
    /\ thread = "read" /\ pipe # << >>
    /\ \E k \in 1..Least(CopyBuf, Len(pipe)) :
          chunk' = Take(pipe, k) /\ pipe' = Skip(pipe, k)
    /\ thread' = "write"
    /\ UNCHANGED << caller, writerEnd, accepted, sink, flushed >>

EndOfInput ==
    /\ thread = "read" /\ pipe = << >> /\ ~writerEnd
    /\ thread' = "flush"
    /\ UNCHANGED << caller, pipe, writerEnd, accepted, chunk, sink, flushed >>

(* One write of the write_all in copy.                                     *)
WriteAll ==
    /\ thread = "write"
    /\ \E k \in 1..Len(chunk) :
          sink' = sink \o Take(chunk, k) /\ chunk' = Skip(chunk, k)
    /\ thread' = IF chunk' = << >> THEN "read" ELSE "write"
    /\ UNCHANGED << caller, pipe, writerEnd, accepted, flushed >>

(* Mutant of FlushBoxed: the thread ends without flushing.                 *)
FlushBoxed_Skipped ==
    /\ thread = "flush"
    /\ thread' = "ok"
    /\ UNCHANGED << caller, pipe, writerEnd, accepted, chunk, sink, flushed >>

FlushBoxed ==
    /\ thread = "flush"
    /\ thread' = "ok" /\ flushed' = Len(sink)
    /\ UNCHANGED << caller, pipe, writerEnd, accepted, chunk, sink >>

(* The boxed writer fails or panics in write or flush.                     *)
BoxedFails ==
    /\ WriterMayFail /\ thread \in {"write", "flush"}
    /\ thread' \in {"err", "panicked"}
    /\ UNCHANGED << caller, pipe, writerEnd, accepted, chunk, sink, flushed >>

Helper == Read \/ EndOfInput \/ WriteAll \/ FlushBoxed \/ BoxedFails

-----------------------------------------------------------------------------
(* The caller.                                                             *)

Return(name, kind) ==
    /\ call' = "idle" /\ left' = 0
    /\ result' = [of |-> name, kind |-> kind]
    /\ reported' = (reported \/ kind # "ok")

(* map_err: take the thread out of the slot, close the pipe and join the   *)
(* thread for the error it died of.  `take().unwrap()` panics on None.     *)
MapErr(name) ==
    IF slot
    THEN /\ slot' = FALSE /\ writerEnd' = FALSE
         /\ call' = "join_err" /\ left' = 0
         /\ UNCHANGED << result, reported >>
    ELSE Return(name, "no_thread") /\ UNCHANGED << slot, writerEnd >>

BeginWrite ==
    /\ open /\ call = "idle"
    /\ call' \in {"write", "write_all"}
    /\ left' \in 1..MaxArg /\ Len(accepted) + left' <= MaxOut
    /\ UNCHANGED << slot, open, result, reported, helper, pipe, writerEnd, accepted >>

(* The pipe takes some bytes.                                              *)
Put ==
    /\ call \in {"write", "write_all"} /\ slot
    /\ thread \notin Ended /\ Len(pipe) < PipeCap
    /\ \E k \in 1..Least(left, PipeCap - Len(pipe)) :
          LET bytes == Numbers(accepted, k) IN
          /\ pipe' = pipe \o bytes /\ accepted' = accepted \o bytes
          /\ IF call = "write" \/ k = left THEN Return(call, "ok")
             ELSE left' = left - k /\ UNCHANGED << call, result, reported >>
    /\ UNCHANGED << slot, open, writerEnd, helper >>

(* The pipe does not: its read end is gone (EPIPE), the handle refers to a *)
(* pipe_writer that map_err or flush has dropped (EBADF), or a signal      *)
(* interrupts `write` (write_all retries that).                            *)
PutFails ==
    /\ call \in {"write", "write_all"}
    /\ \/ ~slot
       \/ thread \in Ended
       \/ Signals /\ call = "write" /\ Len(pipe) = PipeCap
    /\ MapErr(call)
    /\ UNCHANGED << open, helper, pipe, accepted >>

(* join().unwrap().map(|_| ()).unwrap_err()                                *)
JoinErr ==
    /\ call = "join_err" /\ thread \in Ended
    /\ Return("write", CASE thread = "err" -> "err"
                         [] thread = "ok" -> "no_error"
                         [] OTHER -> "thread_panicked")
    /\ UNCHANGED << slot, open, helper, pipe, writerEnd, accepted >>

(* flush up to the join; flushing the handle itself does nothing.          *)
BeginFlush ==
    /\ open /\ call = "idle"
    /\ IF slot
       THEN /\ slot' = FALSE /\ writerEnd' = FALSE /\ call' = "join_flush"
            /\ UNCHANGED << left, result, reported >>
       ELSE Return("flush", "no_thread") /\ UNCHANGED << slot, writerEnd >>
    /\ UNCHANGED << open, helper, pipe, accepted >>

(* Mutant of JoinFlush: the thread is not waited for.                      *)
JoinFlush_NoWait ==
    /\ call = "join_flush"
    /\ slot' = TRUE /\ writerEnd' = TRUE /\ pipe' = << >>
    /\ thread' = "read"
    /\ Return("flush", "ok")
    /\ UNCHANGED << chunk, open, sink, flushed, accepted >>

(* join().unwrap().unwrap(), then `*self = Self::piped_thread(..)?`.       *)
JoinFlush ==
    /\ call = "join_flush" /\ thread \in Ended
    /\ \/ /\ thread = "ok"
          /\ slot' = TRUE /\ writerEnd' = TRUE /\ pipe' = << >>
          /\ thread' = "read"
          /\ Return("flush", "ok")
       \/ /\ thread = "ok" /\ SpawnMayFail
          /\ Return("flush", "err")
          /\ UNCHANGED << slot, writerEnd, pipe, thread >>
       \/ /\ thread # "ok"
          /\ Return("flush", IF thread = "err" THEN "thread_failed"
                             ELSE "thread_panicked")
          /\ UNCHANGED << slot, writerEnd, pipe, thread >>
    /\ UNCHANGED << open, chunk, sink, flushed, accepted >>

(* Mutant of BeginDrop: pipe_writer is still open during the join.         *)
BeginDrop_PipeOpen ==
    /\ open /\ call = "idle"
    /\ open' = FALSE
    /\ IF slot
       THEN /\ slot' = FALSE /\ call' = "join_drop"
            /\ UNCHANGED << left, result, reported >>
       ELSE Return("drop", "ok") /\ UNCHANGED slot
    /\ UNCHANGED << helper, pipe, writerEnd, accepted >>

(* WriteResources::drop.                                                   *)
BeginDrop ==
    /\ open /\ call = "idle"
    /\ open' = FALSE
    /\ IF slot
       THEN /\ slot' = FALSE /\ writerEnd' = FALSE /\ call' = "join_drop"
            /\ UNCHANGED << left, result, reported >>
       ELSE Return("drop", "ok") /\ UNCHANGED << slot, writerEnd >>
    /\ UNCHANGED << helper, pipe, accepted >>

(* Mutant of JoinDrop: errors of the thread are ignored.                   *)
JoinDrop_IgnoresErr ==
    /\ call = "join_drop" /\ thread \in Ended
    /\ Return("drop", "ok")
    /\ UNCHANGED << slot, open, helper, pipe, writerEnd, accepted >>

JoinDrop ==
    /\ call = "join_drop" /\ thread \in Ended
    /\ Return("drop", CASE thread = "ok" -> "ok"
                        [] thread = "err" -> "thread_failed"
                        [] OTHER -> "thread_panicked")
    /\ UNCHANGED << slot, open, helper, pipe, writerEnd, accepted >>

Continue == Put \/ PutFails \/ JoinErr \/ JoinFlush \/ JoinDrop

Closed == ~open /\ call = "idle" /\ UNCHANGED vars

Next == Helper \/ BeginWrite \/ BeginFlush \/ BeginDrop \/ Continue \/ Closed

Spec == Init /\ [][Next]_vars

(* Both threads run, and the boxed writer answers every call.              *)
FairSpec == Spec /\ WF_vars(Helper) /\ WF_vars(Continue)

-----------------------------------------------------------------------------
(* Properties.                                                             *)

Failed == {"no_thread", "no_error", "thread_failed", "thread_panicked"}

(* Type invariant; the write end is open exactly while the slot holds it.  *)
TypeOK ==
    /\ writerEnd = slot
    /\ {slot, open, writerEnd, reported} \subseteq BOOLEAN
    /\ call \in {"idle", "write", "write_all", "join_err", "join_flush", "join_drop"}
    /\ left \in 0..MaxArg
    /\ result \in [of : {"new", "write", "write_all", "flush", "drop"},
                   kind : {"ok", "err"} \cup Failed]
    /\ pipe \in Seq(1..MaxOut) /\ Len(pipe) <= PipeCap
    /\ thread \in {"read", "write", "flush"} \cup Ended
    /\ chunk \in Seq(1..MaxOut) /\ Len(chunk) <= CopyBuf
    /\ accepted \in Seq(1..MaxOut) /\ sink \in Seq(1..MaxOut)
    /\ flushed \in 0..Len(sink)

(* Through pipe, copy buffer and any number of threads, one after another, *)
(* the boxed writer gets the bytes in order, each once, and none is        *)
(* anywhere but in the pipe or the copy buffer while no thread has failed. *)
InOrder ==
    /\ IsPrefix(sink, accepted)
    /\ thread \notin {"err", "panicked"} => sink \o chunk \o pipe = accepted

(* "call flush(), which synchronizes with the thread to ensure that is has *)
(* completed writing all pending output": a flush that returns Ok, and an  *)
(* Err that comes from starting the next thread, leave nothing behind.     *)
FlushSynchronizes ==
    (call = "idle" /\ result.of = "flush" /\ result.kind \in {"ok", "err"})
      => (sink = accepted /\ flushed = Len(sink))

(* The stream is the writer it was made of: what arrives, arrives in       *)
(* order, everything has arrived when flush returns Ok, and what has not   *)
(* when the stream is gone has been reported by an error or a panic.       *)
(* Bytes have arrived when a flush of the boxed writer covers them.        *)
Writer == INSTANCE AbstractWriter WITH
    Writes  <- {"write", "write_all"}, Results <- {"ok", "err"} \cup Failed,
    arrived <- Take(sink, flushed), last <- result
ImplementsWriter == Writer!Spec

(* No call and no drop waits for ever, whatever the pipe holds and however *)
(* the thread ends.                                                        *)
CallsReturn == (call # "idle") ~> (call = "idle")

-----------------------------------------------------------------------------
(* The inductive invariant behind the theorems of PipedWriterProofs.       *)

Writing == {"write", "write_all"}
Joining == {"join_err", "join_flush", "join_drop"}

(* A byte leaves the pipe for the copy buffer and the copy buffer for the  *)
(* boxed writer, and does so no more once the thread has failed.           *)
Flow == sink \o chunk \o pipe = accepted

(* What the thread has left behind when it gets to each place.             *)
Position ==
    /\ thread = "read" => chunk = << >>
    /\ thread \in {"flush", "ok"} => chunk = << >> /\ pipe = << >> /\ ~slot
    /\ thread = "ok" => flushed = Len(sink)

(* The slot is empty while a call waits for the thread, and after that     *)
(* only if a call has already reported that the thread is lost.            *)
Custody ==
    /\ call \in Joining => ~slot
    /\ (call \notin Joining /\ open /\ ~slot) => reported
    /\ call \in Writing => left > 0 /\ Len(accepted) + left <= MaxOut
    /\ ~open => call \in {"idle", "join_drop"}
    /\ call = "join_drop" => ~open
    /\ result.of = "drop" => ~open /\ call = "idle"

Inv == TypeOK /\ Flow /\ Position /\ Custody /\ FlushSynchronizes
=============================================================================
