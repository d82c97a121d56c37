---------------------------- MODULE PipedReader ----------------------------
(***************************************************************************)
(* `StreamReader::piped_thread`, `bytes` and `str` of src/streams.rs.  A   *)
(* helper thread copies a boxed reader into a pipe, and the stream is the  *)
(* read end of that pipe; `bytes` does without the thread when the pipe    *)
(* can hold the bytes.  An error of the pipe is replaced by the error the  *)
(* thread died of, and drop closes the pipe under the thread and joins it. *)
(*                                                                         *)
(* The pipe, the boxed reader, the thread primitives and the loop of       *)
(* std::io::copy are outside the repository.  The i-th byte of the boxed   *)
(* reader is the number i.                                                 *)
(***************************************************************************)
EXTENDS Slices, SequencesExt

CONSTANTS
    MaxIn,          \* bound: bytes the boxed reader yields
    MaxArg,         \* bound: length of one read
    PipeCap,        \* capacity of the pipe
    PipeBuf,        \* PIPE_BUF, what a pipe takes without blocking
    CopyBuf,        \* size of the buffer of std::io::copy
    ReaderMayFail,  \* the boxed reader may return errors and panic
    Signals,        \* a blocking read may be interrupted by a signal
    Calls           \* the calls the caller makes

ASSUME BoundAssumption == MaxIn \in Nat /\ MaxArg \in Nat
ASSUME SizeAssumption ==
    CopyBuf \in Nat \ {0} /\ PipeBuf \in Nat \ {0} /\ PipeCap \in Nat /\ PipeBuf <= PipeCap
ASSUME FaultAssumption == {ReaderMayFail, Signals} \subseteq BOOLEAN
ASSUME CallAssumption ==
    Calls \subseteq {"read", "read_exact", "read_to_end", "read_to_string"}

VARIABLES
    origin,     \* the constructor: "piped_thread" or "bytes"
    size,       \* how many bytes the boxed reader or the slice has
    resources,  \* ReadResources: PipedThread or PipeReader
    slot,       \* the Option in ReadResources::PipedThread is Some
    open,       \* the caller still owns the stream
    call,       \* the caller's call in progress, or "idle"
    left,       \* bytes that call still asks for
    result,     \* what the last finished call returned
    reported,   \* some call has returned an error or panicked
    pipe,       \* bytes in the pipe
    readerEnd,  \* pipe_reader is open
    thread,     \* what the helper thread does, or how it ended
    chunk,      \* bytes copy has read and not yet written
    produced,   \* bytes the boxed reader has yielded
    delivered   \* bytes taken out of the pipe on behalf of the caller

source == << origin, size >>
caller == << resources, slot, open, call, left, result, reported >>
helper == << thread, chunk, produced >>
vars   == << source, caller, helper, pipe, readerEnd, delivered >>

(* "broken" is the BrokenPipe error of a write to a pipe no one reads.     *)
Ended == {"ok", "err", "broken", "panicked"}

Init ==
    /\ origin \in {"piped_thread", "bytes"} /\ size \in 0..MaxIn
    /\ resources = "none" /\ slot = FALSE /\ open = FALSE
    /\ call = "new" /\ left = 0 /\ result = [of |-> "new", kind |-> "ok"]
    /\ reported = FALSE /\ pipe = << >> /\ readerEnd = FALSE /\ delivered = << >>
    /\ thread = "none" /\ chunk = << >> /\ produced = << >>

-----------------------------------------------------------------------------
(* Construction.                                                           *)

(* Mutant of Inline: the slice always goes through the pipe at once.       *)
Inline_Always == TRUE

(* "If we can write it to a new pipe without blocking, do so."             *)
Inline == size <= PipeBuf

NewPipedThread ==
    /\ call = "new" /\ (origin = "bytes" => ~Inline)
    /\ resources' = "PipedThread" /\ slot' = TRUE /\ readerEnd' = TRUE
    /\ open' = TRUE /\ call' = "idle" /\ thread' = "read"
    /\ UNCHANGED << source, left, result, reported, pipe, delivered, chunk, produced >>

NewBytes ==
    /\ call = "new" /\ origin = "bytes" /\ Inline
    /\ resources' = "PipeReader" /\ readerEnd' = TRUE
    /\ call' = "fill"
    /\ produced' = [i \in 1..size |-> i] /\ chunk' = produced'
    /\ UNCHANGED << source, slot, open, left, result, reported, pipe, delivered, thread >>

(* Mutant of Fill: `write` instead of `write_all`.                         *)
Fill_Once ==
    /\ call = "fill"
    /\ \/ chunk = << >> /\ call' = "idle" /\ open' = TRUE /\ UNCHANGED << pipe, chunk >>
       \/ /\ chunk # << >> /\ Len(pipe) < PipeCap
          /\ \E k \in 1..Least(Len(chunk), PipeCap - Len(pipe)) :
                pipe' = pipe \o Take(chunk, k)
          /\ chunk' = << >> /\ UNCHANGED << call, open >>
    /\ UNCHANGED << source, resources, slot, left, result, reported, readerEnd, delivered,
                    thread, produced >>

(* pipe_writer.write_all(bytes)?; flush; drop(pipe_writer)                 *)
Fill ==
    /\ call = "fill"
    /\ \/ chunk = << >> /\ call' = "idle" /\ open' = TRUE /\ UNCHANGED << pipe, chunk >>
       \/ /\ chunk # << >> /\ Len(pipe) < PipeCap
          /\ \E k \in 1..Least(Len(chunk), PipeCap - Len(pipe)) :
                pipe' = pipe \o Take(chunk, k) /\ chunk' = Skip(chunk, k)
          /\ UNCHANGED << call, open >>
    /\ UNCHANGED << source, resources, slot, left, result, reported, readerEnd, delivered,
                    thread, produced >>

-----------------------------------------------------------------------------
(* The helper thread: copy(&mut *boxed_read, &mut pipe_writer).  It owns   *)
(* pipe_writer, which closes when the thread ends.                         *)

ReadBoxed ==
    /\ thread = "read"
    /\ \E k \in 1..Least(CopyBuf, size - Len(produced)) :
          LET bytes == Numbers(produced, k) IN
          chunk' = bytes /\ produced' = produced \o bytes
    /\ thread' = "write"
    /\ UNCHANGED << source, caller, pipe, readerEnd, delivered >>

(* The boxed reader is at its end, or fails or panics; the Cursor of       *)
(* `bytes` does neither.                                                   *)
ReadBoxedEnds ==
    /\ thread = "read"
    /\ \/ Len(produced) = size /\ thread' = "ok"
       \/ /\ ReaderMayFail /\ origin = "piped_thread"
          /\ thread' \in {"err", "panicked"}
    /\ UNCHANGED << source, caller, pipe, readerEnd, chunk, produced, delivered >>

(* One write of the write_all in copy.                                     *)
WritePipe ==
    /\ thread = "write"
    /\ \/ /\ readerEnd /\ Len(pipe) < PipeCap
          /\ \E k \in 1..Least(Len(chunk), PipeCap - Len(pipe)) :
                pipe' = pipe \o Take(chunk, k) /\ chunk' = Skip(chunk, k)
          /\ thread' = IF chunk' = << >> THEN "read" ELSE "write"
       \/ ~readerEnd /\ thread' = "broken" /\ UNCHANGED << pipe, chunk >>
    /\ UNCHANGED << source, caller, readerEnd, produced, delivered >>

Helper == ReadBoxed \/ ReadBoxedEnds \/ WritePipe

-----------------------------------------------------------------------------
(* The caller.                                                             *)

Return(name, kind) ==
    /\ call' = "idle" /\ left' = 0
    /\ result' = [of |-> name, kind |-> kind]
    /\ reported' = (reported \/ kind \notin {"ok", "eof"})

(* Mutant of MapErr: the read end stays open during the join.              *)
MapErr_PipeOpen(name) ==
    IF resources = "PipeReader"
    THEN Return(name, "err") /\ UNCHANGED << slot, readerEnd >>
    ELSE IF slot
    THEN /\ slot' = FALSE /\ call' = "join_err" /\ left' = 0
         /\ UNCHANGED << result, reported, readerEnd >>
    ELSE Return(name, "no_thread") /\ UNCHANGED << slot, readerEnd >>

(* map_err: take the thread out of the slot, close the pipe and join the   *)
(* thread for the error it died of.  `take().unwrap()` panics on None.     *)
MapErr(name) ==
    IF resources = "PipeReader"
    THEN Return(name, "err") /\ UNCHANGED << slot, readerEnd >>
    ELSE IF slot
    THEN /\ slot' = FALSE /\ readerEnd' = FALSE
         /\ call' = "join_err" /\ left' = 0
         /\ UNCHANGED << result, reported >>
    ELSE Return(name, "no_thread") /\ UNCHANGED << slot, readerEnd >>

(* A read of no bytes never waits; reads to the end have no length.        *)
BeginRead ==
    /\ open /\ call = "idle"
    /\ call' \in Calls
    /\ left' \in 1..MaxArg
    /\ call' \in {"read_to_end", "read_to_string"} => left' = MaxArg
    /\ UNCHANGED << source, resources, slot, open, result, reported, helper, pipe, readerEnd, delivered >>

(* num_ready_bytes asks the pipe and unwraps the slot for it; peek has no  *)
(* arm for these streams and sees nothing, whatever the pipe holds.        *)
Inquire ==
    /\ open /\ call = "idle"
    /\ \/ Return("num_ready_bytes",
                 IF resources = "PipedThread" /\ ~slot THEN "no_thread" ELSE "ok")
       \/ Return("peek", "ok")
    /\ UNCHANGED << source, resources, slot, open, helper, pipe, readerEnd, delivered >>

WriterGone == thread \in Ended \cup {"none"}
Reading == call \in {"read", "read_exact", "read_to_end", "read_to_string"}

(* One read of the pipe; all but `read` go on until they have enough.      *)
Get ==
    /\ Reading /\ readerEnd /\ pipe # << >>
    /\ \E k \in 1..Least(left, Len(pipe)) :
          /\ delivered' = delivered \o Take(pipe, k)
          /\ pipe' = Skip(pipe, k)
          /\ CASE call = "read" \/ (call = "read_exact" /\ k = left) ->
                    Return(call, "ok")
               [] call = "read_exact" /\ k # left ->
                    left' = left - k /\ UNCHANGED << call, result, reported >>
               [] OTHER -> UNCHANGED << call, left, result, reported >>
    /\ UNCHANGED << source, resources, slot, open, helper, readerEnd >>

(* The end of the input: Ok(0), the end of read_to_end, UnexpectedEof of   *)
(* read_exact, or InvalidData of read_to_string unless the bytes are UTF-8.*)
GetEnd ==
    /\ Reading /\ readerEnd /\ pipe = << >> /\ WriterGone
    /\ \/ call # "read_exact" /\ Return(call, "eof") /\ UNCHANGED << slot, readerEnd >>
       \/ call \in {"read_exact", "read_to_string"} /\ MapErr(call)
    /\ UNCHANGED << source, resources, open, helper, pipe, delivered >>

(* The handle refers to the pipe_reader that map_err has dropped, or a     *)
(* signal interrupts `read` (the other calls retry that).                  *)
GetFails ==
    /\ Reading
    /\ ~readerEnd \/ (Signals /\ call = "read" /\ pipe = << >> /\ ~WriterGone)
    /\ MapErr(call)
    /\ UNCHANGED << source, resources, open, helper, pipe, delivered >>

(* join().unwrap().unwrap_err()                                            *)
JoinErr ==
    /\ call = "join_err" /\ thread \in Ended
    /\ Return("read", CASE thread \in {"err", "broken"} -> "err"
                        [] thread = "ok" -> "no_error"
                        [] OTHER -> "thread_panicked")
    /\ UNCHANGED << source, resources, slot, open, helper, pipe, readerEnd, delivered >>

(* ReadResources::drop: `take().unwrap()`, close the pipe, join.           *)
BeginDrop ==
    /\ open /\ call = "idle"
    /\ open' = FALSE
    /\ IF resources = "PipeReader"
       THEN Return("drop", "ok") /\ readerEnd' = FALSE /\ UNCHANGED slot
       ELSE IF slot
       THEN /\ slot' = FALSE /\ readerEnd' = FALSE /\ call' = "join_drop"
            /\ UNCHANGED << left, result, reported >>
       ELSE Return("drop", "no_thread") /\ UNCHANGED << slot, readerEnd >>
    /\ UNCHANGED << source, resources, helper, pipe, delivered >>

(* Mutant of JoinDrop: BrokenPipe is an error like the others.             *)
JoinDrop_Unwraps ==
    /\ call = "join_drop" /\ thread \in Ended
    /\ Return("drop", CASE thread = "ok" -> "ok"
                        [] thread \in {"err", "broken"} -> "thread_failed"
                        [] OTHER -> "thread_panicked")
    /\ UNCHANGED << source, resources, slot, open, helper, pipe, readerEnd, delivered >>

(* ... and ignore the BrokenPipe that closing it may have caused.          *)
JoinDrop ==
    /\ call = "join_drop" /\ thread \in Ended
    /\ Return("drop", CASE thread \in {"ok", "broken"} -> "ok"
                        [] thread = "err" -> "thread_failed"
                        [] OTHER -> "thread_panicked")
    /\ UNCHANGED << source, resources, slot, open, helper, pipe, readerEnd, delivered >>

Continue == NewPipedThread \/ NewBytes \/ Fill \/ Get \/ GetEnd \/ GetFails \/ JoinErr \/ JoinDrop

Closed == ~open /\ call = "idle" /\ UNCHANGED vars

Next == Helper \/ BeginRead \/ Inquire \/ BeginDrop \/ Continue \/ Closed

Spec == Init /\ [][Next]_vars

(* Both threads run, and the boxed reader answers every call.              *)
FairSpec == Spec /\ WF_vars(Helper) /\ WF_vars(Continue)
-----------------------------------------------------------------------------
(* Properties.                                                             *)

Queries == {"num_ready_bytes", "peek"}
Panics == {"no_thread", "no_error", "thread_failed", "thread_panicked"}

(* Type invariant.                                                         *)
TypeOK ==
    /\ {slot, open, reported, readerEnd} \subseteq BOOLEAN
    /\ resources \in {"none", "PipedThread", "PipeReader"}
    /\ call \in {"new", "fill", "idle", "join_err", "join_drop"} \cup Calls
    /\ left \in 0..MaxArg
    /\ result \in [of : {"new", "drop", "read"} \cup Calls \cup Queries,
                   kind : {"ok", "err", "eof"} \cup Panics]
    /\ pipe \in Seq(1..MaxIn) /\ Len(pipe) <= PipeCap
    /\ thread \in {"none", "read", "write"} \cup Ended
    /\ chunk \in Seq(1..MaxIn) /\ Len(chunk) <= (IF call = "fill" THEN PipeBuf ELSE CopyBuf)
    /\ produced \in Seq(1..MaxIn) /\ delivered \in Seq(1..MaxIn)

(* Nothing is lost, repeated or reordered between the boxed reader or the  *)
(* slice and the caller, until map_err or drop gives up the pipe.          *)
InOrder ==
    /\ IsPrefix(delivered, produced)
    /\ readerEnd => delivered \o pipe \o chunk = produced

(* The stream is the reader it was made of: through thread, pipe, map_err  *)
(* and drop its user receives the boxed reader's bytes in order, sees the  *)
(* end of the input only at its end or after a failure, and hears of a     *)
(* failure at the latest from drop; and drop does not panic unless the     *)
(* boxed reader failed or a call has already returned an error, though it  *)
(* may break the pipe under a thread that is still writing.                *)
Reader == INSTANCE AbstractReader WITH
    Reads    <- Calls \cup {"read"} \cup Queries, Results <- {"ok", "eof", "err"} \cup Panics,
    source   <- [i \in 1..size |-> i],
    broken   <- thread \in {"err", "panicked"},
    last     <- result
ImplementsReader == Reader!Spec

(* Constructors, reads and drops return, whatever the pipe holds and       *)
(* however the thread ends.                                                *)
CallsReturn == (call # "idle") ~> (call = "idle")

(* `take().unwrap()` in drop asserts that the stream still has its thread. *)
TakeFindsThread == result.of = "drop" => result.kind # "no_thread"

-----------------------------------------------------------------------------
(* The inductive invariant behind the theorems of PipedReaderProofs.       *)

Joining == {"join_err", "join_drop"}
Building == {"new", "fill"}

(* The boxed reader yields the bytes of its input, one after another.      *)
Counted ==
    /\ size \in 0..MaxIn /\ origin \in {"piped_thread", "bytes"}
    /\ Len(produced) <= size
    /\ \A i \in 1..Len(produced) : produced[i] = i

(* What is left in the copy buffer, and what is left of the input, at each *)
(* place of the thread or of the constructor.                              *)
Position ==
    /\ call = "new" => << produced, chunk, pipe, delivered >> = << << >>, << >>, << >>, << >> >>
    /\ call = "fill" => readerEnd /\ Len(produced) = size
    /\ thread = "none" /\ call \notin Building => chunk = << >> /\ Len(produced) = size
    /\ thread \in {"read", "ok"} => chunk = << >>
    /\ thread = "ok" => Len(produced) = size
    /\ thread = "broken" => ~readerEnd

(* Who has the thread and the read end of the pipe.                        *)
Custody ==
    /\ resources = "none" <=> call = "new"
    /\ thread # "none" <=> resources = "PipedThread"
    /\ resources = "PipedThread" => (readerEnd <=> slot)
    /\ call = "fill" => resources = "PipeReader"
    /\ call \in Joining => resources = "PipedThread" /\ ~slot
    /\ (resources = "PipedThread" /\ call \notin Joining /\ open /\ ~slot) => reported
    /\ open => call \notin Building \cup {"join_drop"}
    /\ ~open => call \in Building \cup {"idle", "join_drop"}
    /\ result.of = "drop" => ~open /\ call = "idle"

Inv == TypeOK /\ Counted /\ InOrder /\ Position /\ Custody
=============================================================================
