------------------------- MODULE PipedWriterProofs -------------------------
(***************************************************************************)
(* For every size of the pipe, of the copy buffer and of a write, and any  *)
(* failure of the boxed writer, of spawn and of a write: the bytes of a    *)
(* `StreamWriter::piped_thread` reach the boxed writer in order, each      *)
(* once, a flush that succeeds has moved and flushed all of them, and the  *)
(* stream is itself a writer like the one it was made of.                  *)
(***************************************************************************)
EXTENDS PipedWriter, SliceLemmas

USE BoundAssumption, SizeAssumption, FaultAssumption

Bytes == Seq(1..MaxOut)

-----------------------------------------------------------------------------
(* The three steps that move bytes.                                        *)

(* A read of the pipe cannot get more than the pipe holds or the copy      *)
(* buffer takes.                                                           *)
LEMMA ReadMoves ==
  ASSUME TypeOK, Flow, thread = "read" => chunk = << >>, Read
  PROVE  /\ chunk' \in Bytes /\ Len(chunk') <= CopyBuf
         /\ pipe' \in Bytes /\ Len(pipe') <= PipeCap
         /\ Flow'
<1>1. PICK k \in 1..Least(CopyBuf, Len(pipe)) :
         chunk' = Take(pipe, k) /\ pipe' = Skip(pipe, k)
  BY DEF Read
<1>2. pipe \in Bytes /\ Len(pipe) \in Nat /\ k \in 0..Len(pipe) /\ k <= CopyBuf
  BY LenProperties DEF TypeOK, Least, Bytes
<1>3. /\ chunk' \in Bytes /\ Len(chunk') = k
      /\ pipe' \in Bytes /\ Len(pipe') = Len(pipe) - k
  BY <1>1, <1>2, SliceType DEF Bytes
<1>4. (sink \o chunk') \o pipe' = sink \o pipe
  BY <1>1, <1>2, SliceJoin DEF TypeOK, Bytes
<1>5. sink \o chunk = sink
  BY ConcatEmptySeq DEF Read, TypeOK
<1>6. Flow'
  BY <1>4, <1>5 DEF Flow, Read
<1>7. QED
  BY <1>2, <1>3, <1>6 DEF TypeOK

(* A write of the boxed writer takes bytes off the front of the buffer.    *)
LEMMA WriteMoves ==
  ASSUME TypeOK, Flow, WriteAll
  PROVE  /\ chunk' \in Bytes /\ Len(chunk') <= CopyBuf
         /\ sink' \in Bytes /\ Len(sink') > Len(sink)
         /\ Take(sink', flushed) = Take(sink, flushed)
         /\ Flow'
<1>1. PICK k \in 1..Len(chunk) :
         sink' = sink \o Take(chunk, k) /\ chunk' = Skip(chunk, k)
  BY DEF WriteAll
<1>2. chunk \in Bytes /\ Len(chunk) \in Nat /\ k \in 0..Len(chunk) /\ k > 0
      /\ sink \in Bytes /\ Len(sink) \in Nat
  BY LenProperties DEF TypeOK, Bytes
<1>3. /\ Take(chunk, k) \in Bytes /\ Len(Take(chunk, k)) = k
      /\ chunk' \in Bytes /\ Len(chunk') = Len(chunk) - k
  BY <1>1, <1>2, SliceType DEF Bytes
<1>4. sink' \in Bytes /\ Len(sink') = Len(sink) + k
  BY <1>1, <1>2, <1>3, ConcatProperties DEF Bytes
<1>5. Take(sink', flushed) = Take(sink, flushed)
  BY <1>1, <1>2, <1>3, TakeOfConcat DEF TypeOK, Bytes
<1>6. sink' \o chunk' = sink \o chunk
  BY <1>1, <1>2, SliceJoin DEF Bytes
<1>7. Flow'
  BY <1>6 DEF Flow, WriteAll
<1>8. QED
  BY <1>2, <1>3, <1>4, <1>5, <1>7 DEF TypeOK

(* What the pipe takes, it takes once and behind what it has.              *)
LEMMA PutMoves ==
  ASSUME TypeOK, Flow, Custody, Put
  PROVE  /\ pipe' \in Bytes /\ Len(pipe') <= PipeCap
         /\ accepted' \in Bytes
         /\ Len(accepted') > Len(accepted)
         /\ Take(accepted', Len(accepted)) = accepted
         /\ call' \in Writing => left' > 0 /\ Len(accepted') + left' <= MaxOut
         /\ left' \in 0..MaxArg
         /\ Flow'
<1>1. PICK k \in 1..Least(left, PipeCap - Len(pipe)) :
         /\ pipe' = pipe \o Numbers(accepted, k)
         /\ accepted' = accepted \o Numbers(accepted, k)
         /\ IF call = "write" \/ k = left THEN Return(call, "ok")
            ELSE left' = left - k /\ UNCHANGED << call, result, reported >>
  BY DEF Put
<1>2. /\ pipe \in Bytes /\ Len(pipe) \in Nat /\ accepted \in Bytes /\ Len(accepted) \in Nat
      /\ k \in Nat /\ k > 0 /\ k <= left /\ k <= PipeCap - Len(pipe)
      /\ left \in Nat /\ left <= MaxArg /\ Len(accepted) + left <= MaxOut
  BY LenProperties DEF TypeOK, Least, Bytes, Custody, Put, Writing
<1> DEFINE bytes == Numbers(accepted, k)
<1>3. bytes \in Bytes /\ Len(bytes) = k
  BY <1>2, NumbersType DEF Bytes
<1> HIDE DEF bytes
<1>4. pipe' \in Bytes /\ Len(pipe') = Len(pipe) + k
  BY <1>1, <1>2, <1>3, ConcatProperties DEF Bytes, bytes
<1>5. accepted' \in Bytes /\ Len(accepted') = Len(accepted) + k
  BY <1>1, <1>2, <1>3, ConcatProperties DEF Bytes, bytes
<1>6. Take(accepted', Len(accepted)) = accepted
  <2>1. Take(accepted', Len(accepted)) = Take(accepted, Len(accepted))
    BY <1>1, <1>2, <1>3, TakeOfConcat DEF Bytes, bytes
  <2>2. QED
    BY <2>1, <1>2, SliceEnds DEF Bytes
<1>7. Flow'
  <2>1. sink \o chunk \in Seq(1..MaxOut) /\ pipe \in Seq(1..MaxOut)
        /\ bytes \in Seq(1..MaxOut)
    BY <1>2, <1>3, ConcatProperties DEF TypeOK, Bytes
  <2>2. ((sink \o chunk) \o pipe) \o bytes = (sink \o chunk) \o (pipe \o bytes)
    <3>1. \A f, g, h \in Seq(1..MaxOut) : (f \o g) \o h = f \o (g \o h)
      BY ConcatLaws
    <3>2. QED
      BY ONLY <2>1, <3>1
  <2>3. QED
    BY <2>2, <1>1 DEF Flow, Put, helper, bytes
<1>8. /\ call' \in Writing => left' > 0 /\ Len(accepted') + left' <= MaxOut
      /\ left' \in 0..MaxArg
  <2>1. \/ call' = "idle" /\ left' = 0
        \/ call' = call /\ left' = left - k /\ k # left
    BY <1>1, Zenon DEF Return
  <2>2. QED
    BY <2>1, <1>2, <1>5 DEF Writing
<1>9. QED
  BY <1>2, <1>4, <1>5, <1>6, <1>7, <1>8

-----------------------------------------------------------------------------
(* Types.                                                                  *)

LEMMA TypeInit == Init => TypeOK
<1>1. << >> \in Seq(1..MaxOut) /\ Len(<< >>) = 0
  BY EmptySeq
<1>2. Init => result \in [of : {"new", "write", "write_all", "flush", "drop"},
                         kind : {"ok", "err"} \cup Failed]
  BY DEF Init
<1>3. Init => {slot, open, writerEnd, reported} \subseteq BOOLEAN /\ writerEnd = slot
  BY DEF Init
<1>4. QED
  BY <1>1, <1>2, <1>3 DEF Init, TypeOK, Ended

(* The thread only touches its own variables and the pipe.                 *)
LEMMA HelperTypes ==
  ASSUME TypeOK, Flow, Position, Helper
  PROVE  TypeOK'
<1>1. CASE Read
  BY <1>1, ReadMoves DEF Position, TypeOK, Read, caller, Bytes
<1>2. CASE EndOfInput
  BY <1>2 DEF TypeOK, EndOfInput, caller
<1>3. CASE WriteAll
  <2>1. thread' \in {"read", "write"}
    BY <1>3 DEF WriteAll
  <2>2. flushed \in 0..Len(sink')
    BY <1>3, WriteMoves, LenProperties DEF TypeOK, Bytes
  <2>3. QED
    BY <1>3, <2>1, <2>2, WriteMoves DEF TypeOK, WriteAll, caller, Bytes
<1>4. CASE FlushBoxed
  <2>1. Len(sink) \in Nat
    BY LenProperties DEF TypeOK
  <2>2. QED
    BY <1>4, <2>1 DEF TypeOK, FlushBoxed, caller, Ended
<1>5. CASE BoxedFails
  BY <1>5 DEF TypeOK, BoxedFails, caller, Ended
<1>6. QED
  BY <1>1, <1>2, <1>3, <1>4, <1>5 DEF Helper

(* A call that returns has a result of its own name.                       *)
LEMMA ReturnTypes ==
  ASSUME NEW name \in {"write", "write_all", "flush", "drop"},
         NEW kind \in {"ok", "err"} \cup Failed,
         reported \in BOOLEAN, Return(name, kind)
  PROVE  /\ call' = "idle" /\ left' = 0
         /\ result' = [of |-> name, kind |-> kind]
         /\ result' \in [of : {"new", "write", "write_all", "flush", "drop"},
                         kind : {"ok", "err"} \cup Failed]
         /\ reported' \in BOOLEAN
         /\ kind # "ok" => reported'
         /\ reported => reported'
BY DEF Return

LEMMA CallerTypes ==
  ASSUME TypeOK, Flow, Custody, BeginWrite \/ BeginFlush \/ BeginDrop \/ Continue
  PROVE  TypeOK'
<1>0. 0 \in 0..MaxArg
  OBVIOUS
<1>1. CASE BeginWrite
  <2>1. left' \in 0..MaxArg /\ call' \in {"write", "write_all"}
    BY <1>1 DEF BeginWrite
  <2>2. QED
    BY <1>1, <2>1 DEF TypeOK, BeginWrite, helper
<1>2. CASE BeginFlush
  <2>1. CASE slot
    BY <1>2, <2>1 DEF TypeOK, BeginFlush, helper
  <2>2. CASE ~slot
    <3>1. Return("flush", "no_thread") /\ "no_thread" \in Failed
      BY <1>2, <2>2 DEF BeginFlush, Failed
    <3>2. QED
      BY <1>0, <1>2, <2>2, <3>1, ReturnTypes DEF TypeOK, BeginFlush, helper
  <2>3. QED
    BY <2>1, <2>2
<1>3. CASE BeginDrop
  <2>1. CASE slot
    BY <1>3, <2>1 DEF TypeOK, BeginDrop, helper
  <2>2. CASE ~slot
    <3>1. Return("drop", "ok")
      BY <1>3, <2>2 DEF BeginDrop
    <3>2. QED
      BY <1>0, <1>3, <2>2, <3>1, ReturnTypes DEF TypeOK, BeginDrop, helper
  <2>3. QED
    BY <2>1, <2>2
<1>4. CASE Put
  <2>1. \/ Return(call, "ok")
        \/ UNCHANGED << call, result, reported >>
    BY <1>4 DEF Put
  <2>2. /\ call' \in {"idle", "write", "write_all"} /\ reported' \in BOOLEAN
        /\ result' \in [of : {"new", "write", "write_all", "flush", "drop"},
                        kind : {"ok", "err"} \cup Failed]
    BY <1>4, <2>1, ReturnTypes DEF TypeOK, Put
  <2>3. QED
    BY <1>4, <2>2, PutMoves DEF TypeOK, Put, helper, Bytes
<1>5. CASE PutFails
  <2>1. CASE slot
    BY <1>0, <1>5, <2>1 DEF TypeOK, PutFails, MapErr, helper
  <2>2. CASE ~slot
    <3>1. Return(call, "no_thread") /\ "no_thread" \in Failed
      BY <1>5, <2>2 DEF PutFails, MapErr, Failed
    <3>2. QED
      BY <1>0, <1>5, <2>2, <3>1, ReturnTypes DEF TypeOK, PutFails, MapErr, helper
  <2>3. QED
    BY <2>1, <2>2
<1>6. CASE JoinErr
  <2>1. PICK kind \in {"ok", "err"} \cup Failed : Return("write", kind)
    BY <1>6 DEF JoinErr, Failed
  <2>2. QED
    BY <1>0, <1>6, <2>1, ReturnTypes DEF TypeOK, JoinErr, helper
<1>7. CASE JoinFlush
  <2>1. PICK kind \in {"ok", "err"} \cup Failed : Return("flush", kind)
    BY <1>7 DEF JoinFlush, Failed
  <2>2. << >> \in Seq(1..MaxOut) /\ Len(<< >>) = 0
    BY EmptySeq
  <2>3. \/ slot' = TRUE /\ writerEnd' = TRUE /\ pipe' = << >> /\ thread' = "read"
        \/ UNCHANGED << slot, writerEnd, pipe, thread >>
    BY <1>7 DEF JoinFlush
  <2>4. /\ writerEnd' = slot' /\ slot' \in BOOLEAN
        /\ pipe' \in Seq(1..MaxOut) /\ Len(pipe') <= PipeCap
        /\ thread' \in {"read", "write", "flush"} \cup Ended
    <3>1. CASE slot' = TRUE /\ writerEnd' = TRUE /\ pipe' = << >> /\ thread' = "read"
      <4>1. pipe' \in Seq(1..MaxOut) /\ Len(pipe') = 0
        BY <2>2, <3>1
      <4>2. QED
        BY <3>1, <4>1
    <3>2. CASE UNCHANGED << slot, writerEnd, pipe, thread >>
      BY <3>2 DEF TypeOK
    <3>3. QED
      BY <2>3, <3>1, <3>2
  <2>5. QED
    BY <1>0, <1>7, <2>1, <2>4, ReturnTypes DEF TypeOK, JoinFlush
<1>8. CASE JoinDrop
  <2>1. PICK kind \in {"ok", "err"} \cup Failed : Return("drop", kind)
    BY <1>8 DEF JoinDrop, Failed
  <2>2. QED
    BY <1>0, <1>8, <2>1, ReturnTypes DEF TypeOK, JoinDrop, helper
<1>9. QED
  BY <1>1, <1>2, <1>3, <1>4, <1>5, <1>6, <1>7, <1>8 DEF Continue

LEMMA TypeNext ==
  ASSUME Inv, [Next]_vars
  PROVE  TypeOK'
<1>1. CASE UNCHANGED vars
  BY <1>1 DEF Inv, TypeOK, vars, caller, helper
<1>2. QED
  BY <1>1, HelperTypes, CallerTypes DEF Inv, Next, Closed

-----------------------------------------------------------------------------
(* Safety.                                                                 *)

(* When the boxed writer has everything there is nothing on the way.       *)
LEMMA NothingOnTheWay ==
  ASSUME TypeOK, Flow, sink = accepted
  PROVE  chunk = << >> /\ pipe = << >>
<1>1. sink \in Bytes /\ chunk \in Bytes /\ pipe \in Bytes
  BY DEF TypeOK, Bytes
<1>2. \A f, g, h \in Bytes : f \o g \in Bytes /\ (f \o g) \o h = f \o (g \o h)
  BY ConcatLaws DEF Bytes
<1>3. sink \o (chunk \o pipe) = sink /\ chunk \o pipe \in Bytes
  BY <1>1, <1>2 DEF Flow
<1>4. chunk \o pipe = << >>
  BY <1>1, <1>3, ConcatEqualIffEmpty DEF Bytes
<1>5. QED
  BY <1>1, <1>4, ConcatEqualIffEmpty DEF Bytes

(* And when there is nothing on the way the boxed writer has everything.   *)
LEMMA AllThere ==
  ASSUME TypeOK, Flow, chunk = << >>, pipe = << >>
  PROVE  sink = accepted
<1>1. sink \o << >> = sink /\ (sink \o << >>) \o << >> = sink \o << >>
  BY ConcatEmptySeq DEF TypeOK
<1>2. QED
  BY <1>1 DEF Flow

Safe == Flow /\ Position /\ Custody /\ FlushSynchronizes

LEMMA SafeInit == Init => Safe
<1>1. << >> \in Seq(1..MaxOut)
  BY EmptySeq
<1>2. << >> \o << >> = << >> /\ (<< >> \o << >>) \o << >> = << >>
  BY <1>1, ConcatEmptySeq
<1>3. QED
  BY <1>2 DEF Init, Safe, Flow, Position, Custody, FlushSynchronizes, Joining, Writing

LEMMA HelperSafe ==
  ASSUME Inv, Helper
  PROVE  Safe'
<1>0. TypeOK /\ Flow /\ Position /\ Custody /\ FlushSynchronizes
  BY DEF Inv
<1>1. CASE Read
  <2>1. pipe # << >> /\ thread = "read" /\ thread' = "write"
        /\ UNCHANGED << caller, writerEnd, accepted, sink, flushed >>
    BY <1>1 DEF Read
  <2>2. ~(call = "idle" /\ result.of = "flush" /\ result.kind \in {"ok", "err"})
    BY <1>0, <2>1, NothingOnTheWay DEF FlushSynchronizes
  <2>3. Flow'
    BY <1>0, <1>1, ReadMoves DEF Position
  <2>4. Position' /\ Custody' /\ FlushSynchronizes'
    BY <1>0, <2>1, <2>2 DEF Position, Custody, FlushSynchronizes, caller
  <2>5. QED
    BY <2>3, <2>4 DEF Safe
<1>2. CASE EndOfInput
  <2>1. /\ thread = "read" /\ pipe = << >> /\ ~slot /\ thread' = "flush"
        /\ UNCHANGED << caller, pipe, writerEnd, accepted, chunk, sink, flushed >>
    BY <1>0, <1>2 DEF EndOfInput, TypeOK
  <2>2. QED
    BY <1>0, <2>1 DEF Safe, Flow, Position, Custody, FlushSynchronizes, caller
<1>3. CASE WriteAll
  <2>1. thread = "write" /\ UNCHANGED << caller, pipe, writerEnd, accepted, flushed >>
        /\ thread' = IF chunk' = << >> THEN "read" ELSE "write"
    BY <1>3 DEF WriteAll
  <2>2. chunk # << >>
    <3>1. \E k \in 1..Len(chunk) : TRUE
      BY <1>3 DEF WriteAll
    <3>2. Len(<< >>) = 0
      BY EmptySeq
    <3>3. QED
      BY <3>1, <3>2
  <2>3. ~(call = "idle" /\ result.of = "flush" /\ result.kind \in {"ok", "err"})
    BY <1>0, <2>2, NothingOnTheWay DEF FlushSynchronizes
  <2>4. Flow'
    BY <1>0, <1>3, WriteMoves
  <2>5. Position' /\ Custody' /\ FlushSynchronizes'
    BY <1>0, <2>1, <2>3 DEF Position, Custody, FlushSynchronizes, caller
  <2>6. QED
    BY <2>4, <2>5 DEF Safe
<1>4. CASE FlushBoxed
  <2>1. /\ thread = "flush" /\ thread' = "ok" /\ flushed' = Len(sink)
        /\ UNCHANGED << caller, pipe, writerEnd, accepted, chunk, sink >>
    BY <1>4 DEF FlushBoxed
  <2>2. QED
    BY <1>0, <2>1 DEF Safe, Flow, Position, Custody, FlushSynchronizes, caller
<1>5. CASE BoxedFails
  <2>1. /\ thread' \in {"err", "panicked"}
        /\ UNCHANGED << caller, pipe, writerEnd, accepted, chunk, sink, flushed >>
    BY <1>5 DEF BoxedFails
  <2>2. QED
    BY <1>0, <2>1 DEF Safe, Flow, Position, Custody, FlushSynchronizes, caller
<1>6. QED
  BY <1>1, <1>2, <1>3, <1>4, <1>5 DEF Helper

(* A call that returns leaves nothing of itself behind; only a flush that  *)
(* reports success, or that only the next thread failed to start, says     *)
(* anything about the bytes.                                               *)
LEMMA ReturnSafe ==
  ASSUME TypeOK, Custody,
         NEW name \in {"write", "write_all", "flush", "drop"},
         NEW kind \in {"ok", "err"} \cup Failed, Return(name, kind),
         slot' \/ reported \/ kind # "ok" \/ ~open', name = "drop" => ~open'
  PROVE  Custody'
<1>1. /\ call' = "idle" /\ left' = 0
      /\ result' = [of |-> name, kind |-> kind]
      /\ kind # "ok" => reported'
      /\ reported => reported'
  BY ReturnTypes DEF TypeOK
<1>2. "idle" \notin Joining \cup Writing
  BY DEF Joining, Writing
<1>3. (open' /\ ~slot') => reported'
  BY <1>1
<1>4. QED
  BY <1>1, <1>2, <1>3 DEF Custody

LEMMA CallerSafe ==
  ASSUME Inv, BeginWrite \/ BeginFlush \/ BeginDrop \/ Continue
  PROVE  Safe'
<1>0. TypeOK /\ Flow /\ Position /\ Custody /\ FlushSynchronizes
  BY DEF Inv
<1>a. "no_thread" \in Failed
  BY DEF Failed
<1>1. CASE BeginWrite
  <2>1. /\ open /\ call = "idle" /\ call' \in Writing
        /\ left' > 0 /\ Len(accepted) + left' <= MaxOut
        /\ UNCHANGED << slot, open, result, reported, helper, pipe, writerEnd, accepted >>
    BY <1>1 DEF BeginWrite, Writing
  <2>2. Flow' /\ Position'
    BY <1>0, <2>1 DEF Flow, Position, helper
  <2>3. Custody' /\ FlushSynchronizes'
    BY <1>0, <2>1 DEF Custody, FlushSynchronizes, Writing, Joining
  <2>4. QED
    BY <2>2, <2>3 DEF Safe
<1>2. CASE BeginFlush
  <2>1. open /\ call = "idle" /\ UNCHANGED << open, helper, pipe, accepted >>
    BY <1>2 DEF BeginFlush
  <2>2. CASE slot
    <3>1. slot' = FALSE /\ call' = "join_flush" /\ UNCHANGED << left, result, reported >>
      BY <1>2, <2>2 DEF BeginFlush
    <3>2. QED
      BY <1>0, <2>1, <3>1
         DEF Safe, Flow, Position, Custody, FlushSynchronizes, Writing, Joining, helper
  <2>3. CASE ~slot
    <3>1. Return("flush", "no_thread") /\ UNCHANGED slot
      BY <1>2, <2>3 DEF BeginFlush
    <3>2. Custody'
      BY <1>0, <1>a, <2>1, <3>1, ReturnSafe
    <3>3. FlushSynchronizes'
      BY <3>1 DEF Return, FlushSynchronizes
    <3>4. QED
      BY <1>0, <2>1, <3>1, <3>2, <3>3 DEF Safe, Flow, Position, helper
  <2>4. QED
    BY <2>2, <2>3
<1>3. CASE BeginDrop
  <2>1. open /\ call = "idle" /\ open' = FALSE /\ UNCHANGED << helper, pipe, accepted >>
    BY <1>3 DEF BeginDrop
  <2>2. CASE slot
    <3>1. slot' = FALSE /\ call' = "join_drop" /\ UNCHANGED << left, result, reported >>
      BY <1>3, <2>2 DEF BeginDrop
    <3>2. QED
      BY <1>0, <2>1, <3>1
         DEF Safe, Flow, Position, Custody, FlushSynchronizes, Writing, Joining, helper
  <2>3. CASE ~slot
    <3>1. Return("drop", "ok") /\ UNCHANGED slot
      BY <1>3, <2>3 DEF BeginDrop
    <3>2. Custody'
      BY <1>0, <2>1, <3>1, ReturnSafe
    <3>3. FlushSynchronizes'
      BY <3>1 DEF Return, FlushSynchronizes
    <3>4. QED
      BY <1>0, <2>1, <3>1, <3>2, <3>3 DEF Safe, Flow, Position, helper
  <2>4. QED
    BY <2>2, <2>3
<1>4. CASE Put
  <2>1. /\ call \in Writing /\ slot /\ thread \notin Ended
        /\ UNCHANGED << slot, open, writerEnd, helper >>
    BY <1>4 DEF Put, Writing
  <2>2. Flow' /\ Position'
    BY <1>0, <1>4, <2>1, PutMoves DEF Position, helper, Ended
  <2>3. \/ Return(call, "ok") \/ UNCHANGED << call, result, reported >>
    BY <1>4 DEF Put
  <2>4. CASE Return(call, "ok")
    <3>1. Custody'
      BY <1>0, <2>1, <2>4, ReturnSafe DEF Writing
    <3>2. FlushSynchronizes'
      BY <2>1, <2>4 DEF Return, FlushSynchronizes, Writing
    <3>3. QED
      BY <2>2, <3>1, <3>2 DEF Safe
  <2>5. CASE UNCHANGED << call, result, reported >>
    <3>1. left' > 0 /\ Len(accepted') + left' <= MaxOut
      BY <1>0, <1>4, <2>1, <2>5, PutMoves
    <3>2. Custody' /\ FlushSynchronizes'
      BY <1>0, <2>1, <2>5, <3>1 DEF Custody, FlushSynchronizes, Writing, Joining
    <3>3. QED
      BY <2>2, <3>2 DEF Safe
  <2>6. QED
    BY <2>3, <2>4, <2>5
<1>5. CASE PutFails
  <2>1. call \in Writing /\ UNCHANGED << open, helper, pipe, accepted >>
    BY <1>5 DEF PutFails, Writing
  <2>2. CASE slot
    <3>1. slot' = FALSE /\ call' = "join_err" /\ UNCHANGED << result, reported >>
      BY <1>5, <2>2 DEF PutFails, MapErr
    <3>2. QED
      BY <1>0, <2>1, <3>1
         DEF Safe, Flow, Position, Custody, FlushSynchronizes, Writing, Joining, helper
  <2>3. CASE ~slot
    <3>1. Return(call, "no_thread") /\ UNCHANGED slot
      BY <1>5, <2>3 DEF PutFails, MapErr
    <3>2. Custody'
      BY <1>0, <1>a, <2>1, <3>1, ReturnSafe DEF Writing
    <3>3. FlushSynchronizes'
      BY <2>1, <3>1 DEF Return, FlushSynchronizes, Writing
    <3>4. QED
      BY <1>0, <2>1, <3>1, <3>2, <3>3 DEF Safe, Flow, Position, helper
  <2>4. QED
    BY <2>2, <2>3
<1>6. CASE JoinErr
  <2>1. call = "join_err" /\ UNCHANGED << slot, open, helper, pipe, writerEnd, accepted >>
    BY <1>6 DEF JoinErr
  <2>2. PICK kind \in {"err", "no_error", "thread_panicked"} : Return("write", kind)
    BY <1>6 DEF JoinErr
  <2>3. Custody'
    BY <1>0, <2>1, <2>2, ReturnSafe DEF Failed
  <2>4. FlushSynchronizes'
    BY <2>2 DEF Return, FlushSynchronizes
  <2>5. QED
    BY <1>0, <2>1, <2>3, <2>4 DEF Safe, Flow, Position, helper
<1>7. CASE JoinFlush
  <2>1. call = "join_flush" /\ UNCHANGED << open, chunk, sink, flushed, accepted >>
    BY <1>7 DEF JoinFlush
  <2>2. thread = "ok" => /\ chunk = << >> /\ pipe = << >> /\ sink = accepted
                         /\ flushed = Len(sink)
    BY <1>0, AllThere DEF Position
  <2>3. CASE /\ thread = "ok" /\ slot' = TRUE /\ pipe' = << >> /\ thread' = "read"
             /\ Return("flush", "ok")
    <3>1. Custody'
      BY <1>0, <2>3, ReturnSafe
    <3>2. Flow' /\ Position' /\ FlushSynchronizes'
      BY <1>0, <2>1, <2>2, <2>3 DEF Flow, Position, FlushSynchronizes
    <3>3. QED
      BY <3>1, <3>2 DEF Safe
  <2>4. CASE /\ thread = "ok" /\ UNCHANGED << slot, pipe, thread >>
             /\ Return("flush", "err")
    <3>1. Custody'
      BY <1>0, <2>4, ReturnSafe
    <3>2. Flow' /\ Position' /\ FlushSynchronizes'
      BY <1>0, <2>1, <2>2, <2>4 DEF Flow, Position, FlushSynchronizes
    <3>3. QED
      BY <3>1, <3>2 DEF Safe
  <2>5. CASE /\ thread # "ok" /\ UNCHANGED << slot, pipe, thread >>
             /\ \/ Return("flush", "thread_failed")
                \/ Return("flush", "thread_panicked")
    <3>1. Custody'
      BY <1>0, <2>5, ReturnSafe DEF Failed
    <3>2. Flow' /\ Position'
      BY <1>0, <2>1, <2>5 DEF Flow, Position
    <3>3. FlushSynchronizes'
      BY <2>5 DEF Return, FlushSynchronizes
    <3>4. QED
      BY <3>1, <3>2, <3>3 DEF Safe
  <2>6. QED
    BY <1>7, <2>3, <2>4, <2>5 DEF JoinFlush
<1>8. CASE JoinDrop
  <2>1. call = "join_drop" /\ UNCHANGED << slot, open, helper, pipe, writerEnd, accepted >>
    BY <1>8 DEF JoinDrop
  <2>2. PICK kind \in {"ok", "thread_failed", "thread_panicked"} : Return("drop", kind)
    BY <1>8 DEF JoinDrop
  <2>3. Custody'
    BY <1>0, <2>1, <2>2, ReturnSafe DEF Failed, Custody
  <2>4. FlushSynchronizes'
    BY <2>2 DEF Return, FlushSynchronizes
  <2>5. QED
    BY <1>0, <2>1, <2>3, <2>4 DEF Safe, Flow, Position, helper
<1>9. QED
  BY <1>1, <1>2, <1>3, <1>4, <1>5, <1>6, <1>7, <1>8 DEF Continue

-----------------------------------------------------------------------------
(* Theorems.                                                               *)

(* The inductive invariant, for all constants.                             *)
THEOREM Invariant == Spec => []Inv
<1>1. Init => Inv
  BY TypeInit, SafeInit DEF Inv, Safe
<1>2. Inv /\ [Next]_vars => Inv'
  <2>1. SUFFICES ASSUME Inv, [Next]_vars PROVE Safe'
    BY TypeNext DEF Inv, Safe
  <2>2. CASE UNCHANGED vars
    BY <2>1, <2>2 DEF Inv, Safe, Flow, Position, Custody, FlushSynchronizes, vars,
                      caller, helper
  <2>3. QED
    BY <2>1, <2>2, HelperSafe, CallerSafe DEF Next, Closed
<1>3. QED
  BY <1>1, <1>2, PTL DEF Spec

(* Type correctness of PipedWriter; the handle is open exactly while the   *)
(* slot holds the thread.                                                  *)
THEOREM TypeCorrect == Spec => []TypeOK
<1>1. Inv => TypeOK
  BY DEF Inv
<1>2. QED
  BY <1>1, Invariant, PTL

(* No byte is lost, repeated or reordered on its way to the boxed writer.  *)
THEOREM InOrderCorrect == Spec => []InOrder
<1>1. Inv => InOrder
  <2>1. SUFFICES ASSUME TypeOK, Flow PROVE InOrder
    BY DEF Inv
  <2>2. sink \in Bytes /\ chunk \in Bytes /\ pipe \in Bytes
    BY <2>1 DEF TypeOK, Bytes
  <2>3. \A f, g, h \in Bytes : f \o g \in Bytes /\ (f \o g) \o h = f \o (g \o h)
    BY ConcatLaws DEF Bytes
  <2>4. accepted = sink \o (chunk \o pipe) /\ chunk \o pipe \in Bytes
    BY <2>1, <2>2, <2>3 DEF Flow
  <2>5. IsPrefix(sink, accepted)
    BY <2>2, <2>4, PrefixOfConcat DEF IsPrefix, Bytes
  <2>6. QED
    BY <2>1, <2>5 DEF InOrder, Flow
<1>2. QED
  BY <1>1, Invariant, PTL

(* A flush that returns Ok has moved every byte to the boxed writer, and   *)
(* has flushed it.                                                         *)
THEOREM FlushSynchronizesCorrect == Spec => []FlushSynchronizes
<1>1. Inv => FlushSynchronizes
  BY DEF Inv
<1>2. QED
  BY <1>1, Invariant, PTL

-----------------------------------------------------------------------------
(* The stream implements the writer it was made of.                        *)

Arrived == Take(sink, flushed)

(* What the boxed writer has flushed, as long as it flushes no more.       *)
LEMMA SameArrived ==
  ASSUME UNCHANGED << sink, flushed >>
  PROVE  UNCHANGED Arrived
BY DEF Arrived, Take

(* A call that returns does so to a user of the abstract writer too.       *)
LEMMA ReturnImplements ==
  ASSUME TypeOK, Custody, open \/ call # "idle",
         NEW name \in {"write", "write_all", "flush", "drop"},
         NEW kind \in {"ok", "err"} \cup Failed, Return(name, kind),
         UNCHANGED << accepted, sink, flushed >>,
         (name = "flush" /\ kind = "ok") => Arrived = accepted,
         (name = "drop" /\ kind = "ok") => (Arrived = accepted \/ reported)
  PROVE  Writer!Return
<1>1. result.of # "drop"
  BY DEF Custody
<1>2. result' = [of |-> name, kind |-> kind]
  BY DEF Return
<1>3. result'.of = name /\ result'.kind = kind
  BY <1>2
<1>4. result' \in [of : {"write", "write_all"} \cup {"flush", "drop"},
                   kind : {"ok", "err"} \cup Failed]
  BY <1>2
<1>5. reported' = (reported \/ result'.kind # "ok")
  BY <1>3 DEF Return
<1>6. /\ result' = [of |-> "flush", kind |-> "ok"] => Arrived = accepted
      /\ result' = [of |-> "drop", kind |-> "ok"] => (Arrived = accepted \/ reported)
  BY <1>3
<1>7. UNCHANGED << accepted, Arrived >>
  BY SameArrived
<1>8. QED
  BY <1>1, <1>4, <1>5, <1>6, <1>7 DEF Writer!Return, Writer!Live, Arrived

(* When the thread has ended well, everything has arrived.                 *)
LEMMA EndedWell ==
  ASSUME Inv, thread = "ok"
  PROVE  Arrived = accepted
<1>1. TypeOK /\ Flow /\ Position
  BY DEF Inv
<1>2. sink = accepted /\ flushed = Len(sink)
  BY <1>1, AllThere DEF Position
<1>3. QED
  BY <1>1, <1>2, SliceEnds DEF Arrived, TypeOK

LEMMA StepImplements ==
  ASSUME Inv, [Next]_vars
  PROVE  [Writer!Next]_(Writer!vars)
<1>0. TypeOK /\ Flow /\ Position /\ Custody /\ FlushSynchronizes
  BY DEF Inv
<1>a. "no_thread" \in Failed
  BY DEF Failed
<1>s. ASSUME UNCHANGED << accepted, sink, flushed, result, reported >>
      PROVE  UNCHANGED Writer!vars
  BY <1>s, SameArrived DEF Writer!vars, Arrived
<1>1. CASE Read \/ EndOfInput \/ BoxedFails
  BY <1>1, <1>s DEF Read, EndOfInput, BoxedFails, caller
<1>2. CASE WriteAll
  <2>1. UNCHANGED << accepted, Arrived, result, reported >>
    BY <1>0, <1>2, WriteMoves DEF WriteAll, caller, Arrived
  <2>2. QED
    BY <2>1 DEF Writer!vars, Arrived
<1>3. CASE FlushBoxed
  <2>1. /\ thread = "flush" /\ flushed' = Len(sink)
        /\ UNCHANGED << sink, accepted, result, reported >>
    BY <1>3 DEF FlushBoxed, caller
  <2>2. sink = accepted
    BY <1>0, <2>1, AllThere DEF Position
  <2>3. Arrived' = Take(accepted, Len(accepted))
    BY <2>1, <2>2 DEF Arrived
  <2>4. flushed \in 0..Len(accepted) /\ Len(accepted) \in Nat
    BY <1>0, <2>2, LenProperties DEF TypeOK
  <2>5. Len(Arrived) = flushed /\ Arrived = Take(accepted, flushed)
    BY <1>0, <2>2, <2>4, SliceType DEF Arrived, TypeOK
  <2>6. CASE flushed = Len(accepted)
    BY <2>1, <2>3, <2>5, <2>6 DEF Writer!vars, Arrived
  <2>7. CASE flushed < Len(accepted)
    <3>1. Len(accepted) \in Len(Arrived) + 1 .. Len(accepted)
      BY <2>4, <2>5, <2>7
    <3>2. Writer!Arrive
      BY <2>1, <2>3, <3>1 DEF Writer!Arrive, Arrived, Take
    <3>3. QED
      BY <3>2 DEF Writer!Next
  <2>8. QED
    BY <2>4, <2>6, <2>7
<1>4. CASE BeginWrite
  BY <1>4, <1>s DEF BeginWrite, helper
<1>5. CASE BeginFlush
  <2>1. UNCHANGED << accepted, sink, flushed >> /\ open
    BY <1>5 DEF BeginFlush, helper
  <2>2. CASE slot
    BY <1>5, <2>1, <2>2, <1>s DEF BeginFlush
  <2>3. CASE ~slot
    <3>1. Return("flush", "no_thread")
      BY <1>5, <2>3 DEF BeginFlush
    <3>2. Writer!Return
      BY <1>0, <1>a, <2>1, <3>1, ReturnImplements
    <3>3. QED
      BY <3>2 DEF Writer!Next
  <2>4. QED
    BY <2>2, <2>3
<1>6. CASE BeginDrop
  <2>1. UNCHANGED << accepted, sink, flushed >> /\ open /\ call = "idle"
    BY <1>6 DEF BeginDrop, helper
  <2>2. CASE slot
    BY <1>6, <2>1, <2>2, <1>s DEF BeginDrop
  <2>3. CASE ~slot
    <3>1. Return("drop", "ok")
      BY <1>6, <2>3 DEF BeginDrop
    <3>2. reported
      BY <1>0, <2>1, <2>3 DEF Custody, Joining
    <3>3. Writer!Return
      BY <1>0, <2>1, <3>1, <3>2, ReturnImplements
    <3>4. QED
      BY <3>3 DEF Writer!Next
  <2>4. QED
    BY <2>2, <2>3
<1>7. CASE Put
  <2>1. UNCHANGED << sink, flushed >> /\ call \in {"write", "write_all"}
    BY <1>7 DEF Put, helper
  <2>2. \/ Return(call, "ok") \/ UNCHANGED << result, reported >>
    BY <1>7 DEF Put
  <2>3. /\ result' \in {result} \cup [of : {"write", "write_all"}, kind : {"ok"}]
        /\ UNCHANGED reported
    <3>1. CASE Return(call, "ok")
      <4>1. result' = [of |-> call, kind |-> "ok"] /\ reported' = (reported \/ FALSE)
        BY <3>1 DEF Return
      <4>2. QED
        BY <1>0, <2>1, <4>1 DEF TypeOK
    <3>2. CASE UNCHANGED << result, reported >>
      BY <3>2
    <3>3. QED
      BY <2>2, <3>1, <3>2
  <2>4. Writer!IsStrictPrefix(accepted, accepted')
    <3>1. Len(accepted) \in Nat /\ Take(accepted, Len(accepted)) = accepted
      BY <1>0, LenProperties, SliceEnds DEF TypeOK
    <3>2. /\ Len(accepted') > Len(accepted) /\ Len(accepted') \in Nat
          /\ Take(accepted', Len(accepted)) = accepted
      BY <1>0, <1>7, PutMoves, LenProperties DEF Bytes
    <3>3. accepted' # accepted /\ Len(accepted) <= Len(accepted')
      BY <3>1, <3>2
    <3>4. SubSeq(accepted, 1, Len(accepted)) = SubSeq(accepted', 1, Len(accepted))
      BY <3>1, <3>2 DEF Take
    <3>5. QED
      BY <3>3, <3>4 DEF Writer!IsStrictPrefix, Writer!IsPrefix
  <2>5. result.of # "drop"
    BY <1>0, <2>1 DEF Custody
  <2>6. UNCHANGED << Arrived, reported >>
    BY <2>1, <2>3, SameArrived
  <2>7. Writer!Accept
    BY <2>3, <2>4, <2>5, <2>6 DEF Writer!Accept, Writer!Live, Arrived
  <2>8. QED
    BY <2>7 DEF Writer!Next
<1>8. CASE PutFails
  <2>1. /\ UNCHANGED << accepted, sink, flushed >>
        /\ call \in {"write", "write_all"}
    BY <1>8 DEF PutFails, helper
  <2>2. CASE slot
    BY <1>8, <2>1, <2>2, <1>s DEF PutFails, MapErr
  <2>3. CASE ~slot
    <3>1. Return(call, "no_thread")
      BY <1>8, <2>3 DEF PutFails, MapErr
    <3>2. Writer!Return
      BY <1>0, <1>a, <2>1, <3>1, ReturnImplements
    <3>3. QED
      BY <3>2 DEF Writer!Next
  <2>4. QED
    BY <2>2, <2>3
<1>9. CASE JoinErr
  <2>1. UNCHANGED << accepted, sink, flushed >> /\ call # "idle"
    BY <1>9 DEF JoinErr, helper
  <2>2. PICK kind \in {"err", "no_error", "thread_panicked"} : Return("write", kind)
    BY <1>9 DEF JoinErr
  <2>3. Writer!Return
    BY <1>0, <2>1, <2>2, ReturnImplements DEF Failed
  <2>4. QED
    BY <2>3 DEF Writer!Next
<1>10. CASE JoinFlush
  <2>1. UNCHANGED << accepted, sink, flushed >> /\ call # "idle"
    BY <1>10 DEF JoinFlush
  <2>2. PICK kind \in {"ok", "err", "thread_failed", "thread_panicked"} :
          Return("flush", kind) /\ (kind = "ok" => thread = "ok")
    BY <1>10 DEF JoinFlush
  <2>3. Writer!Return
    BY <1>0, <2>1, <2>2, EndedWell, ReturnImplements DEF Failed
  <2>4. QED
    BY <2>3 DEF Writer!Next
<1>11. CASE JoinDrop
  <2>1. UNCHANGED << accepted, sink, flushed >> /\ call # "idle"
    BY <1>11 DEF JoinDrop, helper
  <2>2. PICK kind \in {"ok", "thread_failed", "thread_panicked"} :
          Return("drop", kind) /\ (kind = "ok" => thread = "ok")
    BY <1>11 DEF JoinDrop
  <2>3. Writer!Return
    BY <1>0, <2>1, <2>2, EndedWell, ReturnImplements DEF Failed
  <2>4. QED
    BY <2>3 DEF Writer!Next
<1>12. CASE UNCHANGED vars
  BY <1>12, <1>s DEF vars, caller, helper
<1>13. QED
  BY <1>1, <1>2, <1>3, <1>4, <1>5, <1>6, <1>7, <1>8, <1>9, <1>10, <1>11, <1>12
     DEF Next, Helper, Continue, Closed

(* StreamWriter::piped_thread keeps the promises of `Box<dyn Write>`: what *)
(* arrives does so in order, a successful flush means all has arrived, and *)
(* no loss goes unreported.                                                *)
THEOREM ImplementsWriterCorrect == Spec => ImplementsWriter
<1>1. Init => Writer!Init
  <2>1. Take(<< >>, 0) = << >>
    BY SubSeqEmpty DEF Take
  <2>2. QED
    BY <2>1 DEF Init, Writer!Init
<1>2. Inv /\ [Next]_vars => [Writer!Next]_(Writer!vars)
  BY StepImplements
<1>3. QED
  BY <1>1, <1>2, Invariant, PTL DEF Spec, ImplementsWriter, Writer!Spec
=============================================================================
