------------------------- MODULE BufDuplexerProofs -------------------------
(***************************************************************************)
(* For every capacity, alphabet and bound: a BufDuplexer loses, repeats    *)
(* and reorders no byte in either direction, never outgrows its write      *)
(* buffer, and has put everything on the device when a flush reports       *)
(* success.                                                                *)
(***************************************************************************)
EXTENDS BufDuplexer, SliceLemmas

USE CapacityAssumption, BoundAssumption

-----------------------------------------------------------------------------
(* A frame is a record.                                                    *)
LEMMA FrameType ==
  ASSUME NEW op \in Ops, NEW n \in Nat
  PROVE  Do(op, n) \in [op : Ops, n : Nat]
BY DEF Do

(* Where a call can be when its next frame is op.                          *)

(* The last frame has a length, the first one is a frame.                  *)
LEMMA LastType ==
  ASSUME TypeOK, todo # << >>
  PROVE  LastN \in Nat /\ Head(todo) \in [op : Ops, n : Nat]
<1>1. Len(todo) \in 1..Len(todo)
  BY EmptySeq DEF TypeOK, CallTypes
<1>2. todo[Len(todo)] \in [op : Ops, n : Nat]
  BY <1>1, ElementOfSeq DEF TypeOK, CallTypes
<1>3. Head(todo) \in [op : Ops, n : Nat]
  BY HeadTailProperties DEF TypeOK, CallTypes
<1>4. QED
  BY <1>2, <1>3 DEF LastN

(* flush_buf runs on its own, ahead of buffering, or ahead of the flush of *)
(* the device.                                                             *)
LEMMA AtFlushBuf ==
  ASSUME TypeOK, Control, At("flush_buf")
  PROVE  \/ call \in {"into_inner", "drop"} /\ Len(todo) = 1
         \/ /\ call \in WriteCalls /\ Len(todo) = 2
            /\ Tail(todo) = << Do(Put(call), Len(payload)) >>
         \/ /\ call = "flush" /\ Len(todo) = 2
            /\ Tail(todo) = << Do("inner_flush", 0) >>
         \/ /\ call = "read" /\ Len(todo) = 3
            /\ \E n \in Nat : Tail(todo) = << Do("inner_flush", 0), Do("read", n) >>
         \/ /\ call = "read_until" /\ Len(todo) = 4
            /\ \E n \in Nat :
                 Tail(todo) = << Do("inner_flush", 0), Do("fill_buf", 0), Do("until", n) >>
<1>1. todo # << >> /\ Head(todo).op = "flush_buf" /\ LastN \in Nat
  BY LastType DEF At
<1>2. CASE call \in WriteCalls /\ todo \in WriteStages(call, Len(payload))
  <2>1. todo = << Do("flush_buf", 0), Do(Put(call), Len(payload)) >>
    BY <1>1, <1>2 DEF WriteStages, WriteCalls, Do, Put
  <2>2. QED
    BY <1>1, <1>2, <2>1
<1>3. CASE call = "flush" /\ todo \in FlushStages
  <2>1. todo = << Do("flush_buf", 0), Do("inner_flush", 0) >>
    BY <1>1, <1>3 DEF FlushStages, Do
  <2>2. QED
    BY <1>1, <1>3, <2>1
<1>4. CASE call = "read" /\ todo \in ReadStages(LastN)
  <2>1. todo = << Do("flush_buf", 0), Do("inner_flush", 0), Do("read", LastN) >>
    BY <1>1, <1>4 DEF ReadStages, Do
  <2>2. QED
    BY <1>1, <1>4, <2>1
<1>5. CASE call = "read_until" /\ todo \in UntilStages(LastN)
  <2>1. todo = << Do("flush_buf", 0), Do("inner_flush", 0),
                 Do("fill_buf", 0), Do("until", LastN) >>
    BY <1>1, <1>5 DEF UntilStages, Do
  <2>2. QED
    BY <1>1, <1>5, <2>1
<1>6. CASE call = "fill_buf" /\ todo = << Do("fill_buf", 0) >>
  BY <1>1, <1>6 DEF Do
<1>7. CASE call \in {"into_inner", "drop"} /\ todo = << Do("flush_buf", 0) >>
  BY <1>7
<1>8. QED
  BY <1>1, <1>2, <1>3, <1>4, <1>5, <1>6, <1>7 DEF Control

(* The flush of the device ends a flush or precedes a read.                *)
LEMMA AtInnerFlush ==
  ASSUME TypeOK, Control, At("inner_flush")
  PROVE  \/ call = "flush" /\ Len(todo) = 1
         \/ /\ call = "read" /\ Len(todo) = 2
            /\ \E n \in Nat : Tail(todo) = << Do("read", n) >>
         \/ /\ call = "read_until" /\ Len(todo) = 3
            /\ \E n \in Nat : Tail(todo) = << Do("fill_buf", 0), Do("until", n) >>
<1>1. todo # << >> /\ Head(todo).op = "inner_flush" /\ LastN \in Nat
  BY LastType DEF At
<1>2. CASE call \in WriteCalls /\ todo \in WriteStages(call, Len(payload))
  BY <1>1, <1>2 DEF WriteStages, WriteCalls, Do, Put
<1>3. CASE call = "flush" /\ todo \in FlushStages
  BY <1>1, <1>3 DEF FlushStages, Do
<1>4. CASE call = "read" /\ todo \in ReadStages(LastN)
  <2>1. todo = << Do("inner_flush", 0), Do("read", LastN) >>
    BY <1>1, <1>4 DEF ReadStages, Do
  <2>2. QED
    BY <1>1, <1>4, <2>1
<1>5. CASE call = "read_until" /\ todo \in UntilStages(LastN)
  <2>1. todo = << Do("inner_flush", 0), Do("fill_buf", 0), Do("until", LastN) >>
    BY <1>1, <1>5 DEF UntilStages, Do
  <2>2. QED
    BY <1>1, <1>5, <2>1
<1>6. CASE call = "fill_buf" /\ todo = << Do("fill_buf", 0) >>
  BY <1>1, <1>6 DEF Do
<1>7. CASE call \in {"into_inner", "drop"} /\ todo = << Do("flush_buf", 0) >>
  BY <1>1, <1>7 DEF Do
<1>8. QED
  BY <1>1, <1>2, <1>3, <1>4, <1>5, <1>6, <1>7 DEF Control

(* The frames of the write half belong to a write call and stand alone.    *)
LEMMA AtWrite ==
  ASSUME TypeOK, Control, NEW op \in {"write", "write_all", "put", "put_all"}, At(op)
  PROVE  /\ call \in WriteCalls /\ op \in {call, Put(call)}
         /\ todo = << Do(op, Len(payload)) >>
<1>1. todo # << >> /\ Head(todo).op = op /\ LastN \in Nat
  BY LastType DEF At
<1>2. CASE call \in WriteCalls /\ todo \in WriteStages(call, Len(payload))
  BY <1>1, <1>2 DEF WriteStages, WriteCalls, Do, Put
<1>3. CASE call = "flush" /\ todo \in FlushStages
  BY <1>1, <1>3 DEF FlushStages, Do
<1>4. CASE call = "read" /\ todo \in ReadStages(LastN)
  BY <1>1, <1>4 DEF ReadStages, Do
<1>5. CASE call = "read_until" /\ todo \in UntilStages(LastN)
  BY <1>1, <1>5 DEF UntilStages, Do
<1>6. CASE call = "fill_buf" /\ todo = << Do("fill_buf", 0) >>
  BY <1>1, <1>6 DEF Do
<1>7. CASE call \in {"into_inner", "drop"} /\ todo = << Do("flush_buf", 0) >>
  BY <1>1, <1>7 DEF Do
<1>8. QED
  BY <1>1, <1>2, <1>3, <1>4, <1>5, <1>6, <1>7 DEF Control

(* So do those of the read half, except that fill_buf is also a stage of   *)
(* read and read_until.                                                    *)
LEMMA AtRead ==
  ASSUME TypeOK, Control, NEW op \in {"read", "copy", "until"}, At(op)
  PROVE  /\ call = (IF op = "until" THEN "read_until" ELSE "read")
         /\ \E n \in Nat : todo = << Do(op, n) >>
<1>1. todo # << >> /\ Head(todo).op = op /\ LastN \in Nat
  BY LastType DEF At
<1>2. CASE call \in WriteCalls /\ todo \in WriteStages(call, Len(payload))
  BY <1>1, <1>2 DEF WriteStages, WriteCalls, Do, Put
<1>3. CASE call = "flush" /\ todo \in FlushStages
  BY <1>1, <1>3 DEF FlushStages, Do
<1>4. CASE call = "read" /\ todo \in ReadStages(LastN)
  BY <1>1, <1>4 DEF ReadStages, Do
<1>5. CASE call = "read_until" /\ todo \in UntilStages(LastN)
  BY <1>1, <1>5 DEF UntilStages, Do
<1>6. CASE call = "fill_buf" /\ todo = << Do("fill_buf", 0) >>
  BY <1>1, <1>6 DEF Do
<1>7. CASE call \in {"into_inner", "drop"} /\ todo = << Do("flush_buf", 0) >>
  BY <1>1, <1>7 DEF Do
<1>8. QED
  BY <1>1, <1>2, <1>3, <1>4, <1>5, <1>6, <1>7 DEF Control

(* fill_buf runs on its own or ahead of the copy out of the buffer.        *)
LEMMA AtFillBuf ==
  ASSUME TypeOK, Control, At("fill_buf")
  PROVE  \/ call = "fill_buf" /\ Len(todo) = 1
         \/ /\ call = "read" /\ Len(todo) = 2
            /\ \E n \in Nat : Tail(todo) = << Do("copy", n) >>
         \/ /\ call = "read_until" /\ Len(todo) = 2
            /\ \E n \in Nat : Tail(todo) = << Do("until", n) >>
<1>1. todo # << >> /\ Head(todo).op = "fill_buf" /\ LastN \in Nat
  BY LastType DEF At
<1>2. CASE call \in WriteCalls /\ todo \in WriteStages(call, Len(payload))
  BY <1>1, <1>2 DEF WriteStages, WriteCalls, Do, Put
<1>3. CASE call = "flush" /\ todo \in FlushStages
  BY <1>1, <1>3 DEF FlushStages, Do
<1>4. CASE call = "read" /\ todo \in ReadStages(LastN)
  <2>1. todo = << Do("fill_buf", 0), Do("copy", LastN) >>
    BY <1>1, <1>4 DEF ReadStages, Do
  <2>2. QED
    BY <1>1, <1>4, <2>1
<1>5. CASE call = "read_until" /\ todo \in UntilStages(LastN)
  <2>1. todo = << Do("fill_buf", 0), Do("until", LastN) >>
    BY <1>1, <1>5 DEF UntilStages, Do
  <2>2. QED
    BY <1>1, <1>5, <2>1
<1>6. CASE call = "fill_buf" /\ todo = << Do("fill_buf", 0) >>
  BY <1>6
<1>7. CASE call \in {"into_inner", "drop"} /\ todo = << Do("flush_buf", 0) >>
  BY <1>1, <1>7 DEF Do
<1>8. QED
  BY <1>1, <1>2, <1>3, <1>4, <1>5, <1>6, <1>7 DEF Control

-----------------------------------------------------------------------------
(* How a frame ends.                                                       *)

Kinds == {"ok", "err", "wpanic", "panic"}

(* A call that has returned is at no frame.                                *)
LEMMA NoFrame == ASSUME NEW op, todo = << >> PROVE ~At(op)
BY DEF At

(* A call that returns leaves no frame and nothing on offer.               *)
LEMMA ReturnStep ==
  ASSUME TypeOK, Offered, call # "idle", NEW kind \in Kinds, NEW n \in Nat,
         call \in WriteCalls => n \in 0..Len(payload), Return(kind, n)
  PROVE  CallTypes' /\ Control' /\ Offered' /\ call' = "idle" /\ todo' = << >>
<1>1. << >> \in Seq(Byte) /\ << >> \in Seq([op : Ops, n : Nat])
  BY EmptySeq
<1>2. accepted' \in Seq(Byte)
  <2>1. CASE call \in WriteCalls
    <3>1. Take(payload, n) \in Seq(Byte)
      BY <2>1, SliceType DEF TypeOK, CallTypes
    <3>2. accepted \o Take(payload, n) \in Seq(Byte)
      BY <3>1, ConcatProperties DEF TypeOK, CallTypes
    <3>3. QED
      BY <3>2 DEF Return, TypeOK, CallTypes
  <2>2. CASE call \notin WriteCalls
    BY <2>2 DEF Return, WriteCalls, TypeOK, CallTypes
  <2>3. QED
    BY <2>1, <2>2
<1>3. result' \in [of : PublicCalls \cup {"new"}, n : Nat,
                  kind : {"ok", "err", "wpanic", "panic", "skipped"}]
  BY DEF Return, Kinds, TypeOK, CallTypes
<1>4. CallTypes'
  BY <1>1, <1>2, <1>3 DEF Return, TypeOK, CallTypes
<1>5. QED
  BY <1>4 DEF Return, Control, Offered

(* Giving up returns without taking anything more of the argument.         *)
LEMMA AbandonStep ==
  ASSUME TypeOK, Offered, call # "idle", NEW kind \in Kinds, Abandon(kind)
  PROVE  /\ CallTypes' /\ Control' /\ Offered' /\ call' = "idle" /\ todo' = << >>
         /\ accepted' = accepted /\ result'.kind = kind
<1>1. Len(payload) \in Nat
  BY LenProperties DEF TypeOK, CallTypes
<1>2. Moved(arg) = 0
  BY <1>1 DEF Moved, Offered
<1>3. Return(kind, 0)
  BY <1>2 DEF Abandon
<1>4. Take(payload, 0) = << >>
  BY SliceEnds DEF TypeOK, CallTypes
<1>5. accepted' = accepted
  <2>1. accepted \o << >> = accepted
    BY ConcatEmptySeq DEF TypeOK, CallTypes
  <2>2. QED
    BY <1>3, <1>4, <2>1 DEF Return
<1>6. 0 \in Nat /\ 0 \in 0..Len(payload)
  BY <1>1
<1>7. CallTypes' /\ Control' /\ Offered' /\ call' = "idle" /\ todo' = << >>
  BY <1>3, <1>6, ReturnStep
<1>8. QED
  BY <1>3, <1>5, <1>7 DEF Return

(* A frame that is not the last makes way for the next one.                *)
LEMMA ProceedStep ==
  ASSUME TypeOK, todo # << >>, Len(todo) # 1, Offered, Proceed(arg)
  PROVE  /\ CallTypes' /\ Offered'
         /\ todo' = Tail(todo) /\ call' = call /\ payload' = payload
         /\ accepted' = accepted /\ result' = result /\ open' = open
<1>1. Tail(todo) \in Seq([op : Ops, n : Nat])
  BY HeadTailProperties DEF TypeOK, CallTypes
<1>2. QED
  BY <1>1 DEF Proceed, TypeOK, CallTypes, Offered

(* The last one returns.                                                   *)
LEMMA LastProceedStep ==
  ASSUME TypeOK, Offered, call # "idle", Len(todo) = 1, Proceed(arg)
  PROVE  /\ CallTypes' /\ Control' /\ Offered' /\ call' = "idle" /\ todo' = << >>
         /\ accepted' = accepted
BY AbandonStep DEF Proceed, Abandon, Kinds


(* A call at a frame is in progress, and at no other frame.                *)
LEMMA Busy ==
  ASSUME Control, NEW op, At(op)
  PROVE  call # "idle" /\ todo # << >> /\ \A p : At(p) => p = op
BY Frames DEF Control, At, WriteCalls, WriteStages, FlushStages, ReadStages, UntilStages

(* The unwritten and the unread part of the two buffers.                   *)
LEMMA RemainingType ==
  ASSUME TypeOK
  PROVE  /\ Remaining \in Seq(Byte) /\ Len(Remaining) = Len(writer_buf) - written
         /\ Unread \in Seq(Byte) /\ Len(Unread) = Len(reader_buf) - pos
         /\ Len(writer_buf) \in Nat /\ Len(reader_buf) \in Nat
BY SliceType, LenProperties DEF Remaining, Unread, TypeOK, BufferTypes

-----------------------------------------------------------------------------
(* flush_buf.                                                              *)

(* Bytes the device takes move from what remains to the sink.              *)
LEMMA FlushWriteStep == Inv /\ FlushWrite => Inv'
<1> SUFFICES ASSUME Inv, FlushWrite PROVE Inv'
  OBVIOUS
<1>1. PICK n \in 1..Len(Remaining) :
        sink' = sink \o Take(Remaining, n) /\ written' = written + n
  BY DEF FlushWrite
<1>2. TypeOK /\ Control /\ At("flush_buf") /\ At("flush_buf")' /\ UNCHANGED callVars
      /\ UNCHANGED << writer_buf, reader_buf, pos, synced, fetched, delivered >>
      /\ panicked' = FALSE
  BY DEF Inv, FlushWrite, Flushing, callVars, readerVars, inVars, At
<1>3. call # "idle" /\ \A p : At(p) => p = "flush_buf"
  BY <1>2, Busy
<1>4. /\ Remaining \in Seq(Byte) /\ Len(Remaining) = Len(writer_buf) - written
      /\ Len(writer_buf) \in Nat /\ written \in 0..Len(writer_buf)
      /\ Take(Remaining, n) \in Seq(Byte) /\ n \in 0..Len(writer_buf) - written
      /\ n \in 0..Len(Remaining)
  BY <1>1, <1>2, RemainingType, SliceType DEF TypeOK, BufferTypes
<1>5. TypeOK'
  <2>1. sink' \in Seq(Byte) /\ Len(sink) \in Nat
        /\ Len(sink') = Len(sink) + Len(Take(Remaining, n))
    BY <1>1, <1>2, <1>4, ConcatProperties, LenProperties DEF TypeOK, DeviceTypes
  <2>2. Len(Take(Remaining, n)) = n
    BY <1>4, SliceType
  <2>3. DeviceTypes'
    BY <1>1, <1>2, <2>1, <2>2 DEF TypeOK, DeviceTypes
  <2>4. written' \in 0..Len(writer_buf)
    BY <1>1, <1>4
  <2>5. BufferTypes'
    BY <1>2, <2>4 DEF TypeOK, BufferTypes
  <2>6. CallTypes'
    BY <1>2 DEF TypeOK, CallTypes, callVars
  <2>7. QED
    BY <2>3, <2>5, <2>6 DEF TypeOK
<1>6. Control' /\ Offered'
  BY <1>2 DEF Inv, Control, Offered, callVars, LastN
<1>7. GuardAtRest' /\ Fits' /\ Emptied'
  BY <1>2, <1>3 DEF GuardAtRest, Fits, Emptied, At, callVars
<1>8. Accounted'
  <2>1. (sink \o Take(Skip(writer_buf, written), n)) \o Skip(writer_buf, written + n)
          = sink \o Skip(writer_buf, written)
    BY <1>2, <1>4, SliceMove DEF TypeOK, BufferTypes, DeviceTypes
  <2>2. QED
    BY <1>1, <1>2, <2>1 DEF Inv, Accounted, Remaining, callVars
<1>9. CapacityKept' /\ InConserved' /\ FlushReachesSink'
  BY <1>2, <1>3 DEF Inv, CapacityKept, InConserved, FlushReachesSink, Unread, callVars
<1>10. QED
  BY <1>5, <1>6, <1>7, <1>8, <1>9 DEF Inv

(* An Interrupted answer changes nothing but `panicked`.                   *)
LEMMA FlushInterruptedStep == Inv /\ FlushInterrupted => Inv'
<1> SUFFICES ASSUME Inv, FlushInterrupted PROVE Inv'
  OBVIOUS
<1>1. panicked' = FALSE /\ UNCHANGED << writer_buf, written, readerVars, callVars,
                                       outVars, inVars >>
  BY DEF FlushInterrupted
<1>2. TypeOK'
  BY <1>1 DEF Inv, TypeOK, BufferTypes, CallTypes, DeviceTypes, readerVars,
              callVars, outVars, inVars
<1>3. Control' /\ Offered' /\ GuardAtRest' /\ Fits' /\ Emptied'
  BY <1>1 DEF Inv, Control, Offered, GuardAtRest, Fits, Emptied, At, LastN, N,
              readerVars, callVars, outVars, inVars
<1>4. Accounted' /\ CapacityKept' /\ InConserved' /\ FlushReachesSink'
  BY <1>1 DEF Inv, Accounted, CapacityKept, InConserved, FlushReachesSink,
              Remaining, Unread, readerVars, callVars, outVars, inVars
<1>5. QED
  BY <1>2, <1>3, <1>4 DEF Inv

(* BufGuard's drop keeps exactly what the device has not taken.            *)
LEMMA DrainStep ==
  ASSUME TypeOK, Drain
  PROVE  /\ writer_buf' \in Seq(Byte) /\ written' = 0
         /\ Len(writer_buf') <= Len(writer_buf)
         /\ written = Len(writer_buf) => writer_buf' = << >>
         /\ Remaining' = Remaining
<1>1. Remaining \in Seq(Byte) /\ Len(Remaining) = Len(writer_buf) - written
      /\ Len(writer_buf) \in Nat /\ written \in 0..Len(writer_buf)
  BY RemainingType DEF TypeOK, BufferTypes
<1>2. Skip(Remaining, 0) = Remaining
  BY <1>1, SliceEnds
<1>3. Remaining' = Skip(writer_buf', written')
  BY DEF Remaining
<1>4. written = Len(writer_buf) => Remaining = << >>
  BY <1>1, EmptySeq
<1>5. QED
  BY <1>1, <1>2, <1>3, <1>4 DEF Drain

(* A failure or a panic of inner.write inside flush_buf.                   *)
LEMMA FlushStopStep ==
  ASSUME Inv, Flushing, Drain, NEW kind \in {"err", "wpanic"}, Abandon(kind),
         panicked' \in BOOLEAN, UNCHANGED << readerVars, outVars, inVars >>
  PROVE  Inv'
<1>1. TypeOK /\ Control /\ Offered /\ At("flush_buf")
      /\ UNCHANGED << reader_buf, pos, sink, synced, fetched, delivered >>
  BY DEF Inv, Flushing, readerVars, outVars, inVars
<1>2. call # "idle"
  BY <1>1, Busy
<1>3. /\ CallTypes' /\ Control' /\ Offered' /\ call' = "idle" /\ todo' = << >>
      /\ accepted' = accepted /\ result'.kind = kind
  BY <1>1, <1>2, AbandonStep DEF Kinds
<1>4. /\ writer_buf' \in Seq(Byte) /\ written' = 0
      /\ Len(writer_buf') <= Len(writer_buf) /\ Remaining' = Remaining
  BY <1>1, DrainStep
<1>5. TypeOK'
  BY <1>1, <1>3, <1>4, LenProperties DEF TypeOK, BufferTypes, DeviceTypes
<1>6. GuardAtRest' /\ Fits' /\ Emptied'
  BY <1>3, <1>4 DEF GuardAtRest, Fits, Emptied, At
<1>7. Accounted' /\ InConserved' /\ FlushReachesSink'
  BY <1>1, <1>3, <1>4 DEF Inv, Accounted, InConserved, FlushReachesSink, Unread
<1>8. CapacityKept'
  BY <1>1, <1>4, LenProperties DEF Inv, CapacityKept, TypeOK, BufferTypes
<1>9. QED
  BY <1>3, <1>5, <1>6, <1>7, <1>8 DEF Inv

(* A flush_buf that fails or unwinds keeps what the device did not take.   *)
LEMMA FlushFailStep == Inv /\ (FlushFail \/ FlushPanic) => Inv'
BY FlushStopStep DEF FlushFail, FlushPanic

(* The end of the loop: everything is on the device and the next frame, if *)
(* any, finds the buffer empty.                                            *)
LEMMA FlushDoneStep == Inv /\ FlushDone => Inv'
<1> SUFFICES ASSUME Inv, FlushDone PROVE Inv'
  OBVIOUS
<1>1. /\ TypeOK /\ Control /\ Offered /\ At("flush_buf") /\ Drain /\ Proceed(arg)
      /\ UNCHANGED << panicked, reader_buf, pos, sink, synced, fetched, delivered >>
  BY DEF Inv, FlushDone, readerVars, outVars, inVars
<1>2. call # "idle" /\ todo # << >>
  BY <1>1, Busy
<1>3. writer_buf' = << >> /\ written' = 0 /\ Remaining' = Remaining
  BY <1>1, DrainStep DEF FlushDone, TypeOK, BufferTypes
<1>4. accepted' = accepted /\ CallTypes' /\ Offered'
  BY <1>1, <1>2, ProceedStep, LastProceedStep
<1>5. TypeOK'
  BY <1>1, <1>3, <1>4, EmptySeq DEF TypeOK, BufferTypes, DeviceTypes
<1>6. Accounted' /\ CapacityKept' /\ InConserved'
  BY <1>1, <1>3, <1>4, EmptySeq DEF Inv, Accounted, CapacityKept, InConserved, Unread
<1>7. CASE Len(todo) = 1
  <2>1. Control' /\ todo' = << >> /\ call' = "idle"
    BY <1>1, <1>2, <1>7, LastProceedStep
  <2>2. GuardAtRest' /\ Fits' /\ Emptied'
    BY <1>3, <2>1 DEF GuardAtRest, Fits, Emptied, At
  <2>3. FlushReachesSink'
    <3>1. Remaining' = << >>
      BY <1>3, SliceEnds, EmptySeq DEF Remaining, Skip
    <3>2. sink' \o << >> = sink'
      BY <1>1, ConcatEmptySeq DEF TypeOK, DeviceTypes
    <3>3. QED
      BY <1>6, <3>1, <3>2 DEF Accounted, FlushReachesSink
  <2>4. QED
    BY <1>4, <1>5, <1>6, <2>1, <2>2, <2>3 DEF Inv
<1>8. CASE Len(todo) # 1
  <2>1. todo' = Tail(todo) /\ call' = call /\ payload' = payload
    BY <1>1, <1>2, <1>8, ProceedStep
  <2>2. \/ /\ call \in WriteCalls
           /\ todo' = << Do(Put(call), Len(payload)) >>
        \/ call = "flush" /\ todo' = << Do("inner_flush", 0) >>
        \/ /\ call = "read"
           /\ \E n \in Nat : todo' = << Do("inner_flush", 0), Do("read", n) >>
        \/ /\ call = "read_until"
           /\ \E n \in Nat :
                todo' = << Do("inner_flush", 0), Do("fill_buf", 0), Do("until", n) >>
    BY <1>1, <1>8, <2>1, AtFlushBuf
  <2>3. /\ todo' # << >> /\ Head(todo') \in [op : Ops, n : Nat]
        /\ Head(todo').op \in {"put", "put_all", "inner_flush"}
    <3>1. todo' # << >> /\ Head(todo').op \in {"put", "put_all", "inner_flush"}
      BY <2>2 DEF Put, Do
    <3>2. QED
      BY <1>4, <3>1, HeadTailProperties DEF CallTypes
  <2>4. Control'
    <3>1. CASE call \in WriteCalls /\ todo' = << Do(Put(call), Len(payload)) >>
      <4>1. todo' \in WriteStages(call', Len(payload'))
        BY <2>1, <3>1 DEF WriteStages
      <4>2. QED
        BY <2>1, <3>1, <4>1 DEF Control
    <3>2. CASE call = "flush" /\ todo' = << Do("inner_flush", 0) >>
      <4>1. todo' \in FlushStages
        BY <3>2 DEF FlushStages
      <4>2. QED
        BY <2>1, <3>2, <4>1 DEF Control
    <3>3. ASSUME call = "read", NEW n \in Nat,
                 todo' = << Do("inner_flush", 0), Do("read", n) >>
          PROVE  Control'
      <4>1. LastN' = n
        BY <3>3 DEF LastN, Do
      <4>2. todo' \in ReadStages(LastN')
        BY <3>3, <4>1 DEF ReadStages
      <4>3. QED
        BY <2>1, <2>3, <3>3, <4>2 DEF Control
    <3>4. ASSUME call = "read_until", NEW n \in Nat,
                 todo' = << Do("inner_flush", 0), Do("fill_buf", 0), Do("until", n) >>
          PROVE  Control'
      <4>1. LastN' = n
        BY <3>4 DEF LastN, Do
      <4>2. todo' \in UntilStages(LastN')
        BY <3>4, <4>1 DEF UntilStages
      <4>3. QED
        BY <2>1, <2>3, <3>4, <4>2 DEF Control
    <3>5. QED
      BY <2>2, <3>1, <3>2, <3>3, <3>4
  <2>5. GuardAtRest' /\ Emptied'
    BY <1>3, <2>3 DEF GuardAtRest, Emptied, At
  <2>6. Fits'
    <3>1. SUFFICES ASSUME At("put")' \/ At("put_all")'
                   PROVE  N' < WCap => Len(writer_buf') + N' <= WCap
      BY <1>3 DEF Fits
    <3>2. N' \in Nat
      BY <2>3 DEF N
    <3>3. Len(writer_buf') = 0
      BY <1>3
    <3>4. \A n \in Nat : n < WCap => 0 + n <= WCap
      BY CapacityAssumption
    <3>5. QED
      BY <3>2, <3>3, <3>4
  <2>7. FlushReachesSink'
    BY <1>2, <2>1 DEF FlushReachesSink
  <2>8. QED
    BY <1>4, <1>5, <1>6, <2>4, <2>5, <2>6, <2>7 DEF Inv
<1>9. QED
  BY <1>7, <1>8

(* inner.flush.                                                            *)
LEMMA InnerFlushStep == Inv /\ InnerFlush => Inv'
<1> SUFFICES ASSUME Inv, InnerFlush PROVE Inv'
  OBVIOUS
<1>1. /\ TypeOK /\ Control /\ Offered /\ At("inner_flush") /\ writer_buf = << >>
      /\ UNCHANGED << writer_buf, written, panicked, reader_buf, pos, sink, fetched,
                      delivered >>
  BY DEF Inv, Emptied, InnerFlush, writerVars, readerVars, inVars
<1>2. call # "idle" /\ todo # << >> /\ written = 0
  BY <1>1, Busy DEF Inv, GuardAtRest
<1>3. sink = accepted
  <2>1. Remaining = << >>
    BY <1>1, <1>2, SliceEnds DEF Remaining, TypeOK, BufferTypes
  <2>2. sink \o << >> = sink
    BY <1>1, ConcatEmptySeq DEF TypeOK, DeviceTypes
  <2>3. QED
    BY <2>1, <2>2 DEF Inv, Accounted
<1>4. ASSUME NEW kind \in {"err", "panic"}, Abandon(kind), UNCHANGED synced
      PROVE  Inv'
  <2>1. /\ CallTypes' /\ Control' /\ Offered' /\ call' = "idle" /\ todo' = << >>
        /\ accepted' = accepted /\ result'.kind = kind
    BY <1>1, <1>2, <1>4, AbandonStep DEF Kinds
  <2>2. TypeOK'
    BY <1>1, <1>4, <2>1 DEF TypeOK, BufferTypes, DeviceTypes
  <2>3. GuardAtRest' /\ Fits' /\ Emptied'
    BY <1>1, <1>2, <2>1 DEF GuardAtRest, Fits, Emptied, At
  <2>4. Accounted' /\ CapacityKept' /\ InConserved' /\ FlushReachesSink'
    BY <1>1, <1>4, <2>1 DEF Inv, Accounted, CapacityKept, InConserved,
                            FlushReachesSink, Remaining, Unread
  <2>5. QED
    BY <2>1, <2>2, <2>3, <2>4 DEF Inv
<1>5. ASSUME Proceed(arg), synced' = Len(sink) PROVE Inv'
  <2>1. accepted' = accepted /\ CallTypes' /\ Offered'
    BY <1>1, <1>2, <1>5, ProceedStep, LastProceedStep
  <2>2. TypeOK'
    BY <1>1, <1>5, <2>1, LenProperties DEF TypeOK, BufferTypes, DeviceTypes
  <2>3. Accounted' /\ CapacityKept' /\ InConserved' /\ FlushReachesSink'
    BY <1>1, <1>3, <2>1 DEF Inv, Accounted, CapacityKept, InConserved,
                            FlushReachesSink, Remaining, Unread
  <2>4. GuardAtRest'
    BY <1>1, <1>2 DEF GuardAtRest
  <2>5. CASE Len(todo) = 1
    <3>1. Control' /\ todo' = << >>
      BY <1>1, <1>2, <1>5, <2>5, LastProceedStep
    <3>2. Fits' /\ Emptied'
      BY <3>1 DEF Fits, Emptied, At
    <3>3. QED
      BY <2>1, <2>2, <2>3, <2>4, <3>1, <3>2 DEF Inv
  <2>6. CASE Len(todo) # 1
    <3>1. todo' = Tail(todo) /\ call' = call
      BY <1>1, <1>2, <1>5, <2>6, ProceedStep
    <3>2. PICK n \in Nat :
             \/ call = "read" /\ todo' = << Do("read", n) >>
             \/ call = "read_until" /\ todo' = << Do("fill_buf", 0), Do("until", n) >>
      BY <1>1, <2>6, <3>1, AtInnerFlush
    <3>3. todo' # << >> /\ LastN' = n /\ Head(todo').op \in {"read", "fill_buf"}
      BY <3>2 DEF LastN, Do
    <3>4. Control'
      BY <3>1, <3>2, <3>3 DEF Control, ReadStages, UntilStages, Do
    <3>5. Fits' /\ Emptied'
      BY <1>1, <1>5, <3>3 DEF Fits, Emptied, At
    <3>6. QED
      BY <2>1, <2>2, <2>3, <2>4, <3>4, <3>5 DEF Inv
  <2>7. QED
    BY <2>5, <2>6
<1>6. QED
  BY <1>4, <1>5 DEF InnerFlush

-----------------------------------------------------------------------------
(* The write half.                                                         *)

(* Replacing the only frame of a call.                                     *)
LEMMA BecomeStep ==
  ASSUME TypeOK, Offered, NEW x, todo = << x >>,
         NEW frames \in Seq([op : Ops, n : Nat]), Become(frames)
  PROVE  /\ CallTypes' /\ Offered' /\ todo' = frames
         /\ UNCHANGED << open, call, payload, arg, result, accepted >>
<1>1. Tail(todo) = << >>
  BY Frames
<1>2. frames \o << >> = frames
  BY ConcatEmptySeq
<1>3. todo' = frames
  BY <1>1, <1>2 DEF Become
<1>4. QED
  BY <1>3 DEF Become, TypeOK, CallTypes, Offered

(* The test of the capacity puts a flush_buf in front if need be.          *)
LEMMA MakeRoomStep == Inv /\ MakeRoom => Inv'
<1> SUFFICES ASSUME Inv, MakeRoom PROVE Inv'
  OBVIOUS
<1>1. PICK op \in WriteCalls :
        /\ At(op)
        /\ Become(IF Len(writer_buf) + N > WCap
                  THEN << Do("flush_buf", 0), Do(Put(op), N) >>
                  ELSE << Do(Put(op), N) >>)
  BY DEF MakeRoom
<1>2. /\ TypeOK /\ Control /\ Offered
      /\ UNCHANGED << writer_buf, written, panicked, reader_buf, pos, sink, synced,
                      fetched, delivered >>
  BY DEF Inv, MakeRoom, writerVars, readerVars, outVars, inVars
<1>3. call # "idle" /\ todo # << >> /\ ~At("flush_buf")
  BY <1>1, <1>2, Busy DEF WriteCalls
<1>4. call = op /\ todo = << Do(op, Len(payload)) >>
  BY <1>1, <1>2, AtWrite DEF WriteCalls, Put
<1>5. N = Len(payload) /\ N \in Nat /\ Len(writer_buf) \in Nat
  BY <1>2, <1>4, LenProperties DEF N, Do, TypeOK, CallTypes, BufferTypes
<1> DEFINE late  == << Do("flush_buf", 0), Do(Put(op), N) >>
           early == << Do(Put(op), N) >>
<1>6. late \in Seq([op : Ops, n : Nat]) /\ early \in Seq([op : Ops, n : Nat])
  <2>1. Put(op) \in Ops /\ "flush_buf" \in Ops /\ 0 \in Nat
    BY DEF Ops, Put
  <2>2. /\ Do("flush_buf", 0) \in [op : Ops, n : Nat]
        /\ Do(Put(op), N) \in [op : Ops, n : Nat]
    BY <1>5, <2>1, FrameType
  <2>3. QED
    BY <2>2
<1>7. /\ CallTypes' /\ Offered'
      /\ todo' = IF Len(writer_buf) + N > WCap THEN late ELSE early
      /\ UNCHANGED << open, call, payload, arg, result, accepted >>
  BY <1>1, <1>2, <1>4, <1>6, BecomeStep
<1>8. TypeOK'
  BY <1>2, <1>7 DEF TypeOK, BufferTypes, DeviceTypes
<1>9. todo' # << >> /\ Head(todo').op \in {"flush_buf", "put", "put_all"}
  BY <1>7 DEF Do, Put
<1>10. Control'
  <2>1. todo' \in WriteStages(call', Len(payload'))
    BY <1>4, <1>5, <1>7 DEF WriteStages
  <2>2. QED
    BY <1>4, <1>7, <2>1 DEF Control
<1>11. GuardAtRest' /\ Emptied'
  BY <1>2, <1>3, <1>9 DEF Inv, GuardAtRest, Emptied, At
<1>12. Fits'
  <2>1. CASE Len(writer_buf) + N > WCap
    <3>1. todo' # << >> /\ Head(todo').op = "flush_buf"
      BY <1>7, <2>1 DEF Do
    <3>2. QED
      BY <3>1 DEF Fits, At
  <2>2. CASE ~(Len(writer_buf) + N > WCap)
    <3>1. todo' = << Do(Put(op), N) >>
      BY <1>7, <2>2
    <3>2. N' = N
      BY <3>1 DEF N, Do
    <3>3. Len(writer_buf) + N <= WCap
      BY <1>5, <2>2, CapacityAssumption
    <3>4. N >= WCap => writer_buf = << >>
      BY <1>2, <1>5, <3>3, EmptySeq DEF TypeOK, BufferTypes
    <3>5. N < WCap \/ N >= WCap
      BY <1>5, CapacityAssumption
    <3>6. QED
      BY <1>2, <3>2, <3>3, <3>4, <3>5 DEF Fits
  <2>3. QED
    BY <2>1, <2>2
<1>13. Accounted' /\ CapacityKept' /\ InConserved' /\ FlushReachesSink'
  BY <1>2, <1>3, <1>7 DEF Inv, Accounted, CapacityKept, InConserved,
                          FlushReachesSink, Remaining, Unread
<1>14. QED
  BY <1>7, <1>8, <1>10, <1>11, <1>12, <1>13 DEF Inv

(* What the three ways of finishing a put have in common.                  *)
LEMMA PutFrame ==
  ASSUME Inv, At("put") \/ At("put_all")
  PROVE  /\ call \in WriteCalls /\ call # "idle" /\ Len(todo) = 1 /\ arg = payload
         /\ N = Len(payload) /\ N \in Nat /\ ~At("flush_buf") /\ written = 0
         /\ (At("put_all") => call = "write_all") /\ (At("put") => call = "write")
         /\ sink \o writer_buf = accepted
<1>1. /\ call \in WriteCalls /\ todo = << Do(Put(call), Len(payload)) >>
      /\ (At("put_all") => call = "write_all") /\ (At("put") => call = "write")
  BY AtWrite DEF Inv, WriteCalls, Put
<1>2. N = Len(payload) /\ N \in Nat /\ Len(todo) = 1
  BY <1>1, LenProperties DEF N, Do, Inv, TypeOK, CallTypes
<1>3. ~At("flush_buf")
  BY Busy DEF Inv
<1>4. written = 0
  BY <1>3 DEF Inv, GuardAtRest
<1>5. Remaining = writer_buf
  BY <1>4, SliceEnds DEF Remaining, Inv, TypeOK, BufferTypes
<1>6. QED
  BY <1>1, <1>2, <1>3, <1>4, <1>5 DEF Inv, Offered, Accounted, WriteCalls

(* The parts of the invariant a finished put disturbs are the accounts.    *)
LEMMA PutReturns ==
  ASSUME Inv, At("put") \/ At("put_all"), NEW kind \in Kinds,
         NEW n \in 0..Len(payload), Return(kind, n),
         writer_buf' \in Seq(Byte), panicked' \in BOOLEAN, sink' \in Seq(Byte),
         Len(sink) <= Len(sink'), sink' \o writer_buf' = accepted', CapacityKept',
         UNCHANGED << written, readerVars, synced, inVars >>
  PROVE  Inv'
<1>1. /\ call \in WriteCalls /\ call # "idle" /\ written = 0 /\ written' = 0
      /\ UNCHANGED << reader_buf, pos, synced, fetched, delivered >>
  BY PutFrame DEF readerVars, inVars
<1>2. CallTypes' /\ Control' /\ Offered' /\ call' = "idle" /\ todo' = << >>
  BY <1>1, ReturnStep DEF Inv
<1>3. TypeOK'
  BY <1>1, <1>2, LenProperties DEF Inv, TypeOK, BufferTypes, DeviceTypes
<1>4. GuardAtRest' /\ Fits' /\ Emptied'
  BY <1>1, <1>2 DEF GuardAtRest, Fits, Emptied, At
<1>5. Accounted'
  <2>1. Remaining' = writer_buf'
    BY <1>1, SliceEnds DEF Remaining
  <2>2. QED
    BY <2>1 DEF Accounted
<1>6. InConserved' /\ FlushReachesSink'
  BY <1>1 DEF Inv, InConserved, FlushReachesSink, Unread, Return, WriteCalls
<1>7. QED
  BY <1>2, <1>3, <1>4, <1>5, <1>6 DEF Inv

(* Bytes that fit join the buffer and are reported as written.             *)
LEMMA BufferStep == Inv /\ Buffer => Inv'
<1> SUFFICES ASSUME Inv, Buffer PROVE Inv'
  OBVIOUS
<1>1. /\ At("put") \/ At("put_all")
      /\ N < WCap
      /\ writer_buf' = writer_buf \o Take(arg, N) /\ Proceed(Skip(arg, N))
      /\ UNCHANGED << written, panicked, readerVars, synced, inVars, sink >>
  BY DEF Buffer, outVars
<1>2. /\ Len(todo) = 1 /\ arg = payload /\ N = Len(payload) /\ N \in Nat
      /\ call \in WriteCalls /\ sink \o writer_buf = accepted
      /\ writer_buf \in Seq(Byte) /\ sink \in Seq(Byte) /\ payload \in Seq(Byte)
      /\ panicked \in BOOLEAN /\ Len(sink) \in Nat /\ Len(writer_buf) \in Nat
  BY <1>1, PutFrame, LenProperties DEF Inv, TypeOK, BufferTypes, CallTypes, DeviceTypes
<1>3. Take(payload, N) = payload /\ Len(Skip(payload, N)) = 0
  BY <1>2, SliceEnds, EmptySeq
<1>4. Return("ok", Len(payload))
  BY <1>1, <1>2, <1>3 DEF Proceed, Moved
<1>5. accepted' = accepted \o payload
  BY <1>2, <1>3, <1>4 DEF Return, WriteCalls
<1>6. writer_buf' = writer_buf \o payload
  BY <1>1, <1>2, <1>3
<1>7. sink' \o writer_buf' = accepted'
  <2>1. \A r, t, u \in Seq(Byte) : (r \o t) \o u = r \o (t \o u)
    BY ONLY TRUE
  <2>2. (sink \o writer_buf) \o payload = sink \o (writer_buf \o payload)
    BY <1>2, <2>1
  <2>3. QED
    BY <1>1, <1>2, <1>5, <1>6, <2>2
<1>8. writer_buf' \in Seq(Byte) /\ Len(writer_buf') = Len(writer_buf) + N
  BY <1>2, <1>6, ConcatProperties
<1>9. CapacityKept'
  BY <1>1, <1>8 DEF Inv, Fits, CapacityKept
<1>10. Len(payload) \in 0..Len(payload) /\ "ok" \in Kinds
  BY <1>2 DEF Kinds
<1>11. /\ sink' \in Seq(Byte) /\ Len(sink) <= Len(sink') /\ panicked' \in BOOLEAN
       /\ UNCHANGED << written, readerVars, synced, inVars >>
  BY <1>1, <1>2
<1>12. QED
  BY <1>1, <1>4, <1>7, <1>8, <1>9, <1>10, <1>11, PutReturns

(* The two ways around the buffer, which is empty.                         *)
LEMMA DirectStep ==
  ASSUME Inv, At("put") \/ At("put_all"), N >= WCap, NEW k \in 0..N,
         NEW kind \in Kinds, call = "write" => (k = 0 \/ kind = "ok"),
         sink' = sink \o Take(arg, k), panicked' \in BOOLEAN, Return(kind, k),
         UNCHANGED << writer_buf, written, readerVars, synced, inVars >>
  PROVE  Inv'
<1>1. /\ arg = payload /\ N = Len(payload) /\ N \in Nat
      /\ call \in WriteCalls /\ sink \o writer_buf = accepted
      /\ writer_buf \in Seq(Byte) /\ sink \in Seq(Byte) /\ payload \in Seq(Byte)
      /\ accepted \in Seq(Byte) /\ Len(sink) \in Nat
  BY PutFrame, LenProperties DEF Inv, TypeOK, BufferTypes, CallTypes, DeviceTypes
<1>2. writer_buf = << >> /\ writer_buf' = << >>
  BY <1>1, CapacityAssumption DEF Inv, Fits
<1>3. sink = accepted
  BY <1>1, <1>2, ConcatEmptySeq
<1>4. Take(payload, k) \in Seq(Byte) /\ Len(Take(payload, k)) \in Nat
      /\ Take(payload, 0) = << >>
  BY <1>1, SliceType, SliceEnds
<1>5. sink' \in Seq(Byte) /\ Len(sink) <= Len(sink')
  <2>1. sink' \in Seq(Byte) /\ Len(sink') = Len(sink) + Len(Take(payload, k))
    BY <1>1, <1>4, ConcatProperties
  <2>2. QED
    BY <1>1, <1>4, <2>1
<1>6. accepted' = sink'
  <2>1. accepted \o << >> = accepted
    BY <1>1, ConcatEmptySeq
  <2>2. QED
    BY <1>1, <1>3, <1>4, <2>1 DEF Return, WriteCalls
<1>7. sink' \o writer_buf' = accepted'
  BY <1>2, <1>5, <1>6, ConcatEmptySeq
<1>8. CapacityKept'
  BY <1>2, EmptySeq DEF CapacityKept, Inv
<1>9. k \in 0..Len(payload) /\ writer_buf' \in Seq(Byte)
  BY <1>1
<1>10. QED
  BY <1>5, <1>7, <1>8, <1>9, PutReturns

(* How much of the argument each of their answers accounts for.            *)
LEMMA MovedBy ==
  ASSUME Inv, At("put") \/ At("put_all"), NEW k \in 0..N
  PROVE  /\ Moved(Skip(arg, k)) = k /\ Moved(arg) + k = k /\ Moved(arg) = 0
         /\ sink \o Take(arg, 0) = sink /\ 0 \in 0..N /\ N \in 0..N
<1>1. /\ arg = payload /\ N = Len(payload) /\ N \in Nat
      /\ sink \in Seq(Byte) /\ payload \in Seq(Byte)
  BY PutFrame DEF Inv, TypeOK, CallTypes, DeviceTypes
<1>2. Len(Skip(arg, k)) = N - k
  BY <1>1, SliceType
<1>3. Take(arg, 0) = << >> /\ sink \o << >> = sink
  BY <1>1, SliceEnds, ConcatEmptySeq
<1>4. QED
  BY <1>1, <1>2, <1>3 DEF Moved

(* write past the buffer: what the device took is what is reported.        *)
LEMMA PutDirectStep == Inv /\ PutDirect => Inv'
<1> SUFFICES ASSUME Inv, PutDirect PROVE Inv'
  OBVIOUS
<1>1. /\ At("put") /\ N >= WCap /\ call = "write"
      /\ UNCHANGED << writer_buf, written, readerVars, synced, inVars >>
  BY PutFrame DEF PutDirect
<1>2. N \in Nat
  BY <1>1, PutFrame
<1>3. ASSUME NEW k \in 0..N, sink' = sink \o Take(arg, k), panicked' = FALSE,
             Return("ok", Moved(arg) + k)
      PROVE  Inv'
  BY <1>1, <1>3, MovedBy, DirectStep DEF Kinds
<1>4. ASSUME NEW kind \in {"err", "wpanic"}, Abandon(kind), panicked' \in BOOLEAN,
             UNCHANGED sink
      PROVE  Inv'
  <2>1. 0 \in 0..N /\ Return(kind, 0) /\ sink' = sink \o Take(arg, 0)
    BY <1>1, <1>2, <1>4, MovedBy DEF Abandon
  <2>2. kind \in Kinds
    BY DEF Kinds
  <2>3. QED
    BY <1>1, <1>4, <2>1, <2>2, DirectStep
<1>5. QED
  BY <1>3, <1>4 DEF PutDirect

(* write_all past the buffer: everything, or a prefix and an error.        *)
LEMMA PutAllDirectStep == Inv /\ PutAllDirect => Inv'
<1> SUFFICES ASSUME Inv, PutAllDirect PROVE Inv'
  OBVIOUS
<1>1. /\ At("put_all") /\ N >= WCap /\ call = "write_all" /\ Len(todo) = 1 /\ N \in Nat
      /\ UNCHANGED << writer_buf, written, readerVars, synced, inVars >>
  BY PutFrame DEF PutAllDirect
<1>2. ASSUME NEW k \in 0..N, NEW kind \in Kinds, sink' = sink \o Take(arg, k),
             panicked' \in BOOLEAN, Return(kind, Moved(Skip(arg, k)))
      PROVE  Inv'
  <2>1. Return(kind, k)
    BY <1>1, <1>2, MovedBy
  <2>2. QED
    BY <1>1, <1>2, <2>1, DirectStep
<1>3. CASE /\ sink' = sink \o Take(arg, N) /\ panicked' = FALSE
           /\ Proceed(Skip(arg, N))
  <2>1. N \in 0..N /\ "ok" \in Kinds /\ Return("ok", Moved(Skip(arg, N)))
    BY <1>1, <1>3 DEF Proceed, Kinds
  <2>2. QED
    BY <1>2, <1>3, <2>1
<1>4. ASSUME NEW k \in 0..N, NEW kind \in {"err", "wpanic"},
             sink' = sink \o Take(arg, k), panicked' = (kind = "wpanic"),
             Return(kind, Moved(Skip(arg, k)))
      PROVE  Inv'
  <2>1. kind \in Kinds /\ panicked' \in BOOLEAN
    BY <1>4 DEF Kinds
  <2>2. QED
    BY <1>2, <1>4, <2>1
<1>5. QED
  BY <1>3, <1>4 DEF PutAllDirect

-----------------------------------------------------------------------------
(* The read half.                                                          *)

(* What the device delivers is a byte string.                              *)
LEMMA ChunksType ==
  ASSUME NEW n \in Nat, NEW c \in Chunks(n)
  PROVE  c \in Seq(Byte) /\ Len(c) \in 0..n
<1>1. PICK k \in 0..n : c \in [1..k -> Byte]
  BY DEF Chunks
<1>2. QED
  BY <1>1

(* What a step of the read half leaves alone.                              *)
LEMMA ReadKeeps ==
  ASSUME Inv, UNCHANGED << writerVars, outVars >>, accepted' = accepted
  PROVE  /\ UNCHANGED << writer_buf, written, panicked, sink, synced >>
         /\ Accounted' /\ CapacityKept'
<1>1. UNCHANGED << writer_buf, written, panicked, sink, synced >>
  BY DEF writerVars, outVars
<1>2. QED
  BY <1>1 DEF Inv, Accounted, CapacityKept, Remaining

(* A read call returns: only the input side is left to account for.        *)
LEMMA ReadReturns ==
  ASSUME Inv, call \in ReadCalls, todo # << >>, ~At("flush_buf"),
         NEW kind \in Kinds, NEW n \in Nat, Return(kind, n),
         reader_buf' \in Seq(Byte), pos' \in 0..Len(reader_buf'),
         fetched' \in Seq(Byte), delivered' \in Seq(Byte), InConserved',
         UNCHANGED << writerVars, outVars >>
  PROVE  Inv'
<1>1. call # "idle" /\ call \notin WriteCalls /\ written = 0
      /\ accepted' = accepted
  BY DEF Inv, GuardAtRest, ReadCalls, WriteCalls, Return
<1>2. CallTypes' /\ Control' /\ Offered' /\ call' = "idle" /\ todo' = << >>
  BY <1>1, ReturnStep DEF Inv
<1>3. /\ UNCHANGED << writer_buf, written, panicked, sink, synced >>
      /\ Accounted' /\ CapacityKept'
  BY <1>1, ReadKeeps
<1>4. TypeOK'
  BY <1>2, <1>3 DEF Inv, TypeOK, BufferTypes, DeviceTypes
<1>5. GuardAtRest' /\ Fits' /\ Emptied'
  BY <1>1, <1>2, <1>3 DEF GuardAtRest, Fits, Emptied, At
<1>6. FlushReachesSink'
  BY DEF FlushReachesSink, Return, ReadCalls
<1>7. QED
  BY <1>2, <1>3, <1>4, <1>5, <1>6 DEF Inv

(* It goes on with another frame of the read half.                         *)
LEMMA ReadGoesOn ==
  ASSUME Inv, call \in ReadCalls, todo # << >>, ~At("flush_buf"), Emptied,
         At("read") \/ At("fill_buf") \/ At("until"),
         CallTypes', Control', Offered', todo' # << >>,
         Head(todo').op \in {"read", "fill_buf", "copy", "until"},
         UNCHANGED << open, call, result, accepted >>,
         reader_buf' \in Seq(Byte), pos' \in 0..Len(reader_buf'),
         fetched' \in Seq(Byte), delivered' \in Seq(Byte), InConserved',
         UNCHANGED << writerVars, outVars >>
  PROVE  Inv'
<1>1. /\ UNCHANGED << writer_buf, written, panicked, sink, synced >>
      /\ Accounted' /\ CapacityKept'
  BY ReadKeeps
<1>2. TypeOK'
  BY <1>1 DEF Inv, TypeOK, BufferTypes, DeviceTypes
<1>3. GuardAtRest' /\ Fits' /\ Emptied'
  BY <1>1 DEF Inv, GuardAtRest, Fits, Emptied, At
<1>4. FlushReachesSink'
  BY DEF FlushReachesSink, ReadCalls
<1>5. QED
  BY <1>1, <1>2, <1>3, <1>4 DEF Inv

(* With nothing unread, everything fetched has been handed over.           *)
LEMMA NothingUnread ==
  ASSUME Inv, pos >= Len(reader_buf)
  PROVE  /\ delivered = fetched
         /\ delivered \in Seq(Byte) /\ reader_buf \in Seq(Byte) /\ fetched \in Seq(Byte)
         /\ pos \in 0..Len(reader_buf)
<1>1. /\ reader_buf \in Seq(Byte) /\ Len(reader_buf) \in Nat /\ pos \in 0..Len(reader_buf)
      /\ delivered \in Seq(Byte) /\ fetched \in Seq(Byte)
  BY LenProperties DEF Inv, TypeOK, BufferTypes, DeviceTypes
<1>2. pos = Len(reader_buf)
  BY <1>1
<1>3. Unread = << >>
  BY <1>1, <1>2, SliceEnds DEF Unread
<1>4. delivered \o << >> = delivered
  BY <1>1, ConcatEmptySeq
<1>5. QED
  BY <1>1, <1>3, <1>4 DEF Inv, InConserved

(* A read past the buffer finds nothing unread and goes to the caller.     *)
LEMMA ReadDirectStep == Inv /\ ReadDirect => Inv'
<1> SUFFICES ASSUME Inv, ReadDirect PROVE Inv'
  OBVIOUS
<1>1. /\ At("read") /\ pos = Len(reader_buf) /\ reader_buf' = << >> /\ pos' = 0
      /\ UNCHANGED << writerVars, outVars >>
  BY DEF ReadDirect, Bypass
<1>2. /\ call = "read" /\ todo # << >> /\ ~At("flush_buf") /\ N \in Nat
  <2>1. call = "read" /\ \E n \in Nat : todo = << Do("read", n) >>
    BY <1>1, AtRead DEF Inv
  <2>2. N \in Nat
    BY <2>1 DEF N, Do
  <2>3. QED
    BY <1>1, <2>1, <2>2, Busy DEF Inv
<1>3. delivered = fetched /\ delivered \in Seq(Byte)
  BY <1>1, NothingUnread, LenProperties DEF Inv, TypeOK, BufferTypes
<1>4. reader_buf' \in Seq(Byte) /\ pos' \in 0..Len(reader_buf') /\ Unread' = << >>
  <2>1. << >> \in Seq(Byte) /\ Len(<< >>) = 0 /\ Skip(<< >>, 0) = << >>
    BY EmptySeq, SliceEnds
  <2>2. QED
    BY <1>1, <2>1 DEF Unread
<1>5. ASSUME NEW chunk \in Arrivals(N), fetched' = fetched \o chunk,
             delivered' = delivered \o chunk, Return("ok", Len(chunk))
      PROVE  Inv'
  <2>1. chunk \in Seq(Byte) /\ Len(chunk) \in Nat
    BY <1>2, ChunksType DEF Arrivals
  <2>2. fetched' \in Seq(Byte) /\ delivered' = fetched'
    BY <1>3, <1>5, <2>1, ConcatProperties
  <2>3. InConserved'
    BY <1>4, <2>2, ConcatEmptySeq DEF InConserved
  <2>4. "ok" \in Kinds /\ call \in ReadCalls
    BY <1>2 DEF Kinds, ReadCalls
  <2>5. QED
    BY <1>1, <1>2, <1>4, <1>5, <2>1, <2>2, <2>3, <2>4, ReadReturns
<1>6. ASSUME NEW kind \in {"err", "panic"}, Abandon(kind), UNCHANGED inVars
      PROVE  Inv'
  <2>1. fetched' = fetched /\ delivered' = fetched' /\ fetched' \in Seq(Byte)
    BY <1>3, <1>6 DEF inVars
  <2>2. InConserved'
    BY <1>4, <2>1, ConcatEmptySeq DEF InConserved
  <2>3. Return(kind, 0)
    BY <1>6, LenProperties DEF Abandon, Moved, Inv, Offered, TypeOK, CallTypes
  <2>4. kind \in Kinds /\ call \in ReadCalls
    BY <1>2 DEF Kinds, ReadCalls
  <2>5. QED
    BY <1>1, <1>2, <1>4, <2>1, <2>2, <2>3, <2>4, ReadReturns
<1>7. QED
  BY <1>5, <1>6 DEF ReadDirect

(* A small read is a fill_buf and a copy.                                  *)
LEMMA ReadBufferedStep == Inv /\ ReadBuffered => Inv'
<1> SUFFICES ASSUME Inv, ReadBuffered PROVE Inv'
  OBVIOUS
<1>1. /\ At("read") /\ Become(<< Do("fill_buf", 0), Do("copy", N) >>)
      /\ UNCHANGED << writerVars, readerVars, outVars, inVars >>
  BY DEF ReadBuffered
<1>2. call = "read" /\ ~At("flush_buf") /\ \E n \in Nat : todo = << Do("read", n) >>
  BY <1>1, AtRead, Busy DEF Inv
<1>3. PICK n \in Nat : todo = << Do("read", n) >>
  BY <1>2
<1>4. N = n
  BY <1>3 DEF N, Do
<1> DEFINE next == << Do("fill_buf", 0), Do("copy", n) >>
<1>5. next \in Seq([op : Ops, n : Nat])
  <2>1. Do("fill_buf", 0) \in [op : Ops, n : Nat] /\ Do("copy", n) \in [op : Ops, n : Nat]
    BY FrameType DEF Ops
  <2>2. QED
    BY <2>1
<1>6. /\ CallTypes' /\ Offered' /\ todo' = next
      /\ UNCHANGED << open, call, payload, arg, result, accepted >>
  BY <1>1, <1>3, <1>4, <1>5, BecomeStep DEF Inv
<1>7. todo' # << >> /\ LastN' = n /\ Head(todo').op = "fill_buf"
  BY <1>6 DEF LastN, Do
<1>8. Control'
  <2>1. todo' \in ReadStages(LastN')
    BY <1>6, <1>7 DEF ReadStages
  <2>2. QED
    BY <1>2, <1>6, <1>7, <2>1 DEF Control
<1>9. /\ InConserved' /\ reader_buf' \in Seq(Byte) /\ pos' \in 0..Len(reader_buf')
      /\ fetched' \in Seq(Byte) /\ delivered' \in Seq(Byte)
  BY <1>1 DEF Inv, InConserved, Unread, readerVars, inVars, TypeOK, BufferTypes,
              DeviceTypes
<1>10. QED
  BY <1>1, <1>2, <1>3, <1>6, <1>7, <1>8, <1>9, ReadGoesOn DEF Inv, ReadCalls

(* After fill_buf the caller gets the slice, or read and read_until go on. *)
LEMMA FillBufEnds ==
  ASSUME Inv, At("fill_buf"), Proceed(arg), UNCHANGED << writerVars, outVars >>,
         reader_buf' \in Seq(Byte), pos' \in 0..Len(reader_buf'),
         fetched' \in Seq(Byte), delivered' \in Seq(Byte), InConserved'
  PROVE  Inv'
<1>1. call # "idle" /\ todo # << >> /\ ~At("flush_buf")
  BY Busy DEF Inv
<1>2. CASE call = "fill_buf" /\ Len(todo) = 1
  <2>1. Return("ok", 0)
    BY <1>2, LenProperties DEF Proceed, Moved, Inv, Offered, TypeOK, CallTypes
  <2>2. "ok" \in Kinds /\ call \in ReadCalls
    BY <1>2 DEF Kinds, ReadCalls
  <2>3. QED
    BY <1>1, <2>1, <2>2, ReadReturns
<1>3. ASSUME NEW n \in Nat, Len(todo) = 2,
             \/ call = "read" /\ Tail(todo) = << Do("copy", n) >>
             \/ call = "read_until" /\ Tail(todo) = << Do("until", n) >>
      PROVE  Inv'
  <2>1. /\ CallTypes' /\ Offered' /\ todo' = Tail(todo) /\ call' = call
        /\ UNCHANGED << open, call, result, accepted >>
    BY <1>1, <1>3, ProceedStep DEF Inv
  <2>2. PICK op \in {"copy", "until"} : todo' = << Do(op, n) >>
    BY <1>3, <2>1
  <2>3. todo' # << >> /\ LastN' = n /\ Head(todo').op \in {"copy", "until"}
    BY <2>2 DEF LastN, Do
  <2>4. Control'
    <3>1. CASE call = "read" /\ Tail(todo) = << Do("copy", n) >>
      <4>1. todo' \in ReadStages(LastN')
        BY <2>1, <2>3, <3>1 DEF ReadStages
      <4>2. QED
        BY <2>1, <2>3, <3>1, <4>1 DEF Control
    <3>2. CASE call = "read_until" /\ Tail(todo) = << Do("until", n) >>
      <4>1. todo' \in UntilStages(LastN')
        BY <2>1, <2>3, <3>2 DEF UntilStages
      <4>2. QED
        BY <2>1, <2>3, <3>2, <4>1 DEF Control
    <3>3. QED
      BY <1>3, <3>1, <3>2
  <2>5. call \in ReadCalls
    BY <1>3 DEF ReadCalls
  <2>6. QED
    BY <1>1, <2>1, <2>3, <2>4, <2>5, ReadGoesOn DEF Inv
<1>4. QED
  BY <1>2, <1>3, AtFillBuf DEF Inv

(* fill_buf replaces the buffer only when nothing is unread.               *)
LEMMA FillBufStep == Inv /\ FillBuf => Inv'
<1> SUFFICES ASSUME Inv, FillBuf PROVE Inv'
  OBVIOUS
<1>1. At("fill_buf") /\ UNCHANGED << writerVars, outVars >>
  BY DEF FillBuf
<1>2. CASE Proceed(arg) /\ UNCHANGED << readerVars, inVars >>
  <2>1. /\ InConserved' /\ reader_buf' \in Seq(Byte) /\ pos' \in 0..Len(reader_buf')
        /\ fetched' \in Seq(Byte) /\ delivered' \in Seq(Byte)
    BY <1>2 DEF Inv, InConserved, Unread, readerVars, inVars, TypeOK, BufferTypes,
                DeviceTypes
  <2>2. QED
    BY <1>1, <1>2, <2>1, FillBufEnds
<1>3. ASSUME NEW chunk \in Arrivals(RCap), pos >= Len(reader_buf), reader_buf' = chunk,
             pos' = 0, fetched' = fetched \o chunk, Proceed(arg), UNCHANGED delivered
      PROVE  Inv'
  <2>1. chunk \in Seq(Byte) /\ Len(chunk) \in Nat
    BY CapacityAssumption, ChunksType DEF Arrivals
  <2>2. delivered = fetched /\ fetched \in Seq(Byte)
    BY <1>3, NothingUnread
  <2>3. fetched' \in Seq(Byte)
    BY <1>3, <2>1, <2>2, ConcatProperties
  <2>4. Unread' = chunk
    BY <1>3, <2>1, SliceEnds DEF Unread
  <2>5. InConserved'
    BY <1>3, <2>2, <2>4 DEF InConserved
  <2>6. /\ reader_buf' \in Seq(Byte) /\ pos' \in 0..Len(reader_buf')
        /\ delivered' \in Seq(Byte)
    BY <1>3, <2>1, <2>2
  <2>7. QED
    BY <1>1, <1>3, <2>3, <2>5, <2>6, FillBufEnds
<1>4. ASSUME NEW kind \in {"err", "panic"}, Abandon(kind),
             UNCHANGED << readerVars, inVars >>
      PROVE  Inv'
  <2>1. /\ InConserved' /\ reader_buf' \in Seq(Byte) /\ pos' \in 0..Len(reader_buf')
        /\ fetched' \in Seq(Byte) /\ delivered' \in Seq(Byte)
    BY <1>4 DEF Inv, InConserved, Unread, readerVars, inVars, TypeOK, BufferTypes,
                DeviceTypes
  <2>2. call \in ReadCalls /\ todo # << >> /\ ~At("flush_buf")
    BY <1>1, AtFillBuf, Busy DEF Inv, ReadCalls
  <2>3. Return(kind, 0)
    BY <1>4, LenProperties DEF Abandon, Moved, Inv, Offered, TypeOK, CallTypes
  <2>4. kind \in Kinds
    BY DEF Kinds
  <2>5. QED
    BY <1>1, <2>1, <2>2, <2>3, <2>4, ReadReturns
<1>5. QED
  BY <1>2, <1>3, <1>4 DEF FillBuf

(* consume moves bytes from the front of the unread ones to the caller.    *)
LEMMA DeliverStep ==
  ASSUME Inv, NEW k \in 0..Len(Unread), Deliver(k)
  PROVE  /\ InConserved' /\ reader_buf' \in Seq(Byte) /\ pos' \in 0..Len(reader_buf')
         /\ fetched' \in Seq(Byte) /\ delivered' \in Seq(Byte)
<1>1. /\ reader_buf \in Seq(Byte) /\ Len(reader_buf) \in Nat /\ pos \in 0..Len(reader_buf)
      /\ delivered \in Seq(Byte) /\ fetched \in Seq(Byte)
      /\ k \in 0..Len(reader_buf) - pos /\ Unread \in Seq(Byte)
  BY RemainingType DEF Inv, TypeOK, BufferTypes, DeviceTypes
<1>2. Take(Unread, k) \in Seq(Byte)
  BY <1>1, SliceType
<1>3. delivered' \in Seq(Byte)
  BY <1>1, <1>2, ConcatProperties DEF Deliver
<1>4. pos' \in 0..Len(reader_buf)
  BY <1>1 DEF Deliver
<1>5. (delivered \o Take(Skip(reader_buf, pos), k)) \o Skip(reader_buf, pos + k)
        = delivered \o Skip(reader_buf, pos)
  BY <1>1, SliceMove
<1>6. InConserved'
  BY <1>5 DEF Inv, InConserved, Unread, Deliver
<1>7. QED
  BY <1>1, <1>3, <1>4, <1>6 DEF Deliver

(* A read takes at most what is unread.                                    *)
LEMMA CopyStep == Inv /\ Copy => Inv'
<1> SUFFICES ASSUME Inv, Copy PROVE Inv'
  OBVIOUS
<1> DEFINE k == Least(N, Len(Unread))
<1>1. At("copy") /\ Deliver(k) /\ Return("ok", k) /\ UNCHANGED << writerVars, outVars >>
  BY DEF Copy
<1>2. call = "read" /\ todo # << >> /\ ~At("flush_buf") /\ N \in Nat
  <2>1. call = "read" /\ \E n \in Nat : todo = << Do("copy", n) >>
    BY <1>1, AtRead DEF Inv
  <2>2. N \in Nat
    BY <2>1 DEF N, Do
  <2>3. QED
    BY <1>1, <2>1, <2>2, Busy DEF Inv
<1>3. k \in 0..Len(Unread) /\ k \in Nat
  BY <1>2, RemainingType, LenProperties DEF Inv, Least
<1>4. "ok" \in Kinds /\ call \in ReadCalls
  BY <1>2 DEF Kinds, ReadCalls
<1> HIDE DEF k
<1>5. QED
  BY <1>1, <1>2, <1>3, <1>4, DeliverStep, ReadReturns

(* Each turn of read_until hands over a prefix of what is unread.          *)
LEMMA ReadUntilStep == Inv /\ ReadUntil => Inv'
<1> SUFFICES ASSUME Inv, ReadUntil PROVE Inv'
  OBVIOUS
<1>1. At("until") /\ UNCHANGED << writerVars, outVars >>
  BY DEF ReadUntil
<1>2. PICK n \in Nat : todo = << Do("until", n) >>
  BY <1>1, AtRead DEF Inv
<1>3. /\ call = "read_until" /\ todo # << >> /\ ~At("flush_buf") /\ N = n
      /\ Unread \in Seq(Byte) /\ Len(Unread) \in Nat
  <2>1. N = n
    BY <1>2 DEF N, Do
  <2>2. QED
    BY <1>1, <2>1, AtRead, Busy, RemainingType, LenProperties DEF Inv
<1>4. call \in ReadCalls
  BY <1>3 DEF ReadCalls
<1>5. ASSUME NEW k \in 0..Len(Unread), Deliver(k), Return("ok", N + k) PROVE Inv'
  <2>1. "ok" \in Kinds /\ N + k \in Nat
    BY <1>3 DEF Kinds
  <2>2. QED
    BY <1>1, <1>3, <1>4, <1>5, <2>1, DeliverStep, ReadReturns
<1>6. CASE Unread = << >> /\ Deliver(0) /\ Return("ok", N)
  BY <1>3, <1>5, <1>6
<1>7. CASE /\ Deliver(Len(Unread))
           /\ Become(<< Do("fill_buf", 0), Do("until", N + Len(Unread)) >>)
  <2> DEFINE m == n + Len(Unread)  next == << Do("fill_buf", 0), Do("until", m) >>
  <2>1. m \in Nat
    BY <1>3
  <2> HIDE DEF m
  <2>2. next \in Seq([op : Ops, n : Nat])
    <3>1. Do("fill_buf", 0) \in [op : Ops, n : Nat] /\ Do("until", m) \in [op : Ops, n : Nat]
      BY <2>1, FrameType DEF Ops
    <3>2. QED
      BY <3>1
  <2>3. Become(next)
    BY <1>3, <1>7 DEF m
  <2>4. /\ CallTypes' /\ Offered' /\ todo' = next
        /\ UNCHANGED << open, call, payload, arg, result, accepted >>
    BY <1>2, <2>2, <2>3, BecomeStep DEF Inv
  <2>5. todo' # << >> /\ LastN' = m /\ Head(todo').op = "fill_buf"
    BY <2>4 DEF LastN, Do
  <2>6. Control'
    <3>1. todo' \in UntilStages(LastN')
      BY <2>4, <2>5 DEF UntilStages
    <3>2. QED
      BY <1>3, <2>4, <2>5, <3>1 DEF Control
  <2>7. /\ InConserved' /\ reader_buf' \in Seq(Byte) /\ pos' \in 0..Len(reader_buf')
        /\ fetched' \in Seq(Byte) /\ delivered' \in Seq(Byte)
    BY <1>3, <1>7, DeliverStep
  <2>8. QED
    BY <1>1, <1>3, <1>4, <2>4, <2>5, <2>6, <2>7, ReadGoesOn DEF Inv
<1>8. QED
  BY <1>3, <1>5, <1>6, <1>7 DEF ReadUntil

-----------------------------------------------------------------------------
(* The public calls.                                                       *)

(* A public call starts with its frames and disturbs neither buffer.       *)
LEMMA EnterStep ==
  ASSUME Inv, NEW name \in PublicCalls,
         NEW frames \in Seq([op : Ops, n : Nat]), NEW data \in Seq(Byte),
         name \notin WriteCalls => data = << >>,
         Enter(name, frames, data), Control', frames # << >>,
         \/ Head(frames).op \in {"flush_buf", "write", "write_all"}
         \/ name = "fill_buf" /\ Head(frames).op = "fill_buf"
  PROVE  Inv'
<1>1. /\ call = "idle" /\ call' = name /\ todo' = frames /\ payload' = data /\ arg' = data
      /\ UNCHANGED << open, result, accepted >>
      /\ UNCHANGED << writer_buf, written, panicked, reader_buf, pos, sink, synced,
                      fetched, delivered >>
  BY DEF Enter, writerVars, readerVars, outVars, inVars
<1>2. written = 0 /\ name # "idle"
  BY <1>1 DEF Inv, Control, GuardAtRest, At, WriteCalls, PublicCalls, ReadCalls
<1>3. TypeOK' /\ Offered'
  BY <1>1 DEF Inv, TypeOK, BufferTypes, CallTypes, DeviceTypes, Offered
<1>4. GuardAtRest' /\ Fits' /\ Emptied'
  BY <1>1, <1>2 DEF GuardAtRest, Fits, Emptied, At
<1>5. Accounted' /\ CapacityKept' /\ InConserved' /\ FlushReachesSink'
  BY <1>1, <1>2 DEF Inv, Accounted, CapacityKept, InConserved, FlushReachesSink,
                    Remaining, Unread
<1>6. QED
  BY <1>3, <1>4, <1>5 DEF Inv

(* write, write_vectored and write_all start.                              *)
LEMMA CallWriteStep == Inv /\ CallWrite => Inv'
<1> SUFFICES ASSUME Inv, CallWrite PROVE Inv'
  OBVIOUS
<1>1. PICK p \in Offers, name \in WriteCalls : Enter(name, << Do(name, Len(p)) >>, p)
  BY DEF CallWrite
<1>2. p \in Seq(Byte) /\ Len(p) \in Nat
  BY BoundAssumption, ChunksType DEF Offers
<1> DEFINE frames == << Do(name, Len(p)) >>
<1>3. frames \in Seq([op : Ops, n : Nat]) /\ frames # << >> /\ Head(frames).op = name
  <2>1. name \in Ops
    BY DEF Ops, WriteCalls
  <2>2. Do(name, Len(p)) \in [op : Ops, n : Nat]
    BY <1>2, <2>1, FrameType
  <2>3. QED
    BY <2>2 DEF Do
<1>4. Control'
  <2>1. call' = name /\ todo' = frames /\ payload' = p
    BY <1>1 DEF Enter
  <2>2. todo' \in WriteStages(call', Len(payload'))
    BY <2>1 DEF WriteStages
  <2>3. QED
    BY <2>1, <2>2 DEF Control
<1>5. name \in PublicCalls /\ Head(frames).op \in {"write", "write_all"}
  BY <1>3 DEF PublicCalls, WriteCalls
<1>6. QED
  BY <1>1, <1>2, <1>3, <1>4, <1>5, EnterStep

(* flush starts.                                                           *)
LEMMA CallFlushStep == Inv /\ CallFlush => Inv'
<1> SUFFICES ASSUME Inv, CallFlush PROVE Inv'
  OBVIOUS
<1> DEFINE frames == << Do("flush_buf", 0), Do("inner_flush", 0) >>
<1>1. Enter("flush", frames, << >>)
  BY DEF CallFlush, FlushFrames
<1>2. frames \in Seq([op : Ops, n : Nat]) /\ frames # << >>
      /\ Head(frames).op = "flush_buf"
  <2>1. Do("flush_buf", 0) \in [op : Ops, n : Nat]
        /\ Do("inner_flush", 0) \in [op : Ops, n : Nat]
    BY FrameType DEF Ops
  <2>2. QED
    BY <2>1 DEF Do
<1>3. Control'
  <2>1. call' = "flush" /\ todo' \in FlushStages
    BY <1>1 DEF Enter, FlushStages
  <2>2. QED
    BY <2>1 DEF Control
<1>4. << >> \in Seq(Byte) /\ "flush" \in PublicCalls
  BY EmptySeq DEF PublicCalls
<1>5. QED
  BY <1>1, <1>2, <1>3, <1>4, EnterStep

(* read starts with a flush.                                               *)
LEMMA CallReadStep == Inv /\ CallRead => Inv'
<1> SUFFICES ASSUME Inv, CallRead PROVE Inv'
  OBVIOUS
<1>1. PICK n \in 0..MaxArg : Enter("read", Append(FlushFrames, Do("read", n)), << >>)
  BY DEF CallRead
<1> DEFINE frames == << Do("flush_buf", 0), Do("inner_flush", 0), Do("read", n) >>
<1>2. Enter("read", frames, << >>)
  BY <1>1, FrameAppend DEF FlushFrames
<1>3. n \in Nat
  BY BoundAssumption
<1>4. frames \in Seq([op : Ops, n : Nat]) /\ frames # << >>
      /\ Head(frames).op = "flush_buf"
  <2>1. /\ Do("flush_buf", 0) \in [op : Ops, n : Nat]
        /\ Do("inner_flush", 0) \in [op : Ops, n : Nat]
        /\ Do("read", n) \in [op : Ops, n : Nat]
    BY <1>3, FrameType DEF Ops
  <2>2. QED
    BY <2>1 DEF Do
<1>5. Control'
  <2>1. call' = "read" /\ todo' = frames
    BY <1>2 DEF Enter
  <2>2. LastN' = n /\ todo' # << >>
    BY <2>1 DEF LastN, Do
  <2>3. todo' \in ReadStages(LastN')
    BY <2>1, <2>2 DEF ReadStages
  <2>4. QED
    BY <2>1, <2>2, <2>3 DEF Control
<1>6. << >> \in Seq(Byte) /\ "read" \in PublicCalls
  BY EmptySeq DEF PublicCalls, ReadCalls
<1>7. QED
  BY <1>2, <1>4, <1>5, <1>6, EnterStep

(* read_until starts with a flush.                                         *)
LEMMA CallReadUntilStep == Inv /\ CallReadUntil => Inv'
<1> SUFFICES ASSUME Inv, CallReadUntil PROVE Inv'
  OBVIOUS
<1> DEFINE frames == << Do("flush_buf", 0), Do("inner_flush", 0),
                        Do("fill_buf", 0), Do("until", 0) >>
<1>1. Enter("read_until", frames, << >>)
  BY FrameConcat DEF CallReadUntil, FlushFrames
<1>2. frames \in Seq([op : Ops, n : Nat]) /\ frames # << >>
      /\ Head(frames).op = "flush_buf"
  <2>1. /\ Do("flush_buf", 0) \in [op : Ops, n : Nat]
        /\ Do("inner_flush", 0) \in [op : Ops, n : Nat]
        /\ Do("fill_buf", 0) \in [op : Ops, n : Nat]
        /\ Do("until", 0) \in [op : Ops, n : Nat]
    BY FrameType DEF Ops
  <2>2. QED
    BY <2>1 DEF Do
<1>3. Control'
  <2>1. call' = "read_until" /\ todo' = frames
    BY <1>1 DEF Enter
  <2>2. LastN' = 0 /\ todo' # << >>
    BY <2>1 DEF LastN, Do
  <2>3. todo' \in UntilStages(LastN')
    BY <2>1, <2>2 DEF UntilStages
  <2>4. QED
    BY <2>1, <2>2, <2>3 DEF Control
<1>4. << >> \in Seq(Byte) /\ "read_until" \in PublicCalls
  BY EmptySeq DEF PublicCalls, ReadCalls
<1>5. QED
  BY <1>1, <1>2, <1>3, <1>4, EnterStep

(* fill_buf, into_inner and a drop that flushes have one frame.            *)
LEMMA OneFrameStep ==
  ASSUME Inv, NEW name \in {"fill_buf", "into_inner", "drop"},
         Enter(name, << Do(IF name = "fill_buf" THEN name ELSE "flush_buf", 0) >>, << >>)
  PROVE  Inv'
<1> DEFINE op == IF name = "fill_buf" THEN name ELSE "flush_buf"
           frames == << Do(op, 0) >>
<1>1. frames \in Seq([op : Ops, n : Nat]) /\ frames # << >> /\ Head(frames).op = op
  <2>1. Do(op, 0) \in [op : Ops, n : Nat]
    BY FrameType DEF Ops
  <2>2. QED
    BY <2>1 DEF Do
<1>2. Control'
  BY DEF Enter, Control
<1>3. << >> \in Seq(Byte) /\ name \in PublicCalls
  BY EmptySeq DEF PublicCalls, ReadCalls
<1>4. QED
  BY <1>1, <1>2, <1>3, EnterStep

(* consume stops at the end of what is unread.                             *)
LEMMA CallConsumeStep == Inv /\ CallConsume => Inv'
<1> SUFFICES ASSUME Inv, CallConsume PROVE Inv'
  OBVIOUS
<1>1. PICK amt \in 1..MaxArg : Deliver(Least(amt, Len(Unread)))
  BY DEF CallConsume
<1>2. /\ call = "idle"
      /\ UNCHANGED << open, call, todo, payload, arg, accepted, writer_buf, written,
                      panicked, sink, synced >>
      /\ result' = [of |-> "consume", kind |-> "ok", n |-> 0]
  BY DEF CallConsume, writerVars, outVars
<1>3. Least(amt, Len(Unread)) \in 0..Len(Unread)
  BY BoundAssumption, RemainingType, LenProperties DEF Inv, Least
<1>4. /\ InConserved' /\ reader_buf' \in Seq(Byte) /\ pos' \in 0..Len(reader_buf')
      /\ fetched' \in Seq(Byte) /\ delivered' \in Seq(Byte)
  BY <1>1, <1>3, DeliverStep
<1>5. TypeOK'
  <2>1. result' \in [of : PublicCalls \cup {"new"}, n : Nat,
                     kind : {"ok", "err", "wpanic", "panic", "skipped"}]
    BY <1>2 DEF PublicCalls, ReadCalls
  <2>2. QED
    BY <1>2, <1>4, <2>1 DEF Inv, TypeOK, BufferTypes, CallTypes, DeviceTypes
<1>6. Control' /\ Offered' /\ GuardAtRest' /\ Fits' /\ Emptied'
  BY <1>2 DEF Inv, Control, Offered, GuardAtRest, Fits, Emptied, At, LastN, N
<1>7. Accounted' /\ CapacityKept' /\ FlushReachesSink'
  BY <1>2 DEF Inv, Accounted, CapacityKept, FlushReachesSink, Remaining
<1>8. QED
  BY <1>4, <1>5, <1>6, <1>7 DEF Inv

(* drop flushes, or skips that after a panic and reports no success.       *)
LEMMA CallDropStep == Inv /\ CallDrop => Inv'
<1> SUFFICES ASSUME Inv, CallDrop PROVE Inv'
  OBVIOUS
<1>1. CASE Enter("drop", << Do("flush_buf", 0) >>, << >>)
  BY <1>1, OneFrameStep
<1>2. CASE /\ open' = FALSE
           /\ result' = [of |-> "drop", kind |-> "skipped", n |-> 0]
           /\ UNCHANGED << call, todo, payload, arg, accepted, writerVars,
                           readerVars, outVars, inVars >>
  <2>1. UNCHANGED << call, todo, payload, arg, accepted, writer_buf, written, panicked,
                     reader_buf, pos, sink, synced, fetched, delivered >>
    BY <1>2 DEF writerVars, readerVars, outVars, inVars
  <2>2. result' \in [of : PublicCalls \cup {"new"}, n : Nat,
                     kind : {"ok", "err", "wpanic", "panic", "skipped"}]
    BY <1>2 DEF PublicCalls
  <2>3. TypeOK'
    BY <1>2, <2>1, <2>2 DEF Inv, TypeOK, BufferTypes, CallTypes, DeviceTypes
  <2>4. Control' /\ Offered' /\ GuardAtRest' /\ Fits' /\ Emptied'
    BY <2>1 DEF Inv, Control, Offered, GuardAtRest, Fits, Emptied, At, LastN, N
  <2>5. Accounted' /\ CapacityKept' /\ InConserved' /\ FlushReachesSink'
    BY <1>2, <2>1 DEF Inv, Accounted, CapacityKept, InConserved, FlushReachesSink,
                      Remaining, Unread
  <2>6. QED
    BY <2>3, <2>4, <2>5 DEF Inv
<1>3. QED
  BY <1>1, <1>2 DEF CallDrop

(* A step that changes nothing keeps the invariant.                        *)
LEMMA StutterStep == Inv /\ UNCHANGED vars => Inv'
<1> SUFFICES ASSUME Inv, UNCHANGED vars PROVE Inv'
  OBVIOUS
<1>1. UNCHANGED << writer_buf, written, panicked, reader_buf, pos, open, call, todo,
                   payload, arg, result, accepted, sink, synced, fetched, delivered >>
  BY DEF vars, writerVars, readerVars, callVars, outVars, inVars
<1>2. TypeOK'
  BY <1>1 DEF Inv, TypeOK, BufferTypes, CallTypes, DeviceTypes
<1>3. Control' /\ Offered' /\ GuardAtRest' /\ Fits' /\ Emptied'
  BY <1>1 DEF Inv, Control, Offered, GuardAtRest, Fits, Emptied, At, LastN, N
<1>4. Accounted' /\ CapacityKept' /\ InConserved' /\ FlushReachesSink'
  BY <1>1 DEF Inv, Accounted, CapacityKept, InConserved, FlushReachesSink,
              Remaining, Unread
<1>5. QED
  BY <1>2, <1>3, <1>4 DEF Inv

-----------------------------------------------------------------------------
(* The invariant and what follows from it.                                 *)

(* A new object satisfies the invariant.                                   *)
LEMMA InitInv == Init => Inv
<1> SUFFICES ASSUME Init PROVE Inv
  OBVIOUS
<1>1. << >> \in Seq(Byte) /\ << >> \in Seq([op : Ops, n : Nat]) /\ Len(<< >>) = 0
  BY EmptySeq
<1>2. TypeOK
  <2>1. result \in [of : PublicCalls \cup {"new"}, n : Nat,
                    kind : {"ok", "err", "wpanic", "panic", "skipped"}]
    BY DEF Init
  <2>2. CallTypes
    BY <1>1, <2>1 DEF Init, CallTypes
  <2>3. BufferTypes /\ DeviceTypes
    <3>1. 0 \in 0..Len(<< >>)
      BY <1>1
    <3>2. QED
      BY <1>1, <3>1 DEF Init, BufferTypes, DeviceTypes
  <2>4. QED
    BY <2>2, <2>3 DEF TypeOK
<1>3. Control /\ Offered /\ GuardAtRest /\ Fits /\ Emptied
  BY DEF Init, Control, Offered, GuardAtRest, Fits, Emptied, At
<1>4. Remaining = << >> /\ Unread = << >>
  BY <1>1, SliceEnds DEF Init, Remaining, Unread
<1>5. Accounted /\ InConserved
  BY <1>1, <1>4, ConcatEmptySeq DEF Init, Accounted, InConserved
<1>6. CapacityKept /\ FlushReachesSink
  BY <1>1, CapacityAssumption DEF Init, CapacityKept, FlushReachesSink
<1>7. QED
  BY <1>2, <1>3, <1>5, <1>6 DEF Inv

(* Every step keeps the invariant.                                         *)
LEMMA NextInv == Inv /\ [Next]_vars => Inv'
<1> SUFFICES ASSUME Inv, [Next]_vars PROVE Inv'
  OBVIOUS
<1>1. CASE CallWrite
  BY <1>1, CallWriteStep
<1>2. CASE CallCommon
  <2>1. CASE CallFillBuf \/ CallIntoInner
    BY <2>1, OneFrameStep DEF CallFillBuf, CallIntoInner
  <2>2. QED
    BY <1>2, <2>1, CallFlushStep, CallReadStep, CallReadUntilStep, CallConsumeStep,
       CallDropStep DEF CallCommon
<1>3. CASE FlushBuf
  BY <1>3, FlushWriteStep, FlushInterruptedStep, FlushFailStep, FlushDoneStep
     DEF FlushBuf
<1>4. CASE InnerFlush
  BY <1>4, InnerFlushStep
<1>5. CASE Write
  BY <1>5, MakeRoomStep, BufferStep, PutDirectStep, PutAllDirectStep DEF Write
<1>6. CASE Read
  BY <1>6, ReadDirectStep, ReadBufferedStep, FillBufStep, CopyStep, ReadUntilStep
     DEF Read
<1>7. CASE Closed \/ UNCHANGED vars
  BY <1>7, StutterStep DEF Closed
<1>8. QED
  BY <1>1, <1>2, <1>3, <1>4, <1>5, <1>6, <1>7 DEF Next, Step

(* The invariant is inductive: it holds in every state of every behaviour. *)
THEOREM Invariant == Spec => []Inv
<1>1. QED
  BY InitInv, NextInv, PTL DEF Spec

(* Every variable keeps its type, and the slices of flush_buf and of the   *)
(* read buffer stay in bounds.                                             *)
THEOREM TypeCorrect == Spec => []TypeOK
<1>1. Inv => TypeOK
  BY DEF Inv
<1>2. QED
  BY <1>1, Invariant, PTL

(* The write half: no byte reported as written is lost, repeated or        *)
(* reordered, whatever inner.write and inner.flush answer.                 *)
THEOREM OutConservedCorrect == Spec => []OutConserved
<1>1. Inv => OutConserved
  BY DEF Inv, Accounted, Offered, OutConserved
<1>2. QED
  BY <1>1, Invariant, PTL

(* The read half: what the device delivered is what the caller received    *)
(* and what is still unread.                                               *)
THEOREM InConservedCorrect == Spec => []InConserved
<1>1. Inv => InConserved
  BY DEF Inv
<1>2. QED
  BY <1>1, Invariant, PTL

(* The write buffer never grows past its configured capacity.              *)
THEOREM CapacityKeptCorrect == Spec => []CapacityKept
<1>1. Inv => CapacityKept
  BY DEF Inv
<1>2. QED
  BY <1>1, Invariant, PTL

(* A successful flush, into_inner or drop has put every accepted byte on   *)
(* the device.                                                             *)
THEOREM FlushReachesSinkCorrect == Spec => []FlushReachesSink
<1>1. Inv => FlushReachesSink
  BY DEF Inv
<1>2. QED
  BY <1>1, Invariant, PTL

(* read, read_until and read_line ask the device for input only once it    *)
(* has and has flushed everything the caller wrote.                        *)
THEOREM FlushedBeforeReadCorrect == Spec => FlushedBeforeRead
<1>1. ASSUME Inv, [Next]_vars, call \in {"read", "read_until"}, fetched' # fetched
      PROVE  sink = accepted /\ synced = Len(sink)
  <2>1. ReadDirect \/ FillBuf
    BY <1>1 DEF Next, CallWrite, CallCommon, Closed, Step, FlushBuf, Write, Read,
       CallFlush, CallRead, CallReadUntil, CallFillBuf, CallConsume, CallIntoInner,
       CallDrop, Enter, FlushWrite, FlushInterrupted, FlushFail, FlushPanic,
       FlushDone, InnerFlush, MakeRoom, Buffer, PutDirect, PutAllDirect,
       ReadBuffered, Copy, ReadUntil, Deliver, vars, inVars
  <2>2. At("read") \/ At("fill_buf")
    BY <2>1 DEF ReadDirect, FillBuf
  <2>3. writer_buf = << >> /\ synced = Len(sink)
    BY <1>1, <2>2 DEF Inv, Emptied
  <2>4. ~At("flush_buf")
    BY <1>1, <2>2, Busy DEF Inv
  <2>5. written = 0
    BY <1>1, <2>4 DEF Inv, GuardAtRest
  <2>6. Remaining = << >> /\ sink \o << >> = sink
    BY <1>1, <2>3, <2>5, SliceEnds, ConcatEmptySeq
       DEF Remaining, Inv, TypeOK, BufferTypes, DeviceTypes
  <2>7. QED
    BY <1>1, <2>3, <2>6 DEF Inv, Accounted
<1>2. Inv /\ [Next]_vars =>
        [(call \in {"read", "read_until"} /\ fetched' # fetched)
           => (sink = accepted /\ synced = Len(sink))]_vars
  BY <1>1
<1>3. QED
  BY <1>2, Invariant, PTL DEF Spec, FlushedBeforeRead

-----------------------------------------------------------------------------
(* The destructor and the panic before it.                                 *)

(* A step that keeps what the last call returned while another is running, *)
(* and a call that returns, keep Heeded.                                   *)
LEMMA HeededReturn ==
  ASSUME Heeded, call # "idle",
         \/ UNCHANGED << call, result >>
         \/ \E n : Proceed(n)
         \/ \E kind, n : Return(kind, n) /\ (kind = "wpanic" => panicked')
         \/ \E kind : Abandon(kind) /\ (kind = "wpanic" => panicked')
  PROVE  Heeded'
<1>1. CASE UNCHANGED << call, result >>
  BY <1>1 DEF Heeded
<1>2. ASSUME NEW kind, NEW n, Return(kind, n), kind = "wpanic" => panicked'
      PROVE  Heeded'
  BY <1>2 DEF Return, Heeded
<1>3. CASE \E n : Proceed(n)
  BY <1>1, <1>2, <1>3 DEF Proceed
<1>4. QED
  BY <1>1, <1>2, <1>3 DEF Abandon

(* Every step keeps Heeded.                                                *)
LEMMA HeededNext ==
  ASSUME Inv, Heeded, [Next]_vars
  PROVE  Heeded'
<1>1. CASE FlushBuf
  <2>1. call # "idle"
    BY <1>1, Busy DEF FlushBuf, FlushWrite, FlushInterrupted, FlushFail, FlushPanic,
       FlushDone, Flushing, Inv
  <2>2. CASE FlushPanic
    BY <2>1, <2>2, HeededReturn DEF FlushPanic
  <2>3. CASE FlushFail
    BY <2>1, <2>3, HeededReturn DEF FlushFail
  <2>4. QED
    BY <1>1, <2>1, <2>2, <2>3, HeededReturn DEF FlushBuf, FlushWrite, FlushInterrupted,
       FlushDone, callVars
<1>2. CASE InnerFlush
  <2>1. call # "idle"
    BY <1>2, Busy DEF InnerFlush, Inv
  <2>2. Proceed(arg) \/ \E kind \in {"err", "panic"} : Abandon(kind)
    BY <1>2 DEF InnerFlush
  <2>3. QED
    BY <2>1, <2>2, HeededReturn
<1>3. CASE Write
  <2>1. call # "idle"
    BY <1>3, Busy DEF Write, MakeRoom, Buffer, PutDirect, PutAllDirect, Inv
  <2>2. CASE MakeRoom \/ Buffer
    BY <2>1, <2>2, HeededReturn DEF MakeRoom, Buffer, Become
  <2>3. CASE PutDirect
    <3>1. CASE \E k \in 0..N : Return("ok", Moved(arg) + k)
      BY <2>1, <3>1, HeededReturn
    <3>2. CASE Abandon("err")
      BY <2>1, <3>2, HeededReturn
    <3>3. CASE Abandon("wpanic") /\ panicked' = TRUE /\ UNCHANGED sink
      BY <2>1, <3>3, HeededReturn
    <3>4. QED
      BY <2>3, <3>1, <3>2, <3>3, Zenon DEF PutDirect
  <2>4. CASE PutAllDirect
    <3>1. \/ Proceed(Skip(arg, N))
          \/ \E k, kind : Return(kind, k) /\ panicked' = (kind = "wpanic")
      BY <2>4 DEF PutAllDirect
    <3>2. QED
      BY <2>1, <3>1, HeededReturn
  <2>5. QED
    BY <1>3, <2>2, <2>3, <2>4 DEF Write
<1>4. CASE Read
  <2>1. call # "idle"
    BY <1>4, Busy DEF Read, ReadDirect, ReadBuffered, FillBuf, Copy, ReadUntil, Inv
  <2>2. \/ UNCHANGED << call, result >> \/ Proceed(arg)
        \/ \E kind \in {"err", "panic"} : Abandon(kind)
        \/ \E n : Return("ok", n)
    BY <1>4 DEF Read, ReadDirect, ReadBuffered, FillBuf, Copy, ReadUntil, Become
  <2>3. QED
    BY <2>1, <2>2, HeededReturn
<1>5. ASSUME NEW name, NEW frames, NEW data, Enter(name, frames, data), ~panicked \/ name # "drop",
             name # "idle"
      PROVE  Heeded'
  BY <1>5 DEF Enter, Heeded
<1>6. CASE CallWrite
  BY <1>5, <1>6 DEF CallWrite, WriteCalls
<1>7. CASE CallCommon
  <2>1. CASE CallConsume
    BY <2>1 DEF CallConsume, Heeded
  <2>2. CASE panicked /\ open' = FALSE /\ UNCHANGED call /\ call = "idle"
             /\ result' = [of |-> "drop", kind |-> "skipped", n |-> 0]
    BY <2>2 DEF Heeded
  <2>3. QED
    BY <1>5, <1>7, <2>1, <2>2 DEF CallCommon, CallFlush, CallRead, CallReadUntil,
       CallFillBuf, CallIntoInner, CallDrop
<1>8. CASE UNCHANGED vars
  BY <1>8 DEF Heeded, vars, callVars, writerVars
<1>9. QED
  BY <1>1, <1>2, <1>3, <1>4, <1>6, <1>7, <1>8 DEF Next, Step, Closed

(* A destructor does not write right after a panic of inner.write: if it   *)
(* has got as far as its flush, the last call has not ended that way.      *)
THEOREM DropNeverRewritesCorrect == Spec => DropNeverRewrites
<1>1. Init => Heeded
  BY DEF Init, Heeded
<1>2. Inv /\ Heeded /\ [Next]_vars => Heeded'
  BY HeededNext
<1>3. Heeded /\ [Next]_vars =>
        [(call = "drop" /\ result.kind = "wpanic") => sink' = sink]_vars
  BY DEF Heeded
<1>4. QED
  BY <1>1, <1>2, <1>3, Invariant, PTL DEF Spec, DropNeverRewrites

-----------------------------------------------------------------------------
(* read_until and the delimiter.                                           *)

(* What has been appended, with more behind it.                            *)
LEMMA Appended ==
  ASSUME NEW s \in Seq(Byte), NEW t \in Seq(Byte), NEW n \in Nat, n <= Len(s)
  PROVE  /\ n + Len(t) <= Len(s \o t)
         /\ Skip(s \o t, Len(s \o t) - (n + Len(t))) = Skip(s, Len(s) - n) \o t
<1>1. Len(s) \in Nat /\ Len(t) \in Nat /\ Len(s \o t) = Len(s) + Len(t)
  BY LenProperties, ConcatProperties
<1>2. Len(s) - n \in 0..Len(s) /\ Len(s \o t) - (n + Len(t)) = Len(s) - n
  BY <1>1
<1>3. Skip(s \o t, Len(s) - n) = Skip(s, Len(s) - n) \o t
  BY <1>2, SkipOfConcat
<1>4. QED
  BY <1>1, <1>2, <1>3

(* A call that returns without success, or that is no read_until.          *)
LEMMA SearchReturns ==
  ASSUME call # "idle", NEW kind, NEW n, Return(kind, n),
         call = "read_until" => kind # "ok"
  PROVE  Searching'
BY DEF Return, Searching, UntilStopsAtDelimiter

(* Any other call in progress.                                             *)
LEMMA SearchElsewhere ==
  ASSUME call' \notin {"idle", "read_until"}
  PROVE  Searching'
BY DEF Searching, UntilStopsAtDelimiter

(* A frame of read_until ends that hands nothing over.                     *)
LEMMA SearchGoesOn ==
  ASSUME Searching, call = "read_until", UNCHANGED << call, delivered >>,
         LastN' = LastN, At("until")' => (Unread' = << >> => reader_buf' = << >>)
  PROVE  Searching'
BY DEF Searching, UntilStopsAtDelimiter

(* The last frame stays the last when others are taken off.                *)
LEMMA LastStays ==
  ASSUME TypeOK, Control, NEW op \in {"flush_buf", "inner_flush", "fill_buf"}, At(op),
         call = "read_until", todo' = Tail(todo)
  PROVE  LastN' = LastN /\ (op # "fill_buf" => ~At("until")')
<1>1. \E n \in Nat :
         \/ /\ todo = << Do("flush_buf", 0), Do("inner_flush", 0), Do("fill_buf", 0), Do("until", n) >>
            /\ op = "flush_buf"
         \/ /\ todo = << Do("inner_flush", 0), Do("fill_buf", 0), Do("until", n) >>
            /\ op = "inner_flush"
         \/ todo = << Do("fill_buf", 0), Do("until", n) >> /\ op = "fill_buf"
  <2>1. todo \in UntilStages(LastN) /\ LastN \in Nat /\ Head(todo).op = op
    BY LastType DEF At, Control, WriteCalls
  <2>2. QED
    BY <2>1 DEF UntilStages, Do
<1>2. PICK n \in Nat :
         \/ /\ todo = << Do("flush_buf", 0), Do("inner_flush", 0), Do("fill_buf", 0), Do("until", n) >>
            /\ op = "flush_buf"
         \/ /\ todo = << Do("inner_flush", 0), Do("fill_buf", 0), Do("until", n) >>
            /\ op = "inner_flush"
         \/ todo = << Do("fill_buf", 0), Do("until", n) >> /\ op = "fill_buf"
  BY <1>1
<1>3. CASE todo = << Do("fill_buf", 0), Do("until", n) >> /\ op = "fill_buf"
  <2>1. todo' = << Do("until", n) >>
    BY <1>3
  <2>2. QED
    BY <1>3, <2>1 DEF LastN
<1>4. CASE /\ todo = << Do("inner_flush", 0), Do("fill_buf", 0), Do("until", n) >>
           /\ op = "inner_flush"
  <2>1. todo' = << Do("fill_buf", 0), Do("until", n) >>
    BY <1>4
  <2>2. QED
    BY <1>4, <2>1 DEF LastN, At, Do
<1>5. CASE /\ todo = << Do("flush_buf", 0), Do("inner_flush", 0), Do("fill_buf", 0),
                        Do("until", n) >>
           /\ op = "flush_buf"
  <2>1. todo' = << Do("inner_flush", 0), Do("fill_buf", 0), Do("until", n) >>
    BY <1>5
  <2>2. QED
    BY <1>5, <2>1 DEF LastN, At, Do
<1>6. QED
  BY <1>2, <1>3, <1>4, <1>5

(* Each turn of read_until.                                                *)
LEMMA SearchTurns ==
  ASSUME Inv, Searching, ReadUntil
  PROVE  Searching'
<1> DEFINE got == Skip(delivered, Len(delivered) - N)
<1>1. At("until") /\ call = "read_until"
  BY AtRead DEF ReadUntil, Inv
<1>2. N = LastN /\ N \in Nat
  <2>1. PICK n \in Nat : todo = << Do("until", n) >>
    BY <1>1, AtRead DEF Inv
  <2>2. QED
    BY <2>1 DEF N, LastN, Do
<1>3. /\ delivered \in Seq(Byte) /\ Len(delivered) \in Nat
      /\ Unread \in Seq(Byte) /\ Len(Unread) \in Nat
  BY RemainingType, LenProperties DEF Inv, TypeOK, DeviceTypes
<1>4. /\ N <= Len(delivered) /\ ~Holds(got, NL)
      /\ Unread = << >> => reader_buf = << >>
  BY <1>1, <1>2 DEF Searching
<1>5. got \in Seq(Byte)
  <2>1. Len(delivered) - N \in 0..Len(delivered)
    BY <1>2, <1>3, <1>4
  <2>2. QED
    BY <1>3, <2>1, SliceType
<1>6. ASSUME NEW k \in 0..Len(Unread), Deliver(k)
      PROVE  /\ N + k <= Len(delivered') /\ reader_buf' = reader_buf
             /\ Skip(delivered', Len(delivered') - (N + k)) = got \o Take(Unread, k)
             /\ Take(Unread, k) \in Seq(Byte)
  <2>1. Take(Unread, k) \in Seq(Byte) /\ Len(Take(Unread, k)) = k
    BY <1>3, SliceType
  <2>2. delivered' = delivered \o Take(Unread, k) /\ reader_buf' = reader_buf
    BY <1>6 DEF Deliver
  <2> DEFINE t == Take(Unread, k)
  <2> HIDE DEF t
  <2>3. /\ N + Len(t) <= Len(delivered \o t)
        /\ Skip(delivered \o t, Len(delivered \o t) - (N + Len(t)))
             = Skip(delivered, Len(delivered) - N) \o t
    BY ONLY <1>2, <1>3, <1>4, <2>1, Appended DEF t
  <2>4. QED
    BY <2>1, <2>2, <2>3 DEF t
<1> HIDE DEF got
<1>7. ASSUME NEW i \in 1..Len(Unread), Unread[i] = NL, ~Holds(Take(Unread, i - 1), NL),
             Deliver(i), Return("ok", N + i)
      PROVE  Searching'
  <2> DEFINE g == got \o Take(Unread, i)
  <2>1. i \in 0..Len(Unread)
    BY <1>3
  <2>2. Skip(delivered', Len(delivered') - (N + i)) = g
    BY <1>6, <1>7, <2>1
  <2>3. g[Len(g)] = NL /\ ~Holds(Take(g, Len(g) - 1), NL)
    <3>1. Unread \in Seq(Byte) /\ got \in Seq(Byte) /\ ~Holds(got, NL)
      BY <1>3, <1>4, <1>5
    <3>2. /\ i \in 1..Len(Unread) /\ Unread[i] = NL
          /\ ~Holds(Take(Unread, i - 1), NL)
      BY <1>7
    <3>3. QED
      BY ONLY <3>1, <3>2, FirstDelimiter
  <2> HIDE DEF g
  <2>4. call' = "idle" /\ result'.n = N + i
    BY <1>7 DEF Return
  <2>5. UntilStopsAtDelimiter'
    BY <2>2, <2>3, <2>4 DEF UntilStopsAtDelimiter
  <2>6. QED
    BY <2>4, <2>5 DEF Searching
<1>8. CASE Unread = << >> /\ Deliver(0) /\ Return("ok", N)
  <2>1. 0 \in 0..Len(Unread) /\ N + 0 = N
    BY <1>2, <1>3
  <2>2. /\ Skip(delivered', Len(delivered') - N) = got \o Take(Unread, 0)
        /\ reader_buf' = << >>
    BY <1>4, <1>6, <1>8, <2>1
  <2>3. Take(Unread, 0) = << >> /\ got \o << >> = got
    BY <1>3, <1>5, SliceEnds, ConcatEmptySeq
  <2>4. ~Holds(Skip(delivered', Len(delivered') - N), NL)
    BY <1>4, <2>2, <2>3
  <2>5. call' = "idle" /\ result'.n = N
    BY <1>8 DEF Return
  <2>6. UntilStopsAtDelimiter'
    BY <2>2, <2>4, <2>5 DEF UntilStopsAtDelimiter
  <2>7. QED
    BY <2>5, <2>6 DEF Searching
<1>9. CASE /\ ~Holds(Unread, NL) /\ Deliver(Len(Unread))
           /\ Become(<< Do("fill_buf", 0), Do("until", N + Len(Unread)) >>)
  <2> DEFINE m == N + Len(Unread)
  <2>1. Len(Unread) \in 0..Len(Unread) /\ Take(Unread, Len(Unread)) = Unread
    BY <1>3, SliceEnds
  <2>2. /\ m <= Len(delivered')
        /\ Skip(delivered', Len(delivered') - m) = got \o Unread
    BY <1>6, <1>9, <2>1
  <2>3. ~Holds(got \o Unread, NL)
    BY <1>3, <1>4, <1>5, <1>9, HoldsConcat
  <2> HIDE DEF m
  <2>4. todo' = << Do("fill_buf", 0), Do("until", m) >> /\ UNCHANGED call
    <3>1. PICK n \in Nat : todo = << Do("until", n) >>
      BY <1>1, AtRead DEF Inv
    <3>2. << Do("fill_buf", 0), Do("until", m) >> \o Tail(todo)
            = << Do("fill_buf", 0), Do("until", m) >>
      BY <3>1
    <3>3. QED
      BY <1>9, <3>2 DEF Become, m
  <2>5. LastN' = m /\ ~At("until")'
    BY <2>4 DEF LastN, At, Do
  <2>6. QED
    BY <1>1, <2>2, <2>3, <2>4, <2>5 DEF Searching, UntilStopsAtDelimiter
<1>10. QED
  BY <1>7, <1>8, <1>9 DEF ReadUntil

(* The calls, which start with nothing appended.                           *)
LEMMA SearchStarts ==
  ASSUME Inv, Searching, CallWrite \/ CallCommon
  PROVE  Searching'
<1>1. ASSUME NEW name, NEW frames, NEW data, Enter(name, frames, data),
             name \notin {"idle", "read_until"}
      PROVE  Searching'
  BY <1>1, SearchElsewhere DEF Enter
<1>2. CASE CallReadUntil
  <2>1. /\ todo' = << Do("flush_buf", 0), Do("inner_flush", 0),
                      Do("fill_buf", 0), Do("until", 0) >>
        /\ call' = "read_until" /\ UNCHANGED delivered
    BY <1>2, FrameConcat DEF CallReadUntil, FlushFrames, Enter, inVars
  <2>2. LastN' = 0 /\ ~At("until")'
    BY <2>1 DEF LastN, At, Do
  <2>3. delivered \in Seq(Byte) /\ Len(delivered) \in Nat
    BY LenProperties DEF Inv, TypeOK, DeviceTypes
  <2>4. Skip(delivered, Len(delivered)) = << >> /\ Len(delivered) - 0 = Len(delivered)
    BY <2>3, SliceEnds
  <2>5. ~Holds(<< >>, NL)
    BY DEF Holds
  <2>6. 0 <= Len(delivered') /\ ~Holds(Skip(delivered', Len(delivered') - 0), NL)
    BY <2>1, <2>3, <2>4, <2>5
  <2>7. QED
    BY <2>1, <2>2, <2>6 DEF Searching, UntilStopsAtDelimiter
<1>3. CASE CallConsume \/ (CallDrop /\ ~\E frames, data : Enter("drop", frames, data))
  <2>1. call' = "idle" /\ result'.of # "read_until"
    BY <1>3 DEF CallConsume, CallDrop
  <2>2. QED
    BY <2>1 DEF Searching, UntilStopsAtDelimiter
<1>4. CASE CallWrite
  BY <1>1, <1>4 DEF CallWrite, WriteCalls
<1>5. CASE \E frames, data : Enter("drop", frames, data)
  BY <1>1, <1>5
<1>6. QED
  BY <1>1, <1>2, <1>3, <1>4, <1>5 DEF CallCommon, CallFlush, CallRead, CallFillBuf,
     CallIntoInner

(* The steps of a call at its first frame.                                 *)
LEMMA SearchFrames ==
  ASSUME Inv, Searching, FlushBuf \/ InnerFlush \/ FillBuf
  PROVE  Searching'
<1>1. PICK op \in {"flush_buf", "inner_flush", "fill_buf"} :
         /\ At(op) /\ (FillBuf => op = "fill_buf")
  BY DEF FlushBuf, FlushWrite, FlushInterrupted, FlushFail, FlushPanic, FlushDone,
     Flushing, InnerFlush, FillBuf
<1>2. /\ call # "idle" /\ todo # << >> /\ \A p : At(p) => p = op
      /\ (call = "read_until" => Len(todo) # 1)
  <2>1. call # "idle" /\ todo # << >> /\ \A p : At(p) => p = op
    BY <1>1, Busy DEF Inv
  <2>2. call = "read_until" => Len(todo) # 1
    <3>1. CASE op = "flush_buf"
      BY <1>1, <3>1, AtFlushBuf DEF Inv, WriteCalls
    <3>2. CASE op = "inner_flush"
      BY <1>1, <3>2, AtInnerFlush DEF Inv
    <3>3. CASE op = "fill_buf"
      BY <1>1, <3>3, AtFillBuf DEF Inv
    <3>4. QED
      BY <3>1, <3>2, <3>3
  <2>3. QED
    BY <2>1, <2>2
<1>3. UNCHANGED delivered
  BY DEF FlushBuf, FlushWrite, FlushInterrupted, FlushFail, FlushPanic, FlushDone,
     InnerFlush, FillBuf, inVars
<1>4. ASSUME NEW kind, kind # "ok", Abandon(kind) PROVE Searching'
  BY <1>2, <1>4, SearchReturns DEF Abandon
<1>5. CASE UNCHANGED callVars
  <2>1. UNCHANGED << call, todo >>
    BY <1>5 DEF callVars
  <2>2. CASE call = "read_until"
    <3>1. ~At("until") /\ LastN' = LastN /\ At("until")' = At("until")
      BY <1>1, <1>2, <2>1 DEF LastN, At
    <3>2. QED
      BY <1>3, <2>1, <2>2, <3>1, SearchGoesOn
  <2>3. QED
    BY <1>2, <2>1, <2>2, SearchElsewhere
<1>6. CASE Proceed(arg)
  <2>1. CASE call # "read_until"
    <3>1. CASE Len(todo) = 1
      BY <1>2, <1>6, <2>1, <3>1, SearchReturns DEF Proceed
    <3>2. CASE Len(todo) # 1
      BY <1>2, <1>6, <2>1, <3>2, SearchElsewhere DEF Proceed
    <3>3. QED
      BY <3>1, <3>2
  <2>2. CASE call = "read_until"
    <3>1. todo' = Tail(todo) /\ UNCHANGED call
      BY <1>2, <1>6, <2>2 DEF Proceed
    <3>2. LastN' = LastN /\ (op # "fill_buf" => ~At("until")')
      BY <1>1, <2>2, <3>1, LastStays DEF Inv
    <3>3. CASE op = "fill_buf"
      <4>1. FillBuf
        BY <1>2, <3>3 DEF FlushBuf, FlushWrite, FlushInterrupted, FlushFail,
           FlushPanic, FlushDone, Flushing, InnerFlush
      <4>2. CASE pos < Len(reader_buf) /\ UNCHANGED readerVars
        <5>1. Len(Unread) # 0 /\ Unread' = Unread
          BY <4>2, RemainingType DEF Inv, Unread, readerVars, TypeOK, BufferTypes
        <5>2. Unread' # << >>
          BY <5>1
        <5>3. QED
          BY <1>3, <2>2, <3>1, <3>2, <5>2, SearchGoesOn
      <4>3. CASE \E chunk \in Arrivals(RCap) : reader_buf' = chunk /\ pos' = 0
        <5>1. PICK chunk \in Arrivals(RCap) : reader_buf' = chunk /\ pos' = 0
          BY <4>3
        <5>2. chunk \in Seq(Byte)
          BY CapacityAssumption, ChunksType DEF Arrivals
        <5>3. Unread' = reader_buf'
          BY <5>1, <5>2, SliceEnds DEF Unread
        <5>4. QED
          BY <1>3, <2>2, <3>1, <3>2, <5>3, SearchGoesOn
      <4>4. QED
        BY <1>2, <1>4, <4>1, <4>2, <4>3 DEF FillBuf
    <3>4. QED
      BY <1>3, <2>2, <3>1, <3>2, <3>3, SearchGoesOn
  <2>3. QED
    BY <2>1, <2>2
<1>7. QED
  BY <1>4, <1>5, <1>6 DEF FlushBuf, FlushWrite, FlushInterrupted, FlushFail, FlushPanic,
     FlushDone, InnerFlush, FillBuf

(* The other frames belong to other calls.                                 *)
LEMMA SearchOthers ==
  ASSUME Inv, Searching, Write \/ ReadDirect \/ ReadBuffered \/ Copy
  PROVE  Searching'
<1>1. call \notin {"idle", "read_until"}
  <2>1. PICK op \in {"write", "write_all", "put", "put_all", "read", "copy"} : At(op)
    BY DEF Write, MakeRoom, Buffer, PutDirect, PutAllDirect, ReadDirect, ReadBuffered,
       Copy, WriteCalls
  <2>2. CASE op \in {"write", "write_all", "put", "put_all"}
    BY <2>1, <2>2, AtWrite DEF Inv, WriteCalls
  <2>3. CASE op \in {"read", "copy"}
    BY <2>1, <2>3, AtRead DEF Inv
  <2>4. QED
    BY <2>2, <2>3
<1>2. \/ UNCHANGED call \/ Proceed(Skip(arg, N))
      \/ \E kind, n : Return(kind, n)
  BY DEF Write, MakeRoom, Buffer, PutDirect, PutAllDirect, ReadDirect, ReadBuffered,
     Copy, Become, Abandon
<1>3. UNCHANGED call \/ \E kind, n : Return(kind, n)
  BY <1>2 DEF Proceed
<1>4. QED
  BY <1>1, <1>3, SearchReturns, SearchElsewhere

(* Every step keeps Searching.                                             *)
LEMMA SearchNext ==
  ASSUME Inv, Searching, [Next]_vars
  PROVE  Searching'
<1>1. CASE UNCHANGED vars
  BY <1>1 DEF Searching, UntilStopsAtDelimiter, LastN, At, Unread, vars, callVars,
     readerVars, inVars
<1>2. QED
  BY <1>1, SearchStarts, SearchFrames, SearchOthers, SearchTurns
     DEF Next, Step, Closed, Read

(* A read_until that succeeds has appended bytes up to and including the   *)
(* first delimiter, or without one all there were when the input ended.    *)
THEOREM UntilStopsAtDelimiterCorrect == Spec => []UntilStopsAtDelimiter
<1>1. Init => Searching
  BY DEF Init, Searching, UntilStopsAtDelimiter
<1>2. Inv /\ Searching /\ [Next]_vars => Searching'
  BY SearchNext
<1>3. Searching => UntilStopsAtDelimiter
  BY DEF Searching
<1>4. QED
  BY <1>1, <1>2, <1>3, Invariant, PTL DEF Spec

-----------------------------------------------------------------------------
(* The object implements the two FIFOs of DuplexChannel.                   *)

Prefix(s, t) == Channel!IsPrefixOf(s, t)

LEMMA PrefixLaws ==
  ASSUME NEW s \in Seq(Byte), NEW t \in Seq(Byte)
  PROVE  Prefix(s, s) /\ Prefix(s, s \o t)
<1>1. /\ Len(s) \in Nat /\ Len(s) <= Len(s \o t)
      /\ SubSeq(s, 1, Len(s)) = SubSeq(s \o t, 1, Len(s))
  BY PrefixOfConcat, LenProperties
<1>2. SubSeq(s, 1, Len(s)) = s
  BY SliceEnds DEF Take
<1>3. QED
  BY <1>1, <1>2 DEF Prefix, Channel!IsPrefixOf

(* What the device has taken is a prefix of what was accepted, and so of   *)
(* that and the buffer on offer: what remains comes in between.            *)
LEMMA SinkIsPrefix ==
  ASSUME NEW s \in Seq(Byte), NEW r \in Seq(Byte), NEW p \in Seq(Byte)
  PROVE  Prefix(s, s \o r) /\ Prefix(s, (s \o r) \o p)
<1>1. (s \o r) \o p = s \o (r \o p) /\ r \o p \in Seq(Byte)
  BY Stretches
<1>2. QED
  BY <1>1, PrefixLaws

(* A step that no user of the channel notices.                             *)
LEMMA Unnoticed ==
  ASSUME UNCHANGED << accepted, payload, sink, synced, fetched, delivered >>
  PROVE  UNCHANGED Channel!channel
BY DEF Channel!channel, Channel!outChan, Channel!inChan

(* A call that returns, having moved bytes or not, and whether or not the  *)
(* caller learns how many.                                                 *)
LEMMA ReturnImplements ==
  ASSUME Inv, Inv', call # "idle", NEW kind \in Kinds, NEW n \in Nat,
         call \in WriteCalls => n \in 0..Len(payload), Return(kind, n),
         Prefix(sink, sink'), UNCHANGED << synced, fetched, delivered >>
  PROVE  Channel!Next
<1>1. accepted \in Seq(Byte) /\ payload \in Seq(Byte) /\ Len(payload) \in Nat
  BY LenProperties DEF Inv, TypeOK, CallTypes
<1>2. payload' = << >>
  BY DEF Return
<1>3. accepted' = accepted \/ (call \in WriteCalls /\ accepted' = accepted \o Take(payload, n))
  BY DEF Return, WriteCalls
<1>4. \E k \in 0..Len(payload) : accepted' = accepted \o SubSeq(payload, 1, k)
  <2>1. CASE accepted' = accepted
    <3>1. Take(payload, 0) = << >> /\ accepted \o << >> = accepted /\ 0 \in 0..Len(payload)
      BY <1>1, SliceEnds, ConcatEmptySeq
    <3>2. QED
      BY <2>1, <3>1 DEF Take
  <2>2. CASE call \in WriteCalls /\ accepted' = accepted \o Take(payload, n)
    BY <2>2 DEF Take
  <2>3. QED
    BY <1>3, <2>1, <2>2
<1>5. Prefix(sink', accepted')
  <2>1. Remaining' \in Seq(Byte) /\ sink' \in Seq(Byte) /\ accepted' = sink' \o Remaining'
    <3>1. TypeOK' /\ Accounted'
      BY DEF Inv
    <3>2. writer_buf' \in Seq(Byte) /\ written' \in 0..Len(writer_buf')
      BY <3>1 DEF TypeOK, BufferTypes
    <3>3. Skip(writer_buf', written') \in Seq(Byte)
      BY <3>2, SliceType
    <3>4. QED
      BY <3>1, <3>3 DEF Remaining, Accounted, TypeOK, DeviceTypes
  <2>2. QED
    BY <2>1, SinkIsPrefix
<1>6. Channel!Accept
  BY <1>2, <1>4, <1>5 DEF Channel!Accept, Channel!inChan, Prefix
<1>7. QED
  BY <1>6 DEF Channel!Next

(* A call that reads returns without a word about what is written.         *)
LEMMA ReadReturnQuiet ==
  ASSUME Inv, call \notin WriteCalls, NEW kind, NEW n, Return(kind, n)
  PROVE  UNCHANGED << accepted, payload >>
BY DEF Return, Inv, Offered, WriteCalls

(* What the user of the channel sees of a read.                            *)
LEMMA ReceiveImplements ==
  ASSUME Inv, Inv', UNCHANGED << accepted, payload, sink, synced >>,
         NEW c \in Seq(Byte), fetched' = fetched \o c,
         NEW d \in Seq(Byte), delivered' = delivered \o d
  PROVE  Channel!Next
<1>1. /\ fetched \in Seq(Byte) /\ fetched' \in Seq(Byte)
      /\ delivered \in Seq(Byte) /\ delivered' \in Seq(Byte)
  BY DEF Inv, TypeOK, DeviceTypes
<1>2. Prefix(fetched, fetched') /\ Prefix(delivered, delivered')
  BY <1>1, PrefixLaws
<1>3. Prefix(delivered', fetched')
  <2>1. reader_buf' \in Seq(Byte) /\ pos' \in 0..Len(reader_buf')
    BY DEF Inv, TypeOK, BufferTypes
  <2>2. Skip(reader_buf', pos') \in Seq(Byte)
    BY <2>1, SliceType
  <2>3. fetched' = delivered' \o Skip(reader_buf', pos')
    BY DEF Inv, InConserved, Unread
  <2>4. QED
    BY <1>1, <2>2, <2>3, PrefixLaws
<1>4. Channel!Receive
  BY <1>1, <1>2, <1>3 DEF Channel!Receive, Channel!outChan, Prefix
<1>5. QED
  BY <1>4 DEF Channel!Next

LEMMA ReadImplements ==
  ASSUME Inv, Inv', Read
  PROVE  [Channel!Next]_(Channel!channel)
<1>0. TypeOK /\ Control /\ Offered /\ UNCHANGED << sink, synced >>
  BY DEF Inv, Read, ReadDirect, ReadBuffered, FillBuf, Copy, ReadUntil, outVars
<1>e. /\ fetched \in Seq(Byte) /\ delivered \in Seq(Byte) /\ << >> \in Seq(Byte)
      /\ fetched \o << >> = fetched /\ delivered \o << >> = delivered
  BY <1>0, EmptySeq, ConcatEmptySeq DEF TypeOK, DeviceTypes
<1>d. ASSUME NEW k \in 0..Len(Unread), Deliver(k), UNCHANGED << accepted, payload >>
      PROVE  Channel!Next
  <2>1. Take(Unread, k) \in Seq(Byte)
    BY <1>0, RemainingType, SliceType
  <2>2. fetched' = fetched \o << >> /\ delivered' = delivered \o Take(Unread, k)
    BY <1>d, <1>e DEF Deliver
  <2>3. QED
    BY <1>0, <1>d, <1>e, <2>1, <2>2, ReceiveImplements
<1>1. CASE ReadDirect
  <2>1. At("read") /\ call = "read"
    BY <1>0, <1>1, AtRead DEF ReadDirect
  <2>2. CASE \E chunk \in Arrivals(N) :
               /\ fetched' = fetched \o chunk /\ delivered' = delivered \o chunk
               /\ Return("ok", Len(chunk))
    <3>1. PICK chunk \in Arrivals(N) :
             /\ fetched' = fetched \o chunk /\ delivered' = delivered \o chunk
             /\ Return("ok", Len(chunk))
      BY <2>2
    <3>2. N \in Nat
      <4>1. PICK n \in Nat : todo = << Do("read", n) >>
        BY <1>0, <2>1, AtRead
      <4>2. QED
        BY <4>1 DEF N, Do
    <3>3. chunk \in Seq(Byte)
      BY <3>2, ChunksType DEF Arrivals
    <3>4. UNCHANGED << accepted, payload >>
      BY <2>1, <3>1, ReadReturnQuiet DEF WriteCalls
    <3>5. QED
      BY <1>0, <3>1, <3>3, <3>4, ReceiveImplements
  <2>3. CASE \E kind \in {"err", "panic"} : Abandon(kind) /\ UNCHANGED inVars
    <3>1. UNCHANGED << accepted, payload, fetched, delivered >>
      BY <2>1, <2>3, ReadReturnQuiet DEF WriteCalls, Abandon, inVars
    <3>2. QED
      BY <1>0, <3>1, Unnoticed
  <2>4. QED
    BY <1>1, <2>2, <2>3 DEF ReadDirect
<1>2. CASE ReadBuffered
  BY <1>0, <1>2, Unnoticed DEF ReadBuffered, Become, inVars
<1>3. CASE FillBuf
  <2>1. At("fill_buf") /\ call \notin WriteCalls
    BY <1>0, <1>3, AtFillBuf DEF FillBuf, WriteCalls
  <2>2. Proceed(arg) \/ \E kind \in {"err", "panic"} : Abandon(kind)
    BY <1>3 DEF FillBuf
  <2>3. UNCHANGED << accepted, payload >>
    BY <2>1, <2>2, ReadReturnQuiet DEF Proceed, Abandon
  <2>4. CASE UNCHANGED inVars
    BY <1>0, <2>3, <2>4, Unnoticed DEF inVars
  <2>5. CASE \E chunk \in Arrivals(RCap) : fetched' = fetched \o chunk /\ UNCHANGED delivered
    <3>1. PICK chunk \in Arrivals(RCap) : fetched' = fetched \o chunk
      BY <2>5
    <3>2. chunk \in Seq(Byte)
      BY ChunksType DEF Arrivals
    <3>3. delivered' = delivered \o << >>
      BY <1>e, <2>5
    <3>4. QED
      BY <1>0, <1>e, <2>3, <3>1, <3>2, <3>3, ReceiveImplements
  <2>6. QED
    BY <1>3, <2>4, <2>5 DEF FillBuf
<1>4. CASE Copy
  <2>1. At("copy") /\ call = "read" /\ \E n \in Nat : todo = << Do("copy", n) >>
    BY <1>0, <1>4, AtRead DEF Copy
  <2>2. PICK k : k = Least(N, Len(Unread)) /\ Deliver(k) /\ Return("ok", k)
    BY <1>4 DEF Copy
  <2>3. N \in Nat /\ Len(Unread) \in Nat
    BY <1>0, <2>1, RemainingType, LenProperties DEF N, Do
  <2>4. k \in 0..Len(Unread)
    BY <2>2, <2>3 DEF Least
  <2>5. UNCHANGED << accepted, payload >>
    BY <2>1, <2>2, ReadReturnQuiet DEF WriteCalls
  <2>6. QED
    BY <1>d, <2>2, <2>4, <2>5
<1>5. CASE ReadUntil
  <2>1. At("until") /\ call = "read_until" /\ Len(Unread) \in Nat
    BY <1>0, <1>5, AtRead, RemainingType, LenProperties DEF ReadUntil
  <2>2. PICK k \in 0..Len(Unread) :
           Deliver(k) /\ ((\E n : Return("ok", n)) \/ (\E frames : Become(frames)))
    BY <1>5, <2>1 DEF ReadUntil
  <2>3. UNCHANGED << accepted, payload >>
    BY <2>1, <2>2, ReadReturnQuiet DEF WriteCalls, Become
  <2>4. QED
    BY <1>d, <2>2, <2>3
<1>6. QED
  BY <1>1, <1>2, <1>3, <1>4, <1>5 DEF Read

(* flush_buf moves bytes to the device, or ends.                           *)
LEMMA FlushImplements ==
  ASSUME Inv, Inv', FlushBuf
  PROVE  [Channel!Next]_(Channel!channel)
<1>0. /\ TypeOK /\ Control /\ Offered /\ call # "idle" /\ Len(payload) \in Nat
      /\ UNCHANGED << synced, fetched, delivered >>
  BY Busy, LenProperties DEF Inv, TypeOK, CallTypes, FlushBuf, FlushWrite, FlushInterrupted,
     FlushFail, FlushPanic, FlushDone, Flushing, outVars, inVars
<1>1. sink \in Seq(Byte) /\ Prefix(sink, sink)
  BY <1>0, PrefixLaws DEF TypeOK, DeviceTypes
<1>2. Moved(arg) = 0 /\ 0 \in 0..Len(payload)
  BY <1>0 DEF Moved, Offered
<1>3. CASE FlushWrite
  <2>1. PICK n \in 1..Len(Remaining) : sink' = sink \o Take(Remaining, n)
    BY <1>3 DEF FlushWrite
  <2>2. Take(Remaining, n) \in Seq(Byte)
    BY <1>0, RemainingType, SliceType
  <2>3. UNCHANGED << accepted, payload >>
    BY <1>3 DEF FlushWrite, callVars
  <2>4. Prefix(sink, sink')
    BY <1>1, <2>1, <2>2, PrefixLaws
  <2>5. Prefix(sink', accepted' \o payload')
    <3>1. TypeOK' /\ Accounted'
      BY DEF Inv
    <3>2. writer_buf' \in Seq(Byte) /\ written' \in 0..Len(writer_buf')
      BY <3>1 DEF TypeOK, BufferTypes
    <3>3. Skip(writer_buf', written') \in Seq(Byte)
      BY <3>2, SliceType
    <3>4. sink' \in Seq(Byte) /\ payload' \in Seq(Byte)
          /\ accepted' = sink' \o Skip(writer_buf', written')
      BY <3>1 DEF Remaining, Accounted, TypeOK, CallTypes, DeviceTypes
    <3>5. QED
      BY <3>3, <3>4, SinkIsPrefix
  <2>6. Channel!Transfer
    BY <1>0, <2>3, <2>4, <2>5 DEF Channel!Transfer, Channel!inChan, Prefix
  <2>7. QED
    BY <2>6 DEF Channel!Next
<1>4. CASE FlushInterrupted
  BY <1>4, Unnoticed DEF FlushInterrupted, callVars, outVars, inVars
<1>5. CASE FlushFail \/ FlushPanic
  <2>1. PICK kind \in {"err", "wpanic"} : Return(kind, 0)
    BY <1>2, <1>5 DEF FlushFail, FlushPanic, Abandon
  <2>2. kind \in Kinds /\ sink' = sink
    BY <1>5 DEF Kinds, FlushFail, FlushPanic, outVars
  <2>3. QED
    BY <1>0, <1>1, <1>2, <2>1, <2>2, ReturnImplements
<1>6. CASE FlushDone
  <2>1. sink' = sink /\ Proceed(arg) /\ "ok" \in Kinds
    BY <1>6 DEF FlushDone, outVars, Kinds
  <2>2. CASE Len(todo) = 1
    <3>1. Return("ok", 0)
      BY <1>2, <2>1, <2>2 DEF Proceed
    <3>2. QED
      BY <1>0, <1>1, <1>2, <2>1, <3>1, ReturnImplements
  <2>3. CASE Len(todo) # 1
    BY <1>0, <2>1, <2>3, Unnoticed DEF Proceed
  <2>4. QED
    BY <2>2, <2>3
<1>7. QED
  BY <1>3, <1>4, <1>5, <1>6 DEF FlushBuf

(* The flush of the device comes when the device has everything.           *)
LEMMA InnerFlushImplements ==
  ASSUME Inv, Inv', InnerFlush
  PROVE  [Channel!Next]_(Channel!channel)
<1>0. /\ TypeOK /\ Control /\ Offered /\ Emptied /\ GuardAtRest /\ Accounted
      /\ At("inner_flush") /\ UNCHANGED << sink, fetched, delivered >>
  BY DEF Inv, InnerFlush, inVars
<1>1. call \in {"flush", "read", "read_until"} /\ ~At("flush_buf")
  BY <1>0, AtInnerFlush, Busy
<1>2. payload = << >> /\ call \notin WriteCalls
  BY <1>0, <1>1 DEF Offered, WriteCalls
<1>3. sink = accepted
  <2>1. Remaining = << >> /\ sink \o << >> = sink
    BY <1>0, <1>1, SliceEnds, ConcatEmptySeq
       DEF Remaining, Emptied, GuardAtRest, TypeOK, BufferTypes, DeviceTypes
  <2>2. QED
    BY <1>0, <2>1 DEF Accounted
<1>4. UNCHANGED << accepted, payload >>
  BY <1>2, ReadReturnQuiet DEF InnerFlush, Proceed, Abandon
<1>5. CASE synced' = Len(sink)
  <2>1. Channel!Sync
    BY <1>0, <1>2, <1>3, <1>4, <1>5 DEF Channel!Sync, Channel!inChan
  <2>2. QED
    BY <2>1 DEF Channel!Next
<1>6. CASE UNCHANGED synced
  BY <1>0, <1>4, <1>6, Unnoticed
<1>7. QED
  BY <1>5, <1>6 DEF InnerFlush

(* The buffer on offer is taken, all of it or as much as the device took.  *)
LEMMA WriteImplements ==
  ASSUME Inv, Inv', Write
  PROVE  [Channel!Next]_(Channel!channel)
<1>0. /\ TypeOK /\ Control /\ UNCHANGED << synced, fetched, delivered >>
      /\ sink \in Seq(Byte) /\ Prefix(sink, sink)
  BY PrefixLaws DEF Inv, TypeOK, DeviceTypes, Write, MakeRoom, Buffer, PutDirect,
     PutAllDirect, outVars, inVars
<1>1. CASE MakeRoom
  BY <1>0, <1>1, Unnoticed DEF MakeRoom, Become, outVars
<1>2. ASSUME At("put") \/ At("put_all"), NEW k \in 0..N, NEW kind \in Kinds,
             Return(kind, k), sink' = sink \/ sink' = sink \o Take(arg, k)
      PROVE  Channel!Next
  <2>1. call # "idle" /\ arg = payload /\ N = Len(payload) /\ N \in Nat
        /\ payload \in Seq(Byte)
    BY <1>2, PutFrame DEF Inv, TypeOK, CallTypes
  <2>2. Take(arg, k) \in Seq(Byte)
    BY <1>2, <2>1, SliceType
  <2>3. Prefix(sink, sink')
    BY <1>0, <1>2, <2>2, PrefixLaws
  <2>4. k \in Nat /\ k \in 0..Len(payload)
    BY <1>2, <2>1
  <2>5. QED
    BY <1>0, <1>2, <2>1, <2>3, <2>4, ReturnImplements
<1>3. CASE Buffer
  <2>1. (At("put") \/ At("put_all")) /\ Proceed(Skip(arg, N)) /\ sink' = sink
    BY <1>3 DEF Buffer, outVars
  <2>2. Len(todo) = 1 /\ N \in Nat /\ N \in 0..N /\ "ok" \in Kinds
    BY <2>1, PutFrame DEF Kinds
  <2>3. Return("ok", N)
    BY <2>1, <2>2, MovedBy DEF Proceed
  <2>4. QED
    BY <1>2, <2>1, <2>2, <2>3
<1>4. CASE PutDirect
  <2>1. At("put") /\ N \in Nat /\ 0 \in 0..N /\ {"ok", "err", "wpanic"} \subseteq Kinds
    BY <1>4, PutFrame DEF PutDirect, Kinds
  <2>2. CASE \E k \in 0..N : sink' = sink \o Take(arg, k) /\ Return("ok", Moved(arg) + k)
    BY <1>2, <2>1, <2>2, MovedBy
  <2>3. CASE (Abandon("err") \/ Abandon("wpanic")) /\ UNCHANGED sink
    BY <1>2, <2>1, <2>3, MovedBy DEF Abandon
  <2>4. QED
    BY <1>4, <2>2, <2>3 DEF PutDirect
<1>5. CASE PutAllDirect
  <2>1. /\ At("put_all") /\ N \in Nat /\ N \in 0..N /\ Len(todo) = 1
        /\ {"ok", "err", "wpanic"} \subseteq Kinds
    BY <1>5, PutFrame DEF PutAllDirect, Kinds
  <2>2. CASE sink' = sink \o Take(arg, N) /\ Proceed(Skip(arg, N))
    BY <1>2, <2>1, <2>2, MovedBy DEF Proceed
  <2>3. CASE \E k \in 0..N, kind \in {"err", "wpanic"} :
               sink' = sink \o Take(arg, k) /\ Return(kind, Moved(Skip(arg, k)))
    BY <1>2, <2>1, <2>3, MovedBy
  <2>4. QED
    BY <1>5, <2>2, <2>3 DEF PutAllDirect
<1>6. QED
  BY <1>1, <1>3, <1>4, <1>5 DEF Write

(* A call that starts offers its buffer, if it has one.                    *)
LEMMA CallImplements ==
  ASSUME Inv, Inv', CallWrite \/ CallCommon
  PROVE  [Channel!Next]_(Channel!channel)
<1>0. TypeOK /\ Offered
  BY DEF Inv
<1>e. ASSUME NEW name, NEW frames, NEW data \in Seq(Byte), Enter(name, frames, data)
      PROVE  Channel!Next
  <2>1. payload = << >> /\ payload' = data
        /\ UNCHANGED << accepted, sink, synced, fetched, delivered >>
    BY <1>0, <1>e DEF Enter, Offered, WriteCalls, outVars, inVars
  <2>2. Channel!Offer
    BY <2>1 DEF Channel!Offer, Channel!inChan
  <2>3. QED
    BY <2>2 DEF Channel!Next
<1>1. CASE CallWrite
  <2>1. PICK p \in Offers, name \in WriteCalls : Enter(name, << Do(name, Len(p)) >>, p)
    BY <1>1 DEF CallWrite
  <2>2. p \in Seq(Byte)
    BY ChunksType DEF Offers
  <2>3. QED
    BY <1>e, <2>1, <2>2
<1>2. CASE \E name, frames : Enter(name, frames, << >>)
  <2>1. << >> \in Seq(Byte)
    BY EmptySeq
  <2>2. QED
    BY <1>2, <1>e, <2>1
<1>3. CASE CallConsume
  <2>1. PICK amt \in 1..MaxArg : Deliver(Least(amt, Len(Unread)))
    BY <1>3 DEF CallConsume
  <2>2. UNCHANGED << accepted, payload, sink, synced >>
    BY <1>3 DEF CallConsume, outVars
  <2>3. /\ fetched \in Seq(Byte) /\ << >> \in Seq(Byte) /\ fetched \o << >> = fetched
        /\ Len(Unread) \in Nat /\ Unread \in Seq(Byte)
    BY <1>0, EmptySeq, ConcatEmptySeq, RemainingType, LenProperties DEF TypeOK, DeviceTypes
  <2>4. Take(Unread, Least(amt, Len(Unread))) \in Seq(Byte)
    <3>1. Least(amt, Len(Unread)) \in 0..Len(Unread)
      BY <2>3 DEF Least
    <3>2. QED
      BY <2>3, <3>1, SliceType
  <2>5. /\ fetched' = fetched \o << >>
        /\ delivered' = delivered \o Take(Unread, Least(amt, Len(Unread)))
    BY <2>1, <2>3 DEF Deliver
  <2>6. QED
    BY <2>2, <2>3, <2>4, <2>5, ReceiveImplements
<1>4. CASE CallDrop
  <2>1. CASE Enter("drop", << Do("flush_buf", 0) >>, << >>)
    BY <1>2, <2>1
  <2>2. CASE UNCHANGED << payload, accepted, outVars, inVars >>
    BY <2>2, Unnoticed DEF outVars, inVars
  <2>3. QED
    BY <1>4, <2>1, <2>2 DEF CallDrop
<1>5. CASE CallFlush \/ CallRead \/ CallReadUntil \/ CallFillBuf \/ CallIntoInner
  BY <1>2, <1>5 DEF CallFlush, CallRead, CallReadUntil, CallFillBuf, CallIntoInner
<1>6. QED
  BY <1>1, <1>3, <1>4, <1>5 DEF CallCommon

(* BufDuplexer keeps the promises of a two-way channel: the device gets a  *)
(* prefix of what the caller was told is written and of the buffer on      *)
(* offer, nothing that the caller was told is not; it is flushed only when *)
(* it has everything; and the caller gets what the device sent, in order.  *)
THEOREM ImplementsChannelCorrect == Spec => ImplementsChannel
<1>1. Init => Channel!Init
  BY DEF Init, Channel!Init
<1>2. Inv /\ Inv' /\ [Next]_vars => [Channel!Next]_(Channel!channel)
  <2>1. SUFFICES ASSUME Inv, Inv', [Next]_vars PROVE [Channel!Next]_(Channel!channel)
    OBVIOUS
  <2>2. CASE Closed \/ UNCHANGED vars
    BY <2>2, Unnoticed DEF Closed, vars, callVars, outVars, inVars
  <2>3. QED
    BY <2>1, <2>2, CallImplements, FlushImplements, InnerFlushImplements, WriteImplements,
       ReadImplements DEF Next, Step
<1>3. QED
  BY <1>1, <1>2, Invariant, PTL DEF Spec, ImplementsChannel, Channel!Spec
=============================================================================
