------------------------- MODULE PipedReaderProofs -------------------------
(***************************************************************************)
(* For every input, every size of the pipe, of the copy buffer and of a    *)
(* read, and any failure of the boxed reader and of a read: the user of a  *)
(* `StreamReader` made of a boxed reader, of bytes or of a string receives *)
(* the bytes in order, each once, and the stream is itself a reader like   *)
(* the one it was made of.                                                 *)
(***************************************************************************)
EXTENDS PipedReader, SliceLemmas

USE BoundAssumption, SizeAssumption, FaultAssumption, CallAssumption

Bytes == Seq(1..MaxIn)

-----------------------------------------------------------------------------
(* The steps that move bytes.                                              *)

LEMMA Concat ==
  \A f, g, h \in Bytes : f \o g \in Bytes /\ (f \o g) \o h = f \o (g \o h)
BY ConcatLaws DEF Bytes

(* A read of the boxed reader, into an empty copy buffer.                  *)
LEMMA YieldMoves ==
  ASSUME TypeOK, Counted, InOrder, chunk = << >>, ReadBoxed
  PROVE  /\ Counted' /\ InOrder'
         /\ chunk' \in Bytes /\ Len(chunk') <= CopyBuf
         /\ produced' \in Bytes
<1>1. PICK k \in 1..Least(CopyBuf, size - Len(produced)) :
         chunk' = Numbers(produced, k) /\ produced' = produced \o Numbers(produced, k)
  BY DEF ReadBoxed
<1>2. /\ produced \in Seq(1..MaxIn) /\ Len(produced) \in Nat /\ k \in Nat /\ k <= CopyBuf
      /\ size \in Nat /\ size <= MaxIn /\ Len(produced) + k <= size
      /\ Len(produced) + k <= MaxIn
  BY LenProperties DEF TypeOK, Counted, Least
<1>3. chunk' \in Bytes /\ Len(chunk') = k
  BY <1>1, <1>2, NumbersType DEF Bytes
<1>4. /\ produced' \in Bytes /\ Len(produced') = Len(produced) + k
      /\ \A i \in 1..Len(produced') : produced'[i] = i
  BY <1>1, <1>2, NumbersCount DEF Counted, Bytes
<1>5. Counted'
  BY <1>2, <1>4 DEF Counted, ReadBoxed, source
<1>6. IsPrefix(delivered, produced')
  BY <1>1, <1>3, PrefixExtends DEF InOrder, IsPrefix, TypeOK, Bytes
<1>7. (delivered \o pipe) \o << >> = delivered \o pipe
  BY Concat, ConcatEmptySeq DEF TypeOK, Bytes
<1>8. readerEnd => (delivered \o pipe) \o chunk' = produced'
  BY <1>1, <1>7 DEF InOrder
<1>9. InOrder'
  BY <1>6, <1>8 DEF InOrder, ReadBoxed
<1>10. QED
  BY <1>2, <1>3, <1>4, <1>5, <1>9

(* A write to the pipe, by the thread or by the constructor.               *)
LEMMA PourMoves ==
  ASSUME TypeOK, InOrder, readerEnd, UNCHANGED << delivered, produced, readerEnd >>,
         NEW k \in 1..Least(Len(chunk), PipeCap - Len(pipe)),
         pipe' = pipe \o Take(chunk, k), chunk' = Skip(chunk, k)
  PROVE  /\ InOrder'
         /\ pipe' \in Bytes /\ Len(pipe') <= PipeCap
         /\ chunk' \in Bytes /\ Len(chunk') <= Len(chunk)
<1>1. /\ chunk \in Bytes /\ Len(chunk) \in Nat /\ pipe \in Bytes /\ Len(pipe) \in Nat
      /\ delivered \in Bytes /\ k \in 0..Len(chunk) /\ k <= PipeCap - Len(pipe)
  BY LenProperties DEF TypeOK, Least, Bytes
<1>2. /\ Take(chunk, k) \in Bytes /\ Len(Take(chunk, k)) = k
      /\ chunk' \in Bytes /\ Len(chunk') = Len(chunk) - k
  BY <1>1, SliceType DEF Bytes
<1>3. pipe' \in Bytes /\ Len(pipe') = Len(pipe) + k
  BY <1>1, <1>2, ConcatProperties DEF Bytes
<1>4. pipe' \o chunk' = pipe \o chunk
  BY <1>1, SliceJoin DEF Bytes
<1>5. (delivered \o pipe') \o chunk' = (delivered \o pipe) \o chunk
  <2>1. (delivered \o pipe') \o chunk' = delivered \o (pipe' \o chunk')
    <3>1. delivered \in Bytes /\ pipe' \in Bytes /\ chunk' \in Bytes
      BY <1>1, <1>2, <1>3
    <3>2. QED
      BY ONLY <3>1, Concat
  <2>2. (delivered \o pipe) \o chunk = delivered \o (pipe \o chunk)
    BY <1>1, Concat
  <2>3. QED
    BY <1>4, <2>1, <2>2
<1>6. InOrder'
  BY <1>5 DEF InOrder
<1>7. QED
  BY <1>1, <1>2, <1>3, <1>6

(* A read of the pipe.                                                     *)
LEMMA GetMoves ==
  ASSUME TypeOK, InOrder, Get
  PROVE  /\ InOrder'
         /\ pipe' \in Bytes /\ Len(pipe') <= PipeCap
         /\ delivered' \in Bytes /\ Len(delivered') > Len(delivered)
<1>1. PICK k \in 1..Least(left, Len(pipe)) :
         delivered' = delivered \o Take(pipe, k) /\ pipe' = Skip(pipe, k)
  BY DEF Get
<1>2. /\ pipe \in Bytes /\ Len(pipe) \in Nat /\ delivered \in Bytes /\ Len(delivered) \in Nat
      /\ k \in 0..Len(pipe) /\ k > 0 /\ chunk \in Bytes /\ left \in Nat
  BY LenProperties DEF TypeOK, Least, Bytes
<1>3. /\ Take(pipe, k) \in Bytes /\ Len(Take(pipe, k)) = k
      /\ pipe' \in Bytes /\ Len(pipe') = Len(pipe) - k
  BY <1>1, <1>2, SliceType DEF Bytes
<1>4. delivered' \in Bytes /\ Len(delivered') = Len(delivered) + k
  BY <1>1, <1>2, <1>3, ConcatProperties DEF Bytes
<1>5. delivered' \o pipe' = delivered \o pipe
  BY <1>1, <1>2, SliceJoin DEF Bytes
<1>6. (delivered' \o pipe') \o chunk = produced
  BY <1>5 DEF InOrder, Get
<1>7. IsPrefix(delivered', produced)
  BY <1>2, <1>3, <1>4, <1>6, PrefixOfFlow DEF IsPrefix, Bytes
<1>8. InOrder'
  BY <1>6, <1>7 DEF InOrder, Get, helper
<1>9. QED
  BY <1>2, <1>3, <1>4, <1>8 DEF TypeOK

(* The end of the input reaches the caller.                                *)
LEMMA EndReached ==
  ASSUME TypeOK, Counted, InOrder, readerEnd, pipe = << >>, chunk = << >>,
         Len(produced) = size
  PROVE  delivered = [i \in 1..size |-> i]
<1>1. delivered = produced
  <2>1. delivered \o << >> = delivered /\ (delivered \o << >>) \o << >> = delivered \o << >>
    BY ConcatEmptySeq DEF TypeOK
  <2>2. QED
    BY <2>1 DEF InOrder
<1>2. produced = [i \in 1..size |-> i]
  <2>1. produced \in [1..size -> 1..MaxIn]
    BY LenProperties DEF TypeOK
  <2>2. QED
    BY <2>1 DEF Counted
<1>3. QED
  BY <1>1, <1>2

-----------------------------------------------------------------------------
(* The inductive invariant: the start, and the steps of the thread.        *)

LEMMA InvInit == Init => Inv
<1>1. << >> \in Seq(1..MaxIn) /\ Len(<< >>) = 0
  BY EmptySeq
<1>2. ASSUME Init PROVE Inv
  <2>1. result \in [of : {"new", "drop", "read"} \cup Calls \cup Queries,
                    kind : {"ok", "err", "eof"} \cup Panics]
    BY <1>2 DEF Init
  <2>2. {slot, open, reported, readerEnd} \subseteq BOOLEAN
    BY <1>2 DEF Init
  <2>a. Len(chunk) = 0 /\ Len(pipe) = 0 /\ call = "new" /\ left = 0
    BY <1>1, <1>2 DEF Init
  <2>b. TypeOK
    BY <1>1, <1>2, <2>1, <2>2, <2>a DEF Init, TypeOK
  <2>3. Counted /\ Position /\ Custody
    BY <1>1, <1>2 DEF Init, Counted, Position, Custody, Joining, Building
  <2>4. InOrder
    BY <1>1, <1>2 DEF Init, InOrder, IsPrefix
  <2>5. QED
    BY <2>b, <2>3, <2>4 DEF Inv
<1>3. QED
  BY <1>2

LEMMA HelperInv ==
  ASSUME Inv, Helper
  PROVE  Inv'
<1>0. TypeOK /\ Counted /\ InOrder /\ Position /\ Custody
  BY DEF Inv
<1>1. CASE ReadBoxed
  <2>1. /\ thread = "read" /\ thread' = "write" /\ chunk = << >>
        /\ UNCHANGED << source, caller, pipe, readerEnd, delivered >>
    BY <1>0, <1>1 DEF ReadBoxed, Position
  <2>2. /\ Counted' /\ InOrder' /\ chunk' \in Bytes /\ Len(chunk') <= CopyBuf
        /\ produced' \in Bytes
    BY <1>0, <1>1, <2>1, YieldMoves
  <2>3. call # "fill" /\ call # "new"
    BY <1>0, <2>1 DEF Custody
  <2>4. TypeOK'
    BY <1>0, <2>1, <2>2, <2>3 DEF TypeOK, caller, Bytes
  <2>5. Position' /\ Custody'
    BY <1>0, <2>1, <2>3 DEF Position, Custody, caller
  <2>6. QED
    BY <2>2, <2>4, <2>5 DEF Inv
<1>2. CASE ReadBoxedEnds
  <2>1. /\ thread = "read" /\ chunk = << >>
        /\ \/ thread' = "ok" /\ Len(produced) = size
           \/ thread' \in {"err", "panicked"}
        /\ UNCHANGED << source, caller, pipe, readerEnd, chunk, produced, delivered >>
    BY <1>0, <1>2 DEF ReadBoxedEnds, Position
  <2>2. TypeOK'
    BY <1>0, <2>1 DEF TypeOK, caller, Ended
  <2>3. Counted' /\ InOrder'
    BY <1>0, <2>1 DEF Counted, InOrder, source
  <2>4. Position'
    BY <1>0, <2>1 DEF Position, caller, source, Custody
  <2>5. Custody'
    BY <1>0, <2>1 DEF Custody, caller
  <2>6. QED
    BY <2>2, <2>3, <2>4, <2>5 DEF Inv
<1>3. CASE WritePipe
  <2>1. /\ thread = "write"
        /\ UNCHANGED << source, caller, readerEnd, produced, delivered >>
    BY <1>3 DEF WritePipe
  <2>2. call # "fill" /\ call # "new"
    BY <1>0, <2>1 DEF Custody
  <2>3. CASE ~readerEnd /\ thread' = "broken" /\ UNCHANGED << pipe, chunk >>
    <3>1. TypeOK' /\ Counted' /\ InOrder'
      BY <1>0, <2>1, <2>3 DEF TypeOK, Counted, InOrder, caller, source, Ended
    <3>2. Position' /\ Custody'
      BY <1>0, <2>1, <2>3 DEF Position, Custody, caller
    <3>3. QED
      BY <3>1, <3>2 DEF Inv
  <2>4. CASE readerEnd /\ Len(pipe) < PipeCap
             /\ \E k \in 1..Least(Len(chunk), PipeCap - Len(pipe)) :
                   pipe' = pipe \o Take(chunk, k) /\ chunk' = Skip(chunk, k)
             /\ thread' = IF chunk' = << >> THEN "read" ELSE "write"
    <3>1. /\ InOrder'
          /\ pipe' \in Bytes /\ Len(pipe') <= PipeCap
          /\ chunk' \in Bytes /\ Len(chunk') <= Len(chunk)
      BY <1>0, <2>1, <2>4, PourMoves
    <3>2. Len(chunk) \in Nat /\ Len(chunk') \in Nat /\ Len(chunk') <= CopyBuf
      BY <1>0, <2>2, <3>1, LenProperties DEF TypeOK, Bytes
    <3>3. TypeOK' /\ Counted'
      BY <1>0, <2>1, <2>2, <2>4, <3>1, <3>2 DEF TypeOK, Counted, caller, source, Bytes
    <3>4. Position' /\ Custody'
      BY <1>0, <2>1, <2>2, <2>4 DEF Position, Custody, caller
    <3>5. QED
      BY <3>1, <3>3, <3>4 DEF Inv
  <2>5. QED
    BY <1>3, <2>3, <2>4 DEF WritePipe
<1>4. QED
  BY <1>1, <1>2, <1>3 DEF Helper

-----------------------------------------------------------------------------
(* The steps of the caller.                                                *)

Kinds == {"ok", "err", "eof"} \cup Panics
Names == {"drop", "read"} \cup Calls \cup Queries

(* A call that returns leaves the bytes where they are.                    *)
LEMMA ReturnTypes ==
  ASSUME NEW name \in Names, NEW kind \in Kinds, reported \in BOOLEAN, Return(name, kind)
  PROVE  /\ call' = "idle" /\ left' = 0 /\ left' \in 0..MaxArg
         /\ result' = [of |-> name, kind |-> kind]
         /\ result' \in [of : {"new", "drop", "read"} \cup Calls \cup Queries,
                         kind : {"ok", "err", "eof"} \cup Panics]
         /\ reported' \in BOOLEAN
         /\ kind \notin {"ok", "eof"} => reported'
         /\ reported => reported'
<1>1. /\ call' = "idle" /\ left' = 0 /\ result' = [of |-> name, kind |-> kind]
      /\ reported' = (reported \/ kind \notin {"ok", "eof"})
  BY DEF Return
<1>2. /\ reported' \in BOOLEAN /\ reported => reported'
      /\ kind \notin {"ok", "eof"} => reported'
  BY <1>1
<1>3. QED
  BY <1>1, <1>2 DEF Names, Kinds

(* A return, with the thread still in the slot or its loss reported.       *)
LEMMA ReturnInv ==
  ASSUME Inv, call \notin Building,
         NEW name \in Names, NEW kind \in Kinds, Return(name, kind),
         UNCHANGED << source, resources, slot, helper, pipe, delivered >>,
         open' \in BOOLEAN, readerEnd' \in BOOLEAN, readerEnd' => readerEnd,
         resources = "PipedThread" => readerEnd' = readerEnd,
         slot \/ reported \/ kind \notin {"ok", "eof"} \/ ~open'
            \/ resources = "PipeReader",
         name = "drop" => ~open'
  PROVE  Inv'
<1>0. TypeOK /\ Counted /\ InOrder /\ Position /\ Custody
  BY DEF Inv
<1>1. /\ call' = "idle" /\ left' = 0 /\ left' \in 0..MaxArg
      /\ result' = [of |-> name, kind |-> kind]
      /\ result' \in [of : {"new", "drop", "read"} \cup Calls \cup Queries,
                      kind : {"ok", "err", "eof"} \cup Panics]
      /\ reported' \in BOOLEAN
      /\ kind \notin {"ok", "eof"} => reported'
      /\ reported => reported'
  BY <1>0, ReturnTypes DEF TypeOK
<1>2. TypeOK'
  BY <1>0, <1>1 DEF TypeOK, helper, Building
<1>3. Counted' /\ InOrder'
  BY <1>0 DEF Counted, InOrder, source, helper
<1>4. Position'
  BY <1>0, <1>1 DEF Position, helper, source, Building
<1>5. resources = "PipedThread" /\ open' /\ ~slot' => reported'
  BY <1>0, <1>1 DEF TypeOK
<1>6. Custody'
  BY <1>0, <1>1, <1>5 DEF Custody, helper, Building, Joining
<1>7. QED
  BY <1>2, <1>3, <1>4, <1>6 DEF Inv

(* A call that takes the thread out of the slot, closes the pipe and waits.*)
LEMMA JoinInv ==
  ASSUME Inv, call \notin Building, resources = "PipedThread", slot,
         slot' = FALSE, readerEnd' = FALSE,
         \/ call' = "join_err" /\ UNCHANGED open /\ open
         \/ call' = "join_drop" /\ open' = FALSE,
         left' \in 0..MaxArg, result.of # "drop",
         UNCHANGED << source, resources, result, reported, helper, pipe, delivered >>
  PROVE  Inv'
<1>0. TypeOK /\ Counted /\ InOrder /\ Position /\ Custody
  BY DEF Inv
<1>1. TypeOK'
  BY <1>0 DEF TypeOK, helper, Building
<1>2. Counted' /\ InOrder'
  BY <1>0 DEF Counted, InOrder, source, helper
<1>3. Position' /\ Custody'
  BY <1>0 DEF Position, Custody, helper, source, Building, Joining
<1>4. QED
  BY <1>1, <1>2, <1>3 DEF Inv

LEMMA BuildInv ==
  ASSUME Inv, NewPipedThread \/ NewBytes \/ Fill
  PROVE  Inv'
<1>0. TypeOK /\ Counted /\ InOrder /\ Position /\ Custody
  BY DEF Inv
<1>e. << >> \in Bytes /\ Len(<< >>) = 0 /\ (<< >> \o << >>) = << >>
  BY EmptySeq, ConcatEmptySeq DEF Bytes
<1>n. call = "new" => /\ produced = << >> /\ chunk = << >> /\ pipe = << >>
                      /\ delivered = << >>
  BY <1>0 DEF Position
<1>1. CASE NewPipedThread
  <2>1. /\ call = "new" /\ call' = "idle" /\ open' = TRUE /\ slot' = TRUE
        /\ readerEnd' = TRUE /\ thread' = "read" /\ resources' = "PipedThread"
        /\ UNCHANGED << source, left, result, reported, pipe, delivered, chunk, produced >>
    BY <1>1 DEF NewPipedThread
  <2>2. TypeOK'
    BY <1>0, <1>e, <1>n, <2>1 DEF TypeOK, Bytes
  <2>3. Counted'
    BY <1>0, <2>1 DEF Counted, source
  <2>4. InOrder'
    BY <1>0, <1>e, <1>n, <2>1 DEF InOrder
  <2>5. Position' /\ Custody'
    BY <1>0, <1>n, <2>1 DEF Position, Custody, Building, Joining
  <2>6. QED
    BY <2>2, <2>3, <2>4, <2>5 DEF Inv
<1>2. CASE NewBytes
  <2>1. /\ call = "new" /\ call' = "fill" /\ readerEnd' = TRUE /\ resources' = "PipeReader"
        /\ produced' = [i \in 1..size |-> i] /\ chunk' = produced' /\ size <= PipeBuf
        /\ UNCHANGED << source, slot, open, left, result, reported, pipe, delivered, thread >>
    BY <1>2 DEF NewBytes, Inline
  <2>2. size \in Nat /\ size <= MaxIn /\ Numbers(<< >>, size) = [i \in 1..size |-> i]
    BY <1>0, <1>e DEF Counted, Numbers
  <2>3. /\ produced' \in Bytes /\ Len(produced') = size
        /\ \A i \in 1..Len(produced') : produced'[i] = i
    BY <1>e, <2>1, <2>2, NumbersType DEF Bytes
  <2>4. TypeOK'
    BY <1>0, <2>1, <2>2, <2>3 DEF TypeOK, Bytes
  <2>5. Counted'
    BY <1>0, <2>1, <2>2, <2>3 DEF Counted, source
  <2>6. InOrder'
    <3>1. (<< >> \o << >>) \o produced' = produced'
      BY <1>e, <2>3, ConcatEmptySeq DEF Bytes
    <3>2. IsPrefix(<< >>, (<< >> \o << >>) \o produced')
      BY <1>e, <2>3, PrefixOfFlow DEF IsPrefix, Bytes
    <3>3. QED
      BY <1>n, <2>1, <3>1, <3>2 DEF InOrder
  <2>7. Position' /\ Custody'
    BY <1>0, <2>1, <2>3 DEF Position, Custody, Building, Joining, source
  <2>8. QED
    BY <2>4, <2>5, <2>6, <2>7 DEF Inv
<1>3. CASE Fill
  <2>1. /\ call = "fill" /\ readerEnd /\ Len(produced) = size
        /\ thread = "none" /\ resources = "PipeReader" /\ ~open
        /\ UNCHANGED << source, resources, slot, left, result, reported, readerEnd,
                        delivered, thread, produced >>
    BY <1>0, <1>3 DEF Fill, Position, Custody, Building
  <2>2. CASE chunk = << >> /\ call' = "idle" /\ open' = TRUE /\ UNCHANGED << pipe, chunk >>
    <3>1. TypeOK' /\ Counted' /\ InOrder'
      BY <1>0, <1>e, <2>1, <2>2 DEF TypeOK, Counted, InOrder, source
    <3>2. Position' /\ Custody'
      BY <1>0, <2>1, <2>2 DEF Position, Custody, Building, Joining, source
    <3>3. QED
      BY <3>1, <3>2 DEF Inv
  <2>3. CASE /\ \E k \in 1..Least(Len(chunk), PipeCap - Len(pipe)) :
                   pipe' = pipe \o Take(chunk, k) /\ chunk' = Skip(chunk, k)
             /\ UNCHANGED << call, open >>
    <3>1. /\ InOrder'
          /\ pipe' \in Bytes /\ Len(pipe') <= PipeCap
          /\ chunk' \in Bytes /\ Len(chunk') <= Len(chunk)
      BY <1>0, <2>1, <2>3, PourMoves
    <3>2. Len(chunk) \in Nat /\ Len(chunk') \in Nat /\ Len(chunk') <= PipeBuf
      BY <1>0, <2>1, <3>1, LenProperties DEF TypeOK, Bytes
    <3>3. TypeOK' /\ Counted'
      BY <1>0, <2>1, <2>3, <3>1, <3>2 DEF TypeOK, Counted, source, Bytes
    <3>4. Position' /\ Custody'
      BY <1>0, <2>1, <2>3 DEF Position, Custody, Building, Joining, source
    <3>5. QED
      BY <3>1, <3>3, <3>4 DEF Inv
  <2>4. QED
    BY <1>3, <2>2, <2>3 DEF Fill
<1>4. QED
  BY <1>1, <1>2, <1>3

(* An error of the pipe: the thread, if it is still there, is joined for   *)
(* the error it died of.                                                   *)
LEMMA MapErrInv ==
  ASSUME Inv, Reading, MapErr(call),
         UNCHANGED << source, resources, open, helper, pipe, delivered >>
  PROVE  Inv'
<1>0. TypeOK /\ Custody
  BY DEF Inv
<1>1. /\ call \notin Building /\ call \in Names /\ call # "drop" /\ open
      /\ resources \in {"PipedThread", "PipeReader"} /\ result.of # "drop"
  BY <1>0 DEF Reading, Building, TypeOK, Custody, Names
<1>2. /\ open' \in BOOLEAN
      /\ UNCHANGED << source, resources, helper, pipe, delivered >>
      /\ {"err", "no_thread"} \subseteq Kinds
  BY <1>0 DEF TypeOK, Kinds, Panics
<1>3. CASE resources = "PipeReader" \/ ~slot
  <2>1. PICK kind \in {"err", "no_thread"} : Return(call, kind)
    BY <1>1, <1>3 DEF MapErr
  <2>2. slot' = slot /\ readerEnd' = readerEnd
    BY <1>1, <1>3 DEF MapErr
  <2>3. kind \in Kinds /\ kind \notin {"ok", "eof"}
    BY <1>2, <2>1
  <2>4. /\ readerEnd' \in BOOLEAN
        /\ UNCHANGED << source, resources, slot, helper, pipe, delivered >>
    BY <1>0, <2>2 DEF TypeOK
  <2>5. QED
    BY <1>1, <1>2, <2>1, <2>2, <2>3, <2>4, ReturnInv
<1>4. CASE resources = "PipedThread" /\ slot
  <2>1. /\ slot' = FALSE /\ readerEnd' = FALSE /\ call' = "join_err" /\ left' = 0
        /\ UNCHANGED << result, reported >>
    BY <1>4 DEF MapErr
  <2>2. left' \in 0..MaxArg
    BY <2>1
  <2>3. QED
    BY <1>1, <1>4, <2>1, <2>2, JoinInv
<1>5. QED
  BY <1>1, <1>3, <1>4

LEMMA CallerInv ==
  ASSUME Inv,
         BeginRead \/ Inquire \/ BeginDrop \/ Get \/ GetEnd \/ GetFails \/ JoinErr \/ JoinDrop
  PROVE  Inv'
<1>0. TypeOK /\ Counted /\ InOrder /\ Position /\ Custody
  BY DEF Inv
<1>k. /\ {"ok", "err", "eof", "no_thread", "no_error", "thread_failed",
          "thread_panicked"} = Kinds
      /\ {"drop", "read", "num_ready_bytes", "peek"} \cup Calls = Names
  BY DEF Kinds, Panics, Names, Queries
<1>1. CASE BeginRead
  <2>1. /\ open /\ call = "idle" /\ call' \in Calls /\ left' \in 0..MaxArg
        /\ UNCHANGED << source, resources, slot, open, result, reported, helper, pipe,
                        readerEnd, delivered >>
    BY <1>1 DEF BeginRead
  <2>2. call' \notin Building \cup Joining
    BY <2>1 DEF Building, Joining
  <2>3. TypeOK' /\ Counted' /\ InOrder'
    BY <1>0, <2>1, <2>2 DEF TypeOK, Counted, InOrder, helper, source, Building
  <2>4. Position' /\ Custody'
    BY <1>0, <2>1, <2>2 DEF Position, Custody, helper, source, Building, Joining
  <2>5. QED
    BY <2>3, <2>4 DEF Inv
<1>2. CASE Inquire
  <2>1. open /\ call = "idle" /\ UNCHANGED << source, resources, slot, open, helper, pipe,
                                              readerEnd, delivered >>
    BY <1>2 DEF Inquire
  <2>2. PICK name \in {"num_ready_bytes", "peek"}, kind \in {"ok", "no_thread"} :
           Return(name, kind)
    BY <1>2 DEF Inquire
  <2>3. slot \/ reported \/ resources = "PipeReader"
    BY <1>0, <2>1 DEF Custody, Joining, TypeOK
  <2>4. call \notin Building
    BY <2>1 DEF Building
  <2>5. name \in Names /\ kind \in Kinds /\ name # "drop"
    BY <1>k, <2>2
  <2>6. /\ open' \in BOOLEAN /\ readerEnd' \in BOOLEAN /\ readerEnd' = readerEnd
        /\ UNCHANGED << source, resources, slot, helper, pipe, delivered >>
    BY <1>0, <2>1 DEF TypeOK
  <2>7. QED
    BY <2>2, <2>3, <2>4, <2>5, <2>6, ReturnInv
<1>3. CASE BeginDrop
  <2>1. /\ open /\ call = "idle" /\ open' = FALSE
        /\ UNCHANGED << source, resources, helper, pipe, delivered >>
    BY <1>3 DEF BeginDrop
  <2>2. /\ call \notin Building /\ resources \in {"PipedThread", "PipeReader"}
        /\ result.of # "drop"
    BY <1>0, <2>1 DEF Building, TypeOK, Custody
  <2>3. CASE resources = "PipeReader"
    <3>1. Return("drop", "ok") /\ readerEnd' = FALSE /\ UNCHANGED slot
      BY <1>3, <2>3 DEF BeginDrop
    <3>2. "drop" \in Names /\ "ok" \in Kinds
      BY <1>k
    <3>3. QED
      BY <2>1, <2>2, <2>3, <3>1, <3>2, ReturnInv
  <2>4. CASE resources = "PipedThread" /\ slot
    <3>1. /\ slot' = FALSE /\ readerEnd' = FALSE /\ call' = "join_drop"
          /\ UNCHANGED << left, result, reported >>
      BY <1>3, <2>4 DEF BeginDrop
    <3>2. left' \in 0..MaxArg
      BY <1>0, <3>1 DEF TypeOK
    <3>3. QED
      BY <2>1, <2>2, <2>4, <3>1, <3>2, JoinInv
  <2>5. CASE resources = "PipedThread" /\ ~slot
    <3>1. Return("drop", "no_thread") /\ UNCHANGED << slot, readerEnd >>
      BY <1>3, <2>5 DEF BeginDrop
    <3>2. "drop" \in Names /\ "no_thread" \in Kinds /\ readerEnd' \in BOOLEAN
      BY <1>0, <1>k, <3>1 DEF TypeOK
    <3>3. QED
      BY <2>1, <2>2, <2>5, <3>1, <3>2, ReturnInv
  <2>6. QED
    BY <2>2, <2>3, <2>4, <2>5
<1>4. CASE Get
  <2>1. /\ Reading /\ readerEnd
        /\ UNCHANGED << source, resources, slot, open, helper, readerEnd >>
    BY <1>4 DEF Get
  <2>2. /\ call \notin Building \cup Joining \cup {"idle"} /\ call \in Names
        /\ call # "drop" /\ open /\ result.of # "drop"
        /\ resources \in {"PipedThread", "PipeReader"}
    BY <1>0, <2>1 DEF Reading, Building, Joining, TypeOK, Custody, Names
  <2>3. /\ InOrder' /\ pipe' \in Bytes /\ Len(pipe') <= PipeCap /\ delivered' \in Bytes
    BY <1>0, <1>4, GetMoves
  <2>4. \/ Return(call, "ok")
        \/ left' \in 0..MaxArg /\ UNCHANGED << call, result, reported >>
    <3>1. PICK k \in 1..Least(left, Len(pipe)) :
             CASE call = "read" \/ (call = "read_exact" /\ k = left) ->
                    Return(call, "ok")
               [] call = "read_exact" /\ k # left ->
                    left' = left - k /\ UNCHANGED << call, result, reported >>
               [] OTHER -> UNCHANGED << call, left, result, reported >>
      BY <1>4 DEF Get
    <3>2. k \in Nat /\ k <= left /\ left \in 0..MaxArg
      BY <1>0, LenProperties DEF TypeOK, Least
    <3>3. left' = left - k => left' \in 0..MaxArg
      BY <3>2
    <3>4. left' = left => left' \in 0..MaxArg
      BY <3>2
    <3>5. QED
      BY <3>1, <3>3, <3>4
  <2>5. /\ call' \in {call, "idle"} /\ left' \in 0..MaxArg /\ reported' \in BOOLEAN
        /\ result' \in [of : {"new", "drop", "read"} \cup Calls \cup Queries,
                        kind : {"ok", "err", "eof"} \cup Panics]
        /\ reported => reported'
        /\ result'.of # "drop"
    <3>1. CASE Return(call, "ok")
      <4>1. "ok" \in Kinds /\ reported \in BOOLEAN
        BY <1>0, <1>k DEF TypeOK
      <4>2. QED
        BY <2>2, <3>1, <4>1, ReturnTypes
    <3>2. CASE left' \in 0..MaxArg /\ UNCHANGED << call, result, reported >>
      BY <1>0, <2>2, <3>2 DEF TypeOK
    <3>3. QED
      BY <2>4, <3>1, <3>2
  <2>6. TypeOK'
    BY <1>0, <2>1, <2>2, <2>3, <2>5 DEF TypeOK, helper, Building, Bytes
  <2>7. Counted'
    BY <1>0, <2>1 DEF Counted, source, helper
  <2>8. Position'
    BY <1>0, <2>1, <2>2, <2>5 DEF Position, source, helper, Building
  <2>9. Custody'
    BY <1>0, <2>1, <2>2, <2>5 DEF Custody, helper, Building, Joining
  <2>10. QED
    BY <2>3, <2>6, <2>7, <2>8, <2>9 DEF Inv
<1>5. CASE GetEnd
  <2>1. Reading /\ readerEnd /\ UNCHANGED << source, resources, open, helper, pipe, delivered >>
    BY <1>5 DEF GetEnd
  <2>2. CASE Return(call, "eof") /\ UNCHANGED << slot, readerEnd >>
    <3>1. /\ call \notin Building /\ call \in Names /\ call # "drop" /\ open
          /\ slot \/ resources = "PipeReader"
      BY <1>0, <2>1 DEF Reading, Building, TypeOK, Custody, Names
    <3>2. "eof" \in Kinds /\ open' \in BOOLEAN /\ readerEnd' \in BOOLEAN
      BY <1>0, <1>k, <2>1, <2>2 DEF TypeOK
    <3>3. QED
      BY <2>1, <2>2, <3>1, <3>2, ReturnInv
  <2>3. CASE MapErr(call)
    BY <2>1, <2>3, MapErrInv
  <2>4. QED
    BY <1>5, <2>2, <2>3 DEF GetEnd
<1>6. CASE GetFails
  BY <1>6, MapErrInv DEF GetFails
<1>7. CASE JoinErr
  <2>1. call = "join_err" /\ UNCHANGED << source, resources, slot, open, helper, pipe,
                                          readerEnd, delivered >>
    BY <1>7 DEF JoinErr
  <2>2. PICK kind \in {"err", "no_error", "thread_panicked"} : Return("read", kind)
    BY <1>7 DEF JoinErr
  <2>3. /\ call \notin Building /\ "read" \in Names /\ kind \in Kinds
        /\ kind \notin {"ok", "eof"}
    BY <1>k, <2>1, <2>2 DEF Building
  <2>4. open' \in BOOLEAN /\ readerEnd' \in BOOLEAN /\ readerEnd' = readerEnd
    BY <1>0, <2>1 DEF TypeOK
  <2>5. QED
    BY <2>1, <2>2, <2>3, <2>4, ReturnInv
<1>8. CASE JoinDrop
  <2>1. call = "join_drop" /\ UNCHANGED << source, resources, slot, open, helper, pipe,
                                           readerEnd, delivered >>
    BY <1>8 DEF JoinDrop
  <2>2. PICK kind \in {"ok", "thread_failed", "thread_panicked"} : Return("drop", kind)
    BY <1>8 DEF JoinDrop
  <2>3. /\ call \notin Building /\ "drop" \in Names /\ kind \in Kinds /\ ~open'
    BY <1>0, <1>k, <2>1, <2>2 DEF Building, Custody
  <2>4. open' \in BOOLEAN /\ readerEnd' \in BOOLEAN /\ readerEnd' = readerEnd
    BY <1>0, <2>1 DEF TypeOK
  <2>5. QED
    BY <2>1, <2>2, <2>3, <2>4, ReturnInv
<1>9. QED
  BY <1>1, <1>2, <1>3, <1>4, <1>5, <1>6, <1>7, <1>8

-----------------------------------------------------------------------------
(* Theorems.                                                               *)

LEMMA InvNext ==
  ASSUME Inv, [Next]_vars
  PROVE  Inv'
<1>1. CASE UNCHANGED vars
  BY <1>1 DEF Inv, TypeOK, Counted, InOrder, Position, Custody, vars, source, caller, helper
<1>2. QED
  BY <1>1, HelperInv, BuildInv, CallerInv DEF Next, Continue, Closed

(* The inductive invariant, for all constants.                             *)
THEOREM Invariant == Spec => []Inv
BY InvInit, InvNext, PTL DEF Spec

(* Type correctness of PipedReader; the pipe never holds more than it can. *)
THEOREM TypeCorrect == Spec => []TypeOK
<1>1. Inv => TypeOK
  BY DEF Inv
<1>2. QED
  BY <1>1, Invariant, PTL

(* No byte is lost, repeated or reordered on its way to the caller, until  *)
(* map_err or drop gives up the pipe.                                      *)
THEOREM InOrderCorrect == Spec => []InOrder
<1>1. Inv => InOrder
  BY DEF Inv
<1>2. QED
  BY <1>1, Invariant, PTL

-----------------------------------------------------------------------------
(* The stream implements the reader it was made of.                        *)

Input == [i \in 1..size |-> i]
Broken == thread \in {"err", "panicked"}

(* A call that returns does so to a user of the abstract reader too.       *)
LEMMA ReturnImplements ==
  ASSUME Inv, open \/ call # "idle",
         NEW name \in Names, NEW kind \in Kinds, Return(name, kind),
         UNCHANGED << size, thread, delivered >>,
         kind = "eof" => delivered = Input \/ Broken,
         name = "drop" /\ kind = "ok" => ~Broken,
         name = "drop" /\ kind # "ok" => Broken \/ reported
  PROVE  [Reader!Next]_(Reader!vars)
<1>1. result.of # "drop"
  BY DEF Inv, Custody
<1>2. result' = [of |-> name, kind |-> kind]
  BY DEF Return
<1>3. result'.of = name /\ result'.kind = kind
  BY <1>2
<1>4. result' \in [of : (Calls \cup {"read"} \cup Queries) \cup {"drop"},
                   kind : {"ok", "eof", "err"} \cup Panics]
  BY <1>2 DEF Names, Kinds
<1>5. reported' = (reported \/ result'.kind \notin {"ok", "eof"})
  BY <1>3 DEF Return
<1>6. UNCHANGED << Input, delivered, Broken >>
  BY DEF Input, Broken
<1>7. Reader!Return
  BY <1>1, <1>3, <1>4, <1>5, <1>6
     DEF Reader!Return, Reader!Live, Reader!Fine, Input, Broken
<1>8. QED
  BY <1>7 DEF Reader!Next

(* A read of the pipe gives the user the next bytes of the input.          *)
LEMMA GetImplements ==
  ASSUME Inv, Get
  PROVE  Reader!Deliver
<1>0. TypeOK /\ Counted /\ InOrder /\ Custody
  BY DEF Inv
<1>1. /\ delivered' \in Bytes /\ Len(delivered') > Len(delivered) /\ InOrder'
      /\ UNCHANGED << size, thread, produced >>
  BY <1>0, GetMoves DEF Get, helper, source
<1>2. /\ Len(delivered) \in Nat /\ Len(delivered') \in Nat /\ size \in Nat
      /\ Len(delivered') <= Len(produced) /\ Len(produced) <= size
      /\ Len(produced) \in Nat
  BY <1>0, <1>1, LenProperties DEF TypeOK, Bytes, Counted, InOrder, IsPrefix
<1>3. delivered' = SubSeq(Input, 1, Len(delivered'))
  <2>1. /\ produced \in Seq(1..MaxIn)
        /\ SubSeq(delivered', 1, Len(delivered')) = SubSeq(produced, 1, Len(delivered'))
        /\ \A i \in 1..Len(produced) : produced[i] = i
    BY <1>0, <1>1 DEF TypeOK, Counted, InOrder, IsPrefix
  <2>2. QED
    BY <1>1, <1>2, <2>1, PrefixOfNumbers DEF Input, Bytes
<1>4. Len(Input) = size
  BY <1>2 DEF Input
<1>5. Len(delivered') \in Len(delivered) + 1 .. Len(Input)
  BY <1>1, <1>2, <1>4
<1>6. \/ Return(call, "ok") \/ UNCHANGED << result, reported >>
  BY DEF Get
<1>7. /\ result' \in {result} \cup [of : Calls \cup {"read"} \cup Queries, kind : {"ok"}]
      /\ UNCHANGED reported
  <2>1. CASE Return(call, "ok")
    <3>1. result' = [of |-> call, kind |-> "ok"] /\ reported' = (reported \/ FALSE)
      BY <2>1 DEF Return
    <3>2. call \in Calls
      BY <1>0 DEF Get, Reading, TypeOK
    <3>3. QED
      BY <1>0, <3>1, <3>2 DEF TypeOK
  <2>2. CASE UNCHANGED << result, reported >>
    BY <2>2
  <2>3. QED
    BY <1>6, <2>1, <2>2
<1>8. result.of # "drop"
  BY <1>0 DEF Get, Reading, Custody
<1>9. UNCHANGED << Input, Broken, reported >>
  BY <1>1, <1>7 DEF Input, Broken
<1>10. QED
  BY <1>3, <1>5, <1>7, <1>8, <1>9 DEF Reader!Deliver, Reader!Live, Input, Broken

(* map_err returns an error, or begins to wait for one.                    *)
LEMMA MapErrImplements ==
  ASSUME Inv, Reading, MapErr(call), UNCHANGED << size, thread, delivered >>
  PROVE  [Reader!Next]_(Reader!vars)
<1>0. TypeOK /\ Custody
  BY DEF Inv
<1>1. CASE UNCHANGED << result, reported >>
  BY <1>1 DEF Reader!vars
<1>2. CASE Return(call, "err") \/ Return(call, "no_thread")
  <2>1. PICK kind \in {"err", "no_thread"} : Return(call, kind)
    BY <1>2
  <2>2. kind \in Kinds /\ kind # "eof" /\ call \in Names /\ call # "drop" /\ call # "idle"
    BY <1>0, <2>1 DEF Kinds, Panics, Names, Reading, TypeOK
  <2>3. QED
    BY <2>1, <2>2, ReturnImplements
<1>3. QED
  BY <1>1, <1>2 DEF MapErr

LEMMA StepImplements ==
  ASSUME Inv, [Next]_vars
  PROVE  [Reader!Next]_(Reader!vars)
<1>0. TypeOK /\ Counted /\ InOrder /\ Position /\ Custody
  BY DEF Inv
<1>k. /\ {"ok", "err", "eof", "no_thread", "no_error", "thread_failed",
          "thread_panicked"} = Kinds
      /\ {"drop", "read", "num_ready_bytes", "peek"} \cup Calls = Names
  BY DEF Kinds, Panics, Names, Queries
<1>s. ASSUME UNCHANGED << size, delivered, Broken, result, reported >>
      PROVE  UNCHANGED Reader!vars
  BY <1>s DEF Reader!vars, Broken
<1>1. CASE ReadBoxed \/ WritePipe
  BY <1>1, <1>s DEF ReadBoxed, WritePipe, caller, source, Broken
<1>2. CASE ReadBoxedEnds
  <2>1. UNCHANGED << size, delivered, result, reported >>
    BY <1>2 DEF ReadBoxedEnds, caller, source
  <2>2. CASE thread' = "ok"
    BY <1>2, <2>1, <2>2, <1>s DEF ReadBoxedEnds, Broken
  <2>3. CASE thread' \in {"err", "panicked"}
    BY <2>1, <2>3 DEF Reader!Break, Reader!Next
  <2>4. QED
    BY <1>2, <2>2, <2>3 DEF ReadBoxedEnds
<1>3. CASE BeginRead
  BY <1>3, <1>s DEF BeginRead, helper, source, Broken
<1>4. CASE Inquire
  <2>1. PICK name \in {"num_ready_bytes", "peek"}, kind \in {"ok", "no_thread"} :
           Return(name, kind)
    BY <1>4 DEF Inquire
  <2>2. open /\ UNCHANGED << size, thread, delivered >>
    BY <1>4 DEF Inquire, helper, source
  <2>3. name \in Names /\ kind \in Kinds /\ name # "drop" /\ kind # "eof"
    BY <1>k, <2>1
  <2>4. QED
    BY <2>1, <2>2, <2>3, ReturnImplements
<1>5. CASE BeginDrop
  <2>1. open /\ call = "idle" /\ UNCHANGED << size, thread, delivered >>
    BY <1>5 DEF BeginDrop, helper, source
  <2>2. resources \in {"PipedThread", "PipeReader"} /\ {"ok", "no_thread"} \subseteq Kinds
        /\ "drop" \in Names
    BY <1>0, <1>k, <2>1 DEF TypeOK, Custody
  <2>3. CASE resources = "PipeReader"
    <3>1. Return("drop", "ok") /\ ~Broken
      BY <1>0, <1>5, <2>3 DEF BeginDrop, Custody, Broken
    <3>2. QED
      BY <2>1, <2>2, <3>1, ReturnImplements
  <2>4. CASE resources = "PipedThread" /\ slot
    <3>1. UNCHANGED << result, reported >>
      BY <1>5, <2>4 DEF BeginDrop
    <3>2. QED
      BY <2>1, <3>1 DEF Reader!vars
  <2>5. CASE resources = "PipedThread" /\ ~slot
    <3>1. Return("drop", "no_thread") /\ reported
      BY <1>0, <1>5, <2>1, <2>5 DEF BeginDrop, Custody, Joining
    <3>2. QED
      BY <2>1, <2>2, <3>1, ReturnImplements
  <2>6. QED
    BY <2>2, <2>3, <2>4, <2>5
<1>6. CASE Get
  BY <1>6, GetImplements DEF Reader!Next
<1>7. CASE GetEnd
  <2>1. Reading /\ readerEnd /\ pipe = << >> /\ WriterGone
        /\ UNCHANGED << size, thread, delivered >>
    BY <1>7 DEF GetEnd, helper, source
  <2>2. CASE Return(call, "eof")
    <3>1. /\ call \in Names /\ call # "drop" /\ call # "idle" /\ call \notin Building
          /\ "eof" \in Kinds
      BY <1>0, <1>k, <2>1 DEF Reading, TypeOK, Building, Names
    <3>2. delivered = Input \/ Broken
      <4>1. CASE thread \in {"ok", "none"}
        BY <1>0, <2>1, <3>1, <4>1, EndReached DEF Position, Input
      <4>2. CASE thread \notin {"ok", "none"}
        BY <1>0, <2>1, <4>2 DEF WriterGone, Ended, Position, Broken
      <4>3. QED
        BY <4>1, <4>2
    <3>3. QED
      BY <2>1, <2>2, <3>1, <3>2, ReturnImplements
  <2>3. CASE MapErr(call)
    BY <2>1, <2>3, MapErrImplements
  <2>4. QED
    BY <1>7, <2>2, <2>3 DEF GetEnd
<1>8. CASE GetFails
  BY <1>8, MapErrImplements DEF GetFails, helper, source
<1>9. CASE JoinErr
  <2>1. call # "idle" /\ UNCHANGED << size, thread, delivered >>
    BY <1>9 DEF JoinErr, helper, source
  <2>2. PICK kind \in {"err", "no_error", "thread_panicked"} : Return("read", kind)
    BY <1>9 DEF JoinErr
  <2>3. "read" \in Names /\ kind \in Kinds /\ kind # "eof"
    BY <1>k, <2>2
  <2>4. QED
    BY <2>1, <2>2, <2>3, ReturnImplements
<1>10. CASE JoinDrop
  <2>1. call # "idle" /\ UNCHANGED << size, thread, delivered >> /\ thread \in Ended
    BY <1>10 DEF JoinDrop, helper, source
  <2>2. PICK kind \in {"ok", "thread_failed", "thread_panicked"} :
           Return("drop", kind) /\ (kind = "ok" <=> ~Broken)
    BY <1>10, <2>1 DEF JoinDrop, Ended, Broken
  <2>3. "drop" \in Names /\ kind \in Kinds /\ kind # "eof"
    BY <1>k, <2>2
  <2>4. QED
    BY <2>1, <2>2, <2>3, ReturnImplements
<1>11. CASE NewPipedThread \/ NewBytes \/ Fill
  <2>1. UNCHANGED << size, delivered, result, reported >>
    BY <1>11 DEF NewPipedThread, NewBytes, Fill, source
  <2>2. UNCHANGED Broken
    <3>1. CASE NewPipedThread
      BY <1>0, <3>1 DEF NewPipedThread, Custody, Broken
    <3>2. CASE NewBytes \/ Fill
      BY <3>2 DEF NewBytes, Fill, Broken
    <3>3. QED
      BY <1>11, <3>1, <3>2
  <2>3. QED
    BY <2>1, <2>2, <1>s
<1>12. CASE UNCHANGED vars
  BY <1>12, <1>s DEF vars, caller, helper, source, Broken
<1>13. QED
  BY <1>1, <1>2, <1>3, <1>4, <1>5, <1>6, <1>7, <1>8, <1>9, <1>10, <1>11, <1>12
     DEF Next, Helper, Continue, Closed

(* StreamReader keeps the promises of `Box<dyn Read>`: the bytes in order, *)
(* an end of the input only at its end or after a failure, and no failure  *)
(* that the user never hears of.                                           *)
THEOREM ImplementsReaderCorrect == Spec => ImplementsReader
<1>1. Init => Reader!Init
  BY DEF Init, Reader!Init
<1>2. Inv /\ [Next]_vars => [Reader!Next]_(Reader!vars)
  BY StepImplements
<1>3. QED
  BY <1>1, <1>2, Invariant, PTL DEF Spec, ImplementsReader, Reader!Spec
=============================================================================
