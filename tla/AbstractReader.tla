--------------------------- MODULE AbstractReader ---------------------------
(***************************************************************************)
(* What `Box<dyn Read>` means to src/streams.rs: an input that gives its   *)
(* bytes in order, says that it has ended only when it has, may break, and *)
(* says so at the latest when it is dropped.  `StreamReader::piped_thread` *)
(* takes such a reader and is one itself: "They compose with themselves    *)
(* too" (tests/tests.rs).                                                  *)
(***************************************************************************)
EXTENDS Integers, Sequences

CONSTANTS Reads, Results

VARIABLES
    source,    \* the bytes of the input
    delivered, \* those its user has received
    broken,    \* the input has failed
    last,      \* what the last finished call returned
    reported   \* some call has returned an error or panicked

vars == << source, delivered, broken, last, reported >>

Init ==
    /\ delivered = << >> /\ broken = FALSE /\ reported = FALSE
    /\ last = [of |-> "new", kind |-> "ok"]

Live == last.of # "drop"

(* A read, or one of the reads of a longer call.                           *)
Deliver ==
    /\ Live
    /\ \E n \in Len(delivered) + 1 .. Len(source) : delivered' = SubSeq(source, 1, n)
    /\ last' \in {last} \cup [of : Reads, kind : {"ok"}]
    /\ UNCHANGED << source, broken, reported >>

Break == broken' = TRUE /\ UNCHANGED << source, delivered, last, reported >>

Fine == {"ok", "eof"}

(* The end of the input is its end, or hides a failure that drop reports.  *)
Return ==
    /\ Live
    /\ last' \in [of : Reads \cup {"drop"}, kind : Results]
    /\ last'.kind = "eof" => delivered = source \/ broken
    /\ last'.of = "drop" => (last'.kind = "ok" => ~broken)
    /\ last'.of = "drop" => (last'.kind # "ok" => broken \/ reported)
    /\ reported' = (reported \/ last'.kind \notin Fine)
    /\ UNCHANGED << source, delivered, broken >>

Next == Deliver \/ Break \/ Return

Spec == Init /\ [][Next]_vars
=============================================================================
