--------------------------- MODULE AbstractWriter ---------------------------
(***************************************************************************)
(* What `Box<dyn Write>` means to src/streams.rs: an output that takes     *)
(* bytes, lets them arrive in order and in its own time, has let all of    *)
(* them arrive when a flush succeeds, and does not lose any in silence.    *)
(* `StreamWriter::piped_thread` takes such a writer and is one itself.     *)
(***************************************************************************)
EXTENDS Integers, Sequences, SequencesExt

CONSTANTS Writes, Results

VARIABLES
    accepted, \* the bytes taken from the user
    arrived,  \* those that have arrived where the output leads
    last,     \* what the last finished call returned
    reported  \* some call has returned an error or panicked

vars == << accepted, arrived, last, reported >>

Init ==
    /\ accepted = << >> /\ arrived = << >> /\ reported = FALSE
    /\ last = [of |-> "new", kind |-> "ok"]

Live == last.of # "drop"

(* A write, or one of the writes of a longer call.                         *)
Accept ==
    /\ Live
    /\ IsStrictPrefix(accepted, accepted')
    /\ last' \in {last} \cup [of : Writes, kind : {"ok"}]
    /\ UNCHANGED << arrived, reported >>

Arrive ==
    /\ \E n \in Len(arrived) + 1 .. Len(accepted) : arrived' = SubSeq(accepted, 1, n)
    /\ UNCHANGED << accepted, last, reported >>

(* After a loss that was reported the output may be flushed no more, but   *)
(* it may be dropped without another word.                                 *)
Return ==
    /\ Live
    /\ last' \in [of : Writes \cup {"flush", "drop"}, kind : Results]
    /\ last' = [of |-> "flush", kind |-> "ok"] => arrived = accepted
    /\ last' = [of |-> "drop", kind |-> "ok"] => (arrived = accepted \/ reported)
    /\ reported' = (reported \/ last'.kind # "ok")
    /\ UNCHANGED << accepted, arrived >>

Next == Accept \/ Arrive \/ Return

Spec == Init /\ [][Next]_vars
=============================================================================
