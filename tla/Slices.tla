------------------------------- MODULE Slices -------------------------------
(***************************************************************************)
(* Byte strings as the code cuts them: the slices &buf[..n] and &buf[n..]  *)
(* of a buffer, and the numbers that stand for the bytes of a stream whose *)
(* order matters and whose values do not.                                  *)
(***************************************************************************)
EXTENDS Integers, Sequences

Take(s, n) == SubSeq(s, 1, n)
Skip(s, n) == SubSeq(s, n + 1, Len(s))
Least(m, n) == IF m <= n THEN m ELSE n
Holds(s, b) == \E i \in 1..Len(s) : s[i] = b

(* The k bytes that come after those of s.                                 *)
Numbers(s, k) == [i \in 1..k |-> Len(s) + i]
=============================================================================
