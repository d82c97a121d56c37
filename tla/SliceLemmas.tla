---------------------------- MODULE SliceLemmas ----------------------------
(***************************************************************************)
(* What slices keep, how byte strings are put together again, and how the  *)
(* frames of a call are taken off: facts that the proofs about every       *)
(* component with a buffer in it rest on.                                  *)
(***************************************************************************)
EXTENDS Slices, SequenceTheorems, TLAPS

(* buf[..n] and buf[n..] are byte strings of n bytes and of the rest.      *)
LEMMA SliceType ==
  ASSUME NEW S, NEW s \in Seq(S), NEW n \in 0..Len(s)
  PROVE  /\ Take(s, n) \in Seq(S) /\ Len(Take(s, n)) = n
         /\ Skip(s, n) \in Seq(S) /\ Len(Skip(s, n)) = Len(s) - n
<1>1. Len(s) \in Nat /\ \A i \in 1..Len(s) : s[i] \in S
  BY LenProperties, ElementOfSeq
<1>2. Take(s, n) \in Seq(S) /\ Len(Take(s, n)) = n
  <2>1. \A i \in 1..n : s[i] \in S
    BY <1>1
  <2>2. QED
    BY <1>1, <2>1, SubSeqProperties DEF Take
<1>3. Skip(s, n) \in Seq(S) /\ Len(Skip(s, n)) = Len(s) - n
  <2>1. \A i \in n + 1..Len(s) : s[i] \in S
    BY <1>1
  <2>2. QED
    BY <1>1, <2>1, SubSeqProperties DEF Skip
<1>4. QED
  BY <1>2, <1>3

(* The slices at the two ends of a buffer.                                 *)
LEMMA SliceEnds ==
  ASSUME NEW S, NEW s \in Seq(S)
  PROVE  /\ Take(s, 0) = << >> /\ Take(s, Len(s)) = s
         /\ Skip(s, 0) = s     /\ Skip(s, Len(s)) = << >>
<1>1. Len(s) \in Nat
  BY LenProperties
<1>2. SubSeq(s, 1, 0) = << >> /\ SubSeq(s, Len(s) + 1, Len(s)) = << >>
  BY <1>1, SubSeqEmpty
<1>3. SubSeq(s, 1, Len(s)) = s
  BY SubSeqFull
<1>4. QED
  BY <1>1, <1>2, <1>3 DEF Take, Skip

(* Moving n bytes from the front of what is left after m to the back of    *)
(* what is in front of it.                                                 *)
LEMMA SliceMove ==
  ASSUME NEW S, NEW s \in Seq(S), NEW front \in Seq(S),
         NEW m \in 0..Len(s), NEW n \in 0..Len(s) - m
  PROVE  (front \o Take(Skip(s, m), n)) \o Skip(s, m + n) = front \o Skip(s, m)
<1>1. Len(s) \in Nat /\ m \in Nat /\ n \in Nat /\ m + n \in 0..Len(s)
  BY LenProperties
<1>2. Skip(s, m) \in Seq(S) /\ Len(Skip(s, m)) = Len(s) - m
      /\ Skip(s, m + n) \in Seq(S)
  BY <1>1, SliceType
<1>3. Take(Skip(s, m), n) \in Seq(S)
  BY <1>1, <1>2, SliceType
<1>4. Take(Skip(s, m), n) = SubSeq(s, m + 1, m + n)
  <2>1. CASE n = 0
    BY <1>1, <2>1, SubSeqEmpty DEF Take
  <2>2. CASE n # 0
    <3>1. /\ m + 1 \in 1..Len(s) /\ Len(s) \in 1..Len(s)
          /\ 1 \in 1..Len(s) - (m + 1) + 1 /\ n \in 1..Len(s) - (m + 1) + 1
      BY <1>1, <2>2
    <3>2. SubSeq(SubSeq(s, m + 1, Len(s)), 1, n)
            = SubSeq(s, (m + 1) + 1 - 1, (m + 1) + n - 1)
      BY ONLY <3>1, s \in Seq(S), SubSeqOfSubSeq
    <3>3. (m + 1) + 1 - 1 = m + 1 /\ (m + 1) + n - 1 = m + n
      BY <1>1
    <3>4. QED
      BY <3>2, <3>3 DEF Take, Skip
  <2>3. QED
    BY <2>1, <2>2
<1>5. Take(Skip(s, m), n) \o Skip(s, m + n) = Skip(s, m)
  <2>1. m + 1 \in 1..Len(s) + 1 /\ m + n \in (m + 1) - 1..Len(s)
        /\ Len(s) \in m + n..Len(s)
    BY <1>1
  <2>2. QED
    BY <1>4, <2>1, ConcatAdjacentSubSeq DEF Skip
<1>6. (front \o Take(Skip(s, m), n)) \o Skip(s, m + n)
        = front \o (Take(Skip(s, m), n) \o Skip(s, m + n))
  <2>1. \A t, u \in Seq(S) : (front \o t) \o u = front \o (t \o u)
    OBVIOUS
  <2>2. Take(Skip(s, m), n) \in Seq(S)
    BY <1>3
  <2>3. Skip(s, m + n) \in Seq(S)
    BY <1>2
  <2>4. QED
    BY ONLY <2>1, <2>2, <2>3
<1>7. QED
  BY <1>5, <1>6

(* What was cut can be joined, here behind what is already there.          *)
LEMMA SliceJoin ==
  ASSUME NEW S, NEW front \in Seq(S), NEW s \in Seq(S), NEW n \in 0..Len(s)
  PROVE  (front \o Take(s, n)) \o Skip(s, n) = front \o s
<1>1. Len(s) \in Nat
  BY LenProperties
<1>2. 0 \in 0..Len(s) /\ n \in 0..Len(s) - 0 /\ 0 + n = n /\ Skip(s, 0) = s
  BY <1>1, SliceEnds
<1>3. (front \o Take(Skip(s, 0), n)) \o Skip(s, 0 + n) = front \o Skip(s, 0)
  BY <1>1, <1>2, SliceMove
<1>4. QED
  BY <1>2, <1>3

(* The front of a longer string is the same.                               *)
LEMMA TakeOfConcat ==
  ASSUME NEW S, NEW s \in Seq(S), NEW t \in Seq(S), NEW n \in 0..Len(s)
  PROVE  Take(s \o t, n) = Take(s, n)
<1>1. Len(s) \in Nat
  BY LenProperties
<1>2. CASE n = 0
  BY <1>2, SubSeqEmpty DEF Take
<1>3. CASE n # 0
  <2>1. 1 \in 1..Len(s) /\ n \in 1..Len(s)
    BY <1>1, <1>3
  <2>2. QED
    BY <2>1, SubSeqOfConcat1 DEF Take
<1>4. QED
  BY <1>2, <1>3

(* What the slices hold.                                                   *)
LEMMA SliceElements ==
  ASSUME NEW S, NEW s \in Seq(S), NEW n \in 0..Len(s)
  PROVE  /\ \A i \in 1..n : Take(s, n)[i] = s[i]
         /\ \A i \in 1..Len(s) - n : Skip(s, n)[i] = s[n + i]
<1>1. Len(s) \in Nat /\ \A i \in 1..Len(s) : s[i] \in S
  BY LenProperties, ElementOfSeq
<1>2. \A i \in 1..n : SubSeq(s, 1, n)[i] = s[i]
  <2>1. (\A i \in 1..n : s[i] \in S) /\ n \in Int /\ n - 1 + 1 = n
    BY <1>1
  <2>2. \A i \in 1..n - 1 + 1 : SubSeq(s, 1, n)[i] = s[1 + i - 1]
    BY <2>1, SubSeqProperties
  <2>3. QED
    BY <2>1, <2>2
<1>3. \A i \in 1..Len(s) - n : SubSeq(s, n + 1, Len(s))[i] = s[n + i]
  <2>1. /\ \A i \in n + 1..Len(s) : s[i] \in S
        /\ n \in Int /\ n + 1 \in Int /\ Len(s) \in Int
        /\ Len(s) - (n + 1) + 1 = Len(s) - n
    BY <1>1
  <2>2. \A i \in 1..Len(s) - (n + 1) + 1 :
           SubSeq(s, n + 1, Len(s))[i] = s[(n + 1) + i - 1]
    BY <2>1, SubSeqProperties
  <2>3. QED
    BY <2>1, <2>2
<1>4. QED
  BY <1>2, <1>3 DEF Take, Skip

(* The back of a string with more behind it.                               *)
LEMMA SkipOfConcat ==
  ASSUME NEW S, NEW s \in Seq(S), NEW t \in Seq(S), NEW n \in 0..Len(s)
  PROVE  Skip(s \o t, n) = Skip(s, n) \o t
<1>1. /\ Len(s) \in Nat /\ Len(t) \in Nat /\ s \o t \in Seq(S)
      /\ Len(s \o t) = Len(s) + Len(t)
      /\ \A i \in 1..Len(s) + Len(t) :
            (s \o t)[i] = IF i <= Len(s) THEN s[i] ELSE t[i - Len(s)]
  BY LenProperties, ConcatProperties
<1>2. /\ Skip(s, n) \in Seq(S) /\ Len(Skip(s, n)) = Len(s) - n
      /\ \A i \in 1..Len(s) - n : Skip(s, n)[i] = s[n + i]
  BY SliceType, SliceElements
<1>3. /\ Skip(s \o t, n) \in Seq(S) /\ Len(Skip(s \o t, n)) = Len(s) + Len(t) - n
      /\ \A i \in 1..Len(s) + Len(t) - n : Skip(s \o t, n)[i] = (s \o t)[n + i]
  <2>1. n \in 0..Len(s \o t)
    BY <1>1
  <2>2. /\ Skip(s \o t, n) \in Seq(S) /\ Len(Skip(s \o t, n)) = Len(s \o t) - n
        /\ \A i \in 1..Len(s \o t) - n : Skip(s \o t, n)[i] = (s \o t)[n + i]
    <3>1. s \o t \in Seq(S)
      BY <1>1
    <3>2. QED
      BY ONLY <2>1, <3>1, SliceType, SliceElements
  <2>3. QED
    BY <1>1, <2>2
<1>4. /\ Skip(s, n) \o t \in Seq(S) /\ Len(Skip(s, n) \o t) = Len(s) - n + Len(t)
      /\ \A i \in 1..Len(s) - n + Len(t) :
            (Skip(s, n) \o t)[i] = IF i <= Len(s) - n THEN Skip(s, n)[i]
                                   ELSE t[i - (Len(s) - n)]
  <2>1. /\ Skip(s, n) \o t \in Seq(S)
        /\ Len(Skip(s, n) \o t) = Len(Skip(s, n)) + Len(t)
        /\ \A i \in 1..Len(Skip(s, n)) + Len(t) :
              (Skip(s, n) \o t)[i] = IF i <= Len(Skip(s, n)) THEN Skip(s, n)[i]
                                     ELSE t[i - Len(Skip(s, n))]
    <3>1. Skip(s, n) \in Seq(S)
      BY <1>2
    <3>2. QED
      BY ONLY <3>1, t \in Seq(S), ConcatProperties
  <2>2. QED
    BY <1>2, <2>1
<1> DEFINE x == Skip(s \o t, n)  y == Skip(s, n) \o t
<1>5. ASSUME NEW i \in 1..Len(x) PROVE x[i] = y[i]
  <2>1. /\ i \in 1..Len(s) + Len(t) - n /\ i \in 1..Len(s) - n + Len(t)
        /\ n + i \in 1..Len(s) + Len(t)
        /\ (n + i <= Len(s)) = (i <= Len(s) - n)
        /\ (n + i) - Len(s) = i - (Len(s) - n)
    BY <1>1, <1>3
  <2>2. x[i] = IF n + i <= Len(s) THEN s[n + i] ELSE t[(n + i) - Len(s)]
    BY <1>1, <1>3, <2>1
  <2>3. y[i] = IF i <= Len(s) - n THEN Skip(s, n)[i] ELSE t[i - (Len(s) - n)]
    BY <1>4, <2>1
  <2>4. CASE i <= Len(s) - n
    <3>1. i \in 1..Len(s) - n
      BY <1>1, <2>1, <2>4
    <3>2. QED
      BY <1>2, <2>1, <2>2, <2>3, <2>4, <3>1
  <2>5. CASE ~(i <= Len(s) - n)
    BY <2>1, <2>2, <2>3, <2>5
  <2>6. QED
    BY <2>4, <2>5
<1>6. Len(x) = Len(y)
  BY <1>1, <1>3, <1>4
<1>7. x \in Seq(S) /\ y \in Seq(S)
  BY <1>3, <1>4
<1> HIDE DEF x, y
<1>8. x = y
  BY <1>5, <1>6, <1>7, SeqEqual
<1>9. QED
  BY <1>8 DEF x, y

(* What neither of two strings holds, both together do not hold.           *)
LEMMA HoldsConcat ==
  ASSUME NEW S, NEW b, NEW s \in Seq(S), NEW t \in Seq(S),
         ~Holds(s, b), ~Holds(t, b)
  PROVE  ~Holds(s \o t, b)
<1>1. /\ Len(s) \in Nat /\ Len(t) \in Nat /\ Len(s \o t) = Len(s) + Len(t)
      /\ \A i \in 1..Len(s) + Len(t) :
            (s \o t)[i] = IF i <= Len(s) THEN s[i] ELSE t[i - Len(s)]
  BY LenProperties, ConcatProperties
<1>2. ASSUME NEW i \in 1..Len(s \o t) PROVE (s \o t)[i] # b
  <2>1. CASE i <= Len(s)
    <3>1. i \in 1..Len(s) /\ (s \o t)[i] = s[i]
      BY <1>1, <2>1
    <3>2. QED
      BY <3>1 DEF Holds
  <2>2. CASE ~(i <= Len(s))
    <3>1. i - Len(s) \in 1..Len(t) /\ (s \o t)[i] = t[i - Len(s)]
      BY <1>1, <2>2
    <3>2. QED
      BY <3>1 DEF Holds
  <2>3. QED
    BY <2>1, <2>2
<1>3. QED
  BY <1>2 DEF Holds

(* What is cut behind the first b, if there is none before, ends with b.   *)
LEMMA FirstDelimiter ==
  ASSUME NEW S, NEW s \in Seq(S), NEW u \in Seq(S), NEW i \in 1..Len(u),
         ~Holds(s, u[i]), ~Holds(Take(u, i - 1), u[i])
  PROVE  /\ (s \o Take(u, i))[Len(s \o Take(u, i))] = u[i]
         /\ ~Holds(Take(s \o Take(u, i), Len(s \o Take(u, i)) - 1), u[i])
<1> DEFINE t == Take(u, i)  got == s \o t  b == u[i]
<1>1. /\ Len(s) \in Nat /\ Len(u) \in Nat /\ i \in 0..Len(u) /\ i - 1 \in 0..Len(u)
  BY LenProperties
<1>2. /\ t \in Seq(S) /\ Len(t) = i /\ \A j \in 1..i : t[j] = u[j]
  BY <1>1, SliceType, SliceElements
<1>3. /\ Len(Take(u, i - 1)) = i - 1 /\ \A j \in 1..i - 1 : Take(u, i - 1)[j] = u[j]
  BY <1>1, SliceType, SliceElements
<1>4. \A j \in 1..i - 1 : u[j] # b
  BY <1>3 DEF Holds
<1>5. \A j \in 1..Len(s) : s[j] # b
  BY DEF Holds
<1> HIDE DEF t
<1>6. /\ got \in Seq(S) /\ Len(got) = Len(s) + i
      /\ \A j \in 1..Len(s) + i : got[j] = IF j <= Len(s) THEN s[j] ELSE t[j - Len(s)]
  <2>1. /\ got \in Seq(S) /\ Len(got) = Len(s) + Len(t)
        /\ \A j \in 1..Len(s) + Len(t) : got[j] = IF j <= Len(s) THEN s[j] ELSE t[j - Len(s)]
    BY <1>2, ConcatProperties
  <2>2. QED
    BY <1>2, <2>1
<1> HIDE DEF got
<1>7. got[Len(got)] = b
  <2>1. Len(got) \in 1..Len(s) + i /\ ~(Len(got) <= Len(s)) /\ Len(got) - Len(s) = i
    BY <1>1, <1>6
  <2>2. got[Len(got)] = t[i]
    BY <1>6, <2>1
  <2>3. QED
    BY <1>2, <2>2
<1>8. Len(got) - 1 \in 0..Len(got)
  BY <1>1, <1>6
<1>9. /\ Len(Take(got, Len(got) - 1)) = Len(got) - 1
      /\ \A j \in 1..Len(got) - 1 : Take(got, Len(got) - 1)[j] = got[j]
  BY <1>6, <1>8, SliceType, SliceElements
<1>10. ASSUME NEW j \in 1..Len(got) - 1 PROVE got[j] # b
  <2>1. CASE j <= Len(s)
    BY <1>1, <1>5, <1>6, <2>1
  <2>2. CASE ~(j <= Len(s))
    <3>1. j - Len(s) \in 1..i - 1 /\ j - Len(s) \in 1..i /\ j \in 1..Len(s) + i
      BY <1>1, <1>6, <2>2
    <3>2. got[j] = u[j - Len(s)]
      BY <1>2, <1>6, <2>2, <3>1
    <3>3. QED
      BY <1>4, <3>1, <3>2
  <2>3. QED
    BY <2>1, <2>2
<1>11. ~Holds(Take(got, Len(got) - 1), b)
  BY <1>9, <1>10 DEF Holds
<1>12. QED
  BY <1>7, <1>11 DEF got, t

(* Nor do the slices of a string that does not.                            *)
LEMMA HoldsSlice ==
  ASSUME NEW S, NEW b, NEW s \in Seq(S), NEW n \in 0..Len(s), ~Holds(s, b)
  PROVE  ~Holds(Take(s, n), b) /\ ~Holds(Skip(s, n), b)
<1>1. /\ Len(s) \in Nat /\ Len(Take(s, n)) = n /\ Len(Skip(s, n)) = Len(s) - n
      /\ \A i \in 1..n : Take(s, n)[i] = s[i]
      /\ \A i \in 1..Len(s) - n : Skip(s, n)[i] = s[n + i]
  BY LenProperties, SliceType, SliceElements
<1>2. \A i \in 1..Len(s) : s[i] # b
  BY DEF Holds
<1>3. \A i \in 1..n : i \in 1..Len(s)
  BY <1>1
<1>4. \A i \in 1..Len(s) - n : n + i \in 1..Len(s)
  BY <1>1
<1>5. QED
  BY <1>1, <1>2, <1>3, <1>4 DEF Holds

(* The last byte of a string is that of its back, also with more in front. *)
LEMMA LastOfSlice ==
  ASSUME NEW S, NEW s \in Seq(S)
  PROVE  /\ \A n \in 1..Len(s) : Take(s, n) # << >> /\ Take(s, n)[Len(Take(s, n))] = s[n]
         /\ \A n \in 0..Len(s) - 1 :
               Skip(s, n) # << >> /\ Skip(s, n)[Len(Skip(s, n))] = s[Len(s)]
<1>1. Len(s) \in Nat
  BY LenProperties
<1>2. ASSUME NEW n \in 1..Len(s)
      PROVE  Take(s, n) # << >> /\ Take(s, n)[Len(Take(s, n))] = s[n]
  <2>1. n \in 0..Len(s) /\ n \in 1..n
    BY <1>1
  <2>2. Len(Take(s, n)) = n /\ Take(s, n)[n] = s[n]
    BY <2>1, SliceType, SliceElements
  <2>3. n # 0
    BY <1>1
  <2>4. QED
    BY <2>2, <2>3
<1>3. ASSUME NEW n \in 0..Len(s) - 1
      PROVE  Skip(s, n) # << >> /\ Skip(s, n)[Len(Skip(s, n))] = s[Len(s)]
  <2>1. /\ n \in 0..Len(s) /\ Len(s) - n \in 1..Len(s) - n /\ n + (Len(s) - n) = Len(s)
        /\ Len(s) - n # 0
    BY <1>1
  <2>2. Len(Skip(s, n)) = Len(s) - n /\ Skip(s, n)[Len(s) - n] = s[n + (Len(s) - n)]
    BY <2>1, SliceType, SliceElements
  <2>3. QED
    BY <2>1, <2>2
<1>4. QED
  BY <1>2, <1>3

LEMMA LastOfConcat ==
  ASSUME NEW S, NEW s \in Seq(S), NEW t \in Seq(S), t # << >>
  PROVE  s \o t # << >> /\ (s \o t)[Len(s \o t)] = t[Len(t)]
<1>1. /\ Len(s) \in Nat /\ Len(t) \in Nat /\ Len(t) # 0
      /\ Len(s \o t) = Len(s) + Len(t)
      /\ \A i \in 1..Len(s) + Len(t) :
            (s \o t)[i] = IF i <= Len(s) THEN s[i] ELSE t[i - Len(s)]
  BY LenProperties, EmptySeq, ConcatProperties
<1>2. /\ Len(s) + Len(t) \in 1..Len(s) + Len(t) /\ ~(Len(s) + Len(t) <= Len(s))
      /\ (Len(s) + Len(t)) - Len(s) = Len(t) /\ Len(s) + Len(t) # 0
  BY <1>1
<1>3. QED
  BY <1>1, <1>2

(* Two cuts are one.                                                       *)
LEMMA SliceAgain ==
  ASSUME NEW S, NEW s \in Seq(S), NEW m \in 0..Len(s), NEW n \in 0..Len(s) - m
  PROVE  /\ Take(s, m) \o Take(Skip(s, m), n) = Take(s, m + n)
         /\ Skip(Skip(s, m), n) = Skip(s, m + n)
<1>1. /\ Len(s) \in Nat /\ m \in Nat /\ n \in Nat /\ m + n \in 0..Len(s)
  BY LenProperties
<1> DEFINE f == Take(s, m)  r == Skip(s, m)  g == Take(r, n)  b == Skip(r, n)
<1>2. /\ f \in Seq(S) /\ Len(f) = m /\ r \in Seq(S) /\ Len(r) = Len(s) - m
      /\ \A i \in 1..m : f[i] = s[i]
      /\ \A i \in 1..Len(s) - m : r[i] = s[m + i]
  BY <1>1, SliceType, SliceElements
<1> HIDE DEF f, r
<1>3. /\ g \in Seq(S) /\ Len(g) = n /\ b \in Seq(S) /\ Len(b) = (Len(s) - m) - n
      /\ \A i \in 1..n : g[i] = r[i]
      /\ \A i \in 1..(Len(s) - m) - n : b[i] = r[n + i]
  <2>1. n \in 0..Len(r) /\ r \in Seq(S)
    BY <1>2
  <2>2. /\ g \in Seq(S) /\ Len(g) = n /\ b \in Seq(S) /\ Len(b) = Len(r) - n
        /\ \A i \in 1..n : g[i] = r[i]
        /\ \A i \in 1..Len(r) - n : b[i] = r[n + i]
    BY ONLY <2>1, SliceType, SliceElements
  <2>3. QED
    BY <1>2, <2>2
<1> HIDE DEF g, b
<1>4. /\ Take(s, m + n) \in Seq(S) /\ Len(Take(s, m + n)) = m + n
      /\ Skip(s, m + n) \in Seq(S) /\ Len(Skip(s, m + n)) = Len(s) - (m + n)
      /\ \A i \in 1..m + n : Take(s, m + n)[i] = s[i]
      /\ \A i \in 1..Len(s) - (m + n) : Skip(s, m + n)[i] = s[(m + n) + i]
  BY <1>1, SliceType, SliceElements
<1>5. /\ f \o g \in Seq(S) /\ Len(f \o g) = m + n
      /\ \A i \in 1..m + n : (f \o g)[i] = IF i <= m THEN f[i] ELSE g[i - m]
  <2>1. /\ f \o g \in Seq(S) /\ Len(f \o g) = Len(f) + Len(g)
        /\ \A i \in 1..Len(f) + Len(g) :
              (f \o g)[i] = IF i <= Len(f) THEN f[i] ELSE g[i - Len(f)]
    <3>1. f \in Seq(S) /\ g \in Seq(S)
      BY <1>2, <1>3
    <3>2. QED
      BY ONLY <3>1, ConcatProperties
  <2>2. QED
    BY <1>2, <1>3, <2>1
<1>6. f \o g = Take(s, m + n)
  <2>1. ASSUME NEW i \in 1..m + n PROVE (f \o g)[i] = Take(s, m + n)[i]
    <3>1. CASE i <= m
      <4>1. i \in 1..m
        BY <1>1, <3>1
      <4>2. QED
        BY <1>2, <1>4, <1>5, <3>1, <4>1
    <3>2. CASE ~(i <= m)
      <4>1. i - m \in 1..n /\ i - m \in 1..Len(s) - m /\ m + (i - m) = i
        BY <1>1, <3>2
      <4>2. g[i - m] = s[i]
        BY <1>2, <1>3, <4>1
      <4>3. QED
        BY <1>4, <1>5, <3>2, <4>2
    <3>3. QED
      BY <3>1, <3>2
  <2>2. QED
    BY <1>4, <1>5, <2>1, SeqEqual
<1>7. b = Skip(s, m + n)
  <2>1. ASSUME NEW i \in 1..Len(s) - (m + n) PROVE b[i] = Skip(s, m + n)[i]
    <3>1. /\ i \in 1..(Len(s) - m) - n /\ n + i \in 1..Len(s) - m
          /\ m + (n + i) = (m + n) + i
      BY <1>1
    <3>2. b[i] = r[n + i]
      BY <1>3, <3>1
    <3>3. r[n + i] = s[m + (n + i)]
      BY <1>2, <3>1
    <3>4. Skip(s, m + n)[i] = s[(m + n) + i]
      BY <1>4
    <3>5. QED
      BY <3>1, <3>2, <3>3, <3>4
  <2>2. Len(b) = Len(s) - (m + n)
    BY <1>1, <1>3
  <2>3. QED
    BY <1>3, <1>4, <2>1, <2>2, SeqEqual
<1>8. QED
  BY <1>6, <1>7 DEF f, r, g, b

(* A string is a prefix of itself with more behind it (`IsPrefix` of the   *)
(* community modules, written out).                                        *)
LEMMA PrefixOfConcat ==
  ASSUME NEW S, NEW s \in Seq(S), NEW t \in Seq(S)
  PROVE  /\ Len(s) <= Len(s \o t)
         /\ SubSeq(s, 1, Len(s)) = SubSeq(s \o t, 1, Len(s))
<1>1. Len(s) \in Nat /\ Len(t) \in Nat /\ Len(s \o t) = Len(s) + Len(t)
  BY LenProperties, ConcatProperties
<1>2. Take(s \o t, Len(s)) = Take(s, Len(s))
  BY <1>1, TakeOfConcat
<1>3. QED
  BY <1>1, <1>2 DEF Take

(* Strings of strings: where the parentheses are does not matter.          *)
LEMMA ConcatLaws ==
  ASSUME NEW S
  PROVE  \A f, g, h \in Seq(S) :
            /\ f \o g \in Seq(S)
            /\ (f \o g) \o h = f \o (g \o h)
<1>1. ASSUME NEW f \in Seq(S), NEW g \in Seq(S), NEW h \in Seq(S)
      PROVE  f \o g \in Seq(S) /\ (f \o g) \o h = f \o (g \o h)
  <2>1. f \o g \in Seq(S)
    BY ConcatProperties
  <2>2. (f \o g) \o h = f \o (g \o h)
    BY ConcatAssociative
  <2>3. QED
    BY <2>1, <2>2
<1>2. QED
  BY <1>1

(* Three stretches of the way, of which the last or the middle may be bare.*)
LEMMA Stretches ==
  ASSUME NEW S, NEW f \in Seq(S), NEW g \in Seq(S), NEW h \in Seq(S)
  PROVE  /\ (f \o g) \o h = f \o (g \o h) /\ f \o g \in Seq(S) /\ g \o h \in Seq(S)
         /\ f \o << >> = f /\ (f \o g) \o << >> = f \o g
         /\ << >> \in Seq(S) /\ Len(<< >>) = 0
<1>1. /\ (f \o g) \o h = f \o (g \o h) /\ f \o g \in Seq(S) /\ g \o h \in Seq(S)
  <2>1. (f \o g) \o h = f \o (g \o h)
    BY ConcatAssociative
  <2>2. f \o g \in Seq(S)
    BY ConcatProperties
  <2>3. g \o h \in Seq(S)
    BY ConcatProperties
  <2>4. QED
    BY <2>1, <2>2, <2>3
<1>2. f \o << >> = f /\ (f \o g) \o << >> = f \o g
  BY <1>1, ConcatEmptySeq
<1>3. << >> \in Seq(S) /\ Len(<< >>) = 0
  BY EmptySeq
<1>4. QED
  BY <1>1, <1>2, <1>3

(* And the first is a prefix of the whole.                                 *)
LEMMA PrefixOfFlow ==
  ASSUME NEW S, NEW f \in Seq(S), NEW g \in Seq(S), NEW h \in Seq(S)
  PROVE  /\ Len(f) <= Len((f \o g) \o h)
         /\ SubSeq(f, 1, Len(f)) = SubSeq((f \o g) \o h, 1, Len(f))
<1>1. (f \o g) \o h = f \o (g \o h) /\ g \o h \in Seq(S)
  BY Stretches
<1>2. QED
  BY <1>1, PrefixOfConcat

(* The bytes that follow those of s continue their numbers.                *)
LEMMA NumbersType ==
  ASSUME NEW m \in Nat, NEW s \in Seq(1..m), NEW k \in Nat, Len(s) + k <= m
  PROVE  Numbers(s, k) \in Seq(1..m) /\ Len(Numbers(s, k)) = k
<1>1. Len(s) \in Nat
  BY LenProperties
<1>2. \A i \in 1..k : Len(s) + i \in 1..m
  BY <1>1
<1>3. QED
  BY <1>1, <1>2 DEF Numbers

(* So a string that counts from one goes on counting.                      *)
LEMMA NumbersCount ==
  ASSUME NEW m \in Nat, NEW s \in Seq(1..m), NEW k \in Nat, Len(s) + k <= m,
         \A i \in 1..Len(s) : s[i] = i
  PROVE  LET t == s \o Numbers(s, k) IN
         t \in Seq(1..m) /\ Len(t) = Len(s) + k /\ \A i \in 1..Len(t) : t[i] = i
<1> DEFINE t == s \o Numbers(s, k)
<1>1. Len(s) \in Nat /\ Numbers(s, k) \in Seq(1..m) /\ Len(Numbers(s, k)) = k
  BY LenProperties, NumbersType
<1>2. /\ t \in Seq(1..m) /\ Len(t) = Len(s) + k
      /\ \A i \in 1..Len(s) + k :
           t[i] = IF i <= Len(s) THEN s[i] ELSE Numbers(s, k)[i - Len(s)]
  BY <1>1, ConcatProperties
<1>3. ASSUME NEW i \in 1..Len(s) + k PROVE t[i] = i
  <2>1. CASE i <= Len(s)
    BY <1>1, <1>2, <2>1
  <2>2. CASE i > Len(s)
    <3>1. i - Len(s) \in 1..k /\ Numbers(s, k)[i - Len(s)] = Len(s) + (i - Len(s))
      BY <1>1, <2>2 DEF Numbers
    <3>2. QED
      BY <1>1, <1>2, <2>2, <3>1
  <2>3. QED
    BY <1>1, <2>1, <2>2
<1>4. QED
  BY <1>2, <1>3

(* A prefix of a string is a prefix of all that begins with the string.    *)
LEMMA PrefixExtends ==
  ASSUME NEW S, NEW s \in Seq(S), NEW t \in Seq(S), NEW u \in Seq(S),
         Len(s) <= Len(t), SubSeq(s, 1, Len(s)) = SubSeq(t, 1, Len(s))
  PROVE  /\ Len(s) <= Len(t \o u)
         /\ SubSeq(s, 1, Len(s)) = SubSeq(t \o u, 1, Len(s))
<1>1. Len(s) \in 0..Len(t) /\ Len(t) \in Nat /\ Len(u) \in Nat
  BY LenProperties
<1>2. Take(t \o u, Len(s)) = Take(t, Len(s)) /\ Len(t \o u) = Len(t) + Len(u)
  BY <1>1, TakeOfConcat, ConcatProperties
<1>3. QED
  BY <1>1, <1>2 DEF Take

(* A prefix of a string that counts is its slice of that length, and so is *)
(* a prefix of any other string that counts, if that is long enough.       *)
LEMMA PrefixOfNumbers ==
  ASSUME NEW m \in Nat, NEW s \in Seq(1..m), NEW t \in Seq(1..m), NEW n \in Nat,
         Len(s) <= Len(t), SubSeq(s, 1, Len(s)) = SubSeq(t, 1, Len(s)),
         Len(t) <= n, \A i \in 1..Len(t) : t[i] = i
  PROVE  s = SubSeq([i \in 1..n |-> i], 1, Len(s))
<1> DEFINE r == [i \in 1..n |-> i]
<1>1. Len(s) \in Nat /\ Len(t) \in Nat /\ Len(s) <= n
  BY LenProperties
<1>2. s = SubSeq(t, 1, Len(s))
  BY SubSeqFull
<1>3. \A i \in 1..Len(s) : t[i] \in Nat /\ r[i] \in Nat
  BY <1>1
<1>4. /\ SubSeq(t, 1, Len(s)) \in Seq(Nat) /\ Len(SubSeq(t, 1, Len(s))) = Len(s)
      /\ \A i \in 1..Len(s) : SubSeq(t, 1, Len(s))[i] = t[i]
  BY <1>1, <1>3, SubSeqProperties
<1>5. /\ SubSeq(r, 1, Len(s)) \in Seq(Nat) /\ Len(SubSeq(r, 1, Len(s))) = Len(s)
      /\ \A i \in 1..Len(s) : SubSeq(r, 1, Len(s))[i] = r[i]
  BY <1>1, <1>3, SubSeqProperties
<1>6. \A i \in 1..Len(s) : SubSeq(t, 1, Len(s))[i] = SubSeq(r, 1, Len(s))[i]
  BY <1>1, <1>4, <1>5
<1>7. SubSeq(t, 1, Len(s)) = SubSeq(r, 1, Len(s))
  BY <1>4, <1>5, <1>6, SeqEqual
<1>8. QED
  BY <1>2, <1>7

(* Taking frames off.                                                      *)
LEMMA Frames ==
  ASSUME NEW a, NEW b, NEW c, NEW d
  PROVE  /\ << a >> # << >> /\ Head(<< a >>) = a /\ Len(<< a >>) = 1
         /\ << a, b >> # << >> /\ Head(<< a, b >>) = a /\ Len(<< a, b >>) = 2
         /\ << a, b, c >> # << >> /\ Head(<< a, b, c >>) = a /\ Len(<< a, b, c >>) = 3
         /\ << a, b, c, d >> # << >> /\ Head(<< a, b, c, d >>) = a
         /\ Len(<< a, b, c, d >>) = 4
         /\ Tail(<< a >>) = << >>
         /\ Tail(<< a, b >>) = << b >>
         /\ Tail(<< a, b, c >>) = << b, c >>
         /\ Tail(<< a, b, c, d >>) = << b, c, d >>
OBVIOUS

(* Writing frames in front of others.                                      *)
LEMMA FrameAppend ==
  ASSUME NEW a, NEW b, NEW c
  PROVE  Append(<< a, b >>, c) = << a, b, c >>
<1> DEFINE S == {a, b, c}  x == << a, b >>  y == << a, b, c >>
<1>1. x \in Seq(S) /\ y \in Seq(S) /\ c \in S /\ Len(x) = 2 /\ Len(y) = 3
  OBVIOUS
<1>2. Append(x, c) \in Seq(S) /\ Len(Append(x, c)) = 3
      /\ \A i \in 1..2 : Append(x, c)[i] = x[i]
      /\ Append(x, c)[3] = c
  BY <1>1, AppendProperties
<1>3. \A i \in 1..3 : Append(x, c)[i] = y[i]
  BY <1>2
<1>4. QED
  BY <1>1, <1>2, <1>3, SeqEqual

(* One frame in front of two others, or in front of one.                   *)
LEMMA FrameFront ==
  ASSUME NEW a, NEW b, NEW c
  PROVE  << a >> \o << b >> = << a, b >> /\ << a >> \o << b, c >> = << a, b, c >>
<1> DEFINE S == {a, b, c}  x == << a >>  y == << b >>  z == << b, c >>
           s == << a, b >>  t == << a, b, c >>
<1>1. /\ x \in Seq(S) /\ y \in Seq(S) /\ z \in Seq(S) /\ s \in Seq(S) /\ t \in Seq(S)
      /\ Len(x) = 1 /\ Len(y) = 1 /\ Len(z) = 2 /\ Len(s) = 2 /\ Len(t) = 3
  OBVIOUS
<1>2. /\ x \o y \in Seq(S) /\ Len(x \o y) = 2
      /\ \A i \in 1..2 : (x \o y)[i] = IF i <= 1 THEN x[i] ELSE y[i - 1]
  BY <1>1, ConcatProperties
<1>3. /\ x \o z \in Seq(S) /\ Len(x \o z) = 3
      /\ \A i \in 1..3 : (x \o z)[i] = IF i <= 1 THEN x[i] ELSE z[i - 1]
  BY <1>1, ConcatProperties
<1>4. /\ \A i \in 1..2 : (x \o y)[i] = s[i]
      /\ \A i \in 1..3 : (x \o z)[i] = t[i]
  BY <1>2, <1>3
<1>5. QED
  BY <1>1, <1>2, <1>3, <1>4, SeqEqual

(* Two frames in front of one.                                             *)
LEMMA FrameBehind ==
  ASSUME NEW a, NEW b, NEW c
  PROVE  << a, b >> \o << c >> = << a, b, c >>
<1> DEFINE S == {a, b, c}  x == << a, b >>  y == << c >>  z == << a, b, c >>
<1>1. x \in Seq(S) /\ y \in Seq(S) /\ z \in Seq(S)
      /\ Len(x) = 2 /\ Len(y) = 1 /\ Len(z) = 3
  OBVIOUS
<1>2. x \o y \in Seq(S) /\ Len(x \o y) = 3
      /\ \A i \in 1..3 : (x \o y)[i] = IF i <= 2 THEN x[i] ELSE y[i - 2]
  BY <1>1, ConcatProperties
<1>3. \A i \in 1..3 : (x \o y)[i] = z[i]
  BY <1>2
<1>4. QED
  BY <1>1, <1>2, <1>3, SeqEqual

(* Two frames in front of two others.                                      *)
LEMMA FrameConcat ==
  ASSUME NEW a, NEW b, NEW c, NEW d
  PROVE  << a, b >> \o << c, d >> = << a, b, c, d >>
<1> DEFINE S == {a, b, c, d}  x == << a, b >>  y == << c, d >>  z == << a, b, c, d >>
<1>1. x \in Seq(S) /\ y \in Seq(S) /\ z \in Seq(S)
      /\ Len(x) = 2 /\ Len(y) = 2 /\ Len(z) = 4
  OBVIOUS
<1>2. x \o y \in Seq(S) /\ Len(x \o y) = 4
      /\ \A i \in 1..4 : (x \o y)[i] = IF i <= 2 THEN x[i] ELSE y[i - 2]
  BY <1>1, ConcatProperties
<1>3. \A i \in 1..4 : (x \o y)[i] = z[i]
  BY <1>2
<1>4. QED
  BY <1>1, <1>2, <1>3, SeqEqual
=============================================================================
