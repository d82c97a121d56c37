--------------------------- MODULE LockersProofs ---------------------------
(***************************************************************************)
(* For every set of handles, strangers and streams: no standard stream     *)
(* ever has two owners, and no helper thread outlives its locker, even     *)
(* though StderrLocker claims one flag and releases another.               *)
(***************************************************************************)
EXTENDS Lockers, SequenceTheorems, TLAPS

USE StreamAssumption, ActorAssumption, BoundAssumption

(* Head, Tail and Append of sequences, in the form the steps below use.    *)
LEMMA PopType ==
  ASSUME NEW S, NEW q \in Seq(S), q # << >>
  PROVE  /\ Head(q) \in S /\ Tail(q) \in Seq(S)
         /\ Len(q) \in Nat \ {0} /\ Len(Tail(q)) = Len(q) - 1
         /\ Len(q) # 1 => Tail(q) # << >>
         /\ Head(q) = q[1]
         /\ \A i \in 1..Len(Tail(q)) : Tail(q)[i] = q[i + 1]
<1>1. Head(q) \in S /\ Tail(q) \in Seq(S) /\ Len(Tail(q)) = Len(q) - 1
      /\ \A i \in 1..Len(Tail(q)) : Tail(q)[i] = q[i + 1]
  BY HeadTailProperties
<1>2. Len(q) \in Nat \ {0} /\ Len(<< >>) = 0
  BY EmptySeq
<1>3. Head(q) = q[1]
  OBVIOUS
<1>4. Len(q) # 1 => Len(Tail(q)) # Len(<< >>)
  BY <1>1, <1>2
<1>5. QED
  BY <1>1, <1>2, <1>3, <1>4

(* What Append does to a sequence.                                         *)
LEMMA PushType ==
  ASSUME NEW S, NEW q \in Seq(S), NEW e \in S
  PROVE  /\ Append(q, e) \in Seq(S) /\ Append(q, e) # << >>
         /\ Len(q) \in Nat /\ Len(Append(q, e)) = Len(q) + 1
         /\ \A i \in 1..Len(q) : Append(q, e)[i] = q[i]
         /\ Append(q, e)[Len(q) + 1] = e
  BY AppendProperties, LenProperties

(* Updating one entry of a table of tables.                                *)
LEMMA UpdateType ==
  ASSUME NEW A, NEW B, NEW C, NEW f \in [A -> [B -> C]],
         NEW a \in A, NEW b \in B, NEW c \in C
  PROVE  /\ [f EXCEPT ![a][b] = c] \in [A -> [B -> C]]
         /\ \A x \in A, y \in B :
               [f EXCEPT ![a][b] = c][x][y] =
                   IF x = a /\ y = b THEN c ELSE f[x][y]
  OBVIOUS

(* A constructor is asked for one stream or two, never for none.           *)
LEMMA RequestsType == Requests \subseteq Seq(Stream) \ {<< >>}
<1>1. \A s \in Stream : << s >> \in Seq(Stream) /\ << s >> # << >>
  OBVIOUS
<1>2. {"stdin", "stdout"} \subseteq Stream =>
        << "stdin", "stdout" >> \in Seq(Stream) \ {<< >>}
  OBVIOUS
<1>3. QED
  BY <1>1, <1>2 DEF Requests

(* Each locker claims and releases one of the three flags.                 *)
LEMMA FlagType == \A s \in Stream : ClaimFlag(s) \in Flag /\ DropFlag(s) \in Flag
  BY DEF ClaimFlag, DropFlag, Flag

(* No locker exists at the start.                                          *)
LEMMA TypeInit == Init => TypeOK
  BY DEF Init, TypeOK, Flag

ThreadState == {"none", "spawned", "parked", "done"}

(* Every step of a constructor, a destructor, a helper thread or a stranger*)
(* keeps the types, and so never takes the Head of nothing.                *)
LEMMA TypeNext == TypeOK /\ [Next]_vars => TypeOK'
<1> SUFFICES ASSUME TypeOK, [Next]_vars PROVE TypeOK'
  OBVIOUS
<1>0. /\ thread \in [Handle -> [Stream -> ThreadState]]
      /\ token \in [Handle -> [Stream -> BOOLEAN]]
      /\ \A h \in Handle : want[h] \in Seq(Stream) /\ lockers[h] \in Seq(Stream)
  BY DEF TypeOK, ThreadState
<1>1. ASSUME NEW h \in Handle, Open(h) PROVE TypeOK'
  BY <1>1, RequestsType DEF Open, Goto, TypeOK
<1>2. ASSUME NEW h \in Handle, Close(h) PROVE TypeOK'
  BY <1>2 DEF Close, Goto, TypeOK
<1>3. ASSUME NEW h \in Handle, Claim(h) PROVE TypeOK'
  BY <1>3 DEF Claim, Goto, TypeOK
<1>4. ASSUME NEW h \in Handle, Refuse(h) \/ SpawnFails(h) PROVE TypeOK'
  <2>1. Head(want[h]) \in Stream
    BY <1>0, <1>4, PopType DEF Refuse, SpawnFails, TypeOK
  <2>2. Fail(h) /\ leaked' \subseteq Flag
    BY <1>4, <2>1, FlagType DEF Refuse, SpawnFails, TypeOK
  <2>3. QED
    BY <2>2 DEF Fail, Goto, TypeOK
<1>5. ASSUME NEW h \in Handle, Spawn(h) PROVE TypeOK'
  <2>1. want[h] # << >>
    BY <1>5 DEF Spawn, TypeOK
  <2>2. Head(want[h]) \in Stream /\ Tail(want[h]) \in Seq(Stream)
        /\ (Len(want[h]) # 1 => Tail(want[h]) # << >>)
    BY <1>0, <2>1, PopType
  <2>3. /\ Append(lockers[h], Head(want[h])) \in Seq(Stream)
        /\ Append(lockers[h], Head(want[h])) # << >>
    <3>1. lockers[h] \in Seq(Stream) /\ Head(want[h]) \in Stream
      BY <1>0, <2>2
    <3>2. QED
      BY ONLY <3>1, PushType
  <2>4. thread' \in [Handle -> [Stream -> ThreadState]]
    BY <1>0, <1>5, <2>2, UpdateType DEF Spawn, ThreadState
  <2>5. token' \in [Handle -> [Stream -> BOOLEAN]]
    BY <1>0, <1>5, <2>2, UpdateType DEF Spawn
  <2>6. QED
    BY <1>5, <2>2, <2>3, <2>4, <2>5 DEF Spawn, Goto, TypeOK, ThreadState
<1>6. ASSUME NEW h \in Handle, Unpark(h) PROVE TypeOK'
  <2>1. Head(lockers[h]) \in Stream
    BY <1>0, <1>6, PopType DEF Unpark, TypeOK
  <2>2. token' \in [Handle -> [Stream -> BOOLEAN]]
    BY <1>0, <1>6, <2>1, UpdateType DEF Unpark
  <2>3. QED
    BY <1>6, <2>2 DEF Unpark, Goto, TypeOK
<1>7. ASSUME NEW h \in Handle, Join(h) PROVE TypeOK'
  <2>1. Head(lockers[h]) \in Stream
    BY <1>0, <1>7, PopType DEF Join, TypeOK
  <2>2. thread' \in [Handle -> [Stream -> ThreadState]]
    BY <1>0, <1>7, <2>1, UpdateType DEF Join, ThreadState
  <2>3. QED
    BY <1>7, <2>2 DEF Join, Goto, TypeOK, ThreadState
<1>8. ASSUME NEW h \in Handle, Store(h) PROVE TypeOK'
  <2>1. Head(lockers[h]) \in Stream /\ Tail(lockers[h]) \in Seq(Stream)
        /\ (Len(lockers[h]) # 1 => Tail(lockers[h]) # << >>)
    BY <1>0, <1>8, PopType DEF Store, TypeOK
  <2>2. claimed' \in [Flag -> BOOLEAN]
    BY <1>8, <2>1, FlagType DEF Store, TypeOK
  <2>3. leaked' \subseteq Flag
    BY <1>8, <2>1, FlagType DEF Store, Abandons, TypeOK
  <2>4. QED
    BY <1>8, <2>1, <2>2, <2>3 DEF Store, Goto, TypeOK
<1>9. ASSUME NEW h \in Handle, NEW s \in Stream, Helper(h, s) PROVE TypeOK'
  <2>1. holder' \in [Stream -> Handle \cup Stranger \cup {NoOne}]
    BY <1>9 DEF Helper, ThreadLock, ThreadExit, TypeOK
  <2>2. thread' \in [Handle -> [Stream -> ThreadState]]
    <3>1. PICK v \in ThreadState : thread' = [thread EXCEPT ![h][s] = v]
      BY <1>9 DEF Helper, ThreadLock, ThreadExit, ThreadState
    <3>2. QED
      BY <1>0, <3>1, UpdateType
  <2>3. QED
    BY <1>9, <2>1, <2>2 DEF Helper, ThreadLock, ThreadExit, TypeOK, ThreadState
<1>10. ASSUME NEW x \in Stranger, NEW s \in Stream,
              StrangerLocks(x, s) \/ StrangerUnlocks(x, s)
       PROVE TypeOK'
  <2>1. holder' \in [Stream -> Handle \cup Stranger \cup {NoOne}]
    BY <1>10 DEF StrangerLocks, StrangerUnlocks, TypeOK
  <2>2. uses' \in Nat
    BY <1>10 DEF StrangerLocks, StrangerUnlocks, TypeOK
  <2>3. QED
    BY <1>10, <2>1, <2>2 DEF StrangerLocks, StrangerUnlocks, TypeOK
<1>11. CASE UNCHANGED vars
  BY <1>11 DEF vars, TypeOK
<1>12. QED
  BY <1>1, <1>2, <1>3, <1>4, <1>5, <1>6, <1>7, <1>8, <1>9, <1>10, <1>11
     DEF Next, Run

(* Every state of the lockers is well typed.                               *)
THEOREM TypeCorrect == Spec => []TypeOK
  BY TypeInit, TypeNext, PTL DEF Spec

-----------------------------------------------------------------------------
(* Nobody owns a stream at the start.                                      *)
LEMMA OwnershipInit == Init => Ownership
  BY DEF Init, Ownership, FlagHasOneOwner, OwnerHasFlag, ThreadHasLocker, Owns,
         HasLocker

(* A step after which nobody owns more than before, which touches neither  *)
(* the lockers of any handle nor its claim in progress.                    *)
LEMMA FlagsKept ==
  ASSUME FlagHasOneOwner, OwnerHasFlag, UNCHANGED << claimed, lockers >>,
         \A g \in Handle : pc'[g] = "spawn" =>
             pc[g] = "spawn" /\ Head(want'[g]) = Head(want[g])
  PROVE  FlagHasOneOwner' /\ OwnerHasFlag'
<1>1. \A g \in Handle, t \in Stream : Owns(g, t)' => Owns(g, t)
  BY DEF Owns, HasLocker
<1>2. QED
  BY <1>1 DEF FlagHasOneOwner, OwnerHasFlag

(* A step that leaves locks, lockers and helper threads alone, and no      *)
(* destructor past its join, keeps each thread with its locker.            *)
LEMMA ThreadsKept ==
  ASSUME ThreadHasLocker, UNCHANGED << holder, lockers, thread >>,
         \A g \in Handle : pc'[g] = "store" => pc[g] = "store"
  PROVE  ThreadHasLocker'
<1>1. \A g \in Handle, t \in Stream : HasLocker(g, t)' <=> HasLocker(g, t)
  BY DEF HasLocker
<1>2. QED
  BY <1>1 DEF ThreadHasLocker

(* compare_exchange succeeds only on a flag that is clear, so that the new *)
(* owner is its only one.                                                  *)
LEMMA ClaimKeeps ==
  ASSUME TypeOK, Ownership, NEW h \in Handle, Claim(h)
  PROVE  Ownership'
<1> DEFINE s == Head(want[h])
<1>1. want[h] \in Seq(Stream) /\ want[h] # << >>
  BY DEF Claim, TypeOK
<1>2. s \in Stream /\ ClaimFlag(s) \in Flag
  BY <1>1, PopType, FlagType
<1>3. claimed \in [Flag -> BOOLEAN] /\ ~claimed[ClaimFlag(s)]
      /\ claimed' = [claimed EXCEPT ![ClaimFlag(s)] = TRUE]
      /\ pc' = [pc EXCEPT ![h] = "spawn"] /\ pc[h] # "spawn"
      /\ UNCHANGED << holder, want, lockers, thread, token >>
      /\ pc \in [Handle -> {"idle", "claim", "spawn", "open", "unpark", "join", "store"}]
  BY DEF Claim, Goto, TypeOK
<1>4. \A g \in Handle, t \in Stream :
         Owns(g, t)' <=> (Owns(g, t) \/ (g = h /\ t = s))
  BY <1>3 DEF Owns, HasLocker
<1>5. \A g \in Handle, t \in Stream : Owns(g, t) => ClaimFlag(t) # ClaimFlag(s)
  BY <1>3 DEF Ownership, OwnerHasFlag
<1>6. \A g \in Handle : \A i \in 1..Len(lockers[g]) : Owns(g, lockers[g][i])
  BY DEF Owns, HasLocker
<1>7. \A i \in 1..Len(lockers[h]) : lockers[h][i] \in Stream
  BY LenProperties DEF TypeOK
<1>8. FlagHasOneOwner'
  <2>1. ASSUME NEW f \in Handle, NEW g \in Handle, NEW t \in Stream, NEW u \in Stream,
               Owns(f, t)', Owns(g, u)', ClaimFlag(t) = ClaimFlag(u)
        PROVE  f = g
    <3>1. CASE Owns(f, t) /\ Owns(g, u)
      BY <2>1, <3>1 DEF Ownership, FlagHasOneOwner
    <3>2. CASE Owns(f, t) /\ ~Owns(g, u)
      BY <2>1, <3>2, <1>4, <1>5
    <3>3. CASE ~Owns(f, t) /\ Owns(g, u)
      BY <2>1, <3>3, <1>4, <1>5
    <3>4. CASE ~Owns(f, t) /\ ~Owns(g, u)
      BY <2>1, <3>4, <1>4
    <3>5. QED
      BY <3>1, <3>2, <3>3, <3>4
  <2>2. ASSUME NEW g \in Handle, NEW i \in 1..Len(lockers'[g]), NEW j \in 1..Len(lockers'[g]),
               ClaimFlag(lockers'[g][i]) = ClaimFlag(lockers'[g][j])
        PROVE  i = j
    BY <2>2, <1>3 DEF Ownership, FlagHasOneOwner
  <2>3. ASSUME NEW g \in Handle, pc'[g] = "spawn", NEW i \in 1..Len(lockers'[g])
        PROVE  ClaimFlag(lockers'[g][i]) # ClaimFlag(Head(want'[g]))
    <3>1. CASE g = h
      BY <2>3, <3>1, <1>2, <1>3, <1>5, <1>6, <1>7
    <3>2. CASE g # h
      <4>1. pc[g] = "spawn"
        BY <2>3, <3>2, <1>3
      <4>2. QED
        BY <4>1, <2>3, <1>3 DEF Ownership, FlagHasOneOwner
    <3>3. QED
      BY <3>1, <3>2
  <2>4. QED
    BY <2>1, <2>2, <2>3 DEF FlagHasOneOwner
<1>9. OwnerHasFlag'
  BY <1>2, <1>3, <1>4, FlagType DEF Ownership, OwnerHasFlag
<1>10. ThreadHasLocker'
  BY <1>3, ThreadsKept DEF Ownership
<1>11. QED
  BY <1>8, <1>9, <1>10 DEF Ownership

(* The helper thread and the locker that holds it appear in one step.      *)
LEMMA SpawnKeeps ==
  ASSUME TypeOK, Ownership, NEW h \in Handle, Spawn(h)
  PROVE  Ownership'
<1> DEFINE s == Head(want[h])
<1>1. want[h] \in Seq(Stream) /\ want[h] # << >> /\ lockers[h] \in Seq(Stream)
      /\ thread \in [Handle -> [Stream -> ThreadState]]
  BY DEF Spawn, TypeOK, ThreadState
<1>2. s \in Stream
  BY <1>1, PopType
<1>3. /\ thread' = [thread EXCEPT ![h][s] = "spawned"]
      /\ lockers' = [lockers EXCEPT ![h] = Append(lockers[h], s)]
      /\ pc[h] = "spawn" /\ pc'[h] \in {"open", "claim"}
      /\ \A g \in Handle \ {h} : pc'[g] = pc[g] /\ want'[g] = want[g]
      /\ lockers \in [Handle -> Seq(Stream)]
      /\ UNCHANGED << claimed, holder >>
  BY DEF Spawn, Goto, TypeOK
<1>4. /\ Len(lockers[h]) \in Nat /\ Len(lockers'[h]) = Len(lockers[h]) + 1
      /\ \A i \in 1..Len(lockers[h]) : lockers'[h][i] = lockers[h][i]
      /\ lockers'[h][Len(lockers[h]) + 1] = s
      /\ \A g \in Handle \ {h} : lockers'[g] = lockers[g]
  BY <1>1, <1>2, <1>3, PushType
<1>5. \A g \in Handle, t \in Stream :
         HasLocker(g, t)' <=> (HasLocker(g, t) \/ (g = h /\ t = s))
  BY <1>3, <1>4 DEF HasLocker
<1>6. \A g \in Handle, t \in Stream : Owns(g, t)' <=> Owns(g, t)
  BY <1>3, <1>5 DEF Owns
<1>7. ~HasLocker(h, s) /\ holder[s] # h
  <2>1. \A i \in 1..Len(lockers[h]) : lockers[h][i] # s
    BY <1>3 DEF Ownership, FlagHasOneOwner
  <2>2. ~HasLocker(h, s)
    BY <2>1 DEF HasLocker
  <2>3. QED
    BY <1>2, <2>2 DEF Ownership, ThreadHasLocker
<1>8. FlagHasOneOwner'
  <2>1. ASSUME NEW i \in 1..Len(lockers'[h]), NEW j \in 1..Len(lockers'[h]),
               ClaimFlag(lockers'[h][i]) = ClaimFlag(lockers'[h][j])
        PROVE  i = j
    <3>1. \A k \in 1..Len(lockers[h]) : ClaimFlag(lockers[h][k]) # ClaimFlag(s)
      BY <1>3 DEF Ownership, FlagHasOneOwner
    <3>2. \A k, m \in 1..Len(lockers[h]) :
             ClaimFlag(lockers[h][k]) = ClaimFlag(lockers[h][m]) => k = m
      BY DEF Ownership, FlagHasOneOwner
    <3>3. \A k \in 1..Len(lockers'[h]) :
             k \in 1..Len(lockers[h]) \/ k = Len(lockers[h]) + 1
      BY <1>4
    <3>4. CASE i \in 1..Len(lockers[h]) /\ j \in 1..Len(lockers[h])
      BY <1>4, <2>1, <3>2, <3>4
    <3>5. CASE i = Len(lockers[h]) + 1 \/ j = Len(lockers[h]) + 1
      BY <1>4, <2>1, <3>1, <3>3, <3>5
    <3>6. QED
      BY <3>3, <3>4, <3>5
  <2>2. \A g \in Handle \ {h} : \A i, j \in 1..Len(lockers'[g]) :
           ClaimFlag(lockers'[g][i]) = ClaimFlag(lockers'[g][j]) => i = j
    BY <1>4 DEF Ownership, FlagHasOneOwner
  <2>3. \A g \in Handle : pc'[g] = "spawn" =>
           \A i \in 1..Len(lockers'[g]) :
              ClaimFlag(lockers'[g][i]) # ClaimFlag(Head(want'[g]))
    BY <1>3, <1>4 DEF Ownership, FlagHasOneOwner
  <2>4. \A f, g \in Handle, t, u \in Stream :
           Owns(f, t)' /\ Owns(g, u)' /\ ClaimFlag(t) = ClaimFlag(u) => f = g
    BY <1>6 DEF Ownership, FlagHasOneOwner
  <2>5. QED
    BY <2>1, <2>2, <2>3, <2>4 DEF FlagHasOneOwner
<1>9. OwnerHasFlag'
  BY <1>3, <1>6 DEF Ownership, OwnerHasFlag
<1>10. \A g \in Handle, t \in Stream :
          thread'[g][t] = IF g = h /\ t = s THEN "spawned" ELSE thread[g][t]
  BY <1>1, <1>2, <1>3, UpdateType DEF ThreadState
<1>11. \A g \in Handle : pc'[g] = "store" => g # h /\ pc[g] = "store"
  BY <1>3
<1>12. ThreadHasLocker'
  <2>1. \A g \in Handle, t \in Stream :
           /\ thread'[g][t] # "none" => HasLocker(g, t)'
           /\ holder'[t] = g => thread'[g][t] = "parked"
    BY <1>3, <1>5, <1>7, <1>10 DEF Ownership, ThreadHasLocker
  <2>2. \A g \in Handle :
           pc'[g] = "store" => thread'[g][Head(lockers'[g])] = "none"
    <3>1. \A g \in Handle : g # h => thread'[g] = thread[g]
      BY <1>1, <1>3
    <3>2. QED
      BY <1>4, <1>11, <3>1 DEF Ownership, ThreadHasLocker
  <2>3. QED
    BY <2>1, <2>2 DEF ThreadHasLocker
<1>13. QED
  BY <1>8, <1>9, <1>12 DEF Ownership

(* A thread that has been joined has given std's lock back.                *)
LEMMA JoinKeeps ==
  ASSUME TypeOK, Ownership, NEW h \in Handle, Join(h)
  PROVE  Ownership'
<1> DEFINE s == Head(lockers[h])
<1>1. lockers[h] \in Seq(Stream) /\ lockers[h] # << >>
      /\ thread \in [Handle -> [Stream -> ThreadState]]
  BY DEF Join, TypeOK, ThreadState
<1>2. s \in Stream
  BY <1>1, PopType
<1>3. /\ thread[h][s] = "done"
      /\ thread' = [thread EXCEPT ![h][s] = "none"]
      /\ pc[h] = "join" /\ pc' = [pc EXCEPT ![h] = "store"]
      /\ UNCHANGED << claimed, holder, want, lockers >>
      /\ pc \in [Handle -> {"idle", "claim", "spawn", "open", "unpark", "join", "store"}]
  BY DEF Join, Goto, TypeOK
<1>4. FlagHasOneOwner' /\ OwnerHasFlag'
  BY <1>3, FlagsKept DEF Ownership
<1>5. \A g \in Handle, t \in Stream :
         thread'[g][t] = IF g = h /\ t = s THEN "none" ELSE thread[g][t]
  BY <1>1, <1>2, <1>3, UpdateType DEF ThreadState
<1>6. \A g \in Handle : g # h => thread'[g] = thread[g] /\ pc'[g] = pc[g]
  BY <1>1, <1>3
<1>7. ThreadHasLocker'
  BY <1>2, <1>3, <1>5, <1>6 DEF Ownership, ThreadHasLocker, HasLocker
<1>8. QED
  BY <1>4, <1>7 DEF Ownership

(* The store clears a flag nobody else relies on and drops a locker whose  *)
(* thread is gone.                                                         *)
LEMMA StoreKeeps ==
  ASSUME TypeOK, Ownership, NEW h \in Handle, Store(h)
  PROVE  Ownership'
<1> DEFINE s == Head(lockers[h])
<1>1. lockers[h] \in Seq(Stream) /\ lockers[h] # << >>
  BY DEF Store, TypeOK
<1>2. /\ s \in Stream /\ s = lockers[h][1]
      /\ Len(lockers[h]) \in Nat \ {0}
      /\ Len(Tail(lockers[h])) = Len(lockers[h]) - 1
      /\ \A i \in 1..Len(Tail(lockers[h])) :
             Tail(lockers[h])[i] = lockers[h][i + 1]
  BY <1>1, PopType
<1>3. /\ pc[h] = "store" /\ pc'[h] \in {"idle", "unpark"}
      /\ \A g \in Handle \ {h} : pc'[g] = pc[g] /\ lockers'[g] = lockers[g]
      /\ lockers'[h] = Tail(lockers[h])
      /\ claimed' = [claimed EXCEPT ![DropFlag(s)] = FALSE]
      /\ claimed \in [Flag -> BOOLEAN]
      /\ UNCHANGED << holder, want, thread >>
  BY DEF Store, Goto, TypeOK
<1>4. /\ Len(lockers'[h]) = Len(lockers[h]) - 1
      /\ \A i \in 1..Len(lockers'[h]) :
             i + 1 \in 1..Len(lockers[h]) /\ lockers'[h][i] = lockers[h][i + 1]
  BY <1>2, <1>3
<1>5. \A g \in Handle, t \in Stream :
         /\ HasLocker(g, t)' => HasLocker(g, t)
         /\ HasLocker(g, t) => HasLocker(g, t)' \/ (g = h /\ t = s)
  <2>1. \A t \in Stream : HasLocker(h, t)' => HasLocker(h, t)
    BY <1>4 DEF HasLocker
  <2>2. \A j \in 1..Len(lockers[h]) : j # 1 =>
           j - 1 \in 1..Len(lockers'[h]) /\ lockers'[h][j - 1] = lockers[h][j]
    BY <1>2, <1>4
  <2>3. \A t \in Stream : HasLocker(h, t) => HasLocker(h, t)' \/ t = s
    BY <1>2, <2>2 DEF HasLocker
  <2>4. \A g \in Handle \ {h}, t \in Stream : HasLocker(g, t)' <=> HasLocker(g, t)
    BY <1>3 DEF HasLocker
  <2>5. QED
    BY <2>1, <2>3, <2>4
<1>6. \A g \in Handle, t \in Stream : Owns(g, t)' => Owns(g, t)
  BY <1>3, <1>5 DEF Owns
<1>7. \A t \in Stream : Owns(h, t)' => ClaimFlag(t) # ClaimFlag(s)
  <2>1. ASSUME NEW t \in Stream, Owns(h, t)', ClaimFlag(t) = ClaimFlag(s)
        PROVE  FALSE
    <3>1. PICK i \in 1..Len(lockers'[h]) : lockers'[h][i] = t
      BY <1>3, <2>1 DEF Owns, HasLocker
    <3>2. i + 1 \in 1..Len(lockers[h]) /\ lockers[h][i + 1] = t /\ i # 0
      BY <1>4, <3>1
    <3>3. i + 1 = 1
      BY <1>2, <2>1, <3>2 DEF Ownership, FlagHasOneOwner
    <3>4. QED
      BY <3>1, <3>3
  <2>2. QED
    BY <2>1
<1>8. FlagHasOneOwner'
  <2>1. \A g \in Handle : \A i, j \in 1..Len(lockers'[g]) :
           ClaimFlag(lockers'[g][i]) = ClaimFlag(lockers'[g][j]) => i = j
    <3>1. \A g \in Handle \ {h} : lockers'[g] = lockers[g]
      BY <1>3
    <3>2. \A i, j \in 1..Len(lockers[h]) :
             ClaimFlag(lockers[h][i]) = ClaimFlag(lockers[h][j]) => i = j
      BY DEF Ownership, FlagHasOneOwner
    <3>3. ASSUME NEW i \in 1..Len(lockers'[h]), NEW j \in 1..Len(lockers'[h]),
                 ClaimFlag(lockers'[h][i]) = ClaimFlag(lockers'[h][j])
          PROVE  i = j
      <4>1. i + 1 = j + 1
        BY <1>4, <3>2, <3>3
      <4>2. QED
        BY <1>2, <1>4, <4>1
    <3>4. QED
      BY <3>1, <3>3 DEF Ownership, FlagHasOneOwner
  <2>2. \A g \in Handle : pc'[g] = "spawn" =>
           \A i \in 1..Len(lockers'[g]) :
              ClaimFlag(lockers'[g][i]) # ClaimFlag(Head(want'[g]))
    BY <1>3 DEF Ownership, FlagHasOneOwner
  <2>3. QED
    BY <1>6, <2>1, <2>2 DEF Ownership, FlagHasOneOwner
<1>9. OwnerHasFlag'
  <2>1. SUFFICES ASSUME NEW g \in Handle, NEW t \in Stream, Owns(g, t)'
                 PROVE  claimed'[ClaimFlag(t)]
    BY DEF OwnerHasFlag
  <2>2. Owns(g, t) /\ Owns(h, s)
    BY <1>2, <1>6, <2>1 DEF Owns, HasLocker
  <2>3. claimed[ClaimFlag(t)] /\ ClaimFlag(t) \in Flag
    BY <2>2, FlagType DEF Ownership, OwnerHasFlag
  <2>4. ClaimFlag(t) # ClaimFlag(s)
    BY <1>2, <1>7, <2>1, <2>2 DEF Ownership, FlagHasOneOwner
  <2>5. ClaimFlag(t) # DropFlag(s)
    BY <1>2, <2>4 DEF ClaimFlag, DropFlag
  <2>6. QED
    BY <1>3, <2>3, <2>5
<1>10. ThreadHasLocker'
  BY <1>2, <1>3, <1>5 DEF Ownership, ThreadHasLocker
<1>11. QED
  BY <1>8, <1>9, <1>10 DEF Ownership

(* A helper thread takes and gives back std's lock while its locker lives. *)
LEMMA HelperKeeps ==
  ASSUME TypeOK, Ownership, NEW h \in Handle, NEW s \in Stream, Helper(h, s)
  PROVE  Ownership'
<1>1. FlagHasOneOwner' /\ OwnerHasFlag'
  BY FlagsKept DEF Helper, ThreadLock, ThreadExit, Ownership
<1>2. PICK v \in {"parked", "done"} :
         /\ thread' = [thread EXCEPT ![h][s] = v]
         /\ thread[h][s] # "none"
         /\ holder' = [holder EXCEPT ![s] = IF v = "parked" THEN h ELSE NoOne]
         /\ v = "parked" => holder[s] = NoOne
         /\ UNCHANGED << pc, lockers >>
  BY DEF Helper, ThreadLock, ThreadExit
<1>3. thread \in [Handle -> [Stream -> ThreadState]] /\ v \in ThreadState
      /\ holder \in [Stream -> Handle \cup Stranger \cup {NoOne}]
  BY DEF TypeOK, ThreadState
<1>4. \A g \in Handle, t \in Stream :
         thread'[g][t] = IF g = h /\ t = s THEN v ELSE thread[g][t]
  BY <1>2, <1>3, UpdateType
<1>5. \A g \in Handle, t \in Stream :
         /\ thread'[g][t] # "none" => thread[g][t] # "none"
         /\ holder'[t] = g => thread'[g][t] = "parked"
  BY <1>2, <1>3, <1>4 DEF Ownership, ThreadHasLocker
<1>6. \A g \in Handle : pc'[g] = "store" => thread'[g][Head(lockers'[g])] = "none"
  <2>1. SUFFICES ASSUME NEW g \in Handle, pc[g] = "store"
                 PROVE  thread'[g][Head(lockers[g])] = "none"
    BY <1>2
  <2>2. thread[g][Head(lockers[g])] = "none" /\ Head(lockers[g]) \in Stream
    BY <2>1, PopType DEF Ownership, ThreadHasLocker, TypeOK
  <2>3. QED
    BY <1>2, <1>4, <2>2
<1>7. ThreadHasLocker'
  BY <1>2, <1>5, <1>6 DEF Ownership, ThreadHasLocker, HasLocker
<1>8. QED
  BY <1>1, <1>7 DEF Ownership

(* Every step keeps Ownership.                                             *)
LEMMA OwnershipNext == TypeOK /\ Ownership /\ [Next]_vars => Ownership'
<1> SUFFICES ASSUME TypeOK, Ownership, [Next]_vars PROVE Ownership'
  OBVIOUS
<1>1. ASSUME NEW h \in Handle, Open(h) \/ Close(h) \/ Fail(h) \/ Unpark(h)
      PROVE  Ownership'
  <2>1. /\ UNCHANGED << claimed, lockers, holder, thread >>
        /\ \A g \in Handle \ {h} : pc'[g] = pc[g] /\ want'[g] = want[g]
        /\ pc'[h] \notin {"spawn", "store"}
    BY <1>1 DEF Open, Close, Fail, Unpark, Goto, TypeOK
  <2>2. FlagHasOneOwner' /\ OwnerHasFlag'
    BY <2>1, FlagsKept DEF Ownership
  <2>3. ThreadHasLocker'
    BY <2>1, ThreadsKept DEF Ownership
  <2>4. QED
    BY <2>2, <2>3 DEF Ownership
<1>2. ASSUME NEW x \in Stranger, NEW s \in Stream,
             StrangerLocks(x, s) \/ StrangerUnlocks(x, s)
      PROVE  Ownership'
  <2>1. /\ UNCHANGED << claimed, lockers, pc, want, thread >>
        /\ \A g \in Handle, t \in Stream : holder'[t] = g => holder[t] = g
    BY <1>2 DEF StrangerLocks, StrangerUnlocks, TypeOK
  <2>2. FlagHasOneOwner' /\ OwnerHasFlag'
    BY <2>1, FlagsKept DEF Ownership
  <2>3. ThreadHasLocker'
    <3>1. \A h \in Handle, t \in Stream :
             /\ HasLocker(h, t)' <=> HasLocker(h, t)
             /\ holder'[t] = h => holder[t] = h
      BY <2>1 DEF HasLocker
    <3>2. QED
      BY <2>1, <3>1 DEF Ownership, ThreadHasLocker
  <2>4. QED
    BY <2>2, <2>3 DEF Ownership
<1>3. CASE UNCHANGED vars
  BY <1>3 DEF vars, Ownership, FlagHasOneOwner, OwnerHasFlag, ThreadHasLocker,
              Owns, HasLocker
<1>4. QED
  BY <1>1, <1>2, <1>3, ClaimKeeps, SpawnKeeps, JoinKeeps, StoreKeeps,
     HelperKeeps
     DEF Next, Run, Refuse, SpawnFails

(* The flags track ownership in every reachable state.                     *)
THEOREM OwnershipCorrect == Spec => []Ownership
  BY TypeInit, TypeNext, OwnershipInit, OwnershipNext, PTL DEF Spec

(* No standard stream ever has two owners.                                 *)
THEOREM SoleOwnerCorrect == Spec => []SoleOwner
<1>1. Ownership => SoleOwner
  BY DEF Ownership, FlagHasOneOwner, SoleOwner
<1>2. QED
  BY <1>1, OwnershipCorrect, PTL

(* A destructor that has returned has left neither thread nor lock behind. *)
THEOREM NoStrayThreadCorrect == Spec => []NoStrayThread
<1>1. Ownership => NoStrayThread
  BY DEF Ownership, ThreadHasLocker, NoStrayThread
<1>2. QED
  BY <1>1, OwnershipCorrect, PTL

-----------------------------------------------------------------------------
(* A step that sets no flag, and lets an owner go only with its flag       *)
(* cleared or left for good, keeps every set flag accounted for.           *)
LEMMA CausesKept ==
  ASSUME FlagHasCause,
         \A f \in Flag : claimed'[f] => claimed[f],
         leaked \subseteq leaked',
         \A g \in Handle, t \in Stream :
            Owns(g, t) => \/ Owns(g, t)'
                          \/ ClaimFlag(t) \in leaked'
                          \/ ~claimed'[ClaimFlag(t)]
  PROVE  FlagHasCause'
<1>1. ASSUME NEW f \in Flag, claimed'[f], f \notin leaked'
      PROVE  \E g \in Handle, s \in Stream : Owns(g, s)' /\ ClaimFlag(s) = f
  <2>1. PICK g \in Handle, s \in Stream : Owns(g, s) /\ ClaimFlag(s) = f
    BY <1>1 DEF FlagHasCause
  <2>2. Owns(g, s)'
    BY <1>1, <2>1
  <2>3. QED
    BY <2>1, <2>2
<1>2. QED
  BY <1>1 DEF FlagHasCause

(* The flag that a claim sets has the claiming handle for its owner.       *)
LEMMA ClaimKeepsCause ==
  ASSUME TypeOK, FlagHasCause, NEW h \in Handle, Claim(h)
  PROVE  FlagHasCause'
<1>0. Head(want[h]) \in Stream
  BY PopType DEF Claim, TypeOK
<1>s. PICK s \in Stream : s = Head(want[h])
  BY <1>0
<1>1. ClaimFlag(s) \in Flag
  BY FlagType
<1>2. /\ claimed' = [claimed EXCEPT ![ClaimFlag(s)] = TRUE]
      /\ claimed \in [Flag -> BOOLEAN]
      /\ pc' = [pc EXCEPT ![h] = "spawn"] /\ pc[h] # "spawn"
      /\ pc \in [Handle -> {"idle", "claim", "spawn", "open", "unpark", "join", "store"}]
      /\ UNCHANGED << want, lockers, leaked >>
  BY <1>s DEF Claim, Goto, TypeOK
<1>3. Owns(h, s)' /\ \A g \in Handle, t \in Stream : Owns(g, t) => Owns(g, t)'
  <2>1. pc'[h] = "spawn" /\ want'[h] = want[h]
    BY <1>2
  <2>2. Owns(h, s)'
    BY <1>s, <2>1 DEF Owns
  <2>3. ASSUME NEW g \in Handle, NEW t \in Stream, Owns(g, t)
        PROVE  Owns(g, t)'
    <3>1. HasLocker(g, t) => HasLocker(g, t)'
      BY <1>2 DEF HasLocker
    <3>2. pc[g] = "spawn" => pc'[g] = "spawn" /\ want'[g] = want[g]
      BY <1>2
    <3>3. QED
      BY <2>3, <3>1, <3>2 DEF Owns
  <2>4. QED
    BY <2>2, <2>3
<1>4. ASSUME NEW f \in Flag, claimed'[f], f \notin leaked'
      PROVE  \E g \in Handle, t \in Stream : Owns(g, t)' /\ ClaimFlag(t) = f
  <2>1. CASE f = ClaimFlag(s)
    BY <1>1, <1>3, <2>1
  <2>2. CASE f # ClaimFlag(s)
    <3>1. claimed[f] /\ f \notin leaked
      BY <1>2, <1>4, <2>2
    <3>2. PICK g \in Handle, t \in Stream : Owns(g, t) /\ ClaimFlag(t) = f
      BY <3>1 DEF FlagHasCause
    <3>3. QED
      BY <1>3, <3>2
  <2>3. QED
    BY <2>1, <2>2
<1>5. QED
  BY <1>4 DEF FlagHasCause

(* The handle that spawns has the stream before and after.                 *)
LEMMA SpawnKeepsCause ==
  ASSUME TypeOK, FlagHasCause, NEW h \in Handle, Spawn(h)
  PROVE  FlagHasCause'
<1> DEFINE s == Head(want[h])
<1>1. want[h] \in Seq(Stream) /\ want[h] # << >> /\ lockers[h] \in Seq(Stream)
  BY DEF Spawn, TypeOK
<1>2. s \in Stream
  BY <1>1, PopType
<1>3. /\ lockers' = [lockers EXCEPT ![h] = Append(lockers[h], s)]
      /\ lockers \in [Handle -> Seq(Stream)]
      /\ \A g \in Handle \ {h} : pc'[g] = pc[g] /\ want'[g] = want[g]
      /\ UNCHANGED << claimed, leaked >>
  BY DEF Spawn, Goto, TypeOK
<1>4. /\ Len(lockers[h]) \in Nat /\ Len(lockers'[h]) = Len(lockers[h]) + 1
      /\ \A i \in 1..Len(lockers[h]) : lockers'[h][i] = lockers[h][i]
      /\ lockers'[h][Len(lockers[h]) + 1] = s
      /\ \A g \in Handle \ {h} : lockers'[g] = lockers[g]
  BY <1>1, <1>2, <1>3, PushType
<1>5. \A g \in Handle, t \in Stream :
         HasLocker(g, t) \/ (g = h /\ t = s) => HasLocker(g, t)'
  BY <1>3, <1>4 DEF HasLocker
<1>6. \A g \in Handle, t \in Stream : Owns(g, t) => Owns(g, t)'
  BY <1>3, <1>5 DEF Owns
<1>7. QED
  BY <1>3, <1>6, CausesKept

(* The destructor clears the flag of its locker or leaves it for good.     *)
LEMMA StoreKeepsCause ==
  ASSUME TypeOK, FlagHasCause, NEW h \in Handle, Store(h)
  PROVE  FlagHasCause'
<1> DEFINE s == Head(lockers[h])
<1>1. lockers[h] \in Seq(Stream) /\ lockers[h] # << >>
  BY DEF Store, TypeOK
<1>2. /\ s \in Stream /\ s = lockers[h][1]
      /\ Len(lockers[h]) \in Nat \ {0}
      /\ Len(Tail(lockers[h])) = Len(lockers[h]) - 1
      /\ \A i \in 1..Len(Tail(lockers[h])) :
             Tail(lockers[h])[i] = lockers[h][i + 1]
  BY <1>1, PopType
<1>3. /\ pc[h] = "store"
      /\ \A g \in Handle \ {h} : pc'[g] = pc[g] /\ lockers'[g] = lockers[g]
      /\ lockers'[h] = Tail(lockers[h])
      /\ claimed' = [claimed EXCEPT ![DropFlag(s)] = FALSE]
      /\ claimed \in [Flag -> BOOLEAN]
      /\ UNCHANGED want
  BY DEF Store, Goto, TypeOK
<1>4. \A t \in Stream : HasLocker(h, t) => HasLocker(h, t)' \/ t = s
  <2>1. \A j \in 1..Len(lockers[h]) : j # 1 =>
           j - 1 \in 1..Len(lockers'[h]) /\ lockers'[h][j - 1] = lockers[h][j]
    BY <1>2, <1>3
  <2>2. QED
    BY <1>2, <2>1 DEF HasLocker
<1>5. \A g \in Handle, t \in Stream : Owns(g, t) => Owns(g, t)' \/ t = s
  BY <1>3, <1>4 DEF Owns, HasLocker
<1>6. leaked \subseteq leaked' /\ (ClaimFlag(s) \in leaked' \/ ~claimed'[ClaimFlag(s)])
  <2>1. CASE DropFlag(s) = ClaimFlag(s)
    BY <1>2, <1>3, <2>1, FlagType DEF Store, Abandons
  <2>2. CASE DropFlag(s) # ClaimFlag(s)
    BY <2>2 DEF Store, Abandons
  <2>3. QED
    BY <2>1, <2>2
<1>7. \A f \in Flag : claimed'[f] => claimed[f]
  BY <1>3
<1>8. QED
  BY <1>5, <1>6, <1>7, CausesKept

(* Every step keeps the flags accounted for.                               *)
LEMMA CauseNext == TypeOK /\ FlagHasCause /\ [Next]_vars => FlagHasCause'
<1> SUFFICES ASSUME TypeOK, FlagHasCause, [Next]_vars PROVE FlagHasCause'
  OBVIOUS
<1>1. ASSUME NEW h \in Handle, SpawnFails(h) PROVE FlagHasCause'
  <2>1. /\ UNCHANGED << claimed, lockers >>
        /\ leaked' = leaked \cup {ClaimFlag(Head(want[h]))}
        /\ \A g \in Handle \ {h} : pc'[g] = pc[g] /\ want'[g] = want[g]
    BY <1>1 DEF SpawnFails, Fail, Goto, TypeOK
  <2>2. \A g \in Handle, t \in Stream :
           Owns(g, t) => Owns(g, t)' \/ ClaimFlag(t) \in leaked'
    BY <2>1 DEF Owns, HasLocker
  <2>3. QED
    BY <2>1, <2>2, CausesKept
<1>2. ASSUME NEW h \in Handle,
             Open(h) \/ Close(h) \/ Refuse(h) \/ Unpark(h) \/ Join(h)
      PROVE  FlagHasCause'
  <2>1. /\ UNCHANGED << claimed, lockers, leaked >>
        /\ \A g \in Handle \ {h} : pc'[g] = pc[g] /\ want'[g] = want[g]
        /\ pc[h] # "spawn"
    BY <1>2 DEF Open, Close, Refuse, Fail, Unpark, Join, Goto, TypeOK
  <2>2. \A g \in Handle, t \in Stream : Owns(g, t) => Owns(g, t)'
    BY <2>1 DEF Owns, HasLocker
  <2>3. QED
    BY <2>1, <2>2, CausesKept
<1>3. CASE UNCHANGED << claimed, lockers, leaked, pc, want >>
  <2>1. \A g \in Handle, t \in Stream : Owns(g, t) => Owns(g, t)'
    BY <1>3 DEF Owns, HasLocker
  <2>2. QED
    BY <1>3, <2>1, CausesKept
<1>4. ASSUME NEW h \in Handle, NEW s \in Stream, Helper(h, s) PROVE FlagHasCause'
  BY <1>3, <1>4 DEF Helper, ThreadLock, ThreadExit
<1>5. ASSUME NEW x \in Stranger, NEW s \in Stream,
             StrangerLocks(x, s) \/ StrangerUnlocks(x, s)
      PROVE  FlagHasCause'
  BY <1>3, <1>5 DEF StrangerLocks, StrangerUnlocks
<1>6. CASE UNCHANGED vars
  BY <1>3, <1>6 DEF vars
<1>7. QED
  BY <1>1, <1>2, <1>4, <1>5, <1>6, ClaimKeepsCause, SpawnKeepsCause,
     StoreKeepsCause DEF Next, Run

(* A claim is refused only because the flag has an owner, or was left set  *)
(* by a failed spawn or by the destructor that clears another flag.        *)
THEOREM RefusedHasCauseCorrect == Spec => RefusedHasCause
<1>1. Init => FlagHasCause
  BY DEF Init, FlagHasCause
<1>2. TypeOK /\ FlagHasCause =>
        \A h \in Handle :
          Refuse(h) =>
            \/ ClaimFlag(Head(want[h])) \in leaked
            \/ \E g \in Handle, s \in Stream :
                  Owns(g, s) /\ ClaimFlag(s) = ClaimFlag(Head(want[h]))
  <2>1. SUFFICES ASSUME TypeOK, FlagHasCause, NEW h \in Handle, Refuse(h)
                 PROVE  \/ ClaimFlag(Head(want[h])) \in leaked
                        \/ \E g \in Handle, s \in Stream :
                              Owns(g, s) /\ ClaimFlag(s) = ClaimFlag(Head(want[h]))
    OBVIOUS
  <2>2. Head(want[h]) \in Stream /\ claimed[ClaimFlag(Head(want[h]))]
    BY <2>1, PopType DEF Refuse, TypeOK
  <2>3. QED
    BY <2>1, <2>2, FlagType DEF FlagHasCause
<1>3. QED
  BY <1>1, <1>2, CauseNext, TypeInit, TypeNext, PTL DEF Spec, RefusedHasCause
=============================================================================
