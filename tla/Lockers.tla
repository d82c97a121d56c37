------------------------------ MODULE Lockers ------------------------------
(***************************************************************************)
(* src/lockers.rs: StdinLocker, StdoutLocker and StderrLocker give a       *)
(* stream of this crate the process' standard stream for itself.  One      *)
(* static flag per stream turns a second claim into an error; a parked     *)
(* helper thread per locker holds the standard library's own lock, so that *)
(* code which goes through std::io waits.                                  *)
(*                                                                         *)
(* A handle is a slot for one StreamReader::stdin, StreamWriter::stdout,   *)
(* StreamWriter::stderr or StreamDuplexer::stdin_stdout; its thread runs   *)
(* the constructor and, later, the destructor.  Strangers are the rest of  *)
(* the program, taking std's locks directly.  Actions are separated at     *)
(* every access to shared state: the flags (SeqCst atomics), std's locks,  *)
(* the parker's token and the end of the helper thread.                    *)
(***************************************************************************)
EXTENDS Integers, Sequences

CONSTANTS
    Handle,       \* slots for streams of this crate
    Stranger,     \* users of std::io::stdin() and the like
    Stream,       \* the standard streams in play
    SpawnMayFail, \* whether thread::Builder::spawn can return Err
    MaxUses,      \* bound: uses of std's locks by strangers
    NoOne         \* holder of a free lock

ASSUME StreamAssumption == Stream \subseteq {"stdin", "stdout", "stderr"}
ASSUME ActorAssumption ==
    NoOne \notin Handle \cup Stranger /\ Handle \cap Stranger = {}
ASSUME BoundAssumption == SpawnMayFail \in BOOLEAN /\ MaxUses \in Nat

VARIABLES
    claimed, \* STDIN_CLAIMED, STDOUT_CLAIMED, STDERR_CLAIMED
    holder,  \* who has std's lock on each stream
    pc,      \* where the thread of each handle is
    want,    \* streams its constructor still has to claim
    lockers, \* its live lockers, in the order they will be dropped
    thread,  \* the helper thread of each of its lockers
    token,   \* that thread has been unparked
    uses,    \* how often strangers have taken a lock
    leaked   \* ghost: flags left set with no locker that would clear them

vars == << claimed, holder, pc, want, lockers, thread, token, uses, leaked >>

Flag == {"stdin", "stdout", "stderr"}

(* The static that new() of each locker claims, and the one that its       *)
(* Drop releases.  StderrLocker::new names STDOUT_CLAIMED.                 *)
ClaimFlag(s) == IF s = "stderr" THEN "stdout" ELSE s
DropFlag(s) == s

Requests ==
    { << s >> : s \in Stream } \cup
    IF {"stdin", "stdout"} \subseteq Stream THEN { << "stdin", "stdout" >> }
    ELSE {}

Init ==
    /\ claimed = [f \in Flag |-> FALSE]
    /\ holder = [s \in Stream |-> NoOne]
    /\ pc = [h \in Handle |-> "idle"]
    /\ want = [h \in Handle |-> << >>]
    /\ lockers = [h \in Handle |-> << >>]
    /\ thread = [h \in Handle |-> [s \in Stream |-> "none"]]
    /\ token = [h \in Handle |-> [s \in Stream |-> FALSE]]
    /\ uses = 0 /\ leaked = {}

Goto(h, label) == pc' = [pc EXCEPT ![h] = label]

-----------------------------------------------------------------------------
(* The constructors.                                                       *)

Open(h) ==
    /\ pc[h] = "idle"
    /\ \E w \in Requests : want' = [want EXCEPT ![h] = w]
    /\ Goto(h, "claim")
    /\ UNCHANGED << claimed, holder, lockers, thread, token, uses, leaked >>

(* `?`: what the constructor already claimed is dropped on the way out.    *)
Fail(h) ==
    /\ want' = [want EXCEPT ![h] = << >>]
    /\ Goto(h, IF lockers[h] = << >> THEN "idle" ELSE "unpark")
    /\ UNCHANGED << claimed, holder, lockers, thread, token, uses >>

(* Mutant of Claim: the flag is set without comparing.                     *)
Claim_NoCompare(h) ==
    LET flag == ClaimFlag(Head(want[h])) IN
    /\ pc[h] = "claim"
    /\ claimed' = [claimed EXCEPT ![flag] = TRUE]
    /\ Goto(h, "spawn")
    /\ UNCHANGED << holder, want, lockers, thread, token, uses, leaked >>

(* CLAIMED.compare_exchange(false, true).                                  *)
Claim(h) ==
    LET flag == ClaimFlag(Head(want[h])) IN
    /\ pc[h] = "claim" /\ ~claimed[flag]
    /\ claimed' = [claimed EXCEPT ![flag] = TRUE]
    /\ Goto(h, "spawn")
    /\ UNCHANGED << holder, want, lockers, thread, token, uses, leaked >>

Refuse(h) ==
    /\ pc[h] = "claim" /\ claimed[ClaimFlag(Head(want[h]))]
    /\ Fail(h) /\ UNCHANGED leaked

Spawn(h) ==
    LET s == Head(want[h]) IN
    /\ pc[h] = "spawn"
    /\ thread' = [thread EXCEPT ![h][s] = "spawned"]
    /\ token' = [token EXCEPT ![h][s] = FALSE]
    /\ lockers' = [lockers EXCEPT ![h] = Append(@, s)]
    /\ want' = [want EXCEPT ![h] = Tail(@)]
    /\ Goto(h, IF Len(want[h]) = 1 THEN "open" ELSE "claim")
    /\ UNCHANGED << claimed, holder, uses, leaked >>

(* `.spawn(..)?` returns with the flag still set.                          *)
SpawnFails(h) ==
    /\ pc[h] = "spawn" /\ SpawnMayFail
    /\ Fail(h) /\ leaked' = leaked \cup {ClaimFlag(Head(want[h]))}

-----------------------------------------------------------------------------
(* Drop for each locker in turn: unpark, join, release the flag.           *)

Close(h) ==
    /\ pc[h] = "open"
    /\ Goto(h, "unpark")
    /\ UNCHANGED << claimed, holder, want, lockers, thread, token, uses, leaked >>

(* Mutant of Unpark: only a thread that is parked is woken, and the wakeup *)
(* leaves no token.                                                        *)
Unpark_OnlyIfParked(h) ==
    LET s == Head(lockers[h]) IN
    /\ pc[h] = "unpark"
    /\ token' = [token EXCEPT ![h][s] = thread[h][s] = "parked"]
    /\ Goto(h, "join")
    /\ UNCHANGED << claimed, holder, want, lockers, thread, uses, leaked >>

(* Mutant of Unpark: the flag is released before the thread is joined.     *)
Unpark_Releases(h) ==
    LET s == Head(lockers[h]) IN
    /\ pc[h] = "unpark"
    /\ claimed' = [claimed EXCEPT ![ClaimFlag(s)] = FALSE]
    /\ token' = [token EXCEPT ![h][s] = TRUE]
    /\ Goto(h, "join")
    /\ UNCHANGED << holder, want, lockers, thread, uses, leaked >>

Unpark(h) ==
    /\ pc[h] = "unpark"
    /\ token' = [token EXCEPT ![h][Head(lockers[h])] = TRUE]
    /\ Goto(h, "join")
    /\ UNCHANGED << claimed, holder, want, lockers, thread, uses, leaked >>

(* Mutant of Join: the helper thread is detached.                          *)
Join_Detaches(h) ==
    /\ pc[h] = "join"
    /\ Goto(h, "store")
    /\ UNCHANGED << claimed, holder, want, lockers, thread, token, uses, leaked >>

Join(h) ==
    /\ pc[h] = "join" /\ thread[h][Head(lockers[h])] = "done"
    /\ thread' = [thread EXCEPT ![h][Head(lockers[h])] = "none"]
    /\ Goto(h, "store")
    /\ UNCHANGED << claimed, holder, want, lockers, token, uses, leaked >>

(* A destructor that releases another flag leaves the claimed one set.     *)
Abandons(s) ==
    leaked' = IF DropFlag(s) = ClaimFlag(s) THEN leaked ELSE leaked \cup {ClaimFlag(s)}

(* Mutant of Store: the flag is never released.                            *)
Store_KeepsFlag(h) ==
    /\ pc[h] = "store" /\ Abandons(Head(lockers[h]))
    /\ lockers' = [lockers EXCEPT ![h] = Tail(@)]
    /\ Goto(h, IF Len(lockers[h]) = 1 THEN "idle" ELSE "unpark")
    /\ UNCHANGED << claimed, holder, want, thread, token, uses >>

Store(h) ==
    /\ pc[h] = "store" /\ Abandons(Head(lockers[h]))
    /\ claimed' = [claimed EXCEPT ![DropFlag(Head(lockers[h]))] = FALSE]
    /\ lockers' = [lockers EXCEPT ![h] = Tail(@)]
    /\ Goto(h, IF Len(lockers[h]) = 1 THEN "idle" ELSE "unpark")
    /\ UNCHANGED << holder, want, thread, token, uses >>

-----------------------------------------------------------------------------
(* The helper thread: `let _lock = stdin.lock(); parker.park()`.           *)

(* Mutant of ThreadLock: try_lock, and its result is dropped.              *)
ThreadLock_Try(h, s) ==
    /\ thread[h][s] = "spawned"
    /\ holder' = IF holder[s] = NoOne THEN [holder EXCEPT ![s] = h] ELSE holder
    /\ thread' = [thread EXCEPT ![h][s] = "parked"]
    /\ UNCHANGED << claimed, pc, want, lockers, token, uses, leaked >>

ThreadLock(h, s) ==
    /\ thread[h][s] = "spawned" /\ holder[s] = NoOne
    /\ holder' = [holder EXCEPT ![s] = h]
    /\ thread' = [thread EXCEPT ![h][s] = "parked"]
    /\ UNCHANGED << claimed, pc, want, lockers, token, uses, leaked >>

ThreadExit(h, s) ==
    /\ thread[h][s] = "parked" /\ token[h][s]
    /\ holder' = [holder EXCEPT ![s] = NoOne]
    /\ thread' = [thread EXCEPT ![h][s] = "done"]
    /\ UNCHANGED << claimed, pc, want, lockers, token, uses, leaked >>

(* The rest of the program.                                                *)
StrangerLocks(x, s) ==
    /\ uses < MaxUses /\ holder[s] = NoOne
    /\ holder' = [holder EXCEPT ![s] = x] /\ uses' = uses + 1
    /\ UNCHANGED << claimed, pc, want, lockers, thread, token, leaked >>

StrangerUnlocks(x, s) ==
    /\ holder[s] = x
    /\ holder' = [holder EXCEPT ![s] = NoOne]
    /\ UNCHANGED << claimed, pc, want, lockers, thread, token, uses, leaked >>

-----------------------------------------------------------------------------
(* The code of a constructor or destructor that has been entered.          *)
Run(h) ==
    \/ Claim(h) \/ Refuse(h) \/ Spawn(h) \/ SpawnFails(h)
    \/ Unpark(h) \/ Join(h) \/ Store(h)

Helper(h, s) == ThreadLock(h, s) \/ ThreadExit(h, s)

Next ==
    \/ \E h \in Handle : Open(h) \/ Close(h) \/ Run(h)
    \/ \E h \in Handle, s \in Stream : Helper(h, s)
    \/ \E x \in Stranger, s \in Stream :
          StrangerLocks(x, s) \/ StrangerUnlocks(x, s)

Spec == Init /\ [][Next]_vars

(* Threads that can run do run, and strangers give std's locks back.       *)
Fairness ==
    /\ \A h \in Handle : WF_vars(Run(h))
    /\ \A h \in Handle, s \in Stream : WF_vars(Helper(h, s))
    /\ \A x \in Stranger, s \in Stream : WF_vars(StrangerUnlocks(x, s))

FairSpec == Spec /\ Fairness

-----------------------------------------------------------------------------
(* A handle owns a stream from the successful compare_exchange until the   *)
(* store that ends the destructor.                                         *)
HasLocker(h, s) == \E i \in 1..Len(lockers[h]) : lockers[h][i] = s
Owns(h, s) == HasLocker(h, s) \/ (pc[h] = "spawn" /\ Head(want[h]) = s)

(* Type invariant; a constructor always has a stream left to claim and a   *)
(* destructor a locker left to drop, so `Head` is never taken of nothing.  *)
TypeOK ==
    /\ claimed \in [Flag -> BOOLEAN]
    /\ holder \in [Stream -> Handle \cup Stranger \cup {NoOne}]
    /\ pc \in [Handle ->
          {"idle", "claim", "spawn", "open", "unpark", "join", "store"}]
    /\ want \in [Handle -> Seq(Stream)]
    /\ lockers \in [Handle -> Seq(Stream)]
    /\ thread \in [Handle -> [Stream -> {"none", "spawned", "parked", "done"}]]
    /\ token \in [Handle -> [Stream -> BOOLEAN]]
    /\ uses \in Nat /\ leaked \subseteq Flag
    /\ \A h \in Handle :
          /\ pc[h] \in {"claim", "spawn"} => want[h] # << >>
          /\ pc[h] \in {"open", "unpark", "join", "store"} => lockers[h] # << >>

(* A standard stream never has two owners, however constructors and        *)
(* destructors of different threads interleave.                            *)
SoleOwner ==
    \A g, h \in Handle, s \in Stream : Owns(g, s) /\ Owns(h, s) => g = h

(* A destructor leaves nothing behind: a helper thread, and with it std's  *)
(* lock, belongs to a handle that still has the locker.                    *)
NoStrayThread ==
    \A h \in Handle, s \in Stream :
        thread[h][s] # "none" \/ holder[s] = h => HasLocker(h, s)

(* The inductive invariant behind the two: a set flag has at most one      *)
(* owner, an owner's flag is set, and a helper thread is gone before its   *)
(* locker is.                                                              *)
FlagHasOneOwner ==
    /\ \A g, h \in Handle, s, t \in Stream :
          Owns(g, s) /\ Owns(h, t) /\ ClaimFlag(s) = ClaimFlag(t) => g = h
    /\ \A h \in Handle : \A i, j \in 1..Len(lockers[h]) :
          ClaimFlag(lockers[h][i]) = ClaimFlag(lockers[h][j]) => i = j
    /\ \A h \in Handle : pc[h] = "spawn" =>
          \A i \in 1..Len(lockers[h]) :
             ClaimFlag(lockers[h][i]) # ClaimFlag(Head(want[h]))

OwnerHasFlag ==
    \A h \in Handle, s \in Stream : Owns(h, s) => claimed[ClaimFlag(s)]

ThreadHasLocker ==
    /\ \A h \in Handle, s \in Stream :
          /\ thread[h][s] # "none" => HasLocker(h, s)
          /\ holder[s] = h => thread[h][s] = "parked"
    /\ \A h \in Handle :
          pc[h] = "store" => thread[h][Head(lockers[h])] = "none"

Ownership == FlagHasOneOwner /\ OwnerHasFlag /\ ThreadHasLocker

(* Each flag that is set has someone or something to account for it.       *)
FlagHasCause ==
    \A f \in Flag : claimed[f] =>
        \/ f \in leaked
        \/ \E g \in Handle, s \in Stream : Owns(g, s) /\ ClaimFlag(s) = f

(* A claim is refused only while another handle owns that very stream      *)
(* ("Fails if a `StdinLocker` instance already exists").                   *)
RefusedOnlyIfOwned ==
    [][ \A h \in Handle :
          Refuse(h) => \E g \in Handle : Owns(g, Head(want[h])) ]_vars

(* A refusal always has a cause: another handle has a stream that goes by  *)
(* the same flag, or a failed spawn or a StderrLocker has left the flag    *)
(* set.  A constructor that fails half way leaves no other.                *)
RefusedHasCause ==
    [][ \A h \in Handle :
          Refuse(h) =>
            \/ ClaimFlag(Head(want[h])) \in leaked
            \/ \E g \in Handle, s \in Stream :
                  Owns(g, s) /\ ClaimFlag(s) = ClaimFlag(Head(want[h])) ]_vars

(* "This crate locks `stdio::io::Stdin` and `std::io::Stdout` while it has *)
(* their corresponding streams open": not at once, since the constructor   *)
(* does not wait for its thread, but in the end.                           *)
LockedInTheEnd ==
    \A h \in Handle, s \in Stream :
        (HasLocker(h, s) /\ pc[h] = "open") ~> (holder[s] = h \/ pc[h] # "open")

(* A destructor returns: unparking before the helper thread has parked, or *)
(* even before it has got std's lock, is not lost.                         *)
CloseReturns ==
    \A h \in Handle : pc[h] = "unpark" ~> pc[h] = "idle"
=============================================================================
