---------------------------- MODULE CleanupStack ----------------------------
(***************************************************************************)
(* cmd/void-initfs/cleanup.go: the LIFO stack of cleanup callbacks that    *)
(* the goroutines of void-initfs share.  run() registers a callback after  *)
(* every host-visible acquisition, and both run()'s deferred call and the  *)
(* signal handler unwind the stack.                                        *)
(*                                                                         *)
(* A callback stands for one closure; each is registered at most once.     *)
(* push is one action: its critical section cannot be observed from        *)
(* outside.  unwind is four, because other goroutines run, block on the    *)
(* mutex, or register callbacks between any two callbacks it makes.        *)
(***************************************************************************)
EXTENDS Naturals, Sequences

CONSTANTS
  Goroutine,  \* callers of push and unwind
  Callback,   \* closures that may be registered
  NoOwner     \* the value of mu while the mutex is unlocked

ASSUME NoOwnerAssumption == NoOwner \notin Goroutine

VARIABLES
  mu,     \* the goroutine that holds c.mu, or NoOwner
  fns,    \* c.fns
  at,     \* where each goroutine is with respect to unwind
  i,      \* unwind's loop counter, local to each goroutine: callbacks left
  order,  \* history: the callbacks registered so far, oldest first
  runs    \* history: how often each callback has been run

stackVars == << mu, fns, at, i, order, runs >>

Registered == { order[k] : k \in DOMAIN order }
Done       == { c \in Callback : runs[c] > 0 }

\* d was registered after c
After(d, c) ==
  \E j, k \in DOMAIN order : j < k /\ order[j] = c /\ order[k] = d

-----------------------------------------------------------------------------

Init ==
  /\ mu = NoOwner
  /\ fns = << >>
  /\ at = [g \in Goroutine |-> "running"]
  /\ i = [g \in Goroutine |-> 0]
  /\ order = << >>
  /\ runs = [c \in Callback |-> 0]

\* Mutant of push: no lock around the append.
PushUnlocked(g, c) ==
  /\ at[g] = "running" /\ c \notin Registered
  /\ fns' = Append(fns, c) /\ order' = Append(order, c)
  /\ UNCHANGED << mu, at, i, runs >>

\* push: append under the mutex.
push(g, c) ==
  /\ at[g] = "running"
  /\ c \notin Registered
  /\ mu = NoOwner
  /\ fns' = Append(fns, c)
  /\ order' = Append(order, c)
  /\ UNCHANGED << mu, at, i, runs >>

\* g enters unwind and asks for the mutex.
unwind(g) ==
  /\ at[g] = "running"
  /\ at' = [at EXCEPT ![g] = "locking"]
  /\ UNCHANGED << mu, fns, i, order, runs >>

\* Mutants of Lock: unwind does not lock; the loop skips the newest callback.
LockDropped(g) ==
  /\ at[g] = "locking"
  /\ mu' = g /\ at' = [at EXCEPT ![g] = "unwinding"] /\ i' = [i EXCEPT ![g] = Len(fns)]
  /\ UNCHANGED << fns, order, runs >>

LockSkipsNewest(g) ==
  /\ at[g] = "locking" /\ mu = NoOwner
  /\ mu' = g /\ at' = [at EXCEPT ![g] = "unwinding"]
  /\ i' = [i EXCEPT ![g] = IF fns = << >> THEN 0 ELSE Len(fns) - 1]
  /\ UNCHANGED << fns, order, runs >>

\* c.mu.Lock() returns and the loop starts at the newest callback.
Lock(g) ==
  /\ at[g] = "locking"
  /\ mu = NoOwner
  /\ mu' = g
  /\ at' = [at EXCEPT ![g] = "unwinding"]
  /\ i' = [i EXCEPT ![g] = Len(fns)]
  /\ UNCHANGED << fns, order, runs >>

\* Mutants of RunCallback: the oldest one first; the counter drops by two.
RunOldestFirst(g) ==
  /\ at[g] = "unwinding" /\ i[g] > 0
  /\ runs' = [runs EXCEPT ![fns[Len(fns) + 1 - i[g]]] = @ + 1]
  /\ i' = [i EXCEPT ![g] = @ - 1]
  /\ UNCHANGED << mu, fns, at, order >>

RunCountsTwice(g) ==
  /\ at[g] = "unwinding" /\ i[g] > 0
  /\ runs' = [runs EXCEPT ![fns[i[g]]] = @ + 1]
  /\ i' = [i EXCEPT ![g] = @ - 2]
  /\ UNCHANGED << mu, fns, at, order >>

\* One iteration of the loop: c.fns[i]().
RunCallback(g) ==
  /\ at[g] = "unwinding"
  /\ i[g] > 0
  /\ runs' = [runs EXCEPT ![fns[i[g]]] = @ + 1]
  /\ i' = [i EXCEPT ![g] = @ - 1]
  /\ UNCHANGED << mu, fns, at, order >>

\* Mutants of Unlock: c.fns is not reset; the mutex is not released.
UnlockKeepsFns(g) ==
  /\ at[g] = "unwinding" /\ i[g] = 0
  /\ mu' = NoOwner /\ at' = [at EXCEPT ![g] = "running"]
  /\ UNCHANGED << i, fns, order, runs >>

UnlockForgotten(g) ==
  /\ at[g] = "unwinding" /\ i[g] = 0
  /\ fns' = << >> /\ at' = [at EXCEPT ![g] = "running"]
  /\ UNCHANGED << mu, i, order, runs >>

\* The loop is over: c.fns = nil, and the deferred Unlock.
Unlock(g) ==
  /\ at[g] = "unwinding"
  /\ i[g] = 0
  /\ fns' = << >>
  /\ mu' = NoOwner
  /\ at' = [at EXCEPT ![g] = "running"]
  /\ UNCHANGED << i, order, runs >>

Step(g) ==
  \/ \E c \in Callback : push(g, c)
  \/ unwind(g)
  \/ Lock(g)
  \/ RunCallback(g)
  \/ Unlock(g)

Next == \E g \in Goroutine : Step(g)

Spec == Init /\ [][Next]_stackVars

(***************************************************************************)
(* A goroutine that is inside unwind is scheduled again and again, and     *)
(* sync.Mutex hands the lock to a waiter that has been starved for 1 ms,   *)
(* so Lock is strongly fair.  Nobody is obliged to call push or unwind.    *)
(***************************************************************************)
Fairness ==
  \A g \in Goroutine :
    /\ SF_stackVars(Lock(g))
    /\ WF_stackVars(RunCallback(g))
    /\ WF_stackVars(Unlock(g))

FairSpec == Spec /\ Fairness

-----------------------------------------------------------------------------
(* Properties *)

TypeOK ==
  /\ mu \in Goroutine \union {NoOwner}
  /\ fns \in Seq(Callback)
  /\ at \in [Goroutine -> {"running", "locking", "unwinding"}]
  /\ i \in [Goroutine -> Nat]
  /\ order \in Seq(Callback)
  /\ runs \in [Callback -> Nat]

\* cleanup.go:23-27: however many goroutines unwind, and however their
\* calls overlap, no callback is run twice (no double umount or qemu-nbd -d).
AtMostOnce == \A c \in Callback : runs[c] <= 1

\* cleanup.go:5-6: a callback is run only when every callback registered
\* after it has been run, so what was acquired last is released first, even
\* if callbacks are registered between two calls of unwind.
ReverseOrder ==
  [][\A c \in Done' \ Done : \A d \in Registered : After(d, c) => d \in Done]_stackVars

\* While the mutex is free, what is still on the stack is exactly what was
\* registered and not yet run: unwind neither drops a callback that a
\* goroutine registered while others were waiting, nor leaves one behind.
NothingForgotten ==
  mu = NoOwner => { fns[k] : k \in DOMAIN fns } = Registered \ Done

\* cleanup.go:25-27: a goroutine that calls unwind while another one is
\* unwinding blocks, and returns once the other is finished.
UnwindReturns ==
  \A g \in Goroutine : at[g] = "locking" ~> at[g] = "running"

\* A callback that was registered when a goroutine asked to unwind is run.
RegisteredIsRun ==
  \A g \in Goroutine, c \in Callback :
    (at[g] = "locking" /\ c \in Registered) ~> c \in Done

(***************************************************************************)
(* The inductive invariant behind the three safety properties.             *)
(*                                                                         *)
(* fns is always the tail of order: the callbacks registered since the     *)
(* stack was last emptied.  Base is the length of what was emptied before, *)
(* and Left counts the callbacks of fns that have not been run: all of     *)
(* them, unless a goroutine is in the middle of its loop.                  *)
(***************************************************************************)
Base == Len(order) - Len(fns)
Left == IF mu = NoOwner THEN Len(fns) ELSE i[mu]

Holder ==
  \A g \in Goroutine :
    /\ at[g] = "unwinding" <=> mu = g
    /\ at[g] = "unwinding" => i[g] <= Len(fns)

Distinct == \A j, k \in 1 .. Len(order) : order[j] = order[k] => j = k

TailOfOrder ==
  /\ Len(fns) <= Len(order)
  /\ \A k \in 1 .. Len(fns) : fns[k] = order[Base + k]

IsLeft(k) == Base < k /\ k <= Base + Left

RunCounts ==
  /\ \A k \in 1 .. Len(order) : runs[order[k]] = IF IsLeft(k) THEN 0 ELSE 1
  /\ \A c \in Callback \ Registered : runs[c] = 0

\* What every reachable state of the stack satisfies (cleanup.go:16-36):
\* one goroutine at most is inside the loop, and exactly the callbacks below
\* its loop counter, plus nothing else, are still to be run.
StackInv == TypeOK /\ Holder /\ Distinct /\ TailOfOrder /\ RunCounts

=============================================================================
