------------------------------- MODULE JobLease -------------------------------
(***************************************************************************)
(* One row of the job table and the workers that lease it: claim_job,      *)
(* renew_job_lease, complete_job, defer_job and every transaction fenced   *)
(* by a lease (run_controller.py), called by RunWorker.run_once and its    *)
(* heartbeat thread (run_worker.py).                                       *)
(*                                                                         *)
(* func.now() of a transaction is the time it began, and it may wait for   *)
(* the row's lock: a transaction is two steps here, and it decides with    *)
(* the time of the first.  A heartbeat that does not join in time is left  *)
(* behind: it goes on renewing with its old claim under the same name.     *)
(***************************************************************************)
EXTENDS Integers, FiniteSets

CONSTANTS
  Worker,        \* worker processes, by worker_id
  None,          \* no worker
  LeaseSeconds,  \* lease_seconds
  DelaySeconds,  \* the delay of defer_job
  MaxClock,      \* bound: the database clock
  MaxEpoch       \* bound: claims of the job

ASSUME NoneAssumption == None \notin Worker
ASSUME LeaseAssumption ==
  /\ LeaseSeconds \in Nat \ {0} /\ DelaySeconds \in Nat \ {0}
  /\ MaxClock \in Nat /\ MaxEpoch \in Nat

VARIABLES
  now,                              \* the database clock
  status, owner, until, epoch, due, \* the columns of the job row
  phase,   \* run_once of each worker: idle, working or finishing
  claim,   \* the epoch of the ClaimedJob of each worker; 0 if it has none
  began,   \* when the transaction of the main thread began, or NoTxn
  lost,    \* lease_error is not empty
  beats,   \* the heartbeat threads: the claim of each and its transaction
  wrote    \* the epoch of the latest write fenced by the lease

row == <<status, owner, until, epoch, due>>
threads == <<phase, claim, began, lost, beats>>
vars == <<now, row, threads, wrote>>

NoTxn == -1
Beat == [worker : Worker, epoch : Nat, began : Nat \cup {NoTxn}]

\* Mutants of the two guards below: a lease without its epoch, and a wakeup
\* that may be claimed at the very end of a lease.
LeaseMatches_NoEpoch(w, e, t) == status = "leased" /\ until >= t
LeaseMatches_OwnerOnly(w, e, t) == status = "leased" /\ owner = w /\ until >= t
Claimable_Early(t) == due <= t /\ (status = "ready" \/ (status = "leased" /\ until <= t))

\* _lease_matches, with the time at which the transaction began.
LeaseMatches(w, e, t) == status = "leased" /\ owner = w /\ epoch = e /\ until >= t

Claimable(t) == due <= t /\ (status = "ready" \/ (status = "leased" /\ until < t))

Init ==
  /\ now = 0
  /\ status = "ready" /\ owner = None /\ until = 0 /\ epoch = 0 /\ due = 0
  /\ phase = [w \in Worker |-> "idle"]
  /\ claim = [w \in Worker |-> 0]
  /\ began = [w \in Worker |-> NoTxn]
  /\ lost = [w \in Worker |-> FALSE]
  /\ beats = {} /\ wrote = 0

Tick ==
  /\ now < MaxClock /\ now' = now + 1
  /\ UNCHANGED <<row, threads, wrote>>

\* The main thread of w opens its next transaction.
BeginTxn(w) ==
  /\ began[w] = NoTxn
  /\ began' = [began EXCEPT ![w] = now]
  /\ UNCHANGED <<now, row, phase, claim, lost, beats, wrote>>

Commits(w) == began[w] # NoTxn /\ began' = [began EXCEPT ![w] = NoTxn]

\* Mutant: the epoch is not advanced.
ClaimJob_SameEpoch(w) ==
  /\ phase[w] = "idle" /\ Commits(w) /\ Claimable(began[w]) /\ epoch < MaxEpoch
  /\ status' = "leased" /\ owner' = w
  /\ until' = began[w] + LeaseSeconds /\ UNCHANGED epoch
  /\ phase' = [phase EXCEPT ![w] = "working"]
  /\ claim' = [claim EXCEPT ![w] = epoch + 1]
  /\ lost' = [lost EXCEPT ![w] = FALSE]
  /\ beats' = beats \cup {[worker |-> w, epoch |-> epoch + 1, began |-> NoTxn]}
  /\ UNCHANGED <<now, due, wrote>>

\* claim_job skips a locked row and never waits; run_once then starts the
\* heartbeat of the claim.
ClaimJob(w) ==
  /\ phase[w] = "idle" /\ Commits(w)
  /\ Claimable(began[w]) /\ epoch < MaxEpoch
  /\ status' = "leased" /\ owner' = w
  /\ until' = began[w] + LeaseSeconds /\ epoch' = epoch + 1
  /\ phase' = [phase EXCEPT ![w] = "working"]
  /\ claim' = [claim EXCEPT ![w] = epoch + 1]
  /\ lost' = [lost EXCEPT ![w] = FALSE]
  /\ beats' = beats \cup {[worker |-> w, epoch |-> epoch + 1, began |-> NoTxn]}
  /\ UNCHANGED <<now, due, wrote>>

NothingToClaim(w) ==
  /\ phase[w] = "idle" /\ Commits(w) /\ ~Claimable(began[w])
  /\ UNCHANGED <<now, row, phase, claim, lost, beats, wrote>>

\* Mutant: the worker forgets its claim but not its work.
Leave_KeepsPhase(w) ==
  phase' = [phase EXCEPT ![w] = "lost"] /\ claim' = [claim EXCEPT ![w] = 0]

\* run_once is over for w; its heartbeat thread may outlive it.
Leave(w) ==
  /\ phase' = [phase EXCEPT ![w] = "idle"]
  /\ claim' = [claim EXCEPT ![w] = 0]

\* Any transaction that requires the lease; LeaseLost ends run_once.
FencedWrite(w) ==
  /\ phase[w] = "working" /\ Commits(w)
  /\ IF LeaseMatches(w, claim[w], began[w])
     THEN wrote' = claim[w] /\ UNCHANGED <<phase, claim>>
     ELSE Leave(w) /\ UNCHANGED wrote
  /\ UNCHANGED <<now, row, lost, beats>>

\* finish: stop.set() before joining the heartbeat.
StopBeat(w) ==
  /\ phase[w] = "working" /\ began[w] = NoTxn
  /\ phase' = [phase EXCEPT ![w] = "finishing"]
  /\ UNCHANGED <<now, row, claim, began, lost, beats, wrote>>

Joined(w) == \A b \in beats : ~(b.worker = w /\ b.epoch = claim[w])

\* _finish: complete_job, or defer_job to a later wakeup.
Finish(w) ==
  /\ phase[w] = "finishing" /\ Joined(w) /\ ~lost[w] /\ Commits(w)
  /\ IF LeaseMatches(w, claim[w], began[w])
     THEN /\ \/ status' = "done" /\ UNCHANGED due
             \/ status' = "ready" /\ due' = began[w] + DelaySeconds
          /\ owner' = None /\ until' = 0 /\ UNCHANGED epoch
     ELSE UNCHANGED row
  /\ Leave(w)
  /\ UNCHANGED <<now, lost, beats, wrote>>

\* The heartbeat failed or did not join in time, or the work raised.
GiveUp(w) ==
  /\ phase[w] # "idle" /\ began[w] = NoTxn
  /\ Leave(w)
  /\ UNCHANGED <<now, row, began, lost, beats, wrote>>

Crash(w) ==
  /\ phase[w] # "idle" /\ Leave(w)
  /\ began' = [began EXCEPT ![w] = NoTxn]
  /\ beats' = {b \in beats : b.worker # w}
  /\ UNCHANGED <<now, row, lost, wrote>>

-----------------------------------------------------------------------------
(* The heartbeat threads *)

BeatBegins(b) ==
  /\ b.began = NoTxn
  /\ beats' = (beats \ {b}) \cup {[b EXCEPT !.began = now]}
  /\ UNCHANGED <<now, row, phase, claim, began, lost, wrote>>

\* renew_job_lease
Renew(b) ==
  /\ b.began # NoTxn /\ LeaseMatches(b.worker, b.epoch, b.began)
  /\ until' = b.began + LeaseSeconds
  /\ beats' = (beats \ {b}) \cup {[b EXCEPT !.began = NoTxn]}
  /\ UNCHANGED <<now, status, owner, epoch, due, phase, claim, began, lost, wrote>>

\* LeaseLost in the heartbeat: lease_error, seen by the main thread.
BeatLost(b) ==
  /\ b.began # NoTxn /\ ~LeaseMatches(b.worker, b.epoch, b.began)
  /\ beats' = beats \ {b}
  /\ lost' = [lost EXCEPT ![b.worker] = @ \/ claim[b.worker] = b.epoch]
  /\ UNCHANGED <<now, row, phase, claim, began, wrote>>

\* The thread sees the stop event between two renewals.
BeatEnds(b) ==
  /\ b.began = NoTxn
  /\ phase[b.worker] = "finishing" \/ claim[b.worker] # b.epoch
  /\ beats' = beats \ {b}
  /\ UNCHANGED <<now, row, phase, claim, began, lost, wrote>>

Next ==
  \/ Tick
  \/ \E w \in Worker :
       \/ BeginTxn(w) \/ ClaimJob(w) \/ NothingToClaim(w) \/ FencedWrite(w)
       \/ StopBeat(w) \/ Finish(w) \/ GiveUp(w) \/ Crash(w)
  \/ \E b \in beats : BeatBegins(b) \/ Renew(b) \/ BeatLost(b) \/ BeatEnds(b)

Spec == Init /\ [][Next]_vars

-----------------------------------------------------------------------------
(* Properties *)

\* The job row and the local variables of the workers hold values of their types.
TypeOK ==
  /\ now \in Nat
  /\ status \in {"ready", "leased", "done"} /\ owner \in Worker \cup {None}
  /\ until \in Nat /\ epoch \in Nat /\ due \in Nat
  /\ phase \in [Worker -> {"idle", "working", "finishing"}]
  /\ claim \in [Worker -> Nat] /\ began \in [Worker -> Nat \cup {NoTxn}]
  /\ lost \in [Worker -> BOOLEAN]
  /\ beats \in SUBSET Beat /\ wrote \in Nat

\* An epoch belongs to one worker for ever: two claims of the same epoch, in
\* whatever threads they survive, are claims of one process, and the claim of
\* the current epoch of a leased row is its owner's.
EpochIsOneWorkers ==
  /\ \A w, v \in Worker : claim[w] = claim[v] /\ claim[w] # 0 => w = v
  /\ \A w \in Worker, b \in beats : claim[w] = b.epoch => w = b.worker
  /\ \A b, c \in beats : b.epoch = c.epoch => b.worker = c.worker
  /\ status = "leased" => /\ \A w \in Worker : claim[w] = epoch => w = owner
                          /\ \A b \in beats : b.epoch = epoch => b.worker = owner

\* Once a successor's write is in, no write of an earlier lease is accepted.
NoWriteAfterSuccessor == [][wrote' >= wrote]_vars

\* A lease that has not passed on the database clock is not taken over, even
\* by a transaction that began long before it claims.
NoTakeoverOfLiveLease == [][epoch' # epoch /\ status = "leased" => until < now]_vars

\* The end of a lease moves only by a renewal of the claim that holds it; the
\* heartbeat left behind by an earlier claim of the same worker moves nothing.
OnlyHolderExtends ==
  [][until' # until /\ epoch' = epoch /\ status' = "leased" =>
       \E b \in beats : b.epoch = epoch /\ b.began # NoTxn /\ b \notin beats']_vars

\* A finished job is never leased again.
DoneIsFinal == [][status = "done" => status' = "done"]_vars

\* The lease implements the fenced lock: its holder is the owner while the
\* owner's process still works under the current claim.
Holder == IF status = "leased" /\ (\E w \in Worker : claim[w] = epoch) THEN owner ELSE None

Lock == INSTANCE FencedLock WITH
  holder <- Holder, token <- epoch, lapsed <- (until < now), last <- wrote

LockSpec == Lock!Spec
=============================================================================
