---------------------------- MODULE JobLeaseProofs ----------------------------
(***************************************************************************)
(* Theorems about JobLease, for any number of workers, claims and seconds. *)
(***************************************************************************)
EXTENDS JobLease, TLAPS

\* The columns and thread states keep their types.
THEOREM TypeCorrect == Spec => []TypeOK
<1> USE NoneAssumption, LeaseAssumption DEF TypeOK, Beat, NoTxn
<1>1. Init => TypeOK
  BY DEF Init
<1>2. TypeOK /\ [Next]_vars => TypeOK'
  <2> SUFFICES ASSUME TypeOK, [Next]_vars PROVE TypeOK'
    OBVIOUS
  <2> USE DEF row, threads, Commits, Leave
  <2>1. CASE Tick
    BY <2>1 DEF Tick
  <2>2. ASSUME NEW w \in Worker, BeginTxn(w) PROVE TypeOK'
    BY <2>2 DEF BeginTxn
  <2>3. ASSUME NEW w \in Worker, ClaimJob(w) PROVE TypeOK'
    BY <2>3 DEF ClaimJob
  <2>4. ASSUME NEW w \in Worker, NothingToClaim(w) PROVE TypeOK'
    BY <2>4 DEF NothingToClaim
  <2>5. ASSUME NEW w \in Worker, FencedWrite(w) PROVE TypeOK'
    BY <2>5 DEF FencedWrite
  <2>6. ASSUME NEW w \in Worker, StopBeat(w) PROVE TypeOK'
    BY <2>6 DEF StopBeat
  <2>7. ASSUME NEW w \in Worker, Finish(w) PROVE TypeOK'
    BY <2>7 DEF Finish
  <2>8. ASSUME NEW w \in Worker, GiveUp(w) PROVE TypeOK'
    BY <2>8 DEF GiveUp
  <2>9. ASSUME NEW w \in Worker, Crash(w) PROVE TypeOK'
    BY <2>9 DEF Crash
  <2>10. ASSUME NEW b \in beats, BeatBegins(b) PROVE TypeOK'
    BY <2>10 DEF BeatBegins
  <2>11. ASSUME NEW b \in beats, Renew(b) PROVE TypeOK'
    BY <2>11 DEF Renew
  <2>12. ASSUME NEW b \in beats, BeatLost(b) PROVE TypeOK'
    BY <2>12 DEF BeatLost
  <2>13. ASSUME NEW b \in beats, BeatEnds(b) PROVE TypeOK'
    BY <2>13 DEF BeatEnds
  <2>14. CASE UNCHANGED vars
    BY <2>14 DEF vars
  <2>15. QED
    BY <2>1, <2>2, <2>3, <2>4, <2>5, <2>6, <2>7, <2>8, <2>9, <2>10, <2>11,
       <2>12, <2>13, <2>14 DEF Next
<1>3. QED
  BY <1>1, <1>2, PTL DEF Spec

\* What makes EpochIsOneWorkers inductive: nobody holds an epoch the row has
\* not reached, and no transaction began in the future.
EpochBounds ==
  /\ \A w \in Worker : claim[w] <= epoch /\ began[w] <= now
  /\ \A b \in beats : 0 < b.epoch /\ b.epoch <= epoch
  /\ wrote <= epoch
  /\ status = "leased" => owner \in Worker /\ 0 < epoch

LeaseInv == TypeOK /\ EpochBounds /\ EpochIsOneWorkers

\* A job that was never claimed has no epochs to confuse.
LEMMA LeaseInvInit == Init => LeaseInv
BY NoneAssumption DEF Init, LeaseInv, TypeOK, Beat, NoTxn, EpochBounds, EpochIsOneWorkers

\* Every step keeps the epochs apart.
LEMMA LeaseInvStep == LeaseInv /\ TypeOK' /\ [Next]_vars => LeaseInv'
<1> SUFFICES ASSUME LeaseInv, TypeOK', [Next]_vars PROVE EpochBounds' /\ EpochIsOneWorkers'
  BY DEF LeaseInv
<1> USE NoneAssumption, LeaseAssumption
    DEF LeaseInv, TypeOK, Beat, NoTxn, row, threads, Commits, Leave,
        EpochBounds, EpochIsOneWorkers
<1>1. CASE Tick
  BY <1>1 DEF Tick
<1>2. ASSUME NEW w \in Worker, BeginTxn(w) PROVE EpochBounds' /\ EpochIsOneWorkers'
  BY <1>2 DEF BeginTxn
<1>3. ASSUME NEW w \in Worker, ClaimJob(w) PROVE EpochBounds' /\ EpochIsOneWorkers'
  <2>1. EpochBounds'
    BY <1>3 DEF ClaimJob
  <2>2. EpochIsOneWorkers'
    BY <1>3 DEF ClaimJob
  <2>3. QED
    BY <2>1, <2>2
<1>4. ASSUME NEW w \in Worker, NothingToClaim(w) PROVE EpochBounds' /\ EpochIsOneWorkers'
  BY <1>4 DEF NothingToClaim
<1>5. ASSUME NEW w \in Worker, FencedWrite(w) PROVE EpochBounds' /\ EpochIsOneWorkers'
  BY <1>5 DEF FencedWrite, LeaseMatches
<1>6. ASSUME NEW w \in Worker, StopBeat(w) PROVE EpochBounds' /\ EpochIsOneWorkers'
  BY <1>6 DEF StopBeat
<1>7. ASSUME NEW w \in Worker, Finish(w) PROVE EpochBounds' /\ EpochIsOneWorkers'
  BY <1>7 DEF Finish, LeaseMatches
<1>8. ASSUME NEW w \in Worker, GiveUp(w) PROVE EpochBounds' /\ EpochIsOneWorkers'
  BY <1>8 DEF GiveUp
<1>9. ASSUME NEW w \in Worker, Crash(w) PROVE EpochBounds' /\ EpochIsOneWorkers'
  BY <1>9 DEF Crash
<1>10. ASSUME NEW b \in beats, BeatBegins(b) PROVE EpochBounds' /\ EpochIsOneWorkers'
  BY <1>10 DEF BeatBegins
<1>11. ASSUME NEW b \in beats, Renew(b) PROVE EpochBounds' /\ EpochIsOneWorkers'
  BY <1>11 DEF Renew
<1>12. ASSUME NEW b \in beats, BeatLost(b) PROVE EpochBounds' /\ EpochIsOneWorkers'
  BY <1>12 DEF BeatLost
<1>13. ASSUME NEW b \in beats, BeatEnds(b) PROVE EpochBounds' /\ EpochIsOneWorkers'
  BY <1>13 DEF BeatEnds
<1>14. CASE UNCHANGED vars
  BY <1>14 DEF vars
<1>15. QED
  BY <1>1, <1>2, <1>3, <1>4, <1>5, <1>6, <1>7, <1>8, <1>9, <1>10, <1>11,
     <1>12, <1>13, <1>14 DEF Next

\* The inductive invariant behind the theorems on the lease.
THEOREM LeaseInvariant == Spec => []LeaseInv
BY LeaseInvInit, LeaseInvStep, TypeCorrect, PTL DEF Spec

\* An epoch is held by one worker for ever, in any of its threads.
THEOREM EpochUnique == Spec => []EpochIsOneWorkers
BY LeaseInvariant, PTL DEF LeaseInv

\* No fenced write of an earlier lease is accepted after one of a later lease.
THEOREM WritesAreFenced == Spec => NoWriteAfterSuccessor
<1>1. LeaseInv /\ [Next]_vars => [wrote' >= wrote]_vars
  <2> SUFFICES ASSUME LeaseInv, [Next]_vars, wrote' # wrote PROVE wrote' >= wrote
    BY DEF LeaseInv, TypeOK
  <2>1. PICK w \in Worker : FencedWrite(w)
    BY DEF Next, vars, row, threads, Tick, BeginTxn, ClaimJob, NothingToClaim, StopBeat,
           Finish, GiveUp, Crash, BeatBegins, Renew, BeatLost, BeatEnds
  <2>2. QED
    BY <2>1 DEF FencedWrite, LeaseMatches, LeaseInv, TypeOK, EpochBounds
<1>2. QED
  BY <1>1, LeaseInvariant, PTL DEF Spec, NoWriteAfterSuccessor

\* A live lease is not taken over, however long ago the claim's transaction
\* began.
THEOREM LiveLeaseIsKept == Spec => NoTakeoverOfLiveLease
<1>1. LeaseInv /\ [Next]_vars => [epoch' # epoch /\ status = "leased" => until < now]_vars
  <2> SUFFICES ASSUME LeaseInv, [Next]_vars, epoch' # epoch, status = "leased"
               PROVE until < now
    OBVIOUS
  <2>1. PICK w \in Worker : ClaimJob(w)
    BY DEF Next, vars, row, threads, Tick, BeginTxn, FencedWrite, NothingToClaim, StopBeat,
           Finish, GiveUp, Crash, BeatBegins, Renew, BeatLost, BeatEnds
  <2>2. until < began[w] /\ began[w] <= now
    BY <2>1 DEF ClaimJob, Claimable, LeaseInv, EpochBounds
  <2>3. QED
    BY <2>2 DEF LeaseInv, TypeOK, NoTxn
<1>2. QED
  BY <1>1, LeaseInvariant, PTL DEF Spec, NoTakeoverOfLiveLease

\* The end of a lease is moved by the claim that holds it alone: a heartbeat
\* left behind by an earlier claim renews nothing.
THEOREM HolderExtends == Spec => OnlyHolderExtends
<1> DEFINE Extends == \E b \in beats : b.epoch = epoch /\ b.began # NoTxn /\ b \notin beats'
<1>1. LeaseInv /\ [Next]_vars =>
        [until' # until /\ epoch' = epoch /\ status' = "leased" => Extends]_vars
  <2> SUFFICES ASSUME LeaseInv, [Next]_vars, until' # until, epoch' = epoch, status' = "leased"
               PROVE Extends
    OBVIOUS
  <2>1. ~ \E w \in Worker : ClaimJob(w)
    BY DEF ClaimJob, LeaseInv, TypeOK
  <2>2. ~ \E w \in Worker : Finish(w)
    BY DEF Finish, row
  <2>3. PICK b \in beats : Renew(b)
    BY <2>1, <2>2 DEF Next, vars, row, threads, Tick, BeginTxn, FencedWrite, NothingToClaim,
           StopBeat, GiveUp, Crash, BeatBegins, BeatLost, BeatEnds
  <2>4. b.epoch = epoch /\ b.began # NoTxn /\ b \in Beat
    BY <2>3 DEF Renew, LeaseMatches, LeaseInv, TypeOK
  <2>5. b \notin beats'
    BY <2>3, <2>4 DEF Renew, Beat
  <2>6. QED
    BY <2>4, <2>5
<1>2. QED
  BY <1>1, LeaseInvariant, PTL DEF Spec, OnlyHolderExtends

\* No claim, renewal or deferral reopens a job that is done.
THEOREM DoneStays == Spec => DoneIsFinal
<1>1. LeaseInv /\ [Next]_vars => [status = "done" => status' = "done"]_vars
  BY DEF Next, vars, row, threads, Tick, BeginTxn, ClaimJob, Claimable, FencedWrite,
         NothingToClaim, StopBeat, Finish, LeaseMatches, GiveUp, Crash, BeatBegins, Renew,
         BeatLost, BeatEnds
<1>2. QED
  BY <1>1, LeaseInvariant, PTL DEF Spec, DoneIsFinal

-----------------------------------------------------------------------------
(* The lease implements the fenced lock. *)

HasClaim == \E w \in Worker : claim[w] = epoch

\* A step that moves nothing the lock reads but the clock and the end of the
\* lease is a lapse of the lock or a stutter.
LEMMA QuietStep ==
  ASSUME UNCHANGED <<status, owner, epoch, claim, wrote>>
  PROVE  Lock!Next \/ UNCHANGED Lock!lockVars
<1>1. Holder' = Holder
  BY DEF Holder
<1>2. Lock!Lapse
  BY <1>1 DEF Lock!Lapse
<1>3. QED
  BY <1>2 DEF Lock!Next

\* A worker that forgets its claim releases the lock, if it held it.
LEMMA LeavingStep ==
  ASSUME LeaseInv, NEW w \in Worker, Leave(w), UNCHANGED <<status, owner, epoch, wrote>>
  PROVE  Lock!Next \/ UNCHANGED Lock!lockVars
<1>1. CASE Holder' = Holder
  BY <1>1 DEF Lock!Lapse, Lock!Next
<1>2. CASE Holder' # Holder
  <2>1. status = "leased" /\ owner \in Worker /\ 0 < epoch
    BY <1>2 DEF Holder, LeaseInv, EpochBounds
  <2>2. HasClaim' => HasClaim
    BY <2>1 DEF HasClaim, Leave, LeaseInv, TypeOK
  <2>3. Holder = owner /\ Holder' = None
    BY <1>2, <2>1, <2>2 DEF Holder, HasClaim
  <2>4. Lock!Release
    BY <2>1, <2>3, NoneAssumption DEF Lock!Release
  <2>5. QED
    BY <2>4 DEF Lock!Next
<1>3. QED
  BY <1>1, <1>2

\* A claim acquires the lock: no live worker held it, or its lease had passed.
LEMMA ClaimingStep ==
  ASSUME LeaseInv, NEW w \in Worker, ClaimJob(w)
  PROVE  Lock!Next
<1>1. Holder = None \/ until < now
  <2>1. CASE status = "leased"
    BY <2>1 DEF ClaimJob, Claimable, LeaseInv, EpochBounds, TypeOK, NoTxn
  <2>2. CASE status # "leased"
    BY <2>2 DEF Holder
  <2>3. QED
    BY <2>1, <2>2
<1>2. Holder' = w /\ epoch' = epoch + 1
  BY DEF ClaimJob, Holder, LeaseInv, TypeOK
<1>3. wrote' = wrote
  BY DEF ClaimJob
<1>4. QED
  BY <1>1, <1>2, <1>3 DEF Lock!Acquire, Lock!Next

\* A fenced write is a write of the holder.
LEMMA WritingStep ==
  ASSUME LeaseInv, NEW w \in Worker, FencedWrite(w)
  PROVE  Lock!Next \/ UNCHANGED Lock!lockVars
<1>1. CASE LeaseMatches(w, claim[w], began[w])
  <2>1. Holder = owner /\ owner # None /\ wrote' = epoch
    BY <1>1, NoneAssumption DEF FencedWrite, LeaseMatches, Holder
  <2>2. Holder' = Holder /\ epoch' = epoch /\ (until < now)' = (until < now)
    BY <1>1 DEF FencedWrite, Holder, row
  <2>3. QED
    BY <2>1, <2>2 DEF Lock!Write, Lock!Next
<1>2. CASE ~LeaseMatches(w, claim[w], began[w])
  BY <1>2, LeavingStep DEF FencedWrite, row
<1>3. QED
  BY <1>1, <1>2

\* complete_job and defer_job release the lock.
LEMMA FinishingStep ==
  ASSUME LeaseInv, NEW w \in Worker, Finish(w)
  PROVE  Lock!Next \/ UNCHANGED Lock!lockVars
<1>1. CASE LeaseMatches(w, claim[w], began[w])
  <2>1. Holder # None /\ Holder' = None
    BY <1>1, NoneAssumption DEF Finish, LeaseMatches, Holder
  <2>2. epoch' = epoch /\ wrote' = wrote
    BY <1>1 DEF Finish
  <2>3. QED
    BY <2>1, <2>2 DEF Lock!Release, Lock!Next
<1>2. CASE ~LeaseMatches(w, claim[w], began[w])
  BY <1>2, LeavingStep DEF Finish, row
<1>3. QED
  BY <1>1, <1>2

\* The job row with the threads of its workers implements the fenced lock: one
\* holder at a time, a larger token for each, writes of the holder alone.
THEOREM ImplementsLock == Spec => LockSpec
<1>1. Init => Lock!Init
  BY DEF Init, Lock!Init, Holder
<1>2. LeaseInv /\ [Next]_vars => [Lock!Next]_(Lock!lockVars)
  <2> SUFFICES ASSUME LeaseInv, [Next]_vars
               PROVE  Lock!Next \/ UNCHANGED Lock!lockVars
    OBVIOUS
  <2>1. CASE Tick \/ UNCHANGED vars
    BY <2>1, QuietStep DEF Tick, vars, row, threads
  <2>2. ASSUME NEW w \in Worker, ClaimJob(w) PROVE Lock!Next
    BY <2>2, ClaimingStep
  <2>3. ASSUME NEW w \in Worker, FencedWrite(w)
        PROVE Lock!Next \/ UNCHANGED Lock!lockVars
    BY <2>3, WritingStep
  <2>4. ASSUME NEW w \in Worker, Finish(w) PROVE Lock!Next \/ UNCHANGED Lock!lockVars
    BY <2>4, FinishingStep
  <2>5. ASSUME NEW w \in Worker, GiveUp(w) \/ Crash(w)
        PROVE Lock!Next \/ UNCHANGED Lock!lockVars
    BY <2>5, LeavingStep DEF GiveUp, Crash, row
  <2>6. ASSUME NEW w \in Worker, BeginTxn(w) \/ NothingToClaim(w) \/ StopBeat(w)
        PROVE Lock!Next \/ UNCHANGED Lock!lockVars
    BY <2>6, QuietStep DEF BeginTxn, NothingToClaim, StopBeat, row
  <2>7. ASSUME NEW b \in beats, BeatBegins(b) \/ Renew(b) \/ BeatLost(b) \/ BeatEnds(b)
        PROVE Lock!Next \/ UNCHANGED Lock!lockVars
    BY <2>7, QuietStep DEF BeatBegins, Renew, BeatLost, BeatEnds, row
  <2>8. QED
    BY <2>1, <2>2, <2>3, <2>4, <2>5, <2>6, <2>7 DEF Next
<1>3. QED
  BY <1>1, <1>2, LeaseInvariant, PTL DEF Spec, LockSpec, Lock!Spec
=============================================================================
