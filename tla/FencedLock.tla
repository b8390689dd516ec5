------------------------------ MODULE FencedLock ------------------------------
(***************************************************************************)
(* What a job lease promises: one holder at a time, a larger token for     *)
(* every acquisition, a lock that is taken over only once it has lapsed,   *)
(* and protected writes that the current holder alone can make.            *)
(***************************************************************************)
EXTENDS Naturals

CONSTANTS Worker, None

VARIABLES
  holder,  \* the worker that holds the lock, or None
  token,   \* the token of the latest acquisition
  lapsed,  \* the lock may be taken over
  last     \* the token of the latest protected write

lockVars == <<holder, token, lapsed, last>>

Init == holder = None /\ token = 0 /\ lapsed \in BOOLEAN /\ last = 0

Acquire(w) ==
  /\ holder = None \/ lapsed
  /\ holder' = w /\ token' = token + 1
  /\ lapsed' \in BOOLEAN
  /\ UNCHANGED last

Write ==
  /\ holder # None /\ last' = token
  /\ UNCHANGED <<holder, token, lapsed>>

\* The holder lets go, deliberately or by dying.
Release ==
  /\ holder # None /\ holder' = None
  /\ lapsed' \in BOOLEAN
  /\ UNCHANGED <<token, last>>

\* Time passes, or the holder (or nobody) moves the end of the lease.
Lapse == lapsed' \in BOOLEAN /\ UNCHANGED <<holder, token, last>>

Next == (\E w \in Worker : Acquire(w)) \/ Write \/ Release \/ Lapse

Spec == Init /\ [][Next]_lockVars
=============================================================================
