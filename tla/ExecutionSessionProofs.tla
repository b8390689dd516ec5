----------------------- MODULE ExecutionSessionProofs -----------------------
(***************************************************************************)
(* Theorems about ExecutionSession, for any number of threads, processes,  *)
(* actions and sandboxes.                                                  *)
(***************************************************************************)
EXTENDS ExecutionSession, TLAPS

InFlight(t) == thread[t].pc \in {"launch", "running", "complete"}
Asks(t) == thread[t].pc \in {"launch", "running"}
Brings(t) == thread[t].pc \in {"admit", "replace"}
Exists(a) == cells[a].status # "none"
Started == {0} \cup DOMAIN started

\* A handle is known to the process that started it, and to threads it serves.
BoxInv ==
  /\ \A p \in Process : handle[p] # 0 => handle[p] \in DOMAIN started /\ started[handle[p]] = p
  /\ session.generation \in Started
  /\ \A a \in Action : cells[a].generation \in Started
  /\ \A t \in Thread : thread[t].generation \in Started
  /\ \A t \in Thread : thread[t].pc \in {"admit", "replace", "register", "fetch", "begin", "launch", "running"} =>
       /\ thread[t].generation \in DOMAIN started
       /\ started[thread[t].generation] = thread[t].process

\* One cell at a time in a process.
LockInv ==
  /\ \A t \in Thread : thread[t].pc # "idle" => thread[t].process \in Process
  /\ \A t \in Thread : thread[t].pc \in {"fetch", "begin", "launch", "running", "complete"} =>
       thread[t].action \in Action
  /\ \A t \in Thread : thread[t].pc = "complete" => thread[t].status \in Results
  /\ \A s, t \in Thread : thread[s].action # None /\ thread[t].action # None =>
       s = t \/ thread[s].process # thread[t].process

\* A sandbox that is not taken yet has no cells, and nobody else brings it.
FreshInv ==
  \A t \in Thread : Brings(t) =>
    /\ thread[t].generation # session.generation
    /\ \A a \in Action : Exists(a) => cells[a].generation # thread[t].generation
    /\ \A s \in Thread : Brings(s) /\ thread[s].generation = thread[t].generation => s = t

\* The cell of a thread is its own, and the last of its sandbox until it runs.
CellInv ==
  /\ session.status = "none" => session.cell_seq = 0
  /\ \A a \in Action : Exists(a) => cells[a].index \in 1 .. session.cell_seq
  /\ \A a, b \in Action : Exists(a) /\ Exists(b) /\ cells[a].index = cells[b].index => a = b
  /\ \A t \in Thread : InFlight(t) => cells[thread[t].action].status = "running"
  /\ \A s, t \in Thread : InFlight(s) /\ InFlight(t) /\ thread[s].action = thread[t].action => s = t
  /\ \A t \in Thread : Asks(t) =>
       /\ cells[thread[t].action].generation = thread[t].generation
       /\ \A b \in Action : Exists(b) /\ cells[b].generation = thread[t].generation =>
            cells[b].index <= cells[thread[t].action].index

RanInv ==
  /\ \A i \in DOMAIN ran : Exists(ran[i])
  /\ \A t \in Thread : thread[t].pc = "launch" => \A i \in DOMAIN ran : ran[i] # thread[t].action

Promises ==
  ActionRunsOnce /\ CellsRunInOrder /\ CellsOfASandboxAreConsecutive /\ BusySessionHasRunningCell

Inv == TypeOK /\ BoxInv /\ LockInv /\ FreshInv /\ CellInv /\ RanInv /\ Promises

-----------------------------------------------------------------------------
LEMMA InitInv == Init => Inv
<1> SUFFICES ASSUME Init PROVE Inv
  OBVIOUS
<1>1. TypeOK
  BY SandboxAssumption DEF Init, TypeOK, Idle, Frame, Generation, SessionStatus
<1>2. BoxInv /\ LockInv /\ FreshInv
  BY DEF Init, Idle, BoxInv, LockInv, FreshInv, Started, Brings
<1>3. CellInv /\ RanInv /\ Promises
  BY DEF Init, Idle, CellInv, RanInv, Promises, Exists, InFlight, Asks, ActionRunsOnce,
         CellsRunInOrder, CellsOfASandboxAreConsecutive, BusySessionHasRunningCell
<1> QED BY <1>1, <1>2, <1>3 DEF Inv

\* A step of one thread that starts no cell and brings no sandbox, and leaves the
\* generation and the cells of the session alone.
Calm == {"idle", "register", "discard", "check", "mark_lost", "fetch", "begin", "pop",
         "restart", "forget", "stop"}

LEMMA CalmInv ==
  ASSUME Inv, NEW t \in Thread, NEW f \in Frame,
         thread' = [thread EXCEPT ![t] = f], f.pc \in Calm,
         f.generation \in Started, f.pc # "idle" => f.process \in Process,
         f.pc \in {"register", "fetch", "begin"} =>
           f.generation \in DOMAIN started /\ started[f.generation] = f.process,
         f.pc \in {"fetch", "begin"} => f.action \in Action,
         \/ f.action = None
         \/ f.action = thread[t].action /\ f.process = thread[t].process
         \/ \A s \in Thread : thread[s].process = f.process => thread[s].action = None,
         \E x \in {session.status, "lost", "stopped"} : session' = [session EXCEPT !.status = x],
         handle' \in [Process -> Generation],
         \A p \in Process : handle'[p] # handle[p] /\ handle'[p] # 0 =>
           handle'[p] \in DOMAIN started /\ started[handle'[p]] = p,
         up' \subseteq up, UNCHANGED <<cells, live, started, ran>>
  PROVE  Inv'
<1>1. thread'[t] = f /\ \A s \in Thread : s # t => thread'[s] = thread[s]
  BY DEF Inv, TypeOK
<1>2. /\ session'.generation = session.generation /\ session'.cell_seq = session.cell_seq
      /\ session'.status \in {session.status, "lost", "stopped"}
      /\ session'.status \in {"none"} \cup SessionStatus
      /\ session' \in [status : {"none"} \cup SessionStatus, generation : Generation, cell_seq : Nat]
  BY DEF Inv, TypeOK, SessionStatus
<1>3. TypeOK'
  BY <1>2 DEF Inv, TypeOK
<1>4. BoxInv'
  BY <1>1, <1>2 DEF Inv, BoxInv, Started, Calm
<1>5. LockInv'
  BY <1>1 DEF Inv, LockInv, Calm
<1>6. \A s \in Thread : Brings(s)' \/ InFlight(s)' \/ Asks(s)' => s # t
  BY <1>1 DEF Brings, InFlight, Asks, Calm
<1>7. FreshInv'
  BY <1>1, <1>2, <1>6 DEF Inv, FreshInv, Brings, Exists
<1>8. CellInv'
  BY <1>1, <1>2, <1>6 DEF Inv, CellInv, InFlight, Asks, Exists
<1>9. RanInv'
  BY <1>1 DEF Inv, RanInv, Exists, Calm
<1>10. Promises'
  BY <1>2 DEF Inv, Promises, ActionRunsOnce, CellsRunInOrder, CellsOfASandboxAreConsecutive,
              BusySessionHasRunningCell
<1> QED BY <1>3, <1>4, <1>5, <1>7, <1>8, <1>9, <1>10 DEF Inv

-----------------------------------------------------------------------------
(* How a step of a thread ends: it returns, or goes on in a calm way. *)

LEMMA IdleFrame == Idle \in Frame /\ Idle.pc = "idle" /\ Idle.generation = 0 /\ Idle.action = None
  BY SandboxAssumption DEF Idle, Frame, Generation

LEMMA ReturnInv ==
  ASSUME Inv, NEW t \in Thread, Returns(t),
         \E x \in {session.status, "lost", "stopped"} : session' = [session EXCEPT !.status = x],
         handle' \in [Process -> Generation],
         \A p \in Process : handle'[p] # handle[p] /\ handle'[p] # 0 =>
           handle'[p] \in DOMAIN started /\ started[handle'[p]] = p,
         up' \subseteq up, UNCHANGED <<cells, live, started, ran>>
  PROVE  Inv'
<1>1. /\ Idle \in Frame /\ thread' = [thread EXCEPT ![t] = Idle] /\ Idle.pc \in Calm
      /\ Idle.generation \in Started /\ Idle.action = None /\ Idle.pc = "idle"
  BY IdleFrame DEF Returns, Calm, Started
<1> HIDE DEF Idle
<1> QED BY <1>1, CalmInv

LEMMA GoesInv ==
  ASSUME Inv, NEW t \in Thread, NEW pc \in Calm \ {"idle"},
         \/ Goes(t, pc)
         \/ Drops(t, pc) /\ pc \notin {"register", "fetch", "begin"},
         thread[t].pc # "idle",
         pc = "register" => Brings(t),
         pc = "fetch" => Own(t) = thread[t].generation /\ thread[t].action # None
                         /\ thread[t].generation # 0,
         pc = "begin" => thread[t].pc = "fetch",
         \E x \in {session.status, "lost", "stopped"} : session' = [session EXCEPT !.status = x],
         handle' \in [Process -> Generation],
         \A p \in Process : handle'[p] # handle[p] /\ handle'[p] # 0 =>
           handle'[p] \in DOMAIN started /\ started[handle'[p]] = p,
         up' \subseteq up, UNCHANGED <<cells, live, started, ran>>
  PROVE  Inv'
<1> DEFINE g == [thread[t] EXCEPT !.pc = pc]
<1> DEFINE d == Dropped(thread[t], pc)
<1>1. thread[t] \in Frame /\ thread[t].process \in Process
  BY DEF Inv, TypeOK, LockInv
<1>2. /\ g \in Frame /\ g.pc = pc /\ g.process = thread[t].process
      /\ g.action = thread[t].action /\ g.generation = thread[t].generation
  BY <1>1 DEF Frame, Calm
<1>3. /\ d \in Frame /\ d.pc = pc /\ d.process = thread[t].process
      /\ d.action = thread[t].action /\ d.generation = 0
  BY <1>1, SandboxAssumption DEF Frame, Calm, Generation, Dropped
<1>4. thread[t].generation \in Started /\ 0 \in Started
  BY DEF Inv, BoxInv, Started
<1>5. pc \in {"register", "fetch", "begin"} =>
        thread[t].generation \in DOMAIN started /\ started[thread[t].generation] = thread[t].process
  BY <1>1 DEF Inv, BoxInv, Brings, Own
<1>6. pc \in {"fetch", "begin"} => thread[t].action \in Action
  BY <1>1 DEF Inv, LockInv, Frame
<1>7. CASE Goes(t, pc)
  <2>1. thread' = [thread EXCEPT ![t] = g]
    BY <1>7 DEF Goes
  <2> HIDE DEF g
  <2> QED BY <1>1, <1>2, <1>4, <1>5, <1>6, <2>1, CalmInv
<1>8. CASE Drops(t, pc) /\ pc \notin {"register", "fetch", "begin"}
  <2>1. thread' = [thread EXCEPT ![t] = d]
    BY <1>8 DEF Drops
  <2> HIDE DEF d
  <2> QED BY <1>1, <1>3, <1>4, <1>8, <2>1, CalmInv
<1> QED BY <1>7, <1>8

LEMMA CallInv ==
  ASSUME Inv, NEW t \in Thread, NEW f \in Frame, Calls(t, f),
         f.pc \in {"check", "restart", "forget"}, f.process \in Process,
         f.generation \in Started, f.action = None \/ LockIsFree(f.process),
         up' \subseteq up, UNCHANGED <<rows, handle, started, ran>>
  PROVE  Inv'
<1>1. session' = [session EXCEPT !.status = session.status] /\ UNCHANGED <<cells, live>>
  BY DEF Inv, TypeOK, rows
<1>2. handle' \in [Process -> Generation]
  BY DEF Inv, TypeOK
<1>3. f.action = None \/ \A s \in Thread : thread[s].process = f.process => thread[s].action = None
  BY DEF LockIsFree
<1> QED BY <1>1, <1>2, <1>3, CalmInv DEF Calls, Calm

-----------------------------------------------------------------------------
(* Steps that start no cell and bring no sandbox. *)

Kept == \E x \in {session.status, "lost", "stopped"} : session' = [session EXCEPT !.status = x]

LEMMA SessionKept ==
  ASSUME TypeOK, \/ UNCHANGED session
                 \/ session' = [session EXCEPT !.status = "lost"]
                 \/ session' = [session EXCEPT !.status = "stopped"]
  PROVE  Kept
<1>1. session = [session EXCEPT !.status = session.status]
  BY DEF TypeOK
<1> QED BY <1>1 DEF Kept

LEMMA HandleKept ==
  ASSUME Inv, NEW t \in Thread, thread[t].pc # "idle",
         \/ UNCHANGED handle
         \/ handle' = [handle EXCEPT ![thread[t].process] = 0]
         \/ At(t, "register") /\ handle' = [handle EXCEPT ![thread[t].process] = thread[t].generation]
  PROVE  /\ handle' \in [Process -> Generation]
         /\ \A p \in Process : handle'[p] # handle[p] /\ handle'[p] # 0 =>
              handle'[p] \in DOMAIN started /\ started[handle'[p]] = p
<1>1. thread[t].generation \in Generation /\ 0 \in Generation /\ handle \in [Process -> Generation]
  BY SandboxAssumption DEF Inv, TypeOK, Frame, Generation
<1>2. At(t, "register") =>
        thread[t].generation \in DOMAIN started /\ started[thread[t].generation] = thread[t].process
  BY DEF Inv, BoxInv, At
<1> QED BY <1>1, <1>2

LEMMA ReturningInv ==
  ASSUME Inv, NEW t \in Thread, Register(t) \/ Discard(t) \/ MarkLost(t) \/ Unusable(t) \/ Pop(t) \/ Stop(t)
  PROVE  Inv'
<1>1. /\ thread[t].pc # "idle" /\ Returns(t) /\ up' \subseteq up /\ UNCHANGED <<cells, live, started, ran>>
  BY DEF Register, Discard, MarkLost, Unusable, Pop, Stop, At, rows, boxes
<1>2. Kept
  BY SessionKept DEF Register, Discard, MarkLost, Unusable, Pop, Stop, rows, boxes, Inv
<1>3. \/ UNCHANGED handle
      \/ handle' = [handle EXCEPT ![thread[t].process] = 0]
      \/ At(t, "register") /\ handle' = [handle EXCEPT ![thread[t].process] = thread[t].generation]
  BY DEF Register, Discard, MarkLost, Unusable, Pop, Stop, rows, boxes
<1> QED BY <1>1, <1>2, <1>3, HandleKept, ReturnInv DEF Kept

LEMMA GoingOnInv ==
  ASSUME Inv, NEW t \in Thread, Check(t) \/ Fetch(t) \/ Forget(t)
  PROVE  Inv'
<1>1. /\ thread[t].pc # "idle" /\ up' \subseteq up /\ UNCHANGED <<cells, live, started, ran>>
  BY DEF Check, Fetch, Forget, At, rows, boxes
<1>2. Kept
  BY SessionKept DEF Check, Fetch, Forget, rows, boxes, Inv
<1>3. UNCHANGED handle \/ handle' = [handle EXCEPT ![thread[t].process] = 0]
  BY DEF Check, Fetch, Forget, rows, boxes
<1>4. /\ handle' \in [Process -> Generation]
      /\ \A p \in Process : handle'[p] # handle[p] /\ handle'[p] # 0 =>
           handle'[p] \in DOMAIN started /\ started[handle'[p]] = p
  BY <1>1, <1>3, HandleKept
<1>5. \/ Returns(t) \/ Drops(t, "mark_lost") \/ Drops(t, "stop")
      \/ Goes(t, "fetch") /\ Own(t) = thread[t].generation /\ thread[t].action # None
                          /\ thread[t].generation \in up
      \/ Goes(t, "begin") /\ thread[t].pc = "fetch"
  BY DEF Check, Fetch, Forget, At
<1>6. CASE Returns(t)
  BY <1>1, <1>2, <1>4, <1>6, ReturnInv DEF Kept
<1>7. CASE Drops(t, "mark_lost")
  BY <1>1, <1>2, <1>4, <1>7, GoesInv DEF Kept, Calm
<1>8. CASE Drops(t, "stop")
  BY <1>1, <1>2, <1>4, <1>8, GoesInv DEF Kept, Calm
<1>9. CASE Goes(t, "fetch") /\ Own(t) = thread[t].generation /\ thread[t].action # None
                          /\ thread[t].generation \in up
  <2>1. thread[t].generation # 0
    BY <1>9 DEF Inv, TypeOK
  <2> QED BY <1>1, <1>2, <1>4, <1>9, <2>1, GoesInv DEF Kept, Calm
<1>10. CASE Goes(t, "begin") /\ thread[t].pc = "fetch"
  BY <1>1, <1>2, <1>4, <1>10, GoesInv DEF Kept, Calm
<1> QED BY <1>5, <1>6, <1>7, <1>8, <1>9, <1>10

LEMMA CallingInv ==
  ASSUME Inv, NEW t \in Thread, NEW p \in Process,
         ReconcileSession(t, p) \/ ExecuteCell(t, p) \/ ReplaceSession(t, p) \/ StopSession(t, p)
  PROVE  Inv'
<1>1. /\ session.generation \in Started /\ handle[p] \in Started /\ 0 \in Started
      /\ session.generation \in Generation /\ handle[p] \in Generation /\ 0 \in Generation
      /\ session.status \in {"none"} \cup SessionStatus
  BY SandboxAssumption DEF Inv, BoxInv, TypeOK, Started, Generation
<1>2. ASSUME NEW a \in Action \cup {None}, Look(t, p, a), a = None \/ LockIsFree(p)
      PROVE  Inv'
  <2> DEFINE f == [pc |-> "check", process |-> p, action |-> a,
                   generation |-> session.generation, status |-> session.status]
  <2>1. /\ f \in Frame /\ f.pc = "check" /\ f.process = p /\ f.generation \in Started /\ f.action = a
    BY <1>1 DEF Frame
  <2>2. Calls(t, f) /\ up' \subseteq up /\ UNCHANGED <<rows, handle, started, ran>>
    BY <1>2 DEF Look, boxes
  <2> HIDE DEF f
  <2> QED BY <1>2, <2>1, <2>2, CallInv
<1>3. CASE ReconcileSession(t, p) \/ ExecuteCell(t, p)
  BY <1>2, <1>3 DEF ReconcileSession, ExecuteCell
<1>4. CASE ReplaceSession(t, p)
  <2> DEFINE f == [Idle EXCEPT !.pc = "restart", !.process = p, !.generation = handle[p]]
  <2>1. /\ f \in Frame /\ f.pc = "restart" /\ f.process = p /\ f.generation \in Started /\ f.action = None
    BY <1>1 DEF Frame, Idle
  <2>2. Calls(t, f) /\ up' \subseteq up /\ UNCHANGED <<rows, handle, started, ran>>
    BY <1>4 DEF ReplaceSession, boxes
  <2> HIDE DEF f
  <2> QED BY <2>1, <2>2, CallInv
<1>5. CASE StopSession(t, p)
  <2> DEFINE f == [Idle EXCEPT !.pc = "forget", !.process = p, !.status = session.status]
  <2>1. /\ f \in Frame /\ f.pc = "forget" /\ f.process = p /\ f.generation \in Started /\ f.action = None
    BY <1>1 DEF Frame, Idle
  <2>2. Calls(t, f) /\ up' \subseteq up /\ UNCHANGED <<rows, handle, started, ran>>
    BY <1>5 DEF StopSession
  <2> HIDE DEF f
  <2> QED BY <2>1, <2>2, CallInv
<1> QED BY <1>3, <1>4, <1>5

-----------------------------------------------------------------------------
(* Sandboxes are started, taken and end. *)

\* A sandbox that is started is brought by a thread, and known to nobody else.
LEMMA StartInv ==
  ASSUME Inv, NEW t \in Thread, NEW p \in Process, NEW f \in Frame,
         thread' = [thread EXCEPT ![t] = f], f.pc \in {"admit", "replace"},
         f.process = p, f.action = None, f.generation = New,
         Starts(p), up' \subseteq up \cup {New}, UNCHANGED <<session, cells, live, handle, ran>>
  PROVE  Inv'
<1>1. thread'[t] = f /\ \A s \in Thread : s # t => thread'[s] = thread[s]
  BY DEF Inv, TypeOK
<1>2. /\ started' \in Seq(Process) /\ DOMAIN started' = DOMAIN started \cup {New}
      /\ New \notin DOMAIN started /\ New # 0 /\ started'[New] = p
      /\ \A g \in DOMAIN started : started'[g] = started[g]
  BY DEF Inv, TypeOK, Starts, New
<1>3. TypeOK'
  BY <1>1, <1>2 DEF Inv, TypeOK
<1> HIDE DEF New
<1>4. BoxInv'
  BY <1>1, <1>2 DEF Inv, BoxInv, Started
<1>5. LockInv'
  BY <1>1 DEF Inv, LockInv
<1>6. New \notin Started
  BY <1>2 DEF Started
<1>7. FreshInv'
  BY <1>1, <1>6 DEF Inv, FreshInv, BoxInv, Brings, Exists
<1>8. \A s \in Thread : InFlight(s)' \/ Asks(s)' => s # t
  BY <1>1 DEF InFlight, Asks
<1>9. CellInv'
  BY <1>1, <1>8 DEF Inv, CellInv, InFlight, Asks, Exists
<1>10. RanInv'
  BY <1>1 DEF Inv, RanInv, Exists
<1>11. Promises'
  BY DEF Inv, Promises, ActionRunsOnce, CellsRunInOrder, CellsOfASandboxAreConsecutive,
         BusySessionHasRunningCell
<1> QED BY <1>3, <1>4, <1>5, <1>7, <1>9, <1>10, <1>11 DEF Inv

LEMMA NewIsAGeneration ==
  ASSUME TypeOK, NEW p \in Process, Starts(p)
  PROVE  New \in Generation
<1>1. New \in Nat /\ New <= MaxSandbox
  BY DEF TypeOK, Starts, New
<1> QED BY <1>1, SandboxAssumption DEF Generation

LEMMA StartingInv ==
  ASSUME Inv, NEW t \in Thread, (\E p \in Process : CreateSession(t, p)) \/ Restart(t)
  PROVE  Inv'
<1>1. ASSUME NEW p \in Process, CreateSession(t, p) PROVE Inv'
  <2> DEFINE f == [Idle EXCEPT !.pc = "admit", !.process = p, !.generation = New]
  <2>1. New \in Generation
    BY <1>1, NewIsAGeneration DEF CreateSession, Inv
  <2>2. f \in Frame /\ f.pc = "admit" /\ f.process = p /\ f.action = None /\ f.generation = New
    BY <2>1 DEF Idle, Frame
  <2>3. /\ thread' = [thread EXCEPT ![t] = f] /\ Starts(p) /\ up' \subseteq up \cup {New}
        /\ UNCHANGED <<session, cells, live, handle, ran>>
    BY <1>1 DEF CreateSession, Calls, rows
  <2> HIDE DEF f
  <2> QED BY <2>2, <2>3, StartInv
<1>2. CASE Restart(t)
  <2>1. /\ thread[t] \in Frame /\ thread[t].pc = "restart" /\ thread[t].process \in Process
    BY <1>2 DEF Restart, At, Inv, TypeOK, LockInv
  <2>2. CASE Returns(t) /\ UNCHANGED started /\ up' \subseteq up
    <3>1. Kept /\ UNCHANGED <<cells, live, handle, ran>>
      BY <1>2, SessionKept DEF Restart, rows, Inv
    <3>2. /\ handle' \in [Process -> Generation]
          /\ \A p \in Process : handle'[p] # handle[p] /\ handle'[p] # 0 =>
               handle'[p] \in DOMAIN started /\ started[handle'[p]] = p
      BY <2>1, <3>1, HandleKept
    <3> QED BY <2>2, <3>1, <3>2, ReturnInv DEF Kept
  <2>3. CASE /\ Starts(thread[t].process) /\ up' \subseteq up \cup {New}
             /\ thread' = [thread EXCEPT ![t] = Brought(thread[t])]
    <3> DEFINE f == Brought(thread[t])
    <3>1. New \in Generation
      BY <2>1, <2>3, NewIsAGeneration DEF Inv
    <3>2. f \in Frame /\ f.pc = "replace" /\ f.process = thread[t].process /\ f.action = None
          /\ f.generation = New /\ thread' = [thread EXCEPT ![t] = f]
      BY <2>1, <2>3, <3>1 DEF Brought, Idle, Frame
    <3>3. UNCHANGED <<session, cells, live, handle, ran>>
      BY <1>2 DEF Restart, rows
    <3> HIDE DEF f
    <3> QED BY <2>1, <2>3, <3>2, <3>3, StartInv
  <2> QED BY <1>2, <2>2, <2>3 DEF Restart
<1> QED BY <1>1, <1>2

\* A step of t that leaves its process, action and generation.
Moves(t, pc) ==
  /\ thread'[t].pc = pc /\ thread'[t].process = thread[t].process
  /\ thread'[t].action = thread[t].action /\ thread'[t].generation = thread[t].generation
  /\ \A s \in Thread : s # t => thread'[s] = thread[s]
  /\ thread' \in [Thread -> Frame]

LEMMA GoesMoves ==
  ASSUME TypeOK, NEW t \in Thread, NEW pc, Goes(t, pc),
         pc \in {"idle", "register", "discard", "launch", "running"}
  PROVE  Moves(t, pc)
  BY DEF TypeOK, Goes, Moves, Frame

\* The session takes the sandbox that a thread brings.
LEMMA TakeInv ==
  ASSUME Inv, NEW t \in Thread, Brings(t), Moves(t, "register"),
         session' = [status |-> "ready", generation |-> thread[t].generation,
                     cell_seq |-> session.cell_seq],
         UNCHANGED <<cells, live, boxes, ran>>
  PROVE  Inv'
<1> UNCHANGED <<handle, started, up>>
  BY DEF boxes
<1>1. /\ session'.status = "ready" /\ session'.cell_seq = session.cell_seq
      /\ session'.generation = thread[t].generation
  OBVIOUS
<1>2. TypeOK'
  BY DEF Inv, TypeOK, Moves, SessionStatus, Frame
<1>3. BoxInv'
  BY <1>1 DEF Inv, BoxInv, Started, Moves, Brings
<1>4. LockInv'
  BY DEF Inv, LockInv, Moves, Brings
<1>5. \A s \in Thread : Brings(s)' \/ InFlight(s)' \/ Asks(s)' => s # t /\ thread'[s] = thread[s]
  BY DEF Brings, InFlight, Asks, Moves
<1>6. FreshInv'
  BY <1>1, <1>5 DEF Inv, FreshInv, Brings, Exists
<1>7. CellInv'
  BY <1>1, <1>5 DEF Inv, CellInv, InFlight, Asks, Exists
<1>8. RanInv'
  BY DEF Inv, RanInv, Exists, Moves
<1>9. Promises'
  <2>1. \A a \in Action : Exists(a) => cells[a].generation # session'.generation
    BY <1>1 DEF Inv, FreshInv
  <2> QED BY <1>1, <2>1 DEF Inv, Promises, ActionRunsOnce, CellsRunInOrder,
             CellsOfASandboxAreConsecutive, BusySessionHasRunningCell, Exists
<1> QED BY <1>2, <1>3, <1>4, <1>6, <1>7, <1>8, <1>9 DEF Inv

LEMMA TakingInv ==
  ASSUME Inv, NEW t \in Thread, Admit(t) \/ Replace(t)
  PROVE  Inv'
<1>1. Brings(t) /\ thread[t].pc # "idle" /\ UNCHANGED <<cells, live, boxes, ran>>
  BY DEF Admit, Replace, Brings, At
<1>2. UNCHANGED <<handle, started, up>> /\ up' \subseteq up
  BY <1>1 DEF boxes
<1>3. CASE Goes(t, "discard") /\ UNCHANGED session
  <2>1. Kept
    BY <1>3, SessionKept DEF Inv
  <2>2. /\ handle' \in [Process -> Generation]
        /\ \A p \in Process : handle'[p] # handle[p] /\ handle'[p] # 0 =>
             handle'[p] \in DOMAIN started /\ started[handle'[p]] = p
    BY <1>1, <1>2, HandleKept
  <2>3. "discard" \in Calm \ {"idle"} /\ "discard" \notin {"register", "fetch", "begin"}
    BY DEF Calm
  <2>4. UNCHANGED <<cells, live, started, ran>>
    BY <1>1, <1>2
  <2> QED BY <1>1, <1>2, <1>3, <2>1, <2>2, <2>3, <2>4, GoesInv DEF Kept
<1>4. CASE /\ Goes(t, "register")
           /\ session' = [status |-> "ready", generation |-> thread[t].generation,
                          cell_seq |-> session.cell_seq]
  <2>1. Moves(t, "register")
    BY <1>4, GoesMoves DEF Inv
  <2> QED BY <1>1, <1>4, <2>1, TakeInv
<1>5. CASE Admit(t) /\ ~(Goes(t, "discard") /\ UNCHANGED session)
  <2>1. /\ Goes(t, "register") /\ session.status = "none"
        /\ session' = [status |-> "ready", generation |-> thread[t].generation, cell_seq |-> 0]
    BY <1>5 DEF Admit
  <2>2. session.cell_seq = 0
    BY <2>1 DEF Inv, CellInv
  <2> QED BY <1>4, <2>1, <2>2
<1>6. CASE Replace(t) /\ ~(Goes(t, "discard") /\ UNCHANGED session)
  <2>1. /\ Goes(t, "register")
        /\ session' = [session EXCEPT !.status = "ready", !.generation = thread[t].generation]
    BY <1>6 DEF Replace
  <2>2. session' = [status |-> "ready", generation |-> thread[t].generation,
                    cell_seq |-> session.cell_seq]
    BY <2>1 DEF Inv, TypeOK
  <2> QED BY <1>4, <2>1, <2>2
<1> QED BY <1>3, <1>5, <1>6

-----------------------------------------------------------------------------
(* Cells. *)

LEMMA BeginInv ==
  ASSUME Inv, NEW t \in Thread, Begin(t)
  PROVE  Inv'
<1>1. /\ At(t, "begin") /\ thread[t].pc = "begin" /\ UNCHANGED <<live, boxes, ran>>
      /\ UNCHANGED <<handle, started, up>>
  BY DEF Begin, At, boxes
<1>2. CASE ~CanBegin(t, thread[t].action)
  <2>1. Returns(t) /\ UNCHANGED <<session, cells>>
    BY <1>2 DEF Begin
  <2>2. Kept
    BY <2>1, SessionKept DEF Inv
  <2>3. /\ handle' \in [Process -> Generation]
        /\ \A p \in Process : handle'[p] # handle[p] /\ handle'[p] # 0 =>
             handle'[p] \in DOMAIN started /\ started[handle'[p]] = p
    BY <1>1, HandleKept
  <2> QED BY <1>1, <2>1, <2>2, <2>3, ReturnInv DEF Kept
<1>3. CASE CanBegin(t, thread[t].action)
  <2> DEFINE a == thread[t].action
             g == thread[t].generation
             k == session.cell_seq + 1
  <2>1. /\ a \in Action /\ g \in Generation /\ g \in DOMAIN started /\ k \in Nat
        /\ started[g] = thread[t].process /\ session.cell_seq \in Nat
        /\ thread[t].action = a /\ thread[t].generation = g /\ k = session.cell_seq + 1
        /\ k > session.cell_seq
    BY <1>1 DEF Inv, TypeOK, LockInv, BoxInv, Frame
  <2>2. cells[a].status = "none" /\ session.generation = g /\ session.status = "ready"
    BY <1>3 DEF CanBegin
  <2>3. Moves(t, "launch")
    BY <1>3, GoesMoves DEF Begin, Inv
  <2>4. /\ session' = [session EXCEPT !.status = "busy", !.cell_seq = session.cell_seq + 1]
        /\ cells' = [cells EXCEPT ![a] = NewCell(t)]
    BY <1>3 DEF Begin
  <2>5. /\ session'.status = "busy" /\ session'.generation = g /\ session'.cell_seq = k
        /\ session' \in [status : {"none"} \cup SessionStatus, generation : Generation, cell_seq : Nat]
    BY <2>1, <2>2, <2>4 DEF Inv, TypeOK, SessionStatus
  <2>6. /\ cells'[a].status = "running" /\ cells'[a].generation = g /\ cells'[a].index = k
        /\ \A b \in Action : b # a => cells'[b] = cells[b]
        /\ cells' \in [Action -> [status : {"none", "running"} \cup Results,
                                  generation : Generation, index : Nat]]
    BY <2>1, <2>4 DEF NewCell, Inv, TypeOK
  <2> HIDE DEF a, g, k
  <2>7. TypeOK'
    BY <1>1, <2>3, <2>5, <2>6 DEF Inv, TypeOK, Moves
  <2>8. BoxInv'
    BY <1>1, <2>1, <2>2, <2>3, <2>5, <2>6 DEF Inv, BoxInv, Started, Moves
  <2>9. LockInv'
    BY <1>1, <2>3 DEF Inv, LockInv, Moves
  <2>10. \A s \in Thread : Brings(s)' => s # t /\ Brings(s) /\ thread'[s] = thread[s]
    BY <2>3 DEF Brings, Moves
  <2>11. FreshInv'
    BY <2>2, <2>5, <2>6, <2>10 DEF Inv, FreshInv, Exists
  <2>12. CellInv'
    <3>1. ASSUME NEW s \in Thread, s # t, InFlight(s)'
          PROVE  InFlight(s) /\ thread[s].action # a /\ thread[s].action \in Action /\ thread'[s] = thread[s]
      BY <2>2, <2>3, <3>1 DEF Moves, InFlight, Inv, CellInv, LockInv
    <3>2. ASSUME NEW s \in Thread, s # t, Asks(s)'
          PROVE  Asks(s) /\ InFlight(s) /\ InFlight(s)' /\ thread[s].generation # g
      <4>1. Asks(s) /\ InFlight(s) /\ InFlight(s)'
        BY <2>3, <3>2 DEF Moves, Asks, InFlight
      <4>2. started[thread[s].generation] = thread[s].process /\ thread[s].action \in Action
        BY <4>1 DEF Asks, Inv, BoxInv, LockInv
      <4>3. thread[s].process # thread[t].process
        BY <2>1, <3>2, <4>2, NoneAssumption DEF Inv, LockInv
      <4> QED BY <2>1, <4>1, <4>2, <4>3
    <3>3. \A b \in Action : b # a /\ Exists(b)' => Exists(b) /\ cells'[b] = cells[b]
                              /\ cells[b].index \in 1 .. session.cell_seq /\ cells[b].index < k
      BY <2>1, <2>6 DEF Exists, Inv, CellInv
    <3>4. /\ session'.status = "none" => session'.cell_seq = 0
          /\ \A b \in Action : Exists(b)' => cells'[b].index \in 1 .. session'.cell_seq
      BY <2>1, <2>5, <2>6, <3>3
    <3>5. \A b, d \in Action : Exists(b)' /\ Exists(d)' /\ cells'[b].index = cells'[d].index => b = d
      BY <2>6, <3>3 DEF Inv, CellInv
    <3>6. \A s \in Thread : InFlight(s)' => cells'[thread'[s].action].status = "running"
      BY <2>1, <2>3, <2>6, <3>1 DEF Moves, Inv, CellInv
    <3>7. \A s, r \in Thread :
            InFlight(s)' /\ InFlight(r)' /\ thread'[s].action = thread'[r].action => s = r
      BY <2>1, <2>3, <3>1 DEF Moves, Inv, CellInv
    <3>8. ASSUME NEW s \in Thread, Asks(s)'
          PROVE  /\ cells'[thread'[s].action].generation = thread'[s].generation
                 /\ \A b \in Action : Exists(b)' /\ cells'[b].generation = thread'[s].generation =>
                      cells'[b].index <= cells'[thread'[s].action].index
      <4>1. CASE s = t
        BY <2>1, <2>3, <2>6, <3>3, <4>1 DEF Moves
      <4>2. CASE s # t
        BY <2>6, <3>1, <3>2, <3>3, <3>8, <4>2 DEF Inv, CellInv
      <4> QED BY <4>1, <4>2
    <3> QED BY <3>4, <3>5, <3>6, <3>7, <3>8 DEF CellInv
  <2>13. \A i \in DOMAIN ran : ran[i] \in Action /\ ran[i] # a /\ cells'[ran[i]] = cells[ran[i]]
    BY <2>2, <2>6 DEF Inv, TypeOK, RanInv, Exists
  <2>14. RanInv'
    BY <1>1, <2>1, <2>3, <2>13 DEF Inv, RanInv, Exists, Moves
  <2>15. ActionRunsOnce' /\ CellsRunInOrder'
    BY <1>1, <2>13 DEF Inv, Promises, ActionRunsOnce, CellsRunInOrder
  <2>16. CellsOfASandboxAreConsecutive'
    <3>1. \A b \in Action : Exists(b) => cells[b].index < k
      BY <2>1 DEF Inv, CellInv
    <3> QED BY <2>2, <2>5, <2>6, <3>1 DEF Inv, Promises, CellsOfASandboxAreConsecutive, Exists
  <2>17. BusySessionHasRunningCell'
    BY <2>1, <2>5, <2>6 DEF BusySessionHasRunningCell
  <2> QED BY <2>7, <2>8, <2>9, <2>11, <2>12, <2>14, <2>15, <2>16, <2>17 DEF Inv, Promises
<1> QED BY <1>2, <1>3

LEMMA LaunchInv ==
  ASSUME Inv, NEW t \in Thread, Launch(t)
  PROVE  Inv'
<1>1. thread[t].pc = "launch" /\ UNCHANGED <<session, cells, live, handle, started, up>>
  BY DEF Launch, At, rows, boxes
<1>2. CASE Returns(t) /\ UNCHANGED ran
  <2>1. Kept
    BY <1>1, SessionKept DEF Inv
  <2>2. /\ handle' \in [Process -> Generation]
        /\ \A p \in Process : handle'[p] # handle[p] /\ handle'[p] # 0 =>
             handle'[p] \in DOMAIN started /\ started[handle'[p]] = p
    BY <1>1, HandleKept
  <2>3. UNCHANGED <<cells, live, started, ran>> /\ up' \subseteq up
    BY <1>1, <1>2
  <2> QED BY <1>2, <2>1, <2>2, <2>3, ReturnInv DEF Kept
<1>3. CASE Goes(t, "running") /\ ran' = Append(ran, thread[t].action)
  <2> DEFINE a == thread[t].action
  <2>1. Moves(t, "running") /\ ran \in Seq(Action) /\ a \in Action
    BY <1>1, <1>3, GoesMoves DEF Inv, TypeOK, LockInv
  <2>2. /\ ran' \in Seq(Action) /\ DOMAIN ran' = DOMAIN ran \cup {Len(ran) + 1}
        /\ ran'[Len(ran) + 1] = a /\ Len(ran) + 1 \notin DOMAIN ran
        /\ DOMAIN ran = 1 .. Len(ran) /\ Len(ran) \in Nat
        /\ \A i \in DOMAIN ran : ran'[i] = ran[i] /\ ran[i] \in Action
    BY <1>3, <2>1
  <2>3. \A i \in DOMAIN ran : ran[i] # a /\ Exists(ran[i])
    BY <1>1 DEF Inv, RanInv
  <2>4. /\ Exists(a) /\ cells[a].generation = thread[t].generation
        /\ \A b \in Action : Exists(b) /\ cells[b].generation = cells[a].generation =>
             cells[b].index <= cells[a].index
    BY <1>1 DEF Inv, CellInv, InFlight, Asks, Exists
  <2>5. TypeOK'
    BY <1>1, <2>1, <2>2 DEF Inv, TypeOK, Moves
  <2>6. BoxInv'
    BY <1>1, <2>1 DEF Inv, BoxInv, Started, Moves
  <2>7. LockInv'
    BY <1>1, <2>1 DEF Inv, LockInv, Moves
  <2>8. \A s \in Thread : (Brings(s)' => Brings(s)) /\ (InFlight(s)' => InFlight(s)) /\ (Asks(s)' => Asks(s))
    BY <1>1, <2>1 DEF Brings, InFlight, Asks, Moves
  <2>9. \A s \in Thread : thread'[s].action = thread[s].action /\ thread'[s].generation = thread[s].generation
    BY <2>1 DEF Moves
  <2>10. FreshInv'
    BY <1>1, <2>8, <2>9 DEF Inv, FreshInv, Exists
  <2>11. CellInv'
    BY <1>1, <2>8, <2>9 DEF Inv, CellInv, Exists
  <2>12. RanInv'
    <3>1. \A i \in DOMAIN ran' : cells'[ran'[i]].status # "none"
      BY <1>1, <2>2, <2>3, <2>4 DEF Exists
    <3>2. ASSUME NEW s \in Thread, thread'[s].pc = "launch", NEW i \in DOMAIN ran'
          PROVE  ran'[i] # thread'[s].action
      <4>1. s # t /\ thread[s].pc = "launch" /\ thread'[s].action = thread[s].action
        BY <2>1, <3>2 DEF Moves
      <4>2. thread[s].action # a
        BY <1>1, <4>1 DEF Inv, CellInv, InFlight
      <4> QED BY <2>2, <4>1, <4>2 DEF Inv, RanInv
    <3> QED BY <3>1, <3>2 DEF RanInv, Exists
  <2>13. ActionRunsOnce'
    BY <2>2, <2>3 DEF Inv, Promises, ActionRunsOnce
  <2>14. \A i \in DOMAIN ran : cells[ran[i]].generation = cells[a].generation =>
           cells[ran[i]].index < cells[a].index
    <3>1. \A b \in Action : cells[b].index \in Nat
      BY DEF Inv, TypeOK
    <3>2. \A b \in Action : Exists(b) /\ b # a => cells[b].index # cells[a].index
      BY <2>1, <2>4 DEF Inv, CellInv
    <3> QED BY <2>1, <2>2, <2>3, <2>4, <3>1, <3>2
  <2>15. CellsRunInOrder'
    <3> HIDE DEF a
    <3>1. ASSUME NEW i \in DOMAIN ran', NEW j \in DOMAIN ran', i < j,
                 cells[ran'[i]].generation = cells[ran'[j]].generation
          PROVE  cells[ran'[i]].index < cells[ran'[j]].index
      <4>1. i \in DOMAIN ran
        BY <2>2, <3>1
      <4>2. CASE j \in DOMAIN ran
        BY <2>2, <3>1, <4>1, <4>2 DEF Inv, Promises, CellsRunInOrder
      <4>3. CASE j = Len(ran) + 1
        BY <2>2, <2>14, <3>1, <4>1, <4>3
      <4> QED BY <2>2, <4>2, <4>3
    <3> QED BY <1>1, <3>1 DEF CellsRunInOrder
  <2>16. CellsOfASandboxAreConsecutive' /\ BusySessionHasRunningCell'
    BY <1>1 DEF Inv, Promises, CellsOfASandboxAreConsecutive, BusySessionHasRunningCell
  <2> QED BY <2>5, <2>6, <2>7, <2>10, <2>11, <2>12, <2>13, <2>15, <2>16 DEF Inv, Promises
<1> QED BY <1>2, <1>3 DEF Launch

LEMMA AnswerInv ==
  ASSUME Inv, NEW t \in Thread, Answer(t)
  PROVE  Inv'
<1>1. /\ thread[t].pc = "running" /\ UNCHANGED <<session, cells, live, handle, started, ran>>
      /\ up' \subseteq up
  BY DEF Answer, At, rows
<1>2. Moves(t, "complete") /\ thread'[t].status \in Results
  <2>1. PICK r \in Answers : thread' = [thread EXCEPT ![t].pc = "complete", ![t].status = r]
    BY DEF Answer
  <2>2. r \in Results
    BY AnswersAssumption
  <2> QED BY <2>1, <2>2 DEF Inv, TypeOK, Moves, Frame
<1>3. TypeOK'
  BY <1>1, <1>2 DEF Inv, TypeOK, Moves
<1>4. BoxInv' /\ LockInv'
  BY <1>1, <1>2 DEF Inv, BoxInv, LockInv, Started, Moves
<1>5. \A s \in Thread : (Brings(s)' => Brings(s)) /\ (InFlight(s)' => InFlight(s)) /\ (Asks(s)' => Asks(s))
  BY <1>1, <1>2 DEF Brings, InFlight, Asks, Moves
<1>6. \A s \in Thread : thread'[s].action = thread[s].action /\ thread'[s].generation = thread[s].generation
  BY <1>2 DEF Moves
<1>7. FreshInv' /\ CellInv'
  BY <1>1, <1>5, <1>6 DEF Inv, FreshInv, CellInv, Exists
<1>8. RanInv'
  BY <1>1, <1>2 DEF Inv, RanInv, Exists, Moves
<1>9. Promises'
  BY <1>1 DEF Inv, Promises, ActionRunsOnce, CellsRunInOrder, CellsOfASandboxAreConsecutive,
              BusySessionHasRunningCell
<1> QED BY <1>3, <1>4, <1>7, <1>8, <1>9 DEF Inv

LEMMA CompleteInv ==
  ASSUME Inv, NEW t \in Thread, Complete(t)
  PROVE  Inv'
<1> DEFINE a == thread[t].action
           r == thread[t].status
<1>1. /\ thread[t].pc = "complete" /\ UNCHANGED <<live, handle, started, up, ran>>
      /\ a \in Action /\ thread[t] \in Frame
  BY DEF Complete, At, boxes, Inv, TypeOK, LockInv
<1>2. cells[a].status = "running"
  BY <1>1 DEF Inv, CellInv, InFlight
<1>3. /\ cells' = [cells EXCEPT ![a].status = r]
      /\ session' = [session EXCEPT !.status = StatusAfter(r)]
      /\ Drops(t, "pop") \/ Returns(t)
  BY <1>2 DEF Complete
<1>4. r \in Results
  BY <1>1 DEF Inv, LockInv
<1> DEFINE f == thread'[t]
<1>5. /\ f \in Frame /\ f.pc \in {"idle", "pop"} /\ f.generation = 0
      /\ f.action \in {None, a} /\ f.process \in {None, thread[t].process}
      /\ f.pc = "pop" => f.process = thread[t].process
      /\ \A s \in Thread : s # t => thread'[s] = thread[s]
      /\ thread' \in [Thread -> Frame]
  <2>1. CASE Returns(t)
    BY <2>1, IdleFrame DEF Returns, Inv, TypeOK, Idle
  <2>2. CASE Drops(t, "pop")
    BY <1>1, <2>2, SandboxAssumption DEF Drops, Dropped, Inv, TypeOK, Frame, Generation
  <2> QED BY <1>3, <2>1, <2>2
<1>6. /\ session'.generation = session.generation /\ session'.cell_seq = session.cell_seq
      /\ session'.status \in {"ready", "lost"}
      /\ session' \in [status : {"none"} \cup SessionStatus, generation : Generation, cell_seq : Nat]
  BY <1>3 DEF Inv, TypeOK, SessionStatus, StatusAfter
<1>7. /\ cells' \in [Action -> [status : {"none", "running"} \cup Results,
                                generation : Generation, index : Nat]]
      /\ cells'[a].status = r
      /\ \A b \in Action : b # a => cells'[b] = cells[b]
      /\ \A b \in Action : cells'[b].generation = cells[b].generation /\ cells'[b].index = cells[b].index
  BY <1>1, <1>3, <1>4 DEF Inv, TypeOK
<1>8. \A b \in Action : Exists(b)' <=> Exists(b)
  BY <1>1, <1>2, <1>4, <1>7 DEF Exists, Results, Lost
<1>9. \A s \in Thread : Brings(s)' \/ InFlight(s)' \/ Asks(s)' => s # t
  BY <1>5 DEF Brings, InFlight, Asks
<1> HIDE DEF a, r, f
<1>10. TypeOK'
  BY <1>1, <1>5, <1>6, <1>7 DEF Inv, TypeOK
<1>11. BoxInv'
  BY <1>1, <1>5, <1>6, <1>7 DEF Inv, BoxInv, Started, f
<1>12. LockInv'
  <2>1. thread[t].process \in Process /\ thread[t].action = a
    BY <1>1 DEF Inv, LockInv, a
  <2>2. \A s \in Thread : thread'[s].pc # "idle" => thread'[s].process \in Process
    BY <1>5, <2>1 DEF Inv, LockInv, f
  <2>3. \A s \in Thread : /\ thread'[s].pc \in {"fetch", "begin", "launch", "running", "complete"} =>
                               thread'[s].action \in Action
                          /\ thread'[s].pc = "complete" => thread'[s].status \in Results
    BY <1>5 DEF Inv, LockInv, f
  <2>4. \A s \in Thread : thread'[s].action # None => thread'[s].process = thread[s].process
                                                     /\ thread[s].action # None
    <3>1. thread'[t].action # None => thread'[t].process = thread[t].process
      BY <1>3, IdleFrame, NoneAssumption DEF Returns, Drops, Dropped, Inv, TypeOK
    <3> QED BY <1>1, <1>5, <2>1, <3>1, NoneAssumption
  <2>5. \A s, u \in Thread : thread'[s].action # None /\ thread'[u].action # None =>
          s = u \/ thread'[s].process # thread'[u].process
    BY <2>4 DEF Inv, LockInv
  <2> QED BY <2>2, <2>3, <2>5 DEF LockInv
<1>13. FreshInv'
  BY <1>5, <1>6, <1>7, <1>8, <1>9 DEF Inv, FreshInv, Brings
<1>14. CellInv'
  <2>1. \A s \in Thread : InFlight(s)' => InFlight(s) /\ thread[s].action # a
                                         /\ thread'[s] = thread[s] /\ thread[s].action \in Action
    BY <1>1, <1>5, <1>9 DEF Inv, CellInv, LockInv, InFlight, a
  <2>2. \A s \in Thread : Asks(s)' => Asks(s) /\ thread'[s] = thread[s] /\ thread[s].action \in Action
    BY <1>5, <1>9 DEF Asks, Inv, LockInv
  <2>3. \A s \in Thread : InFlight(s)' => cells'[thread'[s].action].status = "running"
    BY <1>7, <2>1 DEF Inv, CellInv
  <2>4. \A s, u \in Thread :
          InFlight(s)' /\ InFlight(u)' /\ thread'[s].action = thread'[u].action => s = u
    BY <2>1 DEF Inv, CellInv
  <2>5. \A s \in Thread : Asks(s)' =>
          /\ cells'[thread'[s].action].generation = thread'[s].generation
          /\ \A b \in Action : Exists(b)' /\ cells'[b].generation = thread'[s].generation =>
               cells'[b].index <= cells'[thread'[s].action].index
    BY <1>7, <1>8, <2>2 DEF Inv, CellInv
  <2>6. /\ session'.status = "none" => session'.cell_seq = 0
        /\ \A b \in Action : Exists(b)' => cells'[b].index \in 1 .. session'.cell_seq
        /\ \A b, d \in Action : Exists(b)' /\ Exists(d)' /\ cells'[b].index = cells'[d].index => b = d
    BY <1>6, <1>7, <1>8 DEF Inv, CellInv
  <2> QED BY <2>3, <2>4, <2>5, <2>6 DEF CellInv
<1>15. RanInv'
  <2>1. \A i \in DOMAIN ran : ran[i] \in Action
    BY DEF Inv, TypeOK
  <2>2. \A s \in Thread : thread'[s].pc = "launch" => thread'[s] = thread[s]
    BY <1>5 DEF f
  <2> QED BY <1>1, <1>8, <2>1, <2>2 DEF Inv, RanInv
<1>16. ActionRunsOnce' /\ CellsRunInOrder'
  <2>1. \A i \in DOMAIN ran : ran[i] \in Action
    BY DEF Inv, TypeOK
  <2> QED BY <1>1, <1>7, <2>1 DEF Inv, Promises, ActionRunsOnce, CellsRunInOrder
<1>17. CellsOfASandboxAreConsecutive'
  BY <1>6, <1>7, <1>8 DEF Inv, Promises, CellsOfASandboxAreConsecutive, Exists
<1>18. BusySessionHasRunningCell'
  BY <1>6 DEF BusySessionHasRunningCell
<1> QED BY <1>10, <1>11, <1>12, <1>13, <1>14, <1>15, <1>16, <1>17, <1>18 DEF Inv, Promises

-----------------------------------------------------------------------------
(* The environment. *)

LEMMA EnvironmentInv ==
  ASSUME Inv, SandboxEnds \/ RunEnds
  PROVE  Inv'
<1>1. UNCHANGED <<session, cells, handle, started, thread, ran>> /\ up' \subseteq up /\ live' \in BOOLEAN
  BY DEF SandboxEnds, RunEnds, rows, boxes, Inv, TypeOK
<1>2. TypeOK'
  BY <1>1 DEF Inv, TypeOK
<1>3. BoxInv' /\ LockInv' /\ FreshInv'
  BY <1>1 DEF Inv, BoxInv, LockInv, FreshInv, Started, Brings, Exists
<1>4. CellInv' /\ RanInv'
  BY <1>1 DEF Inv, CellInv, RanInv, InFlight, Asks, Exists
<1>5. Promises'
  BY <1>1 DEF Inv, Promises, ActionRunsOnce, CellsRunInOrder, CellsOfASandboxAreConsecutive,
              BusySessionHasRunningCell
<1> QED BY <1>2, <1>3, <1>4, <1>5 DEF Inv

LEMMA RestartsInv ==
  ASSUME Inv, NEW p \in Process, Restarts(p)
  PROVE  Inv'
<1>1. /\ UNCHANGED <<session, cells, live, started, ran>> /\ up' \subseteq up
      /\ handle' = [handle EXCEPT ![p] = 0]
      /\ \A t \in Thread : thread'[t] \in {Idle, thread[t]}
      /\ thread' \in [Thread -> Frame] /\ handle' \in [Process -> Generation]
  BY IdleFrame, SandboxAssumption DEF Restarts, rows, Inv, TypeOK, Generation
<1>2. /\ Idle.pc = "idle" /\ Idle.generation = 0 /\ Idle.action = None
  BY IdleFrame
<1> HIDE DEF Idle
<1>3. \A t \in Thread : thread'[t].pc # "idle" \/ thread'[t].action # None => thread'[t] = thread[t]
  BY <1>1, <1>2
<1>4. \A t \in Thread : (Brings(t)' => Brings(t)) /\ (InFlight(t)' => InFlight(t)) /\ (Asks(t)' => Asks(t))
                        /\ (Brings(t)' \/ InFlight(t)' \/ Asks(t)' => thread'[t] = thread[t])
  BY <1>3 DEF Brings, InFlight, Asks
<1>5. TypeOK'
  BY <1>1 DEF Inv, TypeOK
<1>6. BoxInv'
  BY <1>1, <1>2, <1>3 DEF Inv, BoxInv, Started
<1>7. LockInv'
  BY <1>3 DEF Inv, LockInv
<1>8. FreshInv'
  BY <1>1, <1>4 DEF Inv, FreshInv, Exists
<1>9. CellInv'
  BY <1>1, <1>4 DEF Inv, CellInv, Exists
<1>10. RanInv'
  BY <1>1, <1>3 DEF Inv, RanInv, Exists
<1>11. Promises'
  BY <1>1 DEF Inv, Promises, ActionRunsOnce, CellsRunInOrder, CellsOfASandboxAreConsecutive,
              BusySessionHasRunningCell
<1> QED BY <1>5, <1>6, <1>7, <1>8, <1>9, <1>10, <1>11 DEF Inv

-----------------------------------------------------------------------------
LEMMA StepInv == Inv /\ [Next]_vars => Inv'
<1> SUFFICES ASSUME Inv, [Next]_vars PROVE Inv'
  OBVIOUS
<1>1. CASE UNCHANGED vars
  <2>1. UNCHANGED <<session, cells, live, handle, started, up, thread, ran>>
    BY <1>1 DEF vars, rows, boxes
  <2>2. TypeOK' /\ BoxInv' /\ LockInv' /\ FreshInv'
    BY <2>1 DEF Inv, TypeOK, BoxInv, LockInv, FreshInv, Started, Brings, Exists
  <2>3. CellInv' /\ RanInv'
    BY <2>1 DEF Inv, CellInv, RanInv, InFlight, Asks, Exists
  <2>4. Promises'
    BY <2>1 DEF Inv, Promises, ActionRunsOnce, CellsRunInOrder, CellsOfASandboxAreConsecutive,
                BusySessionHasRunningCell
  <2> QED BY <2>2, <2>3, <2>4 DEF Inv
<1>2. ASSUME NEW t \in Thread, NEW p \in Process,
             \/ CreateSession(t, p) \/ ReconcileSession(t, p) \/ ExecuteCell(t, p)
             \/ ReplaceSession(t, p) \/ StopSession(t, p)
      PROVE  Inv'
  BY <1>2, StartingInv, CallingInv
<1>3. ASSUME NEW t \in Thread, Continue(t) PROVE Inv'
  BY <1>3, TakingInv, ReturningInv, GoingOnInv, BeginInv, LaunchInv, AnswerInv, CompleteInv,
     StartingInv DEF Continue
<1>4. CASE SandboxEnds \/ RunEnds \/ \E p \in Process : Restarts(p)
  BY <1>4, EnvironmentInv, RestartsInv
<1> QED BY <1>1, <1>2, <1>3, <1>4 DEF Next

\* The inductive invariant holds in every reachable state.
THEOREM InvHolds == Spec => []Inv
  BY InitInv, StepInv, PTL DEF Spec

\* What create_session, execute_cell, replace_session and stop_session write has its type.
THEOREM TypeCorrect == Spec => []TypeOK
<1>1. Inv => TypeOK
  BY DEF Inv
<1> QED BY <1>1, InvHolds, PTL

\* begin_execution sends the code of an action to a sandbox at most once, whatever
\* threads and processes are called with it.
THEOREM NoActionRunsTwice == Spec => []ActionRunsOnce
<1>1. Inv => ActionRunsOnce
  BY DEF Inv, Promises
<1> QED BY <1>1, InvHolds, PTL

\* A sandbox runs its cells in the order of cell_sequence.
THEOREM CellsAreOrdered == Spec => []CellsRunInOrder
<1>1. Inv => CellsRunInOrder
  BY DEF Inv, Promises
<1> QED BY <1>1, InvHolds, PTL

\* No cell of another sandbox comes between two cells of the current generation.
THEOREM SandboxKeepsItsCells == Spec => []CellsOfASandboxAreConsecutive
<1>1. Inv => CellsOfASandboxAreConsecutive
  BY DEF Inv, Promises
<1> QED BY <1>1, InvHolds, PTL

\* A session whose row is busy has a running cell, its latest, in its generation.
THEOREM BusyHasACell == Spec => []BusySessionHasRunningCell
<1>1. Inv => BusySessionHasRunningCell
  BY DEF Inv, Promises
<1> QED BY <1>1, InvHolds, PTL
=============================================================================
