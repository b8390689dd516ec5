--------------------------- MODULE TurnLoopProofs ---------------------------
(***************************************************************************)
(* Theorems about TurnLoop, for every set of workers, every set of answers *)
(* and every bound.  A step of a worker changes the local variables of     *)
(* that worker only, so the invariants are written per worker (what it     *)
(* knows at its next step) over facts about the shared rows that no step   *)
(* of any worker takes back.                                               *)
(***************************************************************************)
EXTENDS TurnLoop, SumTheorems, SequenceTheorems

-----------------------------------------------------------------------------
(* Types *)

NoAnswer == <<"none", 0>>
Closed   == {"processed", "invalid"}

Job == [kind : {"advance_run", "cancel_run"}, status : {"ready", "leased", "done"},
        epoch : 0..MaxEpoch]

CallRow == [status : {"started", "response_committed", "invalid", "processed"},
            amount : Nat, answer : Answer \cup {NoAnswer}, usage : Nat]

\* The steps of a worker that holds a turn, one that is begun, one that is
\* answered, and an operation of its answer.
TurnSteps   == {"quota", "turn", "output", "release", "begin"}
CallSteps   == {"generate", "commit"}
SlotSteps   == {"admit", "start", "dispatch", "execute", "complete", "settle_tool"}
AnswerSteps == SlotSteps \cup {"settle_turn", "settle_output", "process", "reject", "stall",
                               "ask", "tool", "verify", "record", "processed"}
JobSteps    == {"observe", "ensure", "latest", "next", "repairs", "return", "finish", "defer",
                "block", "fail", "exhausted", "finalize", "reconcile", "refinalize"}
Steps == {"idle"} \cup JobSteps \cup TurnSteps \cup CallSteps \cup AnswerSteps

Local == [job : Nat, epoch : Nat, turn : Nat, amount : Nat, slot : Nat, seen : RunStatus,
          flag : BOOLEAN, then : {"idle", "block", "exhausted", "tool", "ok"}, todo : SUBSET Op]

RowTypes ==
  /\ run \in RunStatus /\ faults \in 0..MaxFaults
  /\ jobs \in Seq(Job)
  /\ calls \in Seq(CallRow) /\ Len(calls) <= MaxTurns
  /\ row \in [Key -> Row] /\ used \in [Dimension -> Nat]
  /\ question \in [Answer -> {"none", "pending", "answered"}]
  /\ op \in [Op -> {"none", "ready", "running"} \cup TerminalAction]
  /\ opEpoch \in [Op -> Nat] /\ receipts \subseteq Op
Types == RowTypes /\ pc \in [Worker -> Steps] /\ at \in [Worker -> Local]

\* What a worker holds at its next step s, in its local variables l.
HoldsAt(s, l) ==
  /\ s # "idle" => l.job \in 1..Len(jobs)
  /\ s \in TurnSteps => l.turn \in 1..MaxTurns /\ l.turn <= Len(calls) + 1
  /\ s \in CallSteps \cup AnswerSteps => l.turn \in 1..Len(calls)
  /\ s \in AnswerSteps => calls[l.turn].status # "started"
  /\ s = "tool" => l.slot \in 1..(Ops + 1)
  /\ s \in SlotSteps => l.slot \in Slot
  /\ s \in {"tool"} \cup (SlotSteps \ {"settle_tool"}) => l.then = "tool"
  /\ s = "settle_tool" => l.then \in {"idle", "block", "tool"}
  /\ s = "release" => l.then \in {"idle", "block", "exhausted"}
Holds(w) == HoldsAt(pc[w], at[w])

Answered == \A t \in 1..Len(calls) : calls[t].status # "started" => calls[t].answer \in Answer

WellTyped == Types /\ Answered /\ \A w \in Worker : Holds(w)

-----------------------------------------------------------------------------
(* The wake-up *)

Live == {"queued", "running"}

\* A job that will advance the Run: whoever holds it has seen the Run live.
Wakes(j) ==
  /\ jobs[j].kind = "advance_run" /\ jobs[j].status # "done"
  /\ \A w \in Worker : pc[w] # "idle" /\ at[w].job = j =>
       /\ pc[w] \in {"observe", "ensure"} \/ run = "running"
       /\ pc[w] = "finish" => at[w].seen = "running"

HasWakeup == run \in Live => \E j \in 1..Len(jobs) : Wakes(j)

-----------------------------------------------------------------------------
(* Charges *)

Settled(k) == row[k].status = "settled"
ToolsSettled(t, n) == \A i \in Slot : i < n => Settled(ToolKey(<<t, i>>))
Proposed(t) == calls[t].answer[1]

Processing == AnswerSteps \ {"settle_turn", "settle_output"}

\* What a worker has paid for when it is at step s with the local variables l,
\* and which answer led it there.
PaidAt(s, l) ==
  /\ s \in AnswerSteps \ {"settle_turn"} => Settled(TurnKey(l.turn))
  /\ s \in Processing => Settled(OutputKey(l.turn))
  /\ s = "ask" => Proposed(l.turn) = "clarify"
  /\ s = "reject" => Proposed(l.turn) \in {"invalid", "unusable"}
  /\ s \in {"verify", "record"} => Proposed(l.turn) \in {"final", "unsupported"}
  /\ s \in {"tool"} \cup SlotSteps =>
       Proposed(l.turn) \in Operations /\ ToolsSettled(l.turn, l.slot)
  /\ s = "processed" /\ Proposed(l.turn) \in Operations => ToolsSettled(l.turn, Ops + 1)
Paid(w) == PaidAt(pc[w], at[w])

\* What is paid for a closed turn, and which turns admit operations.
PaidTurn(t) ==
  /\ calls[t].status \in Closed => Settled(TurnKey(t)) /\ Settled(OutputKey(t))
  /\ calls[t].status = "processed" /\ Proposed(t) \in Operations => ToolsSettled(t, Ops + 1)
AdmittedAnswer(o) ==
  op[o] # "none" => /\ o[1] \in 1..Len(calls) /\ calls[o[1]].status # "started"
                    /\ Proposed(o[1]) \in Operations

Charged ==
  /\ \A w \in Worker : Paid(w)
  /\ \A t \in 1..Len(calls) : PaidTurn(t)
  /\ \A o \in Op : AdmittedAnswer(o)

-----------------------------------------------------------------------------
(* Leases *)

CancelSteps == {"finalize", "reconcile", "refinalize"}

\* A worker at a step holds a claim of a job of the right kind, and no two hold
\* the same claim.
Claims(w) ==
  pc[w] # "idle" =>
    /\ at[w].epoch <= jobs[at[w].job].epoch
    /\ pc[w] \in CancelSteps => jobs[at[w].job].kind = "cancel_run"
    /\ pc[w] \notin CancelSteps \cup {"finish", "defer"} =>
         jobs[at[w].job].kind = "advance_run"
Apart(w, v) ==
  pc[w] # "idle" /\ pc[v] # "idle" /\ at[v].job = at[w].job => at[v].epoch # at[w].epoch

Leases ==
  /\ \A w \in Worker : Claims(w)
  /\ \A w, v \in Worker : v # w => Apart(w, v)
  /\ Len(jobs) >= 1 /\ jobs[1].kind = "advance_run"

-----------------------------------------------------------------------------
(* One job advances the Run *)

AllClosed == \A t \in 1..Len(calls) : calls[t].status \in Closed
Repeated(t) == Cardinality({u \in DOMAIN calls : calls[u].answer = calls[t].answer})
Observed(o) == op[o] \in TerminalAction \cup {"none"} \/ run \notin Live

\* What the worker that holds the lease of the job knows at its next step s, with
\* the local variables l: of the turns, and of the operations of a local write.
Owns(w) == pc[w] # "idle" /\ Fenced(w) /\ jobs[at[w].job].kind = "advance_run"

AloneAt(s, l) ==
  /\ s \in {"next", "quota"} => AllClosed
  /\ s \in {"turn", "output", "begin"} => l.turn \in 1..Len(calls) \/ AllClosed
  /\ s \in CallSteps => calls[l.turn].status = "started"
  /\ s \in AnswerSteps => calls[l.turn].status = "response_committed"
  /\ s \in {"tool"} \cup SlotSteps => Repeated(l.turn) < MaxNoProgress
  /\ s = "stall" => Repeated(l.turn) >= MaxNoProgress
  /\ s = "record" /\ l.flag => Unresolved = {}

WritesAt(s, l) ==
  /\ s \in {"execute", "complete"} =>
       /\ op[<<l.turn, l.slot>>] \in {"running"} \cup TerminalAction
       /\ opEpoch[<<l.turn, l.slot>>] = l.epoch
  /\ s \in {"tool"} \cup SlotSteps /\ Proposed(l.turn) = "write" =>
       \A i \in Slot : i < l.slot => Observed(<<l.turn, i>>)
  /\ s = "settle_tool" /\ Proposed(l.turn) = "write" => Observed(<<l.turn, l.slot>>)
  /\ s = "processed" /\ Proposed(l.turn) = "write" =>
       \A i \in Slot : Observed(<<l.turn, i>>)

Knows(w) == AloneAt(pc[w], at[w]) /\ WritesAt(pc[w], at[w])

\* The turns and the operations of a Run that one job advances.
OrderedTurn(t) ==
  /\ t < Len(calls) => calls[t].status \in Closed
  /\ calls[t].status = "processed" /\ Proposed(t) = "write" =>
       \A i \in Slot : Observed(<<t, i>>)
OpenOp(o) ==
  /\ op[o] # "none" =>
       /\ calls[o[1]].status # "invalid"
       /\ calls[o[1]].status = "response_committed" => Repeated(o[1]) < MaxNoProgress
  /\ op[o] = "running" =>
       /\ opEpoch[o] <= jobs[1].epoch
       /\ \A w \in Worker : Owns(w) /\ opEpoch[o] = at[w].epoch =>
            pc[w] \in {"execute", "complete"} /\ ThisOp(w) = o

Serial == Unanswered =>
  /\ \A w \in Worker : Owns(w) => Knows(w)
  /\ \A t \in 1..Len(calls) : OrderedTurn(t)
  /\ \A o \in Op : OpenOp(o)
  /\ run = "queued" => calls = <<>>
  /\ SucceededRunIsResolved

-----------------------------------------------------------------------------
(* Facts about the model's operators *)

LEMMA SeqRow ==
  ASSUME NEW S, NEW s \in Seq(S), NEW i \in 1..Len(s), NEW e \in S
  PROVE  /\ [s EXCEPT ![i] = e] \in Seq(S)
         /\ Len([s EXCEPT ![i] = e]) = Len(s)
         /\ \A k \in 1..Len(s) : [s EXCEPT ![i] = e][k] = IF k = i THEN e ELSE s[k]
<1>1. s \in [1..Len(s) -> S] /\ Len(s) \in Nat
  BY LenProperties
<1> DEFINE r == [s EXCEPT ![i] = e]
<1>2. r \in [1..Len(s) -> S]
  BY <1>1
<1>3. r \in Seq(S)
  BY <1>1, <1>2, SeqDef
<1>4. Len(r) = Len(s)
  BY <1>1, <1>2, <1>3, LenProperties
<1>. QED
  BY <1>1, <1>3, <1>4


\* What no step takes back: jobs, calls and answers.
Grows ==
  /\ Len(jobs) <= Len(jobs') /\ Len(calls) <= Len(calls')
  /\ \A t \in 1..Len(calls) : calls[t].status # "started" =>
       /\ calls'[t].status # "started"
       /\ calls'[t].answer = calls[t].answer /\ calls'[t].usage = calls[t].usage
       /\ calls'[t].amount = calls[t].amount


\* A step of w: w goes on at step s with the local variables l.
Moves(w, s, l) == pc' = [pc EXCEPT ![w] = s] /\ at' = [at EXCEPT ![w] = l]
Mine(w) == \A v \in Worker \ {w} : pc'[v] = pc[v] /\ at'[v] = at[v]
Keeps(w) == Types' /\ Answered' /\ Holds(w)' /\ Grows /\ Mine(w)

LEMMA GotoMoves ==
  ASSUME WellTyped, NEW w \in Worker, NEW s, Goto(w, s), at' = at
  PROVE  Moves(w, s, at[w])
  BY DEF WellTyped, Types, Goto, Moves

LEMMA HoldMoves ==
  ASSUME WellTyped, NEW w \in Worker, NEW f, NEW v, NEW s, Hold(w, f, v, s)
  PROVE  Moves(w, s, [at[w] EXCEPT ![f] = v])
  BY DEF Hold, Goto, Moves

LEMMA DropMoves ==
  ASSUME NEW w \in Worker, Drop(w)
  PROVE  Moves(w, "idle", Idle)
  BY DEF Drop, Goto, Moves

LEMMA Moved ==
  ASSUME WellTyped, NEW w \in Worker, NEW s \in Steps, NEW l \in Local, Moves(w, s, l)
  PROVE  /\ pc' \in [Worker -> Steps] /\ at' \in [Worker -> Local]
         /\ pc'[w] = s /\ at'[w] = l /\ Mine(w)
  BY DEF WellTyped, Types, Moves, Mine

\* A step that writes no call.
LEMMA MoveKeeps ==
  ASSUME WellTyped, NEW w \in Worker, NEW s \in Steps, NEW l \in Local, Moves(w, s, l),
         RowTypes', calls' = calls, Len(jobs) <= Len(jobs'), HoldsAt(s, l)
  PROVE  Keeps(w)
<1>1. /\ pc' \in [Worker -> Steps] /\ at' \in [Worker -> Local]
      /\ pc'[w] = s /\ at'[w] = l /\ Mine(w)
  BY Moved
<1>2. Types'
  BY <1>1 DEF Types
<1>3. Len(jobs) \in Nat /\ Len(jobs') \in Nat
  BY LenProperties DEF WellTyped, Types, RowTypes
<1>4. HoldsAt(s, l)'
  BY <1>3 DEF HoldsAt
<1>5. Holds(w)'
  BY <1>1, <1>4 DEF Holds, HoldsAt
<1>6. Answered' /\ Grows
  BY DEF WellTyped, Types, RowTypes, Answered, Grows
<1>. QED
  BY <1>1, <1>2, <1>5, <1>6 DEF Keeps

\* A step that writes nothing but the local variables of w.
LEMMA ReadKeeps ==
  ASSUME WellTyped, NEW w \in Worker, NEW s \in Steps, NEW l \in Local, Moves(w, s, l),
         UNCHANGED <<run, jobs, calls, rows, opVars, faults>>, HoldsAt(s, l)
  PROVE  Keeps(w)
<1>1. RowTypes'
  BY DEF WellTyped, Types, RowTypes, rows, opVars
<1>2. Len(jobs) <= Len(jobs')
  BY LenProperties DEF WellTyped, Types, RowTypes
<1>. QED
  BY <1>1, <1>2, MoveKeeps

LEMMA LocalFacts ==
  ASSUME WellTyped, NEW w \in Worker
  PROVE  at[w] \in Local /\ pc[w] \in Steps /\ HoldsAt(pc[w], at[w])
  BY DEF WellTyped, Types, Holds

\* Which steps hold what.
LEMMA StepSets ==
  /\ TurnSteps \cap (CallSteps \cup AnswerSteps \cup JobSteps) = {}
  /\ CallSteps \cap (AnswerSteps \cup JobSteps) = {} /\ AnswerSteps \cap JobSteps = {}
  BY DEF TurnSteps, CallSteps, AnswerSteps, SlotSteps, JobSteps

LEMMA JobStepHolds ==
  ASSUME WellTyped, NEW w \in Worker, pc[w] # "idle", NEW s \in JobSteps, NEW l \in Local,
         l.job = at[w].job
  PROVE  HoldsAt(s, l) /\ s \in Steps
  BY LocalFacts DEF HoldsAt, Steps, JobSteps, TurnSteps, CallSteps, AnswerSteps, SlotSteps

LEMMA IdleHolds ==
  /\ Idle \in Local /\ HoldsAt("idle", Idle) /\ "idle" \in Steps
  BY DEF Idle, Local, HoldsAt, Steps, JobSteps, TurnSteps, CallSteps, AnswerSteps, SlotSteps,
         RunStatus

LEMMA ObserveKeeps ==
  ASSUME WellTyped, NEW w \in Worker, Observe(w)
  PROVE  Keeps(w)
<1>1. PICK s \in {"ensure", "latest", "finish"} : Hold(w, "seen", run, s)
  BY DEF Observe, Read
<1> DEFINE l == [at[w] EXCEPT !.seen = run]
<1>2. l \in Local /\ l.job = at[w].job
  BY DEF WellTyped, Types, RowTypes, Local
<1>3. HoldsAt(s, l) /\ s \in Steps
  BY <1>2, JobStepHolds DEF JobSteps, Observe, Read, At
<1>. QED
  BY <1>1, <1>2, <1>3, HoldMoves, ReadKeeps DEF Observe, Read

LEMMA EnsureKeeps ==
  ASSUME WellTyped, NEW w \in Worker, Ensure(w)
  PROVE  Keeps(w)
<1>1. PICK s \in {"latest", "block"} : Moves(w, s, at[w])
  BY GotoMoves DEF Ensure
<1>2. at[w] \in Local /\ HoldsAt(s, at[w]) /\ s \in Steps
  BY LocalFacts, JobStepHolds DEF JobSteps, Ensure, At
<1>3. RowTypes' /\ Len(jobs) <= Len(jobs')
  BY LenProperties DEF Ensure, WellTyped, Types, RowTypes, rows, opVars, RunStatus
<1>. QED
  BY <1>1, <1>2, <1>3, MoveKeeps DEF Ensure

LEMMA LatestKeeps ==
  ASSUME WellTyped, NEW w \in Worker, Latest(w)
  PROVE  Keeps(w)
<1>0. Len(calls) \in Nat /\ pc[w] = "latest" /\ calls \in [1..Len(calls) -> CallRow]
  BY LenProperties DEF WellTyped, Types, RowTypes, Latest, Read, At
<1>1. CASE ~(calls # <<>> /\ calls[Len(calls)].status \in {"started", "response_committed"})
  <2>1. Moves(w, "next", at[w])
    BY <1>1, GotoMoves DEF Latest
  <2>2. at[w] \in Local /\ HoldsAt("next", at[w]) /\ "next" \in Steps
    BY <1>0, LocalFacts, JobStepHolds DEF JobSteps
  <2>. QED
    BY <2>1, <2>2, ReadKeeps DEF Latest, Read
<1>2. CASE calls # <<>> /\ calls[Len(calls)].status \in {"started", "response_committed"}
  <2> DEFINE n == Len(calls)
             l == [at[w] EXCEPT !.turn = n, !.amount = calls[n].amount]
             s == IF calls[n].status = "started" THEN "turn" ELSE "settle_turn"
  <2>1. n \in 1..Len(calls) /\ n <= MaxTurns
    BY <1>0, <1>2, EmptySeq, LenProperties DEF WellTyped, Types, RowTypes
  <2>2. calls[n].amount \in Nat
    BY <1>0, <2>1 DEF CallRow
  <2>3. Moves(w, s, l)
    BY <1>2 DEF Latest, Moves, Goto
  <2>4. l \in Local /\ l.job = at[w].job /\ l.turn = n
    BY <1>0, <2>2, LocalFacts DEF Local
  <2>5. at[w].job \in 1..Len(jobs)
    BY <1>0, LocalFacts DEF HoldsAt
  <2> HIDE DEF l, n
  <2>6. HoldsAt(s, l)
    BY <1>0, <2>1, <2>4, <2>5, SizesAssumption DEF HoldsAt, TurnSteps, CallSteps, AnswerSteps, SlotSteps
  <2>7. s \in Steps
    BY DEF Steps, TurnSteps, AnswerSteps
  <2>. QED
    BY <2>3, <2>4, <2>6, <2>7, ReadKeeps DEF Latest, Read
<1>. QED
  BY <1>1, <1>2

LEMMA NextTurnKeeps ==
  ASSUME WellTyped, NEW w \in Worker, NextTurn(w)
  PROVE  Keeps(w)
<1> DEFINE l == [at[w] EXCEPT !.turn = Len(calls) + 1]
<1>1. Moves(w, "quota", l)
  BY HoldMoves DEF NextTurn
<1>2. Len(calls) \in Nat /\ pc[w] = "next" /\ Len(calls) < MaxTurns
  BY LenProperties DEF WellTyped, Types, RowTypes, NextTurn, Read, At
<1>3. l \in Local /\ l.job = at[w].job /\ l.turn = Len(calls) + 1
  BY <1>2, LocalFacts DEF Local
<1>4. at[w].job \in 1..Len(jobs)
  BY <1>2, LocalFacts DEF HoldsAt
<1> HIDE DEF l
<1>5. HoldsAt("quota", l)
  BY <1>2, <1>3, <1>4, SizesAssumption DEF HoldsAt, TurnSteps, CallSteps, AnswerSteps, SlotSteps
<1>6. "quota" \in Steps
  BY DEF Steps, TurnSteps
<1>. QED
  BY <1>1, <1>3, <1>5, <1>6, ReadKeeps DEF NextTurn, Read
-----------------------------------------------------------------------------
(* Budget rows *)

\* Every key names a turn, a dimension and a call index within the bounds.
LEMMA KeysAreFinite == IsFiniteSet(Key)
<1> DEFINE P == (Turn \X Dimension) \X (0..Ops)
           f == [p \in P |-> <<p[1][1], p[1][2], p[2]>>]
<1>1. IsFiniteSet(Turn) /\ IsFiniteSet(0..Ops)
  BY FS_Interval, SizesAssumption DEF Turn
<1>2. IsFiniteSet(Dimension)
  <2>1. Dimension = ({"model_turn"} \cup {"output_tokens"}) \cup {"tool_call"}
    BY DEF Dimension
  <2>. QED
    BY <2>1, FS_Singleton, FS_Union
<1>3. IsFiniteSet(P)
  BY <1>1, <1>2, FS_Product
<1>4. ASSUME NEW k \in Key PROVE \E p \in P : f[p] = k
  <2>1. <<<<k[1], k[2]>>, k[3]>> \in P
    BY DEF Key
  <2>. QED
    BY <2>1 DEF Key
<1>5. f \in [P -> Key]
  BY DEF Key
<1>6. f \in Surjection(P, Key)
  BY <1>4, <1>5 DEF Surjection
<1>. QED
  BY <1>3, <1>6, FS_Surjection

LEMMA KeyTypes ==
  /\ \A t \in Turn : TurnKey(t) \in Key /\ OutputKey(t) \in Key
  /\ \A o \in Op : ToolKey(o) \in Key
  BY SizesAssumption DEF TurnKey, OutputKey, ToolKey, Key, Dimension, Op, Slot, Turn

\* What a table of rows reserves in a dimension.
Amounts(r) == [k \in Key |-> r[k].amount]
Open(r, d) == {k \in Key : k[2] = d /\ r[k].status = "reserved"}
Total(r, d) == SumFunctionOnSet(Amounts(r), Open(r, d))

LEMMA ReservedIsTotal ==
  ASSUME NEW d
  PROVE  Reserved(d) = Total(row, d) /\ Reserved(d)' = Total(row', d)
  BY DEF Reserved, Total, Amounts, Open

LEMMA OpenIsFinite ==
  ASSUME NEW r \in [Key -> Row], NEW d
  PROVE  /\ IsFiniteSet(Open(r, d)) /\ Open(r, d) \subseteq Key
         /\ \A k \in Key : Amounts(r)[k] \in Nat /\ Amounts(r)[k] = r[k].amount
  BY KeysAreFinite, FS_Subset DEF Row, Open, Amounts

LEMMA TotalType ==
  ASSUME NEW r \in [Key -> Row], NEW d
  PROVE  Total(r, d) \in Nat
  BY OpenIsFinite, SumType DEF Total

LEMMA ReservedType ==
  ASSUME RowTypes, NEW d
  PROVE  Reserved(d) \in Nat
  BY ReservedIsTotal, TotalType DEF RowTypes

Outcomes == {"ok", "block", "exhausted"}

LEMMA ReserveType ==
  ASSUME RowTypes, NEW k \in Key, NEW n \in Nat
  PROVE  Reserving(k, n) \in Outcomes /\ (Reserve(k, n) => row' \in [Key -> Row])
<1>1. row \in [Key -> Row] /\ [status |-> "reserved", amount |-> n] \in Row
  BY DEF RowTypes, Row
<1>2. Reserving(k, n) \in Outcomes
  BY DEF Reserving, Outcomes
<1>. QED
  BY <1>1, <1>2 DEF Reserve

LEMMA SettleType ==
  ASSUME RowTypes, NEW k \in Key, NEW n \in Nat
  PROVE  /\ Settling(k, n) \in Outcomes
         /\ Settle(k, n) => row' \in [Key -> Row] /\ used' \in [Dimension -> Nat]
<1>1. k[2] \in Dimension
  BY DEF Key
<1>2. Settling(k, n) \in Outcomes
  BY DEF Settling, Outcomes
<1>3. row \in [Key -> Row] /\ used \in [Dimension -> Nat]
  BY DEF RowTypes
<1>4. [row[k] EXCEPT !.status = "settled"] \in Row
  BY <1>3 DEF Row
<1>5. Settle(k, n) => row' \in [Key -> Row]
  BY <1>3, <1>4 DEF Settle, rows
<1>6. Settle(k, n) => used' \in [Dimension -> Nat]
  BY <1>1, <1>3 DEF Settle, rows
<1>. QED
  BY <1>2, <1>5, <1>6

LEMMA ReleaseType ==
  ASSUME RowTypes, NEW k \in Key, Release(k)
  PROVE  row' \in [Key -> Row]
  BY DEF Release, RowTypes, Row

-----------------------------------------------------------------------------
(* Starting a turn *)

LEMMA QuotaKeeps ==
  ASSUME WellTyped, NEW w \in Worker, Quota(w)
  PROVE  Keeps(w)
<1>0. pc[w] = "quota" /\ at[w] \in Local /\ HoldsAt("quota", at[w])
  BY LocalFacts DEF Quota, Read, At
<1>1. CASE Goto(w, "exhausted") /\ at' = at
  <2>1. Moves(w, "exhausted", at[w])
    BY <1>1, GotoMoves
  <2>2. HoldsAt("exhausted", at[w]) /\ "exhausted" \in Steps
    BY <1>0, JobStepHolds DEF JobSteps
  <2>. QED
    BY <1>0, <2>1, <2>2, ReadKeeps DEF Quota, Read
<1>2. CASE \E n \in Nat : Hold(w, "amount", n, "turn")
  <2>1. PICK n \in Nat : Hold(w, "amount", n, "turn")
    BY <1>2
  <2> DEFINE l == [at[w] EXCEPT !.amount = n]
  <2>2. Moves(w, "turn", l)
    BY <2>1, HoldMoves
  <2>3. l \in Local /\ l.job = at[w].job /\ l.turn = at[w].turn
    BY <1>0 DEF Local
  <2> HIDE DEF l
  <2>4. HoldsAt("turn", l) /\ "turn" \in Steps
    BY <1>0, <2>3 DEF HoldsAt, TurnSteps, CallSteps, AnswerSteps, SlotSteps, Steps
  <2>. QED
    BY <2>2, <2>3, <2>4, ReadKeeps DEF Quota, Read
<1>3. Limit["output_tokens"] \in Nat /\ used["output_tokens"] \in Nat
      /\ Reserved("output_tokens") \in Nat /\ DefaultOutput \in Nat
  BY ReservedType, LimitAssumption, SizesAssumption DEF WellTyped, Types, RowTypes, Dimension
<1>. QED
  BY <1>1, <1>2, <1>3 DEF Quota

\* The steps that stay in a turn and change no local variable.
LEMMA TurnHolds ==
  ASSUME WellTyped, NEW w \in Worker, pc[w] \in TurnSteps, NEW s \in TurnSteps \ {"release"}
  PROVE  HoldsAt(s, at[w]) /\ s \in Steps
  BY LocalFacts DEF HoldsAt, TurnSteps, CallSteps, AnswerSteps, SlotSteps, Steps

LEMMA AnswerHolds ==
  ASSUME WellTyped, NEW w \in Worker, pc[w] \in AnswerSteps,
         NEW s \in AnswerSteps \ (SlotSteps \cup {"tool"})
  PROVE  HoldsAt(s, at[w]) /\ s \in Steps
  BY LocalFacts DEF HoldsAt, TurnSteps, CallSteps, AnswerSteps, SlotSteps, Steps

LEMMA ReserveTurnKeeps ==
  ASSUME WellTyped, NEW w \in Worker, ReserveTurn(w)
  PROVE  Keeps(w)
<1>0. pc[w] = "turn" /\ at[w] \in Local /\ HoldsAt("turn", at[w]) /\ at[w].turn \in Turn
  BY LocalFacts DEF ReserveTurn, At, HoldsAt, TurnSteps, Turn
<1> DEFINE k == TurnKey(at[w].turn)
<1>1. k \in Key
  BY <1>0, KeyTypes
<1>2. row' \in [Key -> Row] /\ Reserving(k, 1) \in Outcomes
  BY <1>1, ReserveType DEF WellTyped, Types, ReserveTurn
<1> HIDE DEF k
<1>3. PICK s \in {"output", "block", "exhausted"} : Moves(w, s, at[w])
  BY <1>2, GotoMoves DEF ReserveTurn, Outcomes, k
<1>4. HoldsAt(s, at[w]) /\ s \in Steps
  BY <1>0, TurnHolds, JobStepHolds DEF JobSteps, TurnSteps
<1>5. RowTypes' /\ Len(jobs) <= Len(jobs')
  BY <1>2, LenProperties DEF ReserveTurn, WellTyped, Types, RowTypes, opVars
<1>. QED
  BY <1>0, <1>3, <1>4, <1>5, MoveKeeps DEF ReserveTurn

LEMMA ReserveOutputKeeps ==
  ASSUME WellTyped, NEW w \in Worker, ReserveOutput(w)
  PROVE  Keeps(w)
<1>0. pc[w] = "output" /\ at[w] \in Local /\ HoldsAt("output", at[w]) /\ at[w].turn \in Turn
  BY LocalFacts DEF ReserveOutput, At, HoldsAt, TurnSteps, Turn
<1> DEFINE k == OutputKey(at[w].turn)
<1>1. k \in Key /\ at[w].amount \in Nat
  BY <1>0, KeyTypes DEF Local
<1>2. row' \in [Key -> Row] /\ Reserving(k, at[w].amount) \in Outcomes
  BY <1>1, ReserveType DEF WellTyped, Types, ReserveOutput
<1> HIDE DEF k
<1>3. PICK r \in Outcomes : Hold(w, "then", r, IF r = "ok" THEN "begin" ELSE "release")
  BY <1>2 DEF ReserveOutput, k
<1> DEFINE s == IF r = "ok" THEN "begin" ELSE "release"
           l == [at[w] EXCEPT !.then = r]
<1>4. Moves(w, s, l)
  BY <1>3, HoldMoves
<1>5. l \in Local /\ l.job = at[w].job /\ l.turn = at[w].turn /\ l.then = r
  <2>1. r \in {"idle", "block", "exhausted", "tool", "ok"}
    BY DEF Outcomes
  <2>. QED
    BY <1>0, <2>1 DEF Local
<1> HIDE DEF l
<1>6. HoldsAt(s, l) /\ s \in Steps
  BY <1>0, <1>5 DEF HoldsAt, TurnSteps, CallSteps, AnswerSteps, SlotSteps, Steps, Outcomes
<1>7. RowTypes' /\ Len(jobs) <= Len(jobs')
  BY <1>2, LenProperties DEF ReserveOutput, WellTyped, Types, RowTypes, opVars
<1>. QED
  BY <1>4, <1>5, <1>6, <1>7, MoveKeeps DEF ReserveOutput

LEMMA OutputFailsKeeps ==
  ASSUME WellTyped, NEW w \in Worker, OutputFails(w)
  PROVE  Keeps(w)
<1>0. pc[w] = "output" /\ at[w] \in Local /\ HoldsAt("output", at[w])
  BY LocalFacts DEF OutputFails, At
<1> DEFINE l == [at[w] EXCEPT !.then = "idle"]
<1>1. Moves(w, "release", l)
  BY HoldMoves DEF OutputFails
<1>2. l \in Local /\ l.job = at[w].job /\ l.turn = at[w].turn /\ l.then = "idle"
  BY <1>0 DEF Local
<1> HIDE DEF l
<1>3. HoldsAt("release", l) /\ "release" \in Steps
  BY <1>0, <1>2 DEF HoldsAt, TurnSteps, CallSteps, AnswerSteps, SlotSteps, Steps
<1>4. RowTypes' /\ Len(jobs) <= Len(jobs')
  BY LenProperties, SizesAssumption
     DEF OutputFails, Fault, WellTyped, Types, RowTypes, opVars, rows
<1>. QED
  BY <1>1, <1>2, <1>3, <1>4, MoveKeeps DEF OutputFails

LEMMA ReleaseTurnKeeps ==
  ASSUME WellTyped, NEW w \in Worker, ReleaseTurn(w)
  PROVE  Keeps(w)
<1>0. /\ pc[w] = "release" /\ at[w] \in Local /\ at[w].turn \in Turn
      /\ at[w].then \in {"idle", "block", "exhausted"}
  BY LocalFacts DEF ReleaseTurn, At, HoldsAt, TurnSteps, Turn
<1>1. row' \in [Key -> Row]
  BY <1>0, KeyTypes, ReleaseType DEF WellTyped, Types, ReleaseTurn
<1>2. RowTypes' /\ Len(jobs) <= Len(jobs')
  BY <1>1, LenProperties DEF ReleaseTurn, WellTyped, Types, RowTypes, opVars
<1>3. CASE at[w].then = "idle"
  BY <1>2, <1>3, DropMoves, IdleHolds, MoveKeeps DEF ReleaseTurn
<1>4. CASE at[w].then # "idle"
  <2>1. PICK s \in {"block", "exhausted"} : Moves(w, s, at[w])
    BY <1>0, <1>4, GotoMoves DEF ReleaseTurn
  <2>2. HoldsAt(s, at[w]) /\ s \in Steps
    BY <1>0, JobStepHolds DEF JobSteps
  <2>. QED
    BY <1>0, <1>2, <2>1, <2>2, MoveKeeps DEF ReleaseTurn
<1>. QED
  BY <1>3, <1>4

\* A step that writes a call.
LEMMA WriteKeeps ==
  ASSUME WellTyped, NEW w \in Worker, NEW s, NEW l \in Local, Moves(w, s, l),
         UNCHANGED <<run, jobs, rows, opVars, faults>>,
         calls' \in Seq(CallRow), Len(calls') <= MaxTurns, Answered', Grows,
         l.job \in 1..Len(jobs),
         \/ s \in JobSteps
         \/ s \in CallSteps /\ l.turn \in 1..Len(calls')
         \/ /\ s \in AnswerSteps \ (SlotSteps \cup {"tool"})
            /\ l.turn \in 1..Len(calls') /\ calls'[l.turn].status # "started"
  PROVE  Keeps(w)
<1>0. s \in Steps
  BY DEF Steps
<1>1. /\ pc' \in [Worker -> Steps] /\ at' \in [Worker -> Local]
      /\ pc'[w] = s /\ at'[w] = l /\ Mine(w)
  BY <1>0, Moved
<1>2. Types'
  BY <1>1 DEF Types, RowTypes, WellTyped, rows, opVars
<1>3. Holds(w)'
  BY <1>1 DEF Holds, HoldsAt, JobSteps, TurnSteps, CallSteps, AnswerSteps, SlotSteps
<1>. QED
  BY <1>1, <1>2, <1>3 DEF Keeps

\* One row of the calls is rewritten.
LEMMA UpdateGrows ==
  ASSUME WellTyped, jobs' = jobs, NEW u \in 1..Len(calls), NEW e \in CallRow,
         calls' = [calls EXCEPT ![u] = e], e.status # "started", e.answer \in Answer,
         calls[u].status # "started" =>
           e.answer = calls[u].answer /\ e.usage = calls[u].usage /\ e.amount = calls[u].amount
  PROVE  /\ calls' \in Seq(CallRow) /\ Len(calls') = Len(calls) /\ Len(calls') <= MaxTurns
         /\ calls'[u] = e /\ \A t \in 1..Len(calls) : t # u => calls'[t] = calls[t]
         /\ Answered' /\ Grows
<1>1. calls \in Seq(CallRow) /\ Len(calls) <= MaxTurns /\ jobs \in Seq(Job)
  BY DEF WellTyped, Types, RowTypes
<1>2. /\ calls' \in Seq(CallRow) /\ Len(calls') = Len(calls)
      /\ \A t \in 1..Len(calls) : calls'[t] = IF t = u THEN e ELSE calls[t]
  BY <1>1, SeqRow
<1>3. Len(calls) \in Nat /\ Len(jobs) \in Nat
  BY <1>1, LenProperties
<1>4. Answered'
  BY <1>2 DEF WellTyped, Answered
<1>5. Grows
  BY <1>2, <1>3 DEF Grows
<1>. QED
  BY <1>1, <1>2, <1>4, <1>5

LEMMA BeginCallKeeps ==
  ASSUME WellTyped, NEW w \in Worker, BeginCall(w)
  PROVE  Keeps(w)
<1>0. /\ pc[w] = "begin" /\ at[w] \in Local /\ HoldsAt("begin", at[w])
      /\ at[w].job \in 1..Len(jobs) /\ at[w].turn \in 1..MaxTurns
      /\ at[w].turn <= Len(calls) + 1 /\ at[w].amount \in Nat
  BY LocalFacts DEF BeginCall, At, HoldsAt, TurnSteps, Local
<1>1. calls \in Seq(CallRow) /\ Len(calls) \in Nat /\ Len(jobs) \in Nat
  BY LenProperties DEF WellTyped, Types, RowTypes
<1>2. CASE run # "running"
  <2>1. Moves(w, "block", at[w])
    BY <1>2, GotoMoves DEF BeginCall
  <2>2. HoldsAt("block", at[w]) /\ "block" \in Steps
    BY <1>0, JobStepHolds DEF JobSteps
  <2>. QED
    BY <1>0, <1>2, <2>1, <2>2, ReadKeeps DEF BeginCall, rows
<1>3. CASE run = "running" /\ at[w].turn > Len(calls)
  <2> DEFINE e == [status |-> "started", amount |-> at[w].amount,
                   answer |-> <<"none", 0>>, usage |-> 0]
  <2>1. calls' = Append(calls, e) /\ Moves(w, "generate", at[w])
    BY <1>3, GotoMoves DEF BeginCall
  <2>2. e \in CallRow
    BY <1>0 DEF CallRow, NoAnswer
  <2>3. at[w].turn = Len(calls) + 1 /\ Len(calls) + 1 <= MaxTurns
    BY <1>0, <1>1, <1>3, SizesAssumption
  <2>4. /\ calls' \in Seq(CallRow) /\ Len(calls') = Len(calls) + 1
        /\ \A t \in 1..Len(calls) : calls'[t] = calls[t]
        /\ calls'[Len(calls) + 1] = e
    BY <1>1, <2>1, <2>2, AppendProperties
  <2>5. e.status = "started"
    OBVIOUS
  <2> HIDE DEF e
  <2>6. Answered'
    BY <1>1, <2>4, <2>5 DEF WellTyped, Answered
  <2>7. Grows
    BY <1>1, <2>4 DEF Grows, BeginCall
  <2>8. at[w].turn \in 1..Len(calls')
    BY <1>0, <1>1, <2>3, <2>4
  <2>. QED
    BY <1>0, <2>1, <2>3, <2>4, <2>6, <2>7, <2>8, WriteKeeps DEF BeginCall, CallSteps
<1>4. CASE run = "running" /\ ~(at[w].turn > Len(calls))
  <2>1. PICK s \in {"generate", "settle_turn", "block"} :
          Moves(w, s, at[w]) /\ (s = "settle_turn" => Call(w).status # "started")
    <3>1. PICK s \in {"generate", "settle_turn", "block"} :
            Goto(w, s) /\ (s = "settle_turn" => Call(w).status # "started")
      BY <1>4 DEF BeginCall
    <3>. QED
      BY <3>1, GotoMoves DEF BeginCall
  <2>2. at[w].turn \in 1..Len(calls)
    BY <1>0, <1>1, <1>4
  <2>3. HoldsAt(s, at[w]) /\ s \in Steps
    BY <1>0, <2>1, <2>2
       DEF HoldsAt, TurnSteps, CallSteps, AnswerSteps, SlotSteps, Steps, JobSteps, Call
  <2>. QED
    BY <1>0, <1>4, <2>1, <2>3, ReadKeeps DEF BeginCall, rows
<1>. QED
  BY <1>2, <1>3, <1>4

LEMMA GenerateKeeps ==
  ASSUME WellTyped, NEW w \in Worker, Generate(w)
  PROVE  Keeps(w)
<1>0. pc[w] = "generate" /\ at[w] \in Local /\ HoldsAt("generate", at[w])
  BY LocalFacts DEF Generate, Read, At
<1>1. Moves(w, "commit", at[w])
  BY GotoMoves DEF Generate
<1>2. HoldsAt("commit", at[w]) /\ "commit" \in Steps
  BY <1>0 DEF HoldsAt, TurnSteps, CallSteps, AnswerSteps, SlotSteps, Steps
<1>. QED
  BY <1>0, <1>1, <1>2, ReadKeeps DEF Generate, Read

LEMMA ProviderErrorKeeps ==
  ASSUME WellTyped, NEW w \in Worker, ProviderFails(w) \/ ProviderRefuses(w)
  PROVE  Keeps(w)
<1>0. pc[w] = "generate" /\ at[w] \in Local
  BY LocalFacts DEF ProviderFails, ProviderRefuses, At
<1>1. PICK s \in {"defer", "block"} : Moves(w, s, at[w])
  BY GotoMoves DEF ProviderFails, ProviderRefuses
<1>2. HoldsAt(s, at[w]) /\ s \in Steps
  BY <1>0, JobStepHolds DEF JobSteps
<1>3. RowTypes' /\ Len(jobs) <= Len(jobs') /\ calls' = calls
  BY LenProperties, SizesAssumption
     DEF ProviderFails, ProviderRefuses, Fault, WellTyped, Types, RowTypes, opVars, rows
<1>. QED
  BY <1>0, <1>1, <1>2, <1>3, MoveKeeps

LEMMA CommitCallKeeps ==
  ASSUME WellTyped, NEW w \in Worker, CommitCall(w)
  PROVE  Keeps(w)
<1> DEFINE u == at[w].turn
<1>0. /\ pc[w] = "commit" /\ at[w] \in Local /\ u \in 1..Len(calls)
      /\ at[w].job \in 1..Len(jobs)
  BY LocalFacts DEF CommitCall, At, HoldsAt, CallSteps
<1>1. Moves(w, "settle_turn", at[w])
  BY GotoMoves DEF CommitCall
<1>2. "settle_turn" \in AnswerSteps \ (SlotSteps \cup {"tool"})
  BY DEF AnswerSteps, SlotSteps
<1>3. calls[u] \in CallRow
  BY <1>0, ElementOfSeq DEF WellTyped, Types, RowTypes
<1>4. CASE calls[u].status # "started"
  <2>1. HoldsAt("settle_turn", at[w]) /\ "settle_turn" \in Steps
    BY <1>0, <1>4 DEF HoldsAt, TurnSteps, CallSteps, AnswerSteps, SlotSteps, Steps
  <2>. QED
    BY <1>0, <1>1, <1>4, <2>1, ReadKeeps DEF CommitCall, Call, rows
<1>5. CASE calls[u].status = "started"
  <2>1. PICK a \in Answer, n \in Usage :
          calls' = [calls EXCEPT ![u].status = "response_committed",
                                 ![u].answer = a, ![u].usage = n]
    BY <1>5 DEF CommitCall, Call
  <2> DEFINE e == [[[calls[u] EXCEPT !.status = "response_committed"]
                     EXCEPT !.answer = a] EXCEPT !.usage = n]
  <2>2. calls' = [calls EXCEPT ![u] = e]
    BY <2>1
  <2>3. n \in Nat
    BY SizesAssumption
  <2>4. e \in CallRow /\ e.status = "response_committed" /\ e.answer = a
    BY <1>3, <2>3 DEF CallRow
  <2> HIDE DEF e
  <2>5. jobs' = jobs /\ UNCHANGED <<run, jobs, rows, opVars, faults>>
    BY DEF CommitCall
  <2>6. /\ calls' \in Seq(CallRow) /\ Len(calls') = Len(calls) /\ Len(calls') <= MaxTurns
        /\ calls'[u] = e /\ Answered' /\ Grows
    BY <1>0, <1>5, <2>2, <2>4, <2>5, UpdateGrows
  <2>. QED
    BY <1>0, <1>1, <1>2, <2>4, <2>5, <2>6, WriteKeeps
<1>. QED
  BY <1>4, <1>5

LEMMA SettleUsageKeeps ==
  ASSUME WellTyped, NEW w \in Worker, pc[w] \in AnswerSteps, NEW k \in Key, NEW n \in Nat,
         NEW found \in Outcomes, NEW next \in {"settle_output", "process"},
         SettleUsage(w, k, n, found, next)
  PROVE  Keeps(w)
<1>0. at[w] \in Local
  BY LocalFacts
<1>1. PICK s \in {next, "block", "exhausted"} : Moves(w, s, at[w])
  <2>1. Settling(k, n) \in Outcomes
    BY SettleType DEF WellTyped, Types
  <2>2. \E s \in {next, "block", "exhausted"} : Goto(w, s)
    BY <2>1 DEF SettleUsage, Outcomes
  <2>. QED
    BY <2>2, GotoMoves DEF SettleUsage
<1>2. HoldsAt(s, at[w]) /\ s \in Steps
  <2>1. s \in {"settle_output", "process"} \/ s \in {"block", "exhausted"}
    OBVIOUS
  <2>2. pc[w] # "idle"
    BY DEF AnswerSteps, SlotSteps
  <2>. QED
    BY <1>0, <2>1, <2>2, JobStepHolds, AnswerHolds DEF JobSteps, AnswerSteps, SlotSteps
<1>3. row' \in [Key -> Row] /\ used' \in [Dimension -> Nat]
  BY SettleType DEF SettleUsage, WellTyped, Types, RowTypes, rows
<1>4. RowTypes' /\ Len(jobs) <= Len(jobs') /\ calls' = calls
  BY <1>3, LenProperties DEF SettleUsage, WellTyped, Types, RowTypes, opVars
<1>. QED
  BY <1>0, <1>1, <1>2, <1>4, MoveKeeps

LEMMA AnswerTurn ==
  ASSUME WellTyped, NEW w \in Worker, pc[w] \in AnswerSteps
  PROVE  /\ at[w].turn \in 1..Len(calls) /\ at[w].turn \in Turn /\ Call(w) \in CallRow
         /\ Call(w).status # "started" /\ Call(w).answer \in Answer
<1>1. at[w].turn \in 1..Len(calls) /\ Call(w).status # "started"
  BY LocalFacts DEF HoldsAt, Call
<1>2. Call(w) \in CallRow /\ at[w].turn \in Turn
  BY <1>1, ElementOfSeq, LenProperties, SizesAssumption DEF WellTyped, Types, RowTypes, Call, Turn
<1>. QED
  BY <1>1, <1>2 DEF WellTyped, Answered, Call

LEMMA SettleTurnKeeps ==
  ASSUME WellTyped, NEW w \in Worker, SettleTurn(w)
  PROVE  Keeps(w)
<1>0. pc[w] \in AnswerSteps
  BY DEF SettleTurn, At, AnswerSteps
<1>1. TurnKey(at[w].turn) \in Key /\ OutputKey(at[w].turn) \in Key /\ Call(w).amount \in Nat
  BY <1>0, AnswerTurn, KeyTypes DEF CallRow
<1>2. \A k \in Key, n \in Nat : Reserving(k, n) \in Outcomes
  BY ReserveType DEF WellTyped, Types
<1>3. PICK found \in Outcomes :
        SettleUsage(w, TurnKey(at[w].turn), 1, found, "settle_output")
  BY <1>1, <1>2 DEF SettleTurn
<1>. QED
  BY <1>0, <1>1, <1>3, SettleUsageKeeps

LEMMA SettleOutputKeeps ==
  ASSUME WellTyped, NEW w \in Worker, SettleOutput(w)
  PROVE  Keeps(w)
<1>0. pc[w] \in AnswerSteps
  BY DEF SettleOutput, At, AnswerSteps
<1>1. OutputKey(at[w].turn) \in Key /\ Call(w).usage \in Nat
  BY <1>0, AnswerTurn, KeyTypes DEF CallRow
<1>2. SettleUsage(w, OutputKey(at[w].turn), Call(w).usage, "ok", "process")
  BY DEF SettleOutput
<1>. QED
  BY <1>0, <1>1, <1>2, SettleUsageKeeps DEF Outcomes
-----------------------------------------------------------------------------
(* Processing an answer *)

LEMMA ProcessKeeps ==
  ASSUME WellTyped, NEW w \in Worker, Process(w)
  PROVE  Keeps(w)
<1>0. pc[w] = "process" /\ at[w] \in Local /\ HoldsAt("process", at[w])
  BY LocalFacts DEF Process, Read, At
<1> DEFINE l == [at[w] EXCEPT !.seen = run, !.slot = 1, !.then = "tool"]
<1>1. PICK s \in {"finish", "reject", "stall", "ask", "tool", "verify"} : Moves(w, s, l)
  BY DEF Process, Moves, Goto
<1>2. run \in RunStatus
  BY DEF WellTyped, Types, RowTypes
<1>3. /\ l \in Local /\ l.job = at[w].job /\ l.turn = at[w].turn
      /\ l.slot = 1 /\ l.then = "tool"
  BY <1>0, <1>2 DEF Local
<1> HIDE DEF l
<1>4. 1 \in 1..(Ops + 1)
  BY SizesAssumption
<1>5. HoldsAt(s, l) /\ s \in Steps
  BY <1>0, <1>3, <1>4
     DEF HoldsAt, TurnSteps, CallSteps, AnswerSteps, SlotSteps, Steps, JobSteps
<1>. QED
  BY <1>1, <1>3, <1>5, ReadKeeps DEF Process, Read

\* mark_model_call
LEMMA MarkKeeps ==
  ASSUME WellTyped, NEW w \in Worker, pc[w] \in AnswerSteps,
         NEW status \in {"invalid", "processed"}, Mark(w, status),
         NEW next \in JobSteps,
         Goto(w, IF Marked(w, status) THEN next ELSE "block"), at' = at,
         UNCHANGED <<run, jobs, rows, opVars, faults>>
  PROVE  Keeps(w)
<1> DEFINE u == at[w].turn
<1>0. at[w] \in Local /\ at[w].job \in 1..Len(jobs) /\ u \in 1..Len(calls) /\ pc[w] # "idle"
  BY LocalFacts, AnswerTurn DEF HoldsAt, AnswerSteps, SlotSteps
<1>1. PICK s \in JobSteps : Moves(w, s, at[w])
  <2>1. "block" \in JobSteps
    BY DEF JobSteps
  <2>. QED
    BY <2>1, GotoMoves
<1>2. calls[u] \in CallRow /\ calls[u].answer \in Answer
  BY AnswerTurn DEF Call
<1>3. CASE calls[u].status # "response_committed"
  <2>1. HoldsAt(s, at[w]) /\ s \in Steps
    BY <1>0, JobStepHolds
  <2>. QED
    BY <1>0, <1>1, <1>3, <2>1, ReadKeeps DEF Mark, Call
<1>4. CASE calls[u].status = "response_committed"
  <2> DEFINE e == [calls[u] EXCEPT !.status = status]
  <2>1. calls' = [calls EXCEPT ![u] = e]
    BY <1>4 DEF Mark, Call
  <2>2. /\ e \in CallRow /\ e.status = status /\ e.answer = calls[u].answer
        /\ e.usage = calls[u].usage /\ e.amount = calls[u].amount
    BY <1>2 DEF CallRow
  <2> HIDE DEF e
  <2>3. /\ calls' \in Seq(CallRow) /\ Len(calls') <= MaxTurns
        /\ Answered' /\ Grows
    BY <1>0, <1>2, <2>1, <2>2, UpdateGrows
  <2>. QED
    BY <1>0, <1>1, <2>3, WriteKeeps
<1>. QED
  BY <1>3, <1>4

LEMMA RejectKeeps ==
  ASSUME WellTyped, NEW w \in Worker, Reject(w, "reject", "repairs") \/ Reject(w, "stall", "fail")
  PROVE  Keeps(w)
<1>1. pc[w] \in AnswerSteps
  BY DEF Reject, At, AnswerSteps
<1>2. "repairs" \in JobSteps /\ "fail" \in JobSteps
  BY DEF JobSteps
<1>. QED
  BY <1>1, <1>2, MarkKeeps DEF Reject

LEMMA MarkProcessedKeeps ==
  ASSUME WellTyped, NEW w \in Worker, MarkProcessed(w)
  PROVE  Keeps(w)
<1>1. pc[w] \in AnswerSteps
  BY DEF MarkProcessed, At, AnswerSteps
<1>2. "return" \in JobSteps
  BY DEF JobSteps
<1>. QED
  BY <1>1, <1>2, MarkKeeps DEF MarkProcessed

LEMMA RepairsKeeps ==
  ASSUME WellTyped, NEW w \in Worker, Repairs(w)
  PROVE  Keeps(w)
<1>1. PICK s \in {"fail", "return"} : Moves(w, s, at[w])
  BY GotoMoves DEF Repairs
<1>2. at[w] \in Local /\ HoldsAt(s, at[w]) /\ s \in Steps
  BY LocalFacts, JobStepHolds DEF JobSteps, Repairs, Read, At
<1>. QED
  BY <1>1, <1>2, ReadKeeps DEF Repairs, Read

LEMMA AskKeeps ==
  ASSUME WellTyped, NEW w \in Worker, Ask(w)
  PROVE  Keeps(w)
<1>0. pc[w] = "ask" /\ pc[w] \in AnswerSteps /\ at[w] \in Local
  BY LocalFacts DEF Ask, At, AnswerSteps
<1>1. PICK s \in {"block", "processed"} : Moves(w, s, at[w])
  BY GotoMoves DEF Ask
<1>2. HoldsAt(s, at[w]) /\ s \in Steps
  BY <1>0, JobStepHolds, AnswerHolds DEF JobSteps, AnswerSteps, SlotSteps
<1>3. run' \in RunStatus /\ question' \in [Answer -> {"none", "pending", "answered"}]
  <2>1. run \in RunStatus /\ question \in [Answer -> {"none", "pending", "answered"}]
    BY DEF WellTyped, Types, RowTypes
  <2>. QED
    BY <2>1 DEF Ask, RunStatus
<1>4. RowTypes' /\ Len(jobs) <= Len(jobs') /\ calls' = calls
  BY <1>3, LenProperties DEF Ask, WellTyped, Types, RowTypes, rows
<1>. QED
  BY <1>0, <1>1, <1>2, <1>4, MoveKeeps

LEMMA VerifyKeeps ==
  ASSUME WellTyped, NEW w \in Worker, Verify(w)
  PROVE  Keeps(w)
<1>0. pc[w] = "verify" /\ at[w] \in Local /\ HoldsAt("verify", at[w])
  BY LocalFacts DEF Verify, Read, At
<1>1. PICK b \in BOOLEAN : Hold(w, "flag", b, "record")
  BY DEF Verify
<1> DEFINE l == [at[w] EXCEPT !.flag = b]
<1>2. Moves(w, "record", l)
  BY <1>1, HoldMoves
<1>3. l \in Local /\ l.job = at[w].job /\ l.turn = at[w].turn
  BY <1>0 DEF Local
<1> HIDE DEF l
<1>4. HoldsAt("record", l) /\ "record" \in Steps
  BY <1>0, <1>3 DEF HoldsAt, TurnSteps, CallSteps, AnswerSteps, SlotSteps, Steps
<1>. QED
  BY <1>2, <1>3, <1>4, ReadKeeps DEF Verify, Read

\* A transaction that ends a Run retires its ready jobs.
LEMMA RetireTypes ==
  ASSUME RowTypes, RetireReady
  PROVE  /\ jobs' \in Seq(Job) /\ Len(jobs') = Len(jobs)
         /\ \A j \in 1..Len(jobs) :
              /\ jobs'[j].kind = jobs[j].kind /\ jobs'[j].epoch = jobs[j].epoch
              /\ jobs'[j].status = IF jobs[j].status = "ready" THEN "done" ELSE jobs[j].status
<1>1. Len(jobs) \in Nat /\ jobs \in [1..Len(jobs) -> Job] /\ DOMAIN jobs = 1..Len(jobs)
  BY LenProperties DEF RowTypes
<1>2. \A j \in 1..Len(jobs) : [jobs[j] EXCEPT !.status = "done"] \in Job
  BY <1>1 DEF Job
<1>3. jobs' \in [1..Len(jobs) -> Job]
  BY <1>1, <1>2 DEF RetireReady
<1>4. jobs' \in Seq(Job)
  BY <1>1, <1>3, SeqDef
<1>5. Len(jobs') = Len(jobs)
  BY <1>1, <1>3, <1>4, LenProperties
<1>6. ASSUME NEW j \in 1..Len(jobs)
      PROVE  /\ jobs'[j].kind = jobs[j].kind /\ jobs'[j].epoch = jobs[j].epoch
             /\ jobs'[j].status = IF jobs[j].status = "ready" THEN "done" ELSE jobs[j].status
  BY <1>1 DEF RetireReady, Job
<1>. QED
  BY <1>4, <1>5, <1>6

LEMMA RecordKeeps ==
  ASSUME WellTyped, NEW w \in Worker, Record(w)
  PROVE  Keeps(w)
<1>0. pc[w] = "record" /\ pc[w] \in AnswerSteps /\ at[w] \in Local
  BY LocalFacts DEF Record, At, AnswerSteps
<1>1. PICK s \in {"block", "processed"} : Moves(w, s, at[w])
  BY GotoMoves DEF Record
<1>2. HoldsAt(s, at[w]) /\ s \in Steps
  BY <1>0, JobStepHolds, AnswerHolds DEF JobSteps, AnswerSteps, SlotSteps
<1>3. jobs \in Seq(Job) /\ Len(jobs) \in Nat /\ run \in RunStatus /\ RowTypes
  BY LenProperties DEF WellTyped, Types, RowTypes
<1>4. jobs' \in Seq(Job) /\ Len(jobs') = Len(jobs) /\ run' \in RunStatus
  BY <1>3, RetireTypes DEF Record, RunStatus, TerminalRun
<1>5. RowTypes' /\ Len(jobs) <= Len(jobs') /\ calls' = calls
  BY <1>3, <1>4 DEF Record, RowTypes, rows, opVars
<1>. QED
  BY <1>0, <1>1, <1>2, <1>5, MoveKeeps
-----------------------------------------------------------------------------
(* The operations of an answer *)

LEMMA ReserveToolKeeps ==
  ASSUME WellTyped, NEW w \in Worker, ReserveTool(w)
  PROVE  Keeps(w)
<1>0. /\ pc[w] = "tool" /\ pc[w] \in AnswerSteps /\ at[w] \in Local /\ HoldsAt("tool", at[w])
      /\ at[w].slot \in 1..(Ops + 1) /\ at[w].turn \in Turn
  BY LocalFacts, AnswerTurn DEF ReserveTool, At, HoldsAt, AnswerSteps
<1>1. CASE at[w].slot > Ops
  <2>1. Moves(w, "processed", at[w])
    BY <1>1, GotoMoves DEF ReserveTool
  <2>2. HoldsAt("processed", at[w]) /\ "processed" \in Steps
    BY <1>0, AnswerHolds DEF AnswerSteps, SlotSteps
  <2>. QED
    BY <1>0, <1>1, <2>1, <2>2, ReadKeeps DEF ReserveTool, rows
<1>2. CASE ~(at[w].slot > Ops)
  <2> DEFINE k == ToolKey(ThisOp(w))
  <2>1. at[w].slot \in Slot /\ ThisOp(w) \in Op
    BY <1>0, <1>2, SizesAssumption DEF Slot, ThisOp, Op
  <2>2. k \in Key
    BY <2>1, KeyTypes
  <2>3. Reserving(k, 1) \in Outcomes /\ row' \in [Key -> Row]
    BY <1>2, <2>2, ReserveType DEF ReserveTool, WellTyped, Types
  <2> HIDE DEF k
  <2>4. PICK s \in {"admit", "block", "exhausted"} : Moves(w, s, at[w])
    BY <1>2, <2>3, GotoMoves DEF ReserveTool, Outcomes, k
  <2>5. HoldsAt(s, at[w]) /\ s \in Steps
    BY <1>0, <2>1 DEF HoldsAt, TurnSteps, CallSteps, AnswerSteps, SlotSteps, Steps, JobSteps
  <2>6. RowTypes' /\ Len(jobs) <= Len(jobs') /\ calls' = calls
    BY <2>3, LenProperties DEF ReserveTool, WellTyped, Types, RowTypes, opVars
  <2>. QED
    BY <1>0, <2>4, <2>5, <2>6, MoveKeeps
<1>. QED
  BY <1>1, <1>2

\* What a worker at an operation holds, and where it may go with it.
LEMMA SlotHolds ==
  ASSUME WellTyped, NEW w \in Worker, pc[w] \in SlotSteps
  PROVE  /\ at[w] \in Local /\ ThisOp(w) \in Op /\ at[w].slot \in Slot
         /\ Is(w, {"remote"}) \in BOOLEAN /\ Is(w, {"write"}) \in BOOLEAN
         /\ pc[w] # "settle_tool" => at[w].then = "tool"
         /\ pc[w] # "settle_tool" =>
              \A s \in SlotSteps : HoldsAt(s, at[w]) /\ s \in Steps
<1>1. pc[w] \in AnswerSteps /\ at[w] \in Local /\ HoldsAt(pc[w], at[w])
  BY LocalFacts DEF AnswerSteps
<1>2. at[w].turn \in Turn
  BY <1>1, AnswerTurn
<1>3. at[w].slot \in Slot /\ (pc[w] # "settle_tool" => at[w].then = "tool")
  BY <1>1 DEF HoldsAt
<1>4. pc[w] # "settle_tool" => \A s \in SlotSteps : HoldsAt(s, at[w]) /\ s \in Steps
  BY <1>1 DEF HoldsAt, TurnSteps, CallSteps, AnswerSteps, SlotSteps, Steps
<1>. QED
  BY <1>1, <1>2, <1>3, <1>4 DEF ThisOp, Op, Is

\* A step from one operation step to another that writes actions or receipts.
LEMMA OpMoveKeeps ==
  ASSUME WellTyped, NEW w \in Worker, NEW s \in Steps, NEW l \in Local, Moves(w, s, l),
         HoldsAt(s, l), UNCHANGED <<jobs, calls, rows, question, faults>>, run' \in RunStatus,
         op' \in [Op -> {"none", "ready", "running"} \cup TerminalAction],
         opEpoch' \in [Op -> Nat], receipts' \subseteq Op
  PROVE  Keeps(w)
<1>1. RowTypes' /\ Len(jobs) <= Len(jobs')
  BY LenProperties DEF WellTyped, Types, RowTypes, rows
<1>. QED
  BY <1>1, MoveKeeps

LEMMA OpTypes ==
  ASSUME WellTyped
  PROVE  /\ op \in [Op -> {"none", "ready", "running"} \cup TerminalAction]
         /\ opEpoch \in [Op -> Nat] /\ receipts \subseteq Op /\ run \in RunStatus
  BY DEF WellTyped, Types, RowTypes

LEMMA AdmitOpKeeps ==
  ASSUME WellTyped, NEW w \in Worker, AdmitOp(w)
  PROVE  Keeps(w)
<1>0. pc[w] = "admit" /\ pc[w] \in SlotSteps
  BY DEF AdmitOp, At, SlotSteps
<1>1. PICK s \in {"settle_tool", "start"} : Moves(w, s, at[w])
  BY GotoMoves DEF AdmitOp
<1>2. at[w] \in Local /\ HoldsAt(s, at[w]) /\ s \in Steps
  BY <1>0, SlotHolds DEF SlotSteps
<1>3. op' \in [Op -> {"none", "ready", "running"} \cup TerminalAction]
  BY OpTypes DEF AdmitOp
<1>. QED
  BY <1>1, <1>2, <1>3, OpTypes, OpMoveKeeps DEF AdmitOp

LEMMA RefuseOpKeeps ==
  ASSUME WellTyped, NEW w \in Worker, RefuseOp(w)
  PROVE  Keeps(w)
<1>0. pc[w] = "admit" /\ pc[w] \in SlotSteps /\ at[w] \in Local /\ HoldsAt("admit", at[w])
  BY LocalFacts DEF RefuseOp, At, SlotSteps
<1> DEFINE l == [at[w] EXCEPT !.then = "block"]
<1>1. Moves(w, "settle_tool", l)
  BY HoldMoves DEF RefuseOp
<1>2. /\ l \in Local /\ l.job = at[w].job /\ l.turn = at[w].turn /\ l.slot = at[w].slot
      /\ l.then = "block"
  BY <1>0 DEF Local
<1> HIDE DEF l
<1>3. HoldsAt("settle_tool", l) /\ "settle_tool" \in Steps
  BY <1>0, <1>2 DEF HoldsAt, TurnSteps, CallSteps, AnswerSteps, SlotSteps, Steps
<1>. QED
  BY <1>1, <1>2, <1>3, ReadKeeps DEF RefuseOp

LEMMA StartOpKeeps ==
  ASSUME WellTyped, NEW w \in Worker, StartOp(w)
  PROVE  Keeps(w)
<1>0. pc[w] = "start" /\ pc[w] \in SlotSteps
  BY DEF StartOp, At, SlotSteps
<1>1. PICK s \in {"settle_tool", "dispatch"} : Moves(w, s, at[w])
  BY GotoMoves DEF StartOp
<1>2. at[w] \in Local /\ HoldsAt(s, at[w]) /\ s \in Steps
  BY <1>0, SlotHolds DEF SlotSteps
<1>3. run' \in RunStatus
  BY OpTypes DEF StartOp, RunStatus
<1>. QED
  BY <1>1, <1>2, <1>3, OpTypes, OpMoveKeeps DEF StartOp, opVars

LEMMA DispatchOpKeeps ==
  ASSUME WellTyped, NEW w \in Worker, DispatchOp(w)
  PROVE  Keeps(w)
<1>0. pc[w] = "dispatch" /\ pc[w] \in SlotSteps
  BY DEF DispatchOp, At, SlotSteps
<1>1. PICK s \in {"settle_tool", "execute"} : Moves(w, s, at[w])
  BY GotoMoves DEF DispatchOp
<1>2. at[w] \in Local /\ HoldsAt(s, at[w]) /\ s \in Steps
  BY <1>0, SlotHolds DEF SlotSteps
<1>3. at[w].epoch \in Nat
  BY <1>2 DEF Local
<1>4. /\ op' \in [Op -> {"none", "ready", "running"} \cup TerminalAction]
      /\ opEpoch' \in [Op -> Nat]
  BY <1>3, OpTypes DEF DispatchOp
<1>. QED
  BY <1>1, <1>2, <1>4, OpTypes, OpMoveKeeps DEF DispatchOp

LEMMA ExecuteOpKeeps ==
  ASSUME WellTyped, NEW w \in Worker, ExecuteOp(w)
  PROVE  Keeps(w)
<1>0. /\ pc[w] = "execute" /\ pc[w] \in SlotSteps /\ at[w] \in Local
      /\ HoldsAt("execute", at[w]) /\ ThisOp(w) \in Op
  BY LocalFacts, SlotHolds DEF ExecuteOp, At, SlotSteps
<1>1. PICK ok \in BOOLEAN : Hold(w, "flag", ok, "complete")
  BY DEF ExecuteOp
<1> DEFINE l == [at[w] EXCEPT !.flag = ok]
<1>2. Moves(w, "complete", l)
  BY <1>1, HoldMoves
<1>3. /\ l \in Local /\ l.job = at[w].job /\ l.turn = at[w].turn /\ l.slot = at[w].slot
      /\ l.then = at[w].then
  BY <1>0 DEF Local
<1> HIDE DEF l
<1>4. HoldsAt("complete", l) /\ "complete" \in Steps
  BY <1>0, <1>3 DEF HoldsAt, TurnSteps, CallSteps, AnswerSteps, SlotSteps, Steps
<1>5. receipts' \subseteq Op
  BY <1>0, OpTypes DEF ExecuteOp
<1>. QED
  BY <1>2, <1>3, <1>4, <1>5, OpTypes, OpMoveKeeps DEF ExecuteOp

LEMMA CompleteOpKeeps ==
  ASSUME WellTyped, NEW w \in Worker, CompleteOp(w)
  PROVE  Keeps(w)
<1>0. /\ pc[w] = "complete" /\ pc[w] \in SlotSteps /\ at[w] \in Local
      /\ HoldsAt("complete", at[w])
  BY LocalFacts DEF CompleteOp, At, SlotSteps
<1>1. PICK t \in {"idle", "tool"} : Hold(w, "then", t, "settle_tool")
  BY DEF CompleteOp
<1> DEFINE l == [at[w] EXCEPT !.then = t]
<1>2. Moves(w, "settle_tool", l)
  BY <1>1, HoldMoves
<1>3. /\ l \in Local /\ l.job = at[w].job /\ l.turn = at[w].turn /\ l.slot = at[w].slot
      /\ l.then = t
  BY <1>0 DEF Local
<1> HIDE DEF l
<1>4. HoldsAt("settle_tool", l) /\ "settle_tool" \in Steps
  BY <1>0, <1>3 DEF HoldsAt, TurnSteps, CallSteps, AnswerSteps, SlotSteps, Steps
<1>5. op' \in [Op -> {"none", "ready", "running"} \cup TerminalAction]
  BY OpTypes DEF CompleteOp, TerminalAction
<1>. QED
  BY <1>2, <1>3, <1>4, <1>5, OpTypes, OpMoveKeeps DEF CompleteOp

LEMMA SettleToolKeeps ==
  ASSUME WellTyped, NEW w \in Worker, SettleTool(w)
  PROVE  Keeps(w)
<1>0. /\ pc[w] = "settle_tool" /\ pc[w] \in SlotSteps /\ at[w] \in Local
      /\ HoldsAt("settle_tool", at[w]) /\ ThisOp(w) \in Op /\ at[w].slot \in Slot
      /\ at[w].then \in {"idle", "block", "tool"}
  BY LocalFacts, SlotHolds DEF SettleTool, At, SlotSteps, HoldsAt
<1> DEFINE k == ToolKey(ThisOp(w))
<1>1. k \in Key
  BY <1>0, KeyTypes
<1>2. /\ Settling(k, 1) \in Outcomes
      /\ row' \in [Key -> Row] /\ used' \in [Dimension -> Nat]
  BY <1>1, SettleType DEF SettleTool, WellTyped, Types
<1> HIDE DEF k
<1>3. RowTypes' /\ Len(jobs) <= Len(jobs') /\ calls' = calls
  BY <1>2, LenProperties DEF SettleTool, WellTyped, Types, RowTypes, opVars
<1>4. \/ \E s \in {"block", "exhausted"} : Goto(w, s) /\ at' = at
      \/ Drop(w)
      \/ at[w].then = "tool" /\ Hold(w, "slot", at[w].slot + 1, "tool")
  BY <1>0, <1>2 DEF SettleTool, Outcomes, k
<1>5. CASE \E s \in {"block", "exhausted"} : Goto(w, s) /\ at' = at
  <2>1. PICK s \in {"block", "exhausted"} : Moves(w, s, at[w])
    BY <1>5, GotoMoves
  <2>2. HoldsAt(s, at[w]) /\ s \in Steps
    BY <1>0, JobStepHolds DEF JobSteps
  <2>. QED
    BY <1>0, <1>3, <2>1, <2>2, MoveKeeps
<1>6. CASE Drop(w)
  BY <1>3, <1>6, DropMoves, IdleHolds, MoveKeeps
<1>7. CASE at[w].then = "tool" /\ Hold(w, "slot", at[w].slot + 1, "tool")
  <2> DEFINE l == [at[w] EXCEPT !.slot = at[w].slot + 1]
  <2>1. Moves(w, "tool", l)
    BY <1>7, HoldMoves
  <2>2. at[w].slot + 1 \in 1..(Ops + 1) /\ at[w].slot + 1 \in Nat
    BY <1>0, SizesAssumption DEF Slot
  <2>3. /\ l \in Local /\ l.job = at[w].job /\ l.turn = at[w].turn
        /\ l.slot = at[w].slot + 1 /\ l.then = "tool"
    BY <1>0, <1>7, <2>2 DEF Local
  <2> HIDE DEF l
  <2>4. HoldsAt("tool", l) /\ "tool" \in Steps
    BY <1>0, <2>2, <2>3 DEF HoldsAt, TurnSteps, CallSteps, AnswerSteps, SlotSteps, Steps
  <2>. QED
    BY <1>3, <2>1, <2>3, <2>4, MoveKeeps
<1>. QED
  BY <1>4, <1>5, <1>6, <1>7
-----------------------------------------------------------------------------
(* The end of a worker's turn, and the jobs *)

\* A step that ends with a job step, writing the Run and the jobs.
LEMMA EndMoveKeeps ==
  ASSUME WellTyped, NEW w \in Worker, pc[w] # "idle", NEW s \in JobSteps \cup {"idle"},
         NEW l \in Local, s # "idle" => l.job = at[w].job, Moves(w, s, l),
         UNCHANGED <<calls, used, question, opEpoch, receipts>>,
         run' \in RunStatus, jobs' \in Seq(Job), Len(jobs') = Len(jobs),
         row' \in [Key -> Row], faults' \in 0..MaxFaults,
         op' \in [Op -> {"none", "ready", "running"} \cup TerminalAction]
  PROVE  Keeps(w)
<1>1. HoldsAt(s, l) /\ s \in Steps
  <2>1. CASE s = "idle"
    BY <2>1 DEF HoldsAt, Steps, TurnSteps, CallSteps, AnswerSteps, SlotSteps
  <2>2. CASE s \in JobSteps
    <3>1. s # "idle"
      BY <2>2 DEF JobSteps
    <3>. QED
      BY <2>2, <3>1, JobStepHolds
  <2>. QED
    BY <2>1, <2>2
<1>2. RowTypes' /\ Len(jobs) <= Len(jobs')
  BY LenProperties DEF WellTyped, Types, RowTypes
<1>. QED
  BY <1>1, <1>2, MoveKeeps

LEMMA EndTypes ==
  ASSUME WellTyped, NEW w \in Worker
  PROVE  /\ run \in RunStatus /\ jobs \in Seq(Job) /\ row \in [Key -> Row]
         /\ faults \in 0..MaxFaults
         /\ op \in [Op -> {"none", "ready", "running"} \cup TerminalAction]
         /\ at[w] \in Local /\ Idle \in Local
         /\ \A r \in RunStatus : [at[w] EXCEPT !.seen = r] \in Local
                                 /\ [at[w] EXCEPT !.seen = r].job = at[w].job
  BY LocalFacts, IdleHolds DEF WellTyped, Types, RowTypes, Local

\* The worker goes on to the end of run_once with the status it has seen.
LEMMA SeenMoves ==
  ASSUME WellTyped, NEW w \in Worker, NEW r \in RunStatus, Hold(w, "seen", r, "finish")
  PROVE  /\ Moves(w, "finish", [at[w] EXCEPT !.seen = r])
         /\ [at[w] EXCEPT !.seen = r] \in Local /\ [at[w] EXCEPT !.seen = r].job = at[w].job
         /\ "finish" \in JobSteps \cup {"idle"}
  BY HoldMoves, EndTypes DEF JobSteps

LEMMA ReturnKeeps ==
  ASSUME WellTyped, NEW w \in Worker, Return(w)
  PROVE  Keeps(w)
<1>1. /\ pc[w] # "idle" /\ run \in RunStatus /\ Hold(w, "seen", run, "finish")
  BY EndTypes DEF Return, Read, At
<1>. QED
  BY <1>1, SeenMoves, EndTypes, EndMoveKeeps DEF Return, Read, rows, opVars

LEMMA SetJobTypes ==
  ASSUME WellTyped, NEW j \in 1..Len(jobs), NEW s \in {"ready", "leased", "done"}, SetJob(j, s)
  PROVE  /\ jobs' \in Seq(Job) /\ Len(jobs') = Len(jobs)
         /\ \A i \in 1..Len(jobs) : i # j => jobs'[i] = jobs[i]
         /\ jobs'[j].status = s /\ jobs'[j].kind = jobs[j].kind /\ jobs'[j].epoch = jobs[j].epoch
<1>1. jobs \in Seq(Job) /\ jobs[j] \in Job
  BY ElementOfSeq DEF WellTyped, Types, RowTypes
<1> DEFINE e == [jobs[j] EXCEPT !.status = s]
<1>2. e \in Job /\ e.status = s /\ e.kind = jobs[j].kind /\ e.epoch = jobs[j].epoch
  BY <1>1 DEF Job
<1>3. jobs' = [jobs EXCEPT ![j] = e]
  BY DEF SetJob
<1> HIDE DEF e
<1>4. /\ [jobs EXCEPT ![j] = e] \in Seq(Job) /\ Len([jobs EXCEPT ![j] = e]) = Len(jobs)
      /\ \A i \in 1..Len(jobs) : [jobs EXCEPT ![j] = e][i] = IF i = j THEN e ELSE jobs[i]
  BY <1>1, <1>2, SeqRow
<1>. QED
  BY <1>2, <1>3, <1>4

LEMMA FinishKeeps ==
  ASSUME WellTyped, NEW w \in Worker, Finish(w) \/ Defer(w)
  PROVE  Keeps(w)
<1>1. pc[w] # "idle" /\ at[w].job \in 1..Len(jobs)
  BY LocalFacts DEF Finish, Defer, At, HoldsAt
<1>2. PICK s \in {"ready", "leased", "done"} : SetJob(at[w].job, s)
  BY DEF Finish, Defer
<1>3. jobs' \in Seq(Job) /\ Len(jobs') = Len(jobs)
  BY <1>1, <1>2, SetJobTypes
<1>4. Moves(w, "idle", Idle)
  BY DropMoves DEF Finish, Defer
<1>. QED
  BY <1>1, <1>3, <1>4, EndTypes, EndMoveKeeps DEF Finish, Defer, rows, opVars

LEMMA BlockRunKeeps ==
  ASSUME WellTyped, NEW w \in Worker, BlockRun(w)
  PROVE  Keeps(w)
<1>1. pc[w] # "idle" /\ "blocked" \in RunStatus
  BY DEF BlockRun, At, RunStatus
<1>2. CASE run' = "blocked" /\ Hold(w, "seen", "blocked", "finish")
  BY <1>1, <1>2, SeenMoves, EndTypes, EndMoveKeeps DEF BlockRun, rows, opVars
<1>3. CASE Drop(w) /\ run' = run
  BY <1>1, <1>3, DropMoves, EndTypes, EndMoveKeeps DEF BlockRun, rows, opVars
<1>. QED
  BY <1>2, <1>3 DEF BlockRun, Ends

LEMMA FailRunKeeps ==
  ASSUME WellTyped, NEW w \in Worker, FailRun(w)
  PROVE  Keeps(w)
<1>1. pc[w] # "idle" /\ "failed" \in RunStatus /\ run \in RunStatus
  BY EndTypes DEF FailRun, At, RunStatus, TerminalRun
<1>2. CASE Hold(w, "seen", run, "finish") /\ run' = run /\ jobs' = jobs
  BY <1>1, <1>2, SeenMoves, EndTypes, EndMoveKeeps DEF FailRun, rows, opVars
<1>3. CASE run' = "failed" /\ Hold(w, "seen", "failed", "finish") /\ RetireReady
  <2>1. jobs' \in Seq(Job) /\ Len(jobs') = Len(jobs)
    BY <1>3, RetireTypes DEF WellTyped, Types
  <2>. QED
    BY <1>1, <1>3, <2>1, SeenMoves, EndTypes, EndMoveKeeps DEF FailRun, rows, opVars
<1>. QED
  BY <1>2, <1>3 DEF FailRun

LEMMA SettleUndispatchedType ==
  ASSUME WellTyped, SettleUndispatched
  PROVE  op' \in [Op -> {"none", "ready", "running"} \cup TerminalAction]
  BY OpTypes DEF SettleUndispatched, TerminalAction

LEMMA TerminateRunKeeps ==
  ASSUME WellTyped, NEW w \in Worker, TerminateRun(w)
  PROVE  Keeps(w)
<1> DEFINE target == IF Uncertainties = {} THEN "failed" ELSE "blocked"
<1>1. pc[w] # "idle" /\ target \in RunStatus /\ run \in RunStatus
  BY EndTypes DEF TerminateRun, At, RunStatus, TerminalRun
<1> DEFINE Same == UNCHANGED <<calls, used, question, opEpoch, receipts, faults>>
<1>2. CASE Hold(w, "seen", run, "finish") /\ UNCHANGED <<run, jobs, row, op>>
  BY <1>1, <1>2, SeenMoves, EndTypes, EndMoveKeeps DEF TerminateRun
<1>3. CASE Drop(w) /\ UNCHANGED <<run, jobs, row, op>>
  BY <1>1, <1>3, DropMoves, EndTypes, EndMoveKeeps DEF TerminateRun
<1>4. CASE /\ run' = target /\ RetireReady /\ SettleUndispatched
           /\ row' = [k \in Key |-> IF row[k].status = "reserved"
                                    THEN [row[k] EXCEPT !.status = "released"] ELSE row[k]]
           /\ Hold(w, "seen", target, "finish")
  <2>1. jobs' \in Seq(Job) /\ Len(jobs') = Len(jobs)
    BY <1>4, RetireTypes DEF WellTyped, Types
  <2>2. op' \in [Op -> {"none", "ready", "running"} \cup TerminalAction]
    BY <1>4, SettleUndispatchedType
  <2>3. ASSUME NEW k \in Key
        PROVE  row[k] \in Row /\ [row[k] EXCEPT !.status = "released"] \in Row
    <3>1. row[k] \in Row
      BY EndTypes
    <3>. QED
      BY <3>1 DEF Row
  <2>4. row' \in [Key -> Row]
    BY <1>4, <2>3
  <2> HIDE DEF target
  <2>. QED
    BY <1>1, <1>4, <2>1, <2>2, <2>4, SeenMoves, EndTypes, EndMoveKeeps DEF TerminateRun
<1>. QED
  BY <1>2, <1>3, <1>4 DEF TerminateRun

LEMMA DropKeeps ==
  ASSUME WellTyped, NEW w \in Worker, LoseLease(w) \/ Crash(w)
  PROVE  Keeps(w)
<1>1. pc[w] # "idle" /\ faults' \in 0..MaxFaults
  BY EndTypes, SizesAssumption DEF LoseLease, Crash, Fault, FencedStep
<1>2. Drop(w) /\ UNCHANGED <<run, jobs, calls, rows, opVars>>
  BY DEF LoseLease, Crash
<1>. QED
  BY <1>1, <1>2, DropMoves, EndTypes, EndMoveKeeps DEF rows, opVars

LEMMA ClaimKeeps ==
  ASSUME WellTyped, NEW w \in Worker, NEW j \in DOMAIN jobs, Claim(w, j)
  PROVE  /\ Keeps(w) /\ Len(jobs') = Len(jobs)
         /\ \A i \in 1..Len(jobs) : i # j => jobs'[i] = jobs[i]
         /\ j \in 1..Len(jobs) /\ jobs'[j].status = "leased" /\ jobs'[j].kind = jobs[j].kind
         /\ jobs'[j].epoch = jobs[j].epoch + 1 /\ jobs[j].epoch \in Nat
         /\ at'[w].job = j /\ at'[w].epoch = jobs[j].epoch + 1
         /\ pc'[w] = IF jobs[j].kind = "cancel_run" THEN "finalize" ELSE "observe"
<1>1. /\ jobs \in Seq(Job) /\ j \in 1..Len(jobs) /\ jobs[j] \in Job
      /\ Len(jobs) \in Nat
  BY LenProperties, ElementOfSeq DEF WellTyped, Types, RowTypes
<1>2. jobs[j].epoch \in Nat /\ jobs[j].epoch + 1 \in 0..MaxEpoch
  BY <1>1, SizesAssumption DEF Job, Claim
<1> DEFINE e == [[jobs[j] EXCEPT !.status = "leased"] EXCEPT !.epoch = jobs[j].epoch + 1]
           l == [Idle EXCEPT !.job = j, !.epoch = jobs[j].epoch + 1]
           s == IF jobs[j].kind = "cancel_run" THEN "finalize" ELSE "observe"
<1>3. jobs' = [jobs EXCEPT ![j] = e]
  BY DEF Claim
<1>4. /\ e \in Job /\ e.status = "leased" /\ e.kind = jobs[j].kind
      /\ e.epoch = jobs[j].epoch + 1
  BY <1>1, <1>2 DEF Job
<1> HIDE DEF e
<1>5. /\ [jobs EXCEPT ![j] = e] \in Seq(Job) /\ Len([jobs EXCEPT ![j] = e]) = Len(jobs)
      /\ \A i \in 1..Len(jobs) : [jobs EXCEPT ![j] = e][i] = IF i = j THEN e ELSE jobs[i]
  BY <1>1, <1>4, SeqRow
<1>6. Moves(w, s, l)
  BY DEF Claim, Moves, Goto
<1>7. l \in Local /\ l.job = j /\ l.epoch = jobs[j].epoch + 1
  <2>1. j \in Nat /\ jobs[j].epoch + 1 \in Nat
    BY <1>1, <1>2
  <2>2. Idle \in Local
    BY IdleHolds
  <2>. QED
    BY <2>1, <2>2 DEF Local
<1>8. s \in Steps /\ s \in {"finalize", "observe"}
  BY DEF Steps, JobSteps
<1> HIDE DEF l, s
<1>9. HoldsAt(s, l)
  BY <1>1, <1>7, <1>8 DEF HoldsAt, TurnSteps, CallSteps, AnswerSteps, SlotSteps
<1>10. faults' \in 0..MaxFaults
  <2>1. faults' = faults \/ (faults < MaxFaults /\ faults' = faults + 1)
    BY DEF Claim, Fault
  <2>. QED
    BY <2>1, EndTypes, SizesAssumption
<1>11. RowTypes' /\ Len(jobs) <= Len(jobs') /\ calls' = calls
  <2>1. jobs' \in Seq(Job) /\ Len(jobs') = Len(jobs)
    BY <1>3, <1>5
  <2>2. UNCHANGED <<run, calls, rows, opVars>>
    BY DEF Claim
  <2>. QED
    BY <1>1, <1>10, <2>1, <2>2 DEF WellTyped, Types, RowTypes, rows, opVars
<1>12. Keeps(w)
  BY <1>6, <1>7, <1>8, <1>9, <1>11, MoveKeeps
<1>13. pc'[w] = s /\ at'[w] = l
  BY <1>6, <1>7, <1>8, Moved
<1>14. /\ Len(jobs') = Len(jobs) /\ jobs'[j] = e
       /\ \A i \in 1..Len(jobs) : i # j => jobs'[i] = jobs[i]
  BY <1>1, <1>3, <1>5
<1>. QED
  BY <1>1, <1>2, <1>4, <1>7, <1>12, <1>13, <1>14 DEF s

LEMMA FinalizeKeeps ==
  ASSUME WellTyped, NEW w \in Worker, NEW s \in CancelSteps, NEW refused \in {"reconcile", "defer"},
         Finalize(w, s, refused)
  PROVE  Keeps(w)
<1>1. /\ pc[w] # "idle" /\ "cancelled" \in RunStatus /\ refused \in JobSteps \cup {"idle"}
      /\ at[w] \in Local
  BY EndTypes DEF Finalize, At, RunStatus, TerminalRun, CancelSteps, JobSteps
<1>2. jobs' \in Seq(Job) /\ Len(jobs') = Len(jobs) /\ run' \in RunStatus
  BY <1>1, EndTypes, RetireTypes DEF Finalize, WellTyped, Types
<1>3. CASE run' = "cancelled"
  BY <1>1, <1>2, <1>3, SeenMoves, EndTypes, EndMoveKeeps DEF Finalize, rows, opVars
<1>4. CASE run' # "cancelled"
  <2> DEFINE T == {o \in Op : op[o] = "running"}
             l == [at[w] EXCEPT !.todo = T]
  <2>1. Moves(w, refused, l)
    BY <1>4, HoldMoves DEF Finalize
  <2>2. l \in Local /\ l.job = at[w].job
    BY <1>1 DEF Local
  <2> HIDE DEF l
  <2>. QED
    BY <1>1, <1>2, <2>1, <2>2, EndTypes, EndMoveKeeps DEF Finalize, rows, opVars
<1>. QED
  BY <1>3, <1>4

LEMMA ReconcileLocalKeeps ==
  ASSUME WellTyped, NEW w \in Worker, ReconcileLocal(w)
  PROVE  Keeps(w)
<1>1. pc[w] # "idle" /\ at[w] \in Local
  BY EndTypes DEF ReconcileLocal, At
<1>2. CASE \E s \in {"refinalize", "defer"} : Goto(w, s) /\ UNCHANGED <<op, at>>
  <2>1. PICK s \in {"refinalize", "defer"} : Moves(w, s, at[w]) /\ op' = op
    BY <1>2, GotoMoves
  <2>2. s \in JobSteps \cup {"idle"}
    BY DEF JobSteps
  <2>. QED
    BY <1>1, <2>1, <2>2, EndTypes, EndMoveKeeps DEF ReconcileLocal, rows
<1>3. CASE \E o \in at[w].todo :
             /\ op' = op \/ op' = [op EXCEPT ![o] = "succeeded"]
             /\ Hold(w, "todo", at[w].todo \ {o}, "reconcile")
  <2>1. PICK o \in at[w].todo :
             /\ op' = op \/ op' = [op EXCEPT ![o] = "succeeded"]
             /\ Hold(w, "todo", at[w].todo \ {o}, "reconcile")
    BY <1>3
  <2> DEFINE l == [at[w] EXCEPT !.todo = at[w].todo \ {o}]
  <2>2. Moves(w, "reconcile", l) /\ "reconcile" \in JobSteps \cup {"idle"}
    BY <2>1, HoldMoves DEF JobSteps
  <2>3. l \in Local /\ l.job = at[w].job
    BY <1>1 DEF Local
  <2>4. op' \in [Op -> {"none", "ready", "running"} \cup TerminalAction]
    BY <2>1, OpTypes DEF TerminalAction
  <2> HIDE DEF l
  <2>. QED
    BY <1>1, <2>2, <2>3, <2>4, EndTypes, EndMoveKeeps DEF ReconcileLocal, rows
<1>4. \/ \E s \in {"refinalize", "defer"} : Goto(w, s) /\ UNCHANGED <<op, at>>
      \/ \E o \in at[w].todo :
             /\ op' = op \/ op' = [op EXCEPT ![o] = "succeeded"]
             /\ Hold(w, "todo", at[w].todo \ {o}, "reconcile")
  BY DEF ReconcileLocal
<1>. QED
  BY <1>2, <1>3, <1>4

-----------------------------------------------------------------------------
(* Every step *)

LEMMA BeginKeeps ==
  ASSUME WellTyped, NEW w \in Worker, Begin(w)
  PROVE  Keeps(w)
  BY ObserveKeeps, EnsureKeeps, LatestKeeps, NextTurnKeeps, QuotaKeeps, ReserveTurnKeeps,
     ReserveOutputKeeps, ReleaseTurnKeeps, BeginCallKeeps, GenerateKeeps, CommitCallKeeps,
     SettleTurnKeeps, SettleOutputKeeps DEF Begin

LEMMA ProcessAnswerKeeps ==
  ASSUME WellTyped, NEW w \in Worker, ProcessAnswer(w)
  PROVE  Keeps(w)
  BY ProcessKeeps, RejectKeeps, RepairsKeeps, AskKeeps, VerifyKeeps, RecordKeeps,
     MarkProcessedKeeps DEF ProcessAnswer

LEMMA OperateKeeps ==
  ASSUME WellTyped, NEW w \in Worker, Operate(w)
  PROVE  Keeps(w)
  BY ReserveToolKeeps, AdmitOpKeeps, RefuseOpKeeps, StartOpKeeps, DispatchOpKeeps,
     ExecuteOpKeeps, CompleteOpKeeps, SettleToolKeeps DEF Operate

LEMMA EndKeeps ==
  ASSUME WellTyped, NEW w \in Worker, End(w) \/ Cancel(w) \/ Faulty(w)
  PROVE  Keeps(w)
<1>1. CASE End(w)
  BY <1>1, ReturnKeeps, FinishKeeps, BlockRunKeeps, FailRunKeeps, TerminateRunKeeps, DropKeeps
     DEF End
<1>2. CASE Cancel(w)
  BY <1>2, FinalizeKeeps, ReconcileLocalKeeps DEF Cancel, CancelSteps
<1>3. CASE Faulty(w)
  BY <1>3, DropKeeps, OutputFailsKeeps, ProviderErrorKeeps DEF Faulty
<1>. QED
  BY <1>1, <1>2, <1>3

LEMMA WorkerKeeps ==
  ASSUME WellTyped, NEW w \in Worker,
         (\E j \in DOMAIN jobs : Claim(w, j)) \/ WorkerStep(w) \/ Faulty(w)
  PROVE  Keeps(w)
  BY ClaimKeeps, BeginKeeps, ProcessAnswerKeeps, OperateKeeps, EndKeeps DEF WorkerStep

\* The user appends a job and touches no worker.
LEMMA AppendTypes ==
  ASSUME WellTyped, NEW kind \in {"advance_run", "cancel_run"},
         jobs' = Append(jobs, NewJob(kind))
  PROVE  /\ jobs' \in Seq(Job) /\ Len(jobs') = Len(jobs) + 1 /\ Len(jobs) \in Nat
         /\ \A j \in 1..Len(jobs) : jobs'[j] = jobs[j]
         /\ jobs'[Len(jobs) + 1] = NewJob(kind)
<1>1. jobs \in Seq(Job) /\ NewJob(kind) \in Job
  BY SizesAssumption DEF WellTyped, Types, RowTypes, NewJob, Job
<1>. QED
  BY <1>1, AppendProperties, LenProperties

LEMMA UserKeeps ==
  ASSUME WellTyped, User
  PROVE  WellTyped' /\ Grows
<1>1. PICK kind \in {"advance_run", "cancel_run"} : jobs' = Append(jobs, NewJob(kind))
  BY DEF User, RequestCancellation, RespondAnswer
<1>2. /\ jobs' \in Seq(Job) /\ Len(jobs') = Len(jobs) + 1 /\ Len(jobs) \in Nat
  BY <1>1, AppendTypes
<1>3. UNCHANGED <<calls, rows, opEpoch, receipts, pc, at, faults>>
  BY DEF User, RequestCancellation, RespondAnswer
<1>4. run' \in RunStatus /\ question' \in [Answer -> {"none", "pending", "answered"}]
  BY DEF User, RequestCancellation, RespondAnswer, WellTyped, Types, RowTypes, RunStatus
<1>5. op' \in [Op -> {"none", "ready", "running"} \cup TerminalAction]
  BY OpTypes, SettleUndispatchedType DEF User, RequestCancellation, RespondAnswer
<1>6. Types'
  BY <1>2, <1>3, <1>4, <1>5 DEF WellTyped, Types, RowTypes, rows
<1>7. Grows /\ Answered'
  <2>1. Len(calls) \in Nat /\ calls' = calls /\ Answered
    BY <1>3, LenProperties DEF WellTyped, Types, RowTypes
  <2>. QED
    BY <1>2, <2>1 DEF Grows, Answered
<1>8. ASSUME NEW w \in Worker PROVE Holds(w)'
  BY <1>2, <1>3, LocalFacts DEF Holds, HoldsAt
<1>. QED
  BY <1>6, <1>7, <1>8 DEF WellTyped

\* What the other workers hold stays true.
LEMMA OthersHold ==
  ASSUME WellTyped, NEW w \in Worker, Keeps(w)
  PROVE  WellTyped' /\ Grows
<1>1. Len(jobs) <= Len(jobs') /\ Len(calls) <= Len(calls') /\ Len(jobs) \in Nat
      /\ Len(calls) \in Nat /\ Len(jobs') \in Nat /\ Len(calls') \in Nat
  BY LenProperties DEF Keeps, Grows, WellTyped, Types, RowTypes
<1>2. \A t \in 1..Len(calls) : calls[t].status # "started" => calls'[t].status # "started"
  BY DEF Keeps, Grows
<1>3. ASSUME NEW v \in Worker \ {w} PROVE Holds(v)'
  <2>1. PICK s, l : s = pc[v] /\ l = at[v]
    OBVIOUS
  <2>2. pc'[v] = s /\ at'[v] = l
    BY <2>1 DEF Keeps, Mine
  <2>3. HoldsAt(s, l) /\ l \in Local
    BY <2>1, LocalFacts
  <2>4. HoldsAt(s, l)'
    <3>1. l.job \in Nat /\ l.turn \in Nat
      BY <2>3 DEF Local
    <3>. QED
      BY <1>1, <1>2, <2>3, <3>1 DEF HoldsAt
  <2>. QED
    BY <2>2, <2>4 DEF Holds
<1>. QED
  BY <1>3 DEF Keeps, WellTyped

LEMMA StepKeeps ==
  ASSUME WellTyped, [Next]_vars
  PROVE  WellTyped' /\ Grows
<1>1. CASE UNCHANGED vars
  <2>1. WellTyped'
    BY <1>1 DEF vars, WellTyped, Types, RowTypes, Answered, Holds, HoldsAt
  <2>2. Grows
    BY <1>1, LenProperties DEF vars, WellTyped, Types, RowTypes, Grows
  <2>. QED
    BY <2>1, <2>2
<1>2. CASE User
  BY <1>2, UserKeeps
<1>3. ASSUME NEW w \in Worker,
             (\E j \in DOMAIN jobs : Claim(w, j)) \/ WorkerStep(w) \/ Faulty(w)
      PROVE  WellTyped' /\ Grows
  BY <1>3, WorkerKeeps, OthersHold
<1>. QED
  BY <1>1, <1>2, <1>3 DEF Next

LEMMA InitTyped == Init => WellTyped
<1> SUFFICES ASSUME Init PROVE WellTyped
  OBVIOUS
<1>1. jobs = <<NewJob("advance_run")>> /\ calls = <<>> /\ NewJob("advance_run") \in Job
  BY SizesAssumption DEF Init, NewJob, Job
<1>2. jobs \in Seq(Job) /\ Len(jobs) = 1
  BY <1>1
<1>3. calls \in Seq(CallRow) /\ Len(calls) = 0
  BY <1>1
<1>4. RowTypes
  BY <1>2, <1>3, SizesAssumption DEF Init, RowTypes, RunStatus, Row
<1>5. /\ pc \in [Worker -> Steps] /\ at \in [Worker -> Local]
      /\ \A w \in Worker : pc[w] = "idle"
  BY IdleHolds DEF Init, Steps
<1>6. \A w \in Worker : Holds(w)
  BY <1>5 DEF Holds, HoldsAt, TurnSteps, CallSteps, AnswerSteps, SlotSteps
<1>. QED
  BY <1>3, <1>4, <1>5, <1>6 DEF WellTyped, Types, Answered

\* Every reachable state of the turn loop is one of its types.
THEOREM WellTypedAlways == Spec => []WellTyped
<1>1. WellTyped /\ [Next]_vars => WellTyped'
  BY StepKeeps
<1>. QED
  BY <1>1, InitTyped, PTL DEF Spec

\* The rows of a Run and the local variables of its workers hold values of
\* their types, whatever the number of workers, turns and operations.
THEOREM TurnLoopTypes == Spec => []TypeOK
<1>1. WellTyped => TypeOK
  <2> SUFFICES ASSUME WellTyped PROVE TypeOK
    OBVIOUS
  <2>1. run \in RunStatus /\ faults \in 0..MaxFaults
    BY DEF WellTyped, Types, RowTypes
  <2>2. jobs \in [1..Len(jobs) -> Job] /\ DOMAIN jobs = 1..Len(jobs)
    BY LenProperties DEF WellTyped, Types, RowTypes
  <2>3. calls \in [1..Len(calls) -> CallRow] /\ DOMAIN calls = 1..Len(calls)
    BY LenProperties DEF WellTyped, Types, RowTypes
  <2>4. \A t \in DOMAIN calls :
         /\ calls[t].status \in {"started", "response_committed", "invalid", "processed"}
         /\ calls[t].answer \in Answer \cup {<<"none", 0>>}
    BY <2>3 DEF CallRow, NoAnswer
  <2>5. /\ row \in [Key -> Row] /\ used \in [Dimension -> Nat] /\ receipts \subseteq Op
        /\ op \in [Op -> ActionStatus \cup {"none"}]
    BY OpTypes DEF WellTyped, Types, RowTypes, ActionStatus, Undispatched, Uncertain
  <2>6. \A w \in Worker : pc[w] \in Steps
    BY DEF WellTyped, Types
  <2>7. \A w \in Worker : pc[w] \in FencedStep \cup {"idle", "observe", "latest", "next",
          "quota", "generate", "settle_turn", "process", "repairs", "start", "execute",
          "verify", "return"}
    BY <2>6 DEF Steps, JobSteps, TurnSteps, CallSteps, AnswerSteps, SlotSteps, FencedStep
  <2>. QED
    BY <2>1, <2>2, <2>4, <2>5, <2>7 DEF TypeOK, Job
<1>. QED
  BY <1>1, WellTypedAlways, PTL
-----------------------------------------------------------------------------
(* A worker keeps its claim until it drops it *)

Stays(w) == pc[w] # "idle" /\ (pc'[w] # "idle" =>
                                 at'[w].job = at[w].job /\ at'[w].epoch = at[w].epoch)

LEMMA HoldStays ==
  ASSUME WellTyped, NEW w \in Worker, NEW v, NEW s,
         NEW f \in {"turn", "amount", "slot", "seen", "flag", "then", "todo"}, Hold(w, f, v, s)
  PROVE  /\ at'[w].job = at[w].job /\ at'[w].epoch = at[w].epoch /\ pc'[w] = s
         /\ \A g \in {"job", "epoch", "turn", "amount", "slot", "seen", "flag", "then", "todo"} :
              at'[w][g] = IF g = f THEN v ELSE at[w][g]
<1>1. at \in [Worker -> Local] /\ pc \in [Worker -> Steps]
  BY DEF WellTyped, Types
<1>2. at'[w] = [at[w] EXCEPT ![f] = v] /\ pc'[w] = s
  BY <1>1 DEF Hold, Goto
<1>3. at[w] \in Local
  BY <1>1
<1>4. DOMAIN at[w] = {"job", "epoch", "turn", "amount", "slot", "seen", "flag", "then", "todo"}
  BY <1>3 DEF Local
<1>5. \A g \in DOMAIN at[w] : at'[w][g] = IF g = f THEN v ELSE at[w][g]
  BY <1>2, <1>3 DEF Local
<1>. QED
  BY <1>2, <1>4, <1>5

LEMMA GotoStep ==
  ASSUME WellTyped, NEW w \in Worker, NEW s, Goto(w, s)
  PROVE  pc'[w] = s
  BY DEF WellTyped, Types, Goto

LEMMA DropStep ==
  ASSUME WellTyped, NEW w \in Worker, Drop(w)
  PROVE  pc'[w] = "idle" /\ at'[w] = Idle
  BY DEF WellTyped, Types, Drop, Goto

LEMMA BeginStays ==
  ASSUME WellTyped, NEW w \in Worker, Begin(w)
  PROVE  Stays(w)
<1>1. CASE Observe(w)
  BY <1>1, HoldStays DEF Observe, Read, At, Stays
<1>2. CASE Latest(w)
  <2>1. CASE at' = at
    BY <1>2, <2>1 DEF Latest, Read, At, Stays
  <2>2. CASE at' = [at EXCEPT ![w].turn = Len(calls), ![w].amount = calls[Len(calls)].amount]
    <3>1. at[w] \in Local /\ at \in [Worker -> Local]
      BY DEF WellTyped, Types
    <3>2. at'[w] = [at[w] EXCEPT !.turn = Len(calls), !.amount = calls[Len(calls)].amount]
      BY <2>2, <3>1
    <3>. QED
      BY <1>2, <3>1, <3>2 DEF Latest, Read, At, Stays, Local
  <2>. QED
    BY <1>2, <2>1, <2>2 DEF Latest
<1>3. CASE NextTurn(w) \/ Quota(w)
  BY <1>3, HoldStays DEF NextTurn, Quota, Read, At, Stays
<1>4. CASE ReserveOutput(w)
  BY <1>4, HoldStays DEF ReserveOutput, At, Stays
<1>5. CASE ReleaseTurn(w)
  BY <1>5, DropStep DEF ReleaseTurn, At, Stays
<1>6. CASE Ensure(w) \/ ReserveTurn(w) \/ BeginCall(w) \/ Generate(w) \/ CommitCall(w)
           \/ SettleTurn(w) \/ SettleOutput(w)
  BY <1>6 DEF Ensure, ReserveTurn, BeginCall, Generate, CommitCall, SettleTurn, SettleOutput,
              SettleUsage, Read, At, Stays
<1>. QED
  BY <1>1, <1>2, <1>3, <1>4, <1>5, <1>6 DEF Begin

LEMMA ProcessAnswerStays ==
  ASSUME WellTyped, NEW w \in Worker, ProcessAnswer(w)
  PROVE  Stays(w)
<1>1. CASE Process(w)
  <2>1. at[w] \in Local /\ at \in [Worker -> Local]
    BY DEF WellTyped, Types
  <2>2. at'[w] = [at[w] EXCEPT !.seen = run, !.slot = 1, !.then = "tool"]
    BY <1>1, <2>1 DEF Process
  <2>. QED
    BY <1>1, <2>1, <2>2 DEF Process, Read, At, Stays, Local
<1>2. CASE Verify(w)
  BY <1>2, HoldStays DEF Verify, Read, At, Stays
<1>3. CASE Reject(w, "reject", "repairs") \/ Reject(w, "stall", "fail") \/ Repairs(w)
           \/ Ask(w) \/ Record(w) \/ MarkProcessed(w)
  BY <1>3 DEF Reject, Repairs, Ask, Record, MarkProcessed, Read, At, Stays
<1>. QED
  BY <1>1, <1>2, <1>3 DEF ProcessAnswer

LEMMA OperateStays ==
  ASSUME WellTyped, NEW w \in Worker, Operate(w)
  PROVE  Stays(w)
<1>1. CASE RefuseOp(w)
  BY <1>1, HoldStays DEF RefuseOp, At, Stays
<1>2. CASE ExecuteOp(w)
  BY <1>2, HoldStays DEF ExecuteOp, At, Stays
<1>3. CASE CompleteOp(w)
  BY <1>3, HoldStays DEF CompleteOp, At, Stays
<1>4. CASE SettleTool(w)
  <2>1. at[w].then \in {"idle", "block", "tool"}
    BY <1>4, LocalFacts DEF SettleTool, At, HoldsAt
  <2>2. at' = at \/ Drop(w) \/ Hold(w, "slot", at[w].slot + 1, "tool")
    BY <1>4, <2>1 DEF SettleTool
  <2>. QED
    BY <1>4, <2>2, HoldStays, DropStep DEF SettleTool, At, Stays
<1>5. CASE ReserveTool(w) \/ AdmitOp(w) \/ StartOp(w) \/ DispatchOp(w)
  BY <1>5 DEF ReserveTool, AdmitOp, StartOp, DispatchOp, At, Stays
<1>. QED
  BY <1>1, <1>2, <1>3, <1>4, <1>5 DEF Operate

LEMMA EndStays ==
  ASSUME WellTyped, NEW w \in Worker, End(w) \/ Cancel(w) \/ Faulty(w)
  PROVE  Stays(w)
<1>1. CASE Return(w)
  BY <1>1, HoldStays DEF Return, Read, At, Stays
<1>2. CASE Finish(w) \/ Defer(w) \/ LoseLease(w) \/ Crash(w)
  BY <1>2, DropStep DEF Finish, Defer, LoseLease, Crash, At, Stays, FencedStep
<1>3. CASE BlockRun(w) \/ FailRun(w)
  BY <1>3, DropStep, HoldStays DEF BlockRun, Ends, FailRun, At, Stays
<1>4. CASE TerminateRun(w)
  BY <1>4, DropStep, HoldStays DEF TerminateRun, At, Stays
<1>5. CASE Finalize(w, "finalize", "reconcile") \/ Finalize(w, "refinalize", "defer")
  BY <1>5, HoldStays DEF Finalize, At, Stays
<1>6. CASE ReconcileLocal(w)
  BY <1>6, HoldStays DEF ReconcileLocal, At, Stays
<1>7. CASE OutputFails(w) \/ ProviderFails(w) \/ ProviderRefuses(w)
  BY <1>7, HoldStays DEF OutputFails, ProviderFails, ProviderRefuses, At, Stays
<1>. QED
  BY <1>1, <1>2, <1>3, <1>4, <1>5, <1>6, <1>7 DEF End, Cancel, Faulty

LEMMA WorkerStays ==
  ASSUME WellTyped, NEW w \in Worker, WorkerStep(w) \/ Faulty(w)
  PROVE  Stays(w)
  BY BeginStays, ProcessAnswerStays, OperateStays, EndStays DEF WorkerStep

\* Where a worker may go next.
LEMMA ReadyAndTurnSteps ==
  ASSUME WellTyped, NEW w \in Worker, Observe(w) \/ Ensure(w) \/ Latest(w) \/ NextTurn(w)
                                      \/ Quota(w) \/ ReserveTurn(w)
  PROVE  pc'[w] \in {"ensure", "latest", "finish", "block", "turn", "settle_turn", "next",
                     "quota", "exhausted", "output"}
<1>1. CASE Observe(w) \/ NextTurn(w)
  BY <1>1, HoldStays DEF Observe, NextTurn
<1>2. CASE Ensure(w) \/ Latest(w)
  BY <1>2, GotoStep DEF Ensure, Latest
<1>3. CASE Quota(w)
  BY <1>3, HoldStays, GotoStep DEF Quota
<1>4. CASE ReserveTurn(w)
  <2>1. TurnKey(at[w].turn) \in Key
    BY <1>4, LocalFacts, KeyTypes DEF ReserveTurn, At, HoldsAt, TurnSteps, Turn
  <2>2. Reserving(TurnKey(at[w].turn), 1) \in Outcomes
    BY <2>1, ReserveType DEF WellTyped, Types
  <2>3. \E s \in {"output", "block", "exhausted"} : Goto(w, s)
    BY <1>4, <2>2 DEF ReserveTurn, Outcomes
  <2>. QED
    BY <2>3, GotoStep
<1>. QED
  BY <1>1, <1>2, <1>3, <1>4

LEMMA CallAndAnswerSteps ==
  ASSUME WellTyped, NEW w \in Worker, ReserveOutput(w) \/ ReleaseTurn(w) \/ BeginCall(w)
                                      \/ Generate(w) \/ CommitCall(w)
  PROVE  pc'[w] \in {"begin", "release", "idle", "block", "exhausted", "generate", "commit",
                     "settle_turn"}
<1>1. CASE ReserveOutput(w)
  BY <1>1, HoldStays DEF ReserveOutput
<1>2. CASE ReleaseTurn(w)
  <2>1. at[w].then \in {"idle", "block", "exhausted"}
    BY <1>2, LocalFacts DEF ReleaseTurn, At, HoldsAt
  <2>2. Drop(w) \/ Goto(w, "block") \/ Goto(w, "exhausted")
    BY <1>2, <2>1 DEF ReleaseTurn
  <2>. QED
    BY <2>2, GotoStep, DropStep
<1>3. CASE BeginCall(w) \/ Generate(w) \/ CommitCall(w)
  BY <1>3, GotoStep DEF BeginCall, Generate, CommitCall
<1>. QED
  BY <1>1, <1>2, <1>3

LEMMA ProcessAnswerSteps ==
  ASSUME WellTyped, NEW w \in Worker, ProcessAnswer(w)
  PROVE  pc'[w] \in {"finish", "reject", "stall", "ask", "tool", "verify", "repairs", "fail",
                     "return", "block", "processed", "record"}
<1>1. CASE Process(w)
  <2>1. PICK s \in {"finish", "reject", "stall", "ask", "tool", "verify"} : Goto(w, s)
    BY <1>1 DEF Process
  <2>. QED
    BY <2>1, GotoStep
<1>2. CASE Reject(w, "reject", "repairs") \/ Reject(w, "stall", "fail") \/ Repairs(w)
           \/ MarkProcessed(w)
  BY <1>2, GotoStep DEF Reject, Repairs, MarkProcessed
<1>3. CASE Ask(w) \/ Record(w)
  BY <1>3, GotoStep DEF Ask, Record
<1>4. CASE Verify(w)
  BY <1>4, HoldStays DEF Verify
<1>. QED
  BY <1>1, <1>2, <1>3, <1>4 DEF ProcessAnswer

LEMMA EndSteps ==
  ASSUME WellTyped, NEW w \in Worker, End(w)
  PROVE  pc'[w] \in {"finish", "idle"}
<1>1. Drop(w) \/ \E r : Hold(w, "seen", r, "finish")
  <2>1. CASE Return(w) \/ Finish(w) \/ Defer(w) \/ LoseLease(w)
    BY <2>1 DEF Return, Finish, Defer, LoseLease
  <2>2. CASE BlockRun(w) \/ FailRun(w)
    BY <2>2 DEF BlockRun, Ends, FailRun
  <2>3. CASE TerminateRun(w)
    BY <2>3 DEF TerminateRun
  <2>. QED
    BY <2>1, <2>2, <2>3 DEF End
<1>2. ASSUME NEW r, Hold(w, "seen", r, "finish") PROVE pc'[w] = "finish"
  BY <1>2, HoldStays
<1>. QED
  BY <1>1, <1>2, DropStep

LEMMA CancelNext ==
  ASSUME WellTyped, NEW w \in Worker, Cancel(w)
  PROVE  pc'[w] \in {"finish", "reconcile", "defer", "refinalize"}
<1>1. \/ \E v : \/ Hold(w, "seen", v, "finish")
                \/ \E s \in {"reconcile", "defer"} : Hold(w, "todo", v, s)
      \/ \E s \in {"defer", "refinalize"} : Goto(w, s)
  BY DEF Cancel, Finalize, ReconcileLocal
<1>2. ASSUME NEW v, Hold(w, "seen", v, "finish") PROVE pc'[w] = "finish"
  BY <1>2, HoldStays
<1>3. ASSUME NEW v, NEW s, Hold(w, "todo", v, s) PROVE pc'[w] = s
  BY <1>3, HoldStays
<1>. QED
  BY <1>1, <1>2, <1>3, GotoStep

LEMMA FaultySteps ==
  ASSUME WellTyped, NEW w \in Worker, Faulty(w)
  PROVE  pc'[w] \in {"idle", "release", "defer", "block"}
  BY HoldStays, GotoStep, DropStep DEF Faulty, Crash, OutputFails, ProviderFails, ProviderRefuses
-----------------------------------------------------------------------------
(* A queued or running Run has a job that will advance it *)

LiveStays == \/ run' = "running" /\ run \in Live
             \/ run' = "queued" /\ run = "queued"

\* No worker makes a Run live again, and a running Run is not queued again.
LEMMA LiveStep ==
  ASSUME WellTyped, NEW w \in Worker, WorkerStep(w) \/ Faulty(w), run' \in Live
  PROVE  LiveStays
<1>1. run' = run \/ (run = "queued" /\ run' = "running") \/ run' \notin Live
  <2>1. CASE Begin(w)
    BY <2>1 DEF Begin, Observe, Ensure, Latest, NextTurn, Quota, ReserveTurn, ReserveOutput,
                ReleaseTurn, BeginCall, Generate, CommitCall, SettleTurn, SettleOutput,
                SettleUsage, Read
  <2>2. CASE ProcessAnswer(w)
    BY <2>2 DEF ProcessAnswer, Process, Reject, Repairs, Ask, Verify, Record, MarkProcessed,
                Read, Live
  <2>3. CASE Operate(w)
    BY <2>3 DEF Operate, ReserveTool, AdmitOp, RefuseOp, StartOp, DispatchOp, ExecuteOp,
                CompleteOp, SettleTool
  <2>4. CASE End(w)
    BY <2>4 DEF End, Return, Finish, Defer, BlockRun, Ends, FailRun, TerminateRun, LoseLease,
                Read, Live
  <2>5. CASE Cancel(w)
    BY <2>5 DEF Cancel, Finalize, ReconcileLocal, Live
  <2>6. CASE Faulty(w)
    BY <2>6 DEF Faulty, Crash, OutputFails, ProviderFails, ProviderRefuses
  <2>. QED
    BY <2>1, <2>2, <2>3, <2>4, <2>5, <2>6 DEF WorkerStep
<1>. QED
  BY <1>1 DEF Live, LiveStays

\* What a step of w does to a job that will advance the Run.
Advances(w, j) ==
  /\ jobs'[j].kind = "advance_run" /\ jobs'[j].status # "done"
  /\ pc'[w] # "idle" /\ at'[w].job = j =>
       /\ pc'[w] \in {"observe", "ensure"} \/ run' = "running"
       /\ pc'[w] = "finish" => at'[w].seen = "running"

LEMMA WakesStay ==
  ASSUME WellTyped, NEW w \in Worker, NEW j \in 1..Len(jobs), Wakes(j), Mine(w), Advances(w, j),
         run = "running" => run' = "running"
  PROVE  Wakes(j)'
  BY DEF Wakes, Advances, Mine

\* A step that leaves the jobs alone and does not lead to the end of run_once.
LEMMA QuietAdvances ==
  ASSUME WellTyped, NEW w \in Worker, NEW j \in 1..Len(jobs), Wakes(j), jobs' = jobs, Stays(w),
         LiveStays,
         pc'[w] # "finish", pc[w] \notin {"observe", "ensure"}
  PROVE  Advances(w, j)
  BY DEF Wakes, Advances, Stays, LiveStays

LEMMA BeginAdvances ==
  ASSUME WellTyped, NEW w \in Worker, NEW j \in 1..Len(jobs), Wakes(j), Begin(w), run' \in Live
  PROVE  Advances(w, j)
<1>1. Stays(w) /\ LiveStays
  BY LiveStep, BeginStays DEF WorkerStep
<1>2. CASE Observe(w)
  <2>1. pc'[w] \in {"ensure", "latest"} /\ (pc'[w] = "ensure" \/ run' = "running") /\ jobs' = jobs
    BY <1>1, <1>2, HoldStays DEF Observe, Read, Live, LiveStays
  <2>. QED
    BY <1>1, <1>2, <2>1 DEF Wakes, Advances, Stays
<1>3. CASE Ensure(w)
  <2>1. pc'[w] = "latest" /\ run' = "running" /\ jobs' = jobs
    BY <1>1, <1>3, GotoStep DEF Ensure, Live, LiveStays
  <2>. QED
    BY <1>1, <1>3, <2>1 DEF Wakes, Advances, Stays
<1>4. CASE Latest(w) \/ NextTurn(w) \/ Quota(w) \/ Generate(w)
  <2>1. pc'[w] # "finish" /\ jobs' = jobs /\ pc[w] \notin {"observe", "ensure"}
    BY <1>4, GotoStep, HoldStays DEF Latest, NextTurn, Quota, Generate, Read, At
  <2>. QED
    BY <1>1, <2>1, QuietAdvances
<1>5. CASE ReserveTurn(w) \/ ReserveOutput(w) \/ ReleaseTurn(w)
  <2>1. pc'[w] # "finish"
    <3>1. CASE ReserveTurn(w)
      BY <3>1, GotoStep DEF ReserveTurn, Reserving
    <3>2. CASE ReserveOutput(w)
      BY <3>2, HoldStays DEF ReserveOutput
    <3>3. CASE ReleaseTurn(w)
      <4>1. at[w].then \in {"idle", "block", "exhausted"}
        BY <3>3, LocalFacts DEF ReleaseTurn, At, HoldsAt
      <4>. QED
        BY <3>3, <4>1, GotoStep, DropStep DEF ReleaseTurn
    <3>. QED
      BY <1>5, <3>1, <3>2, <3>3
  <2>2. jobs' = jobs /\ pc[w] \notin {"observe", "ensure"}
    BY <1>5 DEF ReserveTurn, ReserveOutput, ReleaseTurn, At
  <2>. QED
    BY <1>1, <2>1, <2>2, QuietAdvances
<1>6. CASE BeginCall(w) \/ CommitCall(w)
  <2>1. pc'[w] # "finish" /\ jobs' = jobs /\ pc[w] \notin {"observe", "ensure"}
    BY <1>6, GotoStep DEF BeginCall, CommitCall, At
  <2>. QED
    BY <1>1, <2>1, QuietAdvances
<1>7. CASE SettleTurn(w) \/ SettleOutput(w)
  <2>1. \E r \in Outcomes, next \in {"settle_output", "process"} :
          Goto(w, IF r = "ok" THEN next ELSE r)
    <3>1. \A k, n : Settling(k, n) \in Outcomes /\ Reserving(k, n) \in Outcomes
      BY DEF Settling, Reserving, Outcomes
    <3>2. ASSUME NEW k, NEW n, NEW found \in Outcomes, NEW next, SettleUsage(w, k, n, found, next)
          PROVE  \E r \in Outcomes : Goto(w, IF r = "ok" THEN next ELSE r)
      BY <3>1, <3>2 DEF SettleUsage
    <3>3. CASE SettleTurn(w)
      <4> DEFINE turn   == Reserving(TurnKey(at[w].turn), 1)
                 output == Reserving(OutputKey(at[w].turn), Call(w).amount)
                 found  == IF turn = "ok" THEN output ELSE turn
      <4>1. found \in Outcomes
        BY <3>1
      <4>2. SettleUsage(w, TurnKey(at[w].turn), 1, found, "settle_output")
        BY <3>3 DEF SettleTurn
      <4> HIDE DEF found
      <4>. QED
        BY <3>2, <4>1, <4>2
    <3>4. CASE SettleOutput(w)
      <4>1. SettleUsage(w, OutputKey(at[w].turn), Call(w).usage, "ok", "process")
        BY <3>4 DEF SettleOutput
      <4>. QED
        BY <3>2, <4>1 DEF Outcomes
    <3>. QED
      BY <1>7, <3>3, <3>4
  <2>2. pc'[w] # "finish" /\ jobs' = jobs /\ pc[w] \notin {"observe", "ensure"}
    BY <1>7, <2>1, GotoStep DEF SettleTurn, SettleOutput, SettleUsage, At, Outcomes
  <2>. QED
    BY <1>1, <2>2, QuietAdvances
<1>. QED
  BY <1>2, <1>3, <1>4, <1>5, <1>6, <1>7 DEF Begin

LEMMA ProcessAnswerAdvances ==
  ASSUME WellTyped, NEW w \in Worker, NEW j \in 1..Len(jobs), Wakes(j), ProcessAnswer(w),
         run' \in Live
  PROVE  Advances(w, j)
<1>1. Stays(w) /\ LiveStays
  BY LiveStep, ProcessAnswerStays DEF WorkerStep
<1>2. CASE Process(w)
  <2>1. jobs' = jobs /\ run' = run /\ pc[w] = "process"
    BY <1>2 DEF Process, Read, At
  <2>2. at[w].job = j => run = "running"
    BY <2>1 DEF Wakes
  <2>3. run = "running" => pc'[w] # "finish"
    BY <1>2, GotoStep DEF Process
  <2>. QED
    BY <1>1, <2>1, <2>2, <2>3 DEF Wakes, Advances, Stays
<1>3. CASE Record(w)
  <2>1. pc'[w] # "finish" /\ pc[w] \notin {"observe", "ensure"}
    BY <1>3, GotoStep DEF Record, At
  <2>2. jobs' = jobs
    BY <1>3 DEF Record, Live, LiveStays
  <2>. QED
    BY <1>1, <2>1, <2>2, QuietAdvances
<1>4. CASE Reject(w, "reject", "repairs") \/ Reject(w, "stall", "fail") \/ Repairs(w)
           \/ Ask(w) \/ MarkProcessed(w)
  <2>1. pc'[w] # "finish" /\ jobs' = jobs /\ pc[w] \notin {"observe", "ensure"}
    BY <1>4, GotoStep DEF Reject, Repairs, Ask, MarkProcessed, Read, At
  <2>. QED
    BY <1>1, <2>1, QuietAdvances
<1>5. CASE Verify(w)
  <2>1. pc'[w] # "finish" /\ jobs' = jobs /\ pc[w] \notin {"observe", "ensure"}
    BY <1>5, HoldStays DEF Verify, Read, At
  <2>. QED
    BY <1>1, <2>1, QuietAdvances
<1>. QED
  BY <1>2, <1>3, <1>4, <1>5 DEF ProcessAnswer

LEMMA OperateAdvances ==
  ASSUME WellTyped, NEW w \in Worker, NEW j \in 1..Len(jobs), Wakes(j), Operate(w), run' \in Live
  PROVE  Advances(w, j)
<1>1. Stays(w) /\ LiveStays
  BY LiveStep, OperateStays DEF WorkerStep
<1>2. jobs' = jobs /\ pc[w] \notin {"observe", "ensure"}
  BY DEF Operate, ReserveTool, AdmitOp, RefuseOp, StartOp, DispatchOp, ExecuteOp, CompleteOp,
         SettleTool, At
<1>3. pc'[w] # "finish"
  <2>1. CASE ReserveTool(w)
    BY <2>1, GotoStep DEF ReserveTool, Reserving
  <2>2. CASE AdmitOp(w) \/ StartOp(w) \/ DispatchOp(w)
    BY <2>2, GotoStep DEF AdmitOp, StartOp, DispatchOp
  <2>3. CASE RefuseOp(w) \/ ExecuteOp(w) \/ CompleteOp(w)
    BY <2>3, HoldStays DEF RefuseOp, ExecuteOp, CompleteOp
  <2>4. CASE SettleTool(w)
    <3>1. at[w].then \in {"idle", "block", "tool"}
      BY <2>4, LocalFacts DEF SettleTool, At, HoldsAt
    <3>2. Settling(ToolKey(ThisOp(w)), 1) \in Outcomes
      BY DEF Settling, Outcomes
    <3>3. \/ \E s \in {"block", "exhausted"} : Goto(w, s)
          \/ Drop(w) \/ Hold(w, "slot", at[w].slot + 1, "tool")
      BY <2>4, <3>1, <3>2 DEF SettleTool, Outcomes
    <3>. QED
      BY <3>3, GotoStep, DropStep, HoldStays
  <2>. QED
    BY <2>1, <2>2, <2>3, <2>4 DEF Operate
<1>. QED
  BY <1>1, <1>2, <1>3, QuietAdvances

LEMMA EndAdvances ==
  ASSUME WellTyped, NEW w \in Worker, NEW j \in 1..Len(jobs), Wakes(j),
         End(w) \/ Cancel(w) \/ Faulty(w), run' \in Live
  PROVE  Advances(w, j)
<1>1. Stays(w) /\ LiveStays
  BY LiveStep, EndStays DEF WorkerStep
<1>2. CASE Return(w)
  <2>1. jobs' = jobs /\ run' = run /\ pc[w] = "return" /\ at'[w].seen = run
    BY <1>2, HoldStays DEF Return, Read, At
  <2>. QED
    BY <1>1, <2>1 DEF Wakes, Advances, Stays
<1>3. CASE Finish(w) \/ Defer(w)
  <2> DEFINE s == IF pc[w] = "finish" /\ at[w].seen # "running" THEN "done" ELSE "ready"
  <2>1. /\ SetJob(at[w].job, s) /\ at[w].job \in 1..Len(jobs) /\ pc'[w] = "idle"
        /\ pc[w] # "idle"
    BY <1>3, LocalFacts, DropStep DEF Finish, Defer, At, HoldsAt
  <2>2. /\ \A i \in 1..Len(jobs) : i # at[w].job => jobs'[i] = jobs[i]
        /\ jobs'[at[w].job].status = s /\ jobs'[at[w].job].kind = jobs[at[w].job].kind
    BY <2>1, SetJobTypes
  <2>3. at[w].job = j => s = "ready"
    BY <2>1 DEF Wakes
  <2>. QED
    BY <2>1, <2>2, <2>3 DEF Wakes, Advances
<1>4. CASE LoseLease(w) \/ Crash(w)
  <2>1. jobs' = jobs /\ pc'[w] = "idle"
    BY <1>4, DropStep DEF LoseLease, Crash
  <2>. QED
    BY <2>1 DEF Wakes, Advances
<1>5. CASE BlockRun(w) \/ FailRun(w) \/ TerminateRun(w)
  <2>1. Drop(w) /\ jobs' = jobs
    <3>1. run \notin TerminalRun
      BY <1>1 DEF Live, LiveStays, TerminalRun
    <3>. QED
      BY <1>1, <1>5, <3>1 DEF BlockRun, Ends, FailRun, TerminateRun, Live, LiveStays
  <2>. QED
    BY <2>1, DropStep DEF Wakes, Advances
<1>6. CASE Finalize(w, "finalize", "reconcile") \/ Finalize(w, "refinalize", "defer")
  <2>1. pc'[w] # "finish" /\ jobs' = jobs /\ pc[w] \notin {"observe", "ensure"}
    BY <1>1, <1>6, HoldStays DEF Finalize, At, Live, LiveStays
  <2>. QED
    BY <1>1, <2>1, QuietAdvances
<1>7. CASE ReconcileLocal(w)
  <2>1. jobs' = jobs /\ pc[w] \notin {"observe", "ensure"}
    BY <1>7 DEF ReconcileLocal, At
  <2>2. \/ \E s \in {"refinalize", "defer"} : Goto(w, s)
        \/ \E o \in at[w].todo : Hold(w, "todo", at[w].todo \ {o}, "reconcile")
    BY <1>7 DEF ReconcileLocal
  <2>3. pc'[w] # "finish"
    <3>1. ASSUME NEW v, Hold(w, "todo", v, "reconcile") PROVE pc'[w] # "finish"
      BY <3>1, HoldStays
    <3>2. ASSUME NEW s \in {"refinalize", "defer"}, Goto(w, s) PROVE pc'[w] # "finish"
      BY <3>2, GotoStep
    <3>. QED
      BY <2>2, <3>1, <3>2
  <2>. QED
    BY <1>1, <2>1, <2>3, QuietAdvances
<1>8. CASE OutputFails(w) \/ ProviderFails(w) \/ ProviderRefuses(w)
  <2>1. pc'[w] # "finish" /\ jobs' = jobs /\ pc[w] \notin {"observe", "ensure"}
    BY <1>8, HoldStays, GotoStep DEF OutputFails, ProviderFails, ProviderRefuses, At
  <2>. QED
    BY <1>1, <2>1, QuietAdvances
<1>. QED
  BY <1>2, <1>3, <1>4, <1>5, <1>6, <1>7, <1>8 DEF End, Cancel, Faulty

LEMMA WakeupStep ==
  ASSUME WellTyped, HasWakeup, [Next]_vars
  PROVE  HasWakeup'
<1> SUFFICES ASSUME run' \in Live PROVE \E j \in 1..Len(jobs') : Wakes(j)'
  BY DEF HasWakeup
<1>0. Len(jobs) \in Nat /\ Len(jobs') \in Nat /\ Len(jobs) <= Len(jobs') /\ WellTyped'
  BY StepKeeps, LenProperties DEF WellTyped, Types, RowTypes, Grows
<1>1. CASE UNCHANGED vars
  BY <1>1 DEF vars, HasWakeup, Wakes
<1>2. ASSUME NEW w \in Worker, NEW k \in DOMAIN jobs, Claim(w, k)
      PROVE  \E j \in 1..Len(jobs') : Wakes(j)'
  <2>1. run' = run
    BY <1>2 DEF Claim
  <2>2. PICK j \in 1..Len(jobs) : Wakes(j)
    BY <2>1 DEF HasWakeup
  <2>3. /\ \A i \in 1..Len(jobs) : i # k => jobs'[i] = jobs[i]
        /\ jobs'[k].status = "leased" /\ jobs'[k].kind = jobs[k].kind /\ at'[w].job = k
        /\ pc'[w] = IF jobs[k].kind = "cancel_run" THEN "finalize" ELSE "observe"
        /\ Mine(w)
    BY <1>2, ClaimKeeps DEF Keeps
  <2>4. Wakes(j)'
    BY <2>1, <2>2, <2>3 DEF Wakes, Mine
  <2>. QED
    BY <1>0, <2>4
<1>3. ASSUME NEW w \in Worker, WorkerStep(w) \/ Faulty(w)
      PROVE  \E j \in 1..Len(jobs') : Wakes(j)'
  <2>1. LiveStays
    BY <1>3, LiveStep
  <2>2. PICK j \in 1..Len(jobs) : Wakes(j)
    BY <2>1 DEF HasWakeup, Live, LiveStays
  <2>3. Advances(w, j)
    BY <1>3, <2>2, BeginAdvances, ProcessAnswerAdvances, OperateAdvances, EndAdvances
       DEF WorkerStep
  <2>4. Mine(w)
    BY <1>3, WorkerKeeps DEF Keeps
  <2>5. Wakes(j)'
    BY <2>1, <2>2, <2>3, <2>4, WakesStay DEF LiveStays
  <2>. QED
    BY <1>0, <2>5
<1>4. CASE User
  <2>1. CASE RequestCancellation
    BY <2>1 DEF RequestCancellation, Live
  <2>2. CASE \E a \in Answer : RespondAnswer(a)
    <3>1. jobs' = Append(jobs, NewJob("advance_run")) /\ UNCHANGED <<pc, at>>
      BY <2>2 DEF RespondAnswer
    <3>2. PICK n \in 1..Len(jobs') : n = Len(jobs) + 1 /\ jobs'[n] = NewJob("advance_run")
      BY <1>0, <3>1, AppendTypes
    <3>3. \A w \in Worker : pc[w] # "idle" => at[w].job # n
      BY <1>0, <3>2, LocalFacts DEF HoldsAt
    <3>4. Wakes(n)'
      BY <3>1, <3>2, <3>3 DEF Wakes, NewJob
    <3>. QED
      BY <3>4
  <2>. QED
    BY <1>4, <2>1, <2>2 DEF User
<1>. QED
  BY <1>1, <1>2, <1>3, <1>4 DEF Next

\* A queued or running Run is never forgotten: one of its jobs is ready or
\* leased, whichever workers crash, lose their lease or end in an error.
THEOREM RunIsNeverForgotten == Spec => []LiveRunHasWakeup
<1>1. Init => HasWakeup
  <2> SUFFICES ASSUME Init PROVE HasWakeup
    OBVIOUS
  <2>1. jobs = <<NewJob("advance_run")>> /\ \A w \in Worker : pc[w] = "idle"
    BY DEF Init
  <2>2. 1 \in 1..Len(jobs) /\ Wakes(1)
    BY <2>1 DEF Wakes, NewJob
  <2>. QED
    BY <2>2 DEF HasWakeup
<1>2. WellTyped /\ HasWakeup /\ [Next]_vars => HasWakeup'
  BY WakeupStep
<1>3. WellTyped /\ HasWakeup => LiveRunHasWakeup
  <2> SUFFICES ASSUME WellTyped, HasWakeup PROVE LiveRunHasWakeup
    OBVIOUS
  <2>1. DOMAIN jobs = 1..Len(jobs)
    BY LenProperties DEF WellTyped, Types, RowTypes
  <2>. QED
    BY <2>1 DEF HasWakeup, Wakes, LiveRunHasWakeup, Live
<1>. QED
  BY <1>1, <1>2, <1>3, WellTypedAlways, PTL DEF Spec
-----------------------------------------------------------------------------
(* What a step does to the budget rows *)

Reserves    == \E k \in Key, n \in Nat : Reserve(k, n) /\ UNCHANGED <<used, calls>>
Releases    == \E k \in Key : Release(k) /\ UNCHANGED <<used, calls>>
ReleasesAll ==
  /\ row' = [k \in Key |-> IF row[k].status = "reserved"
                           THEN [row[k] EXCEPT !.status = "released"] ELSE row[k]]
  /\ UNCHANGED <<used, calls>>
ChargesTurn   == \E t \in 1..Len(calls) : Settle(TurnKey(t), 1)
ChargesOutput == \E t \in 1..Len(calls) :
                   calls[t].status # "started" /\ Settle(OutputKey(t), calls[t].usage)
ChargesTool   == \E o \in Op : Settle(ToolKey(o), 1)
Charges == calls' = calls /\ (ChargesTurn \/ ChargesOutput \/ ChargesTool)

LEMMA BudgetStep ==
  ASSUME WellTyped, [Next]_vars
  PROVE  UNCHANGED rows \/ Reserves \/ Releases \/ ReleasesAll \/ Charges
<1> DEFINE Goal == UNCHANGED rows \/ Reserves \/ Releases \/ ReleasesAll \/ Charges
<1>1. CASE User \/ UNCHANGED vars
  BY <1>1 DEF User, RequestCancellation, RespondAnswer, vars, rows
<1>2. ASSUME NEW w \in Worker, NEW j \in DOMAIN jobs, Claim(w, j) PROVE Goal
  BY <1>2 DEF Claim
<1>3. ASSUME NEW w \in Worker, Begin(w) PROVE Goal
  <2>1. CASE Observe(w) \/ Ensure(w) \/ Latest(w) \/ NextTurn(w) \/ Quota(w) \/ BeginCall(w)
             \/ Generate(w) \/ CommitCall(w)
    BY <2>1 DEF Observe, Ensure, Latest, NextTurn, Quota, BeginCall, Generate, CommitCall, Read
  <2>2. CASE ReserveTurn(w) \/ ReserveOutput(w) \/ ReleaseTurn(w)
    <3>1. at[w].turn \in Turn /\ at[w].amount \in Nat
      BY <2>2, LocalFacts DEF ReserveTurn, ReserveOutput, ReleaseTurn, At, HoldsAt, TurnSteps,
                              Turn, Local
    <3>2. TurnKey(at[w].turn) \in Key /\ OutputKey(at[w].turn) \in Key
      BY <3>1, KeyTypes
    <3>3. \/ Reserve(TurnKey(at[w].turn), 1) \/ Release(TurnKey(at[w].turn))
          \/ Reserve(OutputKey(at[w].turn), at[w].amount)
      BY <2>2 DEF ReserveTurn, ReserveOutput, ReleaseTurn
    <3>4. UNCHANGED <<used, calls>>
      BY <2>2 DEF ReserveTurn, ReserveOutput, ReleaseTurn
    <3>. QED
      BY <3>1, <3>2, <3>3, <3>4 DEF Reserves, Releases
  <2>3. CASE SettleTurn(w)
    <3>1. at[w].turn \in 1..Len(calls)
      BY <2>3, AnswerTurn DEF SettleTurn, At, AnswerSteps
    <3>2. calls' = calls /\ (UNCHANGED rows \/ Settle(TurnKey(at[w].turn), 1))
      BY <2>3 DEF SettleTurn, SettleUsage
    <3>. QED
      BY <3>1, <3>2 DEF Charges, ChargesTurn
  <2>4. CASE SettleOutput(w)
    <3>1. at[w].turn \in 1..Len(calls) /\ Call(w).status # "started"
      BY <2>4, AnswerTurn DEF SettleOutput, At, AnswerSteps
    <3>2. calls' = calls /\ Settle(OutputKey(at[w].turn), Call(w).usage)
      BY <2>4 DEF SettleOutput, SettleUsage
    <3>. QED
      BY <3>1, <3>2 DEF Charges, ChargesOutput, Call
  <2>. QED
    BY <1>3, <2>1, <2>2, <2>3, <2>4 DEF Begin
<1>4. ASSUME NEW w \in Worker, ProcessAnswer(w) PROVE Goal
  BY <1>4 DEF ProcessAnswer, Process, Reject, Repairs, Ask, Verify, Record, MarkProcessed, Read
<1>5. ASSUME NEW w \in Worker, Operate(w) PROVE Goal
  <2>1. CASE ReserveTool(w)
    <3>1. CASE row' = row
      BY <2>1, <3>1 DEF ReserveTool, rows
    <3>2. CASE row' # row
      <4>1. at[w].slot \in Slot /\ at[w].turn \in Turn
        BY <2>1, <3>2, LocalFacts, AnswerTurn, SizesAssumption
           DEF ReserveTool, At, HoldsAt, AnswerSteps, Slot
      <4>2. ToolKey(ThisOp(w)) \in Key
        BY <4>1, KeyTypes DEF Op, ThisOp
      <4>3. Reserve(ToolKey(ThisOp(w)), 1) /\ UNCHANGED <<used, calls>>
        BY <2>1, <3>2 DEF ReserveTool
      <4>. QED
        BY <4>2, <4>3 DEF Reserves
    <3>. QED
      BY <3>1, <3>2
  <2>2. CASE SettleTool(w)
    <3>1. ThisOp(w) \in Op
      BY <2>2, SlotHolds DEF SettleTool, At, SlotSteps
    <3>2. calls' = calls /\ Settle(ToolKey(ThisOp(w)), 1)
      BY <2>2 DEF SettleTool
    <3>. QED
      BY <3>1, <3>2 DEF Charges, ChargesTool
  <2>3. CASE AdmitOp(w) \/ RefuseOp(w) \/ StartOp(w) \/ DispatchOp(w) \/ ExecuteOp(w)
             \/ CompleteOp(w)
    BY <2>3 DEF AdmitOp, RefuseOp, StartOp, DispatchOp, ExecuteOp, CompleteOp
  <2>. QED
    BY <1>5, <2>1, <2>2, <2>3 DEF Operate
<1>6. ASSUME NEW w \in Worker, End(w) PROVE Goal
  <2>1. CASE TerminateRun(w)
    BY <2>1 DEF TerminateRun, ReleasesAll, rows
  <2>2. CASE Return(w) \/ Finish(w) \/ Defer(w) \/ BlockRun(w) \/ FailRun(w) \/ LoseLease(w)
    BY <2>2 DEF Return, Read, Finish, Defer, BlockRun, FailRun, LoseLease
  <2>. QED
    BY <1>6, <2>1, <2>2 DEF End
<1>7. ASSUME NEW w \in Worker, Cancel(w) \/ Faulty(w) PROVE Goal
  BY <1>7 DEF Cancel, Finalize, ReconcileLocal, Faulty, Crash, OutputFails, ProviderFails,
              ProviderRefuses
<1>. QED
  BY <1>1, <1>2, <1>3, <1>4, <1>5, <1>6, <1>7 DEF Next, WorkerStep

LEMMA CallKeys ==
  ASSUME WellTyped
  PROVE  /\ \A t \in 1..Len(calls) :
              t \in Turn /\ TurnKey(t) \in Key /\ OutputKey(t) \in Key
              /\ calls[t] \in CallRow /\ calls[t].usage \in Nat
         /\ Len(calls) \in Nat
<1>1. Len(calls) \in Nat /\ Len(calls) <= MaxTurns /\ calls \in [1..Len(calls) -> CallRow]
  BY LenProperties DEF WellTyped, Types, RowTypes
<1>. QED
  BY <1>1, KeyTypes, SizesAssumption DEF Turn, CallRow

\* A charge settles one reserved row, or it changes nothing.
LEMMA ChargeStep ==
  ASSUME WellTyped, Charges
  PROVE  \E k \in Key, n \in Nat : Settle(k, n)
  BY CallKeys, KeyTypes DEF Charges, ChargesTurn, ChargesOutput, ChargesTool

\* settle_budget and release_budget leave a settled row as it is.
LEMMA SettledStays ==
  ASSUME WellTyped, [Next]_vars, NEW k \in Key, Settled(k)
  PROVE  Settled(k)' /\ row'[k] = row[k]
<1>0. row \in [Key -> Row]
  BY DEF WellTyped, Types, RowTypes
<1>1. CASE UNCHANGED rows
  BY <1>1 DEF rows, Settled
<1>2. CASE Reserves
  BY <1>0, <1>2 DEF Reserves, Reserve, Settled
<1>3. CASE Releases
  <2>1. PICK i \in Key : Release(i)
    BY <1>3 DEF Releases
  <2>2. row'[k] = row[k]
    BY <1>0, <2>1 DEF Release, Settled, Row
  <2>. QED
    BY <2>2 DEF Settled
<1>4. CASE ReleasesAll
  BY <1>0, <1>4 DEF ReleasesAll, Settled
<1>5. CASE Charges
  <2>1. PICK i \in Key, n \in Nat : Settle(i, n)
    BY <1>5, ChargeStep
  <2>2. row'[k] = row[k]
    BY <1>0, <2>1 DEF Settle, Settled, rows
  <2>. QED
    BY <2>2 DEF Settled
<1>. QED
  BY <1>1, <1>2, <1>3, <1>4, <1>5, BudgetStep

-----------------------------------------------------------------------------
(* The limit *)
\* One row more is reserved.
LEMMA TotalPlus ==
  ASSUME NEW r \in [Key -> Row], NEW q \in [Key -> Row], NEW k \in Key,
         r[k].status # "reserved", q[k].status = "reserved",
         \A i \in Key : i # k => q[i] = r[i]
  PROVE  /\ Total(q, k[2]) = Total(r, k[2]) + q[k].amount
         /\ \A d : d # k[2] => Total(q, d) = Total(r, d)
<1> DEFINE A == Amounts(r)
           B == Amounts(q)
<1>1. \A i \in Key : A[i] \in Nat /\ B[i] \in Nat /\ (i # k => A[i] = B[i])
  BY OpenIsFinite
<1>2. \A d : IsFiniteSet(Open(r, d)) /\ IsFiniteSet(Open(q, d)) /\ Open(r, d) \subseteq Key
             /\ Open(q, d) \subseteq Key
  BY OpenIsFinite
<1>3. B[k] = q[k].amount
  BY OpenIsFinite
<1>4. k \notin Open(r, k[2]) /\ k \in Open(q, k[2]) /\ Open(q, k[2]) \ {k} = Open(r, k[2])
  BY DEF Open
<1>5. \A d : d # k[2] => Open(q, d) = Open(r, d) /\ k \notin Open(r, d)
  BY DEF Open
<1> HIDE DEF A, B
<1>6. ASSUME NEW d, k \notin Open(r, d)
      PROVE  SumFunctionOnSet(B, Open(r, d)) = SumFunctionOnSet(A, Open(r, d))
  <2>1. \A x \in Open(r, d) : B[x] = A[x]
    BY <1>1, <1>2, <1>6
  <2>. QED
    BY <1>2, <2>1, SumAgree
<1>7. SumFunctionOnSet(B, Open(q, k[2])) = B[k] + SumFunctionOnSet(B, Open(q, k[2]) \ {k})
  <2>1. \A y \in Open(q, k[2]) : B[y] \in Nat
    BY <1>1, <1>2
  <2>. QED
    BY <1>2, <1>4, <2>1, SumElement
<1>8. Total(q, k[2]) = B[k] + Total(r, k[2])
  BY <1>4, <1>6, <1>7 DEF Total, A, B
<1>9. \A d : d # k[2] => Total(q, d) = Total(r, d)
  BY <1>5, <1>6 DEF Total, A, B
<1>10. Total(r, k[2]) \in Nat /\ B[k] \in Nat
  BY <1>1, TotalType
<1>. QED
  BY <1>3, <1>8, <1>9, <1>10

LEMMA LimitTypes ==
  ASSUME WellTyped
  PROVE  /\ row \in [Key -> Row] /\ used \in [Dimension -> Nat]
         /\ \A d \in Dimension : /\ Total(row, d) \in Nat /\ used[d] \in Nat
                                 /\ Limit[d] \in Nat
         /\ \A k \in Key : k[2] \in Dimension /\ row[k] \in Row /\ row[k].amount \in Nat
  BY TotalType, LimitAssumption DEF WellTyped, Types, RowTypes, Row, Key

LEMMA ReserveWithin ==
  ASSUME WellTyped, WellTyped', WithinLimit, Reserves
  PROVE  WithinLimit'
<1>1. PICK k \in Key, n \in Nat : Reserve(k, n) /\ used' = used
  BY DEF Reserves
<1>2. CASE row' = row
  BY <1>1, <1>2, ReservedIsTotal DEF WithinLimit
<1>3. CASE row' # row
  <2>1. /\ row[k].status = "none" /\ row' = [row EXCEPT ![k] = [status |-> "reserved", amount |-> n]]
        /\ used[k[2]] + Reserved(k[2]) + n <= Limit[k[2]]
    <3>1. row[k].status = "none" /\ Reserving(k, n) = "ok"
          /\ row' = [row EXCEPT ![k] = [status |-> "reserved", amount |-> n]]
      BY <1>1, <1>3 DEF Reserve
    <3>2. used[k[2]] + Reserved(k[2]) + n \in Nat /\ Limit[k[2]] \in Nat
      BY LimitTypes, ReservedIsTotal
    <3>. QED
      BY <3>1, <3>2 DEF Reserving
  <2>2. /\ row'[k].status = "reserved" /\ row'[k].amount = n
        /\ \A i \in Key : i # k => row'[i] = row[i]
    BY <2>1, LimitTypes
  <2>3. row' \in [Key -> Row] /\ row \in [Key -> Row]
    BY DEF WellTyped, Types, RowTypes
  <2>4. /\ Total(row', k[2]) = Total(row, k[2]) + n
        /\ \A d : d # k[2] => Total(row', d) = Total(row, d)
    BY <2>1, <2>2, <2>3, TotalPlus
  <2>5. ASSUME NEW d \in Dimension PROVE used'[d] + Total(row', d) <= Limit[d]
    <3>1. CASE d = k[2]
      BY <1>1, <2>1, <2>4, <3>1, LimitTypes, ReservedIsTotal
    <3>2. CASE d # k[2]
      BY <1>1, <2>4, <3>2, LimitTypes, ReservedIsTotal DEF WithinLimit
    <3>. QED
      BY <3>1, <3>2
  <2>. QED
    BY <2>5, ReservedIsTotal DEF WithinLimit
<1>. QED
  BY <1>2, <1>3

LEMMA ReleaseWithin ==
  ASSUME WellTyped, WellTyped', WithinLimit, Releases \/ ReleasesAll
  PROVE  WithinLimit'
<1>0. used' = used /\ row \in [Key -> Row] /\ row' \in [Key -> Row]
  BY DEF Releases, ReleasesAll, WellTyped, Types, RowTypes
<1> SUFFICES \A d \in Dimension : Total(row', d) <= Total(row, d)
  <2>1. \A d \in Dimension : Total(row', d) \in Nat
    BY <1>0, TotalType
  <2>. QED
    BY <1>0, <2>1, LimitTypes, ReservedIsTotal DEF WithinLimit
<1>1. CASE Releases
  <2>1. PICK k \in Key : Release(k)
    BY <1>1 DEF Releases
  <2>2. CASE row[k].status = "reserved"
    <3>1. row'[k].status = "released" /\ \A i \in Key : i # k => row[i] = row'[i]
      BY <1>0, <2>1, <2>2, LimitTypes DEF Release, Row
    <3>2. /\ Total(row, k[2]) = Total(row', k[2]) + row[k].amount
          /\ \A d : d # k[2] => Total(row, d) = Total(row', d)
      BY <1>0, <2>2, <3>1, TotalPlus
    <3>3. row[k].amount \in Nat /\ \A d : Total(row, d) \in Nat /\ Total(row', d) \in Nat
      BY <1>0, LimitTypes, TotalType
    <3>. QED
      BY <3>2, <3>3
  <2>3. CASE row[k].status # "reserved"
    <3>1. row' = row
      BY <1>0, <2>1, <2>3, LimitTypes DEF Release, Row
    <3>. QED
      BY <3>1, LimitTypes
  <2>. QED
    BY <2>2, <2>3
<1>2. CASE ReleasesAll
  <2>1. \A k \in Key : row'[k].status # "reserved"
    BY <1>0, <1>2, LimitTypes DEF ReleasesAll, Row
  <2>2. \A d \in Dimension : Total(row', d) = 0
    BY <2>1, SumEmpty DEF Total, Open
  <2>. QED
    BY <2>2, LimitTypes
<1>. QED
  BY <1>1, <1>2

LEMMA SettleWithin ==
  ASSUME WellTyped, WellTyped', WithinLimit, NEW k \in Key, NEW n \in Nat, Settle(k, n)
  PROVE  WithinLimit'
<1>0. row \in [Key -> Row] /\ row' \in [Key -> Row]
  BY DEF WellTyped, Types, RowTypes
<1>1. CASE UNCHANGED rows
  BY <1>1, ReservedIsTotal DEF WithinLimit, rows
<1>2. CASE /\ row[k].status = "reserved" /\ Settling(k, n) = "ok"
           /\ used' = [used EXCEPT ![k[2]] = @ + n]
           /\ row' = [row EXCEPT ![k].status = "settled"]
  <2>1. row'[k].status = "settled" /\ \A i \in Key : i # k => row[i] = row'[i]
    BY <1>0, <1>2, LimitTypes DEF Row
  <2>2. /\ Total(row, k[2]) = Total(row', k[2]) + row[k].amount
        /\ \A d : d # k[2] => Total(row, d) = Total(row', d)
    <3>1. row[k].status = "reserved" /\ row'[k].status # "reserved"
      BY <1>2, <2>1
    <3>. QED
      BY <1>0, <2>1, <3>1, TotalPlus
  <2>3. row[k].amount \in Nat /\ \A d : Total(row, d) \in Nat /\ Total(row', d) \in Nat
    BY <1>0, LimitTypes, TotalType
  <2>4. used[k[2]] + (Total(row, k[2]) - row[k].amount) + n <= Limit[k[2]]
    <3>1. used[k[2]] + (Total(row, k[2]) - row[k].amount) + n \in Int /\ Limit[k[2]] \in Int
      BY <2>3, LimitTypes
    <3>. QED
      BY <1>2, <3>1, ReservedIsTotal DEF Settling
  <2>5. /\ used'[k[2]] = used[k[2]] + n /\ used[k[2]] \in Nat
        /\ \A d \in Dimension : d # k[2] => used'[d] = used[d]
    BY <1>2, LimitTypes
  <2>6. ASSUME NEW d \in Dimension PROVE used'[d] + Total(row', d) <= Limit[d]
    <3>1. CASE d = k[2]
      BY <2>2, <2>3, <2>4, <2>5, <3>1
    <3>2. CASE d # k[2]
      BY <2>2, <2>5, <3>2, ReservedIsTotal DEF WithinLimit
    <3>. QED
      BY <3>1, <3>2
  <2>. QED
    BY <2>6, ReservedIsTotal DEF WithinLimit
<1>. QED
  BY <1>1, <1>2 DEF Settle

\* What is used and reserved in a dimension never exceeds its limit, whatever
\* the provider reports and however many workers begin the same turn.
THEOREM BudgetHolds == Spec => []WithinLimit
<1>1. Init => WithinLimit
  <2> SUFFICES ASSUME Init PROVE WithinLimit
    OBVIOUS
  <2>1. \A k \in Key : row[k].status # "reserved"
    BY DEF Init
  <2>2. \A d \in Dimension : Total(row, d) = 0 /\ used[d] = 0 /\ Limit[d] \in Nat
    BY <2>1, SumEmpty, LimitAssumption DEF Total, Open, Init
  <2>. QED
    BY <2>2, ReservedIsTotal DEF WithinLimit
<1>2. WellTyped /\ WithinLimit /\ [Next]_vars => WithinLimit'
  <2> SUFFICES ASSUME WellTyped, WithinLimit, [Next]_vars PROVE WithinLimit'
    OBVIOUS
  <2>1. WellTyped'
    BY StepKeeps
  <2>2. CASE UNCHANGED rows
    BY <2>2, ReservedIsTotal DEF WithinLimit, rows
  <2>3. CASE Charges
    BY <2>1, <2>3, ChargeStep, SettleWithin
  <2>. QED
    BY <2>1, <2>2, <2>3, BudgetStep, ReserveWithin, ReleaseWithin
<1>. QED
  BY <1>1, <1>2, WellTypedAlways, PTL DEF Spec
-----------------------------------------------------------------------------
(* Answers and operations are paid for once *)

\* An output is settled only for a turn that has been answered.
SettledAnswered ==
  \A t \in Turn : Settled(OutputKey(t)) => t \in 1..Len(calls) /\ calls[t].status # "started"

LEMMA KeysDiffer ==
  /\ \A t \in Turn, u \in Turn : TurnKey(t) # OutputKey(u) /\ (OutputKey(t) = OutputKey(u) => t = u)
  /\ \A t \in Turn, o \in Op : TurnKey(t) # ToolKey(o) /\ OutputKey(t) # ToolKey(o)
  /\ \A o \in Op, p \in Op : ToolKey(o) = ToolKey(p) => o = p
  /\ \A t \in Turn : TurnKey(t)[2] = "model_turn" /\ OutputKey(t)[2] = "output_tokens"
  /\ \A o \in Op : ToolKey(o)[2] = "tool_call"
  BY DEF TurnKey, OutputKey, ToolKey, Op

\* settle_budget: nothing changes, or one reserved row is settled and charged.
LEMMA SettleCases ==
  ASSUME WellTyped, NEW k \in Key, NEW n \in Nat, Settle(k, n)
  PROVE  \/ row' = row /\ used' = used
         \/ /\ row[k].status = "reserved" /\ row'[k].status = "settled"
            /\ \A i \in Key : i # k => row'[i] = row[i]
            /\ used'[k[2]] = used[k[2]] + n
            /\ \A d \in Dimension : d # k[2] => used'[d] = used[d]
  BY LimitTypes DEF Settle, Row, rows

\* Which rows a step settles.
LEMMA OnlyChargesSettle ==
  ASSUME WellTyped, NEW k \in Key, UNCHANGED rows \/ Reserves \/ Releases \/ ReleasesAll
  PROVE  used' = used /\ (Settled(k)' <=> Settled(k))
<1>0. row \in [Key -> Row]
  BY DEF WellTyped, Types, RowTypes
<1>1. CASE UNCHANGED rows
  BY <1>1 DEF rows, Settled
<1>2. CASE Reserves
  BY <1>0, <1>2 DEF Reserves, Reserve, Settled
<1>3. CASE Releases
  <2>1. PICK i \in Key : Release(i) /\ used' = used
    BY <1>3 DEF Releases
  <2>2. row[i] \in Row
    BY <1>0
  <2>. QED
    BY <1>0, <2>1, <2>2 DEF Release, Settled, Row
<1>4. CASE ReleasesAll
  <2>1. row[k] \in Row
    BY <1>0
  <2>. QED
    BY <1>4, <2>1 DEF ReleasesAll, Settled, Row
<1>. QED
  BY <1>1, <1>2, <1>3, <1>4

LEMMA SettledAnsweredStep ==
  ASSUME WellTyped, SettledAnswered, [Next]_vars
  PROVE  SettledAnswered'
<1> SUFFICES ASSUME NEW t \in Turn, Settled(OutputKey(t))'
             PROVE  t \in 1..Len(calls') /\ calls'[t].status # "started"
  BY DEF SettledAnswered
<1>0. OutputKey(t) \in Key /\ Grows
  BY KeyTypes, StepKeeps
<1>1. CASE Settled(OutputKey(t))
  <2>1. Len(calls) \in Nat /\ Len(calls') \in Nat
    BY StepKeeps, CallKeys
  <2>. QED
    BY <1>0, <1>1, <2>1 DEF SettledAnswered, Grows
<1>2. CASE ~Settled(OutputKey(t))
  <2>1. Charges
    BY <1>0, <1>2, BudgetStep, OnlyChargesSettle
  <2>2. ASSUME NEW k \in Key, NEW n \in Nat, Settle(k, n) PROVE k = OutputKey(t)
    BY <1>0, <1>2, <2>2, SettleCases DEF Settled
  <2>3. ChargesOutput
    <3>1. \A u \in 1..Len(calls) : TurnKey(u) # OutputKey(t) /\ TurnKey(u) \in Key
      BY CallKeys, KeysDiffer
    <3>2. \A o \in Op : ToolKey(o) # OutputKey(t) /\ ToolKey(o) \in Key
      BY KeyTypes, KeysDiffer
    <3>. QED
      BY <2>1, <2>2, <3>1, <3>2 DEF Charges, ChargesTurn, ChargesTool
  <2>4. PICK u \in 1..Len(calls) : calls[u].status # "started" /\ OutputKey(u) = OutputKey(t)
    BY <2>2, <2>3, CallKeys DEF ChargesOutput
  <2>5. u = t
    BY <2>4, CallKeys, KeysDiffer
  <2>. QED
    BY <2>1, <2>4, <2>5 DEF Charges
<1>. QED
  BY <1>1, <1>2

\* SettledAnswered: an output is paid for only when the turn has been answered,
\* whatever crashed or was taken over before the charge.
THEOREM OutputsAreAnswered == Spec => []SettledAnswered
<1>1. Init => SettledAnswered
  BY KeyTypes DEF Init, SettledAnswered, Settled
<1>2. WellTyped /\ SettledAnswered /\ [Next]_vars => SettledAnswered'
  BY SettledAnsweredStep
<1>. QED
  BY <1>1, <1>2, WellTypedAlways, PTL DEF Spec

\* What the answers that are paid for were charged.
Usages == [t \in DOMAIN calls |-> calls[t].usage]
PaidAnswers == {t \in DOMAIN calls : Settled(OutputKey(t))}
PaidOps == {o \in Op : Settled(ToolKey(o))}

LEMMA ChargedOnceIs ==
  /\ ChargedOnce <=> /\ used["output_tokens"] = SumFunctionOnSet(Usages, PaidAnswers)
                     /\ used["tool_call"] = Cardinality(PaidOps)
  /\ ChargedOnce' <=> /\ used'["output_tokens"] = SumFunctionOnSet(Usages', PaidAnswers')
                      /\ used'["tool_call"] = Cardinality(PaidOps')
  BY DEF ChargedOnce, Usages, PaidAnswers, PaidOps, Settled

LEMMA CallDomain ==
  ASSUME WellTyped
  PROVE  DOMAIN calls = 1..Len(calls) /\ Len(calls) \in Nat
  BY LenProperties DEF WellTyped, Types, RowTypes

PaidTypes ==
  /\ IsFiniteSet(PaidAnswers) /\ IsFiniteSet(PaidOps)
  /\ \A t \in PaidAnswers : t \in Turn /\ Usages[t] \in Nat /\ Usages[t] = calls[t].usage

LEMMA PaidAreFinite == WellTyped => PaidTypes
<1> SUFFICES ASSUME WellTyped PROVE PaidTypes
  OBVIOUS
<1>1. IsFiniteSet(1..Len(calls)) /\ PaidAnswers \subseteq 1..Len(calls)
  BY CallDomain, FS_Interval DEF PaidAnswers
<1>2. IsFiniteSet(Op)
  <2>1. IsFiniteSet(Turn) /\ IsFiniteSet(Slot)
    BY FS_Interval, SizesAssumption DEF Turn, Slot
  <2>. QED
    BY <2>1, FS_Product DEF Op
<1>3. PaidOps \subseteq Op
  BY DEF PaidOps
<1>4. \A t \in 1..Len(calls) : t \in Turn /\ Usages[t] \in Nat /\ Usages[t] = calls[t].usage
  BY CallDomain, CallKeys DEF Usages
<1>. QED
  BY <1>1, <1>2, <1>3, <1>4, FS_Subset DEF PaidTypes

\* The paid answers keep their usage.
LEMMA UsagesStay ==
  ASSUME WellTyped, WellTyped', SettledAnswered, Grows
  PROVE  \A t \in PaidAnswers : t \in DOMAIN calls' /\ Usages'[t] = Usages[t]
<1> SUFFICES ASSUME NEW t \in PaidAnswers PROVE t \in DOMAIN calls' /\ Usages'[t] = Usages[t]
  OBVIOUS
<1>1. t \in 1..Len(calls) /\ calls[t].status # "started"
  BY PaidAreFinite DEF PaidTypes, SettledAnswered, PaidAnswers
<1>2. DOMAIN calls' = 1..Len(calls') /\ Len(calls') \in Nat /\ Len(calls) \in Nat
      /\ DOMAIN calls = 1..Len(calls)
  BY CallDomain
<1>3. t \in DOMAIN calls' /\ calls'[t].usage = calls[t].usage
  BY <1>1, <1>2 DEF Grows
<1>. QED
  BY <1>1, <1>2, <1>3 DEF Usages

LEMMA ChargedOnceStep ==
  ASSUME WellTyped, SettledAnswered, ChargedOnce, [Next]_vars
  PROVE  ChargedOnce'
<1>0. WellTyped' /\ Grows /\ SettledAnswered'
  BY StepKeeps, SettledAnsweredStep
<1>8. PaidTypes /\ PaidTypes'
  BY <1>0, PaidAreFinite, PTL
<1>1. \A t \in PaidAnswers : t \in DOMAIN calls' /\ Usages'[t] = Usages[t]
  BY <1>0, UsagesStay
<1>2. SumFunctionOnSet(Usages', PaidAnswers) = SumFunctionOnSet(Usages, PaidAnswers)
  <2>1. IsFiniteSet(PaidAnswers)
    BY <1>8 DEF PaidTypes
  <2>. QED
    BY <1>1, <2>1, SumAgree
<1>3. DOMAIN calls' = 1..Len(calls') /\ DOMAIN calls = 1..Len(calls)
      /\ Len(calls) \in Nat /\ Len(calls') \in Nat /\ Len(calls') <= MaxTurns
  BY <1>0, CallDomain DEF WellTyped, Types, RowTypes
<1>4. ASSUME NEW t \in Turn, Settled(OutputKey(t))' <=> Settled(OutputKey(t))
      PROVE  t \in PaidAnswers' <=> t \in PaidAnswers
  BY <1>0, <1>3, <1>4 DEF PaidAnswers, SettledAnswered
<1>5. PaidAnswers \subseteq Turn /\ PaidAnswers' \subseteq Turn
  BY <1>8 DEF PaidTypes
<1>6. CASE UNCHANGED rows \/ Reserves \/ Releases \/ ReleasesAll
  <2>1. PaidAnswers' = PaidAnswers
    <3>1. \A t \in Turn : Settled(OutputKey(t))' <=> Settled(OutputKey(t))
      BY <1>6, KeyTypes, OnlyChargesSettle
    <3>. QED
      BY <1>4, <1>5, <3>1
  <2>2. PaidOps' = PaidOps
    BY <1>6, KeyTypes, OnlyChargesSettle DEF PaidOps
  <2>3. used' = used
    BY <1>6 DEF rows, Reserves, Releases, ReleasesAll
  <2>. QED
    BY <1>2, <2>1, <2>2, <2>3, ChargedOnceIs
<1>7. CASE Charges
  <2>1. CASE UNCHANGED rows
    BY <1>6, <2>1
  <2>2. CASE ~UNCHANGED rows /\ ChargesTurn
    <3>1. PICK u \in 1..Len(calls) : Settle(TurnKey(u), 1)
      BY <2>2 DEF ChargesTurn
    <3>2. TurnKey(u) \in Key /\ u \in Turn
      BY CallKeys
    <3>3. PICK k \in Key : k = TurnKey(u) /\ Settle(k, 1)
      BY <3>1, <3>2
    <3>4. /\ \A i \in Key : i # k => row'[i] = row[i]
          /\ k[2] = "model_turn" /\ \A d \in Dimension : d # k[2] => used'[d] = used[d]
      BY <2>2, <3>2, <3>3, SettleCases, KeysDiffer DEF rows
    <3>5. PaidAnswers' = PaidAnswers
      <4>1. \A t \in Turn : Settled(OutputKey(t))' <=> Settled(OutputKey(t))
        BY <3>2, <3>3, <3>4, KeyTypes, KeysDiffer DEF Settled
      <4>. QED
        BY <1>4, <1>5, <4>1
    <3>6. PaidOps' = PaidOps
      BY <3>2, <3>3, <3>4, KeyTypes, KeysDiffer DEF Settled, PaidOps
    <3>7. used'["output_tokens"] = used["output_tokens"] /\ used'["tool_call"] = used["tool_call"]
      BY <3>4 DEF Dimension
    <3>. QED
      BY <1>2, <3>5, <3>6, <3>7, ChargedOnceIs
  <2>3. CASE ~UNCHANGED rows /\ ChargesOutput
    <3>1. PICK u \in 1..Len(calls) :
            calls[u].status # "started" /\ Settle(OutputKey(u), calls[u].usage)
      BY <2>3 DEF ChargesOutput
    <3>2. OutputKey(u) \in Key /\ u \in Turn /\ calls[u].usage \in Nat
      BY CallKeys
    <3>3. PICK k \in Key, n \in Nat : k = OutputKey(u) /\ n = calls[u].usage /\ Settle(k, n)
      BY <3>1, <3>2
    <3>4. /\ row[k].status = "reserved" /\ row'[k].status = "settled"
          /\ \A i \in Key : i # k => row'[i] = row[i]
          /\ k[2] = "output_tokens" /\ used'[k[2]] = used[k[2]] + n
          /\ \A d \in Dimension : d # k[2] => used'[d] = used[d]
      BY <2>3, <3>2, <3>3, SettleCases, KeysDiffer DEF rows
    <3>5. PaidAnswers' = PaidAnswers \cup {u} /\ u \notin PaidAnswers
      <4>1. \A t \in Turn : t # u => (Settled(OutputKey(t))' <=> Settled(OutputKey(t)))
        BY <3>2, <3>3, <3>4, KeyTypes, KeysDiffer DEF Settled
      <4>2. calls' = calls
        BY <1>7 DEF Charges
      <4>3. u \in PaidAnswers' /\ u \notin PaidAnswers
        BY <1>3, <3>3, <3>4, <4>2 DEF PaidAnswers, Settled, OutputKey
      <4>. QED
        BY <1>4, <1>5, <3>2, <4>1, <4>3
    <3>6. PaidOps' = PaidOps
      BY <3>2, <3>3, <3>4, KeyTypes, KeysDiffer DEF Settled, PaidOps
    <3>7. used'["output_tokens"] = used["output_tokens"] + n /\ used'["tool_call"] = used["tool_call"]
      BY <3>4 DEF Dimension
    <3>8. Usages'[u] = n
      BY <1>3, <1>7, <3>3 DEF Charges, Usages
    <3>9. SumFunctionOnSet(Usages', PaidAnswers') =
            Usages'[u] + SumFunctionOnSet(Usages', PaidAnswers' \ {u})
      <4>1. IsFiniteSet(PaidAnswers') /\ \A t \in PaidAnswers' : Usages'[t] \in Nat
        BY <1>8 DEF PaidTypes
      <4>. QED
        BY <3>5, <4>1, SumElement
    <3>10. PaidAnswers' \ {u} = PaidAnswers
      BY <3>5
    <3>11. SumFunctionOnSet(Usages', PaidAnswers') = n + SumFunctionOnSet(Usages, PaidAnswers)
      BY <1>2, <3>8, <3>9, <3>10
    <3>12. used["output_tokens"] \in Nat
      BY LimitTypes DEF Dimension
    <3>. QED
      BY <3>3, <3>6, <3>7, <3>11, <3>12, ChargedOnceIs
  <2>4. CASE ~UNCHANGED rows /\ ChargesTool
    <3>1. PICK u \in Op : Settle(ToolKey(u), 1)
      BY <2>4 DEF ChargesTool
    <3>2. ToolKey(u) \in Key
      BY KeyTypes
    <3>3. PICK k \in Key : k = ToolKey(u) /\ Settle(k, 1)
      BY <3>1, <3>2
    <3>4. /\ row[k].status = "reserved" /\ row'[k].status = "settled"
          /\ \A i \in Key : i # k => row'[i] = row[i]
          /\ k[2] = "tool_call" /\ used'[k[2]] = used[k[2]] + 1
          /\ \A d \in Dimension : d # k[2] => used'[d] = used[d]
      BY <2>4, <3>3, SettleCases, KeysDiffer DEF rows
    <3>5. PaidAnswers' = PaidAnswers
      <4>1. \A t \in Turn : Settled(OutputKey(t))' <=> Settled(OutputKey(t))
        BY <3>3, <3>4, KeyTypes, KeysDiffer DEF Settled
      <4>. QED
        BY <1>4, <1>5, <4>1
    <3>6. PaidOps' = PaidOps \cup {u} /\ u \notin PaidOps
      <4>1. \A o \in Op : o # u => (Settled(ToolKey(o))' <=> Settled(ToolKey(o)))
        BY <3>3, <3>4, KeyTypes, KeysDiffer DEF Settled
      <4>2. Settled(ToolKey(u))' /\ ~Settled(ToolKey(u))
        BY <3>3, <3>4 DEF Settled, ToolKey
      <4>. QED
        BY <4>1, <4>2 DEF PaidOps
    <3>7. used'["output_tokens"] = used["output_tokens"] /\ used'["tool_call"] = used["tool_call"] + 1
      BY <3>4 DEF Dimension
    <3>8. Cardinality(PaidOps') = Cardinality(PaidOps) + 1
      BY <1>8, <3>6, FS_AddElement DEF PaidTypes
    <3>. QED
      BY <1>2, <3>5, <3>7, <3>8, ChargedOnceIs
  <2>. QED
    BY <1>7, <2>1, <2>2, <2>3, <2>4 DEF Charges
<1>. QED
  BY <1>6, <1>7, BudgetStep

\* Each answer and each operation is charged once, however often a worker
\* repeats the settlement of a turn another one has begun to settle.
THEOREM ChargesAreExact == Spec => []ChargedOnce
<1>1. Init => ChargedOnce
  <2> SUFFICES ASSUME Init PROVE ChargedOnce
    OBVIOUS
  <2>1. PaidAnswers = {} /\ PaidOps = {}
    BY KeyTypes DEF Init, PaidAnswers, PaidOps, Settled
  <2>2. used["output_tokens"] = 0 /\ used["tool_call"] = 0
    BY DEF Init, Dimension
  <2>. QED
    BY <2>1, <2>2, ChargedOnceIs, SumEmpty, FS_EmptySet
<1>2. WellTyped /\ SettledAnswered /\ ChargedOnce /\ [Next]_vars => ChargedOnce'
  BY ChargedOnceStep
<1>. QED
  BY <1>1, <1>2, WellTypedAlways, OutputsAreAnswered, PTL DEF Spec
-----------------------------------------------------------------------------
(* What a step does to the model calls *)

\* begin_model_call opens the call of the next turn.
Opens(w) ==
  /\ pc[w] = "begin" /\ Fenced(w) /\ run = "running" /\ at[w].turn = Len(calls) + 1
  /\ Len(calls') = Len(calls) + 1 /\ calls'[Len(calls) + 1].status = "started"
  /\ \A t \in 1..Len(calls) : calls'[t] = calls[t]
  /\ UNCHANGED <<run, jobs, rows, opVars, at>> /\ pc'[w] = "generate"

\* complete_model_call commits the answer of an open call.
Answers(w, t) ==
  /\ pc[w] = "commit" /\ Fenced(w) /\ at[w].turn = t /\ calls[t].status = "started"
  /\ Len(calls') = Len(calls) /\ calls'[t].status = "response_committed"
  /\ \A u \in 1..Len(calls) : u # t => calls'[u] = calls[u]
  /\ UNCHANGED <<run, jobs, rows, opVars, at>> /\ pc'[w] = "settle_turn"

\* mark_model_call closes an answered one.
Closes(w, t) ==
  /\ pc[w] \in {"reject", "stall", "processed"} /\ Fenced(w) /\ at[w].turn = t
  /\ calls[t].status = "response_committed" /\ Len(calls') = Len(calls)
  /\ calls'[t].status = IF pc[w] = "processed" THEN "processed" ELSE "invalid"
  /\ calls'[t].answer = calls[t].answer
  /\ \A u \in 1..Len(calls) : u # t => calls'[u] = calls[u]
  /\ UNCHANGED <<run, jobs, rows, opVars, at>>
  /\ pc'[w] \in {"repairs", "fail", "return", "block"}

WritesCall(w) == Opens(w) \/ \E t \in 1..Len(calls) : Answers(w, t) \/ Closes(w, t)

LEMMA BeginCallWrites ==
  ASSUME WellTyped, NEW w \in Worker, BeginCall(w)
  PROVE  IF run = "running" /\ at[w].turn > Len(calls) THEN Opens(w) ELSE calls' = calls
<1>1. CASE ~(run = "running" /\ at[w].turn > Len(calls))
  BY <1>1 DEF BeginCall
<1>2. CASE run = "running" /\ at[w].turn > Len(calls)
  <2>0. /\ pc[w] = "begin" /\ at[w].turn \in 1..MaxTurns
        /\ at[w].turn <= Len(calls) + 1 /\ at[w].amount \in Nat
    BY LocalFacts DEF BeginCall, At, HoldsAt, TurnSteps, Local
  <2> DEFINE e == [status |-> "started", amount |-> at[w].amount,
                   answer |-> <<"none", 0>>, usage |-> 0]
  <2>1. calls' = Append(calls, e) /\ run = "running" /\ at[w].turn > Len(calls) /\ Fenced(w)
        /\ UNCHANGED <<run, jobs, rows, opVars, at>> /\ pc'[w] = "generate"
    BY <1>2, GotoStep DEF BeginCall, At, FencedStep
  <2>2. e \in CallRow /\ e.status = "started"
    BY <2>0 DEF CallRow, NoAnswer
  <2>3. calls \in Seq(CallRow) /\ Len(calls) \in Nat
    BY LenProperties DEF WellTyped, Types, RowTypes
  <2> HIDE DEF e
  <2>4. /\ Len(calls') = Len(calls) + 1 /\ calls'[Len(calls) + 1] = e
        /\ \A t \in 1..Len(calls) : calls'[t] = calls[t]
    BY <2>1, <2>2, <2>3, AppendProperties
  <2>5. at[w].turn = Len(calls) + 1
    BY <2>0, <2>1, <2>3, SizesAssumption
  <2>. QED
    BY <2>0, <2>1, <2>2, <2>4, <2>5 DEF Opens
<1>. QED
  BY <1>1, <1>2

LEMMA CommitCallWrites ==
  ASSUME WellTyped, NEW w \in Worker, CommitCall(w)
  PROVE  /\ at[w].turn \in 1..Len(calls)
         /\ IF Call(w).status = "started" THEN Answers(w, at[w].turn) ELSE calls' = calls
<1> DEFINE u == at[w].turn
<1>0. pc[w] = "commit" /\ u \in 1..Len(calls)
  BY LocalFacts DEF CommitCall, At, HoldsAt, CallSteps
<1>1. CASE calls[u].status # "started"
  BY <1>0, <1>1 DEF CommitCall, Call
<1>2. CASE calls[u].status = "started"
  <2>1. PICK a \in Answer, n \in Usage :
          calls' = [calls EXCEPT ![u].status = "response_committed",
                                 ![u].answer = a, ![u].usage = n]
    BY <1>2 DEF CommitCall, Call
  <2> DEFINE e == [[[calls[u] EXCEPT !.status = "response_committed"]
                     EXCEPT !.answer = a] EXCEPT !.usage = n]
  <2>2. calls' = [calls EXCEPT ![u] = e]
    BY <2>1
  <2>3. calls[u] \in CallRow /\ calls \in Seq(CallRow)
    BY <1>0, ElementOfSeq DEF WellTyped, Types, RowTypes
  <2>4. n \in Nat
    BY SizesAssumption
  <2>5. e \in CallRow /\ e.status = "response_committed"
    BY <2>3, <2>4 DEF CallRow
  <2> HIDE DEF e
  <2>6. /\ Len(calls') = Len(calls) /\ calls'[u] = e
        /\ \A t \in 1..Len(calls) : t # u => calls'[t] = calls[t]
    BY <1>0, <2>2, <2>3, <2>5, SeqRow
  <2>7. /\ UNCHANGED <<run, jobs, rows, opVars, at>> /\ pc'[w] = "settle_turn"
        /\ Fenced(w)
    BY GotoStep DEF CommitCall, At, FencedStep
  <2>. QED
    BY <1>0, <1>2, <2>5, <2>6, <2>7 DEF Answers, Call
<1>. QED
  BY <1>1, <1>2

LEMMA MarkWrites ==
  ASSUME WellTyped, NEW w \in Worker, pc[w] \in {"reject", "stall", "processed"}, Fenced(w),
         Mark(w, IF pc[w] = "processed" THEN "processed" ELSE "invalid"),
         pc'[w] \in {"repairs", "fail", "return", "block"},
         UNCHANGED <<run, jobs, rows, opVars, at>>
  PROVE  calls' = calls \/ \E t \in 1..Len(calls) : Closes(w, t)
<1> DEFINE u == at[w].turn
           s == IF pc[w] = "processed" THEN "processed" ELSE "invalid"
<1>0. u \in 1..Len(calls) /\ calls[u] \in CallRow /\ calls \in Seq(CallRow)
  BY AnswerTurn DEF AnswerSteps, Call, WellTyped, Types, RowTypes
<1>1. CASE calls[u].status # "response_committed"
  BY <1>1 DEF Mark, Call
<1>2. CASE calls[u].status = "response_committed"
  <2> DEFINE e == [calls[u] EXCEPT !.status = s]
  <2>1. calls' = [calls EXCEPT ![u] = e]
    BY <1>2 DEF Mark, Call
  <2>2. e \in CallRow /\ e.status = s /\ e.answer = calls[u].answer
    BY <1>0 DEF CallRow
  <2> HIDE DEF e
  <2>3. /\ Len(calls') = Len(calls) /\ calls'[u] = e
        /\ \A t \in 1..Len(calls) : t # u => calls'[t] = calls[t]
    BY <1>0, <2>1, <2>2, SeqRow
  <2>. QED
    BY <1>0, <1>2, <2>2, <2>3 DEF Closes
<1>. QED
  BY <1>1, <1>2

\* The calls change only when one is opened, answered or closed.
LEMMA CallStep ==
  ASSUME WellTyped, [Next]_vars
  PROVE  calls' = calls \/ \E w \in Worker : WritesCall(w)
<1> DEFINE Goal == calls' = calls \/ \E w \in Worker : WritesCall(w)
<1>1. CASE User \/ UNCHANGED vars
  BY <1>1 DEF User, RequestCancellation, RespondAnswer, vars
<1>2. ASSUME NEW w \in Worker, NEW j \in DOMAIN jobs, Claim(w, j) PROVE Goal
  BY <1>2 DEF Claim
<1>3. ASSUME NEW w \in Worker, Begin(w) PROVE Goal
  <2>1. CASE BeginCall(w) \/ CommitCall(w)
    BY <2>1, BeginCallWrites, CommitCallWrites DEF WritesCall
  <2>2. CASE Observe(w) \/ Latest(w) \/ NextTurn(w) \/ Quota(w) \/ Generate(w)
    BY <2>2 DEF Observe, Latest, NextTurn, Quota, Generate, Read
  <2>3. CASE Ensure(w) \/ ReserveTurn(w) \/ ReserveOutput(w) \/ ReleaseTurn(w)
    BY <2>3 DEF Ensure, ReserveTurn, ReserveOutput, ReleaseTurn
  <2>4. CASE SettleTurn(w) \/ SettleOutput(w)
    BY <2>4 DEF SettleTurn, SettleOutput, SettleUsage
  <2>. QED
    BY <1>3, <2>1, <2>2, <2>3, <2>4 DEF Begin
<1>4. ASSUME NEW w \in Worker, ProcessAnswer(w) PROVE Goal
  <2>1. CASE Reject(w, "reject", "repairs") \/ Reject(w, "stall", "fail") \/ MarkProcessed(w)
    <3>1. /\ pc[w] \in {"reject", "stall", "processed"} /\ Fenced(w)
          /\ Mark(w, IF pc[w] = "processed" THEN "processed" ELSE "invalid")
          /\ UNCHANGED <<run, jobs, rows, opVars, at>>
      BY <2>1 DEF Reject, MarkProcessed, At, FencedStep
    <3>2. pc'[w] \in {"repairs", "fail", "return", "block"}
      BY <2>1, GotoStep DEF Reject, MarkProcessed
    <3>. QED
      BY <3>1, <3>2, MarkWrites DEF WritesCall
  <2>2. CASE Process(w) \/ Repairs(w) \/ Verify(w)
    BY <2>2 DEF Process, Repairs, Verify, Read
  <2>3. CASE Ask(w) \/ Record(w)
    BY <2>3 DEF Ask, Record
  <2>. QED
    BY <1>4, <2>1, <2>2, <2>3 DEF ProcessAnswer
<1>5. ASSUME NEW w \in Worker, Operate(w) PROVE Goal
  BY <1>5 DEF Operate, ReserveTool, AdmitOp, RefuseOp, StartOp, DispatchOp, ExecuteOp,
              CompleteOp, SettleTool
<1>6. ASSUME NEW w \in Worker, End(w) \/ Cancel(w) PROVE Goal
  BY <1>6 DEF End, Return, Read, Finish, Defer, BlockRun, FailRun, TerminateRun, LoseLease,
              Cancel, Finalize, ReconcileLocal
<1>7. ASSUME NEW w \in Worker, Faulty(w) PROVE Goal
  BY <1>7 DEF Faulty, Crash, OutputFails, ProviderFails, ProviderRefuses
<1>. QED
  BY <1>1, <1>2, <1>3, <1>4, <1>5, <1>6, <1>7 DEF Next, WorkerStep

\* Whichever workers decide at the same time, whichever of them crash and
\* whatever the provider tells a second attempt, the first answer committed for
\* a turn is the answer of the turn, and a closed turn never changes.
THEOREM AnswersStay == Spec => AnswerIsCommittedOnce
<1> DEFINE Kept == \A t \in DOMAIN calls :
             /\ calls[t].status # "started" => calls'[t].answer = calls[t].answer
             /\ calls[t].status \in {"processed", "invalid"} => calls'[t] = calls[t]
<1>1. WellTyped /\ [Next]_vars => [Kept]_calls
  <2> SUFFICES ASSUME WellTyped, [Next]_vars, calls' # calls PROVE Kept
    OBVIOUS
  <2>1. PICK w \in Worker : WritesCall(w)
    BY CallStep
  <2>2. DOMAIN calls = 1..Len(calls)
    BY CallDomain
  <2>. QED
    BY <2>1, <2>2 DEF WritesCall, Opens, Answers, Closes
<1>. QED
  BY <1>1, WellTypedAlways, PTL DEF Spec, AnswerIsCommittedOnce
-----------------------------------------------------------------------------
(* Turns and operations are paid for before they are closed *)

\* What is paid for stays paid for, and an answer stays the same.
LEMMA PaidStays ==
  ASSUME WellTyped, [Next]_vars, NEW s \in Steps, NEW l \in Local, PaidAt(s, l),
         s \in AnswerSteps => l.turn \in 1..Len(calls) /\ calls[l.turn].status # "started"
  PROVE  PaidAt(s, l)'
<1>1. CASE s \notin AnswerSteps
  BY <1>1 DEF PaidAt, Processing, AnswerSteps
<1>2. CASE s \in AnswerSteps
  <2>1. l.turn \in 1..Len(calls) /\ calls[l.turn].status # "started"
    BY <1>2
  <2>2. Proposed(l.turn)' = Proposed(l.turn)
    BY <2>1, StepKeeps DEF Grows, Proposed
  <2>3. l.turn \in Turn /\ TurnKey(l.turn) \in Key /\ OutputKey(l.turn) \in Key
    BY <2>1, CallKeys
  <2>4. \A k \in Key : Settled(k) => Settled(k)'
    BY SettledStays
  <2>5. \A i \in Slot : ToolKey(<<l.turn, i>>) \in Key
    BY <2>3, KeyTypes DEF Op
  <2>6. \A n : ToolsSettled(l.turn, n) => ToolsSettled(l.turn, n)'
    BY <2>4, <2>5 DEF ToolsSettled
  <2>. QED
    BY <2>2, <2>3, <2>4, <2>6 DEF PaidAt
<1>. QED
  BY <1>1, <1>2

\* A worker whose next step is paid for before its step.
LEMMA PaidMoves ==
  ASSUME WellTyped, [Next]_vars, NEW w \in Worker, NEW s \in Steps, NEW l \in Local,
         pc'[w] = s, at'[w] = l, HoldsAt(s, l), PaidAt(s, l)
  PROVE  Paid(w)'
<1>1. PaidAt(s, l)'
  BY PaidStays DEF HoldsAt
<1>. QED
  BY <1>1 DEF Paid, PaidAt

LEMMA NothingToPay ==
  ASSUME NEW w \in Worker, pc'[w] \notin AnswerSteps \ {"settle_turn"}
  PROVE  Paid(w)'
  BY DEF Paid, PaidAt, Processing, AnswerSteps, SlotSteps

\* settle_budget succeeds: the row is settled.
LEMMA SettleSettles ==
  ASSUME WellTyped, NEW k \in Key, NEW n \in Nat, Settle(k, n), Settling(k, n) = "ok"
  PROVE  Settled(k)'
<1>1. row \in [Key -> Row] /\ row[k] \in Row
  BY DEF WellTyped, Types, RowTypes
<1>2. row[k].status \in {"reserved", "settled"}
  BY DEF Settling
<1>. QED
  BY <1>1, <1>2 DEF Settle, Settled, rows, Row

\* _settle_model_usage goes on only when the row is settled.
LEMMA SettleUsagePays ==
  ASSUME WellTyped, NEW w \in Worker, NEW k \in Key, NEW n \in Nat, NEW found \in Outcomes,
         NEW next, SettleUsage(w, k, n, found, next)
  PROVE  /\ at'[w] = at[w]
         /\ \/ pc'[w] \in {"block", "exhausted"}
            \/ pc'[w] = next /\ Settled(k)'
<1>0. at' = at /\ Settling(k, n) \in Outcomes
  BY SettleType DEF SettleUsage, WellTyped, Types
<1>1. CASE found # "ok"
  <2>1. Goto(w, found)
    BY <1>1 DEF SettleUsage
  <2>. QED
    BY <1>0, <1>1, <2>1, GotoStep DEF Outcomes
<1>2. CASE found = "ok" /\ Settling(k, n) # "ok"
  <2>1. Goto(w, Settling(k, n))
    BY <1>2 DEF SettleUsage
  <2>2. pc'[w] = Settling(k, n)
    BY <2>1, GotoStep
  <2>. QED
    BY <1>0, <1>2, <2>2 DEF Outcomes
<1>3. CASE found = "ok" /\ Settling(k, n) = "ok"
  <2>1. Goto(w, next) /\ Settle(k, n)
    BY <1>3 DEF SettleUsage
  <2>. QED
    BY <1>0, <1>3, <2>1, GotoStep, SettleSettles
<1>. QED
  BY <1>1, <1>2, <1>3

LEMMA SettleTurnPaid ==
  ASSUME WellTyped, [Next]_vars, NEW w \in Worker, Paid(w), SettleTurn(w)
  PROVE  Paid(w)'
<1>1. /\ TurnKey(at[w].turn) \in Key /\ OutputKey(at[w].turn) \in Key
      /\ Call(w).amount \in Nat
  BY AnswerTurn, KeyTypes DEF SettleTurn, At, AnswerSteps, CallRow
<1>2. \A i \in Key, n \in Nat : Reserving(i, n) \in Outcomes
  BY ReserveType DEF WellTyped, Types
<1>3. PICK k \in Key : k = TurnKey(at[w].turn)
  BY <1>1
<1>4. PICK found \in Outcomes : SettleUsage(w, k, 1, found, "settle_output")
  BY <1>1, <1>2, <1>3 DEF SettleTurn
<1>5. /\ at'[w] = at[w]
      /\ pc'[w] \in {"block", "exhausted"} \/ (pc'[w] = "settle_output" /\ Settled(k)')
  BY <1>4, SettleUsagePays
<1>6. CASE pc'[w] \in {"block", "exhausted"}
  BY <1>6, NothingToPay DEF AnswerSteps, SlotSteps
<1>7. CASE pc'[w] = "settle_output" /\ Settled(k)'
  <2>1. Settled(TurnKey(at[w].turn))'
    BY <1>3, <1>5, <1>7 DEF TurnKey
  <2>. QED
    BY <1>5, <1>7, <2>1 DEF Paid, PaidAt, Processing, SlotSteps, TurnKey
<1>. QED
  BY <1>5, <1>6, <1>7

LEMMA SettleOutputPaid ==
  ASSUME WellTyped, [Next]_vars, NEW w \in Worker, Paid(w), SettleOutput(w)
  PROVE  Paid(w)'
<1>1. /\ pc[w] = "settle_output" /\ Call(w).usage \in Nat
      /\ TurnKey(at[w].turn) \in Key /\ OutputKey(at[w].turn) \in Key
  BY AnswerTurn, KeyTypes DEF SettleOutput, At, AnswerSteps, CallRow
<1>2. PICK k \in Key, m \in Key, n \in Nat :
        k = OutputKey(at[w].turn) /\ m = TurnKey(at[w].turn) /\ n = Call(w).usage
  BY <1>1
<1>3. Settled(m)'
  <2>1. Settled(m)
    BY <1>1, <1>2 DEF Paid, PaidAt, AnswerSteps
  <2>. QED
    BY <2>1, SettledStays
<1>4. SettleUsage(w, k, n, "ok", "process")
  BY <1>2 DEF SettleOutput
<1>5. /\ at'[w] = at[w]
      /\ pc'[w] \in {"block", "exhausted"} \/ (pc'[w] = "process" /\ Settled(k)')
  BY <1>4, SettleUsagePays DEF Outcomes
<1>6. CASE pc'[w] \in {"block", "exhausted"}
  BY <1>6, NothingToPay DEF AnswerSteps, SlotSteps
<1>7. CASE pc'[w] = "process" /\ Settled(k)'
  BY <1>2, <1>3, <1>5, <1>7
     DEF Paid, PaidAt, Processing, SlotSteps, TurnKey, OutputKey, Settled
<1>. QED
  BY <1>5, <1>6, <1>7

LEMMA ProcessPaid ==
  ASSUME WellTyped, [Next]_vars, NEW w \in Worker, Paid(w), Process(w)
  PROVE  Paid(w)'
<1> DEFINE t == at[w].turn
<1>0. pc[w] = "process" /\ at[w] \in Local /\ HoldsAt("process", at[w])
  BY LocalFacts DEF Process, Read, At
<1>1. t \in 1..Len(calls) /\ Call(w).answer \in Answer
  BY <1>0, AnswerTurn DEF AnswerSteps
<1>2. Proposed(t) \in Shape /\ Settled(TurnKey(t)) /\ Settled(OutputKey(t))
  BY <1>0, <1>1, AnswerAssumption DEF Paid, PaidAt, AnswerSteps, Processing, Proposed, Call
<1> DEFINE l == [at[w] EXCEPT !.seen = run, !.slot = 1, !.then = "tool"]
<1>3. /\ l \in Local /\ l.job = at[w].job /\ l.turn = t /\ l.slot = 1 /\ l.then = "tool"
  BY <1>0, OpTypes DEF Local
<1>4. at'[w] = l
  BY DEF Process, WellTyped, Types
<1> HIDE DEF l
<1>5. PICK s : Goto(w, s) /\ s \in {"finish", "reject", "stall", "ask", "tool", "verify"}
               /\ (s = "ask" => Proposed(t) = "clarify")
               /\ (s = "reject" => Proposed(t) \in {"invalid", "unusable"})
               /\ (s = "verify" => Proposed(t) \in {"final", "unsupported"})
               /\ (s = "tool" => Proposed(t) \in Operations)
  <2> DEFINE s == CASE run # "running"                          -> "finish"
                    [] run = "running" /\ Is(w, {"invalid"}) -> "reject"
                    [] OTHER -> IF Repeats(w) >= MaxNoProgress THEN "stall"
                                ELSE IF Is(w, {"clarify"}) THEN "ask"
                                ELSE IF Is(w, Operations) THEN "tool"
                                ELSE IF Is(w, {"unusable"}) THEN "reject" ELSE "verify"
  <2>1. Goto(w, s)
    BY DEF Process
  <2>2. \A shapes : Is(w, shapes) <=> Proposed(t) \in shapes
    BY DEF Is, Proposed, Call
  <2>3. /\ s \in {"finish", "reject", "stall", "ask", "tool", "verify"}
        /\ s = "ask" => Proposed(t) = "clarify"
        /\ s = "reject" => Proposed(t) \in {"invalid", "unusable"}
        /\ s = "verify" => Proposed(t) \in {"final", "unsupported"}
        /\ s = "tool" => Proposed(t) \in Operations
    BY <1>2, <2>2 DEF Shape
  <2> HIDE DEF s
  <2>. QED
    BY <2>1, <2>3
<1>6. pc'[w] = s
  BY <1>5, GotoStep
<1>7. CASE s = "finish"
  BY <1>6, <1>7, NothingToPay DEF AnswerSteps, SlotSteps
<1>8. CASE s # "finish"
  <2>1. ToolsSettled(t, 1)
    BY SizesAssumption DEF ToolsSettled, Slot
  <2>2. PaidAt(s, l)
    BY <1>2, <1>3, <1>5, <2>1 DEF PaidAt, SlotSteps
  <2>3. 1 \in 1..(Ops + 1)
    BY SizesAssumption
  <2>4. HoldsAt(s, l) /\ s \in Steps
    BY <1>0, <1>3, <1>5, <1>8, <2>3
       DEF HoldsAt, TurnSteps, CallSteps, AnswerSteps, SlotSteps, Steps, JobSteps
  <2>. QED
    BY <1>3, <1>4, <1>6, <2>2, <2>4, PaidMoves
<1>. QED
  BY <1>7, <1>8

LEMMA ProcessAnswerPaid ==
  ASSUME WellTyped, [Next]_vars, NEW w \in Worker, Paid(w), ProcessAnswer(w)
  PROVE  Paid(w)'
<1>1. CASE Process(w)
  BY <1>1, ProcessPaid
<1>2. CASE Reject(w, "reject", "repairs") \/ Reject(w, "stall", "fail") \/ Repairs(w)
           \/ MarkProcessed(w)
  <2>1. pc'[w] \in {"repairs", "fail", "return", "block"}
    BY <1>2, GotoStep DEF Reject, Repairs, MarkProcessed
  <2>. QED
    BY <2>1, NothingToPay DEF AnswerSteps, SlotSteps
<1>3. CASE Ask(w) \/ Record(w)
  <2>1. /\ pc[w] \in {"ask", "record"} /\ pc[w] # "idle"
        /\ at[w] \in Local /\ HoldsAt(pc[w], at[w]) /\ at'[w] = at[w]
    BY <1>3, LocalFacts DEF Ask, Record, At
  <2>2. pc'[w] \in {"block", "processed"}
    BY <1>3, GotoStep DEF Ask, Record
  <2>3. CASE pc'[w] = "block"
    BY <2>3, NothingToPay DEF AnswerSteps, SlotSteps
  <2>4. CASE pc'[w] = "processed"
    <3>1. HoldsAt("processed", at[w]) /\ "processed" \in Steps
      BY <2>1 DEF HoldsAt, TurnSteps, CallSteps, AnswerSteps, SlotSteps, Steps
    <3>2. PaidAt("processed", at[w])
      BY <2>1 DEF Paid, PaidAt, AnswerSteps, SlotSteps, Processing, Operations
    <3>. QED
      BY <2>1, <2>4, <3>1, <3>2, PaidMoves
  <2>. QED
    BY <2>2, <2>3, <2>4
<1>4. CASE Verify(w)
  <2>1. /\ pc[w] = "verify" /\ at[w] \in Local /\ HoldsAt("verify", at[w])
    BY <1>4, LocalFacts DEF Verify, Read, At
  <2>2. /\ pc'[w] = "record" /\ at'[w].job = at[w].job /\ at'[w].turn = at[w].turn
    BY <1>4, HoldStays DEF Verify
  <2>3. at'[w] \in Local
    BY StepKeeps DEF WellTyped, Types
  <2>4. PICK l \in Local : l = at'[w]
    BY <2>3
  <2>5. l.job = at[w].job /\ l.turn = at[w].turn
    BY <2>2, <2>4
  <2>6. HoldsAt("record", l) /\ "record" \in Steps
    BY <2>1, <2>5 DEF HoldsAt, TurnSteps, CallSteps, AnswerSteps, SlotSteps, Steps
  <2>7. PaidAt("record", l)
    BY <2>1, <2>5 DEF Paid, PaidAt, AnswerSteps, SlotSteps, Processing
  <2>. QED
    BY <2>2, <2>4, <2>6, <2>7, PaidMoves
<1>. QED
  BY <1>1, <1>2, <1>3, <1>4 DEF ProcessAnswer

\* From one step of an operation to another one of it.
LEMMA SlotPaid ==
  ASSUME WellTyped, [Next]_vars, NEW w \in Worker, Paid(w),
         pc[w] \in {"tool"} \cup (SlotSteps \ {"settle_tool"}), pc'[w] \in SlotSteps,
         at'[w].turn = at[w].turn, at'[w].slot = at[w].slot
  PROVE  Paid(w)'
<1>0. pc[w] \in AnswerSteps /\ pc[w] \in Processing /\ at[w] \in Local /\ HoldsAt(pc[w], at[w])
  BY LocalFacts DEF AnswerSteps, Processing, SlotSteps
<1>1. /\ WellTyped' /\ pc'[w] \in AnswerSteps
  BY StepKeeps DEF AnswerSteps
<1>2. PICK s \in SlotSteps, l \in Local : pc'[w] = s /\ at'[w] = l
  BY <1>1 DEF WellTyped, Types
<1>3. l.turn = at[w].turn /\ l.slot = at[w].slot
  BY <1>2
<1>4. PaidAt(s, l)
  BY <1>0, <1>3 DEF Paid, PaidAt, SlotSteps
<1>5. PaidAt(s, l)'
  BY <1>0, <1>3, <1>4, PaidStays DEF HoldsAt, Steps, AnswerSteps
<1>. QED
  BY <1>2, <1>5 DEF Paid, PaidAt

LEMMA OperatePaid ==
  ASSUME WellTyped, [Next]_vars, NEW w \in Worker, Paid(w), Operate(w)
  PROVE  Paid(w)'
<1>1. CASE ReserveTool(w)
  <2>1. /\ pc[w] = "tool" /\ at[w] \in Local /\ HoldsAt("tool", at[w]) /\ at'[w] = at[w]
        /\ at[w].slot \in 1..(Ops + 1) /\ at[w].turn \in Turn
    BY <1>1, LocalFacts, AnswerTurn DEF ReserveTool, At, HoldsAt, AnswerSteps
  <2>2. CASE at[w].slot > Ops
    <3>1. pc'[w] = "processed"
      BY <1>1, <2>2, GotoStep DEF ReserveTool
    <3>2. at[w].slot = Ops + 1
      BY <2>1, <2>2, SizesAssumption
    <3>3. HoldsAt("processed", at[w]) /\ "processed" \in Steps
      BY <2>1 DEF HoldsAt, TurnSteps, CallSteps, AnswerSteps, SlotSteps, Steps
    <3>4. PaidAt("processed", at[w])
      BY <2>1, <3>2 DEF Paid, PaidAt, AnswerSteps, SlotSteps, Processing
    <3>. QED
      BY <2>1, <3>1, <3>3, <3>4, PaidMoves
  <2>3. CASE ~(at[w].slot > Ops)
    <3>1. ToolKey(ThisOp(w)) \in Key
      <4>1. at[w].slot \in Slot
        BY <2>1, <2>3, SizesAssumption DEF Slot
      <4>. QED
        BY <2>1, <4>1, KeyTypes DEF ThisOp, Op
    <3>2. Reserving(ToolKey(ThisOp(w)), 1) \in Outcomes
      BY <3>1, ReserveType DEF WellTyped, Types
    <3>3. PICK s \in {"admit", "block", "exhausted"} : Goto(w, s)
      BY <1>1, <2>3, <3>2 DEF ReserveTool, Outcomes
    <3>4. pc'[w] = s
      BY <3>3, GotoStep
    <3>5. CASE s = "admit"
      BY <2>1, <3>4, <3>5, SlotPaid DEF SlotSteps
    <3>6. CASE s # "admit"
      BY <3>3, <3>4, <3>6, NothingToPay DEF AnswerSteps, SlotSteps
    <3>. QED
      BY <3>5, <3>6
  <2>. QED
    BY <2>2, <2>3
<1>2. CASE AdmitOp(w) \/ StartOp(w) \/ DispatchOp(w)
  <2>1. pc[w] \in SlotSteps \ {"settle_tool"} /\ at'[w] = at[w]
    BY <1>2 DEF AdmitOp, StartOp, DispatchOp, At, SlotSteps
  <2>2. pc'[w] \in SlotSteps
    BY <1>2, GotoStep DEF AdmitOp, StartOp, DispatchOp, SlotSteps
  <2>. QED
    BY <2>1, <2>2, SlotPaid
<1>3. CASE RefuseOp(w) \/ ExecuteOp(w) \/ CompleteOp(w)
  <2>1. pc[w] \in SlotSteps \ {"settle_tool"}
    BY <1>3 DEF RefuseOp, ExecuteOp, CompleteOp, At, SlotSteps
  <2>2. pc'[w] \in SlotSteps /\ at'[w].turn = at[w].turn /\ at'[w].slot = at[w].slot
    BY <1>3, HoldStays DEF RefuseOp, ExecuteOp, CompleteOp, SlotSteps
  <2>. QED
    BY <2>1, <2>2, SlotPaid
<1>4. CASE SettleTool(w)
  <2>0. /\ pc[w] = "settle_tool" /\ at[w] \in Local /\ HoldsAt("settle_tool", at[w])
        /\ ThisOp(w) \in Op /\ at[w].slot \in Slot /\ at[w].then \in {"idle", "block", "tool"}
    BY <1>4, LocalFacts, SlotHolds DEF SettleTool, At, SlotSteps, HoldsAt
  <2>1. PICK k \in Key : k = ToolKey(ThisOp(w))
    BY <2>0, KeyTypes
  <2>2. Settle(k, 1) /\ Settling(k, 1) \in Outcomes
    BY <1>4, <2>1, SettleType DEF SettleTool, WellTyped, Types
  <2>3. CASE Settling(k, 1) # "ok" \/ at[w].then # "tool"
    <3>1. \/ \E s \in {"block", "exhausted"} : Goto(w, s)
          \/ Drop(w)
      BY <1>4, <2>0, <2>1, <2>2, <2>3 DEF SettleTool, Outcomes
    <3>2. pc'[w] \in {"block", "exhausted", "idle"}
      BY <3>1, GotoStep, DropStep
    <3>. QED
      BY <3>2, NothingToPay DEF AnswerSteps, SlotSteps
  <2>4. CASE Settling(k, 1) = "ok" /\ at[w].then = "tool"
    <3>1. Hold(w, "slot", at[w].slot + 1, "tool")
      BY <1>4, <2>1, <2>4 DEF SettleTool
    <3>2. PICK t \in Turn, n \in Slot : t = at[w].turn /\ n = at[w].slot /\ k = ToolKey(<<t, n>>)
      BY <2>0, <2>1 DEF ThisOp, Op
    <3>3. pc'[w] = "tool" /\ at'[w].turn = t /\ at'[w].slot = n + 1
      BY <3>1, <3>2, HoldStays
    <3>4. Settled(k)'
      BY <2>2, <2>4, SettleSettles
    <3>5. /\ Settled(TurnKey(t))' /\ Settled(OutputKey(t))' /\ Proposed(t)' \in Operations
          /\ ToolsSettled(t, n)'
      <4>1. PICK l \in Local : l = at[w]
        BY <2>0
      <4>2. /\ l.turn = t /\ l.slot = n /\ l.turn \in 1..Len(calls)
            /\ calls[l.turn].status # "started"
        BY <2>0, <3>2, <4>1 DEF HoldsAt, AnswerSteps, SlotSteps
      <4>3. PaidAt("settle_tool", l)'
        BY <2>0, <4>1, <4>2, PaidStays DEF Paid, Steps, AnswerSteps, SlotSteps
      <4>. QED
        BY <4>2, <4>3 DEF PaidAt, AnswerSteps, SlotSteps, Processing
    <3>6. ToolsSettled(t, n + 1)'
      BY <3>2, <3>4, <3>5 DEF ToolsSettled, Slot
    <3>. QED
      BY <3>3, <3>5, <3>6 DEF Paid, PaidAt, Processing, SlotSteps
  <2>. QED
    BY <2>2, <2>3, <2>4
<1>. QED
  BY <1>1, <1>2, <1>3, <1>4 DEF Operate

\* Every step of a worker keeps what it has paid for.
LEMMA WorkerPaid ==
  ASSUME WellTyped, [Next]_vars, NEW w \in Worker, Paid(w),
         (\E j \in DOMAIN jobs : Claim(w, j)) \/ WorkerStep(w) \/ Faulty(w)
  PROVE  Paid(w)'
<1>1. CASE \E j \in DOMAIN jobs : Claim(w, j)
  <2>1. pc'[w] \in {"finalize", "observe"}
    BY <1>1, ClaimKeeps
  <2>. QED
    BY <2>1, NothingToPay DEF AnswerSteps, SlotSteps
<1>2. CASE Begin(w)
  <2>1. CASE SettleTurn(w) \/ SettleOutput(w)
    BY <2>1, SettleTurnPaid, SettleOutputPaid
  <2>2. CASE ~(SettleTurn(w) \/ SettleOutput(w))
    <3>1. pc'[w] \in {"ensure", "latest", "finish", "block", "turn", "settle_turn", "next",
                      "quota", "exhausted", "output", "begin", "release", "idle", "generate",
                      "commit"}
      BY <1>2, <2>2, ReadyAndTurnSteps, CallAndAnswerSteps DEF Begin
    <3>. QED
      BY <3>1, NothingToPay DEF AnswerSteps, SlotSteps
  <2>. QED
    BY <2>1, <2>2
<1>3. CASE ProcessAnswer(w)
  BY <1>3, ProcessAnswerPaid
<1>4. CASE Operate(w)
  BY <1>4, OperatePaid
<1>5. CASE End(w) \/ Cancel(w) \/ Faulty(w)
  <2>1. pc'[w] \in {"finish", "idle", "reconcile", "defer", "refinalize", "release", "block"}
    BY <1>5, EndSteps, CancelNext, FaultySteps
  <2>. QED
    BY <2>1, NothingToPay DEF AnswerSteps, SlotSteps
<1>. QED
  BY <1>1, <1>2, <1>3, <1>4, <1>5 DEF WorkerStep
-----------------------------------------------------------------------------
(* What a step does to the actions *)

Admits(w) ==
  /\ pc[w] = "admit" /\ Fenced(w) /\ ThisOp(w) \in Op /\ op[ThisOp(w)] = "none" /\ run \in Live
  /\ op' = [op EXCEPT ![ThisOp(w)] = "ready"]
  /\ UNCHANGED <<run, jobs, calls, rows, opEpoch, at>> /\ pc'[w] = "start"

Dispatches(w) ==
  /\ pc[w] = "dispatch" /\ Fenced(w) /\ ThisOp(w) \in Op /\ Dispatchable(w, ThisOp(w))
  /\ run = "running"
  /\ op' = [op EXCEPT ![ThisOp(w)] = "running"]
  /\ opEpoch' = [opEpoch EXCEPT ![ThisOp(w)] = at[w].epoch]
  /\ UNCHANGED <<run, jobs, calls, rows, at>> /\ pc'[w] = "execute"

Completes(w) ==
  /\ pc[w] = "complete" /\ Fenced(w) /\ ThisOp(w) \in Op
  /\ op[ThisOp(w)] = "running" /\ opEpoch[ThisOp(w)] = at[w].epoch
  /\ \E s \in {"succeeded", "failed"} : op' = [op EXCEPT ![ThisOp(w)] = s]
  /\ UNCHANGED <<run, jobs, calls, rows, opEpoch>> /\ pc'[w] = "settle_tool"

Reconciles(w) ==
  /\ pc[w] = "reconcile" /\ Fenced(w) /\ run = "cancelling"
  /\ \E o \in Op : op[o] = "running" /\ op' = [op EXCEPT ![o] = "succeeded"]
  /\ UNCHANGED <<run, jobs, calls, rows, opEpoch>> /\ pc'[w] = "reconcile"

CancelsReady ==
  SettleUndispatched /\ run' \notin Live \cup {"succeeded"} /\ UNCHANGED <<calls, opEpoch>>

WritesOp(w) == Admits(w) \/ Dispatches(w) \/ Completes(w) \/ Reconciles(w)

LEMMA OpStep ==
  ASSUME WellTyped, [Next]_vars
  PROVE  UNCHANGED <<op, opEpoch>> \/ CancelsReady \/ \E w \in Worker : WritesOp(w)
<1> DEFINE Goal == UNCHANGED <<op, opEpoch>> \/ CancelsReady \/ \E w \in Worker : WritesOp(w)
<1>1. CASE User \/ UNCHANGED vars
  BY <1>1 DEF User, RequestCancellation, RespondAnswer, vars, CancelsReady, Live
<1>2. ASSUME NEW w \in Worker, NEW j \in DOMAIN jobs, Claim(w, j) PROVE Goal
  BY <1>2 DEF Claim, opVars
<1>3. ASSUME NEW w \in Worker, Begin(w) \/ ProcessAnswer(w) PROVE Goal
  BY <1>3 DEF Begin, Observe, Ensure, Latest, NextTurn, Quota, ReserveTurn, ReserveOutput,
              ReleaseTurn, BeginCall, Generate, CommitCall, SettleTurn, SettleOutput,
              SettleUsage, Read, ProcessAnswer, Process, Reject, Repairs, Ask, Verify, Record,
              MarkProcessed, opVars
<1>4. ASSUME NEW w \in Worker, Operate(w) PROVE Goal
  <2>1. CASE AdmitOp(w)
    <3>1. pc[w] = "admit" /\ Fenced(w) /\ ThisOp(w) \in Op
      BY <2>1, SlotHolds DEF AdmitOp, At, FencedStep, SlotSteps
    <3>2. CASE op' = op
      BY <2>1, <3>2 DEF AdmitOp
    <3>3. CASE op' # op
      <4>1. op[ThisOp(w)] = "none" /\ run \in Live /\ op' = [op EXCEPT ![ThisOp(w)] = "ready"]
        BY <2>1, <3>3 DEF AdmitOp, Live
      <4>2. op'[ThisOp(w)] = "ready"
        BY <3>1, <4>1, OpTypes
      <4>3. pc'[w] = "start"
        BY <2>1, <4>2, GotoStep DEF AdmitOp
      <4>. QED
        BY <2>1, <3>1, <4>1, <4>3 DEF AdmitOp, WritesOp, Admits
    <3>. QED
      BY <3>2, <3>3
  <2>2. CASE DispatchOp(w)
    <3>1. pc[w] = "dispatch" /\ Fenced(w) /\ ThisOp(w) \in Op
      BY <2>2, SlotHolds DEF DispatchOp, At, FencedStep, SlotSteps
    <3>2. CASE Dispatchable(w, ThisOp(w)) /\ run = "running"
      BY <2>2, <3>1, <3>2, GotoStep DEF DispatchOp, WritesOp, Dispatches
    <3>3. CASE ~(Dispatchable(w, ThisOp(w)) /\ run = "running")
      BY <2>2, <3>3 DEF DispatchOp
    <3>. QED
      BY <3>2, <3>3
  <2>3. CASE CompleteOp(w)
    <3>1. pc[w] = "complete" /\ Fenced(w) /\ ThisOp(w) \in Op
      BY <2>3, SlotHolds DEF CompleteOp, At, FencedStep, SlotSteps
    <3>2. pc'[w] = "settle_tool"
      BY <2>3, HoldStays DEF CompleteOp
    <3>3. CASE op[ThisOp(w)] = "running" /\ opEpoch[ThisOp(w)] = at[w].epoch
      <4>1. \E s \in {"succeeded", "failed"} : op' = [op EXCEPT ![ThisOp(w)] = s]
        BY <2>3, <3>3 DEF CompleteOp
      <4>. QED
        BY <2>3, <3>1, <3>2, <3>3, <4>1 DEF CompleteOp, WritesOp, Completes
    <3>4. CASE ~(op[ThisOp(w)] = "running" /\ opEpoch[ThisOp(w)] = at[w].epoch)
      BY <2>3, <3>4 DEF CompleteOp
    <3>. QED
      BY <3>3, <3>4
  <2>4. CASE ReserveTool(w) \/ RefuseOp(w) \/ StartOp(w) \/ ExecuteOp(w) \/ SettleTool(w)
    BY <2>4 DEF ReserveTool, RefuseOp, StartOp, ExecuteOp, SettleTool, opVars
  <2>. QED
    BY <1>4, <2>1, <2>2, <2>3, <2>4 DEF Operate
<1>5. ASSUME NEW w \in Worker, End(w) PROVE Goal
  <2>1. CASE TerminateRun(w)
    BY <2>1 DEF TerminateRun, CancelsReady, Live
  <2>2. CASE Return(w) \/ Finish(w) \/ Defer(w) \/ BlockRun(w) \/ FailRun(w) \/ LoseLease(w)
    BY <2>2 DEF Return, Read, Finish, Defer, BlockRun, FailRun, LoseLease, opVars
  <2>. QED
    BY <1>5, <2>1, <2>2 DEF End
<1>6. ASSUME NEW w \in Worker, Cancel(w) PROVE Goal
  <2>1. CASE ReconcileLocal(w)
    <3>1. CASE op' = op
      BY <2>1, <3>1 DEF ReconcileLocal
    <3>2. CASE op' # op
      <4>1. pc[w] = "reconcile" /\ Fenced(w) /\ at[w].todo # {}
        BY <2>1, <3>2 DEF ReconcileLocal, At, FencedStep
      <4>2. PICK o \in at[w].todo :
              LET proved == op[o] = "running" /\ o \in receipts IN
              IF proved /\ run # "cancelling"
              THEN Goto(w, "defer") /\ UNCHANGED <<op, at>>
              ELSE /\ op' = IF proved THEN [op EXCEPT ![o] = "succeeded"] ELSE op
                   /\ Hold(w, "todo", at[w].todo \ {o}, "reconcile")
        BY <2>1, <4>1 DEF ReconcileLocal
      <4>3. /\ op[o] = "running" /\ o \in receipts /\ run = "cancelling"
            /\ op' = [op EXCEPT ![o] = "succeeded"]
        BY <3>2, <4>2
      <4>4. o \in Op
        BY <4>3, OpTypes
      <4>5. pc'[w] = "reconcile"
        <5>1. Goto(w, "reconcile")
          BY <4>2, <4>3 DEF Hold
        <5>. QED
          BY <5>1, GotoStep
      <4>. QED
        BY <2>1, <4>1, <4>3, <4>4, <4>5 DEF ReconcileLocal, WritesOp, Reconciles
    <3>. QED
      BY <3>1, <3>2
  <2>2. CASE Finalize(w, "finalize", "reconcile") \/ Finalize(w, "refinalize", "defer")
    BY <2>2 DEF Finalize, opVars
  <2>. QED
    BY <1>6, <2>1, <2>2 DEF Cancel
<1>7. ASSUME NEW w \in Worker, Faulty(w) PROVE Goal
  BY <1>7 DEF Faulty, Crash, OutputFails, ProviderFails, ProviderRefuses, opVars
<1>. QED
  BY <1>1, <1>2, <1>3, <1>4, <1>5, <1>6, <1>7 DEF Next, WorkerStep

\* An action is admitted for an operation of a committed answer.
LEMMA AdmittedStep ==
  ASSUME WellTyped, [Next]_vars, \A w \in Worker : Paid(w), NEW o \in Op, AdmittedAnswer(o)
  PROVE  AdmittedAnswer(o)'
<1> SUFFICES ASSUME op'[o] # "none"
             PROVE  /\ o[1] \in 1..Len(calls') /\ calls'[o[1]].status # "started"
                    /\ Proposed(o[1])' \in Operations
  BY DEF AdmittedAnswer
<1>1. op[o] # "none" \/ \E w \in Worker : Admits(w) /\ ThisOp(w) = o
  <2>1. CASE UNCHANGED <<op, opEpoch>>
    BY <2>1
  <2>2. CASE CancelsReady
    <3>1. op'[o] = IF op[o] \in Undispatched THEN "cancelled" ELSE op[o]
      BY <2>2 DEF CancelsReady, SettleUndispatched
    <3>. QED
      BY <3>1 DEF Undispatched
  <2>3. CASE \E w \in Worker : WritesOp(w)
    <3>1. PICK w \in Worker : WritesOp(w)
      BY <2>3
    <3>2. CASE Admits(w)
      BY <3>1, <3>2, OpTypes DEF Admits
    <3>3. CASE Dispatches(w)
      BY <3>3, OpTypes DEF Dispatches, Dispatchable
    <3>4. CASE Completes(w)
      BY <3>4, OpTypes DEF Completes
    <3>5. CASE Reconciles(w)
      BY <3>5, OpTypes DEF Reconciles
    <3>. QED
      BY <3>1, <3>2, <3>3, <3>4, <3>5 DEF WritesOp
  <2>. QED
    BY <2>1, <2>2, <2>3, OpStep
<1>2. o[1] \in 1..Len(calls) /\ calls[o[1]].status # "started" /\ Proposed(o[1]) \in Operations
  <2>1. CASE op[o] # "none"
    BY <2>1 DEF AdmittedAnswer
  <2>2. CASE \E w \in Worker : Admits(w) /\ ThisOp(w) = o
    <3>1. PICK w \in Worker : Admits(w) /\ ThisOp(w) = o
      BY <2>2
    <3>2. pc[w] \in AnswerSteps /\ pc[w] \in SlotSteps /\ o[1] = at[w].turn
      BY <3>1 DEF Admits, AnswerSteps, SlotSteps, ThisOp
    <3>3. at[w].turn \in 1..Len(calls) /\ calls[at[w].turn].status # "started"
      BY <3>2, AnswerTurn DEF Call
    <3>4. Proposed(at[w].turn) \in Operations
      BY <3>2 DEF Paid, PaidAt
    <3>. QED
      BY <3>2, <3>3, <3>4
  <2>. QED
    BY <1>1, <2>1, <2>2
<1>3. PICK t \in 1..Len(calls) : t = o[1]
  BY <1>2
<1>4. Len(calls) \in Nat /\ Len(calls') \in Nat /\ Len(calls) <= Len(calls')
  BY StepKeeps, CallDomain DEF Grows
<1>5. t \in 1..Len(calls') /\ calls'[t].status # "started" /\ calls'[t].answer = calls[t].answer
  BY <1>2, <1>3, <1>4, StepKeeps DEF Grows
<1>. QED
  BY <1>2, <1>3, <1>5 DEF Proposed

\* What is closed has been paid for.
LEMMA PaidTurnStep ==
  ASSUME WellTyped, [Next]_vars, \A w \in Worker : Paid(w),
         \A t \in 1..Len(calls) : PaidTurn(t)
  PROVE  \A t \in 1..Len(calls') : PaidTurn(t)'
<1>1. ASSUME NEW t \in 1..Len(calls), PaidTurn(t), calls'[t] = calls[t]
      PROVE  PaidTurn(t)'
  <2>1. t \in Turn /\ TurnKey(t) \in Key /\ OutputKey(t) \in Key
        /\ \A i \in Slot : ToolKey(<<t, i>>) \in Key
    BY CallKeys, KeyTypes DEF Op
  <2>. QED
    BY <1>1, <2>1, SettledStays DEF PaidTurn, ToolsSettled, Proposed
<1>2. CASE calls' = calls
  BY <1>1, <1>2
<1>3. CASE \E w \in Worker : WritesCall(w)
  <2>1. PICK w \in Worker : WritesCall(w)
    BY <1>3
  <2>2. Len(calls) \in Nat
    BY CallDomain
  <2>3. CASE Opens(w)
    <3>1. ASSUME NEW t \in 1..Len(calls') PROVE PaidTurn(t)'
      <4>1. CASE t \in 1..Len(calls)
        BY <1>1, <2>3, <4>1 DEF Opens
      <4>2. CASE t \notin 1..Len(calls)
        <5>1. t = Len(calls) + 1 /\ calls'[t].status = "started"
          BY <2>2, <2>3, <4>2 DEF Opens
        <5>. QED
          BY <5>1 DEF PaidTurn, Closed
      <4>. QED
        BY <4>1, <4>2
    <3>. QED
      BY <3>1
  <2>4. ASSUME NEW u \in 1..Len(calls), Answers(w, u)
        PROVE  \A t \in 1..Len(calls') : PaidTurn(t)'
    <3>1. PaidTurn(u)'
      BY <2>4 DEF Answers, PaidTurn, Closed
    <3>2. \A t \in 1..Len(calls) : t # u => PaidTurn(t)'
      BY <1>1, <2>4 DEF Answers
    <3>. QED
      BY <2>4, <3>1, <3>2 DEF Answers
  <2>5. ASSUME NEW u \in 1..Len(calls), Closes(w, u)
        PROVE  \A t \in 1..Len(calls') : PaidTurn(t)'
    <3>1. \A t \in 1..Len(calls) : t # u => PaidTurn(t)'
      BY <1>1, <2>5 DEF Closes
    <3>2. PaidTurn(u)'
      <4>1. pc[w] \in {"reject", "stall", "processed"} /\ at[w].turn = u
        BY <2>5 DEF Closes
      <4>2. Settled(TurnKey(u)) /\ Settled(OutputKey(u))
        BY <4>1 DEF Paid, PaidAt, AnswerSteps, Processing
      <4>3. calls'[u].status = "processed" => pc[w] = "processed"
        BY <2>5 DEF Closes
      <4>4. pc[w] = "processed" /\ Proposed(u) \in Operations => ToolsSettled(u, Ops + 1)
        BY <4>1 DEF Paid, PaidAt
      <4>5. Proposed(u)' = Proposed(u)
        BY <2>5 DEF Closes, Proposed
      <4>6. u \in Turn /\ TurnKey(u) \in Key /\ OutputKey(u) \in Key
            /\ \A i \in Slot : ToolKey(<<u, i>>) \in Key
        BY CallKeys, KeyTypes DEF Op
      <4>7. Settled(TurnKey(u))' /\ Settled(OutputKey(u))'
            /\ (ToolsSettled(u, Ops + 1) => ToolsSettled(u, Ops + 1)')
        BY <4>2, <4>6, SettledStays DEF ToolsSettled
      <4>. QED
        BY <4>3, <4>4, <4>5, <4>7 DEF PaidTurn
    <3>. QED
      BY <2>5, <3>1, <3>2 DEF Closes
  <2>. QED
    BY <2>1, <2>3, <2>4, <2>5 DEF WritesCall
<1>. QED
  BY <1>2, <1>3, CallStep

LEMMA ChargedStep ==
  ASSUME WellTyped, Charged, [Next]_vars
  PROVE  Charged'
<1>1. ASSUME NEW v \in Worker, pc'[v] = pc[v], at'[v] = at[v] PROVE Paid(v)'
  <2>1. PICK s \in Steps, l \in Local : s = pc[v] /\ l = at[v]
    BY LocalFacts
  <2>2. HoldsAt(s, l) /\ PaidAt(s, l)
    BY <2>1, LocalFacts DEF Charged, Paid
  <2>. QED
    BY <1>1, <2>1, <2>2, PaidMoves
<1>2. \A v \in Worker : Paid(v)'
  <2>1. CASE User \/ UNCHANGED vars
    BY <1>1, <2>1 DEF User, RequestCancellation, RespondAnswer, vars
  <2>2. ASSUME NEW w \in Worker,
               (\E j \in DOMAIN jobs : Claim(w, j)) \/ WorkerStep(w) \/ Faulty(w)
        PROVE  \A v \in Worker : Paid(v)'
    <3>1. Paid(w)'
      BY <2>2, WorkerPaid DEF Charged
    <3>2. Mine(w)
      BY <2>2, WorkerKeeps DEF Keeps
    <3>. QED
      BY <1>1, <3>1, <3>2 DEF Mine
  <2>. QED
    BY <2>1, <2>2 DEF Next
<1>3. \A t \in 1..Len(calls') : PaidTurn(t)'
  BY PaidTurnStep DEF Charged
<1>4. \A o \in Op : AdmittedAnswer(o)'
  BY AdmittedStep DEF Charged
<1>. QED
  BY <1>2, <1>3, <1>4 DEF Charged

\* A worker that goes on with an answer, or closes its turn, has paid for it:
\* also when the settlement was cut short and another worker took over.
THEOREM AnswersArePaid == Spec => []Charged
<1>1. Init => Charged
  <2> SUFFICES ASSUME Init PROVE Charged
    OBVIOUS
  <2>1. Len(calls) = 0 /\ \A w \in Worker : pc[w] = "idle"
    BY DEF Init
  <2>2. \A o \in Op : op[o] = "none"
    BY DEF Init
  <2>. QED
    BY <2>1, <2>2 DEF Charged, Paid, PaidAt, PaidTurn, AdmittedAnswer, AnswerSteps, SlotSteps,
                      Processing
<1>2. WellTyped /\ Charged /\ [Next]_vars => Charged'
  BY ChargedStep
<1>. QED
  BY <1>1, <1>2, WellTypedAlways, PTL DEF Spec
-----------------------------------------------------------------------------
(* Claims *)

\* No step of a worker but a claim changes the kind or the epoch of a job, or
\* leases one.
JobsStay ==
  /\ Len(jobs') = Len(jobs)
  /\ \A j \in 1..Len(jobs) :
       /\ jobs'[j].kind = jobs[j].kind /\ jobs'[j].epoch = jobs[j].epoch
       /\ jobs'[j].status = "leased" => jobs[j].status = "leased"

LEMMA SameJobsStay ==
  ASSUME WellTyped, jobs' = jobs \/ RetireReady
  PROVE  JobsStay
<1>1. CASE jobs' = jobs
  BY <1>1 DEF JobsStay
<1>2. CASE RetireReady
  <2>1. RowTypes
    BY DEF WellTyped, Types
  <2>. QED
    BY <1>2, <2>1, RetireTypes DEF JobsStay
<1>. QED
  BY <1>1, <1>2

LEMMA WorkerJobs ==
  ASSUME WellTyped, NEW w \in Worker, WorkerStep(w) \/ Faulty(w)
  PROVE  JobsStay
<1>1. CASE Finish(w) \/ Defer(w)
  <2>1. at[w].job \in 1..Len(jobs)
    BY <1>1, LocalFacts DEF Finish, Defer, At, HoldsAt
  <2>2. \E s \in {"ready", "done"} : SetJob(at[w].job, s)
    BY <1>1 DEF Finish, Defer
  <2>. QED
    BY <2>1, <2>2, SetJobTypes DEF JobsStay
<1>2. CASE Begin(w)
  BY <1>2, SameJobsStay DEF Begin, Observe, Ensure, Latest, NextTurn, Quota, ReserveTurn,
     ReserveOutput, ReleaseTurn, BeginCall, Generate, CommitCall, SettleTurn, SettleOutput,
     SettleUsage, Read
<1>3. CASE ProcessAnswer(w)
  BY <1>3, SameJobsStay DEF ProcessAnswer, Process, Reject, Repairs, Ask, Verify, Record,
     MarkProcessed, Read
<1>4. CASE Operate(w)
  BY <1>4, SameJobsStay DEF Operate, ReserveTool, AdmitOp, RefuseOp, StartOp, DispatchOp,
     ExecuteOp, CompleteOp, SettleTool
<1>5. CASE Return(w) \/ BlockRun(w) \/ FailRun(w) \/ TerminateRun(w) \/ LoseLease(w)
  BY <1>5, SameJobsStay DEF Return, Read, BlockRun, FailRun, TerminateRun, LoseLease
<1>6. CASE Cancel(w) \/ Faulty(w)
  BY <1>6, SameJobsStay DEF Cancel, Finalize, ReconcileLocal, Faulty, Crash, OutputFails,
     ProviderFails, ProviderRefuses
<1>. QED
  BY <1>1, <1>2, <1>3, <1>4, <1>5, <1>6 DEF WorkerStep, End

\* Where the steps that settle and the operations lead.
LEMMA SettleSteps ==
  ASSUME WellTyped, NEW w \in Worker, SettleTurn(w) \/ SettleOutput(w)
  PROVE  pc'[w] \in {"block", "exhausted", "settle_output", "process"}
<1>1. /\ TurnKey(at[w].turn) \in Key /\ OutputKey(at[w].turn) \in Key
      /\ Call(w).amount \in Nat /\ Call(w).usage \in Nat
  BY AnswerTurn, KeyTypes DEF SettleTurn, SettleOutput, At, AnswerSteps, CallRow
<1>2. \A i \in Key, n \in Nat : Reserving(i, n) \in Outcomes
  BY ReserveType DEF WellTyped, Types
<1>3. PICK k \in Key, n \in Nat, found \in Outcomes, s \in {"settle_output", "process"} :
        SettleUsage(w, k, n, found, s)
  <2>1. CASE SettleTurn(w)
    BY <1>1, <1>2, <2>1 DEF SettleTurn
  <2>2. CASE SettleOutput(w)
    BY <1>1, <2>2 DEF SettleOutput, Outcomes
  <2>. QED
    BY <2>1, <2>2
<1>. QED
  BY <1>3, SettleUsagePays

LEMMA OperateSteps ==
  ASSUME WellTyped, NEW w \in Worker, Operate(w)
  PROVE  pc'[w] \in {"tool", "processed", "block", "exhausted", "idle"} \cup SlotSteps
<1>1. CASE ReserveTool(w)
  <2>1. CASE at[w].slot > Ops
    BY <1>1, <2>1, GotoStep DEF ReserveTool
  <2>2. CASE ~(at[w].slot > Ops)
    <3>1. at[w].slot \in 1..(Ops + 1) /\ at[w].turn \in Turn
      BY <1>1, LocalFacts, AnswerTurn DEF ReserveTool, At, HoldsAt, AnswerSteps
    <3>2. ToolKey(ThisOp(w)) \in Key
      BY <2>2, <3>1, KeyTypes, SizesAssumption DEF ThisOp, Op, Slot
    <3>3. Reserving(ToolKey(ThisOp(w)), 1) \in Outcomes
      BY <3>2, ReserveType DEF WellTyped, Types
    <3>4. PICK s \in {"admit", "block", "exhausted"} : Goto(w, s)
      BY <1>1, <2>2, <3>3 DEF ReserveTool, Outcomes
    <3>. QED
      BY <3>4, GotoStep DEF SlotSteps
  <2>. QED
    BY <2>1, <2>2
<1>2. CASE AdmitOp(w) \/ StartOp(w) \/ DispatchOp(w)
  BY <1>2, GotoStep DEF AdmitOp, StartOp, DispatchOp, SlotSteps
<1>3. CASE RefuseOp(w) \/ ExecuteOp(w) \/ CompleteOp(w)
  BY <1>3, HoldStays DEF RefuseOp, ExecuteOp, CompleteOp, SlotSteps
<1>4. CASE SettleTool(w)
  <2>1. ThisOp(w) \in Op /\ at[w].then \in {"idle", "block", "tool"}
    BY <1>4, LocalFacts, SlotHolds DEF SettleTool, At, SlotSteps, HoldsAt
  <2>2. Settling(ToolKey(ThisOp(w)), 1) \in Outcomes
    BY <2>1, KeyTypes, SettleType DEF WellTyped, Types
  <2>3. Drop(w) \/ Goto(w, "block") \/ Goto(w, "exhausted")
        \/ Hold(w, "slot", at[w].slot + 1, "tool")
    BY <1>4, <2>1, <2>2 DEF SettleTool, Outcomes
  <2>. QED
    BY <2>3, GotoStep, DropStep, HoldStays
<1>. QED
  BY <1>1, <1>2, <1>3, <1>4 DEF Operate

\* A worker stays at the steps of its kind of job.
ClaimSteps == CancelSteps \cup {"finish", "defer"}

LEMMA WorkerKind ==
  ASSUME WellTyped, NEW w \in Worker, WorkerStep(w) \/ Faulty(w), pc'[w] # "idle"
  PROVE  /\ pc'[w] \in CancelSteps => pc[w] \in CancelSteps
         /\ pc'[w] \notin ClaimSteps => pc[w] \notin ClaimSteps
<1>1. CASE Cancel(w)
  <2>1. pc[w] \in CancelSteps
    BY <1>1 DEF Cancel, Finalize, ReconcileLocal, At, CancelSteps
  <2>2. pc'[w] \in ClaimSteps
    BY <1>1, CancelNext DEF ClaimSteps, CancelSteps
  <2>. QED
    BY <2>1, <2>2
<1>2. CASE End(w)
  BY <1>2, EndSteps DEF ClaimSteps, CancelSteps
<1>3. CASE Begin(w)
  <2>1. pc[w] \notin ClaimSteps
    BY <1>3 DEF Begin, Observe, Ensure, Latest, NextTurn, Quota, ReserveTurn, ReserveOutput,
       ReleaseTurn, BeginCall, Generate, CommitCall, SettleTurn, SettleOutput, Read, At,
       ClaimSteps, CancelSteps
  <2>2. pc'[w] \notin CancelSteps
    <3>1. CASE SettleTurn(w) \/ SettleOutput(w)
      <4>1. pc'[w] \in {"block", "exhausted", "settle_output", "process"}
        BY <3>1, SettleSteps
      <4>. QED
        BY <4>1 DEF CancelSteps
    <3>2. CASE ~(SettleTurn(w) \/ SettleOutput(w))
      BY <1>3, <3>2, ReadyAndTurnSteps, CallAndAnswerSteps DEF Begin, CancelSteps
    <3>. QED
      BY <3>1, <3>2
  <2>. QED
    BY <2>1, <2>2
<1>4. CASE ProcessAnswer(w)
  <2>1. pc[w] \notin ClaimSteps
    BY <1>4 DEF ProcessAnswer, Process, Reject, Repairs, Ask, Verify, Record, MarkProcessed,
       Read, At, ClaimSteps, CancelSteps
  <2>2. pc'[w] \notin CancelSteps
    BY <1>4, ProcessAnswerSteps DEF CancelSteps
  <2>. QED
    BY <2>1, <2>2
<1>5. CASE Operate(w)
  <2>1. pc[w] \in {"tool"} \cup SlotSteps
    BY <1>5 DEF Operate, ReserveTool, AdmitOp, RefuseOp, StartOp, DispatchOp, ExecuteOp,
       CompleteOp, SettleTool, At, SlotSteps
  <2>2. pc'[w] \notin CancelSteps
    BY <1>5, OperateSteps DEF CancelSteps, SlotSteps
  <2>. QED
    BY <2>1, <2>2 DEF ClaimSteps, CancelSteps, SlotSteps
<1>6. CASE Faulty(w)
  <2>1. pc[w] \notin ClaimSteps \/ pc'[w] = "idle"
    BY <1>6, DropStep DEF Faulty, Crash, OutputFails, ProviderFails, ProviderRefuses, At,
       ClaimSteps, CancelSteps
  <2>. QED
    BY <1>6, <2>1, FaultySteps DEF CancelSteps
<1>. QED
  BY <1>1, <1>2, <1>3, <1>4, <1>5, <1>6 DEF WorkerStep

\* Every step keeps the jobs, and none lowers an epoch.
JobsGrow ==
  /\ Len(jobs) <= Len(jobs') /\ Len(jobs) \in Nat /\ Len(jobs') \in Nat
  /\ \A j \in 1..Len(jobs) :
       /\ jobs[j].epoch \in Nat /\ jobs'[j].epoch \in Nat
       /\ jobs'[j].kind = jobs[j].kind /\ jobs[j].epoch <= jobs'[j].epoch

LEMMA EpochTypes ==
  ASSUME WellTyped
  PROVE  /\ Len(jobs) \in Nat
         /\ \A j \in 1..Len(jobs) : /\ jobs[j].epoch \in Nat
                                    /\ jobs[j].kind \in {"advance_run", "cancel_run"}
         /\ \A w \in Worker : at[w].epoch \in Nat /\ (pc[w] # "idle" => at[w].job \in 1..Len(jobs))
<1>1. jobs \in Seq(Job) /\ Len(jobs) \in Nat
  BY LenProperties DEF WellTyped, Types, RowTypes
<1>2. \A j \in 1..Len(jobs) : jobs[j] \in Job
  BY <1>1, ElementOfSeq
<1>3. \A e \in 0..MaxEpoch : e \in Nat
  BY SizesAssumption
<1>4. \A w \in Worker : at[w] \in Local /\ HoldsAt(pc[w], at[w])
  BY LocalFacts
<1>. QED
  BY <1>1, <1>2, <1>3, <1>4 DEF Job, Local, HoldsAt

EpochsAreNat == Len(jobs) \in Nat /\ \A j \in 1..Len(jobs) : jobs[j].epoch \in Nat

LEMMA EpochNat == WellTyped => EpochsAreNat
  BY EpochTypes DEF EpochsAreNat

LEMMA JobsGrowStep ==
  ASSUME WellTyped, [Next]_vars
  PROVE  JobsGrow
<1>0. WellTyped' /\ Grows
  BY StepKeeps
<1>1. /\ Len(jobs) \in Nat /\ Len(jobs') \in Nat /\ Len(jobs) <= Len(jobs')
      /\ \A j \in 1..Len(jobs) : jobs[j].epoch \in Nat
      /\ \A j \in 1..Len(jobs') : jobs'[j].epoch \in Nat
  <2>1. EpochsAreNat /\ EpochsAreNat'
    BY <1>0, EpochNat, PTL
  <2>. QED
    BY <1>0, <2>1 DEF EpochsAreNat, Grows
<1>2. ASSUME NEW j \in 1..Len(jobs)
      PROVE  jobs'[j].kind = jobs[j].kind /\ jobs[j].epoch <= jobs'[j].epoch
  <2>1. CASE UNCHANGED vars
    BY <1>1, <2>1 DEF vars
  <2>2. CASE User
    <3>1. PICK kind \in {"advance_run", "cancel_run"} : jobs' = Append(jobs, NewJob(kind))
      BY <2>2 DEF User, RequestCancellation, RespondAnswer
    <3>. QED
      BY <1>1, <3>1, AppendTypes
  <2>3. ASSUME NEW w \in Worker, NEW i \in DOMAIN jobs, Claim(w, i)
        PROVE  jobs'[j].kind = jobs[j].kind /\ jobs[j].epoch <= jobs'[j].epoch
    BY <1>1, <2>3, ClaimKeeps
  <2>4. ASSUME NEW w \in Worker, WorkerStep(w) \/ Faulty(w)
        PROVE  jobs'[j].kind = jobs[j].kind /\ jobs[j].epoch <= jobs'[j].epoch
    BY <1>1, <2>4, WorkerJobs DEF JobsStay
  <2>. QED
    BY <2>1, <2>2, <2>3, <2>4 DEF Next
<1>. QED
  BY <1>1, <1>2 DEF JobsGrow

\* A worker that neither claims a job nor drops one keeps its claim.
KeepsClaim(v) ==
  /\ pc[v] # "idle" /\ at'[v].job = at[v].job /\ at'[v].epoch = at[v].epoch
  /\ pc'[v] \in CancelSteps => pc[v] \in CancelSteps
  /\ pc'[v] \notin ClaimSteps => pc[v] \notin ClaimSteps
NewClaim(v) ==
  \E j \in 1..Len(jobs) :
    /\ at'[v].job = j /\ at'[v].epoch = jobs[j].epoch + 1 /\ jobs'[j].epoch = jobs[j].epoch + 1
    /\ jobs'[j].kind = jobs[j].kind /\ jobs'[j].status = "leased"
    /\ pc'[v] = IF jobs[j].kind = "cancel_run" THEN "finalize" ELSE "observe"
    /\ \A i \in 1..Len(jobs) : i # j => jobs'[i] = jobs[i]
    /\ Len(jobs') = Len(jobs) /\ Mine(v) /\ UNCHANGED <<run, calls, rows, opVars>>

LEMMA ClaimStep ==
  ASSUME WellTyped, [Next]_vars
  PROVE  \/ \A v \in Worker : pc'[v] # "idle" => KeepsClaim(v)
         \/ \E w \in Worker : NewClaim(w)
<1>1. CASE User \/ UNCHANGED vars
  BY <1>1 DEF User, RequestCancellation, RespondAnswer, vars, KeepsClaim
<1>2. ASSUME NEW w \in Worker, NEW j \in DOMAIN jobs, Claim(w, j) PROVE NewClaim(w)
  <2>1. /\ Keeps(w) /\ Len(jobs') = Len(jobs)
        /\ \A i \in 1..Len(jobs) : i # j => jobs'[i] = jobs[i]
        /\ j \in 1..Len(jobs) /\ jobs'[j].status = "leased" /\ jobs'[j].kind = jobs[j].kind
        /\ jobs'[j].epoch = jobs[j].epoch + 1
        /\ at'[w].job = j /\ at'[w].epoch = jobs[j].epoch + 1
        /\ pc'[w] = IF jobs[j].kind = "cancel_run" THEN "finalize" ELSE "observe"
    BY <1>2, ClaimKeeps
  <2>2. UNCHANGED <<run, calls, rows, opVars>>
    BY <1>2 DEF Claim
  <2>3. Mine(w)
    BY <2>1 DEF Keeps
  <2>. QED
    BY <2>1, <2>2, <2>3 DEF NewClaim
<1>3. ASSUME NEW w \in Worker, WorkerStep(w) \/ Faulty(w), NEW v \in Worker, pc'[v] # "idle"
      PROVE  KeepsClaim(v)
  <2>1. CASE v = w
    BY <1>3, <2>1, WorkerStays, WorkerKind DEF Stays, KeepsClaim
  <2>2. CASE v # w
    BY <1>3, <2>2, WorkerKeeps DEF Keeps, Mine, KeepsClaim
  <2>. QED
    BY <2>1, <2>2
<1>. QED
  BY <1>1, <1>2, <1>3 DEF Next

LEMMA ClaimsKept ==
  ASSUME WellTyped, JobsGrow, NEW v \in Worker, Claims(v), KeepsClaim(v)
  PROVE  Claims(v)'
<1>1. /\ at[v].job \in 1..Len(jobs) /\ at[v].epoch \in Nat
  BY EpochTypes DEF KeepsClaim
<1>2. PICK j \in 1..Len(jobs), e \in Nat : j = at[v].job /\ e = at[v].epoch
  BY <1>1
<1>3. at'[v].job = j /\ at'[v].epoch = e /\ e <= jobs[j].epoch
  BY <1>2 DEF KeepsClaim, Claims
<1>4. e <= jobs'[j].epoch /\ jobs'[j].kind = jobs[j].kind
  BY <1>2, <1>3 DEF JobsGrow
<1>. QED
  BY <1>2, <1>3, <1>4 DEF Claims, KeepsClaim, ClaimSteps

LEMMA LeasesStep ==
  ASSUME WellTyped, Leases, [Next]_vars
  PROVE  Leases'
<1>0. JobsGrow
  BY JobsGrowStep
<1>1. Len(jobs') >= 1 /\ jobs'[1].kind = "advance_run"
  BY <1>0 DEF JobsGrow, Leases
<1>2. CASE \A v \in Worker : pc'[v] # "idle" => KeepsClaim(v)
  <2>1. \A v \in Worker : Claims(v)'
    <3>1. SUFFICES ASSUME NEW v \in Worker, pc'[v] # "idle" PROVE Claims(v)'
      BY DEF Claims
    <3>. QED
      BY <1>0, <1>2, <3>1, ClaimsKept DEF Leases
  <2>2. \A w, v \in Worker : v # w => Apart(w, v)'
    BY <1>2 DEF Apart, Leases, KeepsClaim
  <2>. QED
    BY <1>1, <2>1, <2>2 DEF Leases
<1>3. CASE \E w \in Worker : NewClaim(w)
  <2>1. PICK w \in Worker, j \in 1..Len(jobs) :
          /\ at'[w].job = j /\ at'[w].epoch = jobs[j].epoch + 1
          /\ jobs'[j].epoch = jobs[j].epoch + 1
          /\ jobs'[j].kind = jobs[j].kind /\ Mine(w)
          /\ pc'[w] = IF jobs[j].kind = "cancel_run" THEN "finalize" ELSE "observe"
    BY <1>3 DEF NewClaim
  <2>2. Claims(w)'
    BY <2>1, EpochTypes DEF Claims, CancelSteps
  <2>3. ASSUME NEW v \in Worker, v # w, pc'[v] # "idle"
        PROVE  KeepsClaim(v)
    BY <2>1, <2>3 DEF Mine, KeepsClaim
  <2>4. \A v \in Worker : v # w => Claims(v)'
    <3>1. SUFFICES ASSUME NEW v \in Worker, v # w, pc'[v] # "idle" PROVE Claims(v)'
      BY DEF Claims
    <3>. QED
      BY <1>0, <2>3, <3>1, ClaimsKept DEF Leases
  <2>5. ASSUME NEW v \in Worker, v # w PROVE Apart(w, v)' /\ Apart(v, w)'
    <3>1. SUFFICES ASSUME pc'[v] # "idle", at'[v].job = j PROVE at'[v].epoch # at'[w].epoch
      BY <2>1 DEF Apart
    <3>2. pc[v] # "idle" /\ at[v].job = j /\ at'[v].epoch = at[v].epoch
      BY <2>1, <2>5, <3>1 DEF Mine
    <3>3. at[v].epoch <= jobs[j].epoch /\ at[v].epoch \in Nat /\ jobs[j].epoch \in Nat
      BY <3>2, EpochTypes DEF Leases, Claims
    <3>. QED
      BY <2>1, <3>2, <3>3
  <2>6. ASSUME NEW u \in Worker, NEW v \in Worker, u # w, v # w, u # v PROVE Apart(u, v)'
    BY <2>1, <2>6 DEF Mine, Apart, Leases
  <2>. QED
    BY <1>1, <2>2, <2>4, <2>5, <2>6 DEF Leases
<1>. QED
  BY <1>2, <1>3, ClaimStep

\* Each claim of a job is held by one worker, under an epoch of its own, at the
\* steps of the kind of the job.
THEOREM ClaimsAreUnique == Spec => []Leases
<1>1. Init => Leases
  <2> SUFFICES ASSUME Init PROVE Leases
    OBVIOUS
  <2>1. Len(jobs) = 1 /\ jobs[1].kind = "advance_run" /\ \A w \in Worker : pc[w] = "idle"
    BY DEF Init, NewJob
  <2>. QED
    BY <2>1 DEF Leases, Claims, Apart
<1>2. WellTyped /\ Leases /\ [Next]_vars => Leases'
  BY LeasesStep
<1>. QED
  BY <1>1, <1>2, WellTypedAlways, PTL DEF Spec
-----------------------------------------------------------------------------
(* One job, one owner *)

LEMMA UnansweredBefore ==
  ASSUME WellTyped, WellTyped', JobsGrow, Unanswered'
  PROVE  Unanswered
<1>1. DOMAIN jobs = 1..Len(jobs) /\ DOMAIN jobs' = 1..Len(jobs')
  BY LenProperties DEF WellTyped, Types, RowTypes
<1>2. \A j \in 1..Len(jobs) : j \in 1..Len(jobs') /\ jobs'[j].kind = jobs[j].kind
  BY DEF JobsGrow
<1>. QED
  BY <1>1, <1>2 DEF Unanswered

\* respond_to_input gives the Run another job.
LEMMA OneJobIsNotAnswered ==
  ASSUME WellTyped, WellTyped', Leases, Unanswered', NEW a \in Answer
  PROVE  ~RespondAnswer(a)
<1> SUFFICES ASSUME RespondAnswer(a) PROVE FALSE
  OBVIOUS
<1>1. DOMAIN jobs' = 1..Len(jobs') /\ Len(jobs) \in Nat /\ Len(jobs) >= 1
  BY LenProperties DEF WellTyped, Types, RowTypes, Leases
<1>2. Len(jobs') = Len(jobs) + 1 /\ jobs'[Len(jobs) + 1] = NewJob("advance_run")
  BY AppendTypes DEF RespondAnswer
<1>3. PICK n \in Nat : n = Len(jobs) + 1
  BY <1>1
<1>4. n \in DOMAIN jobs' /\ jobs'[n].kind = "advance_run" /\ n # 1
  BY <1>1, <1>2, <1>3 DEF NewJob
<1>. QED
  BY <1>4 DEF Unanswered

LEMMA OwnerFacts ==
  ASSUME WellTyped, Leases, Unanswered, NEW w \in Worker, Owns(w)
  PROVE  /\ at[w].job = 1 /\ at[w].epoch = jobs[1].epoch
         /\ \A v \in Worker : Owns(v) => v = w
<1>1. \A v \in Worker : Owns(v) => at[v].job = 1 /\ at[v].epoch = jobs[1].epoch
  <2>1. DOMAIN jobs = 1..Len(jobs)
    BY LenProperties DEF WellTyped, Types, RowTypes
  <2>2. \A v \in Worker : Owns(v) => at[v].job \in 1..Len(jobs)
    BY EpochTypes DEF Owns
  <2>. QED
    BY <2>1, <2>2 DEF Owns, Fenced, Unanswered
<1>2. \A v \in Worker : Owns(v) => v = w
  BY <1>1 DEF Leases, Apart, Owns
<1>. QED
  BY <1>1, <1>2

\* A worker that acts under a lease for the Run owns its job.
LEMMA FencedOwns ==
  ASSUME Leases, NEW w \in Worker, pc[w] \notin ClaimSteps \cup {"idle"}, Fenced(w)
  PROVE  Owns(w)
  BY DEF Leases, Claims, Owns, ClaimSteps

LEMMA FencedBefore ==
  ASSUME WellTyped, Leases, [Next]_vars, NEW v \in Worker, KeepsClaim(v), Fenced(v)'
  PROVE  Fenced(v)
<1>1. at[v].job \in 1..Len(jobs) /\ at[v].epoch \in Nat
  BY EpochTypes DEF KeepsClaim
<1>2. PICK j \in 1..Len(jobs), e \in Nat : j = at[v].job /\ e = at[v].epoch
  BY <1>1
<1>3. at'[v].job = j /\ at'[v].epoch = e
  BY <1>2 DEF KeepsClaim
<1>4. jobs'[j].status = "leased" /\ jobs'[j].epoch = e
  BY <1>3 DEF Fenced
<1>5. CASE UNCHANGED vars
  BY <1>2, <1>4, <1>5 DEF Fenced, vars
<1>6. CASE User
  <2>1. PICK kind \in {"advance_run", "cancel_run"} : jobs' = Append(jobs, NewJob(kind))
    BY <1>6 DEF User, RequestCancellation, RespondAnswer
  <2>2. jobs'[j] = jobs[j]
    BY <2>1, AppendTypes
  <2>. QED
    BY <1>2, <1>4, <2>2 DEF Fenced
<1>7. ASSUME NEW w \in Worker, NEW i \in DOMAIN jobs, Claim(w, i) PROVE Fenced(v)
  <2>1. i # j
    <3>1. SUFFICES ASSUME i = j PROVE FALSE
      OBVIOUS
    <3>2. e <= jobs[j].epoch /\ jobs[j].epoch \in Nat
      BY <1>2, EpochTypes DEF Leases, Claims, KeepsClaim
    <3>3. jobs'[j].epoch = jobs[j].epoch + 1
      BY <1>7, <3>1, ClaimKeeps
    <3>. QED
      BY <1>4, <3>2, <3>3
  <2>2. jobs'[j] = jobs[j]
    BY <1>7, <2>1, ClaimKeeps
  <2>. QED
    BY <1>2, <1>4, <2>2 DEF Fenced
<1>8. ASSUME NEW w \in Worker, WorkerStep(w) \/ Faulty(w) PROVE Fenced(v)
  <2>1. JobsStay
    BY <1>8, WorkerJobs
  <2>. QED
    BY <1>2, <1>4, <2>1 DEF JobsStay, Fenced
<1>. QED
  BY <1>5, <1>6, <1>7, <1>8 DEF Next

\* The owner of the job owned it before, or it has just claimed it.
LEMMA OwnedBefore ==
  ASSUME WellTyped, WellTyped', Leases, [Next]_vars, Unanswered', NEW v \in Worker, Owns(v)'
  PROVE  \/ Owns(v) /\ KeepsClaim(v)
         \/ NewClaim(v) /\ pc'[v] = "observe"
<1>0. JobsGrow /\ pc'[v] # "idle" /\ Fenced(v)' /\ jobs'[at'[v].job].kind = "advance_run"
  BY JobsGrowStep DEF Owns
<1>1. CASE KeepsClaim(v)
  <2>1. Fenced(v)
    BY <1>0, <1>1, FencedBefore
  <2>2. jobs[at[v].job].kind = "advance_run"
    BY <1>0, <1>1, EpochTypes DEF KeepsClaim, JobsGrow
  <2>. QED
    BY <1>1, <2>1, <2>2 DEF Owns, KeepsClaim
<1>2. CASE NewClaim(v)
  <2>1. PICK j \in 1..Len(jobs) :
          /\ at'[v].job = j /\ jobs'[j].kind = jobs[j].kind
          /\ pc'[v] = IF jobs[j].kind = "cancel_run" THEN "finalize" ELSE "observe"
    BY <1>2 DEF NewClaim
  <2>2. pc'[v] = "observe"
    BY <1>0, <2>1
  <2>. QED
    BY <1>2, <2>2
<1>3. CASE \E w \in Worker \ {v} : NewClaim(w)
  <2>1. KeepsClaim(v)
    BY <1>0, <1>3 DEF NewClaim, Mine, KeepsClaim
  <2>. QED
    BY <1>1, <2>1
<1>. QED
  BY <1>0, <1>1, <1>2, <1>3, ClaimStep
-----------------------------------------------------------------------------
(* What a step does to one action, and to the Run *)

LEMMA OpCases ==
  ASSUME WellTyped, [Next]_vars, NEW o \in Op
  PROVE  \/ op'[o] = op[o] /\ opEpoch'[o] = opEpoch[o]
         \/ op[o] \in Undispatched /\ op'[o] = "cancelled" /\ opEpoch'[o] = opEpoch[o]
         \/ \E w \in Worker : Admits(w) /\ ThisOp(w) = o /\ op'[o] = "ready"
         \/ \E w \in Worker : Dispatches(w) /\ ThisOp(w) = o /\ op[o] \in {"ready", "running"}
                              /\ op'[o] = "running" /\ opEpoch'[o] = at[w].epoch
         \/ op[o] = "running" /\ op'[o] \in {"succeeded", "failed"} /\ opEpoch'[o] = opEpoch[o]
<1>1. CASE UNCHANGED <<op, opEpoch>>
  BY <1>1
<1>2. CASE CancelsReady
  <2>1. op'[o] = IF op[o] \in Undispatched THEN "cancelled" ELSE op[o]
    BY <1>2 DEF CancelsReady, SettleUndispatched
  <2>2. opEpoch'[o] = opEpoch[o]
    BY <1>2 DEF CancelsReady
  <2>. QED
    BY <2>1, <2>2
<1>3. ASSUME NEW w \in Worker, Admits(w)
      PROVE  \/ op'[o] = op[o] /\ opEpoch'[o] = opEpoch[o]
             \/ Admits(w) /\ ThisOp(w) = o /\ op'[o] = "ready"
  BY <1>3, OpTypes DEF Admits
<1>4. ASSUME NEW w \in Worker, Dispatches(w)
      PROVE  \/ op'[o] = op[o] /\ opEpoch'[o] = opEpoch[o]
             \/ Dispatches(w) /\ ThisOp(w) = o /\ op[o] \in {"ready", "running"}
                /\ op'[o] = "running" /\ opEpoch'[o] = at[w].epoch
  BY <1>4, OpTypes DEF Dispatches, Dispatchable
<1>5. ASSUME NEW w \in Worker, Completes(w) \/ Reconciles(w)
      PROVE  \/ op'[o] = op[o] /\ opEpoch'[o] = opEpoch[o]
             \/ op[o] = "running" /\ op'[o] \in {"succeeded", "failed"}
                /\ opEpoch'[o] = opEpoch[o]
  <2>1. PICK p \in Op, s \in {"succeeded", "failed"} :
          op[p] = "running" /\ op' = [op EXCEPT ![p] = s] /\ opEpoch' = opEpoch
    BY <1>5 DEF Completes, Reconciles
  <2>. QED
    BY <2>1, OpTypes
<1>. QED
  BY <1>1, <1>2, <1>3, <1>4, <1>5, OpStep DEF WritesOp

LEMMA RunStep ==
  ASSUME WellTyped, WellTyped', Leases, [Next]_vars, Unanswered'
  PROVE  /\ run' \in Live => run \in Live
         /\ run' = "queued" => run = "queued"
         /\ run' = "succeeded" => \/ run = "succeeded"
                                  \/ \E w \in Worker : /\ pc[w] = "record" /\ Fenced(w)
                                                       /\ at[w].flag /\ op' = op
<1> DEFINE Goal == /\ run' \in Live => run \in Live
                   /\ run' = "queued" => run = "queued"
                   /\ run' = "succeeded" => \/ run = "succeeded"
                                            \/ \E w \in Worker : /\ pc[w] = "record" /\ Fenced(w)
                                                                 /\ at[w].flag /\ op' = op
<1>1. CASE UNCHANGED vars
  BY <1>1 DEF vars
<1>2. CASE User
  <2>1. RequestCancellation
    BY <1>2, OneJobIsNotAnswered DEF User
  <2>. QED
    BY <2>1 DEF RequestCancellation, Live
<1>3. ASSUME NEW w \in Worker, NEW j \in DOMAIN jobs, Claim(w, j) PROVE Goal
  BY <1>3 DEF Claim
<1>4. ASSUME NEW w \in Worker, WorkerStep(w) \/ Faulty(w) PROVE Goal
  <2>1. run' \in Live => run \in Live /\ (run' = "queued" => run = "queued")
    BY <1>4, LiveStep DEF LiveStays, Live
  <2>2. ASSUME run' = "succeeded"
        PROVE  \/ run = "succeeded"
               \/ pc[w] = "record" /\ Fenced(w) /\ at[w].flag /\ op' = op
    <3>1. CASE Begin(w)
      BY <2>2, <3>1 DEF Begin, Observe, Ensure, Latest, NextTurn, Quota, ReserveTurn,
         ReserveOutput, ReleaseTurn, BeginCall, Generate, CommitCall, SettleTurn, SettleOutput,
         SettleUsage, Read
    <3>2. CASE Record(w)
      BY <2>2, <3>2 DEF Record, At, FencedStep, opVars
    <3>3. CASE ProcessAnswer(w) /\ ~Record(w)
      BY <2>2, <3>3 DEF ProcessAnswer, Process, Reject, Repairs, Ask, Verify, MarkProcessed,
         Read
    <3>4. CASE Operate(w)
      BY <2>2, <3>4 DEF Operate, ReserveTool, AdmitOp, RefuseOp, StartOp, DispatchOp,
         ExecuteOp, CompleteOp, SettleTool
    <3>5. CASE End(w)
      BY <2>2, <3>5 DEF End, Return, Finish, Defer, BlockRun, Ends, FailRun, TerminateRun,
         LoseLease, Read
    <3>6. CASE Cancel(w)
      BY <2>2, <3>6 DEF Cancel, Finalize, ReconcileLocal
    <3>7. CASE Faulty(w)
      BY <2>2, <3>7 DEF Faulty, Crash, OutputFails, ProviderFails, ProviderRefuses
    <3>. QED
      BY <1>4, <3>1, <3>2, <3>3, <3>4, <3>5, <3>6, <3>7 DEF WorkerStep
  <2>3. run' = "queued" => run' \in Live
    BY DEF Live
  <2>. QED
    BY <2>1, <2>2, <2>3
<1>. QED
  BY <1>1, <1>2, <1>3, <1>4 DEF Next

\* An operation with an outcome keeps it; one that was not admitted is admitted
\* by the worker that processes it only.
LEMMA ObservedStays ==
  ASSUME WellTyped, WellTyped', Leases, [Next]_vars, Unanswered', NEW o \in Op, Observed(o),
         \A w \in Worker : Admits(w) => ThisOp(w) # o
  PROVE  Observed(o)'
<1>1. CASE run \notin Live
  BY <1>1, RunStep DEF Observed
<1>2. CASE op[o] \in TerminalAction \cup {"none"}
  BY <1>2, OpCases DEF Observed, TerminalAction, Undispatched
<1>. QED
  BY <1>1, <1>2 DEF Observed

LEMMA UnresolvedStays ==
  ASSUME WellTyped, [Next]_vars, \A w \in Worker : ~Admits(w), Unresolved = {}
  PROVE  Unresolved' = {}
<1> SUFFICES ASSUME NEW o \in Op, op'[o] \notin TerminalAction \cup {"none"} PROVE FALSE
  BY DEF Unresolved
<1>1. op[o] \in TerminalAction \cup {"none"}
  BY DEF Unresolved
<1>. QED
  BY <1>1, OpCases DEF TerminalAction, Undispatched

LEMMA RepeatedType ==
  ASSUME WellTyped, NEW t
  PROVE  Repeated(t) \in Nat
<1>1. IsFiniteSet(DOMAIN calls)
  BY CallDomain, FS_Interval
<1>2. IsFiniteSet({u \in DOMAIN calls : calls[u].answer = calls[t].answer})
  BY <1>1, FS_Subset
<1>. QED
  BY <1>2, FS_CardinalityType DEF Repeated

LEMMA RepeatedSame ==
  ASSUME WellTyped, WellTyped', Len(calls') = Len(calls),
         \A u \in 1..Len(calls) : calls'[u].answer = calls[u].answer,
         NEW t \in 1..Len(calls)
  PROVE  Repeated(t)' = Repeated(t)
<1>1. DOMAIN calls = 1..Len(calls) /\ DOMAIN calls' = 1..Len(calls')
  BY LenProperties DEF WellTyped, Types, RowTypes
<1>2. {u \in DOMAIN calls' : calls'[u].answer = calls'[t].answer}
        = {u \in DOMAIN calls : calls[u].answer = calls[t].answer}
  BY <1>1
<1>. QED
  BY <1>2 DEF Repeated
-----------------------------------------------------------------------------
(* What the owner of the job knows *)

\* A step that writes no call, admits no operation and dispatches none.
Quiet == calls' = calls /\ \A x \in Worker : ~Admits(x) /\ ~Dispatches(x)

LEMMA OwnerQuiet ==
  ASSUME WellTyped, Leases, Unanswered, [Next]_vars, NEW w \in Worker, Owns(w),
         ~Admits(w), ~Dispatches(w), ~WritesCall(w)
  PROVE  Quiet
<1>1. ASSUME NEW x \in Worker, WritesCall(x) \/ Admits(x) \/ Dispatches(x) PROVE x = w
  <2>1. /\ pc[x] \in {"begin", "commit", "reject", "stall", "processed", "admit", "dispatch"}
        /\ Fenced(x)
    BY <1>1 DEF WritesCall, Opens, Answers, Closes, Admits, Dispatches
  <2>2. Owns(x)
    BY <2>1, FencedOwns DEF ClaimSteps, CancelSteps
  <2>. QED
    BY <2>2, OwnerFacts
<1>. QED
  BY <1>1, CallStep DEF Quiet

\* What it knows stays true while nothing of it is written.
LEMMA KnowsMoves ==
  ASSUME WellTyped, WellTyped', Leases, [Next]_vars, Unanswered', NEW w \in Worker, Quiet,
         NEW s \in Steps, NEW l \in Local, pc'[w] = s, at'[w] = l, AloneAt(s, l), WritesAt(s, l)
  PROVE  Knows(w)'
<1>0. calls' = calls /\ \A x \in Worker : ~Admits(x) /\ ~Dispatches(x)
  BY DEF Quiet
<1>1. /\ s \in CallSteps \cup AnswerSteps => l.turn \in 1..Len(calls) /\ l.turn \in Turn
      /\ s \in SlotSteps => l.slot \in Slot /\ s \in AnswerSteps
      /\ s \in {"tool", "processed"} => s \in AnswerSteps
  <2>1. HoldsAt(s, l)'
    BY DEF WellTyped, Holds
  <2>2. \A t \in 1..Len(calls) : t \in Turn
    BY CallKeys
  <2>. QED
    BY <1>0, <2>1, <2>2 DEF HoldsAt, AnswerSteps
<1>2. AllClosed' = AllClosed /\ \A t : Proposed(t)' = Proposed(t)
  BY <1>0 DEF AllClosed, Proposed
<1>3. \A t \in 1..Len(calls) : Repeated(t)' = Repeated(t)
  BY <1>0, RepeatedSame
<1>4. Unresolved = {} => Unresolved' = {}
  BY <1>0, UnresolvedStays
<1>5. \A o \in Op : Observed(o) => Observed(o)'
  BY <1>0, ObservedStays
<1>6. \A o \in Op : op[o] \in {"running"} \cup TerminalAction =>
        op'[o] \in {"running"} \cup TerminalAction /\ opEpoch'[o] = opEpoch[o]
  BY <1>0, OpCases DEF TerminalAction, Undispatched
<1>7. \A t \in Turn, i \in Slot : <<t, i>> \in Op
  BY DEF Op
<1>8. AloneAt(s, l)'
  BY <1>0, <1>1, <1>2, <1>3, <1>4 DEF AloneAt, AnswerSteps
<1>9. WritesAt(s, l)'
  <2>1. s \in {"execute", "complete"} =>
          /\ op'[<<l.turn, l.slot>>] \in {"running"} \cup TerminalAction
          /\ opEpoch'[<<l.turn, l.slot>>] = l.epoch
    BY <1>1, <1>6, <1>7 DEF WritesAt, SlotSteps
  <2>2. s \in {"tool"} \cup SlotSteps /\ Proposed(l.turn) = "write" =>
          \A i \in Slot : i < l.slot => Observed(<<l.turn, i>>)'
    BY <1>1, <1>5, <1>7 DEF WritesAt
  <2>3. s = "settle_tool" /\ Proposed(l.turn) = "write" => Observed(<<l.turn, l.slot>>)'
    BY <1>1, <1>5, <1>7 DEF WritesAt, SlotSteps
  <2>4. s = "processed" /\ Proposed(l.turn) = "write" =>
          \A i \in Slot : Observed(<<l.turn, i>>)'
    BY <1>1, <1>5, <1>7 DEF WritesAt
  <2>. QED
    BY <1>2, <2>1, <2>2, <2>3, <2>4 DEF WritesAt
<1>. QED
  BY <1>8, <1>9 DEF Knows, AloneAt, WritesAt

\* Steps at which the owner has nothing to know.
LEMMA KnowsNothing ==
  ASSUME NEW s, NEW l,
         s \notin {"next", "quota", "turn", "output", "begin"} \cup CallSteps \cup AnswerSteps
  PROVE  AloneAt(s, l) /\ WritesAt(s, l) /\ (AloneAt(s, l) /\ WritesAt(s, l))'
  BY DEF AloneAt, WritesAt, AnswerSteps, SlotSteps

Sound == WellTyped /\ Charged /\ Leases /\ Serial

\* What follows the last turn of a Run that one job advances.
LEMMA LastCall ==
  ASSUME WellTyped, \A t \in 1..Len(calls) : OrderedTurn(t),
         calls = <<>> \/ calls[Len(calls)].status \notin {"started", "response_committed"}
  PROVE  AllClosed
<1> SUFFICES ASSUME NEW t \in 1..Len(calls) PROVE calls[t].status \in Closed
  BY DEF AllClosed
<1>1. Len(calls) \in Nat /\ calls # <<>> /\ calls[t] \in CallRow
  BY CallKeys
<1>2. CASE t < Len(calls)
  BY <1>2 DEF OrderedTurn
<1>3. CASE t = Len(calls)
  BY <1>1, <1>3 DEF CallRow, Closed
<1>. QED
  BY <1>1, <1>2, <1>3

LEMMA OwnerBegin ==
  ASSUME Sound, Unanswered, NEW w \in Worker, Owns(w), Begin(w), ~WritesCall(w),
         NEW s, NEW l, pc'[w] = s, at'[w] = l
  PROVE  AloneAt(s, l) /\ WritesAt(s, l)
<1>0. WellTyped /\ Charged /\ Leases /\ Serial /\ AloneAt(pc[w], at[w]) /\ at[w] \in Local
  BY LocalFacts DEF Sound, Serial, Knows
<1>1. CASE Observe(w)
  <2>1. s \in {"ensure", "latest", "finish"}
    BY <1>0, <1>1, HoldStays DEF Observe
  <2>. QED
    BY <2>1, KnowsNothing DEF CallSteps, AnswerSteps, SlotSteps
<1>2. CASE Ensure(w)
  <2>1. s \in {"latest", "block"}
    BY <1>0, <1>2, GotoStep DEF Ensure
  <2>. QED
    BY <2>1, KnowsNothing DEF CallSteps, AnswerSteps, SlotSteps
<1>3. CASE Latest(w)
  <2>1. CASE calls # <<>> /\ calls[Len(calls)].status \in {"started", "response_committed"}
    <3>1. l.turn = Len(calls)
      <4>1. at' = [at EXCEPT ![w].turn = Len(calls), ![w].amount = calls[Len(calls)].amount]
        BY <1>3, <2>1 DEF Latest
      <4>2. at \in [Worker -> Local]
        BY <1>0 DEF WellTyped, Types
      <4>3. at'[w] = [at[w] EXCEPT !.turn = Len(calls), !.amount = calls[Len(calls)].amount]
        BY <4>1, <4>2
      <4>. QED
        BY <1>0, <4>3 DEF Local
    <3>2. Len(calls) \in 1..Len(calls)
      BY <1>0, <2>1, CallKeys DEF WellTyped, Types, RowTypes
    <3>3. s = IF calls[Len(calls)].status = "started" THEN "turn" ELSE "settle_turn"
      BY <1>0, <1>3, <2>1, GotoStep DEF Latest
    <3>4. CASE s = "turn"
      BY <3>1, <3>2, <3>4 DEF AloneAt, WritesAt, CallSteps, AnswerSteps, SlotSteps
    <3>5. CASE s = "settle_turn"
      <4>1. calls[l.turn].status = "response_committed"
        BY <2>1, <3>1, <3>3, <3>5
      <4>. QED
        BY <3>5, <4>1 DEF AloneAt, WritesAt, CallSteps, AnswerSteps, SlotSteps
    <3>. QED
      BY <3>3, <3>4, <3>5
  <2>2. CASE ~(calls # <<>> /\ calls[Len(calls)].status \in {"started", "response_committed"})
    <3>1. s = "next"
      BY <1>0, <1>3, <2>2, GotoStep DEF Latest
    <3>2. AllClosed
      BY <1>0, <2>2, LastCall DEF Serial
    <3>. QED
      BY <3>1, <3>2 DEF AloneAt, WritesAt, CallSteps, AnswerSteps, SlotSteps
  <2>. QED
    BY <2>1, <2>2
<1>4. CASE NextTurn(w)
  <2>1. s = "quota" /\ pc[w] = "next"
    BY <1>0, <1>4, HoldStays DEF NextTurn, Read, At
  <2>. QED
    BY <1>0, <2>1 DEF AloneAt, WritesAt, CallSteps, AnswerSteps, SlotSteps
<1>5. CASE Quota(w)
  <2>1. s \in {"exhausted", "turn"} /\ pc[w] = "quota"
    BY <1>0, <1>5, HoldStays, GotoStep DEF Quota, Read, At
  <2>. QED
    BY <1>0, <2>1 DEF AloneAt, WritesAt, CallSteps, AnswerSteps, SlotSteps
<1>6. CASE ReserveTurn(w)
  <2>1. s \in {"ensure", "latest", "finish", "block", "turn", "settle_turn", "next", "quota",
              "exhausted", "output"}
    BY <1>0, <1>6, ReadyAndTurnSteps
  <2>2. s \in {"block", "exhausted", "output"} /\ pc[w] = "turn" /\ l = at[w]
    <3>1. TurnKey(at[w].turn) \in Key
      BY <1>0, <1>6, LocalFacts, KeyTypes DEF ReserveTurn, At, HoldsAt, TurnSteps, Turn
    <3>2. Reserving(TurnKey(at[w].turn), 1) \in Outcomes
      BY <1>0, <3>1, ReserveType DEF WellTyped, Types
    <3>3. \E x \in {"output", "block", "exhausted"} : Goto(w, x)
      BY <1>6, <3>2 DEF ReserveTurn, Outcomes
    <3>. QED
      BY <1>0, <1>6, <3>3, GotoStep DEF ReserveTurn, At
  <2>. QED
    BY <1>0, <2>2 DEF AloneAt, WritesAt, CallSteps, AnswerSteps, SlotSteps
<1>7. CASE ReserveOutput(w)
  <2>1. s \in {"begin", "release"} /\ pc[w] = "output" /\ l.turn = at[w].turn
    BY <1>0, <1>7, HoldStays DEF ReserveOutput, At
  <2>. QED
    BY <1>0, <2>1 DEF AloneAt, WritesAt, CallSteps, AnswerSteps, SlotSteps
<1>8. CASE ReleaseTurn(w)
  <2>1. at[w].then \in {"idle", "block", "exhausted"}
    BY <1>0, <1>8, LocalFacts DEF ReleaseTurn, At, HoldsAt
  <2>2. Drop(w) \/ Goto(w, "block") \/ Goto(w, "exhausted")
    BY <1>8, <2>1 DEF ReleaseTurn
  <2>3. s \in {"idle", "block", "exhausted"}
    BY <1>0, <2>2, GotoStep, DropStep
  <2>. QED
    BY <2>3, KnowsNothing DEF CallSteps, AnswerSteps, SlotSteps
<1>9. CASE BeginCall(w)
  <2>1. ~(run = "running" /\ at[w].turn > Len(calls))
    BY <1>0, <1>9, BeginCallWrites DEF WritesCall
  <2>2. /\ l = at[w]
        /\ \/ s = "block"
           \/ s = "generate" /\ Call(w).status = "started"
           \/ s = "settle_turn" /\ Call(w).status = "response_committed"
    BY <1>0, <1>9, <2>1, GotoStep DEF BeginCall
  <2>. QED
    BY <2>2 DEF AloneAt, WritesAt, CallSteps, AnswerSteps, SlotSteps, Call
<1>10. CASE Generate(w)
  <2>1. s = "commit" /\ pc[w] = "generate" /\ l = at[w]
    BY <1>0, <1>10, GotoStep DEF Generate, Read, At
  <2>. QED
    BY <1>0, <2>1 DEF AloneAt, WritesAt, CallSteps, AnswerSteps, SlotSteps
<1>11. CASE CommitCall(w)
  <2>1. pc[w] = "commit"
    BY <1>11 DEF CommitCall, At
  <2>2. Call(w).status = "started"
    BY <1>0, <2>1 DEF AloneAt, CallSteps, Call
  <2>. QED
    BY <1>0, <1>11, <2>2, CommitCallWrites DEF WritesCall
<1>12. CASE SettleTurn(w) \/ SettleOutput(w)
  <2>1. s \in {"block", "exhausted", "settle_output", "process"}
    BY <1>0, <1>12, SettleSteps
  <2>2. pc[w] \in {"settle_turn", "settle_output"} /\ l = at[w]
    BY <1>12 DEF SettleTurn, SettleOutput, SettleUsage, At
  <2>. QED
    BY <1>0, <2>1, <2>2 DEF AloneAt, WritesAt, CallSteps, AnswerSteps, SlotSteps
<1>. QED
  BY <1>1, <1>2, <1>3, <1>4, <1>5, <1>6, <1>7, <1>8, <1>9, <1>10, <1>11, <1>12 DEF Begin

LEMMA OwnerProcessAnswer ==
  ASSUME Sound, Unanswered, NEW w \in Worker, Owns(w), ProcessAnswer(w), ~WritesCall(w),
         NEW s, NEW l, pc'[w] = s, at'[w] = l
  PROVE  AloneAt(s, l) /\ WritesAt(s, l)
<1>0. /\ WellTyped /\ AloneAt(pc[w], at[w]) /\ WritesAt(pc[w], at[w])
      /\ PaidAt(pc[w], at[w]) /\ at[w] \in Local
  BY LocalFacts DEF Sound, Serial, Knows, Charged, Paid
<1>1. CASE Process(w)
  <2>1. pc[w] = "process" /\ calls[at[w].turn].status = "response_committed"
    BY <1>0, <1>1 DEF Process, Read, At, AloneAt, AnswerSteps
  <2>2. l.turn = at[w].turn /\ l.slot = 1
    <3>1. at' = [at EXCEPT ![w].seen = run, ![w].slot = 1, ![w].then = "tool"]
      BY <1>1 DEF Process
    <3>2. at \in [Worker -> Local]
      BY <1>0 DEF WellTyped, Types
    <3>3. at'[w] = [at[w] EXCEPT !.seen = run, !.slot = 1, !.then = "tool"]
      BY <3>1, <3>2
    <3>. QED
      BY <1>0, <3>3 DEF Local
  <2>3. Repeats(w) = Repeated(l.turn) /\ Repeated(l.turn) \in Nat
    BY <1>0, <2>2, RepeatedType DEF Repeats, Repeated, Call
  <2>4. \/ s \in {"finish", "reject", "ask", "verify"}
        \/ s = "stall" /\ Repeats(w) >= MaxNoProgress
        \/ s = "tool" /\ ~(Repeats(w) >= MaxNoProgress)
    <3>1. \/ \E x \in {"finish", "reject", "ask", "verify"} : Goto(w, x)
          \/ Goto(w, "stall") /\ Repeats(w) >= MaxNoProgress
          \/ Goto(w, "tool") /\ ~(Repeats(w) >= MaxNoProgress)
      BY <1>1 DEF Process
    <3>. QED
      BY <1>0, <3>1, GotoStep
  <2>5. MaxNoProgress \in Nat /\ \A i \in Slot : ~(i < l.slot)
    BY <2>2, SizesAssumption DEF Slot
  <2>6. AloneAt(s, l)
    BY <2>1, <2>2, <2>3, <2>4, <2>5 DEF AloneAt, AnswerSteps, SlotSteps, CallSteps
  <2>7. WritesAt(s, l)
    BY <2>4, <2>5 DEF WritesAt, SlotSteps
  <2>. QED
    BY <2>6, <2>7
<1>2. CASE Reject(w, "reject", "repairs") \/ Reject(w, "stall", "fail") \/ Repairs(w)
           \/ MarkProcessed(w)
  <2>1. s \in {"repairs", "fail", "return", "block"}
    BY <1>0, <1>2, GotoStep DEF Reject, Repairs, MarkProcessed
  <2>. QED
    BY <2>1, KnowsNothing DEF CallSteps, AnswerSteps, SlotSteps
<1>3. CASE Ask(w)
  <2>1. /\ pc[w] = "ask" /\ s \in {"block", "processed"} /\ l = at[w]
    BY <1>0, <1>3, GotoStep DEF Ask, At
  <2>2. calls[l.turn].status = "response_committed" /\ Proposed(l.turn) = "clarify"
    BY <1>0, <2>1 DEF AloneAt, PaidAt, AnswerSteps
  <2>. QED
    BY <2>1, <2>2 DEF AloneAt, WritesAt, CallSteps, AnswerSteps, SlotSteps
<1>4. CASE Verify(w)
  <2>1. /\ pc[w] = "verify" /\ s = "record" /\ l.turn = at[w].turn
        /\ l.flag = (Is(w, {"final"}) /\ Unresolved = {})
    BY <1>0, <1>4, HoldStays DEF Verify, Read, At
  <2>2. calls[l.turn].status = "response_committed"
    BY <1>0, <2>1 DEF AloneAt, AnswerSteps
  <2>. QED
    BY <2>1, <2>2 DEF AloneAt, WritesAt, CallSteps, AnswerSteps, SlotSteps
<1>5. CASE Record(w)
  <2>1. /\ pc[w] = "record" /\ s \in {"block", "processed"} /\ l = at[w]
    BY <1>0, <1>5, GotoStep DEF Record, At
  <2>2. /\ calls[l.turn].status = "response_committed"
        /\ Proposed(l.turn) \in {"final", "unsupported"}
    BY <1>0, <2>1 DEF AloneAt, PaidAt, AnswerSteps
  <2>. QED
    BY <2>1, <2>2 DEF AloneAt, WritesAt, CallSteps, AnswerSteps, SlotSteps
<1>. QED
  BY <1>1, <1>2, <1>3, <1>4, <1>5 DEF ProcessAnswer

\* An operation of a local write that the owner cannot dispatch has an outcome,
\* or the Run is not live.
LEMMA NothingToDispatch ==
  ASSUME Sound, Unanswered, NEW w \in Worker, Owns(w), pc[w] = "dispatch",
         Proposed(at[w].turn) = "write",
         ~(Dispatchable(w, ThisOp(w)) /\ run = "running")
  PROVE  Observed(ThisOp(w))
<1>0. WellTyped /\ Leases /\ Serial /\ ThisOp(w) \in Op
  BY SlotHolds DEF Sound, SlotSteps
<1> SUFFICES ASSUME run \in Live, op[ThisOp(w)] \in {"ready", "running"} PROVE FALSE
  BY <1>0, OpTypes DEF Observed
<1>1. run = "running"
  <2>1. at[w].turn \in 1..Len(calls)
    BY <1>0, AnswerTurn DEF AnswerSteps, SlotSteps
  <2>2. calls # <<>>
    BY <2>1
  <2>. QED
    BY <1>0, <2>2 DEF Serial, Live
<1>2. Is(w, {"write"})
  BY DEF Is, Call, Proposed
<1>3. op[ThisOp(w)] = "running" /\ ~(opEpoch[ThisOp(w)] < at[w].epoch)
  BY <1>1, <1>2 DEF Dispatchable
<1>4. at[w].epoch = jobs[1].epoch /\ at[w].epoch \in Nat /\ opEpoch[ThisOp(w)] \in Nat
  BY <1>0, OwnerFacts, EpochTypes, OpTypes
<1>5. OpenOp(ThisOp(w))
  BY <1>0 DEF Serial
<1>6. opEpoch[ThisOp(w)] = at[w].epoch
  BY <1>3, <1>4, <1>5 DEF OpenOp
<1>. QED
  BY <1>3, <1>5, <1>6 DEF OpenOp

LEMMA OwnerOperate ==
  ASSUME Sound, Unanswered, NEW w \in Worker, Owns(w), Operate(w),
         ~Admits(w), ~Dispatches(w), ~Completes(w), NEW s, NEW l, pc'[w] = s, at'[w] = l
  PROVE  AloneAt(s, l) /\ WritesAt(s, l)
<1>0. /\ WellTyped /\ AloneAt(pc[w], at[w]) /\ WritesAt(pc[w], at[w])
      /\ PaidAt(pc[w], at[w]) /\ at[w] \in Local
  BY LocalFacts DEF Sound, Serial, Knows, Charged, Paid
<1>a. /\ pc[w] \in {"tool"} \cup SlotSteps
      /\ calls[at[w].turn].status = "response_committed" /\ Repeated(at[w].turn) < MaxNoProgress
      /\ Proposed(at[w].turn) = "write" =>
           \A i \in Slot : i < at[w].slot => Observed(<<at[w].turn, i>>)
      /\ at[w].slot \in Nat
  <2>1. pc[w] \in {"tool"} \cup SlotSteps
    BY DEF Operate, ReserveTool, AdmitOp, RefuseOp, StartOp, DispatchOp, ExecuteOp,
           CompleteOp, SettleTool, At, SlotSteps
  <2>. QED
    BY <1>0, <2>1 DEF AloneAt, WritesAt, AnswerSteps, Local
<1>b. \A i \in Slot : i \in Nat /\ i <= Ops
  BY SizesAssumption DEF Slot
<1>c. pc[w] \in SlotSteps => ThisOp(w) \in Op
  BY <1>0, SlotHolds
<1>1. CASE ReserveTool(w)
  <2>1. l = at[w] /\ s \in {"processed", "admit", "block", "exhausted"}
    <3>1. CASE at[w].slot > Ops
      BY <1>0, <1>1, <3>1, GotoStep DEF ReserveTool
    <3>2. CASE ~(at[w].slot > Ops)
      <4>1. at[w].slot \in 1..(Ops + 1) /\ at[w].turn \in Turn
        BY <1>0, <1>1, LocalFacts, AnswerTurn DEF ReserveTool, At, HoldsAt, AnswerSteps
      <4>2. ToolKey(ThisOp(w)) \in Key
        BY <3>2, <4>1, KeyTypes, SizesAssumption DEF ThisOp, Op, Slot
      <4>3. Reserving(ToolKey(ThisOp(w)), 1) \in Outcomes
        BY <1>0, <4>2, ReserveType DEF WellTyped, Types
      <4>4. PICK x \in {"admit", "block", "exhausted"} : Goto(w, x)
        BY <1>1, <3>2, <4>3 DEF ReserveTool, Outcomes
      <4>. QED
        BY <1>0, <1>1, <4>4, GotoStep DEF ReserveTool
    <3>. QED
      BY <3>1, <3>2
  <2>2. s = "processed" => \A i \in Slot : i < at[w].slot
    <3>1. CASE at[w].slot > Ops
      BY <1>a, <1>b, <3>1, SizesAssumption
    <3>2. CASE ~(at[w].slot > Ops) /\ s = "processed"
      <4>1. at[w].slot \in 1..(Ops + 1) /\ at[w].turn \in Turn
        BY <1>0, <1>1, LocalFacts, AnswerTurn DEF ReserveTool, At, HoldsAt, AnswerSteps
      <4>2. ToolKey(ThisOp(w)) \in Key
        BY <3>2, <4>1, KeyTypes, SizesAssumption DEF ThisOp, Op, Slot
      <4>3. Reserving(ToolKey(ThisOp(w)), 1) \in Outcomes
        BY <1>0, <4>2, ReserveType DEF WellTyped, Types
      <4>4. PICK x \in {"admit", "block", "exhausted"} : Goto(w, x)
        BY <1>1, <3>2, <4>3 DEF ReserveTool, Outcomes
      <4>. QED
        BY <1>0, <3>2, <4>4, GotoStep
    <3>. QED
      BY <3>1, <3>2
  <2>. QED
    BY <1>a, <2>1, <2>2 DEF AloneAt, WritesAt, CallSteps, AnswerSteps, SlotSteps
<1>2. CASE AdmitOp(w)
  <2>1. pc[w] = "admit" /\ pc[w] \in SlotSteps /\ l = at[w] /\ ThisOp(w) \in Op
    BY <1>2, <1>c DEF AdmitOp, At, SlotSteps
  <2>2. op' = op
    <3>1. SUFFICES ASSUME op' # op PROVE FALSE
      OBVIOUS
    <3>2. op[ThisOp(w)] = "none" /\ run \in Live /\ op' = [op EXCEPT ![ThisOp(w)] = "ready"]
      BY <1>2, <3>1 DEF AdmitOp, Live
    <3>3. op'[ThisOp(w)] = "ready"
      BY <1>0, <2>1, <3>2, OpTypes
    <3>4. pc'[w] = "start" /\ Fenced(w)
      BY <1>0, <1>2, <3>3, GotoStep DEF AdmitOp, At, FencedStep
    <3>. QED
      BY <1>2, <2>1, <3>2, <3>4 DEF AdmitOp, Admits
  <2>3. \/ s = "settle_tool" /\ op[ThisOp(w)] \in {"none", "succeeded", "failed"}
        \/ s = "start"
    BY <1>0, <1>2, <2>2, GotoStep DEF AdmitOp
  <2>4. s = "settle_tool" => Observed(<<at[w].turn, at[w].slot>>)
    BY <2>3 DEF Observed, TerminalAction, ThisOp
  <2>. QED
    BY <1>a, <2>1, <2>3, <2>4 DEF AloneAt, WritesAt, CallSteps, AnswerSteps, SlotSteps
<1>3. CASE RefuseOp(w)
  <2>1. s = "settle_tool" /\ l.turn = at[w].turn /\ l.slot = at[w].slot
    BY <1>0, <1>3, HoldStays DEF RefuseOp
  <2>2. Proposed(at[w].turn) # "write"
    BY <1>3 DEF RefuseOp, Is, Call, Proposed
  <2>. QED
    BY <1>a, <2>1, <2>2 DEF AloneAt, WritesAt, CallSteps, AnswerSteps, SlotSteps
<1>4. CASE StartOp(w)
  <2>1. l = at[w] /\ (s = "dispatch" \/ (s = "settle_tool" /\ run \notin Live))
    BY <1>0, <1>4, GotoStep DEF StartOp, Live
  <2>2. s = "settle_tool" => Observed(<<at[w].turn, at[w].slot>>)
    BY <2>1 DEF Observed
  <2>. QED
    BY <1>a, <2>1, <2>2 DEF AloneAt, WritesAt, CallSteps, AnswerSteps, SlotSteps
<1>5. CASE DispatchOp(w)
  <2>1. ~(Dispatchable(w, ThisOp(w)) /\ run = "running")
    <3>1. SUFFICES ASSUME Dispatchable(w, ThisOp(w)) /\ run = "running" PROVE FALSE
      OBVIOUS
    <3>2. pc[w] = "dispatch" /\ Fenced(w) /\ ThisOp(w) \in Op
      BY <1>5, <1>c DEF DispatchOp, At, FencedStep, SlotSteps
    <3>. QED
      BY <1>0, <1>5, <3>1, <3>2, GotoStep DEF DispatchOp, Dispatches
  <2>2. l = at[w] /\ s = "settle_tool" /\ pc[w] = "dispatch"
    BY <1>0, <1>5, <2>1, GotoStep DEF DispatchOp, At
  <2>3. Proposed(at[w].turn) = "write" => Observed(<<at[w].turn, at[w].slot>>)
    BY <2>1, <2>2, NothingToDispatch DEF ThisOp
  <2>. QED
    BY <1>a, <2>2, <2>3 DEF AloneAt, WritesAt, CallSteps, AnswerSteps, SlotSteps
<1>6. CASE ExecuteOp(w)
  <2>1. \E ok \in BOOLEAN : Hold(w, "flag", ok, "complete")
    BY <1>6 DEF ExecuteOp
  <2>2. /\ s = "complete" /\ l.turn = at[w].turn /\ l.slot = at[w].slot
        /\ l.epoch = at[w].epoch /\ pc[w] = "execute"
    BY <1>0, <1>6, <2>1, HoldStays DEF ExecuteOp, At
  <2>3. /\ op[<<l.turn, l.slot>>] \in {"running"} \cup TerminalAction
        /\ opEpoch[<<l.turn, l.slot>>] = l.epoch
    BY <1>0, <2>2 DEF WritesAt
  <2>. QED
    BY <1>a, <2>2, <2>3 DEF AloneAt, WritesAt, CallSteps, AnswerSteps, SlotSteps
<1>7. CASE CompleteOp(w)
  <2>1. /\ s = "settle_tool" /\ l.turn = at[w].turn /\ l.slot = at[w].slot
        /\ pc[w] = "complete" /\ Fenced(w) /\ ThisOp(w) \in Op
    BY <1>0, <1>7, <1>c, HoldStays DEF CompleteOp, At, FencedStep, SlotSteps
  <2>2. op[ThisOp(w)] \in {"running"} \cup TerminalAction /\ opEpoch[ThisOp(w)] = at[w].epoch
    BY <1>0, <2>1 DEF WritesAt, ThisOp
  <2>3. op[ThisOp(w)] # "running"
    <3>1. SUFFICES ASSUME op[ThisOp(w)] = "running" PROVE FALSE
      OBVIOUS
    <3>2. \E x \in {"succeeded", "failed"} : op' = [op EXCEPT ![ThisOp(w)] = x]
      BY <1>7, <2>2, <3>1 DEF CompleteOp
    <3>. QED
      BY <1>7, <2>1, <2>2, <3>1, <3>2 DEF CompleteOp, Completes
  <2>4. Observed(<<at[w].turn, at[w].slot>>)
    BY <2>2, <2>3 DEF Observed, ThisOp
  <2>. QED
    BY <1>a, <2>1, <2>4 DEF AloneAt, WritesAt, CallSteps, AnswerSteps, SlotSteps
<1>8. CASE SettleTool(w)
  <2>1. ThisOp(w) \in Op /\ at[w].then \in {"idle", "block", "tool"} /\ pc[w] = "settle_tool"
    BY <1>0, <1>8, LocalFacts, SlotHolds DEF SettleTool, At, SlotSteps, HoldsAt
  <2>2. Settling(ToolKey(ThisOp(w)), 1) \in Outcomes
    BY <1>0, <2>1, KeyTypes, SettleType DEF WellTyped, Types
  <2>3. Drop(w) \/ Goto(w, "block") \/ Goto(w, "exhausted")
        \/ Hold(w, "slot", at[w].slot + 1, "tool")
    BY <1>8, <2>1, <2>2 DEF SettleTool, Outcomes
  <2>4. CASE Hold(w, "slot", at[w].slot + 1, "tool")
    <3>1. s = "tool" /\ l.turn = at[w].turn /\ l.slot = at[w].slot + 1
      BY <1>0, <2>4, HoldStays
    <3>2. Proposed(at[w].turn) = "write" =>
            \A i \in Slot : i < at[w].slot + 1 => Observed(<<at[w].turn, i>>)
      <4>1. Proposed(at[w].turn) = "write" => Observed(<<at[w].turn, at[w].slot>>)
        BY <1>0, <2>1 DEF WritesAt
      <4>2. \A i \in Slot : i < at[w].slot + 1 => i < at[w].slot \/ i = at[w].slot
        BY <1>a, <1>b
      <4>. QED
        BY <1>a, <4>1, <4>2
    <3>. QED
      BY <1>a, <3>1, <3>2 DEF AloneAt, WritesAt, CallSteps, AnswerSteps, SlotSteps
  <2>5. CASE Drop(w) \/ Goto(w, "block") \/ Goto(w, "exhausted")
    <3>1. s \in {"idle", "block", "exhausted"}
      BY <1>0, <2>5, GotoStep, DropStep
    <3>. QED
      BY <3>1, KnowsNothing DEF CallSteps, AnswerSteps, SlotSteps
  <2>. QED
    BY <2>3, <2>4, <2>5
<1>. QED
  BY <1>1, <1>2, <1>3, <1>4, <1>5, <1>6, <1>7, <1>8 DEF Operate

\* What the owner knows after it has written a call.
LEMMA CallWriterKnows ==
  ASSUME Sound, WellTyped', NEW w \in Worker, WritesCall(w)
  PROVE  Knows(w)'
<1>1. PICK s \in Steps, l \in Local : pc'[w] = s /\ at'[w] = l
  BY DEF WellTyped, Types
<1>2. CASE Opens(w)
  <2>1. s = "generate" /\ calls'[l.turn].status = "started"
    BY <1>1, <1>2 DEF Opens
  <2>2. AloneAt(s, l)' /\ WritesAt(s, l)'
    BY <2>1 DEF AloneAt, WritesAt, CallSteps, AnswerSteps, SlotSteps
  <2>. QED
    BY <1>1, <2>2 DEF Knows, AloneAt, WritesAt
<1>3. ASSUME NEW t \in 1..Len(calls), Answers(w, t) PROVE Knows(w)'
  <2>1. s = "settle_turn" /\ calls'[l.turn].status = "response_committed"
    BY <1>1, <1>3 DEF Answers
  <2>2. AloneAt(s, l)' /\ WritesAt(s, l)'
    BY <2>1 DEF AloneAt, WritesAt, CallSteps, AnswerSteps, SlotSteps
  <2>. QED
    BY <1>1, <2>2 DEF Knows, AloneAt, WritesAt
<1>4. ASSUME NEW t \in 1..Len(calls), Closes(w, t) PROVE Knows(w)'
  <2>1. s \in {"repairs", "fail", "return", "block"}
    BY <1>1, <1>4 DEF Closes
  <2>2. AloneAt(s, l)' /\ WritesAt(s, l)'
    BY <2>1, KnowsNothing DEF CallSteps, AnswerSteps, SlotSteps
  <2>. QED
    BY <1>1, <2>2 DEF Knows, AloneAt, WritesAt
<1>. QED
  BY <1>2, <1>3, <1>4 DEF WritesCall

\* What it knows after it has written an operation.
LEMMA OpWriterKnows ==
  ASSUME Sound, WellTyped', [Next]_vars, Unanswered, Unanswered', NEW w \in Worker, Owns(w),
         Admits(w) \/ Dispatches(w) \/ (Completes(w) /\ CompleteOp(w))
  PROVE  Knows(w)'
<1>0. /\ WellTyped /\ Leases /\ AloneAt(pc[w], at[w]) /\ WritesAt(pc[w], at[w]) /\ at[w] \in Local
  BY LocalFacts DEF Sound, Serial, Knows
<1>1. PICK s \in Steps, l \in Local : pc'[w] = s /\ at'[w] = l
  BY DEF WellTyped, Types
<1>2. /\ pc[w] \in {"admit", "dispatch", "complete"} /\ calls' = calls
      /\ s \in {"start", "execute", "settle_tool"} /\ ThisOp(w) \in Op
      /\ l.turn = at[w].turn /\ l.slot = at[w].slot
  <2>1. CASE Admits(w) \/ Dispatches(w)
    BY <1>1, <2>1 DEF Admits, Dispatches
  <2>2. CASE Completes(w) /\ CompleteOp(w)
    BY <1>0, <1>1, <2>2, HoldStays DEF Completes, CompleteOp
  <2>. QED
    BY <2>1, <2>2
<1>3. /\ calls[l.turn].status = "response_committed" /\ Repeated(l.turn) < MaxNoProgress
      /\ Proposed(l.turn) = "write" =>
           \A i \in Slot : i < l.slot => Observed(<<l.turn, i>>)
      /\ l.turn \in Turn /\ l.slot \in Slot
  BY <1>0, <1>2, AnswerTurn, SlotHolds DEF AloneAt, WritesAt, AnswerSteps, SlotSteps
<1>4. Repeated(l.turn)' = Repeated(l.turn) /\ Proposed(l.turn)' = Proposed(l.turn)
  BY <1>2 DEF Repeated, Proposed
<1>5. AloneAt(s, l)'
  BY <1>2, <1>3, <1>4 DEF AloneAt, CallSteps, AnswerSteps, SlotSteps
<1>6. ASSUME NEW i \in Slot, i < l.slot, Proposed(l.turn) = "write"
      PROVE  Observed(<<l.turn, i>>)'
  <2>1. PICK o \in Op : o = <<l.turn, i>>
    BY <1>3 DEF Op
  <2>2. Observed(o)
    BY <1>3, <1>6, <2>1
  <2>3. ASSUME NEW x \in Worker, Admits(x) PROVE ThisOp(x) # o
    <3>1. Owns(x)
      BY <1>0, <2>3, FencedOwns DEF Admits, ClaimSteps, CancelSteps
    <3>2. x = w
      BY <1>0, <3>1, OwnerFacts
    <3>3. i # l.slot
      BY <1>3, <1>6, SizesAssumption DEF Slot
    <3>. QED
      BY <1>2, <2>1, <3>2, <3>3 DEF ThisOp
  <2>4. Observed(o)'
    BY <1>0, <2>2, <2>3, ObservedStays
  <2>. QED
    BY <2>1, <2>4
<1>7. s = "execute" => /\ op'[<<l.turn, l.slot>>] = "running"
                       /\ opEpoch'[<<l.turn, l.slot>>] = l.epoch
  <2>1. SUFFICES ASSUME s = "execute" PROVE /\ op'[<<l.turn, l.slot>>] = "running"
                                            /\ opEpoch'[<<l.turn, l.slot>>] = l.epoch
    OBVIOUS
  <2>2. Dispatches(w) /\ at' = at
    BY <1>1, <2>1 DEF Admits, Dispatches, Completes
  <2>3. op'[ThisOp(w)] = "running" /\ opEpoch'[ThisOp(w)] = at[w].epoch
    BY <1>0, <1>2, <2>2, OpTypes DEF Dispatches
  <2>. QED
    BY <1>1, <2>2, <2>3 DEF ThisOp
<1>8. s = "settle_tool" => Observed(<<l.turn, l.slot>>)'
  <2>1. SUFFICES ASSUME s = "settle_tool" PROVE Observed(<<l.turn, l.slot>>)'
    OBVIOUS
  <2>2. Completes(w)
    BY <1>1, <2>1 DEF Admits, Dispatches, Completes
  <2>3. op'[ThisOp(w)] \in {"succeeded", "failed"}
    BY <1>0, <1>2, <2>2, OpTypes DEF Completes
  <2>. QED
    BY <1>2, <2>3 DEF Observed, TerminalAction, ThisOp
<1>9. WritesAt(s, l)'
  BY <1>2, <1>4, <1>6, <1>7, <1>8 DEF WritesAt, SlotSteps
<1>. QED
  BY <1>1, <1>5, <1>9 DEF Knows, AloneAt, WritesAt

\* The owner of the job knows what it needs after every step.
LEMMA OwnerKnows ==
  ASSUME Sound, WellTyped', [Next]_vars, Unanswered', NEW v \in Worker, Owns(v)'
  PROVE  Knows(v)'
<1>0. WellTyped /\ Leases /\ JobsGrow
  BY JobsGrowStep DEF Sound
<1>1. Unanswered
  BY <1>0, UnansweredBefore
<1>2. PICK s \in Steps, l \in Local : pc'[v] = s /\ at'[v] = l
  BY DEF WellTyped, Types
<1>3. ASSUME s \notin {"next", "quota", "turn", "output", "begin"} \cup CallSteps \cup AnswerSteps
      PROVE  Knows(v)'
  <2>1. AloneAt(s, l)' /\ WritesAt(s, l)'
    BY <1>3, KnowsNothing
  <2>. QED
    BY <1>2, <2>1 DEF Knows, AloneAt, WritesAt
<1>4. CASE NewClaim(v) /\ pc'[v] = "observe"
  BY <1>2, <1>3, <1>4 DEF CallSteps, AnswerSteps, SlotSteps
<1>5. CASE Owns(v) /\ KeepsClaim(v)
  <2>1. CASE WritesCall(v)
    BY <2>1, CallWriterKnows
  <2>2. CASE Admits(v) \/ Dispatches(v) \/ (Completes(v) /\ CompleteOp(v))
    BY <1>1, <1>5, <2>2, OpWriterKnows
  <2>3. CASE ~WritesCall(v) /\ ~Admits(v) /\ ~Dispatches(v) /\ ~(Completes(v) /\ CompleteOp(v))
    <3>1. Quiet
      BY <1>0, <1>1, <1>5, <2>3, OwnerQuiet
    <3>2. ASSUME pc'[v] = pc[v], at'[v] = at[v] PROVE Knows(v)'
      <4>1. Knows(v)
        BY <1>1, <1>5 DEF Sound, Serial
      <4>2. AloneAt(s, l) /\ WritesAt(s, l)
        BY <1>2, <3>2, <4>1 DEF Knows
      <4>. QED
        BY <1>0, <1>2, <3>1, <4>2, KnowsMoves
    <3>3. ASSUME AloneAt(s, l), WritesAt(s, l) PROVE Knows(v)'
      BY <1>0, <1>2, <3>1, <3>3, KnowsMoves
    <3>4. CASE UNCHANGED vars \/ User
      BY <3>2, <3>4 DEF User, RequestCancellation, RespondAnswer, vars
    <3>5. ASSUME NEW w \in Worker, NEW j \in DOMAIN jobs, Claim(w, j) PROVE Knows(v)'
      <4>1. w # v
        BY <1>5, <3>5 DEF Claim, Owns
      <4>. QED
        BY <1>0, <3>2, <3>5, <4>1, ClaimKeeps DEF Keeps, Mine
    <3>6. ASSUME NEW w \in Worker, WorkerStep(w) \/ Faulty(w), w # v PROVE Knows(v)'
      BY <1>0, <3>2, <3>6, WorkerKeeps DEF Keeps, Mine
    <3>7. CASE Begin(v)
      BY <1>1, <1>2, <1>5, <2>3, <3>3, <3>7, OwnerBegin
    <3>8. CASE ProcessAnswer(v)
      BY <1>1, <1>2, <1>5, <2>3, <3>3, <3>8, OwnerProcessAnswer
    <3>9. CASE Operate(v)
      <4>1. ~Completes(v)
        BY <2>3, <3>9 DEF Completes, Operate, ReserveTool, AdmitOp, RefuseOp, StartOp,
           DispatchOp, ExecuteOp, SettleTool, At
      <4>. QED
        BY <1>1, <1>2, <1>5, <2>3, <3>3, <3>9, <4>1, OwnerOperate
    <3>10. CASE End(v) \/ Cancel(v) \/ Faulty(v)
      <4>1. s \in {"finish", "idle", "reconcile", "defer", "refinalize", "release", "block"}
        BY <1>0, <1>2, <3>10, EndSteps, CancelNext, FaultySteps
      <4>. QED
        BY <1>3, <4>1 DEF CallSteps, AnswerSteps, SlotSteps
    <3>. QED
      BY <3>4, <3>5, <3>6, <3>7, <3>8, <3>9, <3>10 DEF Next, WorkerStep
  <2>. QED
    BY <2>1, <2>2, <2>3
<1>. QED
  BY <1>0, <1>4, <1>5, OwnedBefore
-----------------------------------------------------------------------------
(* The turns and the operations of a Run that one job advances *)

\* A worker that writes a call or admits an operation owns the job.
LEMMA WriterOwns ==
  ASSUME Sound, Unanswered, NEW w \in Worker, WritesCall(w) \/ Admits(w) \/ Dispatches(w)
  PROVE  Owns(w) /\ AloneAt(pc[w], at[w]) /\ WritesAt(pc[w], at[w])
<1>1. /\ pc[w] \in {"begin", "commit", "reject", "stall", "processed", "admit", "dispatch"}
      /\ Fenced(w)
  BY DEF WritesCall, Opens, Answers, Closes, Admits, Dispatches
<1>2. Owns(w)
  BY <1>1, FencedOwns DEF Sound, ClaimSteps, CancelSteps
<1>. QED
  BY <1>2 DEF Sound, Serial, Knows

LEMMA ObservedSame ==
  ASSUME UNCHANGED <<run, opVars>>, NEW o
  PROVE  Observed(o)' = Observed(o)
  BY DEF Observed, opVars

\* A turn of which no row is written.
LEMMA OrderedTurnStays ==
  ASSUME Sound, WellTyped', [Next]_vars, Unanswered, Unanswered',
         NEW t \in 1..Len(calls), calls'[t] = calls[t],
         t < Len(calls') => calls[t].status \in Closed
  PROVE  OrderedTurn(t)'
<1>0. WellTyped /\ Leases /\ OrderedTurn(t) /\ t \in Turn
  BY CallKeys DEF Sound, Serial
<1>1. ASSUME NEW i \in Slot, calls[t].status = "processed", Proposed(t) = "write"
      PROVE  Observed(<<t, i>>)'
  <2>1. PICK o \in Op : o = <<t, i>>
    BY <1>0 DEF Op
  <2>2. Observed(o)
    BY <1>0, <1>1, <2>1 DEF OrderedTurn
  <2>3. ASSUME NEW x \in Worker, Admits(x) PROVE ThisOp(x) # o
    <3>1. AloneAt(pc[x], at[x]) /\ pc[x] = "admit"
      BY <1>0, <2>3, WriterOwns DEF Admits
    <3>2. calls[at[x].turn].status = "response_committed"
      BY <3>1 DEF AloneAt, AnswerSteps, SlotSteps
    <3>. QED
      BY <1>1, <2>1, <3>2 DEF ThisOp
  <2>4. Observed(o)'
    BY <1>0, <2>2, <2>3, ObservedStays
  <2>. QED
    BY <2>1, <2>4
<1>2. Proposed(t)' = Proposed(t)
  BY DEF Proposed
<1>. QED
  BY <1>1, <1>2 DEF OrderedTurn

LEMMA OrderedTurnStep ==
  ASSUME Sound, WellTyped', [Next]_vars, Unanswered, Unanswered', NEW t \in 1..Len(calls')
  PROVE  OrderedTurn(t)'
<1>0. WellTyped /\ Len(calls) \in Nat /\ \A u \in 1..Len(calls) : OrderedTurn(u)
  BY CallKeys DEF Sound, Serial
<1>1. CASE calls' = calls
  BY <1>0, <1>1, OrderedTurnStays DEF OrderedTurn
<1>2. ASSUME NEW w \in Worker, Opens(w) PROVE OrderedTurn(t)'
  <2>1. AllClosed
    <3>1. AloneAt(pc[w], at[w])
      BY <1>2, WriterOwns DEF WritesCall
    <3>2. pc[w] = "begin" /\ at[w].turn \notin 1..Len(calls)
      BY <1>0, <1>2 DEF Opens
    <3>. QED
      BY <3>1, <3>2 DEF AloneAt
  <2>2. CASE t \in 1..Len(calls)
    <3>1. calls'[t] = calls[t] /\ calls[t].status \in Closed
      BY <1>2, <2>1, <2>2 DEF Opens, AllClosed
    <3>. QED
      BY <2>2, <3>1, OrderedTurnStays
  <2>3. CASE t = Len(calls) + 1
    <3>1. calls'[t].status = "started" /\ ~(t < Len(calls'))
      BY <1>0, <1>2, <2>3 DEF Opens
    <3>. QED
      BY <3>1 DEF OrderedTurn
  <2>4. t \in 1..Len(calls) \/ t = Len(calls) + 1
    BY <1>0, <1>2 DEF Opens
  <2>. QED
    BY <2>2, <2>3, <2>4
<1>3. ASSUME NEW w \in Worker, NEW u \in 1..Len(calls), Answers(w, u) PROVE OrderedTurn(t)'
  <2>1. t \in 1..Len(calls) /\ Len(calls') = Len(calls)
    BY <1>3 DEF Answers
  <2>2. CASE t # u
    <3>1. calls'[t] = calls[t]
      BY <1>3, <2>1, <2>2 DEF Answers
    <3>. QED
      BY <1>0, <2>1, <3>1, OrderedTurnStays DEF OrderedTurn
  <2>3. CASE t = u
    <3>1. calls[t].status = "started" /\ calls'[t].status = "response_committed"
      BY <1>3, <2>3 DEF Answers
    <3>2. ~(t < Len(calls'))
      BY <1>0, <2>1, <3>1 DEF OrderedTurn, Closed
    <3>. QED
      BY <3>1, <3>2 DEF OrderedTurn
  <2>. QED
    BY <2>2, <2>3
<1>4. ASSUME NEW w \in Worker, NEW u \in 1..Len(calls), Closes(w, u) PROVE OrderedTurn(t)'
  <2>1. t \in 1..Len(calls) /\ Len(calls') = Len(calls)
    BY <1>4 DEF Closes
  <2>2. CASE t # u
    <3>1. calls'[t] = calls[t]
      BY <1>4, <2>1, <2>2 DEF Closes
    <3>. QED
      BY <1>0, <2>1, <3>1, OrderedTurnStays DEF OrderedTurn
  <2>3. CASE t = u
    <3>1. calls'[t].status \in Closed /\ Proposed(t)' = Proposed(t)
      BY <1>4, <2>3 DEF Closes, Closed, Proposed
    <3>2. ASSUME calls'[t].status = "processed", Proposed(t) = "write", NEW i \in Slot
          PROVE  Observed(<<t, i>>)'
      <4>1. pc[w] = "processed" /\ at[w].turn = t
        BY <1>4, <2>3, <3>2 DEF Closes
      <4>2. WritesAt(pc[w], at[w])
        BY <1>4, WriterOwns DEF WritesCall
      <4>3. Observed(<<t, i>>)
        BY <3>2, <4>1, <4>2 DEF WritesAt
      <4>. QED
        BY <1>4, <4>3, ObservedSame DEF Closes
    <3>. QED
      BY <3>1, <3>2 DEF OrderedTurn
  <2>. QED
    BY <2>2, <2>3
<1>. QED
  BY <1>0, <1>1, <1>2, <1>3, <1>4, CallStep DEF WritesCall

\* The turn of an admitted operation is not stopped, whatever is written.
LEMMA AdmittedTurnStep ==
  ASSUME Sound, WellTyped', [Next]_vars, Unanswered, NEW t \in 1..Len(calls),
         calls[t].status \notin {"started", "invalid"},
         calls[t].status = "response_committed" => Repeated(t) < MaxNoProgress,
         Proposed(t) \in Operations
  PROVE  /\ calls'[t].status # "invalid"
         /\ calls'[t].status = "response_committed" => Repeated(t)' < MaxNoProgress
<1>0. /\ WellTyped /\ Len(calls) \in Nat /\ \A u \in 1..Len(calls) : OrderedTurn(u)
      /\ \A w \in Worker : Paid(w)
  BY CallKeys DEF Sound, Serial, Charged
<1>1. CASE calls' = calls
  BY <1>1 DEF Repeated
<1>2. ASSUME NEW w \in Worker, Opens(w) PROVE calls'[t].status \in Closed /\ calls'[t] = calls[t]
  <2>1. AloneAt(pc[w], at[w])
    BY <1>2, WriterOwns DEF WritesCall
  <2>2. pc[w] = "begin" /\ at[w].turn \notin 1..Len(calls)
    BY <1>0, <1>2 DEF Opens
  <2>3. AllClosed
    BY <2>1, <2>2 DEF AloneAt
  <2>. QED
    BY <1>2, <2>3 DEF Opens, AllClosed
<1>3. ASSUME NEW w \in Worker, NEW u \in 1..Len(calls), Answers(w, u)
      PROVE  calls'[t].status \in Closed /\ calls'[t] = calls[t]
  <2>1. t # u /\ calls[u].status = "started" /\ calls'[t] = calls[t]
    BY <1>3 DEF Answers
  <2>2. ~(u < Len(calls))
    BY <1>0, <2>1 DEF OrderedTurn, Closed
  <2>3. t < Len(calls)
    BY <1>0, <2>1, <2>2
  <2>. QED
    BY <1>0, <2>1, <2>3 DEF OrderedTurn
<1>4. ASSUME NEW w \in Worker, NEW u \in 1..Len(calls), Closes(w, u)
      PROVE  /\ calls'[t].status # "invalid"
             /\ calls'[t].status = "response_committed" => Repeated(t)' < MaxNoProgress
  <2>1. CASE t # u
    <3>1. \A x \in 1..Len(calls) : calls'[x].answer = calls[x].answer
      BY <1>4 DEF Closes
    <3>2. Repeated(t)' = Repeated(t)
      BY <1>0, <1>4, <3>1, RepeatedSame DEF Closes
    <3>. QED
      BY <1>4, <2>1, <3>2 DEF Closes
  <2>2. CASE t = u
    <3>1. /\ pc[w] \in {"reject", "stall", "processed"} /\ at[w].turn = t
          /\ calls[t].status = "response_committed"
          /\ calls'[t].status = IF pc[w] = "processed" THEN "processed" ELSE "invalid"
      BY <1>4, <2>2 DEF Closes
    <3>2. pc[w] # "reject"
      BY <1>0, <3>1 DEF Paid, PaidAt, Operations
    <3>3. pc[w] # "stall"
      <4>1. SUFFICES ASSUME pc[w] = "stall" PROVE FALSE
        OBVIOUS
      <4>2. AloneAt(pc[w], at[w])
        BY <1>4, WriterOwns DEF WritesCall
      <4>3. Repeated(t) >= MaxNoProgress
        BY <3>1, <4>1, <4>2 DEF AloneAt
      <4>4. Repeated(t) \in Nat /\ MaxNoProgress \in Nat
        BY <1>0, RepeatedType, SizesAssumption
      <4>. QED
        BY <3>1, <4>3, <4>4
    <3>. QED
      BY <3>1, <3>2, <3>3
  <2>. QED
    BY <2>1, <2>2
<1>. QED
  BY <1>0, <1>1, <1>2, <1>3, <1>4, CallStep DEF WritesCall, Closed

\* Who executes an operation under the lease goes on with it until it is
\* completed.
LEMMA ExecutorStep ==
  ASSUME WellTyped, [Next]_vars, NEW w \in Worker, pc[w] \in {"execute", "complete"},
         pc'[w] # "idle"
  PROVE  \/ pc'[w] = pc[w] /\ at'[w] = at[w]
         \/ pc[w] = "execute" /\ pc'[w] = "complete"
            /\ at'[w].turn = at[w].turn /\ at'[w].slot = at[w].slot
         \/ CompleteOp(w)
<1> DEFINE Goal == \/ pc'[w] = pc[w] /\ at'[w] = at[w]
                   \/ pc[w] = "execute" /\ pc'[w] = "complete"
                      /\ at'[w].turn = at[w].turn /\ at'[w].slot = at[w].slot
                   \/ CompleteOp(w)
<1>1. CASE UNCHANGED vars \/ User
  BY <1>1 DEF User, RequestCancellation, RespondAnswer, vars
<1>2. ASSUME NEW x \in Worker, NEW j \in DOMAIN jobs, Claim(x, j) PROVE Goal
  <2>1. w # x
    BY <1>2 DEF Claim
  <2>. QED
    BY <1>2, <2>1, ClaimKeeps DEF Keeps, Mine
<1>3. ASSUME NEW x \in Worker, WorkerStep(x) \/ Faulty(x), w # x PROVE Goal
  BY <1>3, WorkerKeeps DEF Keeps, Mine
<1>4. CASE Begin(w) \/ ProcessAnswer(w) \/ Cancel(w)
  BY <1>4 DEF Begin, Observe, Ensure, Latest, NextTurn, Quota, ReserveTurn, ReserveOutput,
     ReleaseTurn, BeginCall, Generate, CommitCall, SettleTurn, SettleOutput, Read, At,
     ProcessAnswer, Process, Reject, Repairs, Ask, Verify, Record, MarkProcessed, Cancel,
     Finalize, ReconcileLocal
<1>5. CASE Operate(w)
  <2>1. ExecuteOp(w) \/ CompleteOp(w)
    BY <1>5 DEF Operate, ReserveTool, AdmitOp, RefuseOp, StartOp, DispatchOp, SettleTool, At
  <2>2. CASE ExecuteOp(w)
    <3>1. \E ok \in BOOLEAN : Hold(w, "flag", ok, "complete")
      BY <2>2 DEF ExecuteOp
    <3>. QED
      BY <2>2, <3>1, HoldStays DEF ExecuteOp, At
  <2>. QED
    BY <2>1, <2>2
<1>6. CASE End(w) \/ Faulty(w)
  <2>1. LoseLease(w) \/ Crash(w)
    BY <1>6 DEF End, Return, Finish, Defer, BlockRun, FailRun, TerminateRun, Read, At, Faulty,
       OutputFails, ProviderFails, ProviderRefuses
  <2>. QED
    BY <2>1, DropStep DEF LoseLease, Crash
<1>. QED
  BY <1>1, <1>2, <1>3, <1>4, <1>5, <1>6 DEF Next, WorkerStep

\* The operation a worker executes under the lease is its own.
LEMMA OwnOpStep ==
  ASSUME Sound, WellTyped', [Next]_vars, Unanswered, Unanswered',
         NEW o \in Op, op[o] = "running", op'[o] = "running", opEpoch'[o] = opEpoch[o],
         NEW w \in Worker, Owns(w)', opEpoch'[o] = at'[w].epoch
  PROVE  pc'[w] \in {"execute", "complete"} /\ ThisOp(w)' = o
<1>0. /\ WellTyped /\ Leases /\ OpenOp(o) /\ opEpoch[o] \in Nat /\ EpochsAreNat /\ Len(jobs) >= 1
      /\ pc'[w] # "idle"
  BY OpTypes, EpochNat DEF Sound, Serial, Leases, Owns
<1>1. ~(NewClaim(w) /\ pc'[w] = "observe")
  <2>1. SUFFICES ASSUME NewClaim(w), pc'[w] = "observe" PROVE FALSE
    OBVIOUS
  <2>2. PICK j \in 1..Len(jobs) :
          /\ at'[w].epoch = jobs[j].epoch + 1 /\ jobs[j].kind # "cancel_run"
    BY <2>1 DEF NewClaim
  <2>3. DOMAIN jobs = 1..Len(jobs) /\ jobs[j].kind = "advance_run"
    BY <1>0, <2>2, EpochTypes, LenProperties DEF WellTyped, Types, RowTypes
  <2>4. j = 1
    BY <2>2, <2>3 DEF Unanswered
  <2>5. opEpoch[o] <= jobs[1].epoch /\ jobs[1].epoch \in Nat
    BY <1>0, <2>4 DEF OpenOp, EpochsAreNat
  <2>. QED
    BY <1>0, <2>2, <2>4, <2>5
<1>2. Owns(w) /\ KeepsClaim(w)
  BY <1>0, <1>1, OwnedBefore
<1>3. opEpoch[o] = at[w].epoch
  BY <1>2 DEF KeepsClaim
<1>4. pc[w] \in {"execute", "complete"} /\ ThisOp(w) = o
  BY <1>0, <1>2, <1>3 DEF OpenOp
<1>5. ~CompleteOp(w)
  <2>1. SUFFICES ASSUME CompleteOp(w) PROVE FALSE
    OBVIOUS
  <2>2. op' = [op EXCEPT ![o] = IF at[w].flag THEN "succeeded" ELSE "failed"]
    BY <1>3, <1>4, <2>1 DEF CompleteOp
  <2>3. op'[o] \in {"succeeded", "failed"}
    BY <1>0, <2>2, OpTypes
  <2>. QED
    BY <2>3
<1>6. /\ pc'[w] \in {"execute", "complete"}
      /\ at'[w].turn = at[w].turn /\ at'[w].slot = at[w].slot
  BY <1>0, <1>4, <1>5, ExecutorStep
<1>. QED
  BY <1>4, <1>6 DEF ThisOp

\* An operation is dispatched under the lease of its worker.
LEMMA DispatchedOp ==
  ASSUME Sound, WellTyped', [Next]_vars, Unanswered, Unanswered', NEW x \in Worker,
         Dispatches(x), NEW o \in Op, ThisOp(x) = o, opEpoch'[o] = at[x].epoch
  PROVE  /\ opEpoch'[o] <= jobs'[1].epoch
         /\ \A w \in Worker : Owns(w)' /\ opEpoch'[o] = at'[w].epoch =>
              pc'[w] \in {"execute", "complete"} /\ ThisOp(w)' = o
<1>0. /\ WellTyped /\ Leases /\ EpochsAreNat /\ Len(jobs) >= 1 /\ Owns(x)
      /\ jobs' = jobs /\ at' = at /\ pc'[x] = "execute"
  BY EpochNat, WriterOwns DEF Sound, Leases, Dispatches
<1>1. at[x].epoch = jobs[1].epoch /\ jobs[1].epoch \in Nat
  BY <1>0, OwnerFacts DEF EpochsAreNat
<1>2. ASSUME NEW w \in Worker, Owns(w)' PROVE w = x
  <2>1. ~NewClaim(w)
    BY <1>0 DEF NewClaim, EpochsAreNat
  <2>2. Owns(w)
    BY <1>0, <1>2, <2>1, OwnedBefore
  <2>. QED
    BY <1>0, <2>2, OwnerFacts
<1>3. ThisOp(x)' = o
  BY <1>0 DEF ThisOp
<1>. QED
  BY <1>0, <1>1, <1>2, <1>3

LEMMA OpenOpStep ==
  ASSUME Sound, WellTyped', [Next]_vars, Unanswered, Unanswered', NEW o \in Op
  PROVE  OpenOp(o)'
<1>0. /\ WellTyped /\ Charged /\ OpenOp(o) /\ JobsGrow /\ EpochsAreNat /\ Len(jobs) >= 1
      /\ opEpoch[o] \in Nat
  BY EpochNat, JobsGrowStep, OpTypes DEF Sound, Serial, Leases
<1>1. ASSUME op'[o] # "none"
      PROVE  /\ calls'[o[1]].status # "invalid"
             /\ calls'[o[1]].status = "response_committed" => Repeated(o[1])' < MaxNoProgress
  <2>1. CASE op[o] # "none"
    <3>1. PICK t \in 1..Len(calls) : t = o[1]
      BY <1>0, <2>1 DEF Charged, AdmittedAnswer
    <3>2. calls[t].status # "started" /\ Proposed(t) \in Operations
      BY <1>0, <2>1, <3>1 DEF Charged, AdmittedAnswer
    <3>3. /\ calls[t].status # "invalid"
          /\ calls[t].status = "response_committed" => Repeated(t) < MaxNoProgress
      BY <1>0, <2>1, <3>1 DEF OpenOp
    <3>4. /\ calls'[t].status # "invalid"
          /\ calls'[t].status = "response_committed" => Repeated(t)' < MaxNoProgress
      BY <3>2, <3>3, AdmittedTurnStep
    <3>. QED
      BY <3>1, <3>4 DEF Repeated
  <2>2. CASE op[o] = "none"
    <3>1. PICK w \in Worker : Admits(w) /\ ThisOp(w) = o
      BY <1>0, <1>1, <2>2, OpCases DEF Undispatched
    <3>2. AloneAt(pc[w], at[w]) /\ pc[w] = "admit" /\ Paid(w)
      BY <1>0, <3>1, WriterOwns DEF Admits, Charged
    <3>3. PICK t \in 1..Len(calls) : t = at[w].turn
      BY <1>0, <3>2, AnswerTurn DEF AnswerSteps, SlotSteps
    <3>4. /\ calls[t].status = "response_committed" /\ Repeated(t) < MaxNoProgress
          /\ Proposed(t) \in Operations
      BY <3>2, <3>3 DEF AloneAt, Paid, PaidAt, AnswerSteps, SlotSteps
    <3>5. /\ calls'[t].status # "invalid"
          /\ calls'[t].status = "response_committed" => Repeated(t)' < MaxNoProgress
      BY <3>4, AdmittedTurnStep
    <3>6. t = o[1]
      BY <3>1, <3>3 DEF ThisOp
    <3>. QED
      BY <3>5, <3>6 DEF Repeated
  <2>. QED
    BY <2>1, <2>2
<1>2. ASSUME op'[o] = "running"
      PROVE  /\ opEpoch'[o] <= jobs'[1].epoch
             /\ \A w \in Worker : Owns(w)' /\ opEpoch'[o] = at'[w].epoch =>
                  pc'[w] \in {"execute", "complete"} /\ ThisOp(w)' = o
  <2>1. CASE op'[o] = op[o] /\ opEpoch'[o] = opEpoch[o]
    <3>1. opEpoch[o] <= jobs[1].epoch
      BY <1>0, <1>2, <2>1 DEF OpenOp
    <3>2. opEpoch'[o] <= jobs'[1].epoch
      BY <1>0, <2>1, <3>1 DEF JobsGrow
    <3>. QED
      BY <1>2, <2>1, <3>2, OwnOpStep
  <2>2. CASE \E x \in Worker : Dispatches(x) /\ ThisOp(x) = o /\ opEpoch'[o] = at[x].epoch
    BY <2>2, DispatchedOp
  <2>. QED
    BY <1>0, <1>2, <2>1, <2>2, OpCases
<1>. QED
  BY <1>1, <1>2 DEF OpenOp

LEMMA SerialStep ==
  ASSUME Sound, WellTyped', [Next]_vars
  PROVE  Serial'
<1> SUFFICES ASSUME Unanswered'
             PROVE  /\ \A w \in Worker : Owns(w)' => Knows(w)'
                    /\ \A t \in 1..Len(calls') : OrderedTurn(t)'
                    /\ \A o \in Op : OpenOp(o)'
                    /\ run' = "queued" => calls' = <<>>
                    /\ SucceededRunIsResolved'
  BY DEF Serial
<1>0. WellTyped /\ Leases /\ JobsGrow /\ Serial
  BY JobsGrowStep DEF Sound
<1>1. Unanswered
  BY <1>0, UnansweredBefore
<1>2. \A w \in Worker : Owns(w)' => Knows(w)'
  BY OwnerKnows
<1>3. \A t \in 1..Len(calls') : OrderedTurn(t)'
  BY <1>1, OrderedTurnStep
<1>4. \A o \in Op : OpenOp(o)'
  BY <1>1, OpenOpStep
<1>5. run' = "queued" => calls' = <<>>
  <2>1. SUFFICES ASSUME run' = "queued" PROVE calls' = <<>>
    OBVIOUS
  <2>2. run = "queued" /\ calls = <<>>
    BY <1>0, <1>1, <2>1, RunStep DEF Serial
  <2>3. ~\E w \in Worker : WritesCall(w)
    BY <2>2 DEF WritesCall, Opens
  <2>. QED
    BY <1>0, <2>2, <2>3, CallStep
<1>6. SucceededRunIsResolved'
  <2>1. SUFFICES ASSUME run' = "succeeded" PROVE Unresolved' = {}
    BY DEF SucceededRunIsResolved
  <2>2. CASE run = "succeeded"
    <3>1. Unresolved = {}
      BY <1>0, <1>1, <2>2 DEF Serial, SucceededRunIsResolved
    <3>2. \A w \in Worker : ~Admits(w)
      BY <2>2 DEF Admits, Live
    <3>. QED
      BY <1>0, <3>1, <3>2, UnresolvedStays
  <2>3. CASE \E w \in Worker : pc[w] = "record" /\ Fenced(w) /\ at[w].flag /\ op' = op
    <3>1. PICK w \in Worker : pc[w] = "record" /\ Fenced(w) /\ at[w].flag /\ op' = op
      BY <2>3
    <3>2. Owns(w)
      BY <1>0, <3>1, FencedOwns DEF ClaimSteps, CancelSteps
    <3>3. Unresolved = {}
      BY <1>0, <1>1, <3>1, <3>2 DEF Serial, Knows, AloneAt
    <3>. QED
      BY <3>1, <3>3 DEF Unresolved
  <2>. QED
    BY <1>0, <2>1, <2>2, <2>3, RunStep
<1>. QED
  BY <1>2, <1>3, <1>4, <1>5, <1>6

\* While one job advances the Run, the worker that holds its lease knows what
\* its next step needs, whichever workers have lost the lease or crashed before:
\* of the turns, of the operations of the answer, and of what the gate has read.
THEOREM OneJobIsSerial == Spec => []Serial
<1>1. Init => Serial
  <2> SUFFICES ASSUME Init PROVE Serial
    OBVIOUS
  <2>1. /\ calls = <<>> /\ run = "queued" /\ op = [o \in Op |-> "none"]
        /\ pc = [w \in Worker |-> "idle"]
    BY DEF Init
  <2>2. Len(calls) = 0
    BY <2>1
  <2>. QED
    BY <2>1, <2>2 DEF Serial, Owns, OpenOp, SucceededRunIsResolved
<1>2. WellTyped /\ WellTyped' /\ Charged /\ Leases /\ Serial /\ [Next]_vars => Serial'
  BY SerialStep DEF Sound
<1>. QED
  BY <1>1, <1>2, WellTypedAlways, AnswersArePaid, ClaimsAreUnique, PTL DEF Spec

\* A turn is begun only when every turn before it has been closed, while one job
\* advances the Run.
THEOREM TurnsAreInOrder == Spec => []TurnsInOrder
<1>1. WellTyped /\ Serial => TurnsInOrder
  <2> SUFFICES ASSUME WellTyped, Serial, Unanswered, NEW t \in DOMAIN calls, t < Len(calls)
               PROVE  calls[t].status \in {"processed", "invalid"}
    BY DEF TurnsInOrder
  <2>. QED
    BY CallDomain DEF Serial, OrderedTurn, Closed
<1>. QED
  BY <1>1, WellTypedAlways, OneJobIsSerial, PTL

\* What the completion gate has read of the actions still holds when the Run is
\* ended, while one job advances it: the gate and the end are two transactions.
THEOREM SuccessIsResolved == Spec => []SuccessLeavesNothingOpen
<1>1. Serial => SuccessLeavesNothingOpen
  BY DEF Serial, SuccessLeavesNothingOpen
<1>. QED
  BY <1>1, OneJobIsSerial, PTL

\* Whatever a crash repeats, a closed turn has been paid for, and so have the
\* operations it admitted.
THEOREM ClosedTurnsAreCharged == Spec => []ClosedTurnIsCharged
<1>1. WellTyped /\ Charged /\ Serial => ClosedTurnIsCharged
  <2> SUFFICES ASSUME WellTyped, Charged, Serial, NEW t \in DOMAIN calls,
                      calls[t].status \in Closed
               PROVE  /\ Settled(TurnKey(t)) /\ Settled(OutputKey(t))
                      /\ calls[t].status = "processed" \/ Unanswered =>
                           \A i \in Slot : op[<<t, i>>] # "none" => Settled(ToolKey(<<t, i>>))
    BY DEF ClosedTurnIsCharged, Settled, Closed
  <2>1. t \in 1..Len(calls) /\ t \in Turn
    BY CallDomain, CallKeys
  <2>2. PaidTurn(t)
    BY <2>1 DEF Charged
  <2>3. ASSUME NEW i \in Slot, op[<<t, i>>] # "none", calls[t].status = "processed" \/ Unanswered
        PROVE  Settled(ToolKey(<<t, i>>))
    <3>1. PICK o \in Op : o = <<t, i>>
      BY <2>1 DEF Op
    <3>2. Proposed(t) \in Operations
      BY <2>3, <3>1 DEF Charged, AdmittedAnswer
    <3>3. calls[t].status = "processed"
      BY <2>3, <3>1 DEF Serial, OpenOp, Closed
    <3>4. ToolsSettled(t, Ops + 1)
      BY <2>2, <3>2, <3>3 DEF PaidTurn
    <3>5. i < Ops + 1
      BY SizesAssumption DEF Slot
    <3>. QED
      BY <3>4, <3>5 DEF ToolsSettled
  <2>. QED
    BY <2>2, <2>3 DEF PaidTurn
<1>. QED
  BY <1>1, WellTypedAlways, AnswersArePaid, OneJobIsSerial, PTL

\* A turn of local writes is closed only when each of them has an outcome: what
\* a lost worker has dispatched is taken over by the next lease first.
THEOREM ClosedTurnsAreObserved == Spec => ClosedTurnIsObserved
<1> DEFINE Seen == run = "running" /\ Unanswered => \A o \in Op :
              o[1] \in DOMAIN calls /\ calls'[o[1]].status = "processed"
              /\ calls[o[1]].answer[1] = "write" =>
                op[o] \in TerminalAction \cup {"none"}
<1>1. WellTyped /\ Charged /\ Leases /\ Serial /\ [Next]_vars => [Seen]_calls
  <2> SUFFICES ASSUME Sound, [Next]_vars, calls' # calls, run = "running", Unanswered,
                      NEW o \in Op, o[1] \in DOMAIN calls,
                      calls'[o[1]].status = "processed", Proposed(o[1]) = "write"
               PROVE  op[o] \in TerminalAction \cup {"none"}
    BY DEF Sound, Proposed
  <2>1. PICK t \in Turn, i \in Slot : o = <<t, i>>
    BY DEF Op
  <2>2. t \in 1..Len(calls) /\ WellTyped /\ Serial
    BY <2>1, CallDomain DEF Sound
  <2>3. SUFFICES Observed(<<t, i>>)
    BY <2>1 DEF Observed, Live
  <2>4. CASE calls[t].status = "processed"
    BY <2>1, <2>2, <2>4 DEF Serial, OrderedTurn
  <2>5. CASE calls[t].status # "processed"
    <3>1. PICK w \in Worker : WritesCall(w)
      BY <2>2, CallStep
    <3>2. Closes(w, t) /\ pc[w] = "processed"
      BY <2>1, <2>2, <2>5, <3>1 DEF WritesCall, Opens, Answers, Closes
    <3>3. WritesAt(pc[w], at[w])
      BY <3>1, WriterOwns
    <3>. QED
      BY <2>1, <3>2, <3>3 DEF Closes, WritesAt
  <2>. QED
    BY <2>4, <2>5
<1>. QED
  BY <1>1, WellTypedAlways, AnswersArePaid, ClaimsAreUnique, OneJobIsSerial, PTL
     DEF Spec, ClosedTurnIsObserved
=============================================================================
