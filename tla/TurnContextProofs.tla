------------------------- MODULE TurnContextProofs -------------------------
(***************************************************************************)
(* Theorems about the contexts of TurnContext, for every number of         *)
(* workers, jobs, turns, releases and take-overs: one revision of skills   *)
(* for a Run, one context for a turn, and no context that misses a turn;   *)
(* and about the log under them, for every number of transactions, clients *)
(* and events and every limit of a page: who follows the log misses        *)
(* nothing.                                                                *)
(***************************************************************************)
EXTENDS TurnContext, SumTheorems

Context == [skills : Release \cup {"none"}, scope : Scope \cup {"none"}, asof : Nat]

Builder == [pc : {"free", "claimed", "picked", "loaded", "pinned", "read", "built",
                  "called", "answered"},
            job : Job \cup {"none"}, turn : 0..MaxTurn, release : Release \cup {"none"},
            scope : Scope \cup {"none"}, view : Context]

Types ==
  /\ seq \in Nat /\ base \in [Writer -> Nat]
  /\ pinned \in Release \cup {"none"}
  /\ snap \in [Turn -> Context]
  /\ call \in [Turn -> {"none", "started", "answered"}] /\ closed \in [Turn -> Nat]
  /\ sent \in SUBSET [turn : Turn, view : Context]
  /\ builder \in [Worker -> Builder]

\* Who holds the Run row knows event_seq.
LogInv == \A w \in Writer : lock = w => base[w] = seq

\* The turns before t have been answered; a view was read after that.
After(t)         == \A u \in Turn : u < t => call[u] = "answered"
Covered(t, view) == \A u \in Turn : u < t => closed[u] <= view.asof

\* A worker past the pin has the pinned revision, one with a context has the
\* saved one, and one with a turn came after the turns before it.
BuilderOK(b) ==
  /\ b.pc \in {"claimed", "picked", "loaded"} => b.release \in Release
  /\ b.pc \in {"pinned", "read"} => pinned # "none"
  /\ b.pc = "pinned" => b.release = pinned
  /\ b.pc = "read" => b.view.skills = pinned /\ Covered(b.turn, b.view)
  /\ b.pc \notin {"free", "claimed"} => b.turn \in Turn /\ After(b.turn)
  /\ b.pc = "built" => b.view # Unsaved /\ b.view = snap[b.turn]

SnapOK(t) ==
  snap[t] # Unsaved =>
    snap[t].skills = pinned /\ pinned # "none" /\ After(t) /\ Covered(t, snap[t])
CallOK(t) ==
  /\ call[t] # "none" => After(t)
  /\ call[t] = "answered" => closed[t] \in 1..seq
SentOK(s) == s.view # Unsaved /\ s.view = snap[s.turn]

Inv ==
  /\ Types /\ LogInv
  /\ \A t \in Turn : SnapOK(t) /\ CallOK(t)
  /\ \A s \in sent : SentOK(s)
  /\ \A w \in Worker : BuilderOK(builder[w])

-----------------------------------------------------------------------------
\* The turn a worker takes up comes after all that were answered: calls are
\* begun in order, so at most one is started and no turn is left out.
LEMMA CurrentIsNext ==
  ASSUME Inv, Current \in Turn
  PROVE  After(Current)
<1> DEFINE S == {t \in Turn : call[t] # "none"}
<1>1. \A t \in S : After(t)
  BY DEF Inv, CallOK
<1>2. Turn \subseteq Nat /\ Turn = 1..MaxTurn /\ MaxTurn \in Nat
  BY ContextAssumption DEF Turn
<1>3. CASE \E t \in Turn : call[t] = "started"
  <2>1. PICK t \in Turn : call[t] = "started"
    BY <1>3
  <2>2. \A u \in Turn : call[u] = "started" => u = t
    <3>1. SUFFICES ASSUME NEW u \in Turn, call[u] = "started", u # t PROVE FALSE
      OBVIOUS
    <3>2. u < t \/ t < u
      BY <1>2, <3>1
    <3>3. After(u) /\ After(t)
      BY <1>1, <2>1, <3>1
    <3>. QED
      BY <2>1, <3>1, <3>2, <3>3 DEF After
  <2>3. {u \in Turn : call[u] = "started"} = {t}
    BY <2>1, <2>2
  <2>4. Max({t}) = t
    BY <1>2, <2>1 DEF Max
  <2>5. Current = t
    BY <1>3, <2>3, <2>4 DEF Current
  <2>. QED
    BY <1>1, <2>1, <2>5
<1>4. CASE ~\E t \in Turn : call[t] = "started"
  <2>1. Current = 1 + Cardinality(S)
    BY <1>4 DEF Current
  <2>2. SUFFICES ASSUME NEW u \in Turn, u < Current, call[u] # "answered" PROVE FALSE
    BY DEF After
  <2>3. u \notin S
    BY <1>4, <2>2 DEF Inv, Types
  <2>4. \A x \in S : x < u
    BY <1>1, <1>2, <2>2, <2>3 DEF After
  <2>5. S \subseteq 1..(u - 1)
    BY <1>2, <2>4
  <2>6. u - 1 \in Nat /\ IsFiniteSet(1..(u - 1)) /\ Cardinality(1..(u - 1)) = u - 1
    BY <1>2, FS_Interval
  <2>7. Cardinality(S) <= u - 1 /\ Cardinality(S) \in Nat
    BY <2>5, <2>6, FS_Subset, FS_CardinalityType
  <2>. QED
    BY <1>2, <2>1, <2>2, <2>6, <2>7
<1>. QED
  BY <1>3, <1>4

\* A step that writes no row of the Run's work: the log grows, at most, and one
\* worker changes.
Calm ==
  /\ UNCHANGED workVars
  /\ seq' \in Nat /\ seq' >= seq
  /\ base' \in [Writer -> Nat] /\ LogInv'

\* Such a step keeps the invariant if the worker's new state fits the rows.
LEMMA CalmSteps ==
  ASSUME Inv, Calm, NEW w \in Worker, NEW b \in Builder, BuilderOK(b),
         builder' = [builder EXCEPT ![w] = b] \/ UNCHANGED builder
  PROVE  Inv'
<1>1. UNCHANGED <<pinned, snap, call, closed, sent>>
  BY DEF Calm, workVars
<1>2. Types'
  BY <1>1 DEF Calm, Inv, Types
<1>3. \A t \in Turn : After(t)' = After(t) /\ \A v : Covered(t, v)' = Covered(t, v)
  BY <1>1 DEF After, Covered
<1>4. ASSUME NEW t \in Turn PROVE SnapOK(t)' /\ CallOK(t)'
  <2>1. SnapOK(t)'
    BY <1>1 DEF Inv, SnapOK, After, Covered
  <2>2. CallOK(t)'
    BY <1>1 DEF Inv, Types, CallOK, After, Calm
  <2>. QED
    BY <2>1, <2>2
<1>5. ASSUME NEW s \in sent' PROVE SentOK(s)'
  BY <1>1, <1>5 DEF Inv, SentOK
<1>6. ASSUME NEW x \in Worker PROVE BuilderOK(builder[x])'
  <2>1. builder'[x] = b \/ builder'[x] = builder[x]
    BY DEF Inv, Types
  <2>2. BuilderOK(b) /\ BuilderOK(builder[x])
    BY DEF Inv
  <2>. QED
    BY <1>1, <2>1, <2>2 DEF BuilderOK, After, Covered
<1>. QED
  BY <1>2, <1>4, <1>5, <1>6 DEF Inv, Calm

\* A worker that has let go.
LEMMA FreeIsOK == Free \in Builder /\ BuilderOK(Free)
<1>1. Free \in Builder
  BY ContextAssumption DEF Free, Builder, Context, Unsaved
<1>. QED
  BY <1>1 DEF BuilderOK, Free

\* The log grows by the events of one transaction, or not at all.
LEMMA RecordIsCalm ==
  ASSUME Inv, Record \/ NoRecord
  PROVE  seq' \in Nat /\ seq' >= seq /\ base' \in [Writer -> Nat] /\ LogInv'
<1>1. CASE Record
  <2>1. \A w \in Writer : lock # w
    BY <1>1, LogAssumption DEF Record
  <2>. QED
    BY <1>1, <2>1 DEF Record, Append, Inv, Types, LogInv
<1>2. CASE NoRecord
  BY <1>2 DEF NoRecord, eventVars, logVars, Inv, Types, LogInv
<1>. QED
  BY <1>1, <1>2

\* A step in which no worker moves.
LEMMA QuietStep ==
  ASSUME Inv, Calm, UNCHANGED builder
  PROVE  Inv'
<1>1. CASE Worker = {}
  BY <1>1 DEF Calm, workVars, Inv, Types, SnapOK, CallOK, SentOK, After, Covered
<1>2. CASE Worker # {}
  BY <1>2, FreeIsOK, CalmSteps
<1>. QED
  BY <1>1, <1>2

\* A worker that writes no row of the Run's work.
LEMMA CalmWorker ==
  ASSUME Inv, NEW w \in Worker, NEW b \in Builder, BuilderOK(b), Be(w, b),
         UNCHANGED workVars, UNCHANGED eventVars \/ Record \/ NoRecord
  PROVE  Inv'
<1>1. Calm
  <2>1. CASE Record \/ NoRecord
    BY <2>1, RecordIsCalm DEF Calm
  <2>2. CASE UNCHANGED eventVars
    BY <2>2 DEF Calm, eventVars, logVars, Inv, Types, LogInv
  <2>. QED
    BY <2>1, <2>2
<1>. QED
  BY <1>1, CalmSteps DEF Be

\* A worker that blocks the Run, or gives up, keeps nothing.
LEMMA BlockKeeps ==
  ASSUME Inv, NEW w \in Worker, Block(w) \/ GiveUp(w)
  PROVE  Inv'
  BY FreeIsOK, CalmWorker DEF Block, GiveUp

\* What a worker that has a context keeps of its record.
LEMMA WithIsBuilder ==
  ASSUME Inv, NEW w \in Worker, NEW view \in Context,
         NEW pc \in {"read", "built", "called", "answered"}
  PROVE  /\ With(w, pc, view) \in Builder
         /\ With(w, pc, view).pc = pc
         /\ With(w, pc, view).turn = builder[w].turn
         /\ With(w, pc, view).view = view
<1>1. builder[w] \in Builder
  BY DEF Inv, Types
<1>2. Free \in Builder
  BY FreeIsOK
<1>. QED
  BY <1>1, <1>2 DEF With, Builder

-----------------------------------------------------------------------------
(* The steps of a worker *)

\* A worker begins with the release it runs.
LEMMA ClaimKeeps ==
  ASSUME Inv, NEW w \in Worker, NEW j \in Job, Claim(w, j)
  PROVE  Inv'
<1>1. PICK s \in Scope, r \in Release :
        Be(w, [Free EXCEPT !.pc = "claimed", !.job = j, !.release = r, !.scope = s])
  BY DEF Claim
<1> DEFINE b == [Free EXCEPT !.pc = "claimed", !.job = j, !.release = r, !.scope = s]
<1>2. b \in Builder /\ b.pc = "claimed" /\ b.release = r
  BY FreeIsOK DEF Builder
<1>3. Be(w, b) /\ UNCHANGED workVars /\ UNCHANGED eventVars
  BY <1>1 DEF Claim
<1> HIDE DEF b
<1>4. BuilderOK(b)
  BY <1>2 DEF BuilderOK
<1>. QED
  BY <1>2, <1>3, <1>4, CalmWorker

\* The turn it picks is the next one, by CurrentIsNext.
LEMMA PickTurnKeeps ==
  ASSUME Inv, NEW w \in Worker, PickTurn(w)
  PROVE  Inv'
<1>1. builder[w] \in Builder /\ BuilderOK(builder[w])
  BY DEF Inv, Types
<1>2. CASE run = "running"
  <2> DEFINE b == [builder[w] EXCEPT !.pc = "picked", !.turn = Current]
  <2>1. Current \in Turn /\ After(Current)
    BY CurrentIsNext DEF PickTurn
  <2>2. b \in Builder
    <3>1. Current \in 0..MaxTurn
      BY <2>1, ContextAssumption DEF Turn
    <3>. QED
      BY <1>1, <3>1 DEF Builder
  <2>3. b.pc = "picked" /\ b.turn = Current /\ b.release = builder[w].release
    BY <1>1 DEF Builder
  <2>4. BuilderOK(b)
    BY <1>1, <2>1, <2>3 DEF BuilderOK, PickTurn, Is
  <2>. QED
    BY <1>2, <2>2, <2>4, CalmWorker DEF PickTurn
<1>3. CASE run # "running"
  BY <1>3, FreeIsOK, CalmWorker DEF PickTurn
<1>. QED
  BY <1>2, <1>3

\* A saved context is taken over as it is, or blocks the Run.
LEMMA LookKeeps ==
  ASSUME Inv, NEW w \in Worker, Look(w)
  PROVE  Inv'
<1> DEFINE t == builder[w].turn
<1>1. builder[w] \in Builder /\ BuilderOK(builder[w]) /\ t \in Turn /\ After(t)
  BY DEF Inv, Types, Look, Is, BuilderOK
<1>2. snap[t] \in Context
  BY <1>1 DEF Inv, Types
<1>3. CASE snap[t] = Unsaved
  <2> DEFINE b == [builder[w] EXCEPT !.pc = "loaded"]
  <2>1. b \in Builder /\ b.pc = "loaded" /\ b.turn = t /\ b.release = builder[w].release
    BY <1>1 DEF Builder
  <2>2. BuilderOK(b)
    BY <1>1, <2>1 DEF BuilderOK, Look, Is
  <2>3. Be(w, b) /\ UNCHANGED workVars /\ UNCHANGED eventVars
    BY <1>3 DEF Look, Step
  <2>. QED
    BY <2>1, <2>2, <2>3, CalmWorker
<1>4. CASE snap[t] # Unsaved /\ snap[t].scope = builder[w].scope
  <2> DEFINE b == With(w, "built", snap[t])
  <2>1. b \in Builder /\ b.pc = "built" /\ b.turn = t /\ b.view = snap[t]
    BY <1>2, WithIsBuilder
  <2> HIDE DEF b
  <2>2. BuilderOK(b)
    BY <1>1, <1>4, <2>1 DEF BuilderOK
  <2>3. Be(w, b) /\ UNCHANGED workVars /\ UNCHANGED eventVars
    BY <1>4 DEF Look, b
  <2>. QED
    BY <2>1, <2>2, <2>3, CalmWorker
<1>5. CASE snap[t] # Unsaved /\ snap[t].scope # builder[w].scope
  <2>1. Block(w)
    BY <1>5 DEF Look
  <2>. QED
    BY <2>1, BlockKeeps
<1>. QED
  BY <1>3, <1>4, <1>5

\* The pin is set once: while it is not, no snapshot is saved and no worker is
\* past it.
LEMMA PinKeeps ==
  ASSUME Inv, NEW w \in Worker, Pin(w)
  PROVE  Inv'
<1> DEFINE b == [builder[w] EXCEPT !.pc = "pinned"]
           rel == builder[w].release
<1>1. /\ builder[w] \in Builder /\ BuilderOK(builder[w]) /\ builder[w].pc = "loaded"
      /\ rel \in Release /\ rel # "none"
  BY ContextAssumption DEF Inv, Types, Pin, Is, BuilderOK
<1>2. CASE GiveUp(w) \/ Block(w)
  BY <1>2, BlockKeeps
<1>3. CASE /\ pinned \in {"none", rel} /\ pinned' = rel /\ Be(w, b)
           /\ Record \/ NoRecord
           /\ UNCHANGED <<snap, call, closed, sent>>
  <2>1. b \in Builder /\ b.pc = "pinned" /\ b.turn = builder[w].turn /\ b.release = rel
    BY <1>1 DEF Builder
  <2>2. seq' \in Nat /\ seq' >= seq /\ base' \in [Writer -> Nat] /\ LogInv'
    BY <1>3, RecordIsCalm
  <2>3. builder' \in [Worker -> Builder]
    BY <1>3, <2>1 DEF Be, Inv, Types
  <2>4. Types'
    BY <1>1, <1>3, <2>2, <2>3 DEF Inv, Types
  <2>5. ASSUME NEW u \in Turn PROVE SnapOK(u)' /\ CallOK(u)'
    <3>1. SnapOK(u)'
      BY <1>1, <1>3 DEF Inv, SnapOK, After, Covered
    <3>2. CallOK(u)'
      BY <1>3, <2>2 DEF Inv, Types, CallOK, After
    <3>. QED
      BY <3>1, <3>2
  <2>6. \A s \in sent' : SentOK(s)'
    BY <1>3 DEF Inv, SentOK
  <2>7. ASSUME NEW x \in Worker PROVE BuilderOK(builder[x])'
    <3>1. builder'[x] = IF x = w THEN b ELSE builder[x]
      BY <1>3 DEF Be, Inv, Types
    <3>2. BuilderOK(builder[x])
      BY DEF Inv
    <3>3. CASE x = w
      BY <1>1, <1>3, <2>1, <3>1, <3>3 DEF BuilderOK, After
    <3>4. CASE x # w
      BY <1>1, <1>3, <3>1, <3>2, <3>4 DEF BuilderOK, After, Covered
    <3>. QED
      BY <3>3, <3>4
  <2>. QED
    BY <2>2, <2>4, <2>5, <2>6, <2>7 DEF Inv
<1>. QED
  BY <1>2, <1>3 DEF Pin, Step

\* What a worker reads is as of now, after all that has been answered.
LEMMA ReadKeeps ==
  ASSUME Inv, NEW w \in Worker, Read(w)
  PROVE  Inv'
<1> DEFINE view == [skills |-> builder[w].release, scope |-> builder[w].scope, asof |-> seq]
           b == With(w, "read", view)
<1>1. builder[w] \in Builder /\ BuilderOK(builder[w]) /\ builder[w].pc = "pinned"
  BY DEF Inv, Types, Read, Is
<1>2. view \in Context
  BY <1>1 DEF Inv, Types, Context, Builder
<1>3. b \in Builder /\ b.pc = "read" /\ b.turn = builder[w].turn /\ b.view = view
  BY <1>2, WithIsBuilder
<1>4. Covered(b.turn, b.view)
  <2>1. \A u \in Turn : call[u] = "answered" => closed[u] <= seq
    BY DEF Inv, Types, CallOK
  <2>. QED
    BY <1>1, <1>3, <2>1 DEF BuilderOK, After, Covered
<1>5. Be(w, b) /\ UNCHANGED workVars /\ UNCHANGED eventVars
  BY DEF Read
<1>6. b.view.skills = builder[w].release
  BY <1>3
<1> HIDE DEF b, view
<1>7. BuilderOK(b)
  BY <1>1, <1>3, <1>4, <1>6 DEF BuilderOK
<1>. QED
  BY <1>3, <1>5, <1>7, CalmWorker

\* A snapshot is saved once, by a worker that read it after the turns before its
\* own and under the pin.
LEMMA SaveKeeps ==
  ASSUME Inv, NEW w \in Worker, Save(w)
  PROVE  Inv'
<1> DEFINE b == [builder[w] EXCEPT !.pc = "built"]
           t == builder[w].turn
           view == builder[w].view
<1>1. /\ builder[w] \in Builder /\ BuilderOK(builder[w]) /\ builder[w].pc = "read"
      /\ t \in Turn /\ view \in Context /\ view.skills = pinned /\ pinned # "none"
      /\ After(t) /\ Covered(t, view)
  BY DEF Inv, Types, Save, Is, BuilderOK, Builder
<1>2. CASE GiveUp(w) \/ Block(w)
  BY <1>2, BlockKeeps
<1>3. CASE /\ snap[t] \in {Unsaved, view} /\ snap' = [snap EXCEPT ![t] = view]
           /\ Be(w, b) /\ NoRecord
           /\ UNCHANGED <<pinned, call, closed, sent>>
  <2>1. /\ b \in Builder /\ b.pc = "built" /\ b.turn = t /\ b.view = view
        /\ view # Unsaved
    BY <1>1 DEF Builder, Unsaved
  <2>2. seq' \in Nat /\ seq' = seq /\ base' \in [Writer -> Nat] /\ LogInv'
    BY <1>3 DEF NoRecord, eventVars, logVars, Inv, Types, LogInv
  <2>3. builder' \in [Worker -> Builder]
    BY <1>3, <2>1 DEF Be, Inv, Types
  <2>4. snap' \in [Turn -> Context] /\ snap'[t] = view
        /\ \A u \in Turn : snap'[u] = snap[u] \/ (u = t /\ snap[u] = Unsaved)
    BY <1>1, <1>3 DEF Inv, Types
  <2>5. Types'
    BY <1>3, <2>2, <2>3, <2>4 DEF Inv, Types
  <2>6. ASSUME NEW u \in Turn PROVE SnapOK(u)' /\ CallOK(u)'
    <3>1. SnapOK(u)'
      BY <1>1, <1>3, <2>4 DEF Inv, SnapOK, After, Covered
    <3>2. CallOK(u)'
      BY <1>3, <2>2 DEF Inv, CallOK, After
    <3>. QED
      BY <3>1, <3>2
  <2>7. ASSUME NEW s \in sent' PROVE SentOK(s)'
    <3>1. s \in sent /\ s.turn \in Turn /\ SentOK(s)
      BY <1>3, <2>7 DEF Inv, Types
    <3>. QED
      BY <2>4, <3>1 DEF SentOK
  <2>8. ASSUME NEW x \in Worker PROVE BuilderOK(builder[x])'
    <3>1. builder'[x] = IF x = w THEN b ELSE builder[x]
      BY <1>3 DEF Be, Inv, Types
    <3>2. BuilderOK(builder[x])
      BY DEF Inv
    <3>3. CASE x = w
      BY <1>1, <1>3, <2>1, <2>4, <3>1, <3>3 DEF BuilderOK, After
    <3>4. CASE x # w
      BY <1>3, <2>4, <3>1, <3>2, <3>4 DEF BuilderOK, After, Covered
    <3>. QED
      BY <3>3, <3>4
  <2>. QED
    BY <2>2, <2>5, <2>6, <2>7, <2>8 DEF Inv
<1>. QED
  BY <1>2, <1>3 DEF Save, Step

\* A call that is begun, or begun again, is sent with the saved context.
LEMMA BeginCallKeeps ==
  ASSUME Inv, NEW w \in Worker, BeginCall(w)
  PROVE  Inv'
<1> DEFINE t == builder[w].turn
           view == builder[w].view
<1>1. /\ builder[w] \in Builder /\ BuilderOK(builder[w]) /\ builder[w].pc = "built"
      /\ t \in Turn /\ view \in Context /\ view # Unsaved /\ view = snap[t]
      /\ After(t) /\ Unsaved \in Context
  BY FreeIsOK DEF Inv, Types, BeginCall, Is, BuilderOK, Builder, Free
<1>2. CASE GiveUp(w) \/ Block(w)
  BY <1>2, BlockKeeps
<1>3. CASE Be(w, With(w, "answered", Unsaved)) /\ NoRecord /\ UNCHANGED workVars
  <2> DEFINE b == With(w, "answered", Unsaved)
  <2>1. b \in Builder /\ b.pc = "answered" /\ b.turn = t
    BY <1>1, WithIsBuilder
  <2>2. Be(w, b)
    BY <1>3
  <2> HIDE DEF b
  <2>3. BuilderOK(b)
    BY <1>1, <2>1 DEF BuilderOK
  <2>. QED
    BY <1>3, <2>1, <2>2, <2>3, CalmWorker
<1>4. CASE /\ call[t] # "answered" /\ call' = [call EXCEPT ![t] = "started"] /\ Record
           /\ sent' = sent \cup {[turn |-> t, view |-> view]}
           /\ Be(w, With(w, "called", Unsaved))
           /\ UNCHANGED <<pinned, snap, closed>>
  <2> DEFINE b == With(w, "called", Unsaved)
  <2>1. b \in Builder /\ b.pc = "called" /\ b.turn = t
    BY <1>1, WithIsBuilder
  <2>2. builder' = [builder EXCEPT ![w] = b]
    BY <1>4 DEF Be
  <2> HIDE DEF b
  <2>3. seq' \in Nat /\ seq' >= seq /\ base' \in [Writer -> Nat] /\ LogInv'
    BY <1>4, RecordIsCalm
  <2>4. builder' \in [Worker -> Builder]
    BY <2>1, <2>2 DEF Inv, Types
  <2>5. /\ call' \in [Turn -> {"none", "started", "answered"}] /\ call'[t] = "started"
        /\ \A u \in Turn : u # t => call'[u] = call[u]
    BY <1>1, <1>4 DEF Inv, Types
  <2>6. sent' \in SUBSET [turn : Turn, view : Context]
    BY <1>1, <1>4 DEF Inv, Types
  <2>7. Types'
    BY <1>4, <2>3, <2>4, <2>5, <2>6 DEF Inv, Types
  <2>8. \A u \in Turn : After(u) => After(u)'
    BY <1>4, <2>5 DEF After
  <2>9. ASSUME NEW u \in Turn PROVE SnapOK(u)' /\ CallOK(u)'
    <3>1. SnapOK(u)'
      BY <1>4, <2>8 DEF Inv, SnapOK, Covered
    <3>2. CallOK(u)'
      BY <1>1, <1>4, <2>3, <2>5, <2>8 DEF Inv, Types, CallOK
    <3>. QED
      BY <3>1, <3>2
  <2>10. \A s \in sent' : SentOK(s)'
    BY <1>1, <1>4 DEF Inv, SentOK
  <2>11. ASSUME NEW x \in Worker PROVE BuilderOK(builder[x])'
    <3>1. builder'[x] = IF x = w THEN b ELSE builder[x]
      BY <2>2 DEF Inv, Types
    <3>2. BuilderOK(builder[x])
      BY DEF Inv
    <3>3. CASE x = w
      BY <1>1, <2>1, <2>8, <3>1, <3>3 DEF BuilderOK
    <3>4. CASE x # w
      BY <1>4, <2>8, <3>1, <3>2, <3>4 DEF BuilderOK, Covered
    <3>. QED
      BY <3>3, <3>4
  <2>. QED
    BY <2>3, <2>7, <2>9, <2>10, <2>11 DEF Inv
<1>. QED
  BY <1>2, <1>3, <1>4 DEF BeginCall

\* A turn is answered once, after the turns before it; nobody has read for a
\* later turn yet.
LEMMA CompleteCallKeeps ==
  ASSUME Inv, NEW w \in Worker, CompleteCall(w)
  PROVE  Inv'
<1> DEFINE t == builder[w].turn
           b == [builder[w] EXCEPT !.pc = "answered"]
<1>1. /\ builder[w] \in Builder /\ BuilderOK(builder[w]) /\ builder[w].pc = "called"
      /\ t \in Turn /\ After(t)
  BY DEF Inv, Types, CompleteCall, Is, BuilderOK
<1>2. b \in Builder /\ b.pc = "answered" /\ b.turn = t
  BY <1>1 DEF Builder
<1>3. BuilderOK(b)
  BY <1>1, <1>2 DEF BuilderOK
<1>4. CASE GiveUp(w)
  BY <1>4, BlockKeeps
<1>5. CASE Be(w, b) /\ NoRecord /\ UNCHANGED workVars
  BY <1>2, <1>3, <1>5, CalmWorker
<1>6. CASE /\ call[t] # "answered" /\ call' = [call EXCEPT ![t] = "answered"] /\ Record
           /\ closed' = [closed EXCEPT ![t] = seq + 1] /\ Be(w, b)
           /\ UNCHANGED <<pinned, snap, sent>>
  <2>1. builder' = [builder EXCEPT ![w] = b]
    BY <1>6 DEF Be
  <2> HIDE DEF b
  <2>2. /\ seq' \in Nat /\ seq' = seq + 1 /\ seq \in Nat
        /\ base' \in [Writer -> Nat] /\ LogInv'
    BY <1>6, RecordIsCalm DEF Record, Append, Inv, Types
  <2>3. builder' \in [Worker -> Builder]
    BY <1>2, <2>1 DEF Inv, Types
  <2>4. /\ call' \in [Turn -> {"none", "started", "answered"}]
        /\ call'[t] = "answered" /\ closed' \in [Turn -> Nat] /\ closed'[t] = seq + 1
        /\ \A u \in Turn : u # t => call'[u] = call[u] /\ closed'[u] = closed[u]
    BY <1>1, <1>6, <2>2 DEF Inv, Types
  <2>5. Types'
    BY <1>6, <2>2, <2>3, <2>4 DEF Inv, Types
  <2>6. \A u \in Turn : After(u) => After(u)' /\ \A v : Covered(u, v) => Covered(u, v)'
    <3>1. SUFFICES ASSUME NEW u \in Turn, After(u)
                   PROVE  After(u)' /\ \A v : Covered(u, v) => Covered(u, v)'
      OBVIOUS
    <3>2. ~(t < u)
      BY <1>1, <1>6, <3>1 DEF After
    <3>. QED
      BY <2>4, <3>1, <3>2 DEF After, Covered
  <2>7. ASSUME NEW u \in Turn PROVE SnapOK(u)' /\ CallOK(u)'
    <3>1. SnapOK(u)'
      BY <1>6, <2>6 DEF Inv, SnapOK
    <3>2. CallOK(u)'
      BY <1>1, <2>2, <2>4, <2>6 DEF Inv, Types, CallOK
    <3>. QED
      BY <3>1, <3>2
  <2>8. \A s \in sent' : SentOK(s)'
    BY <1>6 DEF Inv, SentOK
  <2>9. ASSUME NEW x \in Worker PROVE BuilderOK(builder[x])'
    <3>1. builder'[x] = IF x = w THEN b ELSE builder[x]
      BY <2>1 DEF Inv, Types
    <3>2. BuilderOK(builder[x])
      BY DEF Inv
    <3>3. CASE x = w
      BY <1>1, <1>2, <2>6, <3>1, <3>3 DEF BuilderOK
    <3>4. CASE x # w
      BY <1>6, <2>6, <3>1, <3>2, <3>4 DEF BuilderOK
    <3>. QED
      BY <3>3, <3>4
  <2>. QED
    BY <2>2, <2>5, <2>7, <2>8, <2>9 DEF Inv
<1>. QED
  BY <1>4, <1>5, <1>6 DEF CompleteCall, Step, workVars

-----------------------------------------------------------------------------
(* The theorems *)

\* Steps of other transactions of the Run, of retention and of readers.
LEMMA LogKeeps ==
  ASSUME Inv, LNext, UNCHANGED contextVars
  PROVE  Inv'
<1> DEFINE Grows == seq' \in Nat /\ seq' >= seq /\ base' \in [Writer -> Nat] /\ LogInv'
<1>1. ASSUME NEW w \in Writer, Open(w) PROVE Grows
  BY <1>1, LogAssumption DEF Open, Inv, Types, LogInv
<1>2. ASSUME NEW w \in Writer, Commit(w) \/ Rollback(w) PROVE Grows
  BY <1>2, LogAssumption DEF Commit, Rollback, Append, Inv, Types, LogInv
<1>3. ASSUME UNCHANGED <<seq, base, lock>> PROVE Grows
  BY <1>3 DEF Inv, Types, LogInv
<1>4. ASSUME \E n \in 1..MaxSeq : Prune(n) PROVE Grows
  BY <1>3, <1>4 DEF Prune
<1>5. ASSUME \E c \in audience : Answering(c) \/ Drop(c)
                               \/ \E view \in DOMAIN Limit : Ask(c, view)
      PROVE  Grows
  BY <1>3, <1>5 DEF Answering, ReadRun, CheckRetained, CheckCurrent, ReadPage, Deliver,
                    Drop, Ask, logVars
<1>6. Grows
  BY <1>1, <1>2, <1>4, <1>5 DEF LNext
<1>7. Calm /\ UNCHANGED builder
  BY <1>6 DEF Calm, contextVars
<1>. QED
  BY <1>7, QuietStep

\* Jobs, leases, checkpoints and resumptions touch no row of the Run's work.
LEMMA OthersKeep ==
  ASSUME Inv,
         \/ \E w \in Worker : Crash(w) \/ Finish(w)
         \/ \E j \in Job : Wake(j) \/ Lapse(j) \/ Resume(j)
         \/ \E rev \in Revision :
              RecoverCheckpoint(rev) \/ \E k \in 1..MaxCheckpoint : SaveCheckpoint(k, rev)
  PROVE  Inv'
<1>1. CASE \E w \in Worker : Crash(w) \/ Finish(w)
  BY <1>1, FreeIsOK, CalmWorker DEF Crash, Finish
<1>2. CASE \E j \in Job : Wake(j) \/ Lapse(j) \/ Resume(j)
  <2>1. UNCHANGED <<eventVars, workVars, builder>>
    BY <1>2 DEF Wake, Lapse, Resume
  <2>2. Calm
    BY <2>1 DEF Calm, eventVars, logVars, Inv, Types, LogInv
  <2>. QED
    BY <2>1, <2>2, QuietStep
<1>3. CASE \E rev \in Revision :
             RecoverCheckpoint(rev) \/ \E k \in 1..MaxCheckpoint : SaveCheckpoint(k, rev)
  <2>1. (Record \/ NoRecord) /\ UNCHANGED <<workVars, builder>>
    BY <1>3 DEF RecoverCheckpoint, SaveCheckpoint
  <2>2. Calm
    BY <2>1, RecordIsCalm DEF Calm
  <2>. QED
    BY <2>1, <2>2, QuietStep
<1>. QED
  BY <1>1, <1>2, <1>3

\* The invariant holds in every behaviour.
LEMMA Inductive == CSpec => []Inv
<1>1. CInit => Inv
  <2> SUFFICES ASSUME CInit PROVE Inv
    OBVIOUS
  <2>1. Types /\ LogInv
    BY FreeIsOK, LogAssumption, ContextAssumption
    DEF CInit, LInit, Types, LogInv, Unsaved, Context
  <2>2. \A t \in Turn : SnapOK(t) /\ CallOK(t)
    BY DEF CInit, SnapOK, CallOK
  <2>. QED
    BY <2>1, <2>2, FreeIsOK DEF CInit, Inv
<1>2. Inv /\ [CNext]_allVars => Inv'
  <2> SUFFICES ASSUME Inv, [CNext]_allVars PROVE Inv'
    OBVIOUS
  <2>1. CASE LNext /\ UNCHANGED contextVars
    BY <2>1, LogKeeps
  <2>2. ASSUME NEW w \in Worker, Building(w) PROVE Inv'
    BY <2>2, PickTurnKeeps, LookKeeps, PinKeeps, ReadKeeps, SaveKeeps, BeginCallKeeps,
       CompleteCallKeeps, OthersKeep DEF Building
  <2>3. ASSUME NEW w \in Worker, NEW j \in Job, Claim(w, j) PROVE Inv'
    BY <2>3, ClaimKeeps
  <2>4. CASE ContextStep
    BY <2>2, <2>3, <2>4, OthersKeep DEF ContextStep
  <2>5. CASE UNCHANGED allVars
    <3>1. Calm /\ UNCHANGED builder
      BY <2>5 DEF allVars, contextVars, eventVars, logVars, Calm, Inv, Types, LogInv
    <3>. QED
      BY <3>1, QuietStep
  <2>. QED
    BY <2>1, <2>4, <2>5 DEF CNext
<1>. QED
  BY <1>1, <1>2, PTL DEF CSpec

\* Whatever releases the workers of a Run are of, pin and snapshots name one
\* revision of its skills.
THEOREM PinsHold == CSpec => []SkillsArePinned
<1>1. Inv => SkillsArePinned
  BY DEF Inv, SnapOK, SkillsArePinned
<1>. QED
  BY <1>1, Inductive, PTL

\* All attempts at a turn, by whichever workers and under whichever jobs, are
\* made with the context that was saved for it.
THEOREM TurnsHaveOneContext == CSpec => []OneContextPerTurn
<1>1. Inv => OneContextPerTurn
  BY DEF Inv, SentOK, OneContextPerTurn
<1>. QED
  BY <1>1, Inductive, PTL

\* No context was read before a turn that precedes its own was answered.
THEOREM ContextsCoverEarlierTurns == CSpec => []ContextCoversEarlierTurns
<1>1. Inv => ContextCoversEarlierTurns
  <2> SUFFICES ASSUME Inv, NEW t \in Turn, snap[t] # Unsaved, NEW u \in 1..(t - 1)
               PROVE  closed[u] # 0 /\ closed[u] <= snap[t].asof
    BY DEF ContextCoversEarlierTurns
  <2>1. u \in Turn /\ u < t
    BY ContextAssumption DEF Turn
  <2>2. call[u] = "answered" /\ closed[u] <= snap[t].asof
    BY <2>1 DEF Inv, SnapOK, After, Covered
  <2>. QED
    BY <2>1, <2>2 DEF Inv, CallOK
<1>. QED
  BY <1>1, Inductive, PTL
-----------------------------------------------------------------------------
(* The log and those who follow it *)

\* Retention takes a beginning: what the log holds is all from some event on.
Suffix == \A n \in log : n..seq \subseteq log

\* Retention has taken n, and has overtaken a request of the client.
Overtaken(c, n) == n \notin log /\ n <= raced[c]
Kept(c, n)      == n \in log \/ Overtaken(c, n)

\* What the client of each statement of a request knows: what is beyond the
\* event_seq it has read, beyond a cursor that has not expired, and up to the
\* end of its page, is in the log, in the page, or overtaken.
ClientOK(c) ==
  /\ told[c] <= cursor[c] /\ cursor[c] <= seq
  /\ \A n \in (1..cursor[c]) \ got[c] : n \notin log /\ (n <= told[c] \/ n <= raced[c])
  /\ client[c].pc \in {"read", "retained", "bounded"} => client[c].run <= seq
  /\ client[c].pc = "read" => \A n \in (client[c].run + 1)..seq : Kept(c, n)
  /\ client[c].pc \in {"retained", "bounded"} => \A n \in (cursor[c] + 1)..seq : Kept(c, n)
  /\ client[c].pc = "answered" =>
       \A x \in client[c].page :
         /\ cursor[c] < x /\ x <= seq
         /\ \A n \in (cursor[c] + 1)..x : n \in client[c].page \/ Overtaken(c, n)

FollowInv ==
  /\ LTypeOK /\ LogInv /\ Suffix /\ ahead = {}
  /\ \A c \in Client : ClientOK(c)
Request == [pc : {"idle", "asked", "read", "retained", "bounded", "answered"},
            view : {"page", "stream"}, run : 0..MaxSeq, page : SUBSET (1..MaxSeq)]

LEMMA LogBounds ==
  ASSUME LTypeOK, log # {}
  PROVE  Min(log) \in log /\ \A n \in log : Min(log) <= n
<1>1. seq \in Int /\ log \subseteq 1..seq
  BY LogAssumption DEF LTypeOK
<1>2. IsFiniteSet(1..seq)
  BY <1>1, FS_Interval
<1>3. IsFiniteSet(log)
  BY <1>1, <1>2, FS_Subset
<1>4. \A n \in log : n \in Int
  BY <1>1
<1>. QED
  BY <1>3, <1>4, FiniteSetBounds

\* The first n elements of a set of numbers: with an element, those below it.
LEMMA FirstOfIsInitial ==
  ASSUME NEW S, IsFiniteSet(S), \A y \in S : y \in Int, NEW n \in Nat,
         NEW x \in FirstOf(S, n), NEW y \in S, y <= x
  PROVE  y \in FirstOf(S, n)
<1> DEFINE Upto(z) == {u \in S : u <= z}
<1>1. x \in S /\ Cardinality(Upto(x)) <= n
  BY DEF FirstOf
<1>2. Upto(y) \subseteq Upto(x) /\ Upto(x) \subseteq S
  BY <1>1
<1>3. IsFiniteSet(Upto(x))
  BY <1>2, FS_Subset
<1> HIDE DEF Upto
<1>4. IsFiniteSet(Upto(y)) /\ Cardinality(Upto(y)) <= Cardinality(Upto(x))
  BY <1>2, <1>3, FS_Subset
<1>5. Cardinality(Upto(x)) \in Nat /\ Cardinality(Upto(y)) \in Nat
  BY <1>3, <1>4, FS_CardinalityType
<1>6. Cardinality(Upto(y)) <= n
  BY <1>1, <1>4, <1>5
<1>. QED
  BY <1>6 DEF FirstOf, Upto

\* Appending keeps what a client knows: new events are in the log.
LEMMA AppendFollows ==
  ASSUME FollowInv, NEW n \in Nat \ {0}, Append(n, seq), UNCHANGED readerVars
  PROVE  /\ seq' \in 1..MaxSeq /\ seq' > seq /\ log' \subseteq 1..seq' /\ Suffix'
         /\ \A c \in Client : ClientOK(c)'
<1>1. /\ seq \in Nat /\ MaxSeq \in Nat /\ seq >= 1 /\ log \subseteq 1..seq
      /\ seq' = seq + n /\ seq + n <= MaxSeq /\ log' = log \cup (seq + 1)..(seq + n)
      /\ client \in [Client -> Request] /\ cursor \in [Client -> 0..MaxSeq]
      /\ got \in [Client -> SUBSET (1..MaxSeq)]
  BY LogAssumption DEF FollowInv, LTypeOK, Append, Request
<1>2. UNCHANGED <<audience, client, cursor, got, told, ahead, raced, drops>>
  BY DEF readerVars
<1>3. Suffix'
  <2> SUFFICES ASSUME NEW m \in log', NEW k \in m..(seq + n) PROVE k \in log'
    BY <1>1 DEF Suffix
  <2>1. CASE k <= seq
    <3>1. m \in log
      BY <1>1, <2>1
    <3>2. k \in m..seq
      BY <1>1, <2>1, <3>1
    <3>. QED
      BY <1>1, <3>1, <3>2 DEF FollowInv, Suffix
  <2>2. CASE k > seq
    BY <1>1, <2>2
  <2>. QED
    BY <1>1, <2>1, <2>2
<1>4. \A k \in 1..seq : k \in log' <=> k \in log
  BY <1>1
<1>5. \A k \in Nat : k > seq /\ k <= seq' => k \in log'
  BY <1>1
<1>6. ASSUME NEW c \in Client PROVE ClientOK(c)'
  <2>1. ClientOK(c) /\ client[c] \in Request /\ cursor[c] \in Nat
    BY <1>1 DEF FollowInv
  <2>2. told[c] <= cursor[c] /\ cursor[c] <= seq /\ cursor[c] <= seq'
    BY <1>1, <2>1 DEF ClientOK
  <2>3. \A k \in (1..cursor[c]) \ got[c] : k \notin log' /\ (k <= told[c] \/ k <= raced[c])
    BY <1>1, <1>4, <2>1, <2>2 DEF ClientOK
  <2>4. client[c].run \in Nat /\ client[c].page \in SUBSET (1..MaxSeq)
    BY <1>1, <2>1 DEF Request
  <2>5. client[c].pc \in {"read", "retained", "bounded"} => client[c].run <= seq'
    BY <1>1, <2>1, <2>4 DEF ClientOK
  <2>6. \A k \in Nat : k \in 1..seq /\ Kept(c, k) => Kept(c, k)'
    BY <1>2, <1>4 DEF Kept, Overtaken
  <2>7. \A k \in Nat : k > seq /\ k <= seq' => Kept(c, k)'
    BY <1>5 DEF Kept
  <2>8. ASSUME NEW r \in Nat, \A k \in (r + 1)..seq : Kept(c, k)
        PROVE  \A k \in (r + 1)..seq' : Kept(c, k)'
    BY <1>1, <2>6, <2>7, <2>8
  <2>9. client[c].pc = "read" => \A k \in (client[c].run + 1)..seq' : Kept(c, k)'
    BY <2>1, <2>4, <2>8 DEF ClientOK
  <2>10. client[c].pc \in {"retained", "bounded"} =>
           \A k \in (cursor[c] + 1)..seq' : Kept(c, k)'
    BY <2>1, <2>8 DEF ClientOK
  <2>11. ASSUME client[c].pc = "answered", NEW x \in client[c].page
         PROVE  /\ cursor[c] < x /\ x <= seq'
                /\ \A k \in (cursor[c] + 1)..x : k \in client[c].page \/ Overtaken(c, k)'
    <3>1. /\ cursor[c] < x /\ x <= seq
          /\ \A k \in (cursor[c] + 1)..x : k \in client[c].page \/ Overtaken(c, k)
      BY <2>1, <2>11 DEF ClientOK
    <3>2. x \in Nat
      BY <2>4
    <3>. QED
      BY <1>1, <1>2, <1>4, <2>1, <3>1, <3>2 DEF Overtaken
  <2>. QED
    BY <1>2, <2>2, <2>3, <2>5, <2>9, <2>10, <2>11 DEF ClientOK
<1>. QED
  BY <1>1, <1>3, <1>6
\* A step of one client: it changes its own request, cursor and events.
Alone(c) ==
  /\ UNCHANGED <<logVars, audience, raced, ahead>> /\ drops' \in 0..MaxDrops
  /\ client'[c] \in Request /\ cursor'[c] \in 0..MaxSeq
  /\ told'[c] \in 0..MaxSeq /\ got'[c] \in SUBSET (1..MaxSeq)
  /\ client' = [client EXCEPT ![c] = client'[c]]
  /\ cursor' = [cursor EXCEPT ![c] = cursor'[c]]
  /\ told' = [told EXCEPT ![c] = told'[c]]
  /\ got' = [got EXCEPT ![c] = got'[c]]

LEMMA AloneKeeps ==
  ASSUME FollowInv, NEW c \in Client, Alone(c), ClientOK(c)'
  PROVE  FollowInv'
<1>1. UNCHANGED <<seq, log, lock, base, audience, raced, ahead>> /\ drops' \in 0..MaxDrops
  BY DEF Alone, logVars
<1>2. /\ client \in [Client -> Request] /\ cursor \in [Client -> 0..MaxSeq]
      /\ told \in [Client -> 0..MaxSeq] /\ got \in [Client -> SUBSET (1..MaxSeq)]
  BY DEF FollowInv, LTypeOK, Request
<1>3. /\ client' \in [Client -> Request] /\ cursor' \in [Client -> 0..MaxSeq]
      /\ told' \in [Client -> 0..MaxSeq] /\ got' \in [Client -> SUBSET (1..MaxSeq)]
  BY <1>2 DEF Alone
<1>4. LTypeOK'
  BY <1>1, <1>3 DEF FollowInv, LTypeOK, Request
<1>5. LogInv' /\ Suffix' /\ ahead' = {}
  BY <1>1 DEF FollowInv, LogInv, Suffix
<1>6. ASSUME NEW d \in Client, d # c PROVE ClientOK(d)'
  <2>1. /\ client'[d] = client[d] /\ cursor'[d] = cursor[d]
        /\ told'[d] = told[d] /\ got'[d] = got[d]
    BY <1>2, <1>6 DEF Alone
  <2>2. ClientOK(d)
    BY DEF FollowInv
  <2>. QED
    BY <1>1, <2>1, <2>2 DEF ClientOK, Kept, Overtaken
<1>. QED
  BY <1>4, <1>5, <1>6 DEF FollowInv

\* What a client's request and record are, before it moves.
LEMMA ClientTypes ==
  ASSUME FollowInv, NEW c \in Client
  PROVE  /\ ClientOK(c) /\ client[c] \in Request /\ client[c].run \in 0..MaxSeq
         /\ client[c].page \in SUBSET (1..MaxSeq) /\ client[c].view \in {"page", "stream"}
         /\ cursor[c] \in 0..MaxSeq /\ told[c] \in 0..MaxSeq
         /\ got[c] \in SUBSET (1..MaxSeq) /\ raced[c] \in 0..MaxSeq
         /\ seq \in 1..MaxSeq /\ log \subseteq 1..seq /\ MaxSeq \in Nat
         /\ DOMAIN client = Client /\ DOMAIN cursor = Client
         /\ DOMAIN told = Client /\ DOMAIN got = Client
<1>1. /\ client \in [Client -> Request] /\ cursor \in [Client -> 0..MaxSeq]
      /\ told \in [Client -> 0..MaxSeq] /\ got \in [Client -> SUBSET (1..MaxSeq)]
      /\ raced \in [Client -> 0..MaxSeq]
      /\ seq \in 1..MaxSeq /\ log \subseteq 1..seq /\ ClientOK(c)
  BY DEF FollowInv, LTypeOK, Request
<1>2. client[c] \in Request
  BY <1>1
<1>. QED
  BY <1>1, <1>2, LogAssumption DEF Request

\* A step that changes a client's request alone.
LEMMA RequestMoves ==
  ASSUME FollowInv, NEW c \in Client, NEW r \in Request, Become(c, r),
         UNCHANGED <<logVars, audience, cursor, got, told, ahead, raced>>,
         drops' \in 0..MaxDrops
  PROVE  /\ Alone(c) /\ client'[c] = r
         /\ cursor'[c] = cursor[c] /\ got'[c] = got[c] /\ told'[c] = told[c]
<1>1. /\ cursor[c] \in 0..MaxSeq /\ told[c] \in 0..MaxSeq /\ got[c] \in SUBSET (1..MaxSeq)
      /\ client'[c] = r
  BY ClientTypes DEF Become
<1>2. /\ cursor' = [cursor EXCEPT ![c] = cursor[c]] /\ told' = [told EXCEPT ![c] = told[c]]
      /\ got' = [got EXCEPT ![c] = got[c]] /\ client' = [client EXCEPT ![c] = r]
  BY DEF FollowInv, LTypeOK, Become
<1>3. cursor'[c] = cursor[c] /\ got'[c] = got[c] /\ told'[c] = told[c]
  OBVIOUS
<1>. QED
  BY <1>1, <1>2, <1>3 DEF Alone

\* Asking and dropping a request leave nothing to say of it.
LEMMA QuietRequest ==
  ASSUME FollowInv, NEW c \in Client, NEW r \in Request, Become(c, r),
         r.pc \in {"idle", "asked"},
         UNCHANGED <<logVars, audience, cursor, got, told, ahead, raced>>,
         drops' \in 0..MaxDrops
  PROVE  FollowInv'
<1>1. /\ Alone(c) /\ client'[c] = r
      /\ cursor'[c] = cursor[c] /\ got'[c] = got[c] /\ told'[c] = told[c]
  BY RequestMoves
<1>2. ClientOK(c)'
  BY <1>1 DEF FollowInv, ClientOK, logVars
<1>. QED
  BY <1>1, <1>2, AloneKeeps
\* The statements of a request, one after the other.
LEMMA ReadRunKeeps ==
  ASSUME FollowInv, NEW c \in Client, ReadRun(c)
  PROVE  FollowInv'
<1> DEFINE r == [client[c] EXCEPT !.pc = "read", !.run = seq]
<1>0. client[c] \in Request /\ seq \in 0..MaxSeq
  BY ClientTypes
<1>1. r \in Request /\ r.pc = "read" /\ r.run = seq
  BY <1>0 DEF Request
<1>2. Become(c, r) /\ UNCHANGED <<logVars, audience, cursor, got, told, ahead, raced, drops>>
  BY DEF ReadRun
<1> HIDE DEF r
<1>3. drops' \in 0..MaxDrops
  BY <1>2 DEF FollowInv, LTypeOK
<1>4. /\ Alone(c) /\ client'[c] = r
      /\ cursor'[c] = cursor[c] /\ got'[c] = got[c] /\ told'[c] = told[c]
  BY <1>1, <1>2, <1>3, RequestMoves
<1>5. ClientOK(c)'
  BY <1>1, <1>2, <1>4, ClientTypes DEF ClientOK, logVars
<1>. QED
  BY <1>4, <1>5, AloneKeeps

\* The answer that names another cursor names one below which nothing is left.
LEMMA ExpireKeeps ==
  ASSUME FollowInv, NEW c \in Client, NEW n \in 0..seq, cursor[c] < n,
         \A m \in log : n < m, Expire(c, n),
         UNCHANGED <<logVars, audience, got, ahead, raced, drops>>
  PROVE  FollowInv'
<1>1. Quiet \in Request /\ Quiet.pc = "idle"
  BY LogAssumption DEF Quiet, Request
<1>2. n \in 0..MaxSeq /\ got[c] \in SUBSET (1..MaxSeq) /\ seq \in Nat
  BY ClientTypes
<1>3. /\ client'[c] = Quiet /\ cursor'[c] = n /\ told'[c] = n
      /\ client' = [client EXCEPT ![c] = Quiet] /\ cursor' = [cursor EXCEPT ![c] = n]
      /\ told' = [told EXCEPT ![c] = n] /\ got' = [got EXCEPT ![c] = got[c]]
      /\ got'[c] = got[c]
  BY ClientTypes DEF Expire, Become, FollowInv, LTypeOK
<1>4. drops' \in 0..MaxDrops
  BY DEF FollowInv, LTypeOK
<1>5. Alone(c)
  BY <1>1, <1>2, <1>3, <1>4 DEF Alone
<1>6. \A k \in 1..n : k \notin log
  BY <1>2, ClientTypes
<1>7. ClientOK(c)'
  BY <1>1, <1>2, <1>3, <1>6 DEF ClientOK, logVars
<1>. QED
  BY <1>5, <1>7, AloneKeeps

LEMMA CheckRetainedKeeps ==
  ASSUME FollowInv, NEW c \in Client, CheckRetained(c)
  PROVE  FollowInv'
<1>1. /\ ClientOK(c) /\ client[c] \in Request /\ client[c].pc = "read"
      /\ client[c].run \in Nat /\ client[c].run <= seq
      /\ seq \in Nat /\ log \subseteq 1..seq /\ cursor[c] \in Nat
  BY ClientTypes DEF CheckRetained, At, ClientOK
<1>2. CASE CursorExpired(c)
  <2> DEFINE n == IF log = {} THEN client[c].run ELSE Min(log) - 1
  <2>1. n \in 0..seq /\ cursor[c] < n /\ \A m \in log : n < m
    <3>1. CASE log = {}
      BY <1>1, <1>2, <3>1 DEF CursorExpired
    <3>2. CASE log # {}
      <4>1. PICK m \in log : m = Min(log) /\ \A k \in log : m <= k
        BY <3>2, LogBounds DEF FollowInv
      <4>2. n = m - 1 /\ cursor[c] < m - 1
        BY <1>2, <3>2, <4>1 DEF CursorExpired
      <4>3. m \in 1..seq /\ \A k \in log : k \in Nat
        BY <1>1
      <4> HIDE DEF n
      <4>. QED
        BY <1>1, <4>1, <4>2, <4>3
    <3>. QED
      BY <3>1, <3>2
  <2>2. Expire(c, n) /\ UNCHANGED <<logVars, audience, got, ahead, raced, drops>>
    BY <1>2 DEF CheckRetained
  <2> HIDE DEF n
  <2>. QED
    BY <2>1, <2>2, ExpireKeeps
<1>3. CASE ~CursorExpired(c)
  <2> DEFINE r == [client[c] EXCEPT !.pc = "retained"]
  <2>1. r \in Request /\ r.pc = "retained" /\ r.run = client[c].run
    BY <1>1 DEF Request
  <2>2. Become(c, r) /\ UNCHANGED <<logVars, audience, cursor, got, told, ahead, raced, drops>>
    BY <1>3 DEF CheckRetained, Goto
  <2> HIDE DEF r
  <2>3. drops' \in 0..MaxDrops
    BY <2>2 DEF FollowInv, LTypeOK
  <2>4. /\ Alone(c) /\ client'[c] = r
        /\ cursor'[c] = cursor[c] /\ got'[c] = got[c] /\ told'[c] = told[c]
    BY <2>1, <2>2, <2>3, RequestMoves
  <2>5. \A n \in (cursor[c] + 1)..seq : Kept(c, n)
    <3>1. CASE log = {}
      <4>1. client[c].run <= cursor[c]
        BY <1>1, <1>3, <3>1 DEF CursorExpired
      <4>. QED
        BY <1>1, <4>1 DEF ClientOK
    <3>2. CASE log # {}
      <4>1. PICK m \in log : m = Min(log)
        BY <3>2, LogBounds DEF FollowInv
      <4>2. ~(cursor[c] < m - 1) /\ m \in 1..seq /\ m..seq \subseteq log
        BY <1>1, <1>3, <3>2, <4>1 DEF CursorExpired, FollowInv, Suffix
      <4>. QED
        BY <1>1, <4>2 DEF Kept
    <3>. QED
      BY <3>1, <3>2
  <2>6. ClientOK(c)'
    BY <1>1, <2>1, <2>2, <2>4, <2>5 DEF ClientOK, Kept, Overtaken, logVars
  <2>. QED
    BY <2>4, <2>6, AloneKeeps
<1>. QED
  BY <1>2, <1>3

\* A cursor is never ahead of the log, so no client is told so.
LEMMA CheckCurrentKeeps ==
  ASSUME FollowInv, NEW c \in Client, CheckCurrent(c)
  PROVE  FollowInv'
<1> DEFINE r == [client[c] EXCEPT !.pc = "bounded"]
<1>1. /\ ClientOK(c) /\ client[c] \in Request /\ client[c].pc = "retained"
      /\ seq \in Nat /\ cursor[c] \in Nat /\ ~(cursor[c] > seq)
  BY ClientTypes DEF CheckCurrent, At, ClientOK
<1>2. r \in Request /\ r.pc = "bounded" /\ r.run = client[c].run
  BY <1>1 DEF Request
<1>3. Become(c, r) /\ UNCHANGED <<logVars, audience, cursor, got, told, ahead, raced, drops>>
  BY <1>1 DEF CheckCurrent, Goto
<1> HIDE DEF r
<1>4. drops' \in 0..MaxDrops
  BY <1>3 DEF FollowInv, LTypeOK
<1>5. /\ Alone(c) /\ client'[c] = r
      /\ cursor'[c] = cursor[c] /\ got'[c] = got[c] /\ told'[c] = told[c]
  BY <1>2, <1>3, <1>4, RequestMoves
<1>6. ClientOK(c)'
  BY <1>1, <1>2, <1>3, <1>5 DEF ClientOK, Kept, Overtaken, logVars
<1>. QED
  BY <1>5, <1>6, AloneKeeps
\* A page is a first part of what the log holds beyond the cursor.
LEMMA ReadPageKeeps ==
  ASSUME FollowInv, NEW c \in Client, ReadPage(c)
  PROVE  FollowInv'
<1> DEFINE S == {n \in log : n > cursor[c]}
           page == FirstOf(S, Limit[client[c].view])
           r == [client[c] EXCEPT !.pc = "answered", !.page = page]
<1>1. /\ ClientOK(c) /\ client[c] \in Request /\ client[c].pc = "bounded"
      /\ seq \in 1..MaxSeq /\ MaxSeq \in Nat /\ log \subseteq 1..seq /\ cursor[c] \in Nat
  BY ClientTypes DEF ReadPage, At
<1>2. Limit[client[c].view] \in Nat
  <2>1. client[c].view \in {"page", "stream"}
    BY ClientTypes
  <2>. QED
    BY <2>1, LogAssumption
<1>3. S \subseteq 1..seq /\ S \subseteq 1..MaxSeq /\ page \subseteq S
  <2>1. S \subseteq log /\ log \subseteq 1..MaxSeq
    BY <1>1
  <2>2. page \subseteq S
    BY DEF FirstOf
  <2>. QED
    BY <1>1, <2>1, <2>2
<1>4. IsFiniteSet(S) /\ \A y \in S : y \in Int
  <2>1. IsFiniteSet(1..seq)
    BY <1>1, FS_Interval
  <2>2. \A y \in S : y \in Int
    BY <1>3
  <2> HIDE DEF S
  <2>3. IsFiniteSet(S)
    BY <1>3, <2>1, FS_Subset
  <2>. QED
    BY <2>2, <2>3
<1>5. \A x \in page, y \in S : y <= x => y \in page
  <2> HIDE DEF S
  <2>. QED
    BY <1>2, <1>4, FirstOfIsInitial
<1>6. Become(c, r) /\ UNCHANGED <<logVars, audience, cursor, got, told, ahead, raced, drops>>
  BY DEF ReadPage
<1>7. page \in SUBSET (1..MaxSeq)
  BY <1>3
<1>8. \A x \in page : /\ cursor[c] < x /\ x <= seq
                      /\ \A n \in (cursor[c] + 1)..x : n \in page \/ Overtaken(c, n)
  <2> SUFFICES ASSUME NEW x \in page
               PROVE  /\ cursor[c] < x /\ x <= seq
                      /\ \A n \in (cursor[c] + 1)..x : n \in page \/ Overtaken(c, n)
    OBVIOUS
  <2>1. x \in Nat /\ x > cursor[c] /\ x <= seq
    BY <1>1, <1>3
  <2>2. \A n \in (cursor[c] + 1)..seq : Kept(c, n)
    BY <1>1 DEF ClientOK
  <2>3. ASSUME NEW n \in (cursor[c] + 1)..x PROVE n \in page \/ Overtaken(c, n)
    <3>1. n \in Nat /\ n > cursor[c] /\ n <= x /\ n \in (cursor[c] + 1)..seq
      BY <1>1, <2>1, <2>3
    <3>2. CASE n \in log
      <4>1. n \in S
        BY <3>1, <3>2
      <4> HIDE DEF S, page
      <4>. QED
        BY <1>5, <3>1, <4>1
    <3>3. CASE n \notin log
      BY <2>2, <3>1, <3>3 DEF Kept
    <3>. QED
      BY <3>2, <3>3
  <2>. QED
    BY <2>1, <2>3
<1> HIDE DEF S, page
<1>9. r \in Request /\ r.pc = "answered" /\ r.page = page
  BY <1>1, <1>7 DEF Request
<1> HIDE DEF r
<1>10. drops' \in 0..MaxDrops
  BY <1>6 DEF FollowInv, LTypeOK
<1>11. /\ Alone(c) /\ client'[c] = r
       /\ cursor'[c] = cursor[c] /\ got'[c] = got[c] /\ told'[c] = told[c]
  BY <1>6, <1>9, <1>10, RequestMoves
<1>12. ClientOK(c)'
  BY <1>1, <1>6, <1>8, <1>9, <1>11 DEF ClientOK, Overtaken, logVars
<1>. QED
  BY <1>11, <1>12, AloneKeeps

\* What is consumed is a first part of the page, so the cursor passes nothing
\* that is not consumed, and stays below the rest.
LEMMA DeliverKeeps ==
  ASSUME FollowInv, NEW c \in Client, Deliver(c)
  PROVE  FollowInv'
<1> DEFINE page == client[c].page
           part == IF client[c].view = "page" THEN page ELSE FirstOf(page, 1)
           rest == IF page = part THEN Quiet ELSE [client[c] EXCEPT !.page = page \ part]
           last == IF part = {} THEN cursor[c] ELSE Max(part)
<1>1. /\ ClientOK(c) /\ client[c] \in Request /\ client[c].pc = "answered"
      /\ page \in SUBSET (1..MaxSeq) /\ seq \in Nat /\ seq <= MaxSeq /\ MaxSeq \in Nat
      /\ cursor[c] \in Nat /\ cursor[c] <= seq /\ got[c] \in SUBSET (1..MaxSeq)
      /\ told[c] \in 0..MaxSeq /\ told[c] <= cursor[c] /\ raced[c] \in Nat
  BY ClientTypes DEF Deliver, At, ClientOK
<1>2. IsFiniteSet(page) /\ \A y \in page : y \in Int
  <2>1. IsFiniteSet(1..MaxSeq)
    BY <1>1, FS_Interval
  <2>. QED
    BY <1>1, <2>1, FS_Subset
<1>3. part \subseteq page /\ \A x \in part, y \in page : y <= x => y \in part
  <2> HIDE DEF page
  <2>1. \A x \in FirstOf(page, 1), y \in page : y <= x => y \in FirstOf(page, 1)
    BY <1>2, FirstOfIsInitial
  <2>2. FirstOf(page, 1) \subseteq page
    BY DEF FirstOf
  <2>. QED
    BY <2>1, <2>2
<1>4. \A x \in page : /\ cursor[c] < x /\ x <= seq
                      /\ \A n \in (cursor[c] + 1)..x : n \in page \/ Overtaken(c, n)
  BY <1>1 DEF ClientOK
<1>5. /\ got' = [got EXCEPT ![c] = got[c] \cup part] /\ cursor' = [cursor EXCEPT ![c] = last]
      /\ client' = [client EXCEPT ![c] = rest]
      /\ UNCHANGED <<logVars, audience, told, ahead, raced, drops>>
  BY DEF Deliver, Consume, Become
<1> HIDE DEF page, part
<1>6. /\ last \in Nat /\ cursor[c] <= last /\ last <= seq
      /\ \A x \in part : x <= last
      /\ \A n \in (cursor[c] + 1)..last : n \in part \/ Overtaken(c, n)
  <2>1. CASE part = {}
    BY <1>1, <2>1
  <2>2. CASE part # {}
    <3>1. IsFiniteSet(part) /\ \A y \in part : y \in Int
      BY <1>2, <1>3, FS_Subset
    <3>2. PICK m \in part : m = Max(part) /\ \A y \in part : y <= m
      BY <2>2, <3>1, FiniteSetBounds
    <3>3. m \in page
      BY <1>3
    <3>4. m \in 1..MaxSeq
      BY <1>1, <3>3
    <3>5. m \in page /\ m \in Nat
      BY <3>3, <3>4
    <3>6. last = m
      BY <2>2, <3>2
    <3> HIDE DEF last
    <3>7. cursor[c] < m /\ m <= seq
      BY <1>4, <3>5
    <3>8. \A n \in (cursor[c] + 1)..m : n \in part \/ Overtaken(c, n)
      BY <1>1, <1>3, <1>4, <3>2, <3>5
    <3>. QED
      BY <1>1, <3>2, <3>5, <3>6, <3>7, <3>8
  <2>. QED
    BY <2>1, <2>2
<1>7. \A x \in page \ part : last < x
  <2>1. CASE part = {}
    BY <1>4, <2>1
  <2>2. CASE part # {}
    <3>1. IsFiniteSet(part) /\ \A y \in part : y \in Int
      BY <1>2, <1>3, FS_Subset
    <3>2. last \in part
      BY <2>2, <3>1, FiniteSetBounds
    <3> HIDE DEF last
    <3>. QED
      BY <1>2, <1>3, <1>6, <3>2
  <2>. QED
    BY <2>1, <2>2
<1> HIDE DEF last
<1>8. rest \in Request /\ (rest = Quiet \/ (rest.pc = "answered" /\ rest.page = page \ part))
  <2>1. Quiet \in Request
    BY LogAssumption DEF Quiet, Request
  <2>2. [client[c] EXCEPT !.page = page \ part] \in Request
    BY <1>1 DEF Request
  <2>. QED
    BY <1>1, <2>1, <2>2 DEF Request
<1> HIDE DEF rest
<1>9. /\ client'[c] = rest /\ cursor'[c] = last /\ got'[c] = got[c] \cup part
      /\ told'[c] = told[c]
  BY <1>5, ClientTypes
<1>10. Alone(c)
  <2>1. told' = told /\ told \in [Client -> 0..MaxSeq]
    BY <1>5 DEF FollowInv, LTypeOK
  <2>2. told' = [told EXCEPT ![c] = told'[c]]
    BY <2>1
  <2>3. last \in 0..MaxSeq
    BY <1>1, <1>6
  <2>4. got[c] \cup part \in SUBSET (1..MaxSeq)
    BY <1>1, <1>3
  <2>5. drops' \in 0..MaxDrops
    BY <1>5 DEF FollowInv, LTypeOK
  <2>6. told'[c] \in 0..MaxSeq
    BY <1>1, <1>9
  <2>7. /\ client' = [client EXCEPT ![c] = client'[c]]
        /\ cursor' = [cursor EXCEPT ![c] = cursor'[c]]
        /\ got' = [got EXCEPT ![c] = got'[c]]
    BY <1>5, <1>9
  <2>. QED
    BY <1>5, <1>8, <1>9, <2>2, <2>3, <2>4, <2>5, <2>6, <2>7 DEF Alone
<1>11. \A n \in (1..last) \ (got[c] \cup part) : n \notin log /\ (n <= told[c] \/ n <= raced[c])
  <2> SUFFICES ASSUME NEW n \in 1..last, n \notin got[c], n \notin part
               PROVE  n \notin log /\ (n <= told[c] \/ n <= raced[c])
    OBVIOUS
  <2>1. CASE n <= cursor[c]
    BY <1>1, <1>6, <2>1 DEF ClientOK
  <2>2. CASE n > cursor[c]
    BY <1>1, <1>6, <2>2 DEF Overtaken
  <2>. QED
    BY <1>1, <1>6, <2>1, <2>2
<1>12. ASSUME NEW x \in page \ part
       PROVE  /\ last < x /\ x <= seq
              /\ \A n \in (last + 1)..x : n \in page \ part \/ Overtaken(c, n)
  <2>0. x \in page /\ page \subseteq 1..MaxSeq
    BY <1>1
  <2>1. x \in Nat /\ last < x /\ x <= seq
    BY <1>4, <1>7, <2>0
  <2>2. ASSUME NEW n \in (last + 1)..x PROVE n \in page \ part \/ Overtaken(c, n)
    <3>1. n \in (cursor[c] + 1)..x /\ n > last
      BY <1>1, <1>6, <2>1
    <3>2. n \notin part
      BY <1>6, <3>1, <2>1
    <3>. QED
      BY <1>4, <3>1, <3>2
  <2>. QED
    BY <2>1, <2>2
<1>13. ClientOK(c)'
  <2>1. Quiet.pc = "idle"
    BY DEF Quiet
  <2>2. UNCHANGED <<seq, log, raced>>
    BY <1>5 DEF logVars
  <2>3. told[c] <= last
    BY <1>1, <1>6
  <2>4. rest.pc \notin {"read", "retained", "bounded"}
    BY <1>8, <2>1
  <2>5. rest.pc = "answered" => rest.page = page \ part
    BY <1>8, <2>1
  <2>. QED
    BY <1>6, <1>9, <1>11, <1>12, <2>2, <2>3, <2>4, <2>5 DEF ClientOK, Overtaken
<1>. QED
  BY <1>10, <1>13, AloneKeeps
\* What retention takes has been consumed, told of, or is counted as overtaken.
LEMMA PruneKeeps ==
  ASSUME FollowInv, NEW p \in 1..MaxSeq, Prune(p)
  PROVE  FollowInv'
<1>1. /\ p \in log /\ log' = log \ (1..p)
      /\ UNCHANGED <<seq, lock, base, audience, client, cursor, got, told, ahead, drops>>
      /\ p \in Nat
  BY DEF Prune
<1>2. /\ seq \in Nat /\ MaxSeq \in Nat /\ log \subseteq 1..seq
      /\ raced \in [Client -> 0..MaxSeq]
  BY LogAssumption DEF FollowInv, LTypeOK
<1>3. ASSUME NEW c \in Client
      PROVE  /\ raced'[c] \in 0..MaxSeq /\ raced'[c] >= raced[c]
             /\ client[c].pc \in {"read", "retained", "bounded"} => raced'[c] >= p
  <2>1. raced[c] \in Nat /\ raced[c] <= MaxSeq
    BY <1>2
  <2>2. raced'[c] = IF client[c].pc \in {"read", "retained", "bounded"} /\ p > raced[c]
                    THEN p ELSE raced[c]
    BY DEF Prune
  <2>. QED
    BY <1>1, <1>2, <2>1, <2>2
<1>4. raced' \in [Client -> 0..MaxSeq]
  <2>1. raced' = [c \in Client |-> raced'[c]]
    BY DEF Prune
  <2>. QED
    BY <1>3, <2>1
<1>5. LTypeOK'
  <2>1. log' \subseteq 1..seq
    BY <1>1, <1>2
  <2>. QED
    BY <1>1, <1>4, <2>1 DEF FollowInv, LTypeOK
<1>6. LogInv' /\ ahead' = {}
  BY <1>1 DEF FollowInv, LogInv
<1>7. Suffix'
  <2> SUFFICES ASSUME NEW m \in log', NEW k \in m..seq PROVE k \in log'
    BY <1>1 DEF Suffix
  <2>1. m \in log /\ m > p /\ k > p
    BY <1>1, <1>2
  <2>2. k \in log
    BY <2>1 DEF FollowInv, Suffix
  <2>. QED
    BY <1>1, <2>1, <2>2
<1>8. ASSUME NEW c \in Client PROVE ClientOK(c)'
  <2>1. ClientOK(c) /\ raced[c] \in Nat /\ raced'[c] \in Nat /\ raced'[c] >= raced[c]
    BY <1>2, <1>3 DEF FollowInv
  <2>2. \A n \in Nat : n \notin log => n \notin log'
    BY <1>1
  <2>3. \A n \in Nat : Overtaken(c, n) => Overtaken(c, n)'
    BY <1>1, <2>1 DEF Overtaken
  <2>4. client[c].pc \in {"read", "retained", "bounded"} =>
          \A n \in 1..seq : Kept(c, n) => Kept(c, n)'
    <3> SUFFICES ASSUME client[c].pc \in {"read", "retained", "bounded"},
                        NEW n \in 1..seq, Kept(c, n), n \notin log'
                 PROVE  Overtaken(c, n)'
      BY DEF Kept
    <3>1. CASE n \in log
      <4>1. n <= p
        BY <1>1, <3>1
      <4>. QED
        BY <1>1, <1>3, <2>1, <4>1 DEF Overtaken
    <3>2. CASE n \notin log
      BY <2>3, <3>2 DEF Kept
    <3>. QED
      BY <3>1, <3>2
  <2>5. /\ client[c].run \in Nat /\ cursor[c] \in Nat /\ cursor[c] <= seq
        /\ told[c] \in Nat /\ client[c].page \subseteq Nat
    BY ClientTypes DEF ClientOK
  <2>6. \A n \in (1..cursor[c]) \ got[c] : n \notin log' /\ (n <= told[c] \/ n <= raced'[c])
    BY <2>1, <2>2, <2>5 DEF ClientOK
  <2>7. client[c].pc = "read" => \A n \in (client[c].run + 1)..seq : Kept(c, n)'
    BY <1>2, <2>1, <2>4, <2>5 DEF ClientOK
  <2>8. client[c].pc \in {"retained", "bounded"} =>
          \A n \in (cursor[c] + 1)..seq : Kept(c, n)'
    BY <1>2, <2>1, <2>4, <2>5 DEF ClientOK
  <2>9. client[c].pc = "answered" =>
          \A x \in client[c].page :
            /\ cursor[c] < x /\ x <= seq
            /\ \A n \in (cursor[c] + 1)..x : n \in client[c].page \/ Overtaken(c, n)'
    BY <2>1, <2>3, <2>5 DEF ClientOK
  <2>10. /\ told[c] <= cursor[c] /\ cursor[c] <= seq
         /\ client[c].pc \in {"read", "retained", "bounded"} => client[c].run <= seq
    BY <2>1 DEF ClientOK
  <2>. QED
    BY <1>1, <2>6, <2>7, <2>8, <2>9, <2>10 DEF ClientOK
<1>. QED
  BY <1>5, <1>6, <1>7, <1>8 DEF FollowInv

\* The transactions: one that appends holds the row, and what it has read of it.
LEMMA WriterFollows ==
  ASSUME FollowInv, NEW w \in Writer, Open(w) \/ Commit(w) \/ Rollback(w)
  PROVE  FollowInv'
<1>1. /\ lock \in Writer \cup {"free"} /\ base \in [Writer -> 0..MaxSeq] /\ "free" \notin Writer
      /\ seq \in 0..MaxSeq /\ MaxSeq \in Nat /\ \A v \in Writer : lock = v => base[v] = seq
  BY LogAssumption DEF FollowInv, LTypeOK, LogInv
<1>2. CASE Open(w) \/ Rollback(w)
  <2>1. UNCHANGED <<seq, log, audience, client, cursor, got, told, ahead, raced, drops>>
    BY <1>2 DEF Open, Rollback, readerVars
  <2>2. /\ lock' \in Writer \cup {"free"} /\ base' \in [Writer -> 0..MaxSeq]
        /\ \A v \in Writer : lock' = v => base'[v] = seq
    BY <1>1, <1>2 DEF Open, Rollback
  <2>3. LTypeOK' /\ LogInv' /\ Suffix' /\ ahead' = {}
    BY <2>1, <2>2 DEF FollowInv, LTypeOK, LogInv, Suffix
  <2>4. \A c \in Client : ClientOK(c)'
    BY <2>1 DEF FollowInv, ClientOK, Kept, Overtaken
  <2>. QED
    BY <2>3, <2>4 DEF FollowInv
<1>3. CASE Commit(w)
  <2>1. base[w] = seq /\ lock' = "free" /\ base' = [base EXCEPT ![w] = 0]
        /\ UNCHANGED readerVars
    BY <1>1, <1>3 DEF Commit
  <2>2. PICK n \in 1..MaxAppend : Append(n, seq)
    BY <1>3, <2>1 DEF Commit
  <2>3. n \in Nat \ {0}
    OBVIOUS
  <2>4. /\ seq' \in 1..MaxSeq /\ log' \subseteq 1..seq' /\ Suffix'
        /\ \A c \in Client : ClientOK(c)'
    BY <2>1, <2>2, <2>3, AppendFollows
  <2>5. lock' \in Writer \cup {"free"} /\ base' \in [Writer -> 0..MaxSeq]
    BY <1>1, <2>1
  <2>6. UNCHANGED <<audience, client, cursor, got, told, ahead, raced, drops>>
    BY <2>1 DEF readerVars
  <2>7. LTypeOK' /\ LogInv' /\ ahead' = {}
    BY <1>1, <2>1, <2>4, <2>5, <2>6 DEF FollowInv, LTypeOK, LogInv
  <2>. QED
    BY <2>4, <2>7 DEF FollowInv
<1>. QED
  BY <1>2, <1>3

\* The work on the Run touches its log by one event at a time.
LEMMA RecordFollows ==
  ASSUME FollowInv, Record
  PROVE  FollowInv'
<1>1. /\ lock = "free" /\ Append(1, seq) /\ UNCHANGED <<lock, base, readerVars>>
      /\ "free" \notin Writer
  BY LogAssumption DEF Record
<1>2. /\ seq' \in 1..MaxSeq /\ log' \subseteq 1..seq' /\ Suffix'
      /\ \A c \in Client : ClientOK(c)'
  BY <1>1, AppendFollows
<1>3. UNCHANGED <<lock, base, audience, client, cursor, got, told, ahead, raced, drops>>
  BY <1>1 DEF readerVars
<1>4. LTypeOK' /\ LogInv' /\ ahead' = {}
  BY <1>1, <1>2, <1>3 DEF FollowInv, LTypeOK, LogInv
<1>. QED
  BY <1>2, <1>4 DEF FollowInv

LEMMA StillFollows ==
  ASSUME FollowInv, UNCHANGED eventVars
  PROVE  FollowInv'
  BY DEF eventVars, logVars, readerVars, FollowInv, LTypeOK, LogInv, Suffix, ClientOK,
         Kept, Overtaken

\* The steps of the client of a request.
LEMMA ClientFollows ==
  ASSUME FollowInv, NEW c \in Client,
         \/ Answering(c) \/ Drop(c)
         \/ \E view \in DOMAIN Limit : Ask(c, view)
  PROVE  FollowInv'
<1>1. CASE Answering(c)
  BY <1>1, ReadRunKeeps, CheckRetainedKeeps, CheckCurrentKeeps, ReadPageKeeps, DeliverKeeps
     DEF Answering
<1>2. Quiet \in Request /\ Quiet.pc = "idle" /\ drops \in Nat /\ MaxDrops \in Nat
  BY LogAssumption DEF Quiet, Request, FollowInv, LTypeOK
<1>3. CASE Drop(c)
  <2>1. Become(c, Quiet) /\ drops' \in 0..MaxDrops
        /\ UNCHANGED <<logVars, audience, cursor, got, told, ahead, raced>>
    BY <1>2, <1>3 DEF Drop
  <2>. QED
    BY <1>2, <2>1, QuietRequest
<1>4. ASSUME NEW view \in DOMAIN Limit, Ask(c, view) PROVE FollowInv'
  <2> DEFINE r == [Quiet EXCEPT !.pc = "asked", !.view = view]
  <2>1. r \in Request /\ r.pc = "asked"
    BY <1>2, LogAssumption DEF Request
  <2>2. Become(c, r) /\ UNCHANGED <<logVars, audience, cursor, got, told, ahead, raced, drops>>
    BY <1>4 DEF Ask
  <2> HIDE DEF r
  <2>3. drops' \in 0..MaxDrops
    BY <2>2 DEF FollowInv, LTypeOK
  <2>. QED
    BY <2>1, <2>2, <2>3, QuietRequest
<1>. QED
  BY <1>1, <1>3, <1>4

\* The log as it is, or with the event of one transaction.
LEMMA WorkRecords ==
  ASSUME ContextStep
  PROVE  UNCHANGED eventVars \/ Record
<1>1. ASSUME NEW w \in Worker, Block(w) \/ GiveUp(w) PROVE UNCHANGED eventVars \/ Record
  BY <1>1 DEF Block, GiveUp, NoRecord
<1>2. ASSUME NEW w \in Worker, PickTurn(w) \/ Look(w) \/ Read(w) \/ Finish(w)
      PROVE  UNCHANGED eventVars \/ Record
  BY <1>1, <1>2 DEF PickTurn, Look, Read, Finish
<1>3. ASSUME NEW w \in Worker, Pin(w) \/ Save(w)
      PROVE  UNCHANGED eventVars \/ Record
  BY <1>1, <1>3 DEF Pin, Save, NoRecord
<1>4. ASSUME NEW w \in Worker, BeginCall(w) \/ CompleteCall(w)
      PROVE  UNCHANGED eventVars \/ Record
  BY <1>1, <1>4 DEF BeginCall, CompleteCall, NoRecord
<1>5. ASSUME NEW w \in Worker, Crash(w) \/ \E j \in Job : Claim(w, j)
      PROVE  UNCHANGED eventVars \/ Record
  BY <1>5 DEF Crash, Claim
<1>6. ASSUME NEW j \in Job, Wake(j) \/ Lapse(j) \/ Resume(j)
      PROVE  UNCHANGED eventVars \/ Record
  BY <1>6 DEF Wake, Lapse, Resume
<1>7. ASSUME NEW rev \in Revision,
             RecoverCheckpoint(rev) \/ \E k \in 1..MaxCheckpoint : SaveCheckpoint(k, rev)
      PROVE  UNCHANGED eventVars \/ Record
  BY <1>7 DEF RecoverCheckpoint, SaveCheckpoint, NoRecord
<1>. QED
  BY <1>2, <1>3, <1>4, <1>5, <1>6, <1>7 DEF ContextStep, Building

LEMMA FollowInductive == CSpec => []FollowInv
<1>1. CInit => FollowInv
  <2> SUFFICES ASSUME CInit PROVE FollowInv
    OBVIOUS
  <2>1. LTypeOK /\ LogInv
    <3>1. Quiet \in Request /\ MaxSeq \in Nat /\ MaxSeq # 0 /\ MaxDrops \in Nat
      BY LogAssumption DEF Quiet, Request
    <3>. QED
      BY <3>1, LogAssumption DEF CInit, LInit, LTypeOK, LogInv, Request
  <2>2. Suffix /\ ahead = {}
    BY DEF CInit, LInit, Suffix
  <2>3. \A c \in Client : ClientOK(c)
    BY DEF CInit, LInit, ClientOK, Quiet
  <2>. QED
    BY <2>1, <2>2, <2>3 DEF FollowInv
<1>2. FollowInv /\ [CNext]_allVars => FollowInv'
  <2> SUFFICES ASSUME FollowInv, [CNext]_allVars PROVE FollowInv'
    OBVIOUS
  <2>1. CASE LNext
    <3>1. \A c \in audience : c \in Client
      BY DEF FollowInv, LTypeOK
    <3>. QED
      BY <2>1, <3>1, WriterFollows, PruneKeeps, ClientFollows DEF LNext
  <2>2. CASE ContextStep
    BY <2>2, WorkRecords, RecordFollows, StillFollows
  <2>3. CASE UNCHANGED allVars
    BY <2>3, StillFollows DEF allVars
  <2>. QED
    BY <2>1, <2>2, <2>3 DEF CNext
<1>. QED
  BY <1>1, <1>2, PTL DEF CSpec

\* Whatever transactions append or roll back, requests break off, cursors expire
\* and retention removes: a client that goes on from the cursor it was given
\* loses nothing the log still holds, and is told of what is lost.
THEOREM FollowersMissNothing == CSpec => []FollowerMissesNothing
<1>1. FollowInv => FollowerMissesNothing
  BY DEF FollowInv, ClientOK, FollowerMissesNothing
<1>. QED
  BY <1>1, FollowInductive, PTL
-----------------------------------------------------------------------------
(* Types *)

WorkTypes ==
  /\ run \in {"running", "blocked"}
  /\ holder \in [Job -> Worker \cup {"none", "ready"}]
  /\ checkpoint \in [1..MaxCheckpoint -> Revision \cup {"none"}]
  /\ takeovers \in 0..MaxTakeovers /\ closed \in [Turn -> 0..MaxSeq]
  /\ \A t \in Turn : snap[t].asof \in 0..MaxSeq
  /\ \A w \in Worker : builder[w].view.asof \in 0..MaxSeq

TypeInv == Inv /\ FollowInv /\ WorkTypes

\* A worker's step: the views it leaves are as of some event.
LEMMA WorkerTypes ==
  ASSUME TypeInv, NEW w \in Worker, NEW b, Be(w, b), b.view.asof \in 0..MaxSeq,
         run' \in {"running", "blocked"},
         holder' \in [Job -> Worker \cup {"none", "ready"}],
         takeovers' \in 0..MaxTakeovers, UNCHANGED checkpoint,
         closed' \in [Turn -> 0..MaxSeq], \A t \in Turn : snap'[t].asof \in 0..MaxSeq
  PROVE  WorkTypes'
<1>1. ASSUME NEW v \in Worker PROVE builder'[v].view.asof \in 0..MaxSeq
  <2>1. builder'[v] = IF v = w THEN b ELSE builder[v]
    BY DEF Be, TypeInv, Inv, Types
  <2>. QED
    BY <2>1 DEF TypeInv, WorkTypes
<1>. QED
  BY <1>1 DEF TypeInv, WorkTypes

\* Such a step when it writes no snapshot and closes no turn.
LEMMA PlainTypes ==
  ASSUME TypeInv, NEW w \in Worker, NEW b, Be(w, b), b.view.asof \in 0..MaxSeq,
         run' \in {"running", "blocked"},
         holder' = holder \/ \E x \in {"none", "ready", w} :
                               \E j : holder' = [holder EXCEPT ![j] = x],
         UNCHANGED <<takeovers, checkpoint, closed, snap>>
  PROVE  WorkTypes'
<1>1. holder' \in [Job -> Worker \cup {"none", "ready"}]
  BY DEF TypeInv, WorkTypes
<1>2. takeovers' \in 0..MaxTakeovers /\ closed' \in [Turn -> 0..MaxSeq]
      /\ \A t \in Turn : snap'[t].asof \in 0..MaxSeq
  BY DEF TypeInv, WorkTypes
<1>. QED
  BY <1>1, <1>2, WorkerTypes

LEMMA ViewTypes ==
  ASSUME TypeInv, NEW w \in Worker
  PROVE  /\ builder[w] \in Builder /\ builder[w].view.asof \in 0..MaxSeq
         /\ Free.view.asof \in 0..MaxSeq /\ Unsaved.asof \in 0..MaxSeq
         /\ seq \in 0..MaxSeq /\ run \in {"running", "blocked"} /\ Unsaved \in Context
<1>1. MaxSeq \in Nat /\ seq \in 0..MaxSeq
  BY LogAssumption DEF TypeInv, FollowInv, LTypeOK
<1>. QED
  BY <1>1 DEF TypeInv, WorkTypes, Inv, Types, Free, Unsaved, Context

LEMMA BlockTypes ==
  ASSUME TypeInv, NEW w \in Worker, Block(w) \/ GiveUp(w)
  PROVE  WorkTypes'
<1>1. /\ Be(w, Free) /\ run' \in {"running", "blocked"}
      /\ UNCHANGED <<takeovers, checkpoint, closed, snap>>
  BY ViewTypes DEF Block, GiveUp, workVars
<1>2. holder' = holder \/ holder' = [holder EXCEPT ![builder[w].job] = "none"]
  BY DEF Block, GiveUp
<1>3. holder' = holder \/ \E x \in {"none", "ready", w} :
                               \E j : holder' = [holder EXCEPT ![j] = x]
  BY <1>2
<1>4. Free.view.asof \in 0..MaxSeq
  BY ViewTypes
<1>. QED
  BY <1>1, <1>3, <1>4, PlainTypes

\* A worker that goes on with the view it has.
LEMMA StepTypes ==
  ASSUME TypeInv, NEW w \in Worker, NEW pc, Step(w, pc)
  PROVE  \E b : Be(w, b) /\ b.view = builder[w].view
<1>1. [builder[w] EXCEPT !.pc = pc].view = builder[w].view
  BY ViewTypes DEF Builder
<1>. QED
  BY <1>1 DEF Step

LEMMA WithTypes ==
  ASSUME TypeInv, NEW w \in Worker, NEW pc, NEW view
  PROVE  With(w, pc, view).view = view
  BY DEF With, Free

LEMMA BuildingTypes ==
  ASSUME TypeInv, NEW w \in Worker, Building(w)
  PROVE  WorkTypes'
<1> USE ViewTypes
<1>1. CASE Block(w) \/ GiveUp(w)
  BY <1>1, BlockTypes
<1>2. CASE PickTurn(w)
  <2> DEFINE b == [builder[w] EXCEPT !.pc = "picked", !.turn = Current]
  <2>1. b.view = builder[w].view
    BY DEF Builder
  <2>2. UNCHANGED <<takeovers, checkpoint, closed, snap, run>>
    BY <1>2 DEF PickTurn, workVars
  <2>3. CASE Be(w, b) /\ UNCHANGED holder
    <3> HIDE DEF b
    <3>. QED
      BY <2>1, <2>2, <2>3, PlainTypes
  <2>4. CASE Be(w, Free) /\ holder' = [holder EXCEPT ![builder[w].job] =
                                          IF Leases(w) THEN "none" ELSE @]
    <3>1. holder' = holder \/ holder' = [holder EXCEPT ![builder[w].job] = "none"]
      BY <2>4 DEF TypeInv, WorkTypes
    <3>. QED
      BY <2>2, <2>4, <3>1, PlainTypes
  <2>. QED
    BY <1>2, <2>3, <2>4 DEF PickTurn
<1>3. CASE Look(w)
  <2> DEFINE saved == snap[builder[w].turn]
  <2>1. CASE Step(w, "loaded") /\ UNCHANGED <<run, workVars, holder, checkpoint, takeovers>>
    BY <2>1, StepTypes, PlainTypes DEF workVars
  <2>2. CASE /\ Be(w, With(w, "built", saved))
             /\ UNCHANGED <<run, workVars, holder, checkpoint, takeovers>>
    <3>1. builder[w].turn \in Turn
      BY <1>3 DEF Look, Is, TypeInv, Inv, BuilderOK
    <3>2. saved.asof \in 0..MaxSeq
      BY <3>1 DEF TypeInv, WorkTypes
    <3>. QED
      BY <2>2, <3>2, WithTypes, PlainTypes DEF workVars
  <2>3. CASE Block(w)
    BY <2>3, BlockTypes
  <2>. QED
    BY <1>3, <2>1, <2>2, <2>3 DEF Look
<1>4. CASE Pin(w)
  <2>1. CASE Step(w, "pinned") /\ UNCHANGED <<run, snap, closed, holder, checkpoint, takeovers>>
    BY <2>1, StepTypes, PlainTypes
  <2>. QED
    BY <1>1, <1>4, <2>1 DEF Pin
<1>5. CASE Read(w)
  <2> DEFINE view == [skills |-> builder[w].release, scope |-> builder[w].scope,
                      asof |-> seq]
  <2>1. Be(w, With(w, "read", view)) /\ view.asof = seq
        /\ UNCHANGED <<run, workVars, holder, checkpoint, takeovers>>
    BY <1>5 DEF Read
  <2> HIDE DEF view
  <2>. QED
    BY <2>1, WithTypes, PlainTypes DEF workVars
<1>6. CASE Save(w)
  <2> DEFINE t == builder[w].turn
  <2>1. CASE /\ snap' = [snap EXCEPT ![t] = builder[w].view] /\ Step(w, "built")
             /\ UNCHANGED <<run, closed, holder, checkpoint, takeovers>>
    <3>1. \A u \in Turn : snap'[u].asof \in 0..MaxSeq
      BY <2>1 DEF TypeInv, WorkTypes, Inv, Types
    <3>2. PICK b : Be(w, b) /\ b.view = builder[w].view
      BY <2>1, StepTypes
    <3>3. /\ run' \in {"running", "blocked"} /\ takeovers' \in 0..MaxTakeovers
          /\ holder' \in [Job -> Worker \cup {"none", "ready"}]
          /\ closed' \in [Turn -> 0..MaxSeq]
      BY <2>1 DEF TypeInv, WorkTypes
    <3>. QED
      BY <2>1, <3>1, <3>2, <3>3, WorkerTypes
  <2>. QED
    BY <1>1, <1>6, <2>1 DEF Save
<1>7. CASE BeginCall(w)
  <2>1. CASE /\ \E pc : Be(w, With(w, pc, Unsaved))
             /\ UNCHANGED <<run, snap, closed, holder, checkpoint, takeovers>>
    BY <2>1, WithTypes, PlainTypes
  <2>. QED
    BY <1>1, <1>7, <2>1 DEF BeginCall, workVars
<1>8. CASE CompleteCall(w)
  <2> DEFINE t == builder[w].turn
  <2>1. CASE /\ Step(w, "answered")
             /\ (closed' = closed) \/ (closed' = [closed EXCEPT ![t] = seq + 1] /\ Record)
             /\ UNCHANGED <<run, snap, holder, checkpoint, takeovers>>
    <3>1. Record => seq + 1 \in 0..MaxSeq
      BY LogAssumption DEF Record, Append
    <3>2. closed' \in [Turn -> 0..MaxSeq]
      BY <2>1, <3>1 DEF TypeInv, WorkTypes
    <3>3. PICK b : Be(w, b) /\ b.view = builder[w].view
      BY <2>1, StepTypes
    <3>4. /\ run' \in {"running", "blocked"} /\ takeovers' \in 0..MaxTakeovers
          /\ holder' \in [Job -> Worker \cup {"none", "ready"}]
          /\ \A u \in Turn : snap'[u].asof \in 0..MaxSeq
      BY <2>1 DEF TypeInv, WorkTypes
    <3>. QED
      BY <2>1, <3>2, <3>3, <3>4, WorkerTypes
  <2>. QED
    BY <1>1, <1>8, <2>1 DEF CompleteCall
<1>9. CASE Finish(w)
  <2>1. holder' = holder \/ holder' = [holder EXCEPT ![builder[w].job] = "ready"]
    BY <1>9 DEF Finish, TypeInv, WorkTypes
  <2>. QED
    BY <1>9, <2>1, PlainTypes DEF Finish, workVars
<1>. QED
  BY <1>2, <1>3, <1>4, <1>5, <1>6, <1>7, <1>8, <1>9 DEF Building
\* Jobs, leases, deaths and checkpoints.
LEMMA OtherTypes ==
  ASSUME TypeInv,
         \/ \E w \in Worker : Crash(w) \/ \E j \in Job : Claim(w, j)
         \/ \E j \in Job : Wake(j) \/ Lapse(j) \/ Resume(j)
         \/ \E rev \in Revision :
              RecoverCheckpoint(rev) \/ \E k \in 1..MaxCheckpoint : SaveCheckpoint(k, rev)
  PROVE  WorkTypes'
<1>0. TakenOver => takeovers' \in 0..MaxTakeovers
  BY ContextAssumption DEF TakenOver, TypeInv, WorkTypes
<1>1. ASSUME NEW w \in Worker, Crash(w) PROVE WorkTypes'
  <2>1. /\ Be(w, Free) /\ takeovers' \in 0..MaxTakeovers /\ Free.view.asof \in 0..MaxSeq
        /\ UNCHANGED <<run, checkpoint, closed, snap>>
    BY <1>0, <1>1, ViewTypes DEF Crash, workVars
  <2>2. holder' = holder \/ holder' = [holder EXCEPT ![builder[w].job] = "ready"]
    BY <1>1 DEF Crash, TypeInv, WorkTypes
  <2>3. /\ holder' \in [Job -> Worker \cup {"none", "ready"}]
        /\ run' \in {"running", "blocked"} /\ closed' \in [Turn -> 0..MaxSeq]
        /\ \A t \in Turn : snap'[t].asof \in 0..MaxSeq
    BY <2>1, <2>2 DEF TypeInv, WorkTypes
  <2>. QED
    BY <2>1, <2>3, WorkerTypes
<1>2. ASSUME NEW w \in Worker, NEW j \in Job, Claim(w, j) PROVE WorkTypes'
  <2>1. PICK s \in Scope, r \in Release :
          Be(w, [Free EXCEPT !.pc = "claimed", !.job = j, !.release = r, !.scope = s])
    BY <1>2 DEF Claim
  <2> DEFINE b == [Free EXCEPT !.pc = "claimed", !.job = j, !.release = r, !.scope = s]
  <2>2. b.view = Unsaved /\ Unsaved.asof \in 0..MaxSeq
    BY ViewTypes DEF Free
  <2>3. /\ Be(w, b) /\ holder' = [holder EXCEPT ![j] = w] /\ run' \in {"running", "blocked"}
        /\ UNCHANGED <<takeovers, checkpoint, closed, snap>>
    BY <1>2, <2>1, ViewTypes DEF Claim, workVars
  <2> HIDE DEF b
  <2>4. \E x \in {"none", "ready", w} : \E i : holder' = [holder EXCEPT ![i] = x]
    BY <2>3
  <2>. QED
    BY <2>2, <2>3, <2>4, PlainTypes
<1>3. ASSUME NEW j \in Job, Wake(j) \/ Lapse(j) \/ Resume(j) PROVE WorkTypes'
  <2>1. takeovers' \in 0..MaxTakeovers
    BY <1>0, <1>3 DEF Wake, Lapse, Resume, TypeInv, WorkTypes
  <2>2. /\ holder' = [holder EXCEPT ![j] = "ready"] /\ run' \in {"running", "blocked"}
        /\ UNCHANGED <<checkpoint, closed, snap, builder>>
    BY <1>3, ViewTypes DEF Wake, Lapse, Resume, workVars, TypeInv
  <2>. QED
    BY <2>1, <2>2 DEF TypeInv, WorkTypes
<1>4. ASSUME NEW rev \in Revision, RecoverCheckpoint(rev) PROVE WorkTypes'
  BY <1>4 DEF RecoverCheckpoint, workVars, TypeInv, WorkTypes
<1>5. ASSUME NEW rev \in Revision, NEW k \in 1..MaxCheckpoint, SaveCheckpoint(k, rev)
      PROVE  WorkTypes'
  BY <1>0, <1>5 DEF SaveCheckpoint, workVars, TypeInv, WorkTypes
<1>. QED
  BY <1>1, <1>2, <1>3, <1>4, <1>5

LEMMA TypesInductive == CSpec => []WorkTypes
<1>1. CInit => WorkTypes
  BY LogAssumption, ContextAssumption DEF CInit, WorkTypes, Unsaved, Free
<1>2. Inv /\ FollowInv /\ WorkTypes /\ [CNext]_allVars => WorkTypes'
  <2> SUFFICES ASSUME TypeInv, [CNext]_allVars PROVE WorkTypes'
    BY DEF TypeInv
  <2>1. CASE UNCHANGED contextVars
    BY <2>1 DEF contextVars, workVars, TypeInv, WorkTypes
  <2>2. CASE ContextStep
    BY <2>2, BuildingTypes, OtherTypes DEF ContextStep
  <2>. QED
    BY <2>1, <2>2 DEF CNext, allVars
<1>. QED
  BY <1>1, <1>2, Inductive, FollowInductive, PTL DEF CSpec

\* The rows of the Run, its log and its readers keep their types and their bounds.
THEOREM ContextsAreTyped == CSpec => []CTypeOK
<1>1. Inv /\ FollowInv /\ WorkTypes => CTypeOK
  <2> SUFFICES ASSUME Inv, FollowInv, WorkTypes PROVE CTypeOK
    OBVIOUS
  <2>1. snap \in [Turn -> [skills : {"none"} \cup Release, scope : {"none"} \cup Scope,
                           asof : 0..MaxSeq]]
    <3>1. ASSUME NEW t \in Turn
          PROVE  snap[t] \in [skills : {"none"} \cup Release, scope : {"none"} \cup Scope,
                              asof : 0..MaxSeq]
      <4>1. snap[t] \in Context /\ snap[t].asof \in 0..MaxSeq
        BY DEF Inv, Types, WorkTypes
      <4>. QED
        BY <4>1 DEF Context
    <3>. QED
      BY <3>1 DEF Inv, Types
  <2>2. LTypeOK /\ call \in [Turn -> {"none", "started", "answered"}]
    BY DEF FollowInv, Inv, Types
  <2>. QED
    BY <2>1, <2>2 DEF CTypeOK, WorkTypes
<1>. QED
  BY <1>1, Inductive, FollowInductive, TypesInductive, PTL
=============================================================================
