------------------------------ MODULE EventLog ------------------------------
(***************************************************************************)
(* The event log of one Run and its readers: _append_event_locked and      *)
(* get_event_history of application/run_controller.py, and the two views   *)
(* of transport/http/app.py, a page of history and an SSE stream that is   *)
(* taken up again with Last-Event-ID.  A transaction that appends holds    *)
(* the row of the Run from the moment it reads event_seq.  A reader issues *)
(* four statements, each of which sees what is committed when it runs.     *)
(* Retention is not part of the program: somebody deletes a beginning of   *)
(* the log, at any time.                                                   *)
(***************************************************************************)
EXTENDS Naturals, FiniteSets, FiniteSetsExt

CONSTANTS
  Writer,    \* transactions that append
  Client,    \* clients that follow the Run
  Limit,     \* the limit of a page for each view: "page" and "stream"
  MaxAppend, \* bound: events of one transaction
  MaxSeq,    \* bound: events of the Run
  MaxWritten, \* bound: the last event these transactions append
  MaxDrops   \* bound: connections that break

ASSUME LogAssumption ==
  /\ Limit \in [{"page", "stream"} -> Nat \ {0}]
  /\ MaxAppend \in Nat \ {0} /\ MaxSeq \in Nat \ {0} /\ MaxWritten \in 0..MaxSeq
  /\ MaxDrops \in Nat
  /\ "free" \notin Writer

VARIABLES
  seq,     \* event_seq of the Run row
  log,     \* sequence numbers of the event rows
  lock,    \* the transaction that holds the Run row, or "free"
  base,    \* event_seq as each open transaction has read it; 0 when none is open
  audience, \* the clients that follow the Run
  client,  \* the request of each client and its answer
  cursor,  \* the last event each client has consumed
  got,     \* the events it has been given
  told,    \* the cursor below which it has been told that nothing is retained
  ahead,   \* clients that have been told that their cursor is in the future
  raced,   \* how far retention has overtaken a request of each client
  drops    \* connections broken so far

logVars    == <<seq, log, lock, base>>
readerVars == <<audience, client, cursor, got, told, ahead, raced, drops>>
eventVars  == <<logVars, readerVars>>

Quiet == [pc |-> "idle", view |-> "page", run |-> 0, page |-> {}]
At(c, pc) == client[c].pc = pc
Become(c, state) == client' = [client EXCEPT ![c] = state]
Goto(c, pc) == Become(c, [client[c] EXCEPT !.pc = pc])

\* The Run is admitted with its first event, run.accepted.
LInit ==
  /\ seq = 1 /\ log = {1} /\ lock = "free" /\ base = [w \in Writer |-> 0]
  /\ audience \in SUBSET Client /\ client = [c \in Client |-> Quiet]
  /\ cursor = [c \in Client |-> 0] /\ got = [c \in Client |-> {}]
  /\ told = [c \in Client |-> 0] /\ ahead = {} /\ drops = 0
  /\ raced = [c \in Client |-> 0]

-----------------------------------------------------------------------------
(* Writing *)

\* SELECT ... FOR UPDATE of the Run row.
Open(w) ==
  /\ lock = "free" /\ base[w] = 0
  /\ lock' = w /\ base' = [base EXCEPT ![w] = seq]
  /\ UNCHANGED <<seq, log, readerVars>>

\* _append_event_locked counts event_seq on; rows and number commit together.
Append_CountsOnce(n, from) ==   \* mutant: the number is counted on once
  from + n <= MaxSeq /\ seq' = from + 1 /\ log' = log \cup (from + 1)..(from + n)
Append(n, from) ==
  /\ from + n <= MaxSeq
  /\ seq' = from + n /\ log' = log \cup (from + 1)..(from + n)

Commit(w) ==
  /\ lock = w /\ lock' = "free" /\ base' = [base EXCEPT ![w] = 0]
  /\ \E n \in 1..MaxAppend : base[w] + n <= MaxWritten /\ Append(n, base[w])
  /\ UNCHANGED readerVars

Rollback(w) ==
  /\ lock = w /\ lock' = "free" /\ base' = [base EXCEPT ![w] = 0]
  /\ UNCHANGED <<seq, log, readerVars>>

\* Retention removes the events up to n.
Prune(n) ==
  /\ n \in log /\ log' = log \ (1..n)
  /\ raced' = [c \in Client |-> IF client[c].pc \in {"read", "retained", "bounded"}
                                     /\ n > raced[c]
                                  THEN n ELSE raced[c]]
  /\ UNCHANGED <<seq, lock, base, audience, client, cursor, got, told, ahead, drops>>

-----------------------------------------------------------------------------
(* Reading: get_run_history and stream_run_events over get_event_history *)

Ask(c, view) ==
  /\ At(c, "idle") /\ Become(c, [Quiet EXCEPT !.pc = "asked", !.view = view])
  /\ UNCHANGED <<logVars, audience, cursor, got, told, ahead, raced, drops>>

\* get_run
ReadRun(c) ==
  /\ At(c, "asked") /\ Become(c, [client[c] EXCEPT !.pc = "read", !.run = seq])
  /\ UNCHANGED <<logVars, audience, cursor, got, told, ahead, raced, drops>>

\* EventCursorExpired names the cursor to go on from, and the client does.
Expire(c, n) ==
  /\ Become(c, Quiet) /\ cursor' = [cursor EXCEPT ![c] = n]
  /\ told' = [told EXCEPT ![c] = n]
CursorExpired_Late(c) == log # {} /\ cursor[c] + 1 < Min(log) - 1   \* mutant: one event later
CursorExpired(c) == IF log = {} THEN cursor[c] < client[c].run
                                ELSE cursor[c] < Min(log) - 1
CheckRetained(c) ==
  /\ At(c, "read")
  /\ IF CursorExpired(c)
     THEN Expire(c, IF log = {} THEN client[c].run ELSE Min(log) - 1)
     ELSE Goto(c, "retained") /\ UNCHANGED <<cursor, told>>
  /\ UNCHANGED <<logVars, audience, got, ahead, raced, drops>>

\* FutureEventCursor
CheckCurrent(c) ==
  /\ At(c, "retained")
  /\ IF cursor[c] > seq THEN Become(c, Quiet) /\ ahead' = ahead \cup {c}
                        ELSE Goto(c, "bounded") /\ UNCHANGED ahead
  /\ UNCHANGED <<logVars, audience, cursor, got, told, raced, drops>>

FirstOf(S, n) == {x \in S : Cardinality({y \in S : y <= x}) <= n}
ReadPage_Inclusive(c) ==   \* mutant: the page begins with the cursor
  /\ At(c, "bounded")
  /\ Become(c, [client[c] EXCEPT !.pc = "answered",
                  !.page = FirstOf({n \in log : n >= cursor[c]}, Limit[client[c].view])])
  /\ UNCHANGED <<logVars, audience, cursor, got, told, ahead, raced, drops>>
ReadPage(c) ==
  /\ At(c, "bounded")
  /\ Become(c, [client[c] EXCEPT !.pc = "answered",
                  !.page = FirstOf({n \in log : n > cursor[c]}, Limit[client[c].view])])
  /\ UNCHANGED <<logVars, audience, cursor, got, told, ahead, raced, drops>>

\* A page is consumed as a whole, a stream event by event until it ends.
Consume(c, S) ==
  /\ got' = [got EXCEPT ![c] = @ \cup S]
  /\ cursor' = [cursor EXCEPT ![c] = IF S = {} THEN @ ELSE Max(S)]
Deliver(c) ==
  /\ At(c, "answered")
  /\ LET page == client[c].page
         part == IF client[c].view = "page" THEN page ELSE FirstOf(page, 1)
     IN  /\ Consume(c, part)
         /\ Become(c, IF page = part THEN Quiet
                      ELSE [client[c] EXCEPT !.page = page \ part])
  /\ UNCHANGED <<logVars, audience, told, ahead, raced, drops>>

\* The connection breaks; what was not consumed is lost.
Drop(c) ==
  /\ ~At(c, "idle") /\ drops < MaxDrops /\ drops' = drops + 1
  /\ Become(c, Quiet)
  /\ UNCHANGED <<logVars, audience, cursor, got, told, ahead, raced>>

-----------------------------------------------------------------------------
Answering(c) == ReadRun(c) \/ CheckRetained(c) \/ CheckCurrent(c) \/ ReadPage(c)
                \/ Deliver(c)

LNext ==
  \/ \E w \in Writer : Open(w) \/ Commit(w) \/ Rollback(w)
  \/ \E n \in 1..MaxSeq : Prune(n)
  \/ \E c \in audience : Answering(c) \/ Drop(c)
                       \/ \E view \in DOMAIN Limit : Ask(c, view)

LSpec == LInit /\ [][LNext]_eventVars

\* A client goes on asking and the server goes on answering.
FairLSpec ==
  /\ LSpec
  /\ \A c \in Client :
       /\ WF_eventVars(c \in audience /\ Answering(c))
       /\ WF_eventVars(c \in audience /\ \E view \in DOMAIN Limit : Ask(c, view))

-----------------------------------------------------------------------------
(* Properties *)

LTypeOK ==
  /\ seq \in 1..MaxSeq /\ log \subseteq 1..seq
  /\ lock \in Writer \cup {"free"} /\ base \in [Writer -> 0..MaxSeq]
  /\ audience \subseteq Client
  /\ client \in [Client -> [pc : {"idle", "asked", "read", "retained", "bounded", "answered"},
                            view : {"page", "stream"}, run : 0..MaxSeq,
                            page : SUBSET (1..MaxSeq)]]
  /\ cursor \in [Client -> 0..MaxSeq] /\ got \in [Client -> SUBSET (1..MaxSeq)]
  /\ told \in [Client -> 0..MaxSeq]
  /\ raced \in [Client -> 0..MaxSeq] /\ ahead \subseteq Client /\ drops \in 0..MaxDrops

\* A client that goes on from the cursor it was given loses nothing the log
\* still holds, and is told what it has lost, over pages, broken streams and
\* expired cursors, while transactions append and roll back; unless retention
\* removed it between two statements of one request.  It is never told that
\* its cursor is in the future.
FollowerMissesNothing ==
  \A c \in Client :
    /\ c \notin ahead
    /\ \A n \in (1..cursor[c]) \ got[c] : n \notin log /\ (n <= told[c] \/ n <= raced[c])

\* Who follows sees every event, or what is left of them: the cursor passes it.
FollowerCatchesUp ==
  \A c \in Client, k \in 1..MaxWritten : c \in audience /\ k <= seq ~> k <= cursor[c]
=============================================================================
