------------------------- MODULE ResourceStoreProofs -------------------------
(***************************************************************************)
(* Theorems about ResourceStore, for any number of clients, collectors,    *)
(* keys, paths and contents: a key has one result, answered writes of a    *)
(* path form a chain, and only a sweep that ran between a blob and its     *)
(* commit takes the blob of an artifact.                                   *)
(***************************************************************************)
EXTENDS ResourceStore, TLAPS

\* The transactions that hold the lock of their key, and those that hold both locks.
HasKey(c) == txn[c].step \in {"path", "put", "publish", "commit"}
HasPath(c) == txn[c].step \in {"put", "publish", "commit"}
Slot(r) == <<r.route, r.key>>

\* The idempotency rows are the answers, and no transaction that holds the lock of
\* a key finds a row of it any more.
KeyInv ==
  /\ \A rk \in (Path \cup {None}) \X Key : idempotent[rk] # NoRow =>
       idempotent[rk] \in answered /\ Slot(idempotent[rk].request) = rk
  /\ \A a \in answered : idempotent[Slot(a.request)] = a
  /\ \A c \in Client : HasKey(c) => idempotent[Slot(txn[c].request)] = NoRow
  /\ \A c, d \in Client :
       HasKey(c) /\ HasKey(d) /\ Slot(txn[c].request) = Slot(txn[d].request) => c = d

\* One transaction has a path, and it has checked the entry as it still is.
LockInv ==
  /\ \A c, d \in Client :
       HasPath(c) /\ HasPath(d) /\ txn[c].request.route = txn[d].request.route => 
         c = d \/ txn[c].request.route = None
  /\ \A c \in Client : HasPath(c) /\ txn[c].request.route \in Path =>
       LET e == entries[txn[c].request.route] IN
         /\ txn[c].revision = e.revision + 1
         /\ txn[c].request.match = IF e.revision = 0 THEN None ELSE ETagOf(e)
  /\ \A c \in Client : txn[c].step = "path" => txn[c].request.route \in Path

\* The entry of a path is the last of its answered writes.
EntryInv ==
  /\ \A a \in answered : a.request.route \in Path =>
       a.result.revision \in 1 .. entries[a.request.route].revision
  /\ \A p \in Path : entries[p].revision > 0 =>
       \E a \in answered :
         /\ a.request.route = p /\ a.result.revision = entries[p].revision
         /\ a.request.content = entries[p].content

\* What a transaction and an artifact that no sweep has raced can rely on.
BlobInv ==
  /\ \A c \in Client : txn[c].step \in {"publish", "commit"} /\ ~txn[c].raced =>
       /\ \A g \in Collector : sweep[g] = Idle
       /\ txn[c].step = "commit" => txn[c].request.content \in blobs
  /\ \A i \in DOMAIN artifacts : ~artifacts[i].raced =>
       /\ artifacts[i].content \in blobs
       /\ \A g \in Collector :
            /\ sweep[g].step = "list" => artifacts[i].content \in sweep[g].keys
            /\ sweep[g].step = "delete" => artifacts[i].content \notin sweep[g].keys

Inv == TypeOK /\ KeyInv /\ LockInv /\ EntryInv /\ WritesAreChained /\ BlobInv

-----------------------------------------------------------------------------
(* Types. *)

LEMMA TxnType ==
  ASSUME TypeOK, NEW c \in Client, txn[c].step # "idle"
  PROVE  /\ txn[c] \in [step : Steps, request : Request, revision : Nat, raced : BOOLEAN]
         /\ txn[c].request.route \in Path \cup {None}
         /\ txn[c].request.key \in Key
         /\ txn[c].request.content \in Content
         /\ Slot(txn[c].request) \in (Path \cup {None}) \X Key
BY DEF TypeOK, Txn, Idle, Request, Slot

LEMMA SweepType ==
  ASSUME TypeOK, NEW g \in Collector, sweep[g].step # "idle"
  PROVE  sweep[g] \in [step : {"list", "delete"}, keys : SUBSET Content]
BY DEF TypeOK, Sweep, Idle

\* A replayed request is the one that was recorded.
LEMMA ReplayAddsNothing ==
  ASSUME Inv, NEW c \in Client, TakeKey(c)
  PROVE  answered' = answered
<1> DEFINE r == txn[c].request
           row == idempotent[<<r.route, r.key>>]
<1>1. txn[c].step # "idle"
  BY DEF TakeKey, In
<1>2. r \in Request /\ <<r.route, r.key>> \in (Path \cup {None}) \X Key
  BY <1>1, TxnType DEF Inv, Slot
<1>3. SUFFICES ASSUME row # NoRow, Fingerprint(row.request) = Fingerprint(r),
                      answered' = answered \cup {[request |-> r, result |-> row.result]}
               PROVE  [request |-> r, result |-> row.result] \in answered
  BY DEF TakeKey
<1>4. row \in answered /\ row \in Row /\ Slot(row.request) = <<r.route, r.key>>
  BY <1>2, <1>3 DEF Inv, KeyInv, TypeOK
<1>5. row.request \in Request
  BY <1>4 DEF Row
<1>6. row.request = r
  BY <1>2, <1>3, <1>4, <1>5 DEF Fingerprint, Request, Slot
<1>7. row = [request |-> r, result |-> row.result]
  BY <1>4, <1>6 DEF Row
<1> QED BY <1>4, <1>7

LEMMA InitInv == Init => Inv
<1> SUFFICES ASSUME Init PROVE Inv
  OBVIOUS
<1>1. TypeOK
  BY DEF Init, TypeOK, Idle, Txn, Sweep, Entry
<1> QED BY <1>1 DEF Init, Inv, KeyInv, LockInv, EntryInv, WritesAreChained, BlobInv, HasKey, HasPath, Idle

-----------------------------------------------------------------------------
(* Steps that change nothing but one transaction. *)

\* A transaction begins or ends.
LEMMA OutsideInv ==
  ASSUME Inv, NEW c \in Client, NEW t, t = Idle \/ (t \in Txn /\ t.step = "key"),
         txn' = [txn EXCEPT ![c] = t],
         UNCHANGED <<blobs, artifacts, entries, idempotent, sweep, answered>>
  PROVE  Inv'
<1>1. txn'[c] = t /\ \A d \in Client : d # c => txn'[d] = txn[d]
  BY DEF Inv, TypeOK
<1>2. t.step \in {"idle", "key"} /\ t \in Txn
  BY DEF Idle, Txn
<1>3. TypeOK'
  BY <1>2 DEF Inv, TypeOK
<1>4. \A d \in Client : HasKey(d)' => d # c /\ HasKey(d)
  BY <1>1, <1>2 DEF HasKey
<1>5. \A d \in Client : HasPath(d)' => d # c /\ HasPath(d)
  BY <1>1, <1>2 DEF HasPath
<1>6. KeyInv'
  BY <1>1, <1>4 DEF Inv, KeyInv
<1>7. LockInv'
  BY <1>1, <1>2, <1>5 DEF Inv, LockInv
<1>8. EntryInv' /\ WritesAreChained'
  BY DEF Inv, EntryInv, WritesAreChained
<1>9. BlobInv'
  BY <1>1, <1>2 DEF Inv, BlobInv
<1> QED BY <1>3, <1>6, <1>7, <1>8, <1>9 DEF Inv

LEMMA AskInv ==
  ASSUME Inv, NEW c \in Client, Create(c) \/ Write(c)
  PROVE  Inv'
<1>1. ASSUME NEW r \in Request, Ask(c, r)
      PROVE  Inv'
  <2> DEFINE t == [step |-> "key", request |-> r, revision |-> 0, raced |-> FALSE]
  <2>1. t \in Txn /\ t.step = "key"
    BY DEF Txn, Steps
  <2> QED BY <1>1, <2>1, OutsideInv DEF Ask
<1>2. CASE Create(c)
  <2>1. PICK k \in Key, x \in Content :
          Ask(c, [route |-> None, key |-> k, content |-> x, match |-> None])
    BY <1>2 DEF Create
  <2>2. [route |-> None, key |-> k, content |-> x, match |-> None] \in Request
    BY DEF Request
  <2> QED BY <1>1, <2>1, <2>2
<1>3. CASE Write(c)
  <2>1. PICK p \in Path, k \in Key, x \in Content : \E m \in Known(p) :
          Ask(c, [route |-> p, key |-> k, content |-> x, match |-> m])
    BY <1>3 DEF Write
  <2>2. PICK m \in Known(p) : Ask(c, [route |-> p, key |-> k, content |-> x, match |-> m])
    BY <2>1
  <2>3. answered \subseteq Row
    BY DEF Inv, TypeOK
  <2>4. m \in ETag \cup {None}
    BY <2>3 DEF Known, ETag, Row, Request, Result
  <2>5. [route |-> p, key |-> k, content |-> x, match |-> m] \in Request
    BY <2>4 DEF Request
  <2> QED BY <1>1, <2>2, <2>5
<1> QED BY <1>2, <1>3

LEMMA FailInv == ASSUME Inv, NEW c \in Client, Fail(c) PROVE Inv'
BY OutsideInv DEF Fail, Leaves

LEMMA TakeKeyInv ==
  ASSUME Inv, NEW c \in Client, TakeKey(c)
  PROVE  Inv'
<1> DEFINE r == txn[c].request
           s == IF r.route = None THEN "put" ELSE "path"
           t == [txn[c] EXCEPT !.step = s]
<1>1. UNCHANGED <<blobs, artifacts, entries, idempotent, sweep, answered>>
  BY ReplayAddsNothing DEF TakeKey
<1>2. txn[c].step = "key" /\ txn[c] \in [step : Steps, request : Request, revision : Nat, raced : BOOLEAN]
  BY TxnType DEF TakeKey, In, Inv
<1>3. CASE txn' = [txn EXCEPT ![c] = Idle]
  BY <1>1, <1>3, OutsideInv
<1>4. CASE txn' # [txn EXCEPT ![c] = Idle]
  <2>1. idempotent[Slot(r)] = NoRow /\ txn' = [txn EXCEPT ![c] = t]
    BY <1>4 DEF TakeKey, GoesTo, Leaves, Slot
  <2>2. txn'[c] = t /\ \A d \in Client : d # c => txn'[d] = txn[d]
    BY <2>1 DEF Inv, TypeOK
  <2>3. t \in Txn /\ t.step = s /\ t.request = r
    BY <1>2 DEF Txn, Steps
  <2>31. s \in {"put", "path"} /\ (s = "put" <=> r.route = None)
    OBVIOUS
  <2> HIDE DEF s, t
  <2>4. TypeOK'
    BY <1>1, <2>1, <2>3 DEF Inv, TypeOK
  <2>5. \A d \in Client : HasKey(d) => Slot(txn[d].request) # Slot(r)
    BY DEF TakeKey, KeyIsFree, HasKey, Slot
  <2>6. KeyInv'
    <3>1. \A d \in Client : HasKey(d)' => d = c \/ HasKey(d)
      BY <2>2 DEF HasKey
    <3>2. \A d \in Client : HasKey(d)' => (idempotent[Slot(txn[d].request)] = NoRow)'
      BY <1>1, <2>1, <2>2, <2>3, <3>1 DEF Inv, KeyInv
    <3>3. \A d, e \in Client :
            HasKey(d)' /\ HasKey(e)' /\ (Slot(txn[d].request) = Slot(txn[e].request))' => d = e
      BY <2>2, <2>3, <2>5, <3>1 DEF Inv, KeyInv
    <3> QED BY <1>1, <3>2, <3>3 DEF Inv, KeyInv
  <2>7. LockInv'
    <3>1. \A d \in Client : HasPath(d)' => (d = c /\ r.route = None) \/ (d # c /\ HasPath(d))
      BY <2>2, <2>3, <2>31 DEF HasPath
    <3>2. \A d \in Client : HasPath(d)' =>
            IF d = c THEN r.route = None /\ txn'[d].request.route = None
                     ELSE txn'[d] = txn[d] /\ HasPath(d)
      BY <2>2, <2>3, <3>1
    <3>3. \A d \in Client : HasPath(d)' /\ txn'[d].request.route \in Path =>
            txn'[d] = txn[d] /\ HasPath(d)
      BY <3>2, NoneAssumption
    <3>4. \A d, e \in Client :
            HasPath(d)' /\ HasPath(e)' /\ txn'[d].request.route = txn'[e].request.route =>
              d = e \/ txn'[d].request.route = None
      BY <3>2 DEF Inv, LockInv
    <3>5. \A d \in Client : txn'[d].step = "path" => txn'[d].request.route \in Path
      BY <1>2, <2>2, <2>3, <2>31, TxnType DEF Inv, LockInv
    <3> QED BY <1>1, <3>3, <3>4, <3>5 DEF Inv, LockInv
  <2>8. EntryInv' /\ WritesAreChained'
    BY <1>1 DEF Inv, EntryInv, WritesAreChained
  <2>9. BlobInv'
    BY <1>1, <2>2, <2>3, <2>31 DEF Inv, BlobInv
  <2> QED BY <2>4, <2>6, <2>7, <2>8, <2>9 DEF Inv
<1> QED BY <1>3, <1>4

LEMMA TakePathInv ==
  ASSUME Inv, NEW c \in Client, TakePath(c)
  PROVE  Inv'
<1> DEFINE r == txn[c].request
           e == entries[r.route]
           n == e.revision + 1
           t == [txn[c] EXCEPT !.step = "put", !.revision = n]
<1>1. UNCHANGED <<blobs, artifacts, entries, idempotent, sweep, answered>>
  BY DEF TakePath
<1>2. /\ txn[c].step = "path" /\ r.route \in Path \cup {None}
      /\ txn[c] \in [step : Steps, request : Request, revision : Nat, raced : BOOLEAN]
  BY TxnType DEF TakePath, In, Inv
<1>3. CASE txn' = [txn EXCEPT ![c] = Idle]
  BY <1>1, <1>3, OutsideInv
<1>4. CASE /\ r.match = (IF e.revision = 0 THEN None ELSE ETagOf(e))
           /\ txn' = [txn EXCEPT ![c] = t]
           /\ r.route \in Path
  <2>1. e.revision \in Nat
    BY <1>4 DEF Inv, TypeOK, Entry
  <2> HIDE DEF e
  <2>11. n \in Nat
    BY <2>1
  <2> HIDE DEF n
  <2>12. /\ t \in [step : Steps, request : Request, revision : Nat, raced : BOOLEAN]
         /\ t.step = "put" /\ t.request = r /\ t.revision = n
    BY <1>2, <2>11 DEF Steps
  <2> USE DEF n
  <2>2. t \in Txn /\ t.step = "put" /\ t.request = r /\ t.revision = e.revision + 1
    BY <2>12 DEF Txn
  <2> USE DEF e
  <2>3. txn'[c] = t /\ \A d \in Client : d # c => txn'[d] = txn[d]
    BY <1>4 DEF Inv, TypeOK
  <2> HIDE DEF t
  <2>4. TypeOK'
    BY <1>1, <1>4, <2>2 DEF Inv, TypeOK
  <2>5. KeyInv'
    <3>1. \A d \in Client : HasKey(d)' => HasKey(d) /\ txn'[d].request = txn[d].request
      BY <1>2, <2>2, <2>3 DEF HasKey
    <3> QED BY <1>1, <3>1 DEF Inv, KeyInv
  <2>6. LockInv'
    <3>1. \A d \in Client : HasPath(d)' => d = c \/ (HasPath(d) /\ txn'[d] = txn[d])
      BY <2>3 DEF HasPath
    <3>2. \A d \in Client : HasPath(d) => txn[d].request.route # r.route
      BY DEF TakePath, PathIsFree, HasPath
    <3>3. \A d, f \in Client :
            HasPath(d)' /\ HasPath(f)' /\ txn'[d].request.route = txn'[f].request.route =>
              d = f \/ txn'[d].request.route = None
      BY <2>2, <2>3, <3>1, <3>2 DEF Inv, LockInv
    <3>4. \A d \in Client : HasPath(d)' /\ txn'[d].request.route \in Path =>
            LET g == entries[txn'[d].request.route] IN
              /\ txn'[d].revision = g.revision + 1
              /\ txn'[d].request.match = IF g.revision = 0 THEN None ELSE ETagOf(g)
      BY <1>4, <2>2, <2>3, <3>1 DEF Inv, LockInv
    <3>5. \A d \in Client : txn'[d].step = "path" => txn'[d].request.route \in Path
      BY <2>2, <2>3 DEF Inv, LockInv
    <3> QED BY <1>1, <3>3, <3>4, <3>5 DEF LockInv
  <2>7. EntryInv' /\ WritesAreChained'
    BY <1>1 DEF Inv, EntryInv, WritesAreChained
  <2>8. BlobInv'
    BY <1>1, <2>2, <2>3 DEF Inv, BlobInv
  <2> QED BY <2>4, <2>5, <2>6, <2>7, <2>8 DEF Inv
<1>5. r.route \in Path
  BY <1>2 DEF Inv, LockInv
<1> QED BY <1>3, <1>4, <1>5 DEF TakePath, Leaves

\* A step of a transaction that has its locks and keeps its request and revision.
LEMMA HolderInv ==
  ASSUME Inv, NEW c \in Client, NEW t \in Txn, HasPath(c), t.step \in {"put", "publish", "commit"},
         t.request = txn[c].request, t.revision = txn[c].revision,
         txn' = [txn EXCEPT ![c] = t],
         UNCHANGED <<artifacts, entries, idempotent, sweep, answered>>
  PROVE  /\ blobs' \subseteq Content => TypeOK'
         /\ KeyInv' /\ LockInv' /\ EntryInv' /\ WritesAreChained'
<1>1. txn'[c] = t /\ \A d \in Client : d # c => txn'[d] = txn[d]
  BY DEF Inv, TypeOK
<1>2. HasKey(c)
  BY DEF HasPath, HasKey
<1>3. \A d \in Client : HasKey(d)' => HasKey(d) /\ txn'[d].request = txn[d].request
  BY <1>1, <1>2 DEF HasKey
<1>4. \A d \in Client : HasPath(d)' =>
        HasPath(d) /\ txn'[d].request = txn[d].request /\ txn'[d].revision = txn[d].revision
  BY <1>1 DEF HasPath
<1>5. blobs' \subseteq Content => TypeOK'
  BY DEF Inv, TypeOK
<1>6. KeyInv'
  BY <1>3 DEF Inv, KeyInv
<1>7. LockInv'
  <2>1. \A d \in Client : txn'[d].step = "path" => txn'[d] = txn[d]
    BY <1>1
  <2> QED BY <1>4, <2>1 DEF Inv, LockInv
<1> QED BY <1>5, <1>6, <1>7 DEF Inv, EntryInv, WritesAreChained

LEMMA PutInv ==
  ASSUME Inv, NEW c \in Client, Put(c)
  PROVE  Inv'
<1> DEFINE x == txn[c].request.content
           s == IF x \in blobs THEN "commit" ELSE "publish"
           b == \E g \in Collector : sweep[g] # Idle
           t == [txn[c] EXCEPT !.step = s, !.raced = b]
<1>1. /\ txn[c].step = "put" /\ HasPath(c)
      /\ txn[c] \in [step : Steps, request : Request, revision : Nat, raced : BOOLEAN]
  BY TxnType DEF Put, In, Inv, HasPath
<1>2. b \in BOOLEAN /\ s \in {"commit", "publish"} /\ (s = "commit" => x \in blobs)
  OBVIOUS
<1>3. txn' = [txn EXCEPT ![c] = t] /\ UNCHANGED <<blobs, artifacts, entries, idempotent, sweep, answered>>
  BY DEF Put
<1> HIDE DEF s, b
<1>4. /\ t \in Txn /\ t.step = s /\ t.raced = b
      /\ t.request = txn[c].request /\ t.revision = txn[c].revision
  BY <1>1, <1>2 DEF Txn, Steps
<1>5. txn'[c] = t /\ \A d \in Client : d # c => txn'[d] = txn[d]
  BY <1>3 DEF Inv, TypeOK
<1> HIDE DEF t
<1>6. TypeOK' /\ KeyInv' /\ LockInv' /\ EntryInv' /\ WritesAreChained'
  BY <1>1, <1>2, <1>3, <1>4, HolderInv DEF Inv, TypeOK
<1>7. ~b => \A g \in Collector : sweep[g] = Idle
  BY DEF b
<1>8. BlobInv'
  BY <1>2, <1>3, <1>4, <1>5, <1>7 DEF Inv, BlobInv
<1> QED BY <1>6, <1>8 DEF Inv

LEMMA PublishInv ==
  ASSUME Inv, NEW c \in Client, Publish(c)
  PROVE  Inv'
<1> DEFINE x == txn[c].request.content
           t == [txn[c] EXCEPT !.step = "commit"]
<1>1. /\ txn[c].step = "publish" /\ HasPath(c) /\ x \in Content
      /\ txn[c] \in [step : Steps, request : Request, revision : Nat, raced : BOOLEAN]
  BY TxnType DEF Publish, In, Inv, HasPath
<1>2. /\ txn' = [txn EXCEPT ![c] = t] /\ blobs' = blobs \cup {x}
      /\ UNCHANGED <<artifacts, entries, idempotent, sweep, answered>>
  BY DEF Publish, GoesTo
<1>3. /\ t \in Txn /\ t.step = "commit" /\ t.raced = txn[c].raced
      /\ t.request = txn[c].request /\ t.revision = txn[c].revision
  BY <1>1 DEF Txn, Steps
<1>4. txn'[c] = t /\ \A d \in Client : d # c => txn'[d] = txn[d]
  BY <1>2 DEF Inv, TypeOK
<1> HIDE DEF t
<1>5. TypeOK' /\ KeyInv' /\ LockInv' /\ EntryInv' /\ WritesAreChained'
  BY <1>1, <1>2, <1>3, HolderInv DEF Inv, TypeOK
<1>6. BlobInv'
  BY <1>1, <1>2, <1>3, <1>4 DEF Inv, BlobInv
<1> QED BY <1>5, <1>6 DEF Inv

-----------------------------------------------------------------------------
(* The commit. *)

LEMMA CommitInv ==
  ASSUME Inv, NEW c \in Client, Commit(c)
  PROVE  Inv'
<1> DEFINE r == txn[c].request
           rev == txn[c].revision
           n == Len(artifacts) + 1
           new == [content |-> r.content, raced |-> txn[c].raced]
           result == [artifact |-> n, revision |-> rev]
           a0 == [request |-> r, result |-> result]
           e0 == [revision |-> rev, content |-> r.content, artifact |-> n]
           slot == <<r.route, r.key>>
<1>1. /\ txn[c].step = "commit" /\ HasPath(c) /\ HasKey(c)
      /\ r \in Request /\ rev \in Nat /\ txn[c].raced \in BOOLEAN
      /\ r.route \in Path \cup {None} /\ r.content \in Content
      /\ slot \in (Path \cup {None}) \X Key /\ Slot(r) = slot
  BY TxnType DEF Commit, In, Inv, HasPath, HasKey, Slot
<1>2. /\ artifacts' = Append(artifacts, new)
      /\ entries' = [p \in Path |-> IF p = r.route THEN e0 ELSE entries[p]]
      /\ idempotent' = [idempotent EXCEPT ![slot] = a0]
      /\ answered' = answered \cup {a0}
      /\ txn' = [txn EXCEPT ![c] = Idle] /\ UNCHANGED <<blobs, sweep>>
  BY DEF Commit, Leaves
<1>3. n \in Nat /\ new \in Artifact /\ result \in Result /\ a0 \in Row /\ e0 \in Entry
  BY <1>1 DEF Inv, TypeOK, Artifact, Result, Row, Entry
<1>4. /\ artifacts' \in Seq(Artifact) /\ DOMAIN artifacts' = 1 .. n
      /\ DOMAIN artifacts = 1 .. Len(artifacts) /\ Len(artifacts) \in Nat
      /\ artifacts'[n] = new /\ \A i \in DOMAIN artifacts : artifacts'[i] = artifacts[i]
  BY <1>2, <1>3 DEF Inv, TypeOK
<1>5. /\ a0.request = r /\ a0.result.artifact = n /\ a0.result.revision = rev
      /\ e0.revision = rev /\ e0.content = r.content
      /\ new.content = r.content /\ new.raced = txn[c].raced
  OBVIOUS
<1>6. txn'[c] = Idle /\ \A d \in Client : d # c => txn'[d] = txn[d]
  BY <1>2 DEF Inv, TypeOK
<1>7. /\ \A d \in Client : HasKey(d)' => d # c /\ HasKey(d)
      /\ \A d \in Client : HasPath(d)' => d # c /\ HasPath(d)
  BY <1>6 DEF HasKey, HasPath, Idle
<1>8. a0 # NoRow
  <2> DEFINE D == DOMAIN a0
  <2>1. "result" \in DOMAIN a0 /\ "result" \notin DOMAIN NoRow
    BY DEF NoRow
  <2> QED BY <2>1
<1> HIDE DEF n, new, result, a0, e0, slot
<1>10. TypeOK'
  <2>1. idempotent' \in [(Path \cup {None}) \X Key -> {NoRow} \cup Row]
    BY <1>1, <1>2, <1>3 DEF Inv, TypeOK
  <2>2. txn' \in [Client -> Txn]
    BY <1>2 DEF Inv, TypeOK, Txn
  <2>3. entries' \in [Path -> Entry]
    BY <1>2, <1>3 DEF Inv, TypeOK
  <2>4. answered' \subseteq Row /\ \A a \in answered' : a.result.artifact \in 1 .. n
    BY <1>2, <1>3, <1>4, <1>5 DEF Inv, TypeOK, n
  <2> QED BY <1>2, <1>4, <2>1, <2>2, <2>3, <2>4 DEF Inv, TypeOK
<1>11. KeyInv'
  <2>1. /\ idempotent'[slot] = a0
        /\ \A rk \in (Path \cup {None}) \X Key : rk # slot => idempotent'[rk] = idempotent[rk]
    BY <1>1, <1>2 DEF Inv, TypeOK
  <2>2. \A a \in answered : a \in Row /\ Slot(a.request) \in (Path \cup {None}) \X Key
    BY DEF Inv, TypeOK, Row, Request, Slot
  <2>3. idempotent[slot] = NoRow
    BY <1>1 DEF Inv, KeyInv
  <2>4. \A a \in answered : a # NoRow
    BY <2>2 DEF Row, NoRow
  <2>5. \A a \in answered : Slot(a.request) # slot
    BY <2>3, <2>4 DEF Inv, KeyInv
  <2>6. \A rk \in (Path \cup {None}) \X Key : idempotent'[rk] # NoRow =>
          idempotent'[rk] \in answered' /\ Slot(idempotent'[rk].request) = rk
    BY <1>1, <1>2, <1>5, <2>1 DEF Inv, KeyInv
  <2>7. \A a \in answered' : idempotent'[Slot(a.request)] = a
    BY <1>1, <1>2, <1>5, <2>1, <2>2, <2>5 DEF Inv, KeyInv
  <2>8. \A d \in Client : HasKey(d)' => Slot(txn'[d].request) # slot
    BY <1>1, <1>6, <1>7 DEF Inv, KeyInv
  <2>9. \A d \in Client : HasKey(d)' => Slot(txn'[d].request) \in (Path \cup {None}) \X Key
    BY <1>6, <1>7, TxnType DEF Inv, HasKey
  <2>10. \A d \in Client : HasKey(d)' => idempotent'[Slot(txn'[d].request)] = NoRow
    BY <1>6, <1>7, <2>1, <2>8, <2>9 DEF Inv, KeyInv
  <2>11. \A d, f \in Client :
           HasKey(d)' /\ HasKey(f)' /\ Slot(txn'[d].request) = Slot(txn'[f].request) => d = f
    BY <1>6, <1>7 DEF Inv, KeyInv
  <2> QED BY <2>6, <2>7, <2>10, <2>11 DEF KeyInv, Slot
<1>12. LockInv'
  <2>1. \A d \in Client : HasPath(d)' /\ txn'[d].request.route \in Path =>
          txn'[d].request.route # r.route
    BY <1>1, <1>6, <1>7, NoneAssumption DEF Inv, LockInv
  <2>2. \A d \in Client : HasPath(d)' /\ txn'[d].request.route \in Path =>
          entries'[txn'[d].request.route] = entries[txn[d].request.route]
    BY <1>2, <1>6, <1>7, <2>1
  <2>3. \A d \in Client : HasPath(d)' /\ txn'[d].request.route \in Path =>
          LET g == entries'[txn'[d].request.route] IN
            /\ txn'[d].revision = g.revision + 1
            /\ txn'[d].request.match = IF g.revision = 0 THEN None ELSE ETagOf(g)
    BY <1>6, <1>7, <2>2 DEF Inv, LockInv
  <2>4. \A d, f \in Client :
          HasPath(d)' /\ HasPath(f)' /\ txn'[d].request.route = txn'[f].request.route =>
            d = f \/ txn'[d].request.route = None
    BY <1>6, <1>7 DEF Inv, LockInv
  <2>5. \A d \in Client : txn'[d].step = "path" => txn'[d].request.route \in Path
    BY <1>6 DEF Inv, LockInv, Idle
  <2> QED BY <2>3, <2>4, <2>5 DEF LockInv
<1>13. r.route \in Path => rev = entries[r.route].revision + 1 /\ entries[r.route].revision \in Nat
  BY <1>1 DEF Inv, LockInv, TypeOK, Entry
<1>14. EntryInv'
  <2>1. ASSUME NEW a \in answered', a.request.route \in Path
        PROVE  a.result.revision \in 1 .. entries'[a.request.route].revision
    <3>1. CASE a = a0
      BY <1>1, <1>2, <1>5, <1>13, <2>1, <3>1
    <3>2. CASE a \in answered /\ a.request.route = r.route
      <4>1. a.result.revision \in 1 .. entries[r.route].revision
        BY <2>1, <3>2 DEF Inv, EntryInv
      <4>2. entries'[r.route].revision = rev
        BY <1>2, <1>5, <2>1, <3>2
      <4> QED BY <1>13, <2>1, <3>2, <4>1, <4>2
    <3>3. CASE a \in answered /\ a.request.route # r.route
      BY <1>2, <2>1, <3>3 DEF Inv, EntryInv
    <3> QED BY <1>2, <3>1, <3>2, <3>3
  <2>2. ASSUME NEW p \in Path, entries'[p].revision > 0
        PROVE  \E a \in answered' :
                 /\ a.request.route = p /\ a.result.revision = entries'[p].revision
                 /\ a.request.content = entries'[p].content
    BY <1>2, <1>5, <2>2 DEF Inv, EntryInv
  <2> QED BY <2>1, <2>2 DEF EntryInv
<1>15. WritesAreChained'
  <2>1. ASSUME NEW a \in answered', a.request.route \in Path, NEW b \in answered',
               b.request.route = a.request.route, b.result.revision = a.result.revision
        PROVE  a = b
    <3>1. \A f \in answered : f.request.route = r.route /\ r.route \in Path =>
            f.result.revision # rev
      BY <1>13 DEF Inv, EntryInv
    <3> QED BY <1>2, <1>5, <2>1, <3>1 DEF Inv, WritesAreChained
  <2>2. ASSUME NEW a \in answered', a.request.route \in Path
        PROVE  \/ a.request.match = None /\ a.result.revision = 1
               \/ \E b \in answered' :
                    /\ b.request.route = a.request.route
                    /\ b.result.revision + 1 = a.result.revision
                    /\ a.request.match =
                         [content |-> b.request.content, revision |-> b.result.revision]
    <3>1. CASE a \in answered
      BY <1>2, <2>2, <3>1 DEF Inv, WritesAreChained
    <3>2. CASE a = a0
      <4> DEFINE e == entries[r.route]
      <4>1. r.match = IF e.revision = 0 THEN None ELSE ETagOf(e)
        BY <1>1, <1>5, <2>2, <3>2 DEF Inv, LockInv
      <4>2. CASE e.revision = 0
        BY <1>5, <1>13, <2>2, <3>2, <4>1, <4>2
      <4>3. CASE e.revision # 0
        <5>1. e.revision > 0
          BY <1>5, <1>13, <2>2, <3>2, <4>3
        <5>2. PICK b \in answered : /\ b.request.route = r.route /\ b.result.revision = e.revision
                                    /\ b.request.content = e.content
          BY <1>5, <2>2, <3>2, <5>1 DEF Inv, EntryInv
        <5> QED BY <1>2, <1>5, <1>13, <2>2, <3>2, <4>1, <4>3, <5>2 DEF ETagOf
      <4> QED BY <4>2, <4>3
    <3> QED BY <1>2, <3>1, <3>2
  <2> QED BY <2>1, <2>2 DEF WritesAreChained
<1>16. BlobInv'
  <2>1. \A d \in Client : txn'[d].step \in {"publish", "commit"} => txn'[d] = txn[d]
    BY <1>6 DEF Idle
  <2>2. \A g \in Collector : ~txn[c].raced => sweep[g].step = "idle"
    BY <1>1 DEF Inv, BlobInv, Idle
  <2>3. ~txn[c].raced => r.content \in blobs
    BY <1>1 DEF Inv, BlobInv
  <2>4. \A i \in DOMAIN artifacts' : i \in DOMAIN artifacts \/ i = n
    BY <1>4 DEF n
  <2>5. \A i \in DOMAIN artifacts' : ~artifacts'[i].raced =>
          /\ artifacts'[i].content \in blobs
          /\ \A g \in Collector :
               /\ sweep[g].step = "list" => artifacts'[i].content \in sweep[g].keys
               /\ sweep[g].step = "delete" => artifacts'[i].content \notin sweep[g].keys
    BY <1>4, <1>5, <2>2, <2>3, <2>4 DEF Inv, BlobInv
  <2> QED BY <1>2, <2>1, <2>5 DEF Inv, BlobInv
<1> QED BY <1>10, <1>11, <1>12, <1>14, <1>15, <1>16 DEF Inv

-----------------------------------------------------------------------------
(* Sweeps. *)

LEMMA LookInv ==
  ASSUME Inv, NEW g \in Collector, Look(g)
  PROVE  Inv'
<1> DEFINE late(c) == txn[c].step \in {"publish", "commit"}
           w == [step |-> "list", keys |-> Registered]
<1>1. Registered \subseteq Content /\ \A i \in DOMAIN artifacts : artifacts[i].content \in Registered
  <2>1. \A i \in DOMAIN artifacts : artifacts[i] \in Artifact
    BY DEF Inv, TypeOK
  <2>2. \A i \in DOMAIN artifacts : artifacts[i].content \in Content
    BY <2>1 DEF Artifact
  <2> QED BY <2>2 DEF Registered
<1>2. /\ sweep' = [sweep EXCEPT ![g] = w]
      /\ txn' = [c \in Client |-> IF late(c) THEN [txn[c] EXCEPT !.raced = TRUE] ELSE txn[c]]
      /\ UNCHANGED <<blobs, artifacts, entries, idempotent, answered>>
  BY DEF Look
<1>3. sweep'[g] = w /\ \A h \in Collector : h # g => sweep'[h] = sweep[h]
  BY <1>2 DEF Inv, TypeOK
<1>4. ASSUME NEW c \in Client
      PROVE  /\ txn'[c] \in Txn /\ txn'[c].step = txn[c].step
             /\ txn[c].step # "idle" =>
                  txn'[c].request = txn[c].request /\ txn'[c].revision = txn[c].revision
             /\ late(c) => txn'[c].raced
  <2>1. CASE late(c)
    BY <1>2, <2>1, TxnType DEF Inv, Txn
  <2>2. CASE ~late(c)
    BY <1>2, <2>2 DEF Inv, TypeOK
  <2> QED BY <2>1, <2>2
<1>5. w \in Sweep /\ w.step = "list" /\ w.keys = Registered
  BY <1>1 DEF Sweep
<1> HIDE DEF w
<1>6. TypeOK'
  <2>1. txn' \in [Client -> Txn]
    BY <1>2, <1>4
  <2> QED BY <1>2, <1>5, <2>1 DEF Inv, TypeOK
<1> HIDE DEF late
<1>7. \A d \in Client : HasKey(d)' => HasKey(d) /\ txn'[d].request = txn[d].request
  BY <1>4 DEF HasKey
<1>71. \A d \in Client : HasPath(d)' =>
         HasPath(d) /\ txn'[d].request = txn[d].request /\ txn'[d].revision = txn[d].revision
  BY <1>4 DEF HasPath
<1>8. KeyInv'
  BY <1>2, <1>7 DEF Inv, KeyInv
<1>9. LockInv'
  <2>1. \A c \in Client : txn'[c].step = "path" => txn'[c].request.route \in Path
    BY <1>4 DEF Inv, LockInv
  <2> QED BY <1>2, <1>71, <2>1 DEF Inv, LockInv
<1>10. EntryInv' /\ WritesAreChained'
  BY <1>2 DEF Inv, EntryInv, WritesAreChained
<1>11. BlobInv'
  <2>1. \A c \in Client : txn'[c].step \in {"publish", "commit"} => txn'[c].raced
    BY <1>4 DEF late
  <2>2. \A i \in DOMAIN artifacts : ~artifacts[i].raced =>
          \A h \in Collector :
            /\ sweep'[h].step = "list" => artifacts[i].content \in sweep'[h].keys
            /\ sweep'[h].step = "delete" => artifacts[i].content \notin sweep'[h].keys
    BY <1>1, <1>3, <1>5 DEF Inv, BlobInv
  <2> QED BY <1>2, <2>1, <2>2 DEF Inv, BlobInv
<1> QED BY <1>6, <1>8, <1>9, <1>10, <1>11 DEF Inv

\* A step of a sweep that is under way: it keeps away from what no sweep has raced.
LEMMA SweepInv ==
  ASSUME Inv, NEW g \in Collector, NEW w \in Sweep, sweep[g] # Idle,
         sweep' = [sweep EXCEPT ![g] = w], w.step # "list", blobs' \subseteq blobs,
         UNCHANGED <<artifacts, entries, idempotent, txn, answered>>,
         \A i \in DOMAIN artifacts : ~artifacts[i].raced =>
           /\ artifacts[i].content \in blobs'
           /\ w.step = "delete" => artifacts[i].content \notin w.keys
  PROVE  Inv'
<1>1. sweep'[g] = w /\ \A h \in Collector : h # g => sweep'[h] = sweep[h]
  BY DEF Inv, TypeOK
<1>2. TypeOK'
  BY DEF Inv, TypeOK
<1>3. KeyInv' /\ LockInv' /\ EntryInv' /\ WritesAreChained'
  BY DEF Inv, KeyInv, LockInv, EntryInv, WritesAreChained, HasKey, HasPath
<1>4. \A c \in Client : txn[c].step \in {"publish", "commit"} => txn[c].raced
  BY DEF Inv, BlobInv
<1>5. BlobInv'
  BY <1>1, <1>4 DEF Inv, BlobInv
<1> QED BY <1>2, <1>3, <1>5 DEF Inv

LEMMA CollectorInv ==
  ASSUME Inv, NEW g \in Collector, CollectorStep(g)
  PROVE  Inv'
<1>1. CASE Look(g)
  BY <1>1, LookInv
<1>2. CASE List(g)
  <2> DEFINE w == [step |-> "delete", keys |-> blobs \ sweep[g].keys]
  <2>1. w \in Sweep /\ w.step = "delete" /\ w.keys = blobs \ sweep[g].keys
    BY DEF Inv, TypeOK, Sweep
  <2>2. \A i \in DOMAIN artifacts : ~artifacts[i].raced =>
          artifacts[i].content \in blobs /\ artifacts[i].content \in sweep[g].keys
    BY <1>2 DEF List, Inv, BlobInv
  <2>3. sweep[g] # Idle
    BY <1>2 DEF List, Idle
  <2>4. sweep' = [sweep EXCEPT ![g] = w] /\ UNCHANGED <<blobs, artifacts, entries, idempotent, txn, answered>>
    BY <1>2 DEF List
  <2> HIDE DEF w
  <2> QED BY <2>1, <2>2, <2>3, <2>4, SweepInv
<1>3. CASE Delete(g)
  <2>1. PICK x \in sweep[g].keys :
          blobs' = blobs \ {x} /\ sweep' = [sweep EXCEPT ![g].keys = @ \ {x}]
    BY <1>3 DEF Delete
  <2> DEFINE w == [sweep[g] EXCEPT !.keys = @ \ {x}]
  <2>2. sweep[g].step = "delete" /\ sweep[g] # Idle
    BY <1>3 DEF Delete, Idle
  <2>3. sweep[g] \in [step : {"list", "delete"}, keys : SUBSET Content]
    BY <2>2, SweepType DEF Inv
  <2>4. w \in Sweep /\ w.step = "delete" /\ w.keys = sweep[g].keys \ {x}
    BY <2>2, <2>3 DEF Sweep
  <2>5. \A i \in DOMAIN artifacts : ~artifacts[i].raced =>
          artifacts[i].content \in blobs /\ artifacts[i].content \notin sweep[g].keys
    BY <2>2 DEF Inv, BlobInv
  <2>6. sweep' = [sweep EXCEPT ![g] = w] /\ UNCHANGED <<artifacts, entries, idempotent, txn, answered>>
    BY <1>3, <2>1 DEF Delete
  <2> HIDE DEF w
  <2>7. \A i \in DOMAIN artifacts : ~artifacts[i].raced =>
          /\ artifacts[i].content \in blobs'
          /\ w.step = "delete" => artifacts[i].content \notin w.keys
    BY <2>1, <2>4, <2>5
  <2>8. w.step # "list" /\ blobs' \subseteq blobs
    BY <2>1, <2>4
  <2> QED BY <2>2, <2>4, <2>6, <2>7, <2>8, SweepInv
<1>4. CASE Finish(g)
  <2>1. Idle \in Sweep /\ Idle.step = "idle"
    BY DEF Sweep, Idle
  <2>2. \A i \in DOMAIN artifacts : ~artifacts[i].raced => artifacts[i].content \in blobs
    BY DEF Inv, BlobInv
  <2>3. /\ sweep[g] # Idle /\ sweep' = [sweep EXCEPT ![g] = Idle]
        /\ blobs' = blobs /\ UNCHANGED <<artifacts, entries, idempotent, txn, answered>>
    BY <1>4 DEF Finish
  <2> DEFINE w == Idle
  <2>4. w \in Sweep /\ w.step = "idle" /\ sweep' = [sweep EXCEPT ![g] = w]
    BY <2>1, <2>3
  <2> HIDE DEF w
  <2>5. /\ w.step # "list" /\ blobs' \subseteq blobs
        /\ \A i \in DOMAIN artifacts : ~artifacts[i].raced =>
             /\ artifacts[i].content \in blobs'
             /\ w.step = "delete" => artifacts[i].content \notin w.keys
    BY <2>2, <2>3, <2>4
  <2> QED BY <2>3, <2>4, <2>5, SweepInv
<1> QED BY <1>1, <1>2, <1>3, <1>4 DEF CollectorStep

-----------------------------------------------------------------------------
(* Theorems. *)

LEMMA StepInv == Inv /\ [Next]_vars => Inv'
<1> SUFFICES ASSUME Inv, [Next]_vars PROVE Inv'
  OBVIOUS
<1>1. CASE UNCHANGED vars
  <2>1. TypeOK'
    BY <1>1 DEF vars, Inv, TypeOK
  <2>2. KeyInv' /\ LockInv'
    BY <1>1 DEF vars, Inv, KeyInv, LockInv, HasKey, HasPath
  <2>3. EntryInv' /\ WritesAreChained'
    BY <1>1 DEF vars, Inv, EntryInv, WritesAreChained
  <2>4. BlobInv'
    BY <1>1 DEF vars, Inv, BlobInv
  <2> QED BY <2>1, <2>2, <2>3, <2>4 DEF Inv
<1>2. ASSUME NEW c \in Client, ClientStep(c) PROVE Inv'
  BY <1>2, AskInv, TakeKeyInv, TakePathInv, PutInv, PublishInv, CommitInv, FailInv DEF ClientStep
<1> QED BY <1>1, <1>2, CollectorInv DEF Next

\* All conjuncts of the invariant hold in every reachable state.
THEOREM InvHolds == Spec => []Inv
BY InitInv, StepInv, PTL DEF Spec

\* Rows, locks, sweeps and answers have the types of the code's records.
THEOREM TypeCorrect == Spec => []TypeOK
<1>1. Inv => TypeOK
  BY DEF Inv
<1> QED BY <1>1, InvHolds, PTL

\* No two answers to a route and a key differ, for requests that race, retry or fail
\* at any step of create_artifact and write_file.
THEOREM KeysHaveOneResult == Spec => []KeyHasOneResult
<1>1. Inv => KeyHasOneResult
  <2> SUFFICES ASSUME Inv, NEW a \in answered, NEW b \in answered,
                      a.request.route = b.request.route, a.request.key = b.request.key
               PROVE  a = b
    BY DEF KeyHasOneResult
  <2>1. Slot(a.request) = Slot(b.request)
    BY DEF Slot
  <2> QED BY <2>1 DEF Inv, KeyInv
<1> QED BY <1>1, InvHolds, PTL

\* The answered writes of a path are a chain of revisions and ETags.
THEOREM NoUpdateIsLost == Spec => []WritesAreChained
<1>1. Inv => WritesAreChained
  BY DEF Inv
<1> QED BY <1>1, InvHolds, PTL

\* The collector takes the blob of an artifact only if a sweep raced its request.
THEOREM CollectorSparesOthers == Spec => []MissingBlobWasRaced
<1>1. Inv => MissingBlobWasRaced
  BY DEF Inv, BlobInv, MissingBlobWasRaced, Readable
<1> QED BY <1>1, InvHolds, PTL
=============================================================================
