---------------------------- MODULE ResourceStore ----------------------------
(***************************************************************************)
(* Artifacts, workspace files and their blobs: create_artifact, write_file *)
(* and garbage_collect_blobs (resources.py) over the content-addressed     *)
(* FileBlobStore (adapters/blobs/filesystem.py).                           *)
(*                                                                         *)
(* A request is one database transaction, but what it does to the blob     *)
(* store happens at once: its steps are the waits for the two advisory     *)
(* locks, the look for an existing blob, the publication by rename and the *)
(* commit.  Anything may raise in between, which rolls the rows back and   *)
(* leaves the blob.  Rows of other transactions show once committed.       *)
(***************************************************************************)
EXTENDS Naturals, Sequences, FiniteSets

CONSTANTS
  Client,       \* callers of create_artifact and write_file
  Collector,    \* callers of garbage_collect_blobs
  Key,          \* idempotency keys
  Path,         \* canonical paths of one workspace
  Content,      \* contents; a content stands for its hash and storage key
  None,         \* no path, no ETag
  MaxArtifacts  \* bound: artifacts

ASSUME NoneAssumption == None \notin Path /\ None \notin [content : Content, revision : Nat]
ASSUME ArtifactsAssumption == MaxArtifacts \in Nat

VARIABLES
  blobs,      \* the contents in the blob store
  artifacts,  \* rows of artifacts, in the order of their commits
  entries,    \* the workspace entry of each path; revision 0 if there is none
  idempotent, \* the idempotency row of each route and key: the request and its result
  txn,        \* what each client is doing
  sweep,      \* what each collector is doing
  answered    \* requests that committed or were replayed, with their results

vars == <<blobs, artifacts, entries, idempotent, txn, sweep, answered>>

ETag == [content : Content, revision : Nat]

\* A request of POST /v1/artifacts has no path; If-None-Match: * is the match None.
Request ==
  [route : {None}, key : Key, content : Content, match : {None}]
    \cup [route : Path, key : Key, content : Content, match : ETag \cup {None}]
Result == [artifact : Nat, revision : Nat]
NoRow == [request |-> None]                        \* no idempotency row
Row == [request : Request, result : Result]

\* raced: a collector ran while the artifact was between its blob and its commit.
Artifact == [content : Content, raced : BOOLEAN]
Entry == [revision : Nat, content : Content \cup {None}, artifact : Nat]
Steps == {"key", "path", "put", "publish", "commit"}
Idle == [step |-> "idle"]
Txn == {Idle} \cup [step : Steps, request : Request, revision : Nat, raced : BOOLEAN]
Sweep == {Idle} \cup [step : {"list", "delete"}, keys : SUBSET Content]

TypeOK ==
  /\ blobs \subseteq Content
  /\ artifacts \in Seq(Artifact)
  /\ entries \in [Path -> Entry]
  /\ idempotent \in [(Path \cup {None}) \X Key -> {NoRow} \cup Row]
  /\ txn \in [Client -> Txn] /\ sweep \in [Collector -> Sweep]
  /\ answered \subseteq Row
  /\ \A a \in answered : a.result.artifact \in DOMAIN artifacts

Init ==
  /\ blobs = {} /\ artifacts = <<>> /\ answered = {}
  /\ entries = [p \in Path |-> [revision |-> 0, content |-> None, artifact |-> 0]]
  /\ idempotent = [rk \in (Path \cup {None}) \X Key |-> NoRow]
  /\ txn = [c \in Client |-> Idle]
  /\ sweep = [g \in Collector |-> Idle]

\* The fingerprint of a request covers its route, content and conditions.
Fingerprint(r) == <<r.route, r.content, r.match>>
ETagOf(e) == [content |-> e.content, revision |-> e.revision]
In(c, step) == txn[c].step = step
GoesTo(c, step) == txn' = [txn EXCEPT ![c].step = step]
Leaves(c) == txn' = [txn EXCEPT ![c] = Idle]

\* Mutants: a lock that is never waited for.
KeyIsFree_NoLock(r) == TRUE
PathIsFree_NoLock(p) == TRUE

\* pg_advisory_xact_lock of the key and of the path: held to the end of the transaction.
KeyIsFree(r) ==
  \A d \in Client :
    txn[d].step \in {"path", "put", "publish", "commit"} =>
      <<txn[d].request.route, txn[d].request.key>> # <<r.route, r.key>>
PathIsFree(p) ==
  \A d \in Client : txn[d].step \in {"put", "publish", "commit"} => txn[d].request.route # p

-----------------------------------------------------------------------------
(* Requests. *)

\* ETags a client can know: those of answered writes.  Others fail as stale ones do.
Known(p) ==
  {None} \cup {[content |-> a.request.content, revision |-> a.result.revision] :
                 a \in {b \in answered : b.request.route = p}}

Ask(c, r) ==
  /\ txn[c] = Idle /\ Len(artifacts) < MaxArtifacts
  /\ txn' = [txn EXCEPT ![c] = [step |-> "key", request |-> r, revision |-> 0, raced |-> FALSE]]
  /\ UNCHANGED <<blobs, artifacts, entries, idempotent, sweep, answered>>

Create(c) ==
  \E k \in Key, x \in Content : Ask(c, [route |-> None, key |-> k, content |-> x, match |-> None])
Write(c) ==
  \E p \in Path, k \in Key, x \in Content : \E m \in Known(p) :
    Ask(c, [route |-> p, key |-> k, content |-> x, match |-> m])

\* The lock of the key, then _idempotency: go on, replay the result, or conflict.
TakeKey(c) ==
  /\ In(c, "key") /\ KeyIsFree(txn[c].request)
  /\ LET r == txn[c].request
         row == idempotent[<<r.route, r.key>>]
     IN \/ /\ row = NoRow
           /\ GoesTo(c, IF r.route = None THEN "put" ELSE "path")
           /\ UNCHANGED answered
        \/ /\ row # NoRow /\ Fingerprint(row.request) = Fingerprint(r)
           /\ answered' = answered \cup {[request |-> r, result |-> row.result]}
           /\ Leaves(c)
        \/ /\ row # NoRow /\ Fingerprint(row.request) # Fingerprint(r)
           /\ Leaves(c) /\ UNCHANGED answered
  /\ UNCHANGED <<blobs, artifacts, entries, idempotent, sweep>>

\* The lock of the path, then the ETag of the entry against the request's.
TakePath(c) ==
  /\ In(c, "path") /\ PathIsFree(txn[c].request.route)
  /\ LET r == txn[c].request
         e == entries[r.route]
     IN IF r.match = (IF e.revision = 0 THEN None ELSE ETagOf(e))
        THEN txn' = [txn EXCEPT ![c].step = "put", ![c].revision = e.revision + 1]
        ELSE Leaves(c)
  /\ UNCHANGED <<blobs, artifacts, entries, idempotent, sweep, answered>>

\* FileBlobStore.put: a blob that exists is left; otherwise the rename publishes it.
Put(c) ==
  /\ In(c, "put")
  /\ txn' = [txn EXCEPT
       ![c].step = IF txn[c].request.content \in blobs THEN "commit" ELSE "publish",
       ![c].raced = \E g \in Collector : sweep[g] # Idle]
  /\ UNCHANGED <<blobs, artifacts, entries, idempotent, sweep, answered>>

Publish(c) ==
  /\ In(c, "publish")
  /\ blobs' = blobs \cup {txn[c].request.content} /\ GoesTo(c, "commit")
  /\ UNCHANGED <<artifacts, entries, idempotent, sweep, answered>>

\* Mutant: the row of the artifact is not added.
Commit_NoArtifact(c) ==
  /\ In(c, "commit")
  /\ LET r == txn[c].request
         result == [artifact |-> Len(artifacts) + 1, revision |-> txn[c].revision]
     IN /\ idempotent' = [idempotent EXCEPT ![<<r.route, r.key>>] =
                            [request |-> r, result |-> result]]
        /\ answered' = answered \cup {[request |-> r, result |-> result]}
  /\ Leaves(c) /\ UNCHANGED <<blobs, artifacts, entries, sweep>>

\* The rows of the artifact, of the entry of a write and of the idempotency key.
Commit(c) ==
  /\ In(c, "commit")
  /\ LET r == txn[c].request
         n == Len(artifacts) + 1
         result == [artifact |-> n, revision |-> txn[c].revision]
     IN /\ artifacts' = Append(artifacts, [content |-> r.content, raced |-> txn[c].raced])
        /\ entries' = [p \in Path |->
             IF p = r.route
             THEN [revision |-> txn[c].revision, content |-> r.content, artifact |-> n]
             ELSE entries[p]]
        /\ idempotent' = [idempotent EXCEPT ![<<r.route, r.key>>] =
                            [request |-> r, result |-> result]]
        /\ answered' = answered \cup {[request |-> r, result |-> result]}
  /\ Leaves(c) /\ UNCHANGED <<blobs, sweep>>

\* Any exception, a crash or a lost connection: the transaction rolls back.
Fail(c) ==
  /\ txn[c] # Idle /\ Leaves(c)
  /\ UNCHANGED <<blobs, artifacts, entries, idempotent, sweep, answered>>

-----------------------------------------------------------------------------
(* Garbage collection. *)

\* Mutant: the collector looks at the workspace entries instead.
Registered_EntriesOnly == {entries[p].content : p \in Path} \ {None}

\* The storage keys that garbage_collect_blobs finds in artifacts.
Registered == {artifacts[i].content : i \in DOMAIN artifacts}

Look(g) ==
  /\ sweep[g] = Idle
  /\ sweep' = [sweep EXCEPT ![g] = [step |-> "list", keys |-> Registered]]
  /\ txn' = [c \in Client |->
       IF txn[c].step \in {"publish", "commit"} THEN [txn[c] EXCEPT !.raced = TRUE] ELSE txn[c]]
  /\ UNCHANGED <<blobs, artifacts, entries, idempotent, answered>>

\* list_keys, less the registered ones.
List(g) ==
  /\ sweep[g].step = "list"
  /\ sweep' = [sweep EXCEPT ![g] = [step |-> "delete", keys |-> blobs \ sweep[g].keys]]
  /\ UNCHANGED <<blobs, artifacts, entries, idempotent, txn, answered>>

\* One orphan after the other.
Delete(g) ==
  /\ sweep[g].step = "delete"
  /\ \E x \in sweep[g].keys :
       blobs' = blobs \ {x} /\ sweep' = [sweep EXCEPT ![g].keys = @ \ {x}]
  /\ UNCHANGED <<artifacts, entries, idempotent, txn, answered>>

\* The end of a sweep, or of its process.
Finish(g) ==
  /\ sweep[g] # Idle /\ sweep' = [sweep EXCEPT ![g] = Idle]
  /\ UNCHANGED <<blobs, artifacts, entries, idempotent, txn, answered>>

ClientStep(c) ==
  \/ Create(c) \/ Write(c) \/ TakeKey(c) \/ TakePath(c)
  \/ Put(c) \/ Publish(c) \/ Commit(c) \/ Fail(c)
CollectorStep(g) == Look(g) \/ List(g) \/ Delete(g) \/ Finish(g)
Next == (\E c \in Client : ClientStep(c)) \/ (\E g \in Collector : CollectorStep(g))
Spec == Init /\ [][Next]_vars

-----------------------------------------------------------------------------
(* What a client may rely on. *)

\* A route and a key have one request and one result, whatever is retried, raced
\* or rolled back: no client that reuses a key is answered with another artifact.
KeyHasOneResult ==
  \A a, b \in answered :
    a.request.route = b.request.route /\ a.request.key = b.request.key => a = b

\* No update is lost.  The answered writes of a path are a chain: each revision
\* was written once, and its writer named the ETag of the revision before it.
WritesAreChained ==
  \A a \in answered : a.request.route \in Path =>
    /\ \A b \in answered :
         b.request.route = a.request.route /\ b.result.revision = a.result.revision => a = b
    /\ \/ a.request.match = None /\ a.result.revision = 1
       \/ \E b \in answered :
            /\ b.request.route = a.request.route
            /\ b.result.revision + 1 = a.result.revision
            /\ a.request.match = [content |-> b.request.content, revision |-> b.result.revision]

\* _artifact_bytes finds the blob.
Readable(i) == artifacts[i].content \in blobs

\* The collector is safe beside everything but a request in flight: if the blob of
\* a committed artifact is gone, a sweep ran between that blob and that commit.
MissingBlobWasRaced == \A i \in DOMAIN artifacts : ~Readable(i) => artifacts[i].raced

\* The data model says that a reference is not published before its blob is safe and
\* that the collector takes what failures left.  It does not hold: a sweep that read
\* the registered keys before the commit takes the blob of the artifact after it.
AnsweredArtifactIsReadable == \A a \in answered : Readable(a.result.artifact)
=============================================================================
