------------------------------- MODULE Backend -------------------------------
(***************************************************************************)
(* The two Firebase services the app talks to, as src/ uses them.          *)
(*                                                                         *)
(* Storage keeps blobs (pictures and recordings).  Firestore keeps         *)
(* documents: a write goes into the device's mutation queue, which is on   *)
(* disk and is sent to the server in order, one write after the other; the *)
(* server commits it or rejects it; a query answers with the server's      *)
(* documents, or with the cached ones when the server cannot be reached,   *)
(* and in both cases with the device's own queued writes laid over them.   *)
(* Nothing in the app deletes a blob or a document.                        *)
(***************************************************************************)
EXTENDS Sequences, Functions

CONSTANTS
  Devices,      \* installations of the app
  Document      \* the documents the app may write

VARIABLES
  blobs,        \* blobs in Storage
  outbox,       \* per device, its queue of writes the server has not decided
  server,       \* documents committed by the server
  rejected,     \* documents the server refused; history, nobody reads it
  cache         \* per device, the server's documents it has seen

BackendInit ==
  /\ blobs = {}
  /\ outbox = [d \in Devices |-> <<>>]
  /\ server = {}
  /\ rejected = {}
  /\ cache = [d \in Devices |-> {}]

-----------------------------------------------------------------------------
\* Storage

\* putData and putFile call back when the transfer has ended, well or badly.
PutBlob(b) == blobs' \in {blobs, blobs \cup {b}}

-----------------------------------------------------------------------------
\* Firestore

\* The writes of device d that the server has not decided yet.
Pending(d) == Range(outbox[d])

\* setData: the write is queued before the call returns.
SetData(d, doc) == outbox' = [outbox EXCEPT ![d] = Append(@, doc)]

\* The callback of setData runs once the server has decided the write.
Decided(d, doc) == doc \notin Pending(d)

\* The oldest queued write of d is committed ...
ServerCommits(d) ==
  /\ outbox[d] # <<>>
  /\ server' = server \cup {Head(outbox[d])}
  /\ cache' = [cache EXCEPT ![d] = @ \cup {Head(outbox[d])}]
  /\ outbox' = [outbox EXCEPT ![d] = Tail(@)]
  /\ UNCHANGED rejected

\* ... or refused (security rules, quota, size): it leaves the queue for good,
\* and the writes behind it are sent all the same.
ServerRejects(d) ==
  /\ outbox[d] # <<>>
  /\ rejected' = rejected \cup {Head(outbox[d])}
  /\ outbox' = [outbox EXCEPT ![d] = Tail(@)]
  /\ UNCHANGED <<server, cache>>

\* getDocuments answers from the server or, when it is out of reach, from the
\* cache, ...
Sources(d) == {server, cache[d]}

\* ... with the device's own queued writes laid over the answer.
Answer(d, source, wanted) == (source \cup Pending(d)) \cap wanted

Remember(d, source, wanted) ==
  cache' = [cache EXCEPT ![d] = @ \cup (source \cap wanted)]

\* The process dies: the mutation queue and the cache are on disk and survive.
KeepOnDisk(d) == UNCHANGED <<outbox, server, rejected, cache>>

=============================================================================
