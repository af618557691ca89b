---------------------------- MODULE FirestoreWrites ----------------------------
(***************************************************************************)
(* What stands behind setData: the write pipeline of the Firestore client  *)
(* (Pods/FirebaseFirestore), from the mutation queue on disk, through the  *)
(* write stream, to the server and back.  One installation of the app.     *)
(*                                                                         *)
(* A write becomes a batch in LevelDB.  RemoteStore keeps the oldest       *)
(* batches in its pipeline and sends them, after a handshake, over one     *)
(* stream; results carry no name and are matched with the pipeline by      *)
(* position.  A broken stream is opened again, with backoff unless one     *)
(* write was to blame, and everything without a result is sent once more.  *)
(* All of the client runs on one worker queue.  The app never disables the *)
(* network and never signs in.                                             *)
(*                                                                         *)
(* A definition marked "Fault" is the next unmarked one with a plausible   *)
(* slip: put in its place, it must break a property named in PROJECT.json. *)
(***************************************************************************)
EXTENDS Integers, Sequences, FiniteSets

CONSTANTS
  Document,           \* the documents the app writes, each of them once
  Forbidden,          \* those the server refuses (rules, size)
  MaxPendingWrites,   \* kMaxPendingWrites
  MaxFaults,          \* bound on crashes, breaks and restarts of the network
  Hello               \* the handshake and its answer

ASSUME WritesAssumption ==
  /\ Forbidden \subseteq Document
  /\ MaxPendingWrites \in Nat \ {0}
  /\ MaxFaults \in Nat
  /\ Hello \notin Document

VARIABLES
  mutations,    \* on disk: the batches not yet acknowledged or rejected
  running,      \* the process is alive
  nextBatchId,  \* LevelDbMutationQueue::next_batch_id_
  callbacks,    \* SyncEngine::mutation_callbacks_
  pipeline,     \* RemoteStore::write_pipeline_
  stream,       \* Stream::state_ of the write stream
  handshake,    \* WriteStream::handshake_complete_
  idleTimer,    \* Stream::idleness_timer_ is set
  requests,     \* sent on the present stream, not handled by the server
  responses,    \* sent by the server, not read by the client
  verdict,      \* how the server or the network has ended the stream, if it has
  writeFailed,  \* a failed write is ahead of the next read on the worker queue
  adrift,       \* of each stream the client gave up, the requests still under way
  server,       \* documents the server has committed
  told,         \* history: what the app knows of each write
  faults        \* number of faults so far

disk == <<mutations, nextBatchId>>
client == <<running, callbacks, pipeline, stream, handshake, idleTimer>>
wire == <<requests, responses, verdict, writeFailed, adrift>>
vars == <<disk, client, wire, server, told, faults>>

Batch == [id : Nat, doc : Document]

TypeOK ==
  /\ mutations \subseteq Batch
  /\ running \in BOOLEAN
  /\ nextBatchId \in Nat
  /\ callbacks \subseteq Batch
  /\ pipeline \in Seq(Batch) /\ Len(pipeline) <= MaxPendingWrites
  /\ stream \in {"initial", "starting", "open", "error", "backoff"}
  /\ handshake \in BOOLEAN
  /\ idleTimer \in BOOLEAN
  /\ requests \in Seq(Document \cup {Hello})
  /\ responses \in Seq(Document \cup {Hello})
  /\ verdict \in {"none", "transient", "permanent"}
  /\ writeFailed \in BOOLEAN
  /\ adrift \subseteq Seq(Document) \ {<<>>}
  /\ server \subseteq Document
  /\ told \in [Document -> {"unwritten", "waiting", "written", "failed"}]
  /\ faults \in 0 .. MaxFaults

Init ==
  /\ mutations = {} /\ nextBatchId = 1
  /\ running = TRUE /\ callbacks = {} /\ pipeline = <<>>
  /\ stream = "initial" /\ handshake = FALSE /\ idleTimer = FALSE
  /\ requests = <<>> /\ responses = <<>> /\ verdict = "none"
  /\ writeFailed = FALSE /\ adrift = {}
  /\ server = {}
  /\ told = [d \in Document |-> "unwritten"]
  /\ faults = 0

-----------------------------------------------------------------------------
\* The mutation queue

\* LevelDB keeps one batch under an identifier.
Put(batches, batch) == {b \in batches : b.id # batch.id} \cup {batch}
Remove(batches, batch) == {b \in batches : b.id # batch.id}

\* LoadNextBatchIdFromDb: one past the highest identifier left on disk.
LoadNextBatchId(batches) ==
  IF batches = {} THEN 1
  ELSE (CHOOSE b \in batches : \A c \in batches : c.id <= b.id).id + 1

\* The batches by ascending identifier: LevelDB iterates over its keys in order.
Orders(batches) ==
  {s \in [1 .. Cardinality(batches) -> batches] :
     \A i, j \in DOMAIN s : i < j => s[i].id < s[j].id}

InOrder(batches) == CHOOSE s \in Orders(batches) : TRUE

Docs(batches) == [i \in DOMAIN batches |-> batches[i].doc]

-----------------------------------------------------------------------------
\* RemoteStore::FillWritePipeline

kBatchIdUnknown == -1

LastRetrieved(p) == IF p = <<>> THEN kBatchIdUnknown ELSE p[Len(p)].id

\* Fault: the pipeline takes one batch too many.
NextBatchesAndOne(batches, p) ==
  LET later == {b \in batches : b.id > LastRetrieved(p)}
      room == MaxPendingWrites - Len(p)
  IN {b \in later : Cardinality({c \in later : c.id <= b.id}) <= room + 1}

\* GetNextMutationBatch until the pipeline is full or the queue is exhausted.
NextBatches(batches, p) ==
  LET later == {b \in batches : b.id > LastRetrieved(p)}
      room == MaxPendingWrites - Len(p)
  IN {b \in later : Cardinality({c \in later : c.id <= b.id}) <= room}

Started(s) == s \in {"starting", "open", "backoff"}

\* Stream::Start
Start(s) == IF s = "error" THEN "backoff" ELSE "starting"

\* Fault: batches are sent as soon as the stream is open.
SendsWithoutHandshake(s, greeted) == s = "open"

Sends(s, greeted) == s = "open" /\ greeted

\* Fault: the idle timer keeps running when a batch is written.
IdleTimerKept(new, s, greeted) ==
  s = "open" /\ (pipeline' = <<>> \/ idleTimer)

\* MarkIdle sets the timer when nothing is left, Write cancels it, and so does
\* closing the stream.
IdleTimerSet(new, s, greeted) ==
  /\ s = "open"
  /\ IF pipeline' = <<>> THEN TRUE
     ELSE idleTimer /\ ~(new # <<>> /\ Sends(s, greeted))

\* batches, p, s and greeted are the queue, the pipeline and the stream as the
\* handler that calls it leaves them; sent are the requests on that stream.
\* There is exactly one order of the new batches.
FillWritePipeline(batches, p, s, greeted, sent) ==
  \E new \in Orders(NextBatches(batches, p)) :
    /\ pipeline' = p \o new
    /\ requests' = IF Sends(s, greeted) THEN sent \o Docs(new) ELSE sent
    /\ idleTimer' = IdleTimerSet(new, s, greeted)
    /\ stream' = IF pipeline' # <<>> /\ ~Started(s) THEN Start(s) ELSE s

-----------------------------------------------------------------------------
\* SyncEngine

\* Fault: the queue is written and the pipeline is left for the next result.
SetDataOnly(doc) ==
  LET batch == [id |-> nextBatchId, doc |-> doc]
  IN /\ running
     /\ told[doc] = "unwritten"
     /\ mutations' = Put(mutations, batch)
     /\ nextBatchId' = nextBatchId + 1
     /\ callbacks' = callbacks \cup {batch}
     /\ told' = [told EXCEPT ![doc] = "waiting"]
     /\ UNCHANGED <<running, pipeline, stream, handshake, idleTimer, wire, server, faults>>

\* WriteMutations: the batch is on disk before anything is sent.
SetData(doc) ==
  LET batch == [id |-> nextBatchId, doc |-> doc]
  IN /\ running
     /\ told[doc] = "unwritten"
     /\ mutations' = Put(mutations, batch)
     /\ nextBatchId' = nextBatchId + 1
     /\ callbacks' = callbacks \cup {batch}
     /\ told' = [told EXCEPT ![doc] = "waiting"]
     /\ FillWritePipeline(mutations', pipeline, stream, handshake, requests)
     /\ UNCHANGED <<running, handshake, responses, verdict, writeFailed, adrift, server, faults>>

\* The callback kept under the batch's identifier runs, if there is one.
NotifyUser(batch, outcome) ==
  /\ told' = [d \in Document |->
                IF \E c \in callbacks : c.id = batch.id /\ c.doc = d
                THEN outcome ELSE told[d]]
  /\ callbacks' = {c \in callbacks : c.id # batch.id}

\* The batch goes from the front of the pipeline and from the disk, its
\* callback runs, and the pipeline is filled again.
Settle(outcome, s, greeted, sent) ==
  LET batch == Head(pipeline)
  IN /\ mutations' = Remove(mutations, batch)
     /\ NotifyUser(batch, outcome)
     /\ FillWritePipeline(mutations', Tail(pipeline), s, greeted, sent)
     /\ UNCHANGED <<nextBatchId, running, adrift, server, faults>>

-----------------------------------------------------------------------------
\* The write stream

\* The credentials have come: OnStreamStart, OnWriteStreamOpen, WriteHandshake.
StreamOpens ==
  /\ stream = "starting"
  /\ stream' = "open"
  /\ requests' = <<Hello>>
  /\ idleTimer' = FALSE
  /\ UNCHANGED <<disk, running, callbacks, pipeline, handshake, responses, verdict,
                 writeFailed, adrift, server, told, faults>>

\* The delay is over: Start, from the initial state.
BackoffElapses ==
  /\ stream = "backoff"
  /\ stream' = "starting"
  /\ UNCHANGED <<disk, running, callbacks, pipeline, handshake, idleTimer, wire,
                 server, told, faults>>

\* OnWriteStreamHandshakeComplete: the whole pipeline is sent.
ReadHandshake ==
  /\ stream = "open" /\ ~handshake
  /\ responses # <<>>
  /\ responses' = Tail(responses)
  /\ handshake' = TRUE
  /\ requests' = requests \o Docs(pipeline)
  /\ idleTimer' = (idleTimer /\ pipeline = <<>>)
  /\ UNCHANGED <<disk, running, callbacks, pipeline, stream, verdict, writeFailed,
                 adrift, server, told, faults>>

\* OnWriteStreamMutationResult: the result is taken for the front of the
\* pipeline, which must not be empty (remote_store.cc asserts it).  The next read
\* is issued first; a write that failed in the meantime is handled before it.
ReadMutationResult ==
  /\ stream = "open" /\ handshake
  /\ responses # <<>> /\ pipeline # <<>>
  /\ responses' = Tail(responses)
  /\ writeFailed' = (verdict # "none" /\ requests # <<>>)
  /\ Settle("written", stream, handshake, requests)
  /\ UNCHANGED <<handshake, verdict>>

\* The stream object is gone: Close resets what belongs to it.
StreamGone ==
  /\ handshake' = FALSE
  /\ responses' = <<>> /\ verdict' = "none" /\ writeFailed' = FALSE

\* The server's status is known when all results are read, or before that, when
\* a failed write comes first: the reads under way are then cancelled.
StatusArrives ==
  /\ stream = "open" /\ verdict # "none"
  /\ responses = <<>> \/ writeFailed

\* Fault: the first write is to blame for any error.
BlamesFirstAlways == handshake /\ pipeline # <<>>

\* IsPermanentWriteError, after the handshake: the first write is to blame.
BlamesFirst == handshake /\ pipeline # <<>> /\ verdict = "permanent"

\* HandleWriteError: no backoff, and the batch is rejected.
StreamFailsRejecting ==
  /\ StatusArrives /\ BlamesFirst
  /\ Settle("failed", "initial", FALSE, <<>>)
  /\ StreamGone

\* OnWriteStreamClose otherwise: tried again if anything is left to send.
StreamFailsRetrying ==
  /\ StatusArrives /\ ~BlamesFirst
  /\ stream' = IF pipeline # <<>> THEN Start("error") ELSE "error"
  /\ requests' = <<>> /\ idleTimer' = FALSE
  /\ StreamGone
  /\ UNCHANGED <<disk, running, callbacks, pipeline, adrift, server, told, faults>>

\* The stream has been idle for kIdleTimeout: Stop.
IdleTimeout ==
  /\ stream = "open" /\ idleTimer
  /\ stream' = "initial" /\ requests' = <<>> /\ idleTimer' = FALSE
  /\ StreamGone
  /\ UNCHANGED <<disk, running, callbacks, pipeline, adrift, server, told, faults>>

\* What was sent on a stream before it broke, or before the client gave it up,
\* may still reach the server, whatever becomes of the streams after it.
GivesUpStream ==
  adrift' = adrift \cup
            {s \in {requests} \ {<<>>} :
               verdict = "none" /\ \A i \in DOMAIN s : s[i] # Hello}

Fault == faults < MaxFaults /\ faults' = faults + 1

\* RestartNetwork, because the system reports a network.
NetworkChanges ==
  /\ running /\ Fault
  /\ GivesUpStream /\ StreamGone
  /\ FillWritePipeline(mutations, <<>>, "initial", FALSE, <<>>)
  /\ UNCHANGED <<disk, running, callbacks, server, told>>

-----------------------------------------------------------------------------
\* The process

\* Fault: the queue is in memory only.
CrashTakesQueue ==
  /\ running /\ Fault
  /\ running' = FALSE /\ callbacks' = {} /\ pipeline' = <<>>
  /\ stream' = "initial" /\ idleTimer' = FALSE
  /\ requests' = <<>> /\ GivesUpStream /\ StreamGone
  /\ mutations' = {}
  /\ UNCHANGED <<nextBatchId, server, told>>

Crash ==
  /\ running /\ Fault
  /\ running' = FALSE /\ callbacks' = {} /\ pipeline' = <<>>
  /\ stream' = "initial" /\ idleTimer' = FALSE
  /\ requests' = <<>> /\ GivesUpStream /\ StreamGone
  /\ UNCHANGED <<disk, server, told>>

\* LocalStore::Start, RemoteStore::Start.
Launch ==
  /\ ~running
  /\ running' = TRUE
  /\ nextBatchId' = LoadNextBatchId(mutations)
  /\ FillWritePipeline(mutations, <<>>, "initial", FALSE, <<>>)
  /\ UNCHANGED <<mutations, callbacks, handshake, responses, verdict, writeFailed,
                 adrift, server, told, faults>>

-----------------------------------------------------------------------------
\* The server and the network

ServerAnswersHandshake ==
  /\ verdict = "none" /\ requests # <<>> /\ Head(requests) = Hello
  /\ requests' = Tail(requests)
  /\ responses' = Append(responses, Hello)
  /\ UNCHANGED <<disk, client, verdict, writeFailed, adrift, server, told, faults>>

ServerCommits ==
  /\ verdict = "none" /\ requests # <<>> /\ Head(requests) \in Document \ Forbidden
  /\ server' = server \cup {Head(requests)}
  /\ requests' = Tail(requests)
  /\ responses' = Append(responses, Head(requests))
  /\ UNCHANGED <<disk, client, verdict, writeFailed, adrift, told, faults>>

\* A refused write ends the stream, and what follows it is not looked at.
ServerRefuses ==
  /\ verdict = "none" /\ requests # <<>> /\ Head(requests) \in Forbidden
  /\ verdict' = "permanent" /\ requests' = <<>>
  /\ UNCHANGED <<disk, client, responses, writeFailed, adrift, server, told, faults>>

\* The stream breaks (connection, overload, ABORTED): results may be lost on
\* their way, and requests may still arrive.
StreamBreaks ==
  /\ stream = "open" /\ verdict = "none" /\ Fault
  /\ verdict' = "transient" /\ requests' = <<>> /\ GivesUpStream
  /\ \E n \in 0 .. Len(responses) : responses' = SubSeq(responses, 1, n)
  /\ UNCHANGED <<disk, client, writeFailed, server, told>>

LateRequestArrives ==
  /\ \E s \in adrift :
       \/ /\ Head(s) \in Forbidden
          /\ adrift' = adrift \ {s}
          /\ UNCHANGED server
       \/ /\ Head(s) \notin Forbidden
          /\ adrift' = (adrift \ {s}) \cup ({Tail(s)} \ {<<>>})
          /\ server' = server \cup {Head(s)}
  /\ UNCHANGED <<disk, client, requests, responses, verdict, writeFailed, told, faults>>

-----------------------------------------------------------------------------
ClientSteps ==
  \/ StreamOpens \/ BackoffElapses \/ ReadHandshake \/ ReadMutationResult
  \/ StreamFailsRejecting \/ StreamFailsRetrying \/ Launch
ServerSteps == ServerAnswersHandshake \/ ServerCommits \/ ServerRefuses

Next ==
  \/ \E doc \in Document : SetData(doc)
  \/ ClientSteps \/ ServerSteps
  \/ IdleTimeout \/ NetworkChanges \/ Crash \/ StreamBreaks \/ LateRequestArrives

\* The worker queue runs what is ready, backoff ends, the server answers, and
\* the app is launched again.
Fairness == WF_vars(ClientSteps) /\ WF_vars(ServerSteps)

Spec == Init /\ [][Next]_vars /\ Fairness

-----------------------------------------------------------------------------
\* A result carries no identifier: the results on their way and the requests
\* not handled yet must be, in this order, the pipeline, or the next result
\* is taken for another write's (OnWriteStreamMutationResult pops the front).
ResultsMatchPipeline ==
  handshake /\ verdict = "none" => responses \o requests = Docs(pipeline)

\* A stream is stopped for being idle only when there is nothing left to send
\* (OnWriteStreamClose asserts that it was not stopped while still needed).
IdleMeansEmpty == idleTimer => pipeline = <<>> /\ mutations = {}

\* The completion of setData runs without an error only for a document that
\* is on the server, through crashes, lost results and repeated requests.
WrittenIsCommitted == \A d \in Document : told[d] = "written" => d \in server

\* Every write leaves the queue in the end, committed or refused, once the
\* network fails no more.
EveryWriteSettles ==
  \A d \in Document :
    (\E b \in mutations : b.doc = d) ~> (\A b \in mutations : b.doc # d)

\* To the modules that use Backend the pipeline is a queue of undecided writes
\* the server takes from the front, one at a time, each committed or rejected
\* once.  A write is decided when it is committed, or when the client rejects
\* it; what repeats it is a stutter.
Undecided == Docs(InOrder({b \in mutations : b.doc \notin server}))
Rejected ==
  {d \in Document : told[d] # "unwritten" /\ d \notin server
                    /\ \A b \in mutations : b.doc # d}

Device == {"this"}
B == INSTANCE Backend WITH
       Devices <- Device,
       blobs <- {},
       outbox <- [d \in Device |-> Undecided],
       rejected <- Rejected,
       cache <- [d \in Device |-> server]

BackendStep ==
  \/ /\ \E doc \in Document : B!SetData("this", doc)
     /\ UNCHANGED <<server, Rejected>>
  \/ B!ServerCommits("this")
  \/ B!ServerRejects("this")

ImplementsBackend == B!BackendInit /\ [][BackendStep]_<<Undecided, server, Rejected>>

\* A write whose completion reports an error is decided all the same: the server
\* has refused it, or has committed it and the result was lost when a later write
\* was refused (HandleWriteError takes the front of the pipeline for the problem).
\* None is given up that the server has not seen.
FailedIsDecided ==
  \A d \in Document : told[d] = "failed" => d \in Forbidden \/ d \in server

=============================================================================
