----------------------------- MODULE SyncServer -----------------------------
(***************************************************************************)
(* SyncService.processPushBatch: the items of a batch are looked up and    *)
(* recorded one after the other, each with its own answer; the batch is    *)
(* answered as a whole.  Two requests may carry the same item, an answer   *)
(* may be lost, and the process may restart between any two items.         *)
(***************************************************************************)
EXTENDS Integers, Sequences, SequencesExt

CONSTANTS Pushes,     \* requests to this service in flight at a time
          SyncIds,    \* sync ids of items
          MaxBatch,   \* bound: items of a batch
          MaxRetries  \* bound: retryCount

ASSUME BatchAssumption == MaxBatch \in Nat /\ MaxRetries \in Nat

VARIABLES recorded,  \* the sync ids that have a SyncQueue row; its status is APPLIED
          retries,   \* SyncQueue.retryCount
          push,      \* per request in flight, the handler's local variables
          told       \* history: the ids the terminals were told are APPLIED

syncVars == <<recorded, retries, push, told>>

\* Of the results, the ids with status APPLIED; the other items of the batch FAILED.
PushIdle == [phase |-> "idle", items |-> <<>>, applied |-> {}]

PushJob == [phase: {"idle", "find", "upsert"}, items: BoundedSeq(SyncIds, MaxBatch),
            applied: SUBSET SyncIds]

SyncTypeOK ==
  /\ recorded \subseteq SyncIds
  /\ retries \in [SyncIds -> 0 .. MaxRetries]
  /\ push \in [Pushes -> PushJob]
  /\ told \subseteq SyncIds

SyncInit ==
  /\ recorded = {}
  /\ retries = [id \in SyncIds |-> 0]
  /\ push = [p \in Pushes |-> PushIdle]
  /\ told = {}

-----------------------------------------------------------------------------
\* The terminals post what they have not seen confirmed, also twice in one batch.
PushQueue(p, items) ==
  /\ push[p] = PushIdle
  /\ push' = [push EXCEPT ![p] = [PushIdle EXCEPT !.phase = "find", !.items = items]]
  /\ UNCHANGED <<recorded, retries, told>>

Current(p) == Head(push[p].items)

\* The item at the head is answered, and the loop goes on.
Answer(job, status) ==
  [job EXCEPT !.phase = "find", !.items = Tail(@),
              !.applied = IF status = "APPLIED" THEN @ \cup {Head(job.items)} ELSE @]

\* Mutant: any row will do, also one that was never written.
AlwaysRecorded(id) == TRUE

AlreadyProcessed(id) == id \in recorded

FindUnique(p) ==
  /\ push[p].phase = "find" /\ push[p].items # <<>>
  /\ push' = [push EXCEPT ![p] = IF AlreadyProcessed(Current(p)) THEN Answer(@, "APPLIED")
                                                               ELSE [@ EXCEPT !.phase = "upsert"]]
  /\ UNCHANGED <<recorded, retries, told>>

\* A row another request has written since is updated.
RecordItem(p) ==
  LET id == Current(p) IN
  /\ push[p].phase = "upsert"
  /\ recorded' = recorded \cup {id}
  /\ IF id \in recorded THEN /\ retries[id] < MaxRetries
                             /\ retries' = [retries EXCEPT ![id] = @ + 1]
                        ELSE UNCHANGED retries
  /\ push' = [push EXCEPT ![p] = Answer(@, "APPLIED")]
  /\ UNCHANGED told

CaughtAs == "FAILED"

\* catch: either query fails.
ItemFails(p) ==
  /\ push[p].phase \in {"find", "upsert"} /\ push[p].items # <<>>
  /\ push' = [push EXCEPT ![p] = Answer(@, CaughtAs)]
  /\ UNCHANGED <<recorded, retries, told>>

\* All items are answered in one response.
Respond(p) ==
  /\ push[p].phase = "find" /\ push[p].items = <<>>
  /\ told' = told \cup push[p].applied
  /\ push' = [push EXCEPT ![p] = PushIdle]
  /\ UNCHANGED <<recorded, retries>>

\* The connection is lost, or the process restarts: nobody gets an answer.
Dropped(p) ==
  /\ push[p] # PushIdle
  /\ push' = [push EXCEPT ![p] = PushIdle]
  /\ UNCHANGED <<recorded, retries, told>>

SyncNext(p) ==
  \/ \E items \in BoundedSeq(SyncIds, MaxBatch) : PushQueue(p, items)
  \/ FindUnique(p)
  \/ RecordItem(p)
  \/ ItemFails(p)
  \/ Respond(p)
  \/ Dropped(p)

-----------------------------------------------------------------------------
\* What a terminal was told is APPLIED has its row, whatever failed beside it in the batch,
\* was posted twice, or crossed another request (sync.service.ts:26-52).  The converse does
\* not hold: a row may be there although its answer was lost.
AnsweredIsRecorded == told \subseteq recorded
=============================================================================
