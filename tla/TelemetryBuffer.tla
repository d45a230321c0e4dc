--------------------------- MODULE TelemetryBuffer ---------------------------
(* The agent's offline telemetry buffer (agent/telemetry_buffer.py) and the
   endpoint its flush posts to (backend/app/api/telemetry.py,
   backend/app/services/telemetry_service.py).

   LocalTelemetryBuffer keeps a JSON list in one file and takes its lock around
   every read and write of it, so enqueue, peek_batch and remove_batch are
   atomic; flush_offline_telemetry holds the lock for none of its loop, so
   collectors may enqueue between its peek, its POST and its remove.  The
   events are numbered in the order they are enqueued.                       *)
EXTENDS Naturals, Sequences, FiniteSets

CONSTANTS Flushers,     \* threads running flush_offline_telemetry
          MaxEvents,    \* bound: events the collectors produce
          Capacity,     \* MAX_BUFFERED_ITEMS, 5000 in the code
          BatchSize,    \* 100 by default
          Stamped,      \* events that carry an event_id
          Invalid,      \* events the envelope schema refuses
          Routed,       \* events whose category's service commits on its own
          MaxUnanswered, MaxCrashes                   \* bounds

Events == 1..MaxEvents

ASSUME BufferAssumption ==
    /\ MaxEvents \in Nat /\ MaxUnanswered \in Nat /\ MaxCrashes \in Nat
    /\ Capacity \in Nat \ {0} /\ BatchSize \in Nat \ {0}
    /\ Stamped \subseteq Events /\ Invalid \subseteq Events /\ Routed \subseteq Events

VARIABLES
    items,      \* the list in the buffer file
    produced,   \* events enqueued so far
    shed,       \* events the capacity rule dropped: "FIFO drop oldest"
    torn,       \* events a crash inside a write of the file lost
    stored,     \* rows of telemetry_logs made from each event
    step, batch,  \* each flusher: where it is, the batch it peeked
    unanswered, crashes

bufferVars == <<items, produced, shed, torn, stored, step, batch, unanswered, crashes>>

BufferInit ==
    /\ items = <<>>
    /\ produced = 0
    /\ shed = {} /\ torn = {}
    /\ stored = [e \in Events |-> 0]
    /\ step = [f \in Flushers |-> "idle"]
    /\ batch = [f \in Flushers |-> <<>>]
    /\ unanswered = 0 /\ crashes = 0

-----------------------------------------------------------------------------
(* LocalTelemetryBuffer                                                      *)

Buffered == {items[i] : i \in DOMAIN items}

Full == Len(items) >= Capacity

Enqueue ==
    /\ produced < MaxEvents
    /\ produced' = produced + 1
    /\ items' = Append(IF Full THEN Tail(items) ELSE items, produced + 1)
    /\ shed' = IF Full THEN shed \cup {Head(items)} ELSE shed
    /\ UNCHANGED <<torn, stored, step, batch, unanswered, crashes>>

\* Mutant: the batch is cut from the wrong end
LastOf(s, n) == SubSeq(s, IF n < Len(s) THEN Len(s) - n + 1 ELSE 1, Len(s))

FirstOf(s, n) == SubSeq(s, 1, IF n < Len(s) THEN n ELSE Len(s))
Without(s, n) == SubSeq(s, n + 1, Len(s))

\* Mutant: only full batches are sent
PeekFullBatch(f) ==
    /\ step[f] \in {"idle", "loop"}
    /\ Len(items) >= BatchSize
    /\ batch' = [batch EXCEPT ![f] = FirstOf(items, BatchSize)]
    /\ step' = [step EXCEPT ![f] = "post"]
    /\ UNCHANGED <<items, produced, shed, torn, stored, unanswered, crashes>>

\* count() > 0 and peek_batch; an empty buffer ends the flush.
Peek(f) ==
    /\ step[f] \in {"idle", "loop"}
    /\ items # <<>>
    /\ batch' = [batch EXCEPT ![f] = FirstOf(items, BatchSize)]
    /\ step' = [step EXCEPT ![f] = "post"]
    /\ UNCHANGED <<items, produced, shed, torn, stored, unanswered, crashes>>

Drained(f) ==
    /\ step[f] = "loop"
    /\ items = <<>>
    /\ step' = [step EXCEPT ![f] = "idle"]
    /\ UNCHANGED <<items, produced, shed, torn, stored, batch, unanswered, crashes>>

-----------------------------------------------------------------------------
(* POST /telemetry/ingest.  A batch with an event the schema refuses is
   answered 422 before anything is stored.  event_id is the primary key of
   telemetry_logs: an event with an id of its own that is stored already makes
   the commit fail, and all that stays is what a routed service committed on
   the way.  An event without one gets a fresh id at every delivery.         *)

Conflict(b, i) == b[i] \in Stamped /\ stored[b[i]] > 0

Clean(b) == \A i \in DOMAIN b : ~ Conflict(b, i)
Valid(b) == \A i \in DOMAIN b : b[i] \notin Invalid

\* Positions that are committed when the batch is ingested
Committed(b) ==
    {i \in DOMAIN b :
        \/ Clean(b)
        \/ \E k \in i..Len(b) : b[k] \in Routed /\ \A j \in 1..k : ~ Conflict(b, j)}

Ingest(b) ==
    stored' = IF Valid(b)
              THEN [e \in Events |-> IF \E i \in Committed(b) : b[i] = e
                                     THEN stored[e] + 1 ELSE stored[e]]
              ELSE stored

\* Mutant: the batch is not removed after it was accepted
AcceptedAndKept(f) ==
    /\ step[f] = "post"
    /\ Valid(batch[f]) /\ Clean(batch[f])
    /\ Ingest(batch[f])
    /\ step' = [step EXCEPT ![f] = "idle"]
    /\ UNCHANGED <<items, produced, shed, torn, batch, unanswered, crashes>>

\* 201: the flusher goes on to remove the batch.
Accepted(f) ==
    /\ step[f] = "post"
    /\ Valid(batch[f]) /\ Clean(batch[f])
    /\ Ingest(batch[f])
    /\ step' = [step EXCEPT ![f] = "remove"]
    /\ UNCHANGED <<items, produced, shed, torn, batch, unanswered, crashes>>

\* 422 or 500: the flush halts.
Refused(f) ==
    /\ step[f] = "post"
    /\ ~ (Valid(batch[f]) /\ Clean(batch[f]))
    /\ Ingest(batch[f])
    /\ step' = [step EXCEPT ![f] = "idle"]
    /\ UNCHANGED <<items, produced, shed, torn, batch, unanswered, crashes>>

\* The request, or the answer to a request that was served, is lost (also a
\* timeout, a 429 or a 502): the flush halts.
Lost(f) ==
    /\ step[f] = "post"
    /\ unanswered < MaxUnanswered
    /\ Ingest(batch[f]) \/ UNCHANGED stored
    /\ step' = [step EXCEPT ![f] = "idle"]
    /\ unanswered' = unanswered + 1
    /\ UNCHANGED <<items, produced, shed, torn, batch, crashes>>

\* remove_batch(len(batch)): drops that many items from the head, whatever
\* they are by now.
RemoveBatch(f) ==
    /\ step[f] = "remove"
    /\ items' = Without(items, Len(batch[f]))
    /\ step' = [step EXCEPT ![f] = "loop"]
    /\ UNCHANGED <<produced, shed, torn, stored, batch, unanswered, crashes>>

\* The agent dies; `inWrite`: while the file is open for writing, truncated,
\* so that the next read finds no JSON and starts from an empty list.
AgentDies(inWrite) ==
    /\ crashes < MaxCrashes
    /\ crashes' = crashes + 1
    /\ items' = IF inWrite THEN <<>> ELSE items
    /\ torn' = IF inWrite THEN torn \cup Buffered ELSE torn
    /\ step' = [f \in Flushers |-> "idle"]
    /\ batch' = [f \in Flushers |-> <<>>]
    /\ UNCHANGED <<produced, shed, stored, unanswered>>

Flush(f) == Peek(f) \/ Drained(f) \/ Accepted(f) \/ Refused(f) \/ RemoveBatch(f)

BufferNext ==
    \/ Enqueue
    \/ \E f \in Flushers : Flush(f) \/ Lost(f)
    \/ \E inWrite \in BOOLEAN : AgentDies(inWrite)

BufferSpec == BufferInit /\ [][BufferNext]_bufferVars

-----------------------------------------------------------------------------

OneFlusher == \A f, g \in Flushers : f = g

\* "In batch order": until the buffer overflows, an event is stored only after
\* every older one, and none is lost, that a crash did not tear.
StoredInOrder ==
    shed = {} /\ OneFlusher =>
        /\ \A e \in 1..produced : e \in Buffered \/ stored[e] > 0 \/ e \in torn
        /\ \A e, d \in Events : stored[e] > 0 /\ d < e => stored[d] > 0 \/ d \in torn

\* An event without an id of its own, in a batch with a routed event (itself or
\* a later one) and after that one with an id: when that id is stored already,
\* the batch is refused at every flush, and the event committed at every one.
Recommitted(e) ==
    \E k, s \in Events : /\ e <= k /\ k < s /\ s < e + BatchSize
                         /\ k \in Routed /\ s \in Stamped

\* An event with an id of its own is stored once, however many flushes send it;
\* another one, when they do not overlap and the batches do not have the form
\* above, again only for a lost answer or for a crash in between.
DuplicatesExplained ==
    \A e \in Events :
        IF e \in Stamped THEN stored[e] <= 1
        ELSE OneFlusher /\ ~ Recommitted(e) => stored[e] <= 1 + unanswered + crashes

\* What the backend refuses at every flush
Blocks(e) == e \in Buffered /\ (e \in Invalid \/ (e \in Stamped /\ stored[e] > 0))

\* "Flushes buffered items automatically when backend connectivity is
\* restored": an event leaves the buffer, unless an event that the backend will
\* always refuse is in it.
EventLeaves ==
    \A e \in Events : e \in Buffered ~> (e \notin Buffered \/ \E b \in Events : Blocks(b))

=============================================================================
