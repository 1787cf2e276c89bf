---------------------------- MODULE EvidenceStream ----------------------------
(***************************************************************************)
(* Events and the evidence made of them: event_stream.py appends events to *)
(* the hash chain of an asset in Postgres and to a Redis stream, and       *)
(* production_reviews.py consumes the stream, or the table when Redis is   *)
(* unavailable, and creates evidence records.                              *)
(*                                                                         *)
(* A session publishes the events of a workflow run and consumes events in *)
(* the same transaction; a cancel request publishes only, a sweep (the     *)
(* worker's tick, a page that lists evidence) consumes only.  One action is *)
(* one statement of such a transaction, or one Redis command.  Rows of an  *)
(* open transaction are visible to its own session only, what it wrote to  *)
(* Redis to everybody at once.                                             *)
(***************************************************************************)
EXTENDS HashChain

CONSTANTS
    Sessions,       \* database sessions, one per request being served
    Nobody,         \* no session, or no run
    Runs,           \* workflow runs of the one supervised asset
    Payloads,       \* what events say, as far as the hashes tell it apart
    MaxEvents,      \* bound on events
    Uuid,           \* Uuid[n]: how the random id of event n compares
    Limit,          \* how many events one consumption reads
    MaxPublishes,   \* bound on publishing transactions
    MaxCrashes,     \* bound on sessions lost in the middle of their work
    MaxOutages      \* bound on Redis commands that fail

Ids == 1..MaxEvents

ASSUME EvidenceAssumption ==
    /\ MaxEvents \in Nat /\ Limit \in Nat \ {0} /\ MaxPublishes \in Nat
    /\ MaxCrashes \in Nat /\ MaxOutages \in Nat
    /\ Uuid \in [Ids -> Nat]
    /\ \A n, m \in Ids : Uuid[n] = Uuid[m] => n = m
    /\ Nobody \notin Sessions /\ Nobody \notin Runs
    /\ "committed" \notin Sessions /\ Nobody # "committed"

VARIABLES
    event,        \* event[n]: the agent_event row of event n
    stream,       \* the entries of the Redis stream; XADD adds them in id order
    delivered,    \* entries the consumer group has handed out
    acked,        \* entries it has been told are done
    evidence,     \* the evidence_record rows
    checkpoint,   \* the evidence_checkpoint row and whose insert it is
    sess,         \* sess[s]: the transaction of session s
    appended, publishes, crashes, outages,   \* how much of each bound is used
    (* history, read by the properties and for fresh ids only *)
    overlapped,   \* two publishing transactions were open at once
    missed,       \* entries handed to a session that could not see their rows
    saves         \* how many evidence records were saved

chain == <<event, appended, publishes, overlapped>>
redis == <<stream, delivered, acked>>
ledger == <<evidence, saves>>
vars == <<chain, redis, ledger, checkpoint, sess, crashes, outages, missed>>

-----------------------------------------------------------------------------
(* Rows and sessions *)

\* owner: the session that inserted the row until its transaction commits,
\* Nobody before that and after a rollback.
\* ts: now() when the row's transaction started.
EventRow == [owner : Sessions \cup {Nobody, "committed"}, run : Runs \cup {Nobody},
             ts : Nat, prev : Seq(Payloads), self : Seq(Payloads)]
NoEvent == [owner |-> Nobody, run |-> Nobody, ts |-> 0, prev |-> ZeroHash, self |-> ZeroHash]

\* The last event consumed; 0 stands for null.
Position == [ts : Nat, id : Nat]
Start == [ts |-> 0, id |-> 0]

EvidenceRow == [id : Nat, run : Runs, events : Seq(Ids)]

\* run: the run a publishing session publishes; Nobody for a sweep.
Session == [pc : {"idle", "publish", "read", "lookup", "insert", "match",
                  "drop", "materialize", "save", "ack"},
            run : Runs \cup {Nobody}, ts : Nat, source : {"stream", "table"},
            batch : SUBSET Ids, found : SUBSET Ids, loaded : Position,
            fresh : SUBSET [run : Runs, events : Seq(Ids)]]
Idle == [pc |-> "idle", run |-> Nobody, ts |-> 0, source |-> "stream",
         batch |-> {}, found |-> {}, loaded |-> Start, fresh |-> {}]

TypeOK ==
    /\ event \in [Ids -> EventRow]
    /\ stream \subseteq Ids /\ delivered \subseteq stream /\ acked \subseteq delivered
    /\ evidence \subseteq EvidenceRow
    /\ checkpoint \in [owner : Sessions \cup {Nobody, "committed"}, at : Position]
    /\ sess \in [Sessions -> Session]
    /\ appended \in 0..MaxEvents /\ publishes \in Nat
    /\ crashes \in Nat /\ outages \in Nat
    /\ overlapped \in BOOLEAN /\ missed \subseteq Ids /\ saves \in Nat

Init ==
    /\ event = [n \in Ids |-> NoEvent]
    /\ stream = {} /\ delivered = {} /\ acked = {}
    /\ evidence = {}
    /\ checkpoint = [owner |-> Nobody, at |-> Start]
    /\ sess = [s \in Sessions |-> Idle]
    /\ appended = 0 /\ publishes = 0 /\ crashes = 0 /\ outages = 0
    /\ overlapped = FALSE /\ missed = {} /\ saves = 0

Set(s, me) == sess' = [sess EXCEPT ![s] = me]

Committed == {n \in Ids : event[n].owner = "committed"}

\* Read committed: a statement sees committed rows and those of its own
\* transaction.  Faulty variant: dirty reads.
Flushed(s) == {n \in Ids : event[n].owner # Nobody}
Visible(s) == {n \in Ids : event[n].owner \in {s, "committed"}}

CommitEvents(s) ==
    event' = [n \in Ids |-> IF event[n].owner = s THEN [event[n] EXCEPT !.owner = "committed"]
                            ELSE event[n]]

\* A session's transaction is rolled back and its request ends.
Rollback(s) ==
    /\ event' = [n \in Ids |-> IF event[n].owner = s THEN NoEvent ELSE event[n]]
    /\ checkpoint' = IF checkpoint.owner = s THEN [owner |-> Nobody, at |-> Start] ELSE checkpoint
    /\ Set(s, Idle)
    /\ UNCHANGED <<appended, publishes, overlapped>>

\* Its transaction is committed with nothing consumed and its request ends.
Commit(s) ==
    /\ CommitEvents(s)
    /\ checkpoint' = IF checkpoint.owner = s THEN [checkpoint EXCEPT !.owner = "committed"]
                     ELSE checkpoint
    /\ Set(s, Idle)
    /\ UNCHANGED <<appended, publishes, overlapped>>

\* A consumption that found nothing: whoever published goes on to commit, a
\* sweep closes its session.
Return(s) == IF sess[s].run = Nobody THEN Rollback(s) ELSE Commit(s)

Outage == outages < MaxOutages /\ outages' = outages + 1

-----------------------------------------------------------------------------
(* Publishing *)

\* The transaction starts when the finalized run is read again.
StartPublish(s, r) ==
    /\ sess[s].pc = "idle" /\ publishes < MaxPublishes /\ appended < MaxEvents
    /\ publishes' = publishes + 1
    /\ Set(s, [Idle EXCEPT !.pc = "publish", !.run = r, !.ts = publishes + 1])
    /\ overlapped' = (overlapped \/ \E t \in Sessions : sess[t].run # Nobody)
    /\ UNCHANGED <<event, appended, redis, ledger, checkpoint, crashes, outages, missed>>

\* append_persisted_event: chain the row to a tail, flush it, then XADD it
\* whether or not the transaction will commit; a failing XADD is only a warning.
AppendEvent(s) ==
    /\ sess[s].pc = "publish" /\ appended < MaxEvents
    /\ appended' = appended + 1
    /\ \E payload \in Payloads, prev \in TailHashes(event, Visible(s)) :
          event' = [event EXCEPT ![appended + 1] =
                       [owner |-> s, run |-> sess[s].run, ts |-> sess[s].ts,
                        prev |-> prev, self |-> SelfHash(prev, payload)]]
    /\ \/ stream' = stream \cup {appended + 1} /\ UNCHANGED outages
       \/ Outage /\ UNCHANGED stream
    /\ UNCHANGED <<publishes, overlapped, delivered, acked, ledger, checkpoint, sess, crashes, missed>>

Own(s) == {n \in Ids : event[n].owner = s}

\* A cancel request publishes one event and commits.
CommitCancel(s) ==
    /\ sess[s].pc = "publish" /\ Cardinality(Own(s)) = 1
    /\ Commit(s)
    /\ UNCHANGED <<redis, ledger, crashes, outages, missed>>

\* A run that was processed or resumed goes on to consume before it commits
\* (without an event of its own only if others used up the bound).
ConsumeOwn(s) ==
    /\ sess[s].pc = "publish" /\ (Own(s) # {} \/ appended = MaxEvents)
    /\ Set(s, [sess[s] EXCEPT !.pc = "read"])
    /\ UNCHANGED <<chain, redis, ledger, checkpoint, crashes, outages, missed>>

Sweep(s) ==
    /\ sess[s].pc = "idle"
    /\ Set(s, [Idle EXCEPT !.pc = "read"])
    /\ UNCHANGED <<chain, redis, ledger, checkpoint, crashes, outages, missed>>

-----------------------------------------------------------------------------
(* Consuming *)

\* XREADGROUP > : the next entries nobody was handed before.
NextEntries ==
    LET waiting == stream \ delivered
    IN {n \in waiting : Cardinality({m \in waiting : m < n}) < Limit}

\* Faulty variants: the group does not remember what it handed out; it moves
\* past entries it did not hand out.
TakeAgain(s) ==
    /\ sess[s].pc = "read"
    /\ Set(s, [sess[s] EXCEPT !.pc = "lookup", !.batch = NextEntries])
    /\ UNCHANGED <<chain, redis, ledger, checkpoint, crashes, outages, missed>>
TakeAndSkip(s) ==
    /\ sess[s].pc = "read"
    /\ Set(s, [sess[s] EXCEPT !.pc = "lookup", !.batch = NextEntries])
    /\ delivered' = stream
    /\ UNCHANGED <<chain, stream, acked, ledger, checkpoint, crashes, outages, missed>>
TakeEntries(s) ==
    /\ sess[s].pc = "read"
    /\ Set(s, [sess[s] EXCEPT !.pc = "lookup", !.batch = NextEntries])
    /\ delivered' = delivered \cup NextEntries
    /\ UNCHANGED <<chain, stream, acked, ledger, checkpoint, crashes, outages, missed>>

\* Any Redis error, before or after the entries were handed out, sends the
\* consumption to the table.
StreamFails(s) ==
    /\ sess[s].pc = "read" /\ Outage
    /\ Set(s, [sess[s] EXCEPT !.pc = "lookup", !.source = "table"])
    /\ delivered' \in {delivered, delivered \cup NextEntries}
    /\ UNCHANGED <<chain, stream, acked, ledger, checkpoint, crashes, missed>>

\* The checkpoint row of this consumer is read, or inserted if there is none.
LookupCheckpoint(s) ==
    /\ sess[s].pc = "lookup"
    /\ Set(s, IF checkpoint.owner = "committed"
              THEN [sess[s] EXCEPT !.pc = "match", !.loaded = checkpoint.at]
              ELSE [sess[s] EXCEPT !.pc = "insert"])
    /\ UNCHANGED <<chain, redis, ledger, checkpoint, crashes, outages, missed>>

\* Its consumer column is unique: an insert waits for another session's
\* uncommitted one ...
InsertCheckpoint(s) ==
    /\ sess[s].pc = "insert" /\ checkpoint.owner = Nobody
    /\ checkpoint' = [owner |-> s, at |-> Start]
    /\ Set(s, [sess[s] EXCEPT !.pc = "match"])
    /\ UNCHANGED <<chain, redis, ledger, crashes, outages, missed>>

\* ... and fails once that is committed: the request ends with an error.
CheckpointConflict(s) ==
    /\ sess[s].pc = "insert" /\ checkpoint.owner = "committed"
    /\ Rollback(s)
    /\ UNCHANGED <<redis, ledger, crashes, outages, missed>>

\* The order events are consumed in: the stream's, or by time and id.
Before(n, m, source) ==
    IF source = "stream" THEN n < m
    ELSE \/ event[n].ts < event[m].ts
         \/ event[n].ts = event[m].ts /\ Uuid[n] < Uuid[m]

After(n, position) ==
    \/ position.ts = 0 \/ event[n].ts > position.ts
    \/ event[n].ts = position.ts /\ Uuid[n] > Uuid[position.id]

\* The rows of the entries taken, as far as this session sees them, or the
\* first rows of the table after the checkpoint.
Match(s) ==
    LET me == sess[s]
        rows == IF me.source = "stream" THEN me.batch \cap Visible(s)
                ELSE LET later == {n \in Visible(s) : After(n, me.loaded)}
                     IN {n \in later : Cardinality({m \in later : Before(m, n, "table")}) < Limit}
    IN /\ sess[s].pc = "match"
       /\ missed' = missed \cup (me.batch \ Visible(s))
       /\ IF rows = {} /\ me.batch = {}
          THEN Return(s)
          ELSE /\ Set(s, [me EXCEPT !.pc = IF rows = {} THEN "drop" ELSE "materialize",
                                    !.found = rows])
               /\ UNCHANGED <<chain, checkpoint>>
       /\ UNCHANGED <<redis, ledger, crashes, outages>>

\* Entries none of whose rows was seen are acknowledged and forgotten; if that
\* fails, the request ends with an error.
DropEntries(s) ==
    /\ sess[s].pc = "drop"
    /\ \/ /\ acked' = acked \cup sess[s].batch
          /\ Return(s)
          /\ UNCHANGED outages
       \/ /\ Outage /\ Rollback(s)
          /\ UNCHANGED acked
    /\ UNCHANGED <<stream, delivered, ledger, crashes, missed>>

\* Events in the order they were consumed.
Listing(events, source) ==
    {q \in [1..Cardinality(events) -> events] :
        \A i, j \in DOMAIN q : i < j => Before(q[i], q[j], source)}

\* One record per run with events among those found, unless there is a record
\* of the same run and the same events already.
\* Faulty variant: the entries are acknowledged before the records are saved.
Records(me) ==
    UNION {{[run |-> r, events |-> q] :
               q \in Listing({n \in me.found : event[n].run = r}, me.source)} :
           r \in {event[n].run : n \in me.found}}
Recorded(record) ==
    \E row \in evidence : row.run = record.run /\ row.events = record.events
AckFirst(s) ==
    /\ sess[s].pc = "materialize"
    /\ Set(s, [sess[s] EXCEPT !.pc = "save",
                              !.fresh = {record \in Records(sess[s]) : ~Recorded(record)}])
    /\ acked' = acked \cup sess[s].batch
    /\ UNCHANGED <<chain, stream, delivered, ledger, checkpoint, crashes, outages, missed>>
Materialize(s) ==
    /\ sess[s].pc = "materialize"
    /\ Set(s, [sess[s] EXCEPT !.pc = "save",
                              !.fresh = {record \in Records(sess[s]) : ~Recorded(record)}])
    /\ UNCHANGED <<chain, redis, ledger, checkpoint, crashes, outages, missed>>

\* A flush writes a column only if its new value differs from the loaded one.
Flush(stored, loaded, new) == IF new = loaded THEN stored ELSE new

\* The checkpoint moves to the last event found, and one commit makes the
\* records, the checkpoint and the session's own events permanent.
Save(s) ==
    /\ sess[s].pc = "save"
    /\ LET me == sess[s]
       IN /\ evidence' = evidence \cup
                {[id |-> saves + 1, run |-> record.run, events |-> record.events] :
                    record \in me.fresh}
          /\ \E last \in me.found :
                /\ \A n \in me.found : n = last \/ Before(n, last, me.source)
                /\ checkpoint' =
                      [owner |-> "committed",
                       at |-> [ts |-> Flush(checkpoint.at.ts, me.loaded.ts, event[last].ts),
                               id |-> Flush(checkpoint.at.id, me.loaded.id, last)]]
          /\ Set(s, IF me.source = "stream" THEN [Idle EXCEPT !.pc = "ack", !.batch = me.batch]
                    ELSE Idle)
    /\ saves' = IF sess[s].fresh = {} THEN saves ELSE saves + 1
    /\ CommitEvents(s)
    /\ UNCHANGED <<appended, publishes, overlapped, redis, crashes, outages, missed>>

\* Then the entries are acknowledged; if that fails they stay pending for good.
Ack(s) ==
    /\ sess[s].pc = "ack"
    /\ \/ acked' = acked \cup sess[s].batch /\ UNCHANGED outages
       \/ Outage /\ UNCHANGED acked
    /\ Set(s, Idle)
    /\ UNCHANGED <<chain, stream, delivered, ledger, checkpoint, crashes, missed>>

-----------------------------------------------------------------------------

\* The process or its connection is lost: Postgres rolls the transaction back.
Crash(s) ==
    /\ sess[s].pc # "idle" /\ crashes < MaxCrashes
    /\ crashes' = crashes + 1
    /\ Rollback(s)
    /\ UNCHANGED <<redis, ledger, outages, missed>>

\* A session carries on with what it is doing.
Advance(s) ==
    \/ AppendEvent(s) \/ CommitCancel(s) \/ ConsumeOwn(s)
    \/ TakeEntries(s) \/ StreamFails(s)
    \/ LookupCheckpoint(s) \/ InsertCheckpoint(s) \/ CheckpointConflict(s)
    \/ Match(s) \/ DropEntries(s) \/ Materialize(s) \/ Save(s) \/ Ack(s)

Next ==
    \E s \in Sessions :
        \/ \E r \in Runs : StartPublish(s, r)
        \/ Sweep(s) \/ Advance(s) \/ Crash(s)

Spec == Init /\ [][Next]_vars

\* Sessions run on; the worker keeps asking for consumption.
Fairness ==
    /\ \A s \in Sessions : WF_vars(Advance(s))
    /\ SF_vars(\E s \in Sessions : Sweep(s))
FairSpec == Spec /\ Fairness

-----------------------------------------------------------------------------
(* Properties *)

Covers(record, n) == \E i \in DOMAIN record.events : record.events[i] = n
Evidenced(n) == \E record \in evidence : Covers(record, n)

\* No event is in two of the records.
Disjoint(records) ==
    \A record, other \in records :
        (\E n \in Ids : Covers(record, n) /\ Covers(other, n)) => record = other

\* Evidence speaks only of events that are in the database, and of its own
\* run's, although events reach Redis before their rows are committed and are
\* made into evidence by the transaction that wrote them
\* (production_reviews.py, _materialize_evidence_for_events).
EvidenceBacked ==
    \A record \in evidence : record.events # <<>> /\
        \A i \in DOMAIN record.events :
            /\ record.events[i] \in Committed
            /\ event[record.events[i]].run = record.run

\* Every event in the database is the first of the chain or is chained to one
\* that is in the database, whatever was rolled back in between
\* (event_stream.py, _asset_chain_tail_hash).
ChainGrounded ==
    \A n \in Committed :
        event[n].prev = ZeroHash \/ \E m \in Committed : event[m].self = event[n].prev

\* Unless two publishing transactions overlapped, the events of the asset form
\* one chain: no two of them follow the same event (append_persisted_event).
ChainLinear ==
    ~overlapped => \A n, m \in Committed : event[n].prev = event[m].prev => n = m

\* All the orders in which a query without ORDER BY may return some rows.
Orders(rows) ==
    {q \in [1..Cardinality(rows) -> rows] : \A i, j \in DOMAIN q : q[i] = q[j] => i = j}

\* Then a read returns the events in the order they were chained, in whatever
\* order the database returned the rows: all events of the asset, and those of
\* a run that no other run's events came between (_chain_order).
ReadsInOrder ==
    ~overlapped =>
        /\ \A q \in Orders(Committed) :
              /\ Len(ChainOrder(event, q)) = Len(q)
              /\ Linked(event, ChainOrder(event, q))
        /\ \A r \in Runs :
              LET rows == {n \in Committed : event[n].run = r}
              IN (\A n, m \in rows : \A k \in Committed : n < k /\ k < m => k \in rows)
                    => \A q \in Orders(rows) : Linked(event, ChainOrder(event, q))

\* An entry is acknowledged only after evidence of its event was committed,
\* unless the session that took it could not see the event's row
\* (_consume_evidence_events_from_stream).
AckAfterEvidence == \A n \in acked : n \in missed \/ Evidenced(n)

\* As long as Redis answers, no event is in two evidence records, however many
\* sessions consume (the consumer group praetor:evidence).
ConsumedOnce ==
    outages = 0 => Disjoint(evidence)

\* An acknowledged entry of an event in the database has evidence (docs/API.md
\* on the consumer group: entries are ACKed only after evidence rows commit).
AckedIsEvidenced == \A n \in acked \cap Committed : Evidenced(n)

\* While nothing crashes, Redis answers and requests come one at a time, every
\* event in the stream whose row is in the database is made into evidence.
EventsAreEvidenced ==
    \A n \in Ids : n \in stream \cap Committed ~> Evidenced(n)

-----------------------------------------------------------------------------
(* What makes EvidenceBacked and ChainGrounded inductive *)

UsedRows ==
    \A n \in Ids : event[n].owner # Nobody => n <= appended /\ event[n].run \in Runs

PublishersOnRuns == \A s \in Sessions : sess[s].pc = "publish" => sess[s].run \in Runs

\* What a session took was handed out; what it found and will save are rows it
\* still sees.
SessionSees(s) ==
    /\ sess[s].batch \subseteq delivered
    /\ sess[s].found \subseteq Visible(s)
    /\ \A record \in sess[s].fresh : record.events # <<>> /\
          \A i \in DOMAIN record.events :
              /\ record.events[i] \in Visible(s)
              /\ event[record.events[i]].run = record.run

\* Evidence, saved or about to be, is backed by rows that cannot be rolled back
\* before it is (_materialize_evidence_for_events, get_session).
EvidenceSound ==
    /\ UsedRows /\ PublishersOnRuns /\ EvidenceBacked
    /\ \A s \in Sessions : SessionSees(s)

\* The same as ChainGrounded for every row, those of open transactions included:
\* it depends only on rows that are rolled back with it or not at all.
RowsGrounded ==
    \A n \in Ids : event[n].owner # Nobody /\ event[n].prev # ZeroHash =>
        \E m \in Ids : event[m].owner \in {event[n].owner, "committed"}
                       /\ event[m].self = event[n].prev

-----------------------------------------------------------------------------
(* What makes ChainLinear, AckAfterEvidence and ConsumedOnce inductive *)

\* Unless publishing transactions overlapped, one of them at a time holds rows that
\* are not committed, so it sees every row there is when it looks for the tail.
OnePublisher ==
    /\ \A s \in Sessions : sess[s].pc \in {"idle", "ack"} => sess[s].run = Nobody
    /\ ~overlapped =>
          /\ \A s, t \in Sessions : sess[s].run # Nobody /\ sess[t].run # Nobody => s = t
          /\ \A s \in Sessions : Own(s) # {} => sess[s].run # Nobody
          /\ \A n, m \in Ids :
                event[n].owner # Nobody /\ event[m].owner # Nobody /\ event[n].prev = event[m].prev
                    => n = m

\* The rows there are, those of open transactions included.
Written == {n \in Ids : event[n].owner # Nobody}
Follows(m, n, rows) == n < m /\ \A k \in rows : k <= n \/ m <= k

\* Unless publishing transactions overlapped, every row is chained to the one appended
\* before it, and rows that are not committed come last.
RowsInSequence ==
    ~overlapped =>
        \A m \in Written :
            /\ (\A n \in Written : m <= n) => event[m].prev = ZeroHash
            /\ event[m].self # ZeroHash
            /\ \A n \in Written :
                  /\ Follows(m, n, Written) => event[m].prev = event[n].self
                  /\ n < m => Len(event[n].self) < Len(event[m].self)
                  /\ n < m /\ event[m].owner = "committed" => event[n].owner = "committed"

\* What a session holds at which point of its consumption.
Stage(s) ==
    /\ sess[s].pc \in {"idle", "publish", "read"} =>
          sess[s].batch = {} /\ sess[s].source = "stream"
    /\ sess[s].source = "table" => sess[s].batch = {}
    /\ sess[s].pc \notin {"materialize", "save"} => sess[s].found = {}
    /\ sess[s].pc # "save" => sess[s].fresh = {}

\* Every entry a session took is on its way to evidence, or was missed.
EntriesHandled(s) ==
    /\ sess[s].pc \in {"materialize", "save"} => sess[s].batch \subseteq sess[s].found \cup missed
    /\ sess[s].pc = "save" => \A n \in sess[s].found :
          Evidenced(n) \/ \E record \in sess[s].fresh : Covers(record, n)
    /\ sess[s].pc = "drop" => sess[s].batch \subseteq missed
    /\ sess[s].pc = "ack" => \A n \in sess[s].batch : n \in missed \/ Evidenced(n)

EntriesAccounted ==
    AckAfterEvidence /\ \A s \in Sessions : Stage(s) /\ EntriesHandled(s)

\* As long as Redis answers, what a session took is nobody else's, and is not in
\* evidence before the session puts it there.
EntriesOwned(s) ==
    /\ sess[s].source = "stream" /\ sess[s].found \subseteq sess[s].batch
    /\ sess[s].pc # "ack" => \A n \in sess[s].batch : ~Evidenced(n)
    /\ Disjoint(sess[s].fresh)
    /\ \A record \in sess[s].fresh : \A n \in Ids : Covers(record, n) => n \in sess[s].found
    /\ \A t \in Sessions \ {s} : sess[s].batch \cap sess[t].batch = {}

EntriesOnce ==
    outages = 0 =>
        /\ Disjoint(evidence)
        /\ \A n \in Ids : Evidenced(n) => n \in delivered
        /\ \A s \in Sessions : EntriesOwned(s)

-----------------------------------------------------------------------------
(* What remains of it for who audits the asset *)

\* What makes a row fit the log it is committed to: it is sealed, and what is not committed
\* yet belongs to the run its session publishes.
RowsSealed ==
    \A n \in Written :
        /\ \E payload \in Payloads : event[n].self = SelfHash(event[n].prev, payload)
        /\ \A s \in Sessions : event[n].owner = s =>
              sess[s].pc \notin {"idle", "ack"} /\ event[n].run = sess[s].run

logBar == [n \in Committed |-> [run |-> event[n].run, prev |-> event[n].prev, self |-> event[n].self]]

Audit == INSTANCE AuditLog WITH Events <- Ids, log <- logBar

\* The tables and the stream implement the log: whatever is rolled back, lost or late, the
\* events in the database are only added to and stay sealed, evidence stays and is about
\* them, and an entry is given up only while its event is not there
\* (append_persisted_event, consume_evidence_events).
ImplementsAuditLog == Audit!ASpec

=============================================================================
