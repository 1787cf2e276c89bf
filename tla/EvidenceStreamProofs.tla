------------------------- MODULE EvidenceStreamProofs -------------------------
(***************************************************************************)
(* What EvidenceStream promises for every number of sessions, runs and     *)
(* events and whatever crashes or fails: its states are typed, evidence is *)
(* backed by committed rows, no committed event is chained to one that was *)
(* rolled back, events form one chain unless transactions overlapped,      *)
(* entries are acknowledged after their evidence, no event becomes         *)
(* evidence twice while Redis answers, and all of it together implements   *)
(* the audit log of AuditLog.                                              *)
(***************************************************************************)
EXTENDS EvidenceStream, FiniteSetTheorems, TLAPS

Inv == TypeOK /\ EvidenceSound

\* One step of session s.
StepOf(s) ==
    \/ \E r \in Runs : StartPublish(s, r)
    \/ Sweep(s) \/ Advance(s) \/ Crash(s)

\* Ids are numbers and every set of them is finite.
LEMMA IdsFinite ==
    /\ Ids \subseteq Nat /\ \A n \in Ids : n \in Nat /\ n <= MaxEvents /\ n >= 1
    /\ \A S \in SUBSET Ids : IsFiniteSet(S) /\ Cardinality(S) \in Nat
<1>1. IsFiniteSet(Ids)
  BY FS_Interval, EvidenceAssumption DEF Ids
<1>2. ASSUME NEW S \in SUBSET Ids PROVE IsFiniteSet(S) /\ Cardinality(S) \in Nat
  BY <1>1, FS_Subset, FS_CardinalityType
<1> QED
  BY <1>2, EvidenceAssumption DEF Ids

LEMMA IdleTyped == Idle \in Session
BY DEF Idle, Session, Start, Position

-----------------------------------------------------------------------------
(* What a step leaves alone *)

\* Ending a transaction changes only rows of its own session.
LEMMA EndTyped ==
    ASSUME TypeOK, NEW s \in Sessions, Rollback(s) \/ Commit(s)
    PROVE  /\ event' \in [Ids -> EventRow]
           /\ checkpoint' \in [owner : Sessions \cup {Nobody, "committed"}, at : Position]
           /\ sess' = [sess EXCEPT ![s] = Idle]
           /\ UNCHANGED <<appended, publishes, overlapped>>
           /\ \A n \in Ids : event[n].owner # s => event'[n] = event[n]
           /\ \A n \in Ids : event[n].owner = s =>
                 event'[n].owner \in {Nobody, "committed"}
                 /\ (event'[n].owner # Nobody => event'[n] = [event[n] EXCEPT !.owner = "committed"])
<1>1. CASE Rollback(s)
  <2>1. NoEvent \in EventRow /\ NoEvent.owner = Nobody
    BY DEF NoEvent, EventRow, ZeroHash
  <2>2. event' = [n \in Ids |-> IF event[n].owner = s THEN NoEvent ELSE event[n]]
    BY <1>1, Zenon DEF Rollback
  <2>3. checkpoint' = IF checkpoint.owner = s THEN [owner |-> Nobody, at |-> Start] ELSE checkpoint
    BY <1>1, Zenon DEF Rollback
  <2>4. sess' = [sess EXCEPT ![s] = Idle] /\ UNCHANGED <<appended, publishes, overlapped>>
    BY <1>1, Zenon DEF Rollback, Set
  <2>5. event' \in [Ids -> EventRow]
    BY <2>1, <2>2 DEF TypeOK
  <2>6. checkpoint' \in [owner : Sessions \cup {Nobody, "committed"}, at : Position]
    BY <2>3 DEF TypeOK, Start, Position
  <2> QED
    BY <2>1, <2>2, <2>4, <2>5, <2>6
<1>2. CASE Commit(s)
  <2>1. event' = [n \in Ids |-> IF event[n].owner = s THEN [event[n] EXCEPT !.owner = "committed"]
                               ELSE event[n]]
    BY <1>2, Zenon DEF Commit, CommitEvents
  <2>2. checkpoint' = IF checkpoint.owner = s THEN [checkpoint EXCEPT !.owner = "committed"]
                      ELSE checkpoint
    BY <1>2, Zenon DEF Commit
  <2>3. sess' = [sess EXCEPT ![s] = Idle] /\ UNCHANGED <<appended, publishes, overlapped>>
    BY <1>2, Zenon DEF Commit, Set
  <2>4. event' \in [Ids -> EventRow]
    BY <2>1 DEF TypeOK, EventRow
  <2>5. checkpoint' \in [owner : Sessions \cup {Nobody, "committed"}, at : Position]
    BY <2>2 DEF TypeOK
  <2>6. \A n \in Ids : event[n].owner = s => event'[n].owner = "committed"
    BY <2>1 DEF TypeOK, EventRow
  <2> QED
    BY <2>1, <2>3, <2>4, <2>5, <2>6
<1> QED
  BY <1>1, <1>2

\* So does committing the rows in a step that does more (Save).
LEMMA CommitTyped ==
    ASSUME TypeOK, NEW s \in Sessions, CommitEvents(s)
    PROVE  /\ event' \in [Ids -> EventRow]
           /\ \A n \in Ids : event[n].owner # s => event'[n] = event[n]
           /\ \A n \in Ids : event[n].owner = s =>
                 event'[n] = [event[n] EXCEPT !.owner = "committed"]
                 /\ event'[n].owner = "committed"
<1>1. event' = [n \in Ids |-> IF event[n].owner = s THEN [event[n] EXCEPT !.owner = "committed"]
                             ELSE event[n]]
  BY Zenon DEF CommitEvents
<1> QED
  BY <1>1 DEF TypeOK, EventRow

\* A step of s that only changes rows of s, and leaves s with rows it sees,
\* keeps everybody's evidence sound.
LEMMA SoundStep ==
    ASSUME Inv, TypeOK', NEW s \in Sessions,
           \A n \in Ids : event[n].owner \notin {s, Nobody} => event'[n] = event[n],
           \A t \in Sessions \ {s} : sess'[t] = sess[t],
           evidence' = evidence, delivered \subseteq delivered',
           UsedRows', sess'[s].pc = "publish" => sess'[s].run \in Runs,
           SessionSees(s)'
    PROVE  Inv'
<1>1. s # "committed" /\ Nobody # "committed" /\ Nobody \notin Sessions
  BY EvidenceAssumption
<1>2. \A n \in Committed : n \in Committed' /\ event'[n] = event[n]
  BY <1>1 DEF Committed
<1>3. EvidenceBacked'
  BY <1>2 DEF Inv, EvidenceSound, EvidenceBacked
<1>4. PublishersOnRuns'
  BY DEF Inv, EvidenceSound, PublishersOnRuns
<1>5. ASSUME NEW t \in Sessions \ {s} PROVE SessionSees(t)'
  <2>1. SessionSees(t) /\ sess'[t] = sess[t] /\ t # Nobody /\ t # s
    BY <1>1 DEF Inv, EvidenceSound
  <2>2. \A n \in Visible(t) : n \in Visible(t)' /\ event'[n] = event[n]
    BY <1>1, <2>1 DEF Visible
  <2> QED
    BY <2>1, <2>2 DEF SessionSees
<1>6. \A t \in Sessions : SessionSees(t)'
  BY <1>5
<1> QED
  BY <1>3, <1>4, <1>6 DEF Inv, EvidenceSound

\* In particular a step that changes no row and turns s to me.
LEMMA QuietStep ==
    ASSUME Inv, NEW s \in Sessions, NEW me \in Session, Set(s, me),
           UNCHANGED <<event, appended, evidence>>, delivered \subseteq delivered',
           sess' \in [Sessions -> Session] => TypeOK',
           me.pc = "publish" => me.run \in Runs,
           me.batch \subseteq delivered',
           me.found \subseteq Visible(s),
           \A record \in me.fresh : record.events # <<>> /\
              \A i \in DOMAIN record.events :
                 record.events[i] \in Visible(s) /\ event[record.events[i]].run = record.run
    PROVE  Inv'
<1>1. sess' = [sess EXCEPT ![s] = me] /\ sess \in [Sessions -> Session]
  BY Zenon DEF Set, Inv, TypeOK
<1>2. sess' \in [Sessions -> Session] /\ sess'[s] = me
      /\ \A t \in Sessions \ {s} : sess'[t] = sess[t]
  BY <1>1
<1>3. TypeOK'
  BY <1>2
<1>4. Visible(s)' = Visible(s) /\ UsedRows'
  BY DEF Visible, Inv, EvidenceSound, UsedRows
<1>5. SessionSees(s)'
  BY <1>2, <1>4 DEF SessionSees
<1> QED
  BY <1>2, <1>3, <1>4, <1>5, SoundStep

\* The end of a transaction in which s created no evidence.
EndTyping ==
    /\ event' \in [Ids -> EventRow]
    /\ checkpoint' \in [owner : Sessions \cup {Nobody, "committed"}, at : Position]
    /\ sess' \in [Sessions -> Session]
    /\ UNCHANGED <<appended, publishes, overlapped>>

LEMMA EndStep ==
    ASSUME Inv, NEW s \in Sessions, Rollback(s) \/ Commit(s), evidence' = evidence, delivered' = delivered,
           EndTyping => TypeOK'
    PROVE  Inv'
<1>1. /\ event' \in [Ids -> EventRow]
      /\ checkpoint' \in [owner : Sessions \cup {Nobody, "committed"}, at : Position]
      /\ sess' = [sess EXCEPT ![s] = Idle]
      /\ UNCHANGED <<appended, publishes, overlapped>>
      /\ \A n \in Ids : event[n].owner # s => event'[n] = event[n]
      /\ \A n \in Ids : event[n].owner = s =>
            event'[n].owner \in {Nobody, "committed"}
            /\ (event'[n].owner # Nobody => event'[n] = [event[n] EXCEPT !.owner = "committed"])
  BY EndTyped DEF Inv
<1>2. sess' \in [Sessions -> Session] /\ sess'[s] = Idle
      /\ \A t \in Sessions \ {s} : sess'[t] = sess[t]
  BY <1>1, IdleTyped DEF Inv, TypeOK
<1>3. TypeOK'
  BY <1>1, <1>2 DEF EndTyping
<1>4. UsedRows'
  <2> SUFFICES ASSUME NEW n \in Ids, event'[n].owner # Nobody
               PROVE  n <= appended' /\ event'[n].run \in Runs
    BY DEF UsedRows
  <2>1. event'[n].run = event[n].run /\ event[n].owner # Nobody
    <3>1. CASE event[n].owner = s
      <4>1. event'[n] = [event[n] EXCEPT !.owner = "committed"] /\ s # Nobody
        BY <1>1, <3>1, EvidenceAssumption
      <4> QED
        BY <4>1, <3>1 DEF Inv, TypeOK, EventRow
    <3>2. CASE event[n].owner # s
      BY <1>1, <3>2
    <3> QED  BY <3>1, <3>2
  <2> QED
    BY <1>1, <2>1 DEF Inv, EvidenceSound, UsedRows
<1>5. SessionSees(s)' /\ (sess'[s].pc = "publish" => sess'[s].run \in Runs)
  BY <1>2 DEF SessionSees, Idle
<1> QED
  BY <1>1, <1>2, <1>3, <1>4, <1>5, SoundStep

-----------------------------------------------------------------------------
(* Publishing *)

LEMMA StartPublishSound ==
    ASSUME Inv, NEW s \in Sessions, NEW r \in Runs, StartPublish(s, r)
    PROVE  Inv'
<1> DEFINE me == [Idle EXCEPT !.pc = "publish", !.run = r, !.ts = publishes + 1]
<1>1. me \in Session /\ me.run = r /\ me.batch = {} /\ me.found = {} /\ me.fresh = {}
  <2>1. publishes + 1 \in Nat
    BY DEF Inv, TypeOK
  <2>2. me \in Session
    BY <2>1, IdleTyped DEF Session
  <2>3. Idle \in Session /\ Idle.batch = {} /\ Idle.found = {} /\ Idle.fresh = {}
    BY IdleTyped DEF Idle
  <2> QED
    BY <2>2, <2>3 DEF Session
<1>2. Set(s, me) /\ publishes' = publishes + 1
      /\ overlapped' = (overlapped \/ \E t \in Sessions : sess[t].run # Nobody)
      /\ UNCHANGED <<event, appended, redis, ledger, checkpoint, crashes, outages, missed>>
  BY Zenon DEF StartPublish
<1>3. sess' \in [Sessions -> Session] => TypeOK'
  BY <1>2 DEF Inv, TypeOK, redis, ledger
<1>4. UNCHANGED <<event, appended, evidence, delivered>>
  BY <1>2 DEF ledger, redis
<1> HIDE DEF me
<1> QED
  BY <1>1, <1>2, <1>3, <1>4, QuietStep

LEMMA AppendEventSound ==
    ASSUME Inv, NEW s \in Sessions, AppendEvent(s)
    PROVE  Inv'
<1>1. PICK payload \in Payloads, prev \in TailHashes(event, Visible(s)) :
         event' = [event EXCEPT ![appended + 1] =
                      [owner |-> s, run |-> sess[s].run, ts |-> sess[s].ts,
                       prev |-> prev, self |-> SelfHash(prev, payload)]]
  BY Zenon DEF AppendEvent
<1> DEFINE new == [owner |-> s, run |-> sess[s].run, ts |-> sess[s].ts,
                   prev |-> prev, self |-> SelfHash(prev, payload)]
<1>2. sess[s].pc = "publish" /\ appended < MaxEvents /\ appended' = appended + 1
      /\ (stream' = stream \cup {appended + 1} \/ stream' = stream)
      /\ (outages' = outages \/ outages' = outages + 1)
      /\ UNCHANGED <<publishes, overlapped, delivered, acked, ledger, checkpoint, sess, crashes, missed>>
  BY DEF AppendEvent, Outage
<1>3. appended + 1 \in Ids /\ appended' \in 0..MaxEvents
  BY <1>2, EvidenceAssumption DEF Inv, TypeOK, Ids
<1>4. event[appended + 1].owner = Nobody
  BY <1>3, EvidenceAssumption DEF Inv, EvidenceSound, UsedRows, TypeOK, Ids
<1>5. prev \in Seq(Payloads) /\ SelfHash(prev, payload) \in Seq(Payloads)
  <2>1. <<>> \in Seq(Payloads)
    OBVIOUS
  <2>2. \A n \in Ids : event[n].self \in Seq(Payloads)
    BY DEF Inv, TypeOK, EventRow
  <2>3. prev = <<>> \/ \E n \in Visible(s) : prev = event[n].self
    BY Zenon DEF TailHashes, ZeroHash
  <2>4. prev \in Seq(Payloads)
    BY <2>1, <2>2, <2>3 DEF Visible
  <2> QED
    BY <2>4 DEF SelfHash
<1>6. new \in EventRow /\ new.run \in Runs
  BY <1>2, <1>5 DEF EventRow, Inv, TypeOK, Session, EvidenceSound, PublishersOnRuns
<1>7. event' \in [Ids -> EventRow] /\ event'[appended + 1] = new
      /\ \A n \in Ids : n # appended + 1 => event'[n] = event[n]
  <2> HIDE DEF new
  <2>1. event' = [event EXCEPT ![appended + 1] = new]
    BY <1>1, Zenon DEF new
  <2> QED
    BY <2>1, <1>3, <1>6 DEF Inv, TypeOK
<1> HIDE DEF new
<1>8. TypeOK'
  BY <1>2, <1>3, <1>7 DEF Inv, TypeOK, ledger
<1>9. UsedRows'
  BY <1>2, <1>3, <1>6, <1>7, EvidenceAssumption DEF Inv, EvidenceSound, UsedRows, TypeOK, Ids
<1>10. \A n \in Ids : event[n].owner # Nobody => event'[n] = event[n]
  BY <1>4, <1>7
<1>11. SessionSees(s)'
  <2>1. \A n \in Visible(s) : n \in Visible(s)' /\ event'[n] = event[n]
    BY <1>10, EvidenceAssumption DEF Visible
  <2> QED
    BY <1>2, <2>1 DEF Inv, EvidenceSound, SessionSees
<1> QED
  BY <1>2, <1>8, <1>9, <1>10, <1>11, SoundStep DEF ledger, Inv, EvidenceSound, PublishersOnRuns

LEMMA CommitCancelSound ==
    ASSUME Inv, NEW s \in Sessions, CommitCancel(s)
    PROVE  Inv'
<1>1. Commit(s) /\ UNCHANGED <<redis, ledger, crashes, outages, missed>>
  BY Zenon DEF CommitCancel
<1>2. EndTyping => TypeOK'
  BY <1>1 DEF EndTyping, Inv, TypeOK, redis, ledger
<1>3. evidence' = evidence /\ delivered' = delivered
  BY <1>1 DEF ledger, redis
<1> QED
  BY <1>1, <1>2, <1>3, EndStep

LEMMA ConsumeOwnSound ==
    ASSUME Inv, NEW s \in Sessions, ConsumeOwn(s)
    PROVE  Inv'
<1> DEFINE me == [sess[s] EXCEPT !.pc = "read"]
<1>1. sess[s] \in Session
  BY DEF Inv, TypeOK
<1>2. me \in Session /\ me.pc = "read" /\ me.batch = sess[s].batch
      /\ me.found = sess[s].found /\ me.fresh = sess[s].fresh
  BY <1>1 DEF Session
<1>3. Set(s, me) /\ UNCHANGED <<chain, redis, ledger, checkpoint, crashes, outages, missed>>
  BY Zenon DEF ConsumeOwn
<1> HIDE DEF me
<1>4. sess' \in [Sessions -> Session] => TypeOK'
  BY <1>3 DEF Inv, TypeOK, chain, redis, ledger
<1>5. SessionSees(s)
  BY DEF Inv, EvidenceSound
<1> QED
  BY <1>2, <1>3, <1>4, <1>5, QuietStep DEF SessionSees, chain, redis, ledger

LEMMA SweepSound ==
    ASSUME Inv, NEW s \in Sessions, Sweep(s)
    PROVE  Inv'
<1> DEFINE me == [Idle EXCEPT !.pc = "read"]
<1>1. me \in Session /\ me.pc = "read" /\ me.batch = {} /\ me.found = {} /\ me.fresh = {}
  BY IdleTyped DEF Idle, Session
<1>2. Set(s, me) /\ UNCHANGED <<chain, redis, ledger, checkpoint, crashes, outages, missed>>
  BY Zenon DEF Sweep
<1> HIDE DEF me
<1>3. sess' \in [Sessions -> Session] => TypeOK'
  BY <1>2 DEF Inv, TypeOK, chain, redis, ledger
<1> QED
  BY <1>1, <1>2, <1>3, QuietStep DEF chain, redis, ledger
-----------------------------------------------------------------------------
(* Consuming *)

LEMMA NextEntriesTyped ==
    ASSUME Inv
    PROVE  NextEntries \subseteq stream \ delivered /\ NextEntries \subseteq Ids
BY DEF NextEntries, Inv, TypeOK

\* The steps that only turn s to a later pc with what it holds.
LEMMA KeptStep ==
    ASSUME Inv, NEW s \in Sessions, NEW me \in Session, Set(s, me),
           me.pc # "publish", me.found = sess[s].found, me.fresh = sess[s].fresh,
           UNCHANGED <<event, appended, evidence>>, delivered \subseteq delivered',
           me.batch \subseteq delivered',
           sess' \in [Sessions -> Session] => TypeOK'
    PROVE  Inv'
<1>1. SessionSees(s)
  BY DEF Inv, EvidenceSound
<1> QED
  BY <1>1, QuietStep DEF SessionSees

LEMMA TakeEntriesSound ==
    ASSUME Inv, NEW s \in Sessions, TakeEntries(s)
    PROVE  Inv'
<1> DEFINE me == [sess[s] EXCEPT !.pc = "lookup", !.batch = NextEntries]
<1>1. sess[s] \in Session
  BY DEF Inv, TypeOK
<1>2. me \in Session /\ me.pc = "lookup" /\ me.batch = NextEntries
      /\ me.found = sess[s].found /\ me.fresh = sess[s].fresh
  BY <1>1, NextEntriesTyped DEF Session
<1>3. Set(s, me) /\ delivered' = delivered \cup NextEntries
      /\ UNCHANGED <<chain, stream, acked, ledger, checkpoint, crashes, outages, missed>>
  BY Zenon DEF TakeEntries
<1> HIDE DEF me
<1>4. sess' \in [Sessions -> Session] => TypeOK'
  BY <1>3, NextEntriesTyped DEF Inv, TypeOK, chain, ledger
<1> QED
  BY <1>2, <1>3, <1>4, KeptStep DEF chain, ledger

LEMMA StreamFailsSound ==
    ASSUME Inv, NEW s \in Sessions, StreamFails(s)
    PROVE  Inv'
<1> DEFINE me == [sess[s] EXCEPT !.pc = "lookup", !.source = "table"]
<1>1. sess[s] \in Session
  BY DEF Inv, TypeOK
<1>2. me \in Session /\ me.pc = "lookup" /\ me.batch = sess[s].batch
      /\ me.found = sess[s].found /\ me.fresh = sess[s].fresh
  BY <1>1 DEF Session
<1>3. Set(s, me) /\ delivered' \in {delivered, delivered \cup NextEntries}
      /\ outages' = outages + 1
      /\ UNCHANGED <<chain, stream, acked, ledger, checkpoint, crashes, missed>>
  BY Zenon DEF StreamFails, Outage
<1> HIDE DEF me
<1>4. sess' \in [Sessions -> Session] => TypeOK'
  BY <1>3, NextEntriesTyped DEF Inv, TypeOK, chain, ledger
<1>5. sess[s].batch \subseteq delivered
  BY DEF Inv, EvidenceSound, SessionSees
<1> QED
  BY <1>2, <1>3, <1>4, <1>5, KeptStep DEF chain, redis, ledger

LEMMA LookupCheckpointSound ==
    ASSUME Inv, NEW s \in Sessions, LookupCheckpoint(s)
    PROVE  Inv'
<1> DEFINE me == IF checkpoint.owner = "committed"
                 THEN [sess[s] EXCEPT !.pc = "match", !.loaded = checkpoint.at]
                 ELSE [sess[s] EXCEPT !.pc = "insert"]
<1>1. sess[s] \in Session /\ checkpoint.at \in Position
  BY DEF Inv, TypeOK
<1>2. me \in Session /\ me.pc # "publish" /\ me.batch = sess[s].batch
      /\ me.found = sess[s].found /\ me.fresh = sess[s].fresh
  <2>1. CASE checkpoint.owner = "committed"
    BY <1>1, <2>1 DEF Session
  <2>2. CASE checkpoint.owner # "committed"
    BY <1>1, <2>2 DEF Session
  <2> QED  BY <2>1, <2>2
<1>3. Set(s, me) /\ UNCHANGED <<chain, redis, ledger, checkpoint, crashes, outages, missed>>
  BY Zenon DEF LookupCheckpoint
<1> HIDE DEF me
<1>4. sess' \in [Sessions -> Session] => TypeOK'
  BY <1>3 DEF Inv, TypeOK, chain, redis, ledger
<1>5. sess[s].batch \subseteq delivered
  BY DEF Inv, EvidenceSound, SessionSees
<1> QED
  BY <1>2, <1>3, <1>4, <1>5, KeptStep DEF chain, redis, ledger

LEMMA InsertCheckpointSound ==
    ASSUME Inv, NEW s \in Sessions, InsertCheckpoint(s)
    PROVE  Inv'
<1> DEFINE me == [sess[s] EXCEPT !.pc = "match"]
<1>1. sess[s] \in Session
  BY DEF Inv, TypeOK
<1>2. me \in Session /\ me.pc = "match" /\ me.batch = sess[s].batch
      /\ me.found = sess[s].found /\ me.fresh = sess[s].fresh
  BY <1>1 DEF Session
<1>3. Set(s, me) /\ checkpoint' = [owner |-> s, at |-> Start]
      /\ UNCHANGED <<chain, redis, ledger, crashes, outages, missed>>
  BY Zenon DEF InsertCheckpoint
<1> HIDE DEF me
<1>4. sess' \in [Sessions -> Session] => TypeOK'
  BY <1>3 DEF Inv, TypeOK, chain, redis, ledger, Start, Position
<1>5. sess[s].batch \subseteq delivered
  BY DEF Inv, EvidenceSound, SessionSees
<1> QED
  BY <1>2, <1>3, <1>4, <1>5, KeptStep DEF chain, redis, ledger

LEMMA CheckpointConflictSound ==
    ASSUME Inv, NEW s \in Sessions, CheckpointConflict(s)
    PROVE  Inv'
<1>1. Rollback(s) /\ UNCHANGED <<redis, ledger, crashes, outages, missed>>
  BY Zenon DEF CheckpointConflict
<1>2. EndTyping => TypeOK'
  BY <1>1 DEF EndTyping, Inv, TypeOK, redis, ledger
<1>3. evidence' = evidence /\ delivered' = delivered
  BY <1>1 DEF ledger, redis
<1> QED
  BY <1>1, <1>2, <1>3, EndStep

LEMMA CrashSound ==
    ASSUME Inv, NEW s \in Sessions, Crash(s)
    PROVE  Inv'
<1>1. Rollback(s) /\ crashes' = crashes + 1 /\ UNCHANGED <<redis, ledger, outages, missed>>
  BY Zenon DEF Crash
<1>2. EndTyping => TypeOK'
  BY <1>1 DEF EndTyping, Inv, TypeOK, redis, ledger
<1>3. evidence' = evidence /\ delivered' = delivered
  BY <1>1 DEF ledger, redis
<1> QED
  BY <1>1, <1>2, <1>3, EndStep

LEMMA AckSound ==
    ASSUME Inv, NEW s \in Sessions, Ack(s)
    PROVE  Inv'
<1>1. Set(s, Idle) /\ (acked' = acked \cup sess[s].batch \/ acked' = acked)
      /\ (outages' = outages \/ outages' = outages + 1)
      /\ UNCHANGED <<chain, stream, delivered, ledger, checkpoint, crashes, missed>>
  BY Zenon DEF Ack, Outage
<1>2. sess' \in [Sessions -> Session] => TypeOK'
  <2>1. sess[s].batch \subseteq delivered
    BY DEF Inv, EvidenceSound, SessionSees
  <2> QED
    BY <1>1, <2>1 DEF Inv, TypeOK, chain, ledger
<1>3. Idle \in Session /\ Idle.pc = "idle" /\ Idle.batch = {} /\ Idle.found = {} /\ Idle.fresh = {}
  BY IdleTyped DEF Idle
<1> QED
  BY <1>1, <1>2, <1>3, QuietStep DEF chain, redis, ledger
\* Whether a consumption returns by commit or by rollback.
LEMMA ReturnStep ==
    ASSUME Inv, NEW s \in Sessions, Return(s), UNCHANGED <<evidence, delivered>>,
           EndTyping => TypeOK'
    PROVE  Inv'
<1>1. Rollback(s) \/ Commit(s)
  BY Zenon DEF Return
<1> QED
  BY <1>1, EndStep

\* The rows that Match finds, and what it does with them.
Rows(s) ==
    LET me == sess[s]
    IN IF me.source = "stream" THEN me.batch \cap Visible(s)
       ELSE LET later == {n \in Visible(s) : After(n, me.loaded)}
            IN {n \in later : Cardinality({m \in later : Before(m, n, "table")}) < Limit}

LEMMA MatchEffect ==
    ASSUME NEW s \in Sessions, Match(s)
    PROVE  /\ sess[s].pc = "match" /\ UNCHANGED <<redis, ledger, crashes, outages>>
           /\ missed' = missed \cup (sess[s].batch \ Visible(s))
           /\ Rows(s) \subseteq Visible(s)
           /\ sess[s].source = "stream" => Rows(s) = sess[s].batch \cap Visible(s)
           /\ \/ Rows(s) = {} /\ sess[s].batch = {} /\ Return(s)
              \/ /\ ~(Rows(s) = {} /\ sess[s].batch = {})
                 /\ Set(s, [sess[s] EXCEPT !.pc = IF Rows(s) = {} THEN "drop" ELSE "materialize",
                                           !.found = Rows(s)])
                 /\ UNCHANGED <<chain, checkpoint>>
<1>1. Rows(s) \subseteq Visible(s)
      /\ (sess[s].source = "stream" => Rows(s) = sess[s].batch \cap Visible(s))
  BY DEF Rows
<1> QED
  BY <1>1, Zenon DEF Match, Rows

LEMMA MatchSound ==
    ASSUME Inv, NEW s \in Sessions, Match(s)
    PROVE  Inv'
<1> DEFINE me == [sess[s] EXCEPT !.pc = IF Rows(s) = {} THEN "drop" ELSE "materialize",
                                 !.found = Rows(s)]
<1>1. /\ missed' = missed \cup (sess[s].batch \ Visible(s)) /\ Rows(s) \subseteq Visible(s)
      /\ Return(s) \/ (Set(s, me) /\ UNCHANGED <<chain, checkpoint>>)
      /\ UNCHANGED <<redis, ledger, crashes, outages>>
  BY MatchEffect, Zenon
<1>2. sess[s] \in Session /\ Visible(s) \subseteq Ids /\ SessionSees(s)
  BY DEF Inv, TypeOK, EvidenceSound, Visible
<1>3. missed' \subseteq Ids
  BY <1>1, <1>2 DEF Inv, TypeOK, Session
<1>4. CASE Return(s)
  <2>1. EndTyping => TypeOK'
    BY <1>1, <1>3 DEF EndTyping, Inv, TypeOK, redis, ledger
  <2> QED
    BY <1>1, <1>4, <2>1, ReturnStep DEF redis, ledger
<1>5. CASE Set(s, me) /\ UNCHANGED <<chain, checkpoint>>
  <2>1. /\ me \in Session /\ me.pc # "publish" /\ me.batch = sess[s].batch
        /\ me.found = Rows(s) /\ me.fresh = sess[s].fresh
    BY <1>1, <1>2 DEF Session
  <2> HIDE DEF me
  <2>2. sess' \in [Sessions -> Session] => TypeOK'
    BY <1>1, <1>3, <1>5 DEF Inv, TypeOK, chain, redis, ledger
  <2> QED
    BY <1>1, <1>2, <1>5, <2>1, <2>2, QuietStep DEF SessionSees, chain, redis, ledger
<1> QED
  BY <1>1, <1>4, <1>5

LEMMA DropEntriesSound ==
    ASSUME Inv, NEW s \in Sessions, DropEntries(s)
    PROVE  Inv'
<1>1. /\ Rollback(s) \/ Return(s)
      /\ acked' = acked \cup sess[s].batch \/ acked' = acked
      /\ outages' = outages \/ outages' = outages + 1
      /\ UNCHANGED <<stream, delivered, ledger, crashes, missed>>
  BY Zenon DEF DropEntries, Outage
<1>2. sess[s].batch \subseteq delivered
  BY DEF Inv, EvidenceSound, SessionSees
<1>3. EndTyping => TypeOK'
  BY <1>1, <1>2 DEF EndTyping, Inv, TypeOK, ledger
<1>4. UNCHANGED <<evidence, delivered>>
  BY <1>1 DEF ledger
<1> QED
  BY <1>1, <1>3, <1>4, EndStep, ReturnStep

\* Records are made of rows of their run that the session sees.
LEMMA RecordsBacked ==
    ASSUME Inv, NEW s \in Sessions, NEW record \in Records(sess[s])
    PROVE  /\ record \in [run : Runs, events : Seq(Ids)] /\ record.events # <<>>
           /\ \A i \in DOMAIN record.events :
                 record.events[i] \in Visible(s) /\ event[record.events[i]].run = record.run
<1> DEFINE Of(r) == {n \in sess[s].found : event[n].run = r}
<1>1. PICK r \in {event[n].run : n \in sess[s].found} :
         \E q \in Listing(Of(r), sess[s].source) : record = [run |-> r, events |-> q]
  BY Zenon DEF Records
<1>2. PICK q \in Listing(Of(r), sess[s].source) : record = [run |-> r, events |-> q]
  BY <1>1
<1>3. sess[s].found \subseteq Visible(s) /\ Visible(s) \subseteq Ids
  BY DEF Inv, EvidenceSound, SessionSees, Visible
<1>4. Of(r) \subseteq Ids /\ Of(r) \subseteq Visible(s) /\ Of(r) # {}
  BY <1>3
<1>5. r \in Runs
  BY <1>3, EvidenceAssumption DEF Visible, Inv, EvidenceSound, UsedRows
<1>6. Cardinality(Of(r)) \in Nat /\ Cardinality(Of(r)) # 0
  BY <1>4, IdsFinite, FS_EmptySet
<1>7. q \in [1..Cardinality(Of(r)) -> Of(r)]
  BY DEF Listing
<1> DEFINE k == Cardinality(Of(r))
<1> HIDE DEF Of
<1>8. q \in [1..k -> Of(r)] /\ k \in Nat /\ k # 0
  BY <1>6, <1>7
<1> HIDE DEF k
<1>9. q \in Seq(Ids) /\ q # <<>> /\ \A i \in DOMAIN q : q[i] \in Of(r)
  <2>1. q \in Seq(Ids) /\ Len(q) = k
    BY <1>4, <1>8
  <2> QED
    BY <1>8, <2>1
<1> QED
  BY <1>2, <1>4, <1>5, <1>9 DEF Of

LEMMA MaterializeSound ==
    ASSUME Inv, NEW s \in Sessions, Materialize(s)
    PROVE  Inv'
<1> DEFINE fresh == {record \in Records(sess[s]) : ~Recorded(record)}
           me == [sess[s] EXCEPT !.pc = "save", !.fresh = fresh]
<1>1. Set(s, me) /\ UNCHANGED <<chain, redis, ledger, checkpoint, crashes, outages, missed>>
  BY Zenon DEF Materialize
<1>2. \A record \in fresh :
         /\ record \in [run : Runs, events : Seq(Ids)] /\ record.events # <<>>
         /\ \A i \in DOMAIN record.events :
               record.events[i] \in Visible(s) /\ event[record.events[i]].run = record.run
  BY RecordsBacked
<1> HIDE DEF fresh
<1>3. sess[s] \in Session /\ SessionSees(s)
  BY DEF Inv, TypeOK, EvidenceSound
<1>4. fresh \subseteq [run : Runs, events : Seq(Ids)]
  BY <1>2
<1>5. /\ me \in Session /\ me.pc # "publish" /\ me.batch = sess[s].batch
      /\ me.found = sess[s].found /\ me.fresh = fresh
  BY <1>3, <1>4 DEF Session
<1> HIDE DEF me
<1>6. sess' \in [Sessions -> Session] => TypeOK'
  BY <1>1 DEF Inv, TypeOK, chain, redis, ledger
<1> QED
  BY <1>1, <1>2, <1>3, <1>5, <1>6, QuietStep DEF SessionSees, chain, redis, ledger

LEMMA SaveSound ==
    ASSUME Inv, NEW s \in Sessions, Save(s)
    PROVE  Inv'
<1> DEFINE old == sess[s]
           saved == {[id |-> saves + 1, run |-> record.run, events |-> record.events] :
                        record \in old.fresh}
           me == IF old.source = "stream" THEN [Idle EXCEPT !.pc = "ack", !.batch = old.batch]
                 ELSE Idle
<1>1. PICK last \in old.found :
         checkpoint' =
            [owner |-> "committed",
             at |-> [ts |-> Flush(checkpoint.at.ts, old.loaded.ts, event[last].ts),
                     id |-> Flush(checkpoint.at.id, old.loaded.id, last)]]
  BY Zenon DEF Save
<1>2. /\ evidence' = evidence \cup saved /\ Set(s, me) /\ CommitEvents(s)
      /\ saves' = (IF old.fresh = {} THEN saves ELSE saves + 1)
      /\ UNCHANGED <<appended, publishes, overlapped, redis, crashes, outages, missed>>
  BY Zenon DEF Save
<1>3. /\ event' \in [Ids -> EventRow]
      /\ \A n \in Ids : event[n].owner # s => event'[n] = event[n]
      /\ \A n \in Ids : event[n].owner = s =>
            event'[n] = [event[n] EXCEPT !.owner = "committed"] /\ event'[n].owner = "committed"
  BY <1>2, CommitTyped DEF Inv
<1>4. old \in Session /\ SessionSees(s) /\ Visible(s) \subseteq Ids
  BY DEF Inv, TypeOK, EvidenceSound, Visible
<1>5. \A n \in Ids : event'[n].run = event[n].run
  <2> SUFFICES ASSUME NEW n \in Ids PROVE event'[n].run = event[n].run
    OBVIOUS
  <2>1. event[n] \in EventRow
    BY DEF Inv, TypeOK
  <2>2. CASE event[n].owner = s
    BY <1>3, <2>1, <2>2 DEF EventRow
  <2>3. CASE event[n].owner # s
    BY <1>3, <2>3
  <2> QED  BY <2>2, <2>3
<1>6. \A n \in Visible(s) : n \in Committed'
  BY <1>3, <1>4, EvidenceAssumption DEF Visible, Committed
<1>7. me \in Session /\ me.found = {} /\ me.fresh = {} /\ me.pc # "publish"
      /\ me.batch \subseteq delivered
  <2>1. CASE old.source = "stream"
    BY <1>4, <2>1, IdleTyped DEF Session, SessionSees, Idle
  <2>2. CASE old.source # "stream"
    BY <2>2, IdleTyped DEF Idle
  <2> QED  BY <2>1, <2>2
<1> HIDE DEF me
<1>8. sess' \in [Sessions -> Session] /\ sess'[s] = me
      /\ \A t \in Sessions \ {s} : sess'[t] = sess[t]
  <2>1. sess' = [sess EXCEPT ![s] = me] /\ sess \in [Sessions -> Session]
    BY <1>2, Zenon DEF Set, Inv, TypeOK
  <2> QED
    BY <1>7, <2>1
<1>9. saved \subseteq EvidenceRow /\ saves' \in Nat
  <2>1. saves \in Nat /\ saves + 1 \in Nat
    BY DEF Inv, TypeOK
  <2>2. \A record \in old.fresh : record.run \in Runs /\ record.events \in Seq(Ids)
    BY <1>4 DEF Session
  <2> QED
    BY <1>2, <2>1, <2>2 DEF EvidenceRow
<1>10. \A row \in saved : row.events # <<>> /\
          \A i \in DOMAIN row.events :
             row.events[i] \in Visible(s) /\ event[row.events[i]].run = row.run
  BY <1>4 DEF SessionSees
<1> HIDE DEF saved
<1>11. checkpoint' \in [owner : Sessions \cup {Nobody, "committed"}, at : Position]
  <2>1. last \in Ids /\ last \in Nat /\ event[last].ts \in Nat
    BY <1>4, IdsFinite DEF SessionSees, Inv, TypeOK, EventRow
  <2>2. checkpoint.at \in Position
    BY DEF Inv, TypeOK
  <2>3. Flush(checkpoint.at.ts, old.loaded.ts, event[last].ts) \in Nat
        /\ Flush(checkpoint.at.id, old.loaded.id, last) \in Nat
    BY <2>1, <2>2 DEF Flush, Position
  <2> QED
    BY <1>1, <2>3 DEF Position
<1>12. TypeOK'
  BY <1>2, <1>3, <1>8, <1>9, <1>11 DEF Inv, TypeOK, redis
<1>13. UsedRows'
  BY <1>2, <1>3, <1>5, EvidenceAssumption DEF Inv, EvidenceSound, UsedRows
<1>14. EvidenceBacked'
  <2>1. \A n \in Committed : n \in Committed'
    BY <1>6 DEF Committed, Visible
  <2>2. Committed \subseteq Ids
    BY DEF Committed
  <2>3. \A row \in evidence : row.events # <<>> /\
          \A i \in DOMAIN row.events :
             row.events[i] \in Committed' /\ event'[row.events[i]].run = row.run
    BY <1>5, <2>1, <2>2 DEF Inv, EvidenceSound, EvidenceBacked
  <2>4. \A row \in saved : row.events # <<>> /\
          \A i \in DOMAIN row.events :
             row.events[i] \in Committed' /\ event'[row.events[i]].run = row.run
    BY <1>4, <1>5, <1>6, <1>10
  <2> QED
    BY <1>2, <2>3, <2>4 DEF EvidenceBacked
<1>15. PublishersOnRuns'
  BY <1>7, <1>8 DEF Inv, EvidenceSound, PublishersOnRuns
<1>16. ASSUME NEW t \in Sessions PROVE SessionSees(t)'
  <2>1. CASE t = s
    BY <1>2, <1>7, <1>8, <2>1 DEF SessionSees, redis
  <2>2. CASE t # s
    <3>1. SessionSees(t) /\ sess'[t] = sess[t]
      BY <1>8, <2>2 DEF Inv, EvidenceSound
    <3>2. \A n \in Visible(t) : n \in Visible(t)' /\ event'[n].run = event[n].run
      BY <1>3, <1>5, <2>2, EvidenceAssumption DEF Visible
    <3> QED
      BY <1>2, <3>1, <3>2 DEF SessionSees, redis
  <2> QED  BY <2>1, <2>2
<1> QED
  BY <1>12, <1>13, <1>14, <1>15, <1>16 DEF Inv, EvidenceSound
-----------------------------------------------------------------------------
(* Types and evidence *)

LEMMA InvInit == Init => Inv
<1> SUFFICES ASSUME Init PROVE Inv
  OBVIOUS
<1>1. TypeOK
  <2>1. NoEvent \in EventRow
    <3>1. <<>> \in Seq(Payloads)
      OBVIOUS
    <3> QED
      BY <3>1, Zenon DEF NoEvent, EventRow, ZeroHash
  <2>2. event \in [Ids -> EventRow]
    BY <2>1 DEF Init
  <2>3. checkpoint \in [owner : Sessions \cup {Nobody, "committed"}, at : Position]
    BY DEF Init, Position, Start
  <2>4. sess \in [Sessions -> Session]
    BY IdleTyped DEF Init
  <2>5. appended \in 0..MaxEvents
    BY EvidenceAssumption DEF Init
  <2>6. /\ publishes \in Nat /\ crashes \in Nat /\ outages \in Nat /\ saves \in Nat
        /\ overlapped \in BOOLEAN
    BY DEF Init
  <2>7. /\ stream \subseteq Ids /\ delivered \subseteq stream /\ acked \subseteq delivered
        /\ evidence \subseteq EvidenceRow /\ missed \subseteq Ids
    BY DEF Init
  <2> QED
    BY <2>2, <2>3, <2>4, <2>5, <2>6, <2>7, Zenon DEF TypeOK
<1>2. EvidenceSound
  BY EvidenceAssumption
     DEF Init, EvidenceSound, UsedRows, PublishersOnRuns, EvidenceBacked, SessionSees, Idle, NoEvent
<1> QED
  BY <1>1, <1>2 DEF Inv

LEMMA InvNext == Inv /\ [Next]_vars => Inv'
<1> SUFFICES ASSUME Inv, [Next]_vars PROVE Inv'
  OBVIOUS
<1>1. CASE UNCHANGED vars
  BY <1>1 DEF vars, chain, redis, ledger, Inv, TypeOK, EvidenceSound, UsedRows, PublishersOnRuns,
              EvidenceBacked, SessionSees, Committed, Visible
<1>2. CASE Next
  <2> PICK s \in Sessions : StepOf(s)
    BY <1>2, Zenon DEF Next, StepOf
  <2>1. CASE \E r \in Runs : StartPublish(s, r)
    BY <2>1, StartPublishSound
  <2>2. CASE Sweep(s)
    BY <2>2, SweepSound
  <2>3. CASE Crash(s)
    BY <2>3, CrashSound
  <2>4. CASE Advance(s)
    BY <2>4, AppendEventSound, CommitCancelSound, ConsumeOwnSound, TakeEntriesSound,
       StreamFailsSound, LookupCheckpointSound, InsertCheckpointSound, CheckpointConflictSound,
       MatchSound, DropEntriesSound, MaterializeSound, SaveSound, AckSound, Zenon DEF Advance
  <2> QED
    BY <2>1, <2>2, <2>3, <2>4, Zenon DEF StepOf
<1> QED
  BY <1>1, <1>2

THEOREM InvTheorem == Spec => []Inv
BY InvInit, InvNext, PTL DEF Spec

\* Events, entries, evidence and sessions keep their types; what is acknowledged
\* was handed out, what was handed out is in the stream (EvidenceStream).
THEOREM EvidenceTypes == Spec => []TypeOK
BY InvTheorem, PTL DEF Inv

\* The inductive invariant: every row that evidence names, or that a session is
\* about to name, is committed or commits together with that evidence
\* (_materialize_evidence_for_events).
THEOREM EvidenceSoundTheorem == Spec => []EvidenceSound
BY InvTheorem, PTL DEF Inv

\* Evidence is backed by committed events of its own run, whatever sessions
\* publish, consume, crash and lose Redis at the same time
\* (_consume_evidence_events_from_stream).
THEOREM EvidenceBackedTheorem == Spec => []EvidenceBacked
<1>1. Inv => EvidenceBacked
  BY DEF Inv, EvidenceSound
<1> QED
  BY <1>1, InvTheorem, PTL

-----------------------------------------------------------------------------
(* The hash chain *)

\* A rollback takes the rows chained to its own rows with it.
LEMMA RollbackGrounded ==
    ASSUME TypeOK, RowsGrounded, NEW s \in Sessions, Rollback(s)
    PROVE  RowsGrounded'
<1>1. event' = [n \in Ids |-> IF event[n].owner = s THEN NoEvent ELSE event[n]]
  BY Zenon DEF Rollback
<1>2. SUFFICES ASSUME NEW n \in Ids, event'[n].owner # Nobody, event'[n].prev # ZeroHash
               PROVE  \E m \in Ids : event'[m].owner \in {event'[n].owner, "committed"}
                                     /\ event'[m].self = event'[n].prev
  BY DEF RowsGrounded
<1>3. event[n].owner # s /\ event'[n] = event[n]
  BY <1>1, <1>2 DEF NoEvent
<1>4. PICK m \in Ids : event[m].owner \in {event[n].owner, "committed"}
                       /\ event[m].self = event[n].prev
  BY <1>2, <1>3 DEF RowsGrounded
<1>5. event[m].owner # s /\ event'[m] = event[m]
  BY <1>1, <1>3, <1>4, EvidenceAssumption
<1> QED
  BY <1>3, <1>4, <1>5

\* A commit takes the rows that its own rows are chained to with it.
LEMMA CommitGrounded ==
    ASSUME TypeOK, RowsGrounded, NEW s \in Sessions, CommitEvents(s)
    PROVE  RowsGrounded'
<1>1. /\ \A n \in Ids : event[n].owner # s => event'[n] = event[n]
      /\ \A n \in Ids : event[n].owner = s =>
            event'[n] = [event[n] EXCEPT !.owner = "committed"] /\ event'[n].owner = "committed"
  BY CommitTyped
<1>2. \A n \in Ids : event'[n].prev = event[n].prev /\ event'[n].self = event[n].self
  <2> SUFFICES ASSUME NEW n \in Ids
               PROVE  event'[n].prev = event[n].prev /\ event'[n].self = event[n].self
    OBVIOUS
  <2>1. event[n] \in EventRow
    BY DEF TypeOK
  <2>2. CASE event[n].owner = s
    BY <1>1, <2>1, <2>2 DEF EventRow
  <2>3. CASE event[n].owner # s
    BY <1>1, <2>3
  <2> QED  BY <2>2, <2>3
<1>3. SUFFICES ASSUME NEW n \in Ids, event'[n].owner # Nobody, event'[n].prev # ZeroHash
               PROVE  \E m \in Ids : event'[m].owner \in {event'[n].owner, "committed"}
                                     /\ event'[m].self = event'[n].prev
  BY DEF RowsGrounded
<1>4. event[n].owner # Nobody
  BY <1>1, <1>3, EvidenceAssumption
<1>5. PICK m \in Ids : event[m].owner \in {event[n].owner, "committed"}
                       /\ event[m].self = event[n].prev
  BY <1>2, <1>3, <1>4 DEF RowsGrounded
<1>6. event'[m].owner \in {event'[n].owner, "committed"}
  BY <1>1, <1>5, EvidenceAssumption
<1> QED
  BY <1>2, <1>5, <1>6

\* A new row is chained to a row its session sees.
LEMMA AppendGrounded ==
    ASSUME Inv, RowsGrounded, NEW s \in Sessions, AppendEvent(s)
    PROVE  RowsGrounded'
<1>1. PICK payload \in Payloads, prev \in TailHashes(event, Visible(s)) :
         event' = [event EXCEPT ![appended + 1] =
                      [owner |-> s, run |-> sess[s].run, ts |-> sess[s].ts,
                       prev |-> prev, self |-> SelfHash(prev, payload)]]
  BY Zenon DEF AppendEvent
<1> DEFINE k == appended + 1
<1>2. k \in Ids /\ event[k].owner = Nobody
  <2>1. appended < MaxEvents
    BY DEF AppendEvent
  <2> QED
    BY <2>1, EvidenceAssumption DEF Inv, EvidenceSound, UsedRows, TypeOK, Ids
<1>3. /\ event'[k].owner = s /\ event'[k].prev = prev
      /\ \A n \in Ids \ {k} : event'[n] = event[n]
  BY <1>1, <1>2 DEF Inv, TypeOK
<1> HIDE DEF k
<1>4. prev = ZeroHash \/ \E m \in Visible(s) : prev = event[m].self
  BY Zenon DEF TailHashes
<1>5. SUFFICES ASSUME NEW n \in Ids, event'[n].owner # Nobody, event'[n].prev # ZeroHash
               PROVE  \E m \in Ids : event'[m].owner \in {event'[n].owner, "committed"}
                                     /\ event'[m].self = event'[n].prev
  BY DEF RowsGrounded
<1>6. CASE n = k
  <2>1. PICK m \in Visible(s) : prev = event[m].self
    BY <1>3, <1>4, <1>5, <1>6
  <2>2. m \in Ids /\ event[m].owner \in {s, "committed"} /\ m # k
    BY <1>2, <2>1, EvidenceAssumption DEF Visible
  <2> QED
    BY <1>3, <1>6, <2>1, <2>2
<1>7. CASE n # k
  <2>1. event'[n] = event[n]
    BY <1>3, <1>7
  <2>2. PICK m \in Ids : event[m].owner \in {event[n].owner, "committed"}
                         /\ event[m].self = event[n].prev
    BY <1>5, <2>1 DEF RowsGrounded
  <2>3. m # k
    BY <1>2, <1>5, <2>1, <2>2, EvidenceAssumption
  <2> QED
    BY <1>3, <2>1, <2>2, <2>3
<1> QED
  BY <1>6, <1>7

LEMMA GroundedNext == Inv /\ RowsGrounded /\ [Next]_vars => RowsGrounded'
<1> SUFFICES ASSUME Inv, RowsGrounded, [Next]_vars PROVE RowsGrounded'
  OBVIOUS
<1>1. CASE UNCHANGED event
  BY <1>1 DEF RowsGrounded
<1>2. CASE \E s \in Sessions : Rollback(s)
  BY <1>2, RollbackGrounded DEF Inv
<1>3. CASE \E s \in Sessions : CommitEvents(s)
  BY <1>3, CommitGrounded DEF Inv
<1>4. CASE \E s \in Sessions : AppendEvent(s)
  BY <1>4, AppendGrounded
<1>5. CASE UNCHANGED vars
  BY <1>1, <1>5 DEF vars, chain
<1>6. CASE Next
  <2> PICK s \in Sessions : StepOf(s)
    BY <1>6, Zenon DEF Next, StepOf
  <2>1. Return(s) => Rollback(s) \/ CommitEvents(s)
    BY Zenon DEF Return, Commit
  <2>2. CASE \E r \in Runs : StartPublish(s, r)
    BY <1>1, <2>2 DEF StartPublish
  <2>3. CASE Sweep(s)
    BY <1>1, <2>3 DEF Sweep, chain
  <2>4. CASE Crash(s)
    BY <1>2, <2>4, Zenon DEF Crash
  <2>5. CASE CommitCancel(s) \/ Save(s)
    BY <1>3, <2>5, Zenon DEF CommitCancel, Save, Commit
  <2>6. CASE CheckpointConflict(s) \/ DropEntries(s)
    BY <1>2, <1>3, <2>1, <2>6, Zenon DEF CheckpointConflict, DropEntries
  <2>7. CASE Match(s)
    <3>1. Return(s) \/ UNCHANGED chain
      BY <2>7, Zenon DEF Match
    <3> QED
      BY <1>1, <1>2, <1>3, <2>1, <3>1 DEF chain
  <2>8. CASE \/ ConsumeOwn(s) \/ TakeEntries(s) \/ StreamFails(s) \/ LookupCheckpoint(s)
             \/ InsertCheckpoint(s) \/ Materialize(s) \/ Ack(s)
    <3>1. UNCHANGED chain
      BY <2>8, Zenon DEF ConsumeOwn, TakeEntries, StreamFails, LookupCheckpoint,
                         InsertCheckpoint, Materialize, Ack
    <3> QED
      BY <1>1, <3>1 DEF chain
  <2> QED
    BY <1>4, <2>2, <2>3, <2>4, <2>5, <2>6, <2>7, <2>8, Zenon DEF StepOf, Advance
<1> QED
  BY <1>5, <1>6

\* A row that waits for its commit is chained to a committed event, or to the one before it
\* in its own transaction (append_persisted_event).
THEOREM GroundedTheorem == Spec => []RowsGrounded
<1>1. Init => RowsGrounded
  BY DEF Init, RowsGrounded, NoEvent
<1> QED
  BY <1>1, InvTheorem, GroundedNext, PTL DEF Spec

\* No committed event is chained to one that was rolled back, for any number of
\* sessions that append to one chain at once (append_persisted_event).
THEOREM ChainTheorem == Spec => []ChainGrounded
<1>1. Init => RowsGrounded
  BY DEF Init, RowsGrounded, NoEvent
<1>2. RowsGrounded => ChainGrounded
  BY EvidenceAssumption DEF RowsGrounded, ChainGrounded, Committed
<1> QED
  BY <1>1, <1>2, InvTheorem, GroundedNext, PTL DEF Spec

-----------------------------------------------------------------------------
(* One chain *)

LEMMA SetEffect ==
    ASSUME TypeOK, NEW s \in Sessions, NEW me, Set(s, me)
    PROVE  sess'[s] = me /\ \A t \in Sessions \ {s} : sess'[t] = sess[t]
BY DEF TypeOK, Set

\* A step that changes no row leaves the publisher as it is.
LEMMA PublisherStays ==
    ASSUME OnePublisher, NEW s \in Sessions, UNCHANGED <<event, overlapped>>,
           \A t \in Sessions \ {s} : sess'[t] = sess[t],
           sess'[s].run = sess[s].run,
           sess'[s].pc \in {"idle", "ack"} => sess'[s].run = Nobody
    PROVE  OnePublisher'
<1>1. \A t \in Sessions : sess'[t].run = sess[t].run /\ Own(t)' = Own(t)
  BY DEF Own
<1> QED
  BY <1>1 DEF OnePublisher

\* The publisher that ends leaves no row that is not committed.
LEMMA PublisherEnds ==
    ASSUME OnePublisher, NEW s \in Sessions, overlapped' = overlapped,
           \A t \in Sessions \ {s} : sess'[t] = sess[t],
           sess'[s].run = Nobody,
           \A n \in Ids : event[n].owner # s => event'[n] = event[n],
           \A n \in Ids : event[n].owner = s =>
              event'[n].owner \in {Nobody, "committed"}
              /\ (event'[n].owner # Nobody => event'[n].prev = event[n].prev)
    PROVE  OnePublisher'
<1>1. \A n \in Ids : event'[n].owner # Nobody =>
         event[n].owner # Nobody /\ event'[n].prev = event[n].prev
  BY EvidenceAssumption
<1>2. Own(s)' = {} /\ \A t \in Sessions \ {s} : Own(t)' = Own(t)
  BY EvidenceAssumption DEF Own
<1> QED
  BY <1>1, <1>2, EvidenceAssumption DEF OnePublisher

LEMMA EndPublisher ==
    ASSUME Inv, OnePublisher, NEW s \in Sessions, Rollback(s) \/ Commit(s)
    PROVE  OnePublisher'
<1>1. /\ sess' = [sess EXCEPT ![s] = Idle] /\ overlapped' = overlapped
      /\ \A n \in Ids : event[n].owner # s => event'[n] = event[n]
      /\ \A n \in Ids : event[n].owner = s =>
            event'[n].owner \in {Nobody, "committed"}
            /\ (event'[n].owner # Nobody => event'[n] = [event[n] EXCEPT !.owner = "committed"])
  BY EndTyped DEF Inv
<1>2. sess'[s] = Idle /\ \A t \in Sessions \ {s} : sess'[t] = sess[t]
  BY <1>1, SetEffect DEF Inv, Set
<1>3. sess'[s].run = Nobody
  BY <1>2 DEF Idle
<1>4. \A n \in Ids : [event[n] EXCEPT !.owner = "committed"].prev = event[n].prev
  BY DEF Inv, TypeOK, EventRow
<1>5. \A n \in Ids : event[n].owner = s =>
         event'[n].owner \in {Nobody, "committed"}
         /\ (event'[n].owner # Nobody => event'[n].prev = event[n].prev)
  BY <1>1, <1>4
<1> QED
  BY <1>1, <1>2, <1>3, <1>5, PublisherEnds

LEMMA SavePublisher ==
    ASSUME Inv, OnePublisher, NEW s \in Sessions, Save(s)
    PROVE  OnePublisher'
<1> DEFINE me == IF sess[s].source = "stream" THEN [Idle EXCEPT !.pc = "ack", !.batch = sess[s].batch]
                 ELSE Idle
<1>1. Set(s, me) /\ CommitEvents(s) /\ overlapped' = overlapped
  BY Zenon DEF Save
<1>2. me.run = Nobody
  BY DEF Idle
<1>3. /\ \A n \in Ids : event[n].owner # s => event'[n] = event[n]
      /\ \A n \in Ids : event[n].owner = s =>
            event'[n] = [event[n] EXCEPT !.owner = "committed"] /\ event'[n].owner = "committed"
  BY <1>1, CommitTyped DEF Inv
<1>4. \A n \in Ids : [event[n] EXCEPT !.owner = "committed"].prev = event[n].prev
  BY DEF Inv, TypeOK, EventRow
<1> HIDE DEF me
<1>5. sess'[s] = me /\ \A t \in Sessions \ {s} : sess'[t] = sess[t]
  BY <1>1, SetEffect DEF Inv
<1>6. \A n \in Ids : event[n].owner = s =>
         event'[n].owner = "committed" /\ event'[n].prev = event[n].prev
  BY <1>3, <1>4
<1> QED
  BY <1>1, <1>2, <1>3, <1>5, <1>6, PublisherEnds

\* A publisher starts alone, or the transactions overlap.
LEMMA StartPublisher ==
    ASSUME Inv, OnePublisher, NEW s \in Sessions, NEW r \in Runs, StartPublish(s, r)
    PROVE  OnePublisher'
<1> DEFINE me == [Idle EXCEPT !.pc = "publish", !.run = r, !.ts = publishes + 1]
<1>1. /\ Set(s, me) /\ sess[s].pc = "idle" /\ UNCHANGED event
      /\ overlapped' = (overlapped \/ \E t \in Sessions : sess[t].run # Nobody)
  BY Zenon DEF StartPublish
<1>2. me.pc = "publish" /\ me.run = r
  BY DEF Idle
<1> HIDE DEF me
<1>3. sess'[s] = me /\ \A t \in Sessions \ {s} : sess'[t] = sess[t]
  BY <1>1, SetEffect DEF Inv
<1>4. \A t \in Sessions : Own(t)' = Own(t)
  BY <1>1 DEF Own
<1>5. ~overlapped' => ~overlapped /\ \A t \in Sessions : sess[t].run = Nobody
  BY <1>1
<1>6. ~overlapped' => \A t \in Sessions : sess'[t].run # Nobody => t = s
  BY <1>3, <1>5
<1>7. ~overlapped' => \A t \in Sessions : Own(t) = {}
  BY <1>5 DEF OnePublisher
<1> QED
  BY <1>1, <1>2, <1>3, <1>4, <1>5, <1>6, <1>7 DEF OnePublisher

\* The publisher sees every row, so it follows one that no row follows yet.
LEMMA AppendPublisher ==
    ASSUME Inv, OnePublisher, NEW s \in Sessions, AppendEvent(s)
    PROVE  OnePublisher'
<1>1. PICK payload \in Payloads, prev \in TailHashes(event, Visible(s)) :
         event' = [event EXCEPT ![appended + 1] =
                      [owner |-> s, run |-> sess[s].run, ts |-> sess[s].ts,
                       prev |-> prev, self |-> SelfHash(prev, payload)]]
  BY Zenon DEF AppendEvent
<1>2. sess[s].pc = "publish" /\ appended < MaxEvents /\ UNCHANGED <<sess, overlapped>>
  BY DEF AppendEvent
<1>3. sess[s].run \in Runs /\ sess[s].run # Nobody
  BY <1>2, EvidenceAssumption DEF Inv, EvidenceSound, PublishersOnRuns
<1> DEFINE k == appended + 1
<1>4. k \in Ids /\ event[k].owner = Nobody
  BY <1>2, EvidenceAssumption DEF Inv, EvidenceSound, UsedRows, TypeOK, Ids
<1>5. /\ event'[k].owner = s /\ event'[k].prev = prev
      /\ \A n \in Ids \ {k} : event'[n] = event[n]
  BY <1>1, <1>4 DEF Inv, TypeOK
<1> HIDE DEF k
<1>6. SUFFICES ASSUME ~overlapped
      PROVE  /\ \A t \in Sessions : Own(t)' # {} => sess[t].run # Nobody
             /\ \A n, m \in Ids :
                   event'[n].owner # Nobody /\ event'[m].owner # Nobody
                   /\ event'[n].prev = event'[m].prev => n = m
  BY <1>2 DEF OnePublisher
<1>7. ASSUME NEW t \in Sessions, Own(t)' # {} PROVE sess[t].run # Nobody
  <2>1. PICK n \in Ids : event'[n].owner = t
    BY <1>7 DEF Own
  <2>2. CASE n = k
    BY <1>3, <1>5, <2>1, <2>2
  <2>3. CASE n # k
    BY <1>5, <1>6, <2>1, <2>3 DEF Own, OnePublisher
  <2> QED  BY <2>2, <2>3
<1>8. \A n \in Ids : event[n].owner # Nobody => n \in Visible(s)
  <2> SUFFICES ASSUME NEW n \in Ids, event[n].owner # Nobody, event[n].owner # "committed"
               PROVE  event[n].owner = s
    BY DEF Visible
  <2>1. event[n].owner \in Sessions
    BY DEF Inv, TypeOK, EventRow
  <2>2. n \in Own(event[n].owner)
    BY DEF Own
  <2> QED
    BY <1>3, <1>6, <2>1, <2>2 DEF OnePublisher
<1>9. \A n \in Visible(s) : event[n].prev # prev
  <2>1. CASE Visible(s) = {}
    BY <2>1
  <2>2. CASE Visible(s) # {}
    BY <2>2, Zenon DEF TailHashes
  <2> QED  BY <2>1, <2>2
<1>10. \A n \in Ids \ {k} : event'[n].owner # Nobody => event'[n].prev # prev
  BY <1>5, <1>8, <1>9
<1>11. \A n, m \in Ids \ {k} :
          event'[n].owner # Nobody /\ event'[m].owner # Nobody /\ event'[n].prev = event'[m].prev
             => n = m
  BY <1>5, <1>6 DEF OnePublisher
<1> QED
  BY <1>5, <1>7, <1>10, <1>11

\* A session that goes on changes no row and stays with what it publishes.
LEMMA GoesOn ==
    ASSUME Inv, NEW s \in Sessions, ~Return(s),
           \/ ConsumeOwn(s) \/ TakeEntries(s) \/ StreamFails(s) \/ LookupCheckpoint(s)
           \/ InsertCheckpoint(s) \/ Match(s) \/ Materialize(s)
    PROVE  /\ UNCHANGED <<event, overlapped>>
           /\ \E me : Set(s, me) /\ me.run = sess[s].run /\ me.pc \notin {"idle", "ack"}
<1>0. sess[s] \in Session
  BY DEF Inv, TypeOK
<1>1. UNCHANGED <<event, overlapped>>
  BY DEF ConsumeOwn, TakeEntries, StreamFails, LookupCheckpoint,
                    InsertCheckpoint, Match, Materialize, chain
<1>2. \E me : Set(s, me) /\ me.run = sess[s].run /\ me.pc \notin {"idle", "ack"}
  <2>1. CASE ConsumeOwn(s)
    <3> WITNESS [sess[s] EXCEPT !.pc = "read"]
    <3> QED  BY <1>0, <2>1 DEF ConsumeOwn, Session
  <2>2. CASE TakeEntries(s)
    <3> WITNESS [sess[s] EXCEPT !.pc = "lookup", !.batch = NextEntries]
    <3> QED  BY <1>0, <2>2 DEF TakeEntries, Session
  <2>3. CASE StreamFails(s)
    <3> WITNESS [sess[s] EXCEPT !.pc = "lookup", !.source = "table"]
    <3> QED  BY <1>0, <2>3 DEF StreamFails, Session
  <2>4. CASE LookupCheckpoint(s)
    <3> WITNESS IF checkpoint.owner = "committed"
                THEN [sess[s] EXCEPT !.pc = "match", !.loaded = checkpoint.at]
                ELSE [sess[s] EXCEPT !.pc = "insert"]
    <3> QED  BY <1>0, <2>4 DEF LookupCheckpoint, Session
  <2>5. CASE InsertCheckpoint(s)
    <3> WITNESS [sess[s] EXCEPT !.pc = "match"]
    <3> QED  BY <1>0, <2>5 DEF InsertCheckpoint, Session
  <2>6. CASE Match(s)
    <3> WITNESS [sess[s] EXCEPT !.pc = IF Rows(s) = {} THEN "drop" ELSE "materialize",
                                !.found = Rows(s)]
    <3> QED  BY <1>0, <2>6, MatchEffect DEF Session
  <2>7. CASE Materialize(s)
    <3> WITNESS [sess[s] EXCEPT !.pc = "save",
                                !.fresh = {record \in Records(sess[s]) : ~Recorded(record)}]
    <3> QED  BY <1>0, <2>7 DEF Materialize, Session
  <2> QED
    BY <2>1, <2>2, <2>3, <2>4, <2>5, <2>6, <2>7
<1> QED
  BY <1>1, <1>2

LEMMA PublisherNext == Inv /\ OnePublisher /\ [Next]_vars => OnePublisher'
<1> SUFFICES ASSUME Inv, OnePublisher, [Next]_vars PROVE OnePublisher'
  OBVIOUS
<1>1. CASE UNCHANGED vars
  BY <1>1 DEF vars, chain, OnePublisher, Own
<1>2. CASE Next
  <2> PICK s \in Sessions : StepOf(s)
    BY <1>2, Zenon DEF Next, StepOf
  <2>1. Return(s) => Rollback(s) \/ Commit(s)
    BY Zenon DEF Return
  <2>2. sess[s] \in Session
    BY DEF Inv, TypeOK
  <2>3. CASE \E r \in Runs : StartPublish(s, r)
    BY <2>3, StartPublisher
  <2>4. CASE Sweep(s)
    <3>1. Set(s, [Idle EXCEPT !.pc = "read"]) /\ sess[s].pc = "idle" /\ UNCHANGED <<event, overlapped>>
      BY <2>4 DEF Sweep, chain
    <3>2. [Idle EXCEPT !.pc = "read"].run = Nobody /\ sess[s].run = Nobody
      BY <3>1 DEF Idle, OnePublisher
    <3> QED
      BY <3>1, <3>2, SetEffect, PublisherStays DEF Inv
  <2>5. CASE Crash(s) \/ CommitCancel(s) \/ CheckpointConflict(s) \/ DropEntries(s)
    <3>1. Rollback(s) \/ Commit(s)
      BY <2>1, <2>5, Zenon DEF Crash, CommitCancel, CheckpointConflict, DropEntries
    <3> QED
      BY <3>1, EndPublisher
  <2>6. CASE Ack(s)
    <3>1. Set(s, Idle) /\ sess[s].pc = "ack" /\ UNCHANGED <<event, overlapped>>
      BY <2>6 DEF Ack, chain
    <3>2. Idle.run = Nobody /\ sess[s].run = Nobody
      BY <3>1 DEF Idle, OnePublisher
    <3> QED
      BY <3>1, <3>2, SetEffect, PublisherStays DEF Inv
  <2>7. CASE \/ ConsumeOwn(s) \/ TakeEntries(s) \/ StreamFails(s) \/ LookupCheckpoint(s)
             \/ InsertCheckpoint(s) \/ Match(s) \/ Materialize(s)
    <3>1. CASE Return(s)
      BY <2>1, <3>1, EndPublisher
    <3>2. CASE ~Return(s)
      <4>1. UNCHANGED <<event, overlapped>>
            /\ \E me : Set(s, me) /\ me.run = sess[s].run /\ me.pc \notin {"idle", "ack"}
        BY <2>7, <3>2, GoesOn
      <4> QED
        BY <4>1, SetEffect, PublisherStays DEF Inv
    <3> QED  BY <3>1, <3>2
  <2> QED
    BY <2>3, <2>4, <2>5, <2>6, <2>7, AppendPublisher, SavePublisher, Zenon DEF StepOf, Advance
<1> QED
  BY <1>1, <1>2

\* Unless publishing transactions overlapped, one of them at a time has rows that
\* are not committed, and no two rows follow the same one (append_persisted_event).
THEOREM PublisherTheorem == Spec => []OnePublisher
<1>1. Init => OnePublisher
  BY EvidenceAssumption DEF Init, OnePublisher, Own, Idle, NoEvent
<1> QED
  BY <1>1, InvTheorem, PublisherNext, PTL DEF Spec

\* The committed events of an asset form one chain, for any number of events,
\* crashes and rollbacks, as long as no two publishing transactions are open at
\* once (_asset_chain_tail_hash).
THEOREM LinearTheorem == Spec => []ChainLinear
<1>1. OnePublisher => ChainLinear
  BY EvidenceAssumption DEF OnePublisher, ChainLinear, Committed
<1> QED
  BY <1>1, PublisherTheorem, PTL

-----------------------------------------------------------------------------
(* Listings: the events of a record in the order they were consumed *)

LEMMA LeastExists ==
    ASSUME NEW S, S \subseteq Nat, S # {}
    PROVE  \E x \in S : \A y \in S : x <= y
<1>1. PICK x \in S : \A y \in S : ~ (<<y, x>> \in OpToRel(<, Nat))
  BY NatLessThanWellFounded, WFMin
<1>2. \A y \in S : ~ (y < x)
  BY <1>1, Zenon DEF OpToRel
<1> QED
  BY <1>2

\* Before is a strict total order of the events, whatever is read.
LEMMA BeforeOrder ==
    ASSUME TypeOK, NEW source
    PROVE  /\ \A n \in Ids : ~Before(n, n, source)
           /\ \A n, m, k \in Ids :
                 Before(n, m, source) /\ Before(m, k, source) => Before(n, k, source)
           /\ \A n, m \in Ids : n # m => Before(n, m, source) \/ Before(m, n, source)
<1>1. \A n \in Ids : n \in Nat /\ event[n].ts \in Nat /\ Uuid[n] \in Nat
  BY IdsFinite, EvidenceAssumption DEF TypeOK, EventRow
<1>2. CASE source = "stream"
  BY <1>1, <1>2 DEF Before
<1>3. CASE source # "stream"
  BY <1>1, <1>3, EvidenceAssumption DEF Before
<1> QED
  BY <1>2, <1>3

\* A listing names every event once.
LEMMA ListingOnto ==
    ASSUME TypeOK, NEW S \in SUBSET Ids, NEW source, NEW q \in Listing(S, source)
    PROVE  /\ q \in [1..Cardinality(S) -> S] /\ Cardinality(S) \in Nat
           /\ \A n \in S : \E i \in 1..Cardinality(S) : q[i] = n
           /\ \A i, j \in 1..Cardinality(S) :
                 /\ i < j => Before(q[i], q[j], source)
                 /\ q[i] = q[j] => i = j
<1> DEFINE k == Cardinality(S)
<1>1. IsFiniteSet(S) /\ k \in Nat
  BY IdsFinite
<1>2. q \in [1..k -> S] /\ \A i, j \in 1..k : i < j => Before(q[i], q[j], source)
  BY DEF Listing
<1>3. IsFiniteSet(1..k) /\ Cardinality(1..k) = k
  BY <1>1, FS_Interval
<1> HIDE DEF k
<1>4. \A i, j \in 1..k : q[i] = q[j] => i = j
  <2> SUFFICES ASSUME NEW i \in 1..k, NEW j \in 1..k, i < j PROVE q[i] # q[j]
    BY <1>1
  <2> QED
    BY <1>2, BeforeOrder
<1>5. q \in Injection(1..k, S)
  BY <1>2, <1>4 DEF Injection, IsInjective
<1>6. q \in Surjection(1..k, S)
  BY <1>1, <1>3, <1>5, FS_Injection DEF k
<1>7. \A n \in S : \E i \in 1..k : q[i] = n
  BY <1>6 DEF Surjection
<1> QED
  BY <1>1, <1>2, <1>4, <1>7 DEF k

\* There is one listing of a set of events at most ...
LEMMA ListingUnique ==
    ASSUME TypeOK, NEW S \in SUBSET Ids, NEW source,
           NEW p \in Listing(S, source), NEW q \in Listing(S, source)
    PROVE  p = q
<1> DEFINE k == Cardinality(S)
           differ == {i \in 1..k : p[i] # q[i]}
<1>1. /\ p \in [1..k -> S] /\ k \in Nat
      /\ \A n \in S : \E i \in 1..k : p[i] = n
      /\ \A i, j \in 1..k : (i < j => Before(p[i], p[j], source)) /\ (p[i] = p[j] => i = j)
  BY ListingOnto
<1>2. /\ q \in [1..k -> S]
      /\ \A n \in S : \E i \in 1..k : q[i] = n
      /\ \A i, j \in 1..k : (i < j => Before(q[i], q[j], source)) /\ (q[i] = q[j] => i = j)
  BY ListingOnto
<1> HIDE DEF k
<1>3. ASSUME differ # {} PROVE FALSE
  <2>1. PICK i \in differ : \A j \in differ : i <= j
    <3>1. differ \subseteq Nat
      BY <1>1
    <3> HIDE DEF differ
    <3> QED  BY <1>3, <3>1, LeastExists
  <2>2. i \in 1..k /\ p[i] # q[i] /\ \A j \in 1..k : j < i => p[j] = q[j]
    BY <1>1, <2>1
  <2>3. PICK j \in 1..k : q[j] = p[i]
    BY <1>1, <1>2, <2>2
  <2>4. i < j
    BY <1>1, <2>2, <2>3
  <2>5. PICK h \in 1..k : p[h] = q[i]
    BY <1>1, <1>2, <2>2
  <2>6. i < h
    <3>1. h # i
      BY <2>2, <2>5
    <3>2. h < i => q[h] = q[i]
      BY <2>2, <2>5
    <3> QED
      BY <1>1, <1>2, <2>2, <3>1, <3>2
  <2>7. Before(q[i], p[i], source) /\ Before(p[i], q[i], source)
    BY <1>1, <1>2, <2>2, <2>3, <2>4, <2>5, <2>6
  <2>8. p[i] \in Ids /\ q[i] \in Ids
    BY <1>1, <1>2, <2>2
  <2> QED
    BY <2>7, <2>8, BeforeOrder
<1>4. \A i \in 1..k : p[i] = q[i]
  BY <1>3
<1> QED
  BY <1>1, <1>2, <1>4

\* A set of events has a last one.
LEMMA LastExists ==
    ASSUME TypeOK, NEW source, NEW S \in SUBSET Ids, S # {}
    PROVE  \E last \in S : \A n \in S : n = last \/ Before(n, last, source)
<1> DEFINE HasLast(T) == \E last \in T : \A n \in T : n = last \/ Before(n, last, source)
           Bad == {T \in SUBSET Ids : T # {} /\ ~HasLast(T)}
           Sizes == {Cardinality(T) : T \in Bad}
<1>1. SUFFICES ASSUME S \in Bad PROVE FALSE
  OBVIOUS
<1>2. Sizes \subseteq Nat /\ Sizes # {}
  BY <1>1, IdsFinite
<1>3. PICK least \in Sizes : \A size \in Sizes : least <= size
  <2> HIDE DEF Sizes
  <2> QED  BY <1>2, LeastExists
<1>4. PICK T \in Bad : least = Cardinality(T)
  BY <1>3
<1>5. PICK x \in T : TRUE
  BY <1>4
<1> DEFINE Rest == T \ {x}
<1>6. Rest \in SUBSET Ids /\ IsFiniteSet(T) /\ T \in SUBSET Ids
  BY <1>4, IdsFinite
<1>7. Cardinality(Rest) = Cardinality(T) - 1 /\ Cardinality(T) \in Nat
  BY <1>5, <1>6, FS_RemoveElement, IdsFinite
<1>8. Rest \notin Bad
  <2>1. Cardinality(Rest) \in Nat /\ ~(least <= Cardinality(Rest))
    BY <1>4, <1>6, <1>7, IdsFinite
  <2> QED
    BY <1>3, <2>1
<1>9. CASE Rest = {}
  <2>1. HasLast(T)
    BY <1>5, <1>9
  <2> QED
    BY <1>4, <2>1
<1>10. CASE Rest # {}
  <2>1. PICK y \in Rest : \A n \in Rest : n = y \/ Before(n, y, source)
    BY <1>6, <1>8, <1>10
  <2>2. x \in Ids /\ y \in Ids /\ x # y /\ T \subseteq Ids
    BY <1>5, <1>6, <2>1
  <2>3. CASE Before(y, x, source)
    <3>1. \A n \in T : n = x \/ Before(n, x, source)
      BY <2>1, <2>2, <2>3, BeforeOrder
    <3> QED
      BY <1>4, <1>5, <3>1
  <2>4. CASE Before(x, y, source)
    <3>1. \A n \in T : n = y \/ Before(n, y, source)
      BY <2>1, <2>4
    <3> QED
      BY <1>4, <2>1, <3>1
  <2> QED
    BY <2>2, <2>3, <2>4, BeforeOrder
<1> QED
  BY <1>9, <1>10

\* ... and one at least: that of the others, then the last event.
LEMMA ListingExists ==
    ASSUME TypeOK, NEW source, NEW S \in SUBSET Ids
    PROVE  Listing(S, source) # {}
<1> DEFINE Bad == {T \in SUBSET Ids : Listing(T, source) = {}}
           Sizes == {Cardinality(T) : T \in Bad}
<1>1. SUFFICES ASSUME S \in Bad PROVE FALSE
  OBVIOUS
<1>2. Sizes \subseteq Nat /\ Sizes # {}
  BY <1>1, IdsFinite
<1>3. PICK least \in Sizes : \A size \in Sizes : least <= size
  <2> HIDE DEF Sizes
  <2> QED  BY <1>2, LeastExists
<1>4. PICK T \in Bad : least = Cardinality(T)
  BY <1>3
<1>5. T \in SUBSET Ids /\ IsFiniteSet(T) /\ Cardinality(T) \in Nat
  BY <1>4, IdsFinite
<1>6. CASE T = {}
  <2>1. Cardinality(T) = 0
    BY <1>6, FS_EmptySet
  <2> DEFINE q == [i \in 1..0 |-> 0]
  <2>2. q \in [1..0 -> T] /\ \A i, j \in DOMAIN q : i < j => Before(q[i], q[j], source)
    OBVIOUS
  <2>3. q \in Listing(T, source)
    BY <2>1, <2>2 DEF Listing
  <2> QED
    BY <1>4, <2>3
<1>7. CASE T # {}
  <2>1. PICK last \in T : \A n \in T : n = last \/ Before(n, last, source)
    BY <1>5, <1>7, LastExists
  <2> DEFINE Rest == T \ {last}
             k == Cardinality(T)
  <2>2. Rest \in SUBSET Ids /\ Cardinality(Rest) = k - 1 /\ Cardinality(Rest) \in Nat
    BY <1>5, <2>1, FS_RemoveElement, IdsFinite
  <2>3. Rest \notin Bad
    <3>1. ~(least <= Cardinality(Rest))
      BY <1>4, <1>5, <2>2
    <3> QED
      BY <1>3, <3>1
  <2>4. PICK p : p \in Listing(Rest, source)
    BY <2>2, <2>3
  <2>5. p \in [1..(k - 1) -> Rest] /\ \A i, j \in 1..(k - 1) : i < j => Before(p[i], p[j], source)
    BY <2>2, <2>4 DEF Listing
  <2> DEFINE q == [i \in 1..k |-> IF i = k THEN last ELSE p[i]]
  <2>6. k \in Nat
    BY <1>5
  <2> HIDE DEF k
  <2>7. q \in [1..k -> T]
    BY <2>1, <2>5, <2>6
  <2>8. ASSUME NEW i \in 1..k, NEW j \in 1..k, i < j PROVE Before(q[i], q[j], source)
    <3>1. i \in 1..(k - 1) /\ q[i] = p[i] /\ p[i] \in Rest
      BY <2>5, <2>6, <2>8
    <3>2. CASE j = k
      BY <2>1, <3>1, <3>2
    <3>3. CASE j # k
      BY <2>5, <2>6, <2>8, <3>1, <3>3
    <3> QED  BY <3>2, <3>3
  <2>9. q \in Listing(T, source)
    BY <2>7, <2>8 DEF Listing, k
  <2> QED
    BY <1>4, <2>9
<1> QED
  BY <1>6, <1>7

-----------------------------------------------------------------------------
(* Records and the events found *)

\* A record lists all events found of its run; equal records are one.
LEMMA RecordListing ==
    ASSUME NEW me, NEW record \in Records(me)
    PROVE  /\ record = [run |-> record.run, events |-> record.events]
           /\ record.events \in Listing({n \in me.found : event[n].run = record.run}, me.source)
<1>1. PICK r \in {event[n].run : n \in me.found} :
         \E q \in Listing({n \in me.found : event[n].run = r}, me.source) :
            record = [run |-> r, events |-> q]
  BY Zenon DEF Records
<1>2. PICK q \in Listing({n \in me.found : event[n].run = r}, me.source) :
         record = [run |-> r, events |-> q]
  BY <1>1
<1>3. record.run = r /\ record.events = q
  BY <1>2
<1> QED
  BY <1>2, <1>3

LEMMA RecordsCover ==
    ASSUME Inv, NEW s \in Sessions
    PROVE  /\ \A record \in Records(sess[s]) : \A n \in Ids : Covers(record, n) =>
                 n \in sess[s].found /\ event[n].run = record.run
           /\ \A n \in sess[s].found : \E record \in Records(sess[s]) : Covers(record, n)
           /\ Disjoint(Records(sess[s]))
<1> DEFINE me == sess[s]
           Of(r) == {n \in me.found : event[n].run = r}
<1>1. me.found \subseteq Ids /\ TypeOK
  BY DEF Inv, TypeOK, Session
<1> HIDE DEF me
<1>2. ASSUME NEW record \in Records(me), NEW n \in Ids, Covers(record, n)
      PROVE  n \in me.found /\ event[n].run = record.run
  <2>1. record.events \in Listing(Of(record.run), me.source)
    BY RecordListing
  <2>2. record.events \in [1..Cardinality(Of(record.run)) -> Of(record.run)]
    BY <2>1 DEF Listing
  <2>3. n \in Of(record.run)
    BY <1>2, <2>2 DEF Covers
  <2> QED
    BY <2>3
<1>3. ASSUME NEW n \in me.found PROVE \E record \in Records(me) : Covers(record, n)
  <2> DEFINE r == event[n].run
  <2>1. Of(r) \in SUBSET Ids /\ n \in Of(r)
    BY <1>1
  <2>2. PICK q : q \in Listing(Of(r), me.source)
    BY <1>1, <2>1, ListingExists
  <2>3. [run |-> r, events |-> q] \in Records(me)
    <3> DEFINE Made(o) == {[run |-> o, events |-> p] : p \in Listing(Of(o), me.source)}
    <3>1. Records(me) = UNION {Made(o) : o \in {event[m].run : m \in me.found}}
      BY Zenon DEF Records
    <3>2. [run |-> r, events |-> q] \in Made(r)
      BY <2>2
    <3> HIDE DEF Made
    <3> QED
      BY <3>1, <3>2
  <2> HIDE DEF Of
  <2>4. \E i \in DOMAIN q : q[i] = n
    <3>1. /\ q \in [1..Cardinality(Of(r)) -> Of(r)]
          /\ \E i \in 1..Cardinality(Of(r)) : q[i] = n
      BY <1>1, <2>1, <2>2, ListingOnto
    <3> QED
      BY <3>1
  <2>5. Covers([run |-> r, events |-> q], n)
    BY <2>4 DEF Covers
  <2> QED
    BY <2>3, <2>5
<1>4. ASSUME NEW record \in Records(me), NEW other \in Records(me), NEW n \in Ids,
             Covers(record, n), Covers(other, n)
      PROVE  record = other
  <2>1. record.run = other.run
    BY <1>2, <1>4
  <2>2. record.events \in Listing(Of(record.run), me.source)
        /\ other.events \in Listing(Of(record.run), me.source)
    BY <2>1, RecordListing
  <2>3. Of(record.run) \in SUBSET Ids
    BY <1>1
  <2> HIDE DEF Of
  <2>4. record.events = other.events
    BY <1>1, <2>2, <2>3, ListingUnique
  <2>5. record = [run |-> record.run, events |-> record.events]
        /\ other = [run |-> other.run, events |-> other.events]
    BY RecordListing
  <2> QED
    BY <2>1, <2>4, <2>5
<1> QED
  BY <1>2, <1>3, <1>4 DEF Disjoint, me

-----------------------------------------------------------------------------
(* Entries are acknowledged after their evidence *)

\* What one session did and what the others hold.
LEMMA AccountedStep ==
    ASSUME EntriesAccounted, NEW s \in Sessions,
           \A t \in Sessions \ {s} : sess'[t] = sess[t],
           evidence \subseteq evidence', missed \subseteq missed',
           \A n \in acked' : n \in acked \/ n \in missed \/ Evidenced(n),
           Stage(s)', EntriesHandled(s)'
    PROVE  EntriesAccounted'
<1>1. \A n : Evidenced(n) => Evidenced(n)'
  BY DEF Evidenced
<1>2. AckAfterEvidence'
  BY <1>1 DEF EntriesAccounted, AckAfterEvidence
<1>3. ASSUME NEW t \in Sessions \ {s} PROVE Stage(t)' /\ EntriesHandled(t)'
  <2>1. Stage(t) /\ EntriesHandled(t) /\ sess'[t] = sess[t]
    BY DEF EntriesAccounted
  <2>2. Stage(t)'
    BY <2>1 DEF Stage
  <2>3. EntriesHandled(t)'
    BY <1>1, <2>1 DEF EntriesHandled
  <2> QED  BY <2>2, <2>3
<1> QED
  BY <1>2, <1>3 DEF EntriesAccounted

\* A session that holds nothing has nothing to account for.
LEMMA EmptyAccounted ==
    ASSUME NEW s \in Sessions, NEW me, sess'[s] = me,
           me.batch = {}, me.found = {}, me.fresh = {}, me.source = "stream"
    PROVE  Stage(s)' /\ EntriesHandled(s)'
BY DEF Stage, EntriesHandled

LEMMA EndAccounted ==
    ASSUME Inv, EntriesAccounted, NEW s \in Sessions, Rollback(s) \/ Commit(s),
           evidence' = evidence, missed \subseteq missed',
           \A n \in acked' : n \in acked \/ n \in missed \/ Evidenced(n)
    PROVE  EntriesAccounted'
<1>1. Set(s, Idle)
  BY Zenon DEF Rollback, Commit
<1>2. sess'[s] = Idle /\ \A t \in Sessions \ {s} : sess'[t] = sess[t]
  BY <1>1, SetEffect DEF Inv
<1>3. Stage(s)' /\ EntriesHandled(s)'
  BY <1>2, EmptyAccounted DEF Idle
<1> QED
  BY <1>2, <1>3, AccountedStep

LEMMA MatchAccounted ==
    ASSUME Inv, EntriesAccounted, NEW s \in Sessions, Match(s)
    PROVE  EntriesAccounted'
<1> DEFINE me == [sess[s] EXCEPT !.pc = IF Rows(s) = {} THEN "drop" ELSE "materialize",
                                 !.found = Rows(s)]
<1>1. /\ UNCHANGED <<redis, ledger>> /\ sess[s].pc = "match"
      /\ missed' = missed \cup (sess[s].batch \ Visible(s))
      /\ sess[s].source = "stream" => Rows(s) = sess[s].batch \cap Visible(s)
      /\ Return(s) \/ (Set(s, me) /\ ~(Rows(s) = {} /\ sess[s].batch = {}))
  BY MatchEffect, Zenon
<1>2. UNCHANGED <<acked, evidence>>
  BY <1>1 DEF redis, ledger
<1>3. CASE Return(s)
  <2>1. Rollback(s) \/ Commit(s)
    BY <1>3, Zenon DEF Return
  <2> QED
    BY <1>1, <1>2, <2>1, EndAccounted
<1>4. CASE Set(s, me) /\ ~(Rows(s) = {} /\ sess[s].batch = {})
  <2>1. sess[s] \in Session /\ Stage(s)
    BY DEF Inv, TypeOK, EntriesAccounted
  <2>2. /\ me.pc = (IF Rows(s) = {} THEN "drop" ELSE "materialize") /\ me.found = Rows(s)
        /\ me.batch = sess[s].batch /\ me.fresh = sess[s].fresh /\ me.source = sess[s].source
    BY <2>1 DEF Session
  <2> HIDE DEF me
  <2>3. sess'[s] = me /\ \A t \in Sessions \ {s} : sess'[t] = sess[t]
    BY <1>4, SetEffect DEF Inv
  <2>4. sess[s].batch \subseteq Rows(s) \cup missed'
    <3>1. CASE sess[s].source = "stream"
      BY <1>1, <3>1
    <3>2. CASE sess[s].source = "table"
      BY <2>1, <3>2 DEF Stage
    <3> QED  BY <2>1, <3>1, <3>2 DEF Session
  <2>5. Stage(s)'
    BY <1>1, <2>1, <2>2, <2>3 DEF Stage
  <2>6. EntriesHandled(s)'
    BY <2>2, <2>3, <2>4 DEF EntriesHandled
  <2> QED
    BY <1>1, <1>2, <2>3, <2>5, <2>6, AccountedStep
<1> QED
  BY <1>1, <1>3, <1>4

LEMMA MaterializeAccounted ==
    ASSUME Inv, EntriesAccounted, NEW s \in Sessions, Materialize(s)
    PROVE  EntriesAccounted'
<1> DEFINE fresh == {record \in Records(sess[s]) : ~Recorded(record)}
           me == [sess[s] EXCEPT !.pc = "save", !.fresh = fresh]
<1>1. Set(s, me) /\ sess[s].pc = "materialize" /\ UNCHANGED <<redis, ledger, missed>>
  BY Zenon DEF Materialize
<1>2. UNCHANGED <<acked, evidence>>
  BY <1>1 DEF redis, ledger
<1>3. \A n \in sess[s].found : Evidenced(n) \/ \E record \in fresh : Covers(record, n)
  <2> SUFFICES ASSUME NEW n \in sess[s].found, \A record \in fresh : ~Covers(record, n)
               PROVE  Evidenced(n)
    OBVIOUS
  <2>1. PICK record \in Records(sess[s]) : Covers(record, n)
    BY RecordsCover
  <2>2. Recorded(record)
    BY <2>1
  <2>3. PICK row \in evidence : row.events = record.events
    BY <2>2 DEF Recorded
  <2> QED
    BY <2>1, <2>3 DEF Evidenced, Covers
<1> HIDE DEF fresh
<1>4. sess[s] \in Session /\ Stage(s) /\ EntriesHandled(s)
  BY DEF Inv, TypeOK, EntriesAccounted
<1>5. /\ me.pc = "save" /\ me.found = sess[s].found /\ me.batch = sess[s].batch
      /\ me.fresh = fresh /\ me.source = sess[s].source
  BY <1>4 DEF Session
<1> HIDE DEF me
<1>6. sess'[s] = me /\ \A t \in Sessions \ {s} : sess'[t] = sess[t]
  BY <1>1, SetEffect DEF Inv
<1>7. Stage(s)'
  BY <1>1, <1>4, <1>5, <1>6 DEF Stage
<1>8. EntriesHandled(s)'
  <2>1. \A n : Evidenced(n)' <=> Evidenced(n)
    BY <1>2 DEF Evidenced
  <2> QED
    BY <1>1, <1>3, <1>4, <1>5, <1>6, <2>1 DEF EntriesHandled
<1> QED
  BY <1>1, <1>2, <1>6, <1>7, <1>8, AccountedStep

LEMMA SaveAccounted ==
    ASSUME Inv, EntriesAccounted, NEW s \in Sessions, Save(s)
    PROVE  EntriesAccounted'
<1> DEFINE old == sess[s]
           saved == {[id |-> saves + 1, run |-> record.run, events |-> record.events] :
                        record \in old.fresh}
           me == IF old.source = "stream" THEN [Idle EXCEPT !.pc = "ack", !.batch = old.batch]
                 ELSE Idle
<1>1. /\ evidence' = evidence \cup saved /\ Set(s, me) /\ old.pc = "save"
      /\ UNCHANGED <<redis, missed>>
  BY Zenon DEF Save
<1>2. Stage(s) /\ EntriesHandled(s)
  BY DEF EntriesAccounted
<1>3. \A n : Evidenced(n) => Evidenced(n)'
  BY <1>1 DEF Evidenced
<1>4. \A n \in old.found : Evidenced(n)'
  <2> SUFFICES ASSUME NEW n \in old.found, ~Evidenced(n) PROVE Evidenced(n)'
    BY <1>3
  <2>1. PICK record \in old.fresh : Covers(record, n)
    BY <1>1, <1>2 DEF EntriesHandled
  <2> DEFINE row == [id |-> saves + 1, run |-> record.run, events |-> record.events]
  <2>2. row \in saved /\ row.events = record.events
    OBVIOUS
  <2> HIDE DEF row, saved
  <2>3. row \in evidence' /\ Covers(row, n)
    BY <1>1, <2>1, <2>2 DEF Covers
  <2> QED
    BY <2>3 DEF Evidenced
<1>5. \A n \in old.batch : n \in missed' \/ Evidenced(n)'
  BY <1>1, <1>2, <1>4 DEF EntriesHandled
<1>6. /\ me.pc \in {"ack", "idle"} /\ me.found = {} /\ me.fresh = {} /\ me.source = "stream"
      /\ me.batch \subseteq old.batch /\ (me.pc = "idle" => me.batch = {})
  BY DEF Idle
<1> HIDE DEF me, saved
<1>7. sess'[s] = me /\ \A t \in Sessions \ {s} : sess'[t] = sess[t]
  BY <1>1, SetEffect DEF Inv
<1>8. Stage(s)'
  BY <1>6, <1>7 DEF Stage
<1>9. EntriesHandled(s)'
  BY <1>5, <1>6, <1>7 DEF EntriesHandled
<1>10. acked' = acked /\ evidence \subseteq evidence' /\ missed' = missed
  BY <1>1 DEF redis
<1> QED
  BY <1>7, <1>8, <1>9, <1>10, AccountedStep

LEMMA AccountedNext == Inv /\ EntriesAccounted /\ [Next]_vars => EntriesAccounted'
<1> SUFFICES ASSUME Inv, EntriesAccounted, [Next]_vars PROVE EntriesAccounted'
  OBVIOUS
<1>1. CASE UNCHANGED vars
  BY <1>1 DEF vars, redis, ledger, EntriesAccounted, AckAfterEvidence, Evidenced, Stage, EntriesHandled
<1>2. CASE Next
  <2> PICK s \in Sessions : StepOf(s)
    BY <1>2, Zenon DEF Next, StepOf
  <2>1. Return(s) => Rollback(s) \/ Commit(s)
    BY Zenon DEF Return
  <2>2. sess[s] \in Session /\ Stage(s) /\ EntriesHandled(s)
    BY DEF Inv, TypeOK, EntriesAccounted
  <2>3. ASSUME NEW me, Set(s, me), UNCHANGED <<acked, evidence, missed>>,
               me.batch = sess[s].batch, me.found = {}, me.fresh = {}, me.source = sess[s].source,
               me.pc \in {"read", "lookup", "insert", "match"},
               me.pc = "read" => sess[s].pc \in {"publish", "idle"}
        PROVE  EntriesAccounted'
    <3>1. sess'[s] = me /\ \A t \in Sessions \ {s} : sess'[t] = sess[t]
      BY <2>3, SetEffect DEF Inv
    <3>2. Stage(s)' /\ EntriesHandled(s)'
      BY <2>2, <2>3, <3>1 DEF Stage, EntriesHandled
    <3> QED
      BY <2>3, <3>1, <3>2, AccountedStep
  <2>4. CASE \E r \in Runs : StartPublish(s, r)
    <3> PICK r \in Runs : StartPublish(s, r)
      BY <2>4
    <3> DEFINE me == [Idle EXCEPT !.pc = "publish", !.run = r, !.ts = publishes + 1]
    <3>1. Set(s, me) /\ UNCHANGED <<acked, evidence, missed>>
      BY Zenon DEF StartPublish, redis, ledger
    <3>2. me.batch = {} /\ me.found = {} /\ me.fresh = {} /\ me.source = "stream"
      BY DEF Idle
    <3> HIDE DEF me
    <3>3. sess'[s] = me /\ \A t \in Sessions \ {s} : sess'[t] = sess[t]
      BY <3>1, SetEffect DEF Inv
    <3> QED
      BY <3>1, <3>2, <3>3, EmptyAccounted, AccountedStep
  <2>5. CASE Sweep(s)
    <3> DEFINE me == [Idle EXCEPT !.pc = "read"]
    <3>1. Set(s, me) /\ sess[s].pc = "idle" /\ UNCHANGED <<acked, evidence, missed>>
      BY <2>5, Zenon DEF Sweep, redis, ledger
    <3>2. me.batch = {} /\ me.found = {} /\ me.fresh = {} /\ me.source = "stream"
      BY DEF Idle
    <3> HIDE DEF me
    <3>3. sess'[s] = me /\ \A t \in Sessions \ {s} : sess'[t] = sess[t]
      BY <3>1, SetEffect DEF Inv
    <3> QED
      BY <3>1, <3>2, <3>3, EmptyAccounted, AccountedStep
  <2>6. CASE Crash(s) \/ CommitCancel(s) \/ CheckpointConflict(s)
    <3>1. (Rollback(s) \/ Commit(s)) /\ UNCHANGED <<redis, ledger, missed>>
      BY <2>6, Zenon DEF Crash, CommitCancel, CheckpointConflict
    <3> QED
      BY <3>1, EndAccounted DEF redis, ledger
  <2>7. CASE DropEntries(s)
    <3>1. /\ Rollback(s) \/ Commit(s)
          /\ sess[s].pc = "drop"
          /\ acked' = acked \cup sess[s].batch \/ acked' = acked
          /\ UNCHANGED <<ledger, missed>>
      BY <2>1, <2>7, Zenon DEF DropEntries
    <3> QED
      BY <2>2, <3>1, EndAccounted DEF ledger, EntriesHandled
  <2>8. CASE Ack(s)
    <3>1. /\ Set(s, Idle) /\ sess[s].pc = "ack" /\ UNCHANGED <<ledger, missed>>
          /\ acked' = acked \cup sess[s].batch \/ acked' = acked
      BY <2>8, Zenon DEF Ack
    <3>2. sess'[s] = Idle /\ \A t \in Sessions \ {s} : sess'[t] = sess[t]
      BY <3>1, SetEffect DEF Inv
    <3>3. Stage(s)' /\ EntriesHandled(s)'
      BY <3>2, EmptyAccounted DEF Idle
    <3> QED
      BY <2>2, <3>1, <3>2, <3>3, AccountedStep DEF ledger, EntriesHandled
  <2>9. CASE AppendEvent(s)
    <3>1. UNCHANGED <<sess, acked, evidence, missed>>
      BY <2>9 DEF AppendEvent, ledger
    <3> QED
      BY <3>1 DEF EntriesAccounted, AckAfterEvidence, Evidenced, Stage, EntriesHandled
  <2>10. CASE TakeEntries(s)
    <3> DEFINE me == [sess[s] EXCEPT !.pc = "lookup", !.batch = NextEntries]
    <3>1. Set(s, me) /\ sess[s].pc = "read" /\ UNCHANGED <<acked, evidence, missed>>
      BY <2>10, Zenon DEF TakeEntries, ledger
    <3>2. /\ me.pc = "lookup" /\ me.found = sess[s].found /\ me.fresh = sess[s].fresh
          /\ me.source = sess[s].source
      BY <2>2 DEF Session
    <3> HIDE DEF me
    <3>3. sess'[s] = me /\ \A t \in Sessions \ {s} : sess'[t] = sess[t]
      BY <3>1, SetEffect DEF Inv
    <3>4. Stage(s)' /\ EntriesHandled(s)'
      BY <2>2, <3>1, <3>2, <3>3 DEF Stage, EntriesHandled
    <3> QED
      BY <3>1, <3>3, <3>4, AccountedStep
  <2>11. CASE StreamFails(s)
    <3> DEFINE me == [sess[s] EXCEPT !.pc = "lookup", !.source = "table"]
    <3>1. Set(s, me) /\ sess[s].pc = "read" /\ UNCHANGED <<acked, evidence, missed>>
      BY <2>11, Zenon DEF StreamFails, ledger
    <3>2. /\ me.pc = "lookup" /\ me.found = sess[s].found /\ me.fresh = sess[s].fresh
          /\ me.batch = sess[s].batch
      BY <2>2 DEF Session
    <3> HIDE DEF me
    <3>3. sess'[s] = me /\ \A t \in Sessions \ {s} : sess'[t] = sess[t]
      BY <3>1, SetEffect DEF Inv
    <3>4. Stage(s)' /\ EntriesHandled(s)'
      BY <2>2, <3>1, <3>2, <3>3 DEF Stage, EntriesHandled
    <3> QED
      BY <3>1, <3>3, <3>4, AccountedStep
  <2>12. CASE ConsumeOwn(s)
    <3> DEFINE me == [sess[s] EXCEPT !.pc = "read"]
    <3>1. Set(s, me) /\ sess[s].pc = "publish" /\ UNCHANGED <<acked, evidence, missed>>
      BY <2>12, Zenon DEF ConsumeOwn, redis, ledger
    <3>2. /\ me.pc = "read" /\ me.found = sess[s].found /\ me.fresh = sess[s].fresh
          /\ me.batch = sess[s].batch /\ me.source = sess[s].source
      BY <2>2 DEF Session
    <3> HIDE DEF me
    <3> QED
      BY <2>2, <2>3, <3>1, <3>2 DEF Stage
  <2>13. CASE LookupCheckpoint(s)
    <3> DEFINE me == IF checkpoint.owner = "committed"
                     THEN [sess[s] EXCEPT !.pc = "match", !.loaded = checkpoint.at]
                     ELSE [sess[s] EXCEPT !.pc = "insert"]
    <3>1. Set(s, me) /\ sess[s].pc = "lookup" /\ UNCHANGED <<acked, evidence, missed>>
      BY <2>13, Zenon DEF LookupCheckpoint, redis, ledger
    <3>2. /\ me.pc \in {"match", "insert"} /\ me.found = sess[s].found /\ me.fresh = sess[s].fresh
          /\ me.batch = sess[s].batch /\ me.source = sess[s].source
      BY <2>2 DEF Session
    <3> HIDE DEF me
    <3> QED
      BY <2>2, <2>3, <3>1, <3>2 DEF Stage
  <2>14. CASE InsertCheckpoint(s)
    <3> DEFINE me == [sess[s] EXCEPT !.pc = "match"]
    <3>1. Set(s, me) /\ sess[s].pc = "insert" /\ UNCHANGED <<acked, evidence, missed>>
      BY <2>14, Zenon DEF InsertCheckpoint, redis, ledger
    <3>2. /\ me.pc = "match" /\ me.found = sess[s].found /\ me.fresh = sess[s].fresh
          /\ me.batch = sess[s].batch /\ me.source = sess[s].source
      BY <2>2 DEF Session
    <3> HIDE DEF me
    <3> QED
      BY <2>2, <2>3, <3>1, <3>2 DEF Stage
  <2> QED
    BY <2>4, <2>5, <2>6, <2>7, <2>8, <2>9, <2>10, <2>11, <2>12, <2>13, <2>14,
       MatchAccounted, MaterializeAccounted, SaveAccounted, Zenon DEF StepOf, Advance
<1> QED
  BY <1>1, <1>2

\* Every entry a session took is evidence, on its way to it, or was missed by a
\* session that could not see its row (_consume_evidence_events_from_stream).
THEOREM AccountedTheorem == Spec => []EntriesAccounted
<1>1. Init => EntriesAccounted
  BY DEF Init, EntriesAccounted, AckAfterEvidence, Stage, EntriesHandled, Idle
<1> QED
  BY <1>1, InvTheorem, AccountedNext, PTL DEF Spec

\* An entry is acknowledged only once evidence of its event is committed, unless
\* its row was not seen, whatever fails or crashes in between
\* (_consume_evidence_events_from_stream).
THEOREM AckTheorem == Spec => []AckAfterEvidence
BY AccountedTheorem, PTL DEF EntriesAccounted

-----------------------------------------------------------------------------
(* No event is consumed twice *)

\* A step that saves nothing, and leaves s with what is its own.
LEMMA OnceStep ==
    ASSUME Inv, EntriesOnce, NEW s \in Sessions,
           outages' = 0 => outages = 0,
           \A t \in Sessions \ {s} : sess'[t] = sess[t],
           evidence' = evidence, delivered \subseteq delivered',
           outages' = 0 => EntriesOwned(s)'
    PROVE  EntriesOnce'
<1>1. SUFFICES ASSUME outages' = 0, outages = 0
               PROVE  /\ Disjoint(evidence)' /\ \A n \in Ids : Evidenced(n)' => n \in delivered'
                      /\ \A t \in Sessions : EntriesOwned(t)'
  BY DEF EntriesOnce
<1>2. \A n : Evidenced(n)' <=> Evidenced(n)
  BY DEF Evidenced
<1>3. Disjoint(evidence)' /\ \A n \in Ids : Evidenced(n)' => n \in delivered'
  BY <1>1, <1>2 DEF EntriesOnce, Disjoint
<1>4. ASSUME NEW t \in Sessions \ {s} PROVE EntriesOwned(t)'
  <2>1. EntriesOwned(t) /\ sess'[t] = sess[t]
    BY <1>1 DEF EntriesOnce
  <2>2. sess'[t].batch \cap sess'[s].batch = {}
    BY <1>1 DEF EntriesOwned
  <2>3. \A u \in Sessions \ {t} : sess'[t].batch \cap sess'[u].batch = {}
    BY <2>1, <2>2 DEF EntriesOwned
  <2> QED
    BY <1>2, <2>1, <2>3 DEF EntriesOwned, Disjoint
<1> QED
  BY <1>1, <1>3, <1>4

\* In particular one that leaves s with part of the entries it had.
LEMMA KeptOnce ==
    ASSUME Inv, EntriesOnce, NEW s \in Sessions, NEW me, Set(s, me),
           outages' = 0 => outages = 0,
           evidence' = evidence, delivered \subseteq delivered',
           me.source = "stream" \/ outages' # 0,
           me.batch \subseteq sess[s].batch, me.found \subseteq me.batch \/ outages' # 0,
           me.batch = {} \/ (sess[s].pc # "ack"),
           me.fresh = {}
    PROVE  EntriesOnce'
<1>1. sess'[s] = me /\ \A t \in Sessions \ {s} : sess'[t] = sess[t]
  BY SetEffect DEF Inv
<1>2. ASSUME outages' = 0 PROVE EntriesOwned(s)'
  <2>1. EntriesOwned(s)
    BY <1>2 DEF EntriesOnce
  <2>2. \A t \in Sessions \ {s} : sess'[s].batch \cap sess'[t].batch = {}
    BY <1>1, <2>1 DEF EntriesOwned
  <2>3. \A n : Evidenced(n)' <=> Evidenced(n)
    BY DEF Evidenced
  <2> QED
    BY <1>1, <1>2, <2>1, <2>2, <2>3 DEF EntriesOwned, Disjoint
<1> QED
  BY <1>1, <1>2, OnceStep

LEMMA EndOnce ==
    ASSUME Inv, EntriesOnce, NEW s \in Sessions, Rollback(s) \/ Commit(s),
           outages' = 0 => outages = 0, UNCHANGED <<evidence, delivered>>
    PROVE  EntriesOnce'
<1>1. Set(s, Idle)
  BY Zenon DEF Rollback, Commit
<1> QED
  BY <1>1, KeptOnce DEF Idle

\* What a session takes was handed out to nobody before.
LEMMA TakeOnce ==
    ASSUME Inv, EntriesAccounted, EntriesOnce, NEW s \in Sessions, TakeEntries(s)
    PROVE  EntriesOnce'
<1> DEFINE me == [sess[s] EXCEPT !.pc = "lookup", !.batch = NextEntries]
<1>1. /\ Set(s, me) /\ sess[s].pc = "read" /\ UNCHANGED <<evidence, outages>>
      /\ delivered' = delivered \cup NextEntries
  BY Zenon DEF TakeEntries, ledger
<1>2. NextEntries \subseteq Ids /\ NextEntries \cap delivered = {}
  BY NextEntriesTyped
<1>3. sess[s] \in Session /\ Stage(s)
  BY DEF Inv, TypeOK, EntriesAccounted
<1>4. /\ me.pc = "lookup" /\ me.batch = NextEntries /\ me.found = {} /\ me.fresh = {}
      /\ me.source = "stream"
  BY <1>1, <1>3 DEF Session, Stage
<1> HIDE DEF me
<1>5. sess'[s] = me /\ \A t \in Sessions \ {s} : sess'[t] = sess[t]
  BY <1>1, SetEffect DEF Inv
<1>6. ASSUME outages' = 0 PROVE EntriesOwned(s)'
  <2>1. \A t \in Sessions : sess[t].batch \subseteq delivered
    BY DEF Inv, EvidenceSound, SessionSees
  <2>2. \A n : Evidenced(n)' <=> Evidenced(n)
    BY <1>1 DEF Evidenced
  <2>3. \A n \in NextEntries : ~Evidenced(n)
    BY <1>1, <1>2, <1>6 DEF EntriesOnce
  <2> QED
    BY <1>2, <1>4, <1>5, <2>1, <2>2, <2>3 DEF EntriesOwned, Disjoint
<1> QED
  BY <1>1, <1>5, <1>6, OnceStep

LEMMA MatchOnce ==
    ASSUME Inv, EntriesAccounted, EntriesOnce, NEW s \in Sessions, Match(s)
    PROVE  EntriesOnce'
<1> DEFINE me == [sess[s] EXCEPT !.pc = IF Rows(s) = {} THEN "drop" ELSE "materialize",
                                 !.found = Rows(s)]
<1>1. /\ UNCHANGED <<redis, ledger, outages>> /\ sess[s].pc = "match"
      /\ sess[s].source = "stream" => Rows(s) = sess[s].batch \cap Visible(s)
      /\ Return(s) \/ Set(s, me)
  BY MatchEffect, Zenon
<1>2. UNCHANGED <<delivered, evidence>>
  BY <1>1 DEF redis, ledger
<1>3. CASE Return(s)
  <2>1. Rollback(s) \/ Commit(s)
    BY <1>3, Zenon DEF Return
  <2> QED
    BY <1>1, <1>2, <2>1, EndOnce
<1>4. CASE Set(s, me)
  <2>1. sess[s] \in Session /\ Stage(s) /\ (outages = 0 => EntriesOwned(s))
    BY DEF Inv, TypeOK, EntriesAccounted, EntriesOnce
  <2>2. me.found = Rows(s) /\ me.batch = sess[s].batch /\ me.fresh = {} /\ me.source = sess[s].source
    BY <1>1, <2>1 DEF Session, Stage
  <2> HIDE DEF me
  <2> QED
    BY <1>1, <1>2, <1>4, <2>1, <2>2, KeptOnce DEF EntriesOwned
<1> QED
  BY <1>1, <1>3, <1>4

LEMMA MaterializeOnce ==
    ASSUME Inv, EntriesAccounted, EntriesOnce, NEW s \in Sessions, Materialize(s)
    PROVE  EntriesOnce'
<1> DEFINE fresh == {record \in Records(sess[s]) : ~Recorded(record)}
           me == [sess[s] EXCEPT !.pc = "save", !.fresh = fresh]
<1>1. Set(s, me) /\ sess[s].pc = "materialize" /\ UNCHANGED <<redis, ledger, outages>>
  BY Zenon DEF Materialize
<1>2. UNCHANGED <<delivered, evidence>>
  BY <1>1 DEF redis, ledger
<1>3. Disjoint(fresh) /\ \A record \in fresh : \A n \in Ids : Covers(record, n) => n \in sess[s].found
  BY RecordsCover DEF Disjoint
<1> HIDE DEF fresh
<1>4. sess[s] \in Session
  BY DEF Inv, TypeOK
<1>5. /\ me.pc = "save" /\ me.found = sess[s].found /\ me.batch = sess[s].batch
      /\ me.fresh = fresh /\ me.source = sess[s].source
  BY <1>4 DEF Session
<1> HIDE DEF me
<1>6. sess'[s] = me /\ \A t \in Sessions \ {s} : sess'[t] = sess[t]
  BY <1>1, SetEffect DEF Inv
<1>7. ASSUME outages' = 0 PROVE EntriesOwned(s)'
  <2>1. EntriesOwned(s)
    BY <1>1, <1>7 DEF EntriesOnce
  <2>2. \A n : Evidenced(n)' <=> Evidenced(n)
    BY <1>2 DEF Evidenced
  <2>3. \A t \in Sessions \ {s} : sess'[s].batch \cap sess'[t].batch = {}
    BY <1>5, <1>6, <2>1 DEF EntriesOwned
  <2>4. Disjoint(sess'[s].fresh)
        /\ \A record \in sess'[s].fresh : \A n \in Ids : Covers(record, n) => n \in sess'[s].found
    BY <1>3, <1>5, <1>6
  <2> QED
    BY <1>1, <1>5, <1>6, <2>1, <2>2, <2>3, <2>4 DEF EntriesOwned, Disjoint
<1> QED
  BY <1>1, <1>2, <1>6, <1>7, OnceStep

\* Only events of the session's own entries become evidence.
LEMMA SaveOnce ==
    ASSUME Inv, EntriesAccounted, EntriesOnce, NEW s \in Sessions, Save(s)
    PROVE  EntriesOnce'
<1> DEFINE old == sess[s]
           saved == {[id |-> saves + 1, run |-> record.run, events |-> record.events] :
                        record \in old.fresh}
           me == IF old.source = "stream" THEN [Idle EXCEPT !.pc = "ack", !.batch = old.batch]
                 ELSE Idle
<1>1. /\ evidence' = evidence \cup saved /\ Set(s, me) /\ old.pc = "save"
      /\ UNCHANGED <<redis, outages>>
  BY Zenon DEF Save
<1>2. delivered' = delivered
  BY <1>1 DEF redis
<1>3. /\ me.pc \in {"ack", "idle"} /\ me.found = {} /\ me.fresh = {} /\ me.source = "stream"
      /\ me.batch \subseteq old.batch /\ (me.pc = "idle" => me.batch = {})
  BY DEF Idle
<1> HIDE DEF me
<1>4. sess'[s] = me /\ \A t \in Sessions \ {s} : sess'[t] = sess[t]
  BY <1>1, SetEffect DEF Inv
<1>5. SUFFICES ASSUME outages' = 0, outages = 0
               PROVE  /\ Disjoint(evidence)' /\ \A n \in Ids : Evidenced(n)' => n \in delivered'
                      /\ \A t \in Sessions : EntriesOwned(t)'
  BY <1>1 DEF EntriesOnce
<1>6. EntriesOwned(s) /\ old.batch \subseteq delivered
  BY <1>5 DEF EntriesOnce, Inv, EvidenceSound, SessionSees
<1>7. \A row \in saved : \A n \in Ids : Covers(row, n) => n \in old.batch
  BY <1>6 DEF EntriesOwned, Covers
<1>8. \A n \in Ids : Evidenced(n)' => Evidenced(n) \/ n \in old.batch
  <2> HIDE DEF saved
  <2> QED
    BY <1>1, <1>7 DEF Evidenced
<1>9. Disjoint(saved)
  <2> SUFFICES ASSUME NEW row \in saved, NEW other \in saved, NEW n \in Ids,
                      Covers(row, n), Covers(other, n)
               PROVE  row = other
    BY Zenon DEF Disjoint
  <2>1. PICK a \in old.fresh : row = [id |-> saves + 1, run |-> a.run, events |-> a.events]
    OBVIOUS
  <2>2. PICK b \in old.fresh : other = [id |-> saves + 1, run |-> b.run, events |-> b.events]
    OBVIOUS
  <2>3. Covers(a, n) /\ Covers(b, n)
    BY <2>1, <2>2 DEF Covers
  <2>4. a = b
    BY <1>6, <2>3 DEF EntriesOwned, Disjoint
  <2> QED
    BY <2>1, <2>2, <2>4
<1> HIDE DEF saved
<1>10. Disjoint(evidence')
  <2> SUFFICES ASSUME NEW record \in evidence', NEW other \in evidence', NEW n \in Ids,
                      Covers(record, n), Covers(other, n)
               PROVE  record = other
    BY Zenon DEF Disjoint
  <2>1. ASSUME record \in evidence, other \in saved PROVE FALSE
    BY <1>1, <1>6, <1>7, <2>1 DEF EntriesOwned, Evidenced
  <2>2. ASSUME record \in saved, other \in evidence PROVE FALSE
    BY <1>1, <1>6, <1>7, <2>2 DEF EntriesOwned, Evidenced
  <2>3. CASE record \in evidence /\ other \in evidence
    BY <1>5, <2>3 DEF EntriesOnce, Disjoint
  <2>4. CASE record \in saved /\ other \in saved
    BY <1>9, <2>4 DEF Disjoint
  <2> QED
    BY <1>1, <2>1, <2>2, <2>3, <2>4
<1>11. \A n \in Ids : Evidenced(n)' => n \in delivered'
  BY <1>2, <1>5, <1>6, <1>8 DEF EntriesOnce
<1>12. EntriesOwned(s)'
  <2>1. \A t \in Sessions \ {s} : sess'[s].batch \cap sess'[t].batch = {}
    BY <1>3, <1>4, <1>6 DEF EntriesOwned
  <2> QED
    BY <1>3, <1>4, <2>1 DEF EntriesOwned, Disjoint
<1>13. ASSUME NEW t \in Sessions \ {s} PROVE EntriesOwned(t)'
  <2>1. EntriesOwned(t) /\ sess'[t] = sess[t] /\ sess[t].batch \subseteq Ids
    BY <1>4, <1>5 DEF EntriesOnce, Inv, TypeOK, Session
  <2>2. sess[t].batch \cap old.batch = {}
    BY <1>6 DEF EntriesOwned
  <2>3. sess[t].pc # "ack" => \A n \in sess[t].batch : ~Evidenced(n)'
    BY <1>8, <2>1, <2>2 DEF EntriesOwned
  <2>4. \A u \in Sessions \ {t} : sess'[t].batch \cap sess'[u].batch = {}
    BY <1>3, <1>4, <2>1, <2>2 DEF EntriesOwned
  <2> QED
    BY <2>1, <2>3, <2>4 DEF EntriesOwned, Disjoint
<1> QED
  BY <1>10, <1>11, <1>12, <1>13 DEF Disjoint

LEMMA OnceNext == Inv /\ EntriesAccounted /\ EntriesOnce /\ [Next]_vars => EntriesOnce'
<1> SUFFICES ASSUME Inv, EntriesAccounted, EntriesOnce, [Next]_vars PROVE EntriesOnce'
  OBVIOUS
<1>1. CASE UNCHANGED vars
  BY <1>1 DEF vars, redis, ledger, EntriesOnce, EntriesOwned, Disjoint, Evidenced
<1>2. CASE Next
  <2> PICK s \in Sessions : StepOf(s)
    BY <1>2, Zenon DEF Next, StepOf
  <2>1. Return(s) => Rollback(s) \/ Commit(s)
    BY Zenon DEF Return
  <2>2. sess[s] \in Session /\ Stage(s) /\ (outages = 0 => EntriesOwned(s)) /\ outages \in Nat
    BY DEF Inv, TypeOK, EntriesAccounted, EntriesOnce
  <2>3. Outage => outages' # 0 /\ (outages' = 0 => outages = 0)
    BY <2>2 DEF Outage
  <2>4. CASE \E r \in Runs : StartPublish(s, r)
    <3> PICK r \in Runs : StartPublish(s, r)
      BY <2>4
    <3>1. /\ Set(s, [Idle EXCEPT !.pc = "publish", !.run = r, !.ts = publishes + 1])
          /\ UNCHANGED <<delivered, evidence, outages>>
      BY Zenon DEF StartPublish, redis, ledger
    <3> QED
      BY <3>1, KeptOnce DEF Idle
  <2>5. CASE Sweep(s)
    <3>1. Set(s, [Idle EXCEPT !.pc = "read"]) /\ UNCHANGED <<delivered, evidence, outages>>
      BY <2>5, Zenon DEF Sweep, redis, ledger
    <3> QED
      BY <3>1, KeptOnce DEF Idle
  <2>6. CASE Crash(s) \/ CommitCancel(s) \/ CheckpointConflict(s)
    <3>1. (Rollback(s) \/ Commit(s)) /\ UNCHANGED <<redis, ledger, outages>>
      BY <2>6, Zenon DEF Crash, CommitCancel, CheckpointConflict
    <3> QED
      BY <3>1, EndOnce DEF redis, ledger
  <2>7. CASE DropEntries(s)
    <3>1. /\ Rollback(s) \/ Commit(s)
          /\ Outage \/ UNCHANGED outages
          /\ UNCHANGED <<delivered, ledger>>
      BY <2>1, <2>7, Zenon DEF DropEntries
    <3> QED
      BY <2>3, <3>1, EndOnce DEF ledger
  <2>8. CASE Ack(s)
    <3>1. Set(s, Idle) /\ (Outage \/ UNCHANGED outages) /\ UNCHANGED <<delivered, ledger>>
      BY <2>8, Zenon DEF Ack
    <3> QED
      BY <2>3, <3>1, KeptOnce DEF Idle, ledger
  <2>9. CASE AppendEvent(s)
    <3>1. UNCHANGED <<sess, delivered, ledger>> /\ (Outage \/ UNCHANGED outages)
      BY <2>9, Zenon DEF AppendEvent
    <3>2. EntriesOwned(s) => EntriesOwned(s)'
      BY <3>1 DEF EntriesOwned, Disjoint, Evidenced, ledger
    <3> QED
      BY <2>2, <2>3, <3>1, <3>2, OnceStep DEF ledger
  <2>10. CASE StreamFails(s)
    <3> DEFINE me == [sess[s] EXCEPT !.pc = "lookup", !.source = "table"]
    <3>1. /\ Set(s, me) /\ sess[s].pc = "read" /\ Outage /\ UNCHANGED ledger
          /\ delivered' \in {delivered, delivered \cup NextEntries}
      BY <2>10, Zenon DEF StreamFails
    <3>2. me.found = sess[s].found /\ me.fresh = sess[s].fresh /\ me.batch = sess[s].batch
      BY <2>2 DEF Session
    <3> HIDE DEF me
    <3> QED
      BY <2>2, <2>3, <3>1, <3>2, KeptOnce DEF Stage, ledger
  <2>11. CASE ConsumeOwn(s) \/ LookupCheckpoint(s) \/ InsertCheckpoint(s)
    <3>1. /\ sess[s].pc \in {"publish", "lookup", "insert"}
          /\ UNCHANGED <<delivered, evidence, outages>>
      BY <2>11 DEF ConsumeOwn, LookupCheckpoint, InsertCheckpoint, redis, ledger
    <3>2. \E me : /\ Set(s, me) /\ me.batch = sess[s].batch /\ me.found = sess[s].found
                  /\ me.fresh = sess[s].fresh /\ me.source = sess[s].source
      <4>1. CASE ConsumeOwn(s)
        <5> WITNESS [sess[s] EXCEPT !.pc = "read"]
        <5> QED  BY <2>2, <4>1 DEF ConsumeOwn, Session
      <4>2. CASE LookupCheckpoint(s)
        <5> WITNESS IF checkpoint.owner = "committed"
                    THEN [sess[s] EXCEPT !.pc = "match", !.loaded = checkpoint.at]
                    ELSE [sess[s] EXCEPT !.pc = "insert"]
        <5> QED  BY <2>2, <4>2 DEF LookupCheckpoint, Session
      <4>3. CASE InsertCheckpoint(s)
        <5> WITNESS [sess[s] EXCEPT !.pc = "match"]
        <5> QED  BY <2>2, <4>3 DEF InsertCheckpoint, Session
      <4> QED  BY <2>11, <4>1, <4>2, <4>3
    <3> QED
      BY <2>2, <3>1, <3>2, KeptOnce DEF Stage, EntriesOwned
  <2> QED
    BY <2>4, <2>5, <2>6, <2>7, <2>8, <2>9, <2>10, <2>11,
       TakeOnce, MatchOnce, MaterializeOnce, SaveOnce, Zenon DEF StepOf, Advance
<1> QED
  BY <1>1, <1>2

\* As long as Redis answers, an entry is held by one session at a time, and by none
\* once its event is in evidence (_consume_evidence_events_from_stream).
THEOREM OnceTheorem == Spec => []EntriesOnce
<1>1. Init => EntriesOnce
  BY DEF Init, EntriesOnce, EntriesOwned, Disjoint, Evidenced, Idle
<1> QED
  BY <1>1, InvTheorem, AccountedTheorem, OnceNext, PTL DEF Spec

\* As long as Redis answers, no event is in two evidence records, for any number of
\* sessions and whatever crashes (the consumer group praetor:evidence).
THEOREM ConsumedOnceTheorem == Spec => []ConsumedOnce
<1>1. EntriesOnce => ConsumedOnce
  BY DEF EntriesOnce, ConsumedOnce
<1> QED
  BY <1>1, OnceTheorem, PTL
-----------------------------------------------------------------------------
(* Rows in sequence *)

\* A step that adds no row and, of the rows there are, keeps the first ones.
LEMMA SequenceCut ==
    ASSUME RowsInSequence, ~overlapped' => ~overlapped,
           Ids \subseteq Nat,
           ~overlapped => \A m \in Ids : event'[m].owner # Nobody =>
              /\ event[m].owner # Nobody
              /\ event'[m].prev = event[m].prev /\ event'[m].self = event[m].self
              /\ \A n \in Ids : event[n].owner # Nobody /\ n < m =>
                    /\ event'[n].owner # Nobody
                    /\ event'[m].owner = "committed" => event'[n].owner = "committed"
    PROVE  RowsInSequence'
<1> SUFFICES ASSUME ~overlapped', NEW m \in Written'
             PROVE  /\ (\A n \in Written' : m <= n) => event'[m].prev = ZeroHash
                    /\ event'[m].self # ZeroHash
                    /\ \A n \in Written' :
                          /\ Follows(m, n, Written') => event'[m].prev = event'[n].self
                          /\ n < m => Len(event'[n].self) < Len(event'[m].self)
                          /\ n < m /\ event'[m].owner = "committed" => event'[n].owner = "committed"
  BY DEF RowsInSequence, Follows
<1>1. /\ Written' \subseteq Written /\ Written \subseteq Ids /\ ~overlapped
      /\ \A n \in Written' : event'[n].prev = event[n].prev /\ event'[n].self = event[n].self
      /\ \A n \in Written : n < m => n \in Written'
  BY DEF Written
<1>2. \A k \in Written : k \in Nat
  BY <1>1
<1>3. (\A n \in Written' : m <= n) => \A n \in Written : m <= n
  BY <1>1, <1>2
<1>4. \A n \in Written' : Follows(m, n, Written') => Follows(m, n, Written)
  BY <1>1, <1>2 DEF Follows
<1>5. \A n \in Written' : n < m /\ event'[m].owner = "committed" => event'[n].owner = "committed"
  BY <1>1 DEF Written
<1> QED
  BY <1>1, <1>3, <1>4, <1>5 DEF RowsInSequence

LEMMA SequenceSame ==
    ASSUME RowsInSequence, UNCHANGED event, ~overlapped' => ~overlapped
    PROVE  RowsInSequence'
BY DEF RowsInSequence, Written, Follows

\* Rows that are not committed are all of one session.
LEMMA OwnersAgree ==
    ASSUME TypeOK, OnePublisher, ~overlapped, NEW n \in Ids, NEW m \in Ids,
           event[n].owner \notin {Nobody, "committed"}, event[m].owner \notin {Nobody, "committed"}
    PROVE  event[n].owner = event[m].owner
<1>1. event[n].owner \in Sessions /\ event[m].owner \in Sessions
  BY DEF TypeOK, EventRow
<1>2. n \in Own(event[n].owner) /\ m \in Own(event[m].owner)
  BY DEF Own
<1> QED
  BY <1>1, <1>2 DEF OnePublisher

LEMMA CommitSequence ==
    ASSUME Inv, OnePublisher, RowsInSequence, NEW s \in Sessions, CommitEvents(s),
           overlapped' = overlapped
    PROVE  RowsInSequence'
<1>1. /\ \A n \in Ids : event[n].owner # s => event'[n] = event[n]
      /\ \A n \in Ids : event[n].owner = s =>
            event'[n] = [event[n] EXCEPT !.owner = "committed"] /\ event'[n].owner = "committed"
  BY CommitTyped DEF Inv
<1>2. \A n \in Ids : LET row == [event[n] EXCEPT !.owner = "committed"]
                     IN row.prev = event[n].prev /\ row.self = event[n].self
  BY DEF Inv, TypeOK, EventRow
<1>3. s # Nobody /\ Nobody # "committed" /\ s # "committed"
  BY EvidenceAssumption
<1>4. \A n \in Ids : /\ event'[n].owner # Nobody <=> event[n].owner # Nobody
                     /\ event'[n].prev = event[n].prev /\ event'[n].self = event[n].self
                     /\ event[n].owner = "committed" => event'[n].owner = "committed"
  BY <1>1, <1>2, <1>3
<1>5. ASSUME ~overlapped, NEW m \in Ids, NEW n \in Ids, n < m,
             event[n].owner # Nobody, event[m].owner # Nobody, event'[m].owner = "committed"
      PROVE  event'[n].owner = "committed"
  <2>1. CASE event[m].owner = "committed"
    <3>1. event[n].owner = "committed"
      BY <1>5, <2>1 DEF RowsInSequence, Written
    <3> QED
      BY <1>4, <3>1
  <2>2. CASE event[m].owner # "committed"
    <3>1. event[m].owner = s
      BY <1>1, <1>5, <2>2
    <3>2. event[n].owner = "committed" \/ event[n].owner = s
      BY <1>5, <2>2, <3>1, OwnersAgree DEF Inv
    <3> QED
      BY <1>1, <1>4, <3>2
  <2> QED
    BY <2>1, <2>2
<1> QED
  BY <1>4, <1>5, IdsFinite, SequenceCut

LEMMA RollbackSequence ==
    ASSUME Inv, OnePublisher, RowsInSequence, NEW s \in Sessions, Rollback(s)
    PROVE  RowsInSequence'
<1>1. /\ event' = [n \in Ids |-> IF event[n].owner = s THEN NoEvent ELSE event[n]]
      /\ overlapped' = overlapped
  BY Zenon DEF Rollback
<1>2. \A n \in Ids : event'[n] = IF event[n].owner = s THEN NoEvent ELSE event[n]
  BY <1>1
<1>3. NoEvent.owner = Nobody
  BY DEF NoEvent
<1>4. \A n \in Ids : event'[n].owner # Nobody =>
         event[n].owner # s /\ event[n].owner # Nobody /\ event'[n] = event[n]
  BY <1>2, <1>3
<1>5. ASSUME ~overlapped, NEW m \in Ids, NEW n \in Ids, n < m,
             event[n].owner # Nobody, event'[m].owner # Nobody
      PROVE  /\ event'[n].owner # Nobody
             /\ event'[m].owner = "committed" => event'[n].owner = "committed"
  <2>1. event[m].owner # s /\ event[m].owner # Nobody /\ event'[m] = event[m]
    BY <1>4, <1>5
  <2>2. event[m].owner = "committed" => event[n].owner = "committed"
    BY <1>5, <2>1 DEF RowsInSequence, Written
  <2>3. event[n].owner # s
    <3>1. CASE event[m].owner = "committed"
      BY <2>2, <3>1, EvidenceAssumption
    <3>2. CASE event[m].owner # "committed"
      BY <1>5, <2>1, <3>2, OwnersAgree, EvidenceAssumption DEF Inv
    <3> QED
      BY <3>1, <3>2
  <2>4. event'[n] = event[n]
    BY <1>2, <2>3
  <2> QED
    BY <1>5, <2>1, <2>2, <2>4
<1> QED
  BY <1>1, <1>4, <1>5, IdsFinite, SequenceCut

LEMMA EndSequence ==
    ASSUME Inv, OnePublisher, RowsInSequence, NEW s \in Sessions, Rollback(s) \/ Commit(s)
    PROVE  RowsInSequence'
<1>1. Commit(s) => CommitEvents(s) /\ overlapped' = overlapped
  BY Zenon DEF Commit
<1> QED
  BY <1>1, CommitSequence, RollbackSequence

\* A row is appended after all others, and follows the last of them.
LEMMA AppendSequence ==
    ASSUME Inv, OnePublisher, RowsInSequence, NEW s \in Sessions, AppendEvent(s)
    PROVE  RowsInSequence'
<1>1. PICK payload \in Payloads, prev \in TailHashes(event, Visible(s)) :
         event' = [event EXCEPT ![appended + 1] =
                      [owner |-> s, run |-> sess[s].run, ts |-> sess[s].ts,
                       prev |-> prev, self |-> SelfHash(prev, payload)]]
  BY Zenon DEF AppendEvent
<1>2. sess[s].pc = "publish" /\ appended < MaxEvents /\ UNCHANGED <<sess, overlapped>>
  BY DEF AppendEvent
<1> DEFINE k == appended + 1
<1>3. k \in Ids /\ \A n \in Written : n \in Ids /\ n \in Nat /\ n < k
  BY <1>2, EvidenceAssumption DEF Inv, EvidenceSound, UsedRows, TypeOK, Ids, Written
<1>4. /\ event'[k].owner = s /\ event'[k].prev = prev /\ event'[k].self = SelfHash(prev, payload)
      /\ \A n \in Ids \ {k} : event'[n] = event[n]
  BY <1>1, <1>3 DEF Inv, TypeOK
<1> HIDE DEF k
<1>5. SUFFICES ASSUME ~overlapped PROVE RowsInSequence'
  BY <1>2 DEF RowsInSequence
<1>6. Visible(s) = Written
  <2>1. sess[s].run # Nobody
    BY <1>2, EvidenceAssumption DEF Inv, EvidenceSound, PublishersOnRuns
  <2>2. ASSUME NEW n \in Written, event[n].owner # "committed" PROVE event[n].owner = s
    <3>1. event[n].owner \in Sessions /\ n \in Own(event[n].owner)
      BY <2>2 DEF Inv, TypeOK, EventRow, Written, Own
    <3> QED
      BY <1>5, <2>1, <3>1 DEF OnePublisher
  <2> QED
    BY <2>2, EvidenceAssumption DEF Visible, Written
<1>7. Written' = Written \cup {k}
  BY <1>3, <1>4, EvidenceAssumption DEF Written
<1>8. prev \in Seq(Payloads)
  <2>1. <<>> \in Seq(Payloads)
    OBVIOUS
  <2>2. \A n \in Ids : event[n].self \in Seq(Payloads)
    BY DEF Inv, TypeOK, EventRow
  <2>3. prev = <<>> \/ \E n \in Visible(s) : prev = event[n].self
    BY Zenon DEF TailHashes, ZeroHash
  <2> QED
    BY <2>1, <2>2, <2>3 DEF Visible
<1>9. /\ SelfHash(prev, payload) # ZeroHash
      /\ Len(SelfHash(prev, payload)) = Len(prev) + 1 /\ Len(prev) \in Nat
  BY <1>8 DEF SelfHash, ZeroHash
<1>10. Written = {} => prev = ZeroHash
  BY <1>6 DEF TailHashes
<1>11. ASSUME NEW n \in Written, \A m \in Written : m <= n
       PROVE  prev = event[n].self
  <2>1. PICK x \in Written : prev = event[x].self /\ \A y \in Written : event[y].prev # prev
    <3>1. prev \in {event[y].self : y \in Written} \ {event[y].prev : y \in Written}
      BY <1>6, <1>11, Zenon DEF TailHashes
    <3> QED
      BY <3>1
  <2> DEFINE later == {y \in Written : x < y}
  <2>2. CASE later = {}
    BY <1>3, <1>11, <2>1, <2>2
  <2>3. CASE later # {}
    <3>1. PICK y \in later : \A z \in later : y <= z
      <4>1. later \subseteq Nat
        BY <1>3
      <4> HIDE DEF later
      <4> QED
        BY <2>3, <4>1, LeastExists
    <3>2. Follows(y, x, Written)
      BY <1>3, <3>1 DEF Follows
    <3>3. event[y].prev = event[x].self
      BY <1>5, <2>1, <3>1, <3>2 DEF RowsInSequence
    <3> QED
      BY <2>1, <3>1, <3>3
  <2> QED
    BY <2>2, <2>3
<1>12. ASSUME NEW n \in Written PROVE Len(event[n].self) < Len(prev) + 1
  <2>1. PICK last \in Written : \A m \in Written : m <= last
    <3>1. Written \in SUBSET Ids
      BY DEF Written
    <3>2. PICK last \in Written : \A m \in Written : m = last \/ Before(m, last, "stream")
      BY <1>12, <3>1, LastExists DEF Inv
    <3> QED
      BY <1>3, <3>2 DEF Before
  <2>2. prev = event[last].self
    BY <1>11, <2>1
  <2>3. n = last \/ n < last
    BY <1>3, <2>1
  <2>4. n < last => Len(event[n].self) < Len(event[last].self)
    BY <1>5 DEF RowsInSequence
  <2>5. Len(event[n].self) \in Nat
    BY <1>3 DEF Inv, TypeOK, EventRow
  <2> QED
    BY <1>9, <2>2, <2>3, <2>4, <2>5
<1>13. ASSUME NEW m \in Written'
       PROVE  /\ (\A n \in Written' : m <= n) => event'[m].prev = ZeroHash
              /\ event'[m].self # ZeroHash
              /\ \A n \in Written' :
                    /\ Follows(m, n, Written') => event'[m].prev = event'[n].self
                    /\ n < m => Len(event'[n].self) < Len(event'[m].self)
                    /\ n < m /\ event'[m].owner = "committed" => event'[n].owner = "committed"
  <2>1. /\ k \notin Written /\ k \in Nat /\ ~(k < k)
        /\ \A n \in Written : event'[n] = event[n] /\ ~(k <= n)
    BY <1>3, <1>4, IdsFinite
  <2>2. CASE m = k
    <3>1. (\A n \in Written' : k <= n) => Written = {}
      BY <1>7, <2>1
    <3>2. ASSUME NEW n \in Written', Follows(k, n, Written') PROVE prev = event'[n].self
      <4>1. n \in Written /\ \A m_1 \in Written : m_1 <= n \/ k <= m_1
        BY <1>7, <2>1, <3>2 DEF Follows
      <4> QED
        BY <1>11, <2>1, <4>1
    <3>3. ASSUME NEW n \in Written', n < k PROVE Len(event'[n].self) < Len(prev) + 1
      BY <1>7, <1>12, <2>1, <3>3
    <3>4. s # "committed"
      BY EvidenceAssumption
    <3> QED
      BY <1>4, <1>9, <1>10, <2>2, <3>1, <3>2, <3>3, <3>4
  <2>3. CASE m # k
    <3>1. m \in Written /\ \A n \in Written' : n < m => n \in Written
      BY <1>3, <1>7, <2>1, <2>3
    <3>2. (\A n \in Written' : m <= n) => \A n \in Written : m <= n
      BY <1>7
    <3>3. \A n \in Written' : Follows(m, n, Written') => n \in Written /\ Follows(m, n, Written)
      BY <1>7, <3>1 DEF Follows
    <3> QED
      BY <1>5, <2>1, <3>1, <3>2, <3>3 DEF RowsInSequence
  <2> QED
    BY <2>2, <2>3
<1> QED
  BY <1>13 DEF RowsInSequence, Follows

LEMMA SequenceNext == Inv /\ OnePublisher /\ RowsInSequence /\ [Next]_vars => RowsInSequence'
<1> SUFFICES ASSUME Inv, OnePublisher, RowsInSequence, [Next]_vars PROVE RowsInSequence'
  OBVIOUS
<1>1. CASE UNCHANGED vars
  BY <1>1, SequenceSame DEF vars, chain
<1>2. CASE Next
  <2> PICK s \in Sessions : StepOf(s)
    BY <1>2, Zenon DEF Next, StepOf
  <2>1. Return(s) => Rollback(s) \/ Commit(s)
    BY Zenon DEF Return
  <2>2. CASE \E r \in Runs : StartPublish(s, r)
    BY <2>2, SequenceSame DEF StartPublish
  <2>3. CASE Crash(s) \/ CommitCancel(s) \/ CheckpointConflict(s) \/ DropEntries(s)
    <3>1. Rollback(s) \/ Commit(s)
      BY <2>1, <2>3, Zenon DEF Crash, CommitCancel, CheckpointConflict, DropEntries
    <3> QED
      BY <3>1, EndSequence
  <2>4. CASE Save(s)
    <3>1. CommitEvents(s) /\ overlapped' = overlapped
      BY <2>4, Zenon DEF Save
    <3> QED
      BY <3>1, CommitSequence
  <2>5. CASE AppendEvent(s)
    BY <2>5, AppendSequence
  <2>6. CASE Match(s)
    <3>1. Return(s) \/ UNCHANGED chain
      BY <2>6, MatchEffect DEF Match
    <3> QED
      BY <2>1, <3>1, EndSequence, SequenceSame DEF chain
  <2>7. CASE \/ Sweep(s) \/ ConsumeOwn(s) \/ TakeEntries(s) \/ StreamFails(s)
             \/ LookupCheckpoint(s) \/ InsertCheckpoint(s) \/ Materialize(s) \/ Ack(s)
    <3>1. UNCHANGED chain
      BY <2>7, Zenon DEF Sweep, ConsumeOwn, TakeEntries, StreamFails, LookupCheckpoint,
                         InsertCheckpoint, Materialize, Ack
    <3> QED
      BY <3>1, SequenceSame DEF chain
  <2> QED
    BY <2>2, <2>3, <2>4, <2>5, <2>6, <2>7, Zenon DEF StepOf, Advance
<1> QED
  BY <1>1, <1>2

\* Unless publishing transactions overlapped, every row is chained to the one appended
\* before it, whatever was rolled back, and hashes grow along the chain
\* (append_persisted_event, _asset_chain_tail_hash).
THEOREM SequenceTheorem == Spec => []RowsInSequence
<1>1. Init => RowsInSequence
  BY DEF Init, RowsInSequence, Written, NoEvent
<1> QED
  BY <1>1, InvTheorem, PublisherTheorem, SequenceNext, PTL DEF Spec

-----------------------------------------------------------------------------
(* Reading in order *)

\* All of a sequence, in its order, is the sequence.
LEMMA AllPlaces ==
    ASSUME NEW n \in Nat, NEW S, NEW rows \in [1..n -> S]
    PROVE  AtPlaces(rows, 1..n) = rows
<1>1. Cardinality(1..n) = n
  BY FS_Interval
<1>2. ASSUME NEW i \in 1..n PROVE Cardinality({j \in 1..n : j < i}) = i - 1
  <2>1. {j \in 1..n : j < i} = 1..(i - 1)
    OBVIOUS
  <2>2. i - 1 \in Nat /\ 1 \in Int /\ i - 1 \in Int
    OBVIOUS
  <2>3. Cardinality(1..(i - 1)) = i - 1
    BY <2>2, FS_Interval
  <2> QED
    BY <2>1, <2>3
<1>3. ASSUME NEW k \in 1..n
      PROVE  (CHOOSE i \in 1..n : Cardinality({j \in 1..n : j < i}) = k - 1) = k
  <2> DEFINE At(i) == Cardinality({j \in 1..n : j < i}) = k - 1
  <2>1. At(k)
    BY <1>2
  <2>2. \A i \in 1..n : At(i) => i = k
    BY <1>2
  <2> HIDE DEF At
  <2>3. (CHOOSE i \in 1..n : At(i)) = k
    BY <2>1, <2>2
  <2> QED
    BY <2>3, Zenon DEF At
<1> QED
  BY <1>1, <1>3 DEF AtPlaces

LEMMA NoPlaces ==
    ASSUME NEW rows
    PROVE  AtPlaces(rows, {}) = <<>>
<1>1. Cardinality({}) = 0
  BY FS_EmptySet
<1> QED
  BY <1>1 DEF AtPlaces

\* What satisfies the equations of the walk is the walk.
LEMMA WalkIs ==
    ASSUME NEW e, NEW rows, NEW n \in Nat, DOMAIN rows = 1..n,
           NEW S, NEW W \in [1..n -> S], 0 \notin S,
           n >= 1 => W[1] = ChainStart(e, rows),
           \A k \in 2..n : W[k] = ByPrev(e, rows, e[W[k - 1]].self)
    PROVE  Walk(e, rows) = W
<1> DEFINE Body(f, k) == IF k = 1 THEN ChainStart(e, rows)
                         ELSE IF f[k - 1] = 0 THEN 0
                         ELSE ByPrev(e, rows, e[f[k - 1]].self)
           IsWalk(f) == f = [k \in 1..n |-> Body(f, k)]
           walk == CHOOSE f : IsWalk(f)
<1>1. Walk(e, rows) = walk
  BY DEF Walk
<1>2. IsWalk(W)
  <2>1. ASSUME NEW k \in 1..n PROVE W[k] = Body(W, k)
    <3>1. CASE k = 1
      BY <3>1
    <3>2. CASE k # 1
      <4>1. k \in 2..n /\ k - 1 \in 1..n
        BY <3>2
      <4> QED
        BY <3>2, <4>1
    <3> QED
      BY <3>1, <3>2
  <2> HIDE DEF Body
  <2> QED
    BY <2>1
<1>3. IsWalk(walk)
  <2> HIDE DEF IsWalk
  <2> QED
    BY <1>2
<1>4. walk = [k \in 1..n |-> Body(walk, k)]
  BY <1>3
<1> HIDE DEF walk
<1>5. ASSUME NEW k \in 1..n, walk[k] # W[k] PROVE FALSE
  <2> DEFINE bad == {j \in 1..n : walk[j] # W[j]}
  <2>1. PICK j \in bad : \A i \in bad : j <= i
    <3>1. bad \subseteq Nat /\ bad # {}
      BY <1>5
    <3> HIDE DEF bad
    <3> QED
      BY <3>1, LeastExists
  <2>2. j \in 1..n /\ walk[j] # W[j] /\ (j # 1 => j - 1 \in 1..n /\ walk[j - 1] = W[j - 1])
    BY <2>1
  <2>3. Body(walk, j) = Body(W, j)
    BY <2>2
  <2>4. walk[j] = Body(walk, j) /\ W[j] = Body(W, j)
    <3> HIDE DEF Body
    <3>1. W = [i \in 1..n |-> Body(W, i)]
      BY <1>2
    <3>2. \A i \in 1..n : [l \in 1..n |-> Body(walk, l)][i] = Body(walk, i)
      OBVIOUS
    <3>3. \A i \in 1..n : [l \in 1..n |-> Body(W, l)][i] = Body(W, i)
      OBVIOUS
    <3> QED
      BY <1>4, <2>2, <3>1, <3>2, <3>3
  <2> QED
    BY <2>2, <2>3, <2>4
<1>6. walk = W
  <2>1. DOMAIN walk = 1..n /\ walk = [k \in 1..n |-> walk[k]]
    <3> HIDE DEF Body
    <3> QED  BY <1>4
  <2> QED
    BY <1>5, <2>1
<1> QED
  BY <1>1, <1>6

\* Committed rows of which none is missing in between are chained in the order they were
\* appended, and no two rows have one hash.
LEMMA SequenceLinked ==
    ASSUME TypeOK, RowsInSequence, ~overlapped, NEW S \in SUBSET Committed,
           \A n, m \in S : \A k \in Committed : n < k /\ k < m => k \in S,
           NEW W \in Listing(S, "stream")
    PROVE  LET N == Cardinality(S)
           IN  /\ \A k \in 2..N : event[W[k]].prev = event[W[k - 1]].self
               /\ \A j \in 1..N : event[W[1]].prev # event[W[j]].self
               /\ \A i, j \in 1..N : event[W[i]].self = event[W[j]].self => i = j
<1> DEFINE N == Cardinality(S)
<1>1. /\ Committed \subseteq Written /\ Written \subseteq Ids /\ S \subseteq Ids /\ Ids \subseteq Nat
      /\ \A n \in Committed : event[n].owner = "committed"
  BY EvidenceAssumption, IdsFinite DEF Committed, Written
<1>9. S \in SUBSET Ids
  BY <1>1
<1>8. (\A n \in Written : n \in Nat) /\ (\A n \in S : n \in Nat)
  BY <1>1
<1>2. /\ W \in [1..N -> S] /\ N \in Nat
      /\ \A n \in S : \E i \in 1..N : W[i] = n
      /\ \A i, j \in 1..N : i < j => Before(W[i], W[j], "stream")
  <2>1. /\ W \in [1..Cardinality(S) -> S] /\ Cardinality(S) \in Nat
        /\ \A n \in S : \E i \in 1..Cardinality(S) : W[i] = n
        /\ \A i, j \in 1..Cardinality(S) :
              /\ i < j => Before(W[i], W[j], "stream")
              /\ W[i] = W[j] => i = j
    BY <1>9, ListingOnto
  <2> QED
    BY <2>1
<1>3. \A i, j \in 1..N : i < j => W[i] < W[j]
  BY <1>2 DEF Before
<1> HIDE DEF N
<1>4. \A n, m \in Written : n # m => event[n].self # event[m].self
  <2> SUFFICES ASSUME NEW n \in Written, NEW m \in Written, n < m
               PROVE  event[n].self # event[m].self
    BY <1>1
  <2>1. Len(event[n].self) < Len(event[m].self)
    BY DEF RowsInSequence
  <2>2. Len(event[n].self) \in Nat
    BY <1>1 DEF TypeOK, EventRow
  <2> QED
    BY <2>1, <2>2
<1>5. ASSUME NEW k \in 2..N PROVE event[W[k]].prev = event[W[k - 1]].self
  <2>1. k \in 1..N /\ k - 1 \in 1..N /\ k - 1 < k
    BY <1>2
  <2>2. W[k] \in S /\ W[k - 1] \in S /\ W[k - 1] < W[k]
    BY <1>2, <1>3, <2>1
  <2>3. ASSUME NEW x \in Written, W[k - 1] < x, x < W[k] PROVE FALSE
    <3>1. W[k] \in Written /\ event[W[k]].owner = "committed"
      BY <1>1, <2>2
    <3>2. event[x].owner = "committed"
      BY <2>3, <3>1 DEF RowsInSequence
    <3>3. x \in S
      BY <1>1, <2>2, <2>3, <3>2 DEF Committed
    <3>4. PICK i \in 1..N : W[i] = x
      BY <1>2, <3>3
    <3>5. i # k /\ i # k - 1 /\ ~(k < i) /\ ~(i < k - 1)
      <4>1. W[k] \in Nat /\ W[k - 1] \in Nat /\ x \in Nat
        BY <1>1, <2>2
      <4> QED
        BY <1>3, <2>1, <2>3, <3>4, <4>1
    <3> QED
      BY <1>2, <2>1, <3>5
  <2>4. \A x \in Written : x <= W[k - 1] \/ W[k] <= x
    BY <1>8, <2>2, <2>3
  <2>5. Follows(W[k], W[k - 1], Written)
    BY <2>2, <2>4 DEF Follows
  <2> QED
    BY <1>1, <2>2, <2>5 DEF RowsInSequence
<1>6. ASSUME NEW j \in 1..N PROVE event[W[1]].prev # event[W[j]].self
  <2>1. 1 \in 1..N /\ W[1] \in S /\ W[j] \in S
    BY <1>2
  <2>2. W[1] <= W[j]
    <3>1. j = 1 \/ 1 < j
      BY <1>2
    <3> QED
      BY <1>3, <1>8, <2>1, <3>1
  <2>3. W[1] \in Written /\ W[j] \in Written
    BY <1>1, <2>1
  <2> DEFINE earlier == {n \in Written : n < W[1]}
  <2>4. CASE earlier = {}
    <3>1. \A n \in Written : W[1] <= n
      BY <1>8, <2>1, <2>4
    <3> QED
      BY <2>3, <3>1 DEF RowsInSequence
  <2>5. CASE earlier # {}
    <3>1. earlier \in SUBSET Ids
      BY <1>1
    <3>2. PICK p \in earlier : \A n \in earlier : n = p \/ n < p
      <4> HIDE DEF earlier
      <4>1. PICK p \in earlier : \A n \in earlier : n = p \/ Before(n, p, "stream")
        BY <2>5, <3>1, LastExists
      <4> QED
        BY <4>1 DEF Before
    <3>3. Follows(W[1], p, Written)
      BY <1>8, <2>3, <3>2 DEF Follows
    <3>4. event[W[1]].prev = event[p].self
      BY <2>3, <3>2, <3>3 DEF RowsInSequence
    <3>5. p # W[j] /\ p \in Written
      BY <1>8, <2>1, <2>2, <2>3, <3>2
    <3> QED
      BY <1>4, <2>3, <3>4, <3>5
  <2> QED
    BY <2>4, <2>5
<1>7. \A i, j \in 1..N : event[W[i]].self = event[W[j]].self => i = j
  <2> SUFFICES ASSUME NEW i \in 1..N, NEW j \in 1..N, i < j PROVE event[W[i]].self # event[W[j]].self
    BY <1>2
  <2>1. W[i] \in S /\ W[j] \in S /\ W[i] < W[j]
    BY <1>2, <1>3
  <2>2. W[i] # W[j] /\ W[i] \in Written /\ W[j] \in Written
    <3>1. W[i] \in Written /\ W[j] \in Written
      BY <1>1, <2>1
    <3> QED
      BY <1>8, <2>1, <3>1
  <2> QED
    BY <1>4, <2>2
<1> QED
  BY <1>5, <1>6, <1>7 DEF N

\* An order in which a query may return rows names each of them once.
LEMMA OrderOnto ==
    ASSUME NEW S \in SUBSET Ids, NEW q \in Orders(S)
    PROVE  LET N == Cardinality(S)
           IN  /\ q \in [1..N -> S] /\ N \in Nat /\ Len(q) = N
               /\ \A n \in S : \E i \in 1..N : q[i] = n
               /\ \A i, j \in 1..N : q[i] = q[j] => i = j
<1> DEFINE N == Cardinality(S)
<1>1. IsFiniteSet(S) /\ N \in Nat
  BY IdsFinite
<1>2. q \in [1..N -> S] /\ \A i, j \in 1..N : q[i] = q[j] => i = j
  BY DEF Orders
<1>3. IsFiniteSet(1..N) /\ Cardinality(1..N) = N
  BY <1>1, FS_Interval
<1> HIDE DEF N
<1>4. q \in Injection(1..N, S)
  BY <1>2 DEF Injection, IsInjective
<1>5. q \in Surjection(1..N, S)
  BY <1>1, <1>3, <1>4, FS_Injection DEF N
<1>6. \A n \in S : \E i \in 1..N : q[i] = n
  BY <1>5 DEF Surjection
<1>7. Len(q) = N
  BY <1>1, <1>2
<1> QED
  BY <1>1, <1>2, <1>6, <1>7 DEF N

\* Whatever order the rows were read in, following the links restores the one they were
\* appended in.
LEMMA OrderRestored ==
    ASSUME TypeOK, RowsInSequence, ~overlapped, NEW S \in SUBSET Committed,
           \A n, m \in S : \A k \in Committed : n < k /\ k < m => k \in S,
           NEW q \in Orders(S)
    PROVE  Len(ChainOrder(event, q)) = Len(q) /\ Linked(event, ChainOrder(event, q))
<1> DEFINE N == Cardinality(S)
<1>1. S \in SUBSET Ids /\ \A n \in Ids : n \in Nat /\ n # 0
  BY IdsFinite DEF Committed
<1>2. /\ q \in [1..N -> S] /\ N \in Nat /\ Len(q) = N
      /\ \A n \in S : \E i \in 1..N : q[i] = n
      /\ \A i, j \in 1..N : q[i] = q[j] => i = j
  BY <1>1, OrderOnto
<1>3. PICK W : W \in Listing(S, "stream")
  BY <1>1, ListingExists
<1>4. /\ W \in [1..N -> S]
      /\ \A n \in S : \E i \in 1..N : W[i] = n
  BY <1>1, <1>3, ListingOnto
<1>5. /\ \A k \in 2..N : event[W[k]].prev = event[W[k - 1]].self
      /\ \A j \in 1..N : event[W[1]].prev # event[W[j]].self
      /\ \A i, j \in 1..N : event[W[i]].self = event[W[j]].self => i = j
  BY <1>3, SequenceLinked
<1> HIDE DEF N
<1>6. CASE N < 2
  <2>1. ChainOrder(event, q) = q
    BY <1>2, <1>6 DEF ChainOrder
  <2> QED
    BY <1>2, <1>6, <2>1 DEF Linked
<1>7. CASE N >= 2
  <2>1. ChainStart(event, q) = W[1]
    <3> DEFINE heads == {i \in DOMAIN q : \A j \in DOMAIN q : event[q[i]].prev # event[q[j]].self}
    <3>1. PICK h \in 1..N : q[h] = W[1]
      BY <1>2, <1>4, <1>7
    <3>2. h \in heads
      <4>1. \A j \in 1..N : \E k \in 1..N : q[j] = W[k]
        BY <1>2, <1>4
      <4>2. ASSUME NEW j \in DOMAIN q PROVE event[q[h]].prev # event[q[j]].self
        <5>1. PICK k \in 1..N : q[j] = W[k]
          BY <1>2, <4>1
        <5> QED
          BY <1>5, <3>1, <5>1
      <4> QED
        BY <1>2, <4>2
    <3>3. ASSUME NEW i \in heads PROVE i = h
      <4>1. i \in 1..N /\ q[i] \in S
        BY <1>2
      <4>2. PICK k \in 1..N : q[i] = W[k]
        BY <1>4, <4>1
      <4>3. k = 1
        <5> SUFFICES ASSUME k # 1 PROVE FALSE
          OBVIOUS
        <5>1. k \in 2..N /\ k - 1 \in 1..N
          BY <1>2, <4>2
        <5>2. PICK j \in 1..N : q[j] = W[k - 1]
          BY <1>2, <1>4, <5>1
        <5>3. event[q[i]].prev = event[q[j]].self
          BY <1>5, <4>2, <5>1, <5>2
        <5>4. j \in DOMAIN q
          BY <1>2
        <5> QED
          BY <3>3, <5>3, <5>4
      <4> QED
        BY <1>2, <3>1, <4>1, <4>2, <4>3
    <3>4. ChainStart(event, q) = IF heads = {} THEN q[1]
                                 ELSE q[CHOOSE i \in heads : \A j \in heads : i <= j]
      BY Zenon DEF ChainStart
    <3>5. h \in Nat
      BY <1>2, <3>1
    <3> HIDE DEF heads
    <3>6. (CHOOSE i \in heads : \A j \in heads : i <= j) = h
      <4>1. heads = {h}
        BY <3>2, <3>3, Zenon
      <4>2. \E i \in {h} : \A j \in {h} : i <= j
        BY <3>5
      <4>3. (CHOOSE i \in {h} : \A j \in {h} : i <= j) \in {h}
        BY <4>2, Zenon
      <4> QED
        BY <4>1, <4>3
    <3> QED
      BY <3>1, <3>2, <3>4, <3>6
  <2>2. ASSUME NEW k \in 2..N PROVE W[k] = ByPrev(event, q, event[W[k - 1]].self)
    <3> DEFINE hash == event[W[k - 1]].self
               next == {i \in DOMAIN q : event[q[i]].prev = hash}
    <3>1. k \in 1..N /\ k - 1 \in 1..N
      BY <1>2
    <3>2. PICK h \in 1..N : q[h] = W[k]
      BY <1>2, <1>4, <3>1
    <3>3. h \in next
      BY <1>2, <1>5, <3>2
    <3>4. ASSUME NEW i \in next PROVE i = h
      <4>1. i \in 1..N /\ q[i] \in S
        BY <1>2
      <4>2. PICK j \in 1..N : q[i] = W[j]
        BY <1>4, <4>1
      <4>3. j # 1
        BY <1>5, <3>1, <3>4, <4>2
      <4>4. j \in 2..N /\ j - 1 \in 1..N
        BY <1>2, <4>2, <4>3
      <4>5. j - 1 = k - 1
        BY <1>5, <3>1, <3>4, <4>2, <4>4
      <4> QED
        BY <1>2, <3>2, <4>1, <4>2, <4>4, <4>5
    <3>5. ByPrev(event, q, hash) = IF next = {} THEN 0
                                   ELSE q[CHOOSE i \in next : \A j \in next : j <= i]
      BY Zenon DEF ByPrev
    <3>6. h \in Nat
      BY <1>2, <3>2
    <3> HIDE DEF next
    <3>7. (CHOOSE i \in next : \A j \in next : j <= i) = h
      <4>1. next = {h}
        BY <3>3, <3>4, Zenon
      <4>2. \E i \in {h} : \A j \in {h} : j <= i
        BY <3>6
      <4>3. (CHOOSE i \in {h} : \A j \in {h} : j <= i) \in {h}
        BY <4>2, Zenon
      <4> QED
        BY <4>1, <4>3
    <3> QED
      BY <3>2, <3>3, <3>5, <3>7
  <2>3. Walk(event, q) = W
    <3>1. DOMAIN q = 1..N /\ W \in [1..N -> S] /\ 0 \notin S /\ N \in Nat
      BY <1>1, <1>2, <1>4
    <3>2. N >= 1 => W[1] = ChainStart(event, q)
      BY <2>1
    <3>3. \A k \in 2..N : W[k] = ByPrev(event, q, event[W[k - 1]].self)
      BY <2>2
    <3> QED
      BY <3>1, <3>2, <3>3, WalkIs
  <2>4. {k \in DOMAIN q : W[k] # 0} = 1..N
    BY <1>1, <1>2, <1>4
  <2>5. {i \in DOMAIN q : \A k \in 1..N : q[i] # W[k]} = {}
    BY <1>2, <1>4
  <2>6. AtPlaces(W, 1..N) = W /\ AtPlaces(q, {}) = <<>>
    BY <1>2, <1>4, AllPlaces, NoPlaces
  <2>7. ChainOrder(event, q) = W \o <<>>
    <3>1. ~(Len(q) < 2)
      BY <1>2, <1>7
    <3> QED
      BY <2>3, <2>4, <2>5, <2>6, <3>1, Zenon DEF ChainOrder
  <2>8. W \o <<>> = W /\ Len(W) = N
    BY <1>2, <1>4
  <2>9. Linked(event, W)
    <3> SUFFICES ASSUME NEW i \in 1..(N - 1) PROVE event[W[i + 1]].prev = event[W[i]].self
      BY <2>8 DEF Linked
    <3>1. i + 1 \in 2..N /\ (i + 1) - 1 = i
      BY <1>2
    <3> QED
      BY <1>5, <3>1
  <2> QED
    BY <1>2, <2>7, <2>8, <2>9
<1> QED
  BY <1>2, <1>6, <1>7

\* Rows in sequence are read in order.
LEMMA ReadInOrder == TypeOK /\ RowsInSequence => ReadsInOrder
<1> SUFFICES ASSUME TypeOK, RowsInSequence, ~overlapped
             PROVE  /\ \A q \in Orders(Committed) :
                          /\ Len(ChainOrder(event, q)) = Len(q)
                          /\ Linked(event, ChainOrder(event, q))
                    /\ \A r \in Runs :
                          LET rows == {n \in Committed : event[n].run = r}
                          IN (\A n, m \in rows : \A k \in Committed : n < k /\ k < m => k \in rows)
                                => \A q \in Orders(rows) : Linked(event, ChainOrder(event, q))
  BY DEF ReadsInOrder
<1>1. ASSUME NEW q \in Orders(Committed)
      PROVE  Len(ChainOrder(event, q)) = Len(q) /\ Linked(event, ChainOrder(event, q))
  BY <1>1, OrderRestored
<1>2. ASSUME NEW r \in Runs
      PROVE  LET rows == {n \in Committed : event[n].run = r}
             IN (\A n, m \in rows : \A k \in Committed : n < k /\ k < m => k \in rows)
                   => \A q \in Orders(rows) : Linked(event, ChainOrder(event, q))
  <2> DEFINE rows == {n \in Committed : event[n].run = r}
  <2>1. rows \in SUBSET Committed
    OBVIOUS
  <2> HIDE DEF rows
  <2>2. ASSUME \A n, m \in rows : \A k \in Committed : n < k /\ k < m => k \in rows,
               NEW q \in Orders(rows)
        PROVE  Linked(event, ChainOrder(event, q))
    BY <2>1, <2>2, OrderRestored
  <2> QED
    BY <2>2 DEF rows
<1> QED
  BY <1>1, <1>2

\* As long as no two publishing transactions are open at once, a read returns the events
\* in the order they were chained, however the database returned their rows, for any
\* number of events, crashes and rollbacks (_chain_order).
THEOREM ReadsTheorem == Spec => []ReadsInOrder
<1>1. Inv /\ RowsInSequence => ReadsInOrder
  BY ReadInOrder DEF Inv
<1> QED
  BY <1>1, InvTheorem, SequenceTheorem, PTL
-----------------------------------------------------------------------------
(* Rows fit the log they are committed to *)

\* A session without rows starts something new, or one goes on with what it publishes.
LEMMA SealedStays ==
    ASSUME RowsSealed, NEW s \in Sessions, UNCHANGED event,
           \A t \in Sessions \ {s} : sess'[t] = sess[t],
           \/ sess[s].pc \in {"idle", "ack"}
           \/ sess'[s].run = sess[s].run /\ sess'[s].pc \notin {"idle", "ack"}
    PROVE  RowsSealed'
<1>1. Written' = Written /\ \A n \in Written : n \in Ids
  BY DEF Written
<1> QED
  BY <1>1 DEF RowsSealed

\* A session that ends leaves no row of its own.
LEMMA SealedEnds ==
    ASSUME TypeOK, RowsSealed, NEW s \in Sessions,
           \A t \in Sessions \ {s} : sess'[t] = sess[t],
           \A n \in Ids : event[n].owner # s => event'[n] = event[n],
           \A n \in Ids : event[n].owner = s =>
              event'[n].owner \in {Nobody, "committed"}
              /\ (event'[n].owner # Nobody => event'[n] = [event[n] EXCEPT !.owner = "committed"])
    PROVE  RowsSealed'
<1> SUFFICES ASSUME NEW n \in Written'
             PROVE  /\ \E payload \in Payloads : event'[n].self = SelfHash(event'[n].prev, payload)
                    /\ \A t \in Sessions : event'[n].owner = t =>
                          sess'[t].pc \notin {"idle", "ack"} /\ event'[n].run = sess'[t].run
  BY DEF RowsSealed
<1>1. n \in Ids /\ event'[n].owner # Nobody /\ s # Nobody /\ s # "committed"
  BY EvidenceAssumption DEF Written
<1>2. CASE event[n].owner = s
  <2>1. event'[n].owner = "committed" /\ event'[n] = [event[n] EXCEPT !.owner = "committed"]
    BY <1>1, <1>2
  <2>2. event'[n].self = event[n].self /\ event'[n].prev = event[n].prev
    BY <1>1, <2>1 DEF TypeOK, EventRow
  <2>3. n \in Written
    BY <1>1, <1>2 DEF Written
  <2> QED
    BY <2>1, <2>2, <2>3, EvidenceAssumption DEF RowsSealed
<1>3. CASE event[n].owner # s
  <2>1. event'[n] = event[n] /\ n \in Written
    BY <1>1, <1>3 DEF Written
  <2>2. \A t \in Sessions : event[n].owner = t => t \in Sessions \ {s}
    BY <1>3
  <2> QED
    BY <2>1, <2>2 DEF RowsSealed
<1> QED
  BY <1>2, <1>3

LEMMA EndSealed ==
    ASSUME Inv, RowsSealed, NEW s \in Sessions, Rollback(s) \/ Commit(s)
    PROVE  RowsSealed'
<1>1. /\ sess' = [sess EXCEPT ![s] = Idle]
      /\ \A n \in Ids : event[n].owner # s => event'[n] = event[n]
      /\ \A n \in Ids : event[n].owner = s =>
            event'[n].owner \in {Nobody, "committed"}
            /\ (event'[n].owner # Nobody => event'[n] = [event[n] EXCEPT !.owner = "committed"])
  BY EndTyped DEF Inv
<1>2. \A t \in Sessions \ {s} : sess'[t] = sess[t]
  BY <1>1, SetEffect DEF Inv, Set
<1> QED
  BY <1>1, <1>2, SealedEnds DEF Inv

LEMMA SaveSealed ==
    ASSUME Inv, RowsSealed, NEW s \in Sessions, Save(s)
    PROVE  RowsSealed'
<1>1. CommitEvents(s) /\ \E me : Set(s, me)
  BY Zenon DEF Save
<1>2. /\ \A n \in Ids : event[n].owner # s => event'[n] = event[n]
      /\ \A n \in Ids : event[n].owner = s =>
            event'[n] = [event[n] EXCEPT !.owner = "committed"] /\ event'[n].owner = "committed"
  BY <1>1, CommitTyped DEF Inv
<1>3. \A t \in Sessions \ {s} : sess'[t] = sess[t]
  BY <1>1, SetEffect DEF Inv
<1> QED
  BY <1>2, <1>3, SealedEnds DEF Inv

\* The row that is added is hashed over the one before it and belongs to the run published.
LEMMA AppendSealed ==
    ASSUME Inv, RowsSealed, NEW s \in Sessions, AppendEvent(s)
    PROVE  RowsSealed'
<1> DEFINE k == appended + 1
<1>1. PICK payload \in Payloads, prev \in TailHashes(event, Visible(s)) :
        event' = [event EXCEPT ![k] = [owner |-> s, run |-> sess[s].run, ts |-> sess[s].ts,
                                       prev |-> prev, self |-> SelfHash(prev, payload)]]
  BY Zenon DEF AppendEvent
<1>2. sess' = sess /\ sess[s].pc = "publish"
  BY DEF AppendEvent
<1>3. event \in [Ids -> EventRow]
  BY DEF Inv, TypeOK
<1> HIDE DEF k
<1> SUFFICES ASSUME NEW n \in Written'
             PROVE  /\ \E p \in Payloads : event'[n].self = SelfHash(event'[n].prev, p)
                    /\ \A t \in Sessions : event'[n].owner = t =>
                          sess'[t].pc \notin {"idle", "ack"} /\ event'[n].run = sess'[t].run
  BY DEF RowsSealed
<1>4. n \in Ids /\ event'[n].owner # Nobody
  BY DEF Written
<1>5. CASE n = k
  <2>1. /\ event'[n].owner = s /\ event'[n].run = sess[s].run
        /\ event'[n].prev = prev /\ event'[n].self = SelfHash(prev, payload)
    BY <1>1, <1>3, <1>4, <1>5
  <2> QED
    BY <1>2, <2>1
<1>6. CASE n # k
  <2>1. event'[n] = event[n] /\ n \in Written
    BY <1>1, <1>3, <1>4, <1>6 DEF Written
  <2> QED
    BY <1>2, <2>1 DEF RowsSealed
<1> QED
  BY <1>5, <1>6

LEMMA SealedNext == Inv /\ RowsSealed /\ [Next]_vars => RowsSealed'
<1> SUFFICES ASSUME Inv, RowsSealed, [Next]_vars PROVE RowsSealed'
  OBVIOUS
<1>1. CASE UNCHANGED vars
  BY <1>1 DEF vars, chain, RowsSealed, Written
<1>2. CASE Next
  <2> PICK s \in Sessions : StepOf(s)
    BY <1>2, Zenon DEF Next, StepOf
  <2>1. Return(s) => Rollback(s) \/ Commit(s)
    BY Zenon DEF Return
  <2>2. CASE (\E r \in Runs : StartPublish(s, r)) \/ Sweep(s) \/ Ack(s)
    <3>1. \E me : Set(s, me)
      BY <2>2, Zenon DEF StartPublish, Sweep, Ack
    <3>2. sess[s].pc \in {"idle", "ack"} /\ UNCHANGED event
      BY <2>2 DEF StartPublish, Sweep, Ack, chain
    <3> QED
      BY <3>1, <3>2, SetEffect, SealedStays DEF Inv
  <2>3. CASE Crash(s) \/ CommitCancel(s) \/ CheckpointConflict(s) \/ DropEntries(s)
    <3>1. Rollback(s) \/ Commit(s)
      BY <2>1, <2>3, Zenon DEF Crash, CommitCancel, CheckpointConflict, DropEntries
    <3> QED
      BY <3>1, EndSealed
  <2>4. CASE \/ ConsumeOwn(s) \/ TakeEntries(s) \/ StreamFails(s) \/ LookupCheckpoint(s)
             \/ InsertCheckpoint(s) \/ Match(s) \/ Materialize(s)
    <3>1. CASE Return(s)
      BY <2>1, <3>1, EndSealed
    <3>2. CASE ~Return(s)
      <4>1. UNCHANGED <<event, overlapped>>
            /\ \E me : Set(s, me) /\ me.run = sess[s].run /\ me.pc \notin {"idle", "ack"}
        BY <2>4, <3>2, GoesOn
      <4> QED
        BY <4>1, SetEffect, SealedStays DEF Inv
    <3> QED
      BY <3>1, <3>2
  <2> QED
    BY <2>2, <2>3, <2>4, AppendSealed, SaveSealed, Zenon DEF StepOf, Advance
<1> QED
  BY <1>1, <1>2

\* Every row is sealed by its hash, and those a transaction has added are of the run its
\* session publishes (append_persisted_event).
THEOREM SealedTheorem == Spec => []RowsSealed
<1>1. Init => RowsSealed
  BY DEF Init, RowsSealed, Written, NoEvent
<1> QED
  BY <1>1, InvTheorem, SealedNext, PTL DEF Spec

-----------------------------------------------------------------------------
(* EvidenceStream implements AuditLog *)

\* All that becomes of rows in a step of s: some of its own are committed.
CommitsOwn(s) ==
    \A n \in Ids :
        /\ event[n].owner = "committed" => event'[n] = event[n]
        /\ event'[n].owner = "committed" /\ event[n].owner # "committed" =>
              event[n].owner = s /\ event'[n].run = event[n].run

LEMMA LogIs ==
    /\ DOMAIN logBar = Committed
    /\ \A n \in Committed :
          /\ logBar[n].run = event[n].run
          /\ logBar[n].prev = event[n].prev
          /\ logBar[n].self = event[n].self
BY DEF logBar

LEMMA LogIsNext ==
    /\ DOMAIN logBar' = Committed'
    /\ \A n \in Committed' :
          /\ logBar'[n].run = event'[n].run
          /\ logBar'[n].prev = event'[n].prev
          /\ logBar'[n].self = event'[n].self
BY DEF logBar

LEMMA RowKept ==
    ASSUME NEW s \in Sessions, CommitsOwn(s), NEW n \in Committed
    PROVE  n \in Committed' /\ logBar'[n] = logBar[n]
<1>1. n \in Ids /\ event'[n] = event[n] /\ n \in Committed'
  BY DEF CommitsOwn, Committed
<1> QED
  BY <1>1 DEF logBar

LEMMA LogGrows ==
    ASSUME Inv, RowsSealed, RowsSealed', ChainGrounded', NEW s \in Sessions, CommitsOwn(s)
    PROVE  Audit!Grow
<1> DEFINE new == DOMAIN logBar' \ DOMAIN logBar
<1>1. DOMAIN logBar = Committed /\ DOMAIN logBar' = Committed' /\ Committed' \subseteq Ids
  BY LogIs, LogIsNext DEF Committed
<1>2. \A n \in Committed : n \in Committed' /\ logBar'[n] = logBar[n]
  BY RowKept
<1>3. ASSUME NEW n \in new PROVE Audit!Sealed(logBar'[n], logBar')
  <2>1. n \in Committed' /\ n \in Written'
    BY <1>1, EvidenceAssumption DEF Committed, Written
  <2>2. logBar'[n].prev = event'[n].prev /\ logBar'[n].self = event'[n].self
    BY <2>1, LogIsNext
  <2>3. \E payload \in Payloads : event'[n].self = SelfHash(event'[n].prev, payload)
    BY <2>1 DEF RowsSealed
  <2>4. event'[n].prev = ZeroHash \/ \E m \in Committed' : event'[m].self = event'[n].prev
    BY <2>1 DEF ChainGrounded
  <2>5. event'[n].prev = ZeroHash \/ \E m \in DOMAIN logBar' : logBar'[m].self = event'[n].prev
    BY <2>4, LogIsNext
  <2> QED
    BY <2>2, <2>3, <2>5 DEF Audit!Sealed, Audit!SelfHash, Audit!ZeroHash, SelfHash, ZeroHash
<1>4. ASSUME new # {} PROVE \E r \in Runs : \A n \in new : logBar'[n].run = r
  <2>1. ASSUME NEW n \in new
        PROVE  /\ logBar'[n].run = sess[s].run
               /\ n \in Ids /\ event[n].owner = s /\ event[n].run = sess[s].run
    <3>1. n \in Ids /\ n \in Committed' /\ event'[n].owner = "committed" /\ event[n].owner # "committed"
      BY <1>1 DEF Committed
    <3>2. event[n].owner = s /\ event'[n].run = event[n].run
      BY <3>1 DEF CommitsOwn
    <3>3. n \in Written
      BY <3>1, <3>2, EvidenceAssumption DEF Written
    <3>4. event[n].run = sess[s].run
      BY <3>2, <3>3 DEF RowsSealed
    <3>5. logBar'[n].run = event'[n].run
      BY <3>1, LogIsNext
    <3> QED
      BY <3>1, <3>2, <3>4, <3>5
  <2>2. PICK n \in new : TRUE
    BY <1>4
  <2> HIDE DEF new
  <2>3. n \in Ids /\ event[n].owner = s /\ event[n].run = sess[s].run
    BY <2>1
  <2>4. sess[s].run \in Runs
    BY <2>3, EvidenceAssumption DEF Inv, EvidenceSound, UsedRows
  <2> QED
    BY <2>1, <2>4
<1> QED
  BY <1>1, <1>2, <1>3, <1>4 DEF Audit!Grow

\* Records of committed events are records of events in the log.
LEMMA Attests ==
    ASSUME Inv', evidence \subseteq evidence'
    PROVE  Audit!Attest
<1>1. ASSUME NEW record \in evidence' PROVE Audit!Backed(record, logBar')
  <2>1. record.events # <<>> /\ \A i \in DOMAIN record.events :
            record.events[i] \in Committed' /\ event'[record.events[i]].run = record.run
    BY DEF Inv, EvidenceSound, EvidenceBacked
  <2> QED
    BY <2>1, LogIsNext DEF Audit!Backed
<1> QED
  BY <1>1 DEF Audit!Attest

LEMMA StepCommits ==
    ASSUME Inv, Inv', RowsSealed, RowsSealed', ChainGrounded', NEW s \in Sessions, CommitsOwn(s),
           evidence \subseteq evidence', missed' = missed,
           NEW done, \A n \in done : n \in missed \/ Evidenced(n),
           acked' = acked \cup done
    PROVE  Audit!Commit
<1>1. \A n \in done : Audit!Settled(n)
  BY DEF Audit!Settled, Evidenced, Covers
<1>2. Audit!Acknowledge
  BY <1>1 DEF Audit!Acknowledge
<1> QED
  BY <1>2, LogGrows, Attests DEF Audit!Commit

LEMMA EndCommitsOwn ==
    ASSUME Inv, NEW s \in Sessions, Rollback(s) \/ CommitEvents(s)
    PROVE  CommitsOwn(s)
<1>0. s # "committed" /\ Nobody # "committed"
  BY EvidenceAssumption
<1>1. CASE Rollback(s)
  <2>1. event' = [n \in Ids |-> IF event[n].owner = s THEN NoEvent ELSE event[n]]
    BY <1>1, Zenon DEF Rollback
  <2>2. NoEvent.owner = Nobody
    BY DEF NoEvent
  <2> QED
    BY <1>0, <2>1, <2>2 DEF CommitsOwn
<1>2. CASE CommitEvents(s)
  <2>1. /\ \A n \in Ids : event[n].owner # s => event'[n] = event[n]
        /\ \A n \in Ids : event[n].owner = s => event'[n] = [event[n] EXCEPT !.owner = "committed"]
    BY <1>2, CommitTyped DEF Inv
  <2>2. \A n \in Ids : [event[n] EXCEPT !.owner = "committed"].run = event[n].run
    BY DEF Inv, TypeOK, EventRow
  <2> QED
    BY <1>0, <2>1, <2>2 DEF CommitsOwn
<1> QED
  BY <1>1, <1>2

LEMMA AppendCommitsNothing ==
    ASSUME Inv, NEW s \in Sessions, AppendEvent(s)
    PROVE  CommitsOwn(s)
<1> DEFINE k == appended + 1
<1>1. PICK payload \in Payloads, prev \in TailHashes(event, Visible(s)) :
        event' = [event EXCEPT ![k] = [owner |-> s, run |-> sess[s].run, ts |-> sess[s].ts,
                                       prev |-> prev, self |-> SelfHash(prev, payload)]]
  BY Zenon DEF AppendEvent
<1>2. k \in Ids => event[k].owner = Nobody
  BY DEF Inv, EvidenceSound, UsedRows, TypeOK, Ids
<1>3. event \in [Ids -> EventRow] /\ s # "committed" /\ Nobody # "committed"
  BY EvidenceAssumption DEF Inv, TypeOK
<1> HIDE DEF k
<1>4. ASSUME NEW n \in Ids, n = k PROVE event'[n].owner = s /\ event[n].owner = Nobody
  BY <1>1, <1>2, <1>3, <1>4
<1>5. ASSUME NEW n \in Ids, n # k PROVE event'[n] = event[n]
  BY <1>1, <1>3, <1>5
<1> QED
  BY <1>3, <1>4, <1>5 DEF CommitsOwn

\* Entries whose rows a session does not see are not in the log.
LEMMA MatchMisses ==
    ASSUME NEW s \in Sessions, Match(s), UNCHANGED chain
    PROVE  Audit!Miss
<1>1. missed' = missed \cup (sess[s].batch \ Visible(s)) /\ UNCHANGED <<redis, ledger>>
  BY MatchEffect
<1>2. Committed \subseteq Visible(s)
  BY DEF Committed, Visible
<1>3. DOMAIN logBar = Committed /\ logBar' = logBar
  <2>1. event' = event
    BY DEF chain
  <2>2. Committed' = Committed
    BY <2>1 DEF Committed
  <2> QED
    BY <2>1, <2>2, LogIs DEF logBar
<1> QED
  BY <1>1, <1>2, <1>3 DEF Audit!Miss, redis, ledger

LEMMA StepImplements ==
    ASSUME Inv, Inv', RowsSealed, RowsSealed', ChainGrounded', EntriesAccounted, [Next]_vars
    PROVE  [Audit!ANext]_(Audit!avars)
<1>1. CASE UNCHANGED vars
  <2>1. UNCHANGED <<event, evidence, missed, acked>>
    BY <1>1 DEF vars, chain, redis, ledger
  <2>2. Committed' = Committed
    BY <2>1 DEF Committed
  <2>3. logBar' = logBar
    BY <2>1, <2>2 DEF logBar
  <2> QED
    BY <2>1, <2>3 DEF Audit!avars
<1>2. CASE Next
  <2> SUFFICES Audit!Commit \/ Audit!Miss
    BY DEF Audit!ANext
  <2> PICK s \in Sessions : StepOf(s)
    BY <1>2, Zenon DEF Next, StepOf
  <2>1. Return(s) => Rollback(s) \/ CommitEvents(s)
    BY Zenon DEF Return, Commit
  <2>2. UNCHANGED event => CommitsOwn(s)
    BY DEF CommitsOwn
  <2>3. ASSUME CommitsOwn(s), evidence \subseteq evidence', missed' = missed, acked' = acked
        PROVE  Audit!Commit
    <3> DEFINE none == {}
    <3>1. acked' = acked \cup none /\ \A n \in none : n \in missed \/ Evidenced(n)
      BY <2>3
    <3> HIDE DEF none
    <3>2. CommitsOwn(s) /\ evidence \subseteq evidence' /\ missed' = missed
      BY <2>3
    <3> QED
      BY <3>1, <3>2, StepCommits
  <2>4. CASE \/ (\E r \in Runs : StartPublish(s, r)) \/ Sweep(s) \/ ConsumeOwn(s)
             \/ TakeEntries(s) \/ StreamFails(s) \/ LookupCheckpoint(s)
             \/ InsertCheckpoint(s) \/ Materialize(s)
    <3>1. UNCHANGED <<event, evidence, missed, acked>>
      BY <2>4 DEF StartPublish, Sweep, ConsumeOwn, TakeEntries, StreamFails, LookupCheckpoint,
                  InsertCheckpoint, Materialize, chain, redis, ledger
    <3> QED
      BY <2>2, <2>3, <3>1
  <2>5. CASE AppendEvent(s)
    <3>1. UNCHANGED <<evidence, missed, acked>>
      BY <2>5 DEF AppendEvent, ledger
    <3> QED
      BY <2>3, <2>5, <3>1, AppendCommitsNothing
  <2>6. CASE Crash(s) \/ CommitCancel(s) \/ CheckpointConflict(s)
    <3>1. Rollback(s) \/ CommitEvents(s)
      BY <2>6, Zenon DEF Crash, CommitCancel, CheckpointConflict, Commit
    <3>2. UNCHANGED <<evidence, missed, acked>>
      BY <2>6 DEF Crash, CommitCancel, CheckpointConflict, redis, ledger
    <3> QED
      BY <2>3, <3>1, <3>2, EndCommitsOwn
  <2>7. CASE Match(s)
    <3>1. CASE UNCHANGED chain
      BY <2>7, <3>1, MatchMisses
    <3>2. CASE sess[s].batch = {} /\ Return(s)
      <4>1. UNCHANGED <<redis, ledger>> /\ missed' = missed \cup (sess[s].batch \ Visible(s))
        BY <2>7, MatchEffect
      <4>2. UNCHANGED <<evidence, missed, acked>>
        BY <3>2, <4>1 DEF redis, ledger
      <4> QED
        BY <2>1, <2>3, <3>2, <4>2, EndCommitsOwn
    <3> QED
      BY <2>7, <3>1, <3>2, MatchEffect
  <2>8. CASE DropEntries(s)
    <3>1. sess[s].pc = "drop" /\ UNCHANGED <<evidence, missed>>
          /\ (acked' = acked \cup sess[s].batch \/ acked' = acked)
      BY <2>8 DEF DropEntries, ledger
    <3>2. Rollback(s) \/ CommitEvents(s)
      BY <2>1, <2>8, Zenon DEF DropEntries
    <3>3. \A n \in sess[s].batch : n \in missed \/ Evidenced(n)
      BY <3>1 DEF EntriesAccounted, EntriesHandled
    <3> QED
      BY <2>3, <3>1, <3>2, <3>3, EndCommitsOwn, StepCommits
  <2>9. CASE Save(s)
    <3>1. CommitEvents(s) /\ evidence \subseteq evidence' /\ UNCHANGED <<missed, acked>>
      BY <2>9 DEF Save, redis
    <3> QED
      BY <2>3, <3>1, EndCommitsOwn
  <2>10. CASE Ack(s)
    <3>1. sess[s].pc = "ack" /\ UNCHANGED <<event, evidence, missed>>
          /\ (acked' = acked \cup sess[s].batch \/ acked' = acked)
      BY <2>10 DEF Ack, chain, ledger
    <3>2. \A n \in sess[s].batch : n \in missed \/ Evidenced(n)
      BY <3>1 DEF EntriesAccounted, EntriesHandled
    <3> QED
      BY <2>2, <2>3, <3>1, <3>2, StepCommits
  <2> QED
    BY <2>4, <2>5, <2>6, <2>7, <2>8, <2>9, <2>10, Zenon DEF StepOf, Advance
<1> QED
  BY <1>1, <1>2

\* The tables and the stream implement an audit log: it is only appended to, what is in it
\* stays sealed, evidence of it is never withdrawn, and entries are given up only while
\* their event is not in it, for any number of sessions, crashes and failures of Redis
\* (append_persisted_event, consume_evidence_events).
THEOREM AuditTheorem == Spec => ImplementsAuditLog
<1>1. Init => Audit!AInit
  BY EvidenceAssumption DEF Init, Audit!AInit, logBar, Committed, NoEvent
<1>2. Inv /\ Inv' /\ RowsSealed /\ RowsSealed' /\ ChainGrounded' /\ EntriesAccounted /\ [Next]_vars
      => [Audit!ANext]_(Audit!avars)
  BY StepImplements
<1> QED
  BY <1>1, <1>2, InvTheorem, SealedTheorem, ChainTheorem, AccountedTheorem, PTL
     DEF Spec, ImplementsAuditLog, Audit!ASpec

=============================================================================
