------------------------------- MODULE AuditLog -------------------------------
(***************************************************************************)
(* What the event stream promises to who audits an asset, whatever         *)
(* sessions, transactions and Redis do: a log of events that only grows    *)
(* and in which no event is rewritten, each event sealed by its hash over  *)
(* that of an event in the log; evidence that is never withdrawn and       *)
(* names, for one run, events that are in the log; entries that are done   *)
(* with only once they are evidenced or were missed, and missed only while *)
(* their event is not in the log.                                          *)
(*                                                                         *)
(* That an event in the log always becomes evidence is not promised: one   *)
(* that was missed may enter the log later.                                *)
(***************************************************************************)
EXTENDS HashChain

CONSTANTS Events, Runs, Payloads

VARIABLES
    log,       \* log[n]: run and hashes of event n, for the events in the log
    evidence,  \* the evidence records
    missed,    \* entries that were read while their event was not in the log
    acked      \* entries that are done with

avars == <<log, evidence, missed, acked>>

AInit ==
    /\ log = [n \in {} |-> n]
    /\ evidence = {} /\ missed = {} /\ acked = {}

\* The row's own hash is that of one of the payloads over the hash before it, and that
\* one starts the chain or is the hash of a row in rows.
Sealed(row, rows) ==
    /\ \E payload \in Payloads : row.self = SelfHash(row.prev, payload)
    /\ row.prev = ZeroHash \/ \E m \in DOMAIN rows : rows[m].self = row.prev

Backed(record, rows) ==
    /\ record.events # <<>>
    /\ \A i \in DOMAIN record.events :
          /\ record.events[i] \in DOMAIN rows
          /\ rows[record.events[i]].run = record.run

\* A transaction adds events of one run.
Grow ==
    LET new == DOMAIN log' \ DOMAIN log
    IN  /\ DOMAIN log' \subseteq Events
        /\ DOMAIN log \subseteq DOMAIN log' /\ \A n \in DOMAIN log : log'[n] = log[n]
        /\ \A n \in new : Sealed(log'[n], log')
        /\ new # {} => \E r \in Runs : \A n \in new : log'[n].run = r

\* The records it adds may be about these events.
Attest ==
    /\ evidence \subseteq evidence'
    /\ \A record \in evidence' \ evidence : Backed(record, log')

\* Entries are acknowledged after their evidence.
Settled(n) ==
    \/ n \in missed
    \/ \E record \in evidence : \E i \in DOMAIN record.events : record.events[i] = n
Acknowledge ==
    /\ acked \subseteq acked'
    /\ \A n \in acked' \ acked : Settled(n)

Commit == Grow /\ Attest /\ Acknowledge /\ UNCHANGED missed

\* A session looks for the rows of entries and does not find them.
Miss ==
    /\ missed \subseteq missed' /\ missed' \cap DOMAIN log \subseteq missed
    /\ UNCHANGED <<log, evidence, acked>>

ANext == Commit \/ Miss

ASpec == AInit /\ [][ANext]_avars
=============================================================================
