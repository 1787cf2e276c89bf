----------------------------- MODULE GovernedRuns -----------------------------
(***************************************************************************)
(* What the workflow runtime promises of every run, whatever sessions do   *)
(* to its rows: a step starts only after every step ahead of it completed  *)
(* and completes only after it was started, a policy gate completes        *)
(* together with its decision, a human gate of a run that asks for a human *)
(* completes only by an approval, and a write leaves the system only as a  *)
(* hook.out step starts.                                                   *)
(*                                                                         *)
(* The status columns are no part of it: recovery, cancellation and stale  *)
(* copies move them back and forth.  A step may start and complete again.  *)
(***************************************************************************)
EXTENDS Naturals

CONSTANTS Runs, Steps, Kind

VARIABLES
    created,    \* the runs that exist
    manual,     \* the runs whose inputs ask for a human decision
    started,    \* started[r]: the steps that were started
    completed,  \* completed[r]: the steps that succeeded once
    decided,    \* decided[r]: the steps with a policy decision
    approved,   \* the runs a human approved
    sends       \* sends[r]: external writes issued for r

gvars == <<created, manual, started, completed, decided, approved, sends>>

GInit ==
    /\ created = {} /\ manual = {} /\ approved = {}
    /\ started = [r \in Runs |-> {}]
    /\ completed = [r \in Runs |-> {}]
    /\ decided = [r \in Runs |-> {}]
    /\ sends = [r \in Runs |-> 0]

\* Everything ahead of step i has completed.
Reached(r, i) == r \in created /\ 1..(i - 1) \subseteq completed[r]

Create(r) ==
    /\ r \notin created
    /\ created' = created \cup {r}
    /\ manual' \in {manual, manual \cup {r}}
    /\ UNCHANGED <<started, completed, decided, approved, sends>>

Start(r, i) ==
    /\ Reached(r, i)
    /\ started' = [started EXCEPT ![r] = @ \cup {i}]
    /\ \/ UNCHANGED sends
       \/ Kind[i] = "hook.out" /\ sends' = [sends EXCEPT ![r] = @ + 1]
    /\ UNCHANGED <<created, manual, completed, decided, approved>>

\* Results are recorded in batches: those of S succeeded, the others did not.
Complete(r, batch, S) ==
    /\ batch \subseteq started[r] /\ S \subseteq batch
    /\ \A i \in batch : Reached(r, i)
    /\ \A i \in S : ~(Kind[i] = "gate.human" /\ r \in manual)
    /\ completed' = [completed EXCEPT ![r] = @ \cup S]
    /\ decided' = [decided EXCEPT ![r] = @ \cup {i \in batch : Kind[i] = "gate.policy"}]
    /\ UNCHANGED <<created, manual, started, approved, sends>>

Approve(r, i) ==
    /\ Kind[i] = "gate.human" /\ r \in manual
    /\ i \in started[r] /\ Reached(r, i)
    /\ completed' = [completed EXCEPT ![r] = @ \cup {i}]
    /\ approved' = approved \cup {r}
    /\ UNCHANGED <<created, manual, started, decided, sends>>

GNext ==
    \E r \in Runs :
        \/ Create(r)
        \/ \E i \in Steps : Start(r, i) \/ Approve(r, i)
        \/ \E batch \in SUBSET Steps : \E S \in SUBSET batch : Complete(r, batch, S)

GSpec == GInit /\ [][GNext]_gvars
=============================================================================
