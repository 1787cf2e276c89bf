--------------------------- MODULE ReviewLifecycle ---------------------------
(***************************************************************************)
(* What the review of proposed changes promises, whatever its requests do  *)
(* to each other: a change is tested in a sandbox, approved, written to an *)
(* external system and recorded as applied, each of them for good, and     *)
(* neither of the last two before both of the first.                       *)
(*                                                                         *)
(* The status column is no part of it: the code overwrites it blindly.     *)
(* Applied does not need dispatched: an apply may be answered by a preview *)
(* or by simulated outputs (see ReviewDispatch).                           *)
(***************************************************************************)
CONSTANT Changes
VARIABLES sandboxed, approved, dispatched, applied

LInit == sandboxed = {} /\ approved = {} /\ dispatched = {} /\ applied = {}

Sandbox(c) ==
    /\ sandboxed' = sandboxed \cup {c}
    /\ UNCHANGED <<approved, dispatched, applied>>

Approve(c) ==
    /\ approved' = approved \cup {c}
    /\ UNCHANGED <<sandboxed, dispatched, applied>>

Dispatch(c) ==
    /\ c \in sandboxed \cap approved
    /\ dispatched' = dispatched \cup {c}
    /\ UNCHANGED <<sandboxed, approved, applied>>

Apply(c) ==
    /\ c \in sandboxed \cap approved
    /\ applied' = applied \cup {c}
    /\ UNCHANGED <<sandboxed, approved, dispatched>>

LNext == \E c \in Changes : Sandbox(c) \/ Approve(c) \/ Dispatch(c) \/ Apply(c)

LSpec == LInit /\ [][LNext]_<<sandboxed, approved, dispatched, applied>>
=============================================================================
