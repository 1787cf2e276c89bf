------------------------- MODULE ReviewDispatchProofs -------------------------
(***************************************************************************)
(* Proofs about ReviewDispatch, for any number of changes, hooks, requests *)
(* and calls: the invariants of the review, and that it implements         *)
(* ReviewLifecycle.                                                        *)
(*                                                                         *)
(* The invariants are not inductive by themselves.  What is missing is     *)
(* what a request in flight relies on between its two transactions: the    *)
(* change it applies stays tested and approved, the success it is about to *)
(* note is in the ledger, and no success of its key that is in the ledger  *)
(* was there when it looked.  RequestFits says so of one      *)
(* request.                                                                *)
(***************************************************************************)
EXTENDS ReviewDispatch, FiniteSetTheorems, TLAPS

Called == {"lookup", "send", "legacy", "record", "mark"}

\* What a request relies on, given the changes ch and the ledger cs.
RequestFits(me, ch, cs) ==
    /\ me.pc # "idle" => me.c \in Changes
    /\ me.pc \in Called => me.h \in Hooks
    /\ me.apply => /\ me.pc \in Called
                   /\ ch[me.c].sandbox # 0 /\ ch[me.c].approver
    /\ me.pc = "mark" => /\ me.apply
                         /\ \E n \in DOMAIN cs : /\ cs[n].key = _idempotency_key(me.h, me.c)
                                                 /\ cs[n].ok
    /\ me.pc = "record" /\ me.ok /\ me.live /\ ~me.sim => me.writes > 0
    /\ me.seen <= Len(cs)
    /\ me.pc \in {"send", "legacy", "record"} /\ me.live =>
        \A n \in DOMAIN cs : cs[n].key = _idempotency_key(me.h, me.c) /\ cs[n].ok => n > me.seen

InFlight == \A r \in Reqs : RequestFits(req[r], change, calls)

\* A row that claims a live success without simulation wrote something.
CallsHonest == \A n \in DOMAIN calls :
    calls[n].ok /\ calls[n].live /\ ~calls[n].sim => calls[n].writes > 0

ReviewInv ==
    /\ TypeOK
    /\ InFlight
    /\ CallsHonest
    /\ StatusTracksColumns
    /\ AppliedIsTraced
    /\ ReplayOnceRecorded

\* The types of what one request is about.
LEMMA IdleRequestType == Idle \in Request /\ Idle.pc = "idle" /\ ~Idle.apply /\ Idle.seen = 0
  BY DEF Idle, Request, Statuses

\* A request that does nothing relies on nothing.
LEMMA IdleRequestFits ==
    ASSUME NEW ch, NEW cs \in Seq(HookCall)
    PROVE  RequestFits(Idle, ch, cs)
  BY DEF RequestFits, Idle, Called

\* What the changes and the ledger may do without harm to requests in flight.
Tested(ch, c) == ch[c].sandbox # 0 /\ ch[c].approver
Grows(ch, cs, ch2, cs2) ==
    /\ \A c \in Changes : Tested(ch, c) => Tested(ch2, c)
    /\ Len(cs) <= Len(cs2)
    /\ \A n \in DOMAIN cs : cs2[n] = cs[n]

LEMMA FitsGrows ==
    ASSUME NEW me \in Request, NEW ch, NEW ch2,
           NEW cs \in Seq(HookCall), NEW cs2 \in Seq(HookCall),
           RequestFits(me, ch, cs), Grows(ch, cs, ch2, cs2)
    PROVE  RequestFits(me, ch2, cs2)
  <1>1. DOMAIN cs = 1..Len(cs) /\ DOMAIN cs2 = 1..Len(cs2) /\ Len(cs) \in Nat /\ Len(cs2) \in Nat
    OBVIOUS
  <1>2. me.seen \in Nat /\ me.seen <= Len(cs) /\ Len(cs) <= Len(cs2)
    BY DEF Request, RequestFits, Grows
  <1>3. me.seen <= Len(cs2)
    BY <1>1, <1>2
  <1>4. ASSUME me.apply PROVE ch2[me.c].sandbox # 0 /\ ch2[me.c].approver
    BY <1>4 DEF RequestFits, Grows, Tested, Called
  <1>5. ASSUME me.pc = "mark"
        PROVE  \E n \in DOMAIN cs2 : cs2[n].key = _idempotency_key(me.h, me.c) /\ cs2[n].ok
    <2>1. PICK n \in DOMAIN cs : cs[n].key = _idempotency_key(me.h, me.c) /\ cs[n].ok
      BY <1>5 DEF RequestFits
    <2>2. n \in DOMAIN cs2 /\ cs2[n] = cs[n]
      BY <1>1, <1>2 DEF Grows
    <2> QED BY <2>1, <2>2
  <1>6. ASSUME me.pc \in {"send", "legacy", "record"}, me.live, NEW n \in DOMAIN cs2,
               cs2[n].key = _idempotency_key(me.h, me.c), cs2[n].ok
        PROVE  n > me.seen
    <2>1. CASE n \in DOMAIN cs
      BY <1>6, <2>1 DEF RequestFits, Grows
    <2>2. CASE n \notin DOMAIN cs
      BY <1>1, <1>2, <2>2
    <2> QED BY <2>1, <2>2
  <1> QED BY <1>3, <1>4, <1>5, <1>6 DEF RequestFits


\* The requests in flight after a step of one of them.
LEMMA OthersFit ==
    ASSUME TypeOK, InFlight, NEW r \in Reqs, NEW me \in Request, Set(r, me),
           calls' \in Seq(HookCall), Grows(change, calls, change', calls'),
           RequestFits(me, change', calls')
    PROVE  InFlight' /\ req' \in [Reqs -> Request]
  <1>1. req' = [req EXCEPT ![r] = me] /\ req \in [Reqs -> Request] /\ calls \in Seq(HookCall)
    BY DEF Set, TypeOK
  <1>2. ASSUME NEW s \in Reqs PROVE RequestFits(req'[s], change', calls')
    <2>1. CASE s = r
      BY <1>1, <2>1
    <2>2. CASE s # r
      <3>1. req'[s] = req[s] /\ req[s] \in Request
        BY <1>1, <2>2
      <3>2. RequestFits(req[s], change, calls)
        BY DEF InFlight
      <3> QED BY <1>1, <3>1, <3>2, FitsGrows
    <2> QED BY <2>1, <2>2
  <1>3. InFlight'
    BY <1>2 DEF InFlight
  <1> QED BY <1>1, <1>3

LEMMA GrowsSame == \A ch, cs : Grows(ch, cs, ch, cs) \/ ~(cs \in Seq(HookCall))
  BY DEF Grows

\* A step that touches neither changes nor ledger.
LEMMA QuietStep ==
    ASSUME ReviewInv, NEW r \in Reqs, NEW me \in Request, Set(r, me), RequestFits(me, change, calls),
           change' = change, boxes' = boxes, calls' = calls,
           sent' \in [Keys -> Nat], lost' \in [Keys -> Nat], dispatched' \subseteq Changes
    PROVE  ReviewInv'
  <1>1. calls \in Seq(HookCall) /\ TypeOK /\ InFlight
    BY DEF ReviewInv, TypeOK
  <1>2. Grows(change, calls, change', calls')
    BY <1>1, GrowsSame
  <1>3. InFlight' /\ req' \in [Reqs -> Request]
    BY <1>1, <1>2, OthersFit
  <1>4. TypeOK'
    BY <1>1, <1>3 DEF TypeOK
  <1>5. CallsHonest' /\ StatusTracksColumns' /\ AppliedIsTraced' /\ ReplayOnceRecorded'
    BY DEF ReviewInv, CallsHonest, StatusTracksColumns, AppliedIsTraced, ReplayOnceRecorded
  <1> QED BY <1>3, <1>4, <1>5 DEF ReviewInv

\* Facts about one request that every action needs.
LEMMA Serving ==
    ASSUME ReviewInv, NEW r \in Reqs
    PROVE  /\ req[r] \in Request /\ RequestFits(req[r], change, calls)
           /\ calls \in Seq(HookCall) /\ Len(calls) \in Nat /\ DOMAIN calls = 1..Len(calls)
           /\ change \in [Changes -> Change] /\ sent \in [Keys -> Nat] /\ lost \in [Keys -> Nat]
           /\ dispatched \subseteq Changes
           /\ req[r].pc \in Called => Key(r) \in Keys
  BY DEF ReviewInv, TypeOK, InFlight, RequestFits, Key, Keys, Called

-----------------------------------------------------------------------------
(* Steps that touch neither changes nor ledger *)

LEMMA SandboxBeginInv ==
    ASSUME ReviewInv, NEW r \in Reqs, NEW c \in Changes, SandboxBegin(r, c) PROVE ReviewInv'
  <1> DEFINE me == [Idle EXCEPT !.pc = "launch", !.c = c, !.read = change[c].status]
  <1>1. Set(r, me) /\ UNCHANGED <<change, boxes, calls, sent, lost, dispatched>>
    BY Zenon DEF SandboxBegin
  <1>2. change[c].status \in Statuses
    BY Serving DEF Change
  <1>3. me \in Request
    BY <1>2 DEF Idle, Request, Statuses
  <1>4. RequestFits(me, change, calls)
    BY Serving DEF Idle, RequestFits, Called
  <1> HIDE DEF me
  <1> QED BY <1>1, <1>3, <1>4, Serving, QuietStep

LEMMA ApproveBeginInv ==
    ASSUME ReviewInv, NEW r \in Reqs, NEW c \in Changes, ApproveBegin(r, c) PROVE ReviewInv'
  <1> DEFINE me == [Idle EXCEPT !.pc = "approve", !.c = c, !.read = change[c].status]
  <1>1. Set(r, me) /\ UNCHANGED <<change, boxes, calls, sent, lost, dispatched>>
    BY Zenon DEF ApproveBegin
  <1>2. change[c].status \in Statuses
    BY Serving DEF Change
  <1>3. me \in Request
    BY <1>2 DEF Idle, Request, Statuses
  <1>4. RequestFits(me, change, calls)
    BY Serving DEF Idle, RequestFits, Called
  <1> HIDE DEF me
  <1> QED BY <1>1, <1>3, <1>4, Serving, QuietStep

\* Only here a request begins to rely on a change: its status is approved, so its
\* approver is set.
LEMMA ApplyBeginInv ==
    ASSUME ReviewInv, NEW r \in Reqs, NEW c \in Changes, NEW h \in Hooks, NEW live \in BOOLEAN,
           ApplyBegin(r, c, h, live)
    PROVE  ReviewInv'
  <1> DEFINE me == [Idle EXCEPT !.pc = "lookup", !.c = c, !.h = h, !.apply = TRUE,
                                !.live = live, !.read = "approved"]
  <1>1. /\ Set(r, me) /\ UNCHANGED <<change, boxes, calls, sent, lost, dispatched>>
        /\ change[c].status = "approved" /\ change[c].sandbox # 0
    BY Zenon DEF ApplyBegin
  <1>2. change[c].approver
    BY <1>1 DEF ReviewInv, StatusTracksColumns
  <1>3. me \in Request
    BY DEF Idle, Request, Statuses
  <1>4. RequestFits(me, change, calls)
    BY <1>1, <1>2, Serving DEF Idle, RequestFits, Called
  <1> HIDE DEF me
  <1> QED BY <1>1, <1>3, <1>4, Serving, QuietStep

LEMMA CallBeginInv ==
    ASSUME ReviewInv, NEW r \in Reqs, NEW c \in Changes, NEW h \in Hooks, NEW live \in BOOLEAN,
           NEW marker \in BOOLEAN, CallBegin(r, c, h, live, marker)
    PROVE  ReviewInv'
  <1> DEFINE me == [Idle EXCEPT !.pc = "lookup", !.c = c, !.h = h, !.live = live]
  <1>1. Set(r, me) /\ UNCHANGED <<change, boxes, calls, sent, lost, dispatched>>
    BY Zenon DEF CallBegin
  <1>2. me \in Request
    BY DEF Idle, Request, Statuses
  <1>3. RequestFits(me, change, calls)
    BY Serving DEF Idle, RequestFits, Called
  <1> HIDE DEF me
  <1> QED BY <1>1, <1>2, <1>3, Serving, QuietStep

\* A lookup that finds nothing leaves nothing of its key in the ledger.
LEMMA LookupInv ==
    ASSUME ReviewInv, NEW r \in Reqs, _existing_successful_call(r) PROVE ReviewInv'
  <1>1. /\ req[r].pc = "lookup"
        /\ UNCHANGED <<change, boxes, calls, sent, lost, dispatched>>
    BY Zenon DEF _existing_successful_call
  <1>2. CASE req[r].live /\ Succeeded(Key(r)) # {}
    <2> DEFINE me == IF req[r].apply THEN [req[r] EXCEPT !.pc = "mark"] ELSE Idle
    <2>1. Set(r, me)
      BY <1>2, Zenon DEF _existing_successful_call
    <2>2. me \in Request
      BY Serving, IdleRequestType DEF Request
    <2>3. ASSUME req[r].apply PROVE RequestFits(me, change, calls)
      <3>1. \E n \in DOMAIN calls :
                calls[n].key = _idempotency_key(req[r].h, req[r].c) /\ calls[n].ok
        BY <1>2 DEF Succeeded, Key
      <3>2. me = [req[r] EXCEPT !.pc = "mark"]
        BY <2>3
      <3>3. /\ me.pc = "mark" /\ me.c = req[r].c /\ me.h = req[r].h /\ me.apply = req[r].apply
            /\ me.seen = req[r].seen
        BY <3>2, Serving DEF Request
      <3> HIDE DEF me
      <3> QED BY <1>1, <2>3, <3>1, <3>3, Serving DEF RequestFits, Called
    <2>4. ASSUME ~req[r].apply PROVE RequestFits(me, change, calls)
      BY <2>4, Serving, IdleRequestFits
    <2>5. RequestFits(me, change, calls)
      BY <2>3, <2>4
    <2> HIDE DEF me
    <2> QED BY <1>1, <2>1, <2>2, <2>5, Serving, QuietStep
  <1>3. CASE ~(req[r].live /\ Succeeded(Key(r)) # {})
    <2> DEFINE me == [req[r] EXCEPT !.pc = "send", !.seen = Len(calls)]
    <2>1. Set(r, me)
      BY <1>3, Zenon DEF _existing_successful_call
    <2>2. me \in Request
      BY Serving DEF Request
    <2>3. /\ me.pc = "send" /\ me.c = req[r].c /\ me.h = req[r].h /\ me.apply = req[r].apply
          /\ me.seen = Len(calls) /\ me.live = req[r].live
      BY Serving DEF Request
    <2>4. me.live => \A n \in DOMAIN calls :
                ~(calls[n].key = _idempotency_key(me.h, me.c) /\ calls[n].ok)
      BY <1>3, <2>3 DEF Succeeded, Key
    <2> HIDE DEF me
    <2>5. RequestFits(me, change, calls)
      BY <1>1, <2>3, <2>4, Serving DEF RequestFits, Called
    <2> QED BY <1>1, <2>1, <2>2, <2>5, Serving, QuietStep
  <1> QED BY <1>2, <1>3

-----------------------------------------------------------------------------
(* Steps that reach an external system *)

\* What a request relies on does not depend on what it wrote, until it is recorded.
LEMMA SendFits ==
    ASSUME ReviewInv, NEW r \in Reqs, req[r].pc \in {"send", "legacy"},
           NEW me \in Request, me.pc \in {"legacy", "record"},
           me.c = req[r].c, me.h = req[r].h, me.apply = req[r].apply,
           me.live = req[r].live, me.seen = req[r].seen,
           me.pc = "record" /\ me.ok /\ me.live /\ ~me.sim => me.writes > 0
    PROVE  RequestFits(me, change, calls)
  BY Serving DEF RequestFits, Called

\* Writes are counted, and a change that was written to by an apply is noted.
LEMMA WriteTyped ==
    ASSUME ReviewInv, NEW r \in Reqs, NEW n \in {0, 1}, req[r].pc \in Called, Write(r, n)
    PROVE  /\ UNCHANGED <<change, boxes, calls, lost>>
           /\ sent' \in [Keys -> Nat] /\ lost' \in [Keys -> Nat] /\ dispatched' \subseteq Changes
  <1>1. /\ sent' = [sent EXCEPT ![Key(r)] = @ + n]
        /\ dispatched' = IF n > 0 /\ req[r].apply THEN dispatched \cup {req[r].c} ELSE dispatched
        /\ UNCHANGED <<change, boxes, calls, lost>>
    BY Zenon DEF Write
  <1>2. \A k \in Keys : sent[k] \in Nat /\ sent[k] + n \in Nat
    BY Serving
  <1>3. sent' \in [Keys -> Nat]
    BY <1>1, <1>2, Serving
  <1>4. req[r].c \in Changes
    BY Serving DEF RequestFits, Called
  <1>5. dispatched' \subseteq Changes
    BY <1>1, <1>4, Serving
  <1> QED BY <1>1, <1>3, <1>5, Serving

LEMMA CallStackInv ==
    ASSUME ReviewInv, NEW r \in Reqs, call_stack(r) PROVE ReviewInv'
  <1>1. PICK ok \in BOOLEAN, n \in {0, 1} :
            /\ req[r].pc = "send"
            /\ req[r].live /\ ok => n = 1
            /\ Write(r, n)
            /\ Set(r, [req[r] EXCEPT !.pc = "record", !.ok = ok, !.writes = n])
    BY Zenon DEF call_stack
  <1> DEFINE me == [req[r] EXCEPT !.pc = "record", !.ok = ok, !.writes = n]
  <1>2. /\ me \in Request /\ me.pc = "record" /\ me.c = req[r].c /\ me.h = req[r].h
        /\ me.apply = req[r].apply /\ me.live = req[r].live /\ me.seen = req[r].seen
        /\ me.ok = ok /\ me.writes = n
    <2>1. n \in Nat /\ req[r] \in Request
      BY Serving
    <2>2. me \in Request
      BY <2>1 DEF Request
    <2>3. me.pc = "record" /\ me.writes = n
      BY <2>1 DEF Request
    <2>4. /\ me.c = req[r].c /\ me.h = req[r].h /\ me.apply = req[r].apply
          /\ me.live = req[r].live /\ me.seen = req[r].seen
      BY <2>1 DEF Request
    <2>5. me.ok = ok
      BY <2>1 DEF Request
    <2> QED BY <2>2, <2>3, <2>4, <2>5
  <1>3. Set(r, me)
    BY <1>1
  <1> HIDE DEF me
  <1>4. RequestFits(me, change, calls)
    BY <1>1, <1>2, SendFits
  <1>5. req[r].pc \in Called
    BY <1>1 DEF Called
  <1> QED BY <1>1, <1>2, <1>3, <1>4, <1>5, WriteTyped, QuietStep

LEMMA McpCallInv ==
    ASSUME ReviewInv, NEW r \in Reqs, mcp_call(r) PROVE ReviewInv'
  <1>1. PICK answered \in BOOLEAN, n \in {0, 1} :
            /\ req[r].pc = "send"
            /\ req[r].live /\ answered => n = 1
            /\ Write(r, n)
            /\ Set(r, [req[r] EXCEPT !.pc = IF answered THEN "record" ELSE "legacy",
                                     !.ok = answered, !.writes = n])
    BY Zenon DEF mcp_call
  <1> DEFINE me == [req[r] EXCEPT !.pc = IF answered THEN "record" ELSE "legacy",
                                  !.ok = answered, !.writes = n]
  <1>2. /\ me \in Request /\ me.c = req[r].c /\ me.h = req[r].h
        /\ me.apply = req[r].apply /\ me.live = req[r].live /\ me.seen = req[r].seen
        /\ me.ok = answered /\ me.writes = n
        /\ me.pc \in {"legacy", "record"}
    <2>1. n \in Nat /\ req[r] \in Request
      BY Serving
    <2>2. me \in Request
      BY <2>1 DEF Request
    <2>3. me.pc \in {"legacy", "record"} /\ me.writes = n
      BY <2>1 DEF Request
    <2>4. /\ me.c = req[r].c /\ me.h = req[r].h /\ me.apply = req[r].apply
          /\ me.live = req[r].live /\ me.seen = req[r].seen
      BY <2>1 DEF Request
    <2>5. me.ok = answered
      BY <2>1 DEF Request
    <2> QED BY <2>2, <2>3, <2>4, <2>5
  <1>3. Set(r, me)
    BY <1>1
  <1> HIDE DEF me
  <1>4. RequestFits(me, change, calls)
    BY <1>1, <1>2, SendFits
  <1>5. req[r].pc \in Called
    BY <1>1 DEF Called
  <1> QED BY <1>1, <1>2, <1>3, <1>4, <1>5, WriteTyped, QuietStep

LEMMA LegacyCallInv ==
    ASSUME ReviewInv, NEW r \in Reqs, _legacy_call(r) PROVE ReviewInv'
  <1>1. PICK answered \in BOOLEAN, n \in {0, 1} :
            /\ req[r].pc = "legacy"
            /\ req[r].live /\ answered => n = 1
            /\ Write(r, n)
            /\ Set(r, [req[r] EXCEPT !.pc = "record", !.ok = TRUE, !.sim = ~answered,
                                     !.writes = @ + n])
    BY Zenon DEF _legacy_call
  <1> DEFINE me == [req[r] EXCEPT !.pc = "record", !.ok = TRUE, !.sim = ~answered,
                                  !.writes = @ + n]
  <1>2. req[r].writes \in Nat /\ req[r].writes + n \in Nat
    BY Serving DEF Request
  <1>3. /\ me \in Request /\ me.c = req[r].c /\ me.h = req[r].h
        /\ me.apply = req[r].apply /\ me.live = req[r].live /\ me.seen = req[r].seen
        /\ me.sim = ~answered /\ me.writes = req[r].writes + n
        /\ me.pc = "record"
    <2>1. req[r] \in Request
      BY Serving
    <2>2. me \in Request
      BY <1>2, <2>1 DEF Request
    <2>3. me.pc = "record" /\ me.writes = req[r].writes + n
      BY <2>1 DEF Request
    <2>4. /\ me.c = req[r].c /\ me.h = req[r].h /\ me.apply = req[r].apply
          /\ me.live = req[r].live /\ me.seen = req[r].seen
      BY <2>1 DEF Request
    <2>5. me.sim = ~answered
      BY <2>1 DEF Request
    <2> QED BY <2>2, <2>3, <2>4, <2>5
  <1>4. Set(r, me)
    BY <1>1
  <1> HIDE DEF me
  <1>5. me.live /\ ~me.sim => me.writes > 0
    <2>1. me.live /\ ~me.sim => n = 1
      BY <1>1, <1>3, Zenon
    <2>2. n = 1 => me.writes > 0
      BY <1>2, <1>3
    <2> QED BY <2>1, <2>2
  <1>6. RequestFits(me, change, calls)
    BY <1>1, <1>3, <1>5, SendFits
  <1>7. req[r].pc \in Called
    BY <1>1 DEF Called
  <1> QED BY <1>1, <1>3, <1>4, <1>6, <1>7, WriteTyped, QuietStep

LEMMA CrashInv ==
    ASSUME ReviewInv, NEW r \in Reqs, Crash(r) PROVE ReviewInv'
  <1>1. /\ lost' = IF req[r].writes > 0 THEN [lost EXCEPT ![Key(r)] = @ + req[r].writes] ELSE lost
        /\ Set(r, Idle)
        /\ UNCHANGED <<change, boxes, calls, sent, dispatched>>
    BY Zenon DEF Crash
  <1>2. req[r].writes \in Nat /\ \A k \in Keys : lost[k] + req[r].writes \in Nat
    BY Serving DEF Request
  <1>3. lost' \in [Keys -> Nat]
    BY <1>1, <1>2, Serving
  <1> QED BY <1>1, <1>3, Serving, IdleRequestType, IdleRequestFits, QuietStep

-----------------------------------------------------------------------------
(* Steps that change a proposed change *)

\* A step of r after which r is idle, the ledger is as it was, and no column that
\* was set is taken back.
LEMMA ChangeStep ==
    ASSUME ReviewInv, NEW r \in Reqs, Set(r, Idle),
           calls' = calls, UNCHANGED <<sent, lost, dispatched>>,
           boxes' \in Nat, change' \in [Changes -> Change],
           \A c \in Changes : Tested(change, c) => Tested(change', c)
    PROVE  TypeOK' /\ InFlight' /\ CallsHonest' /\ ReplayOnceRecorded'
  <1>1. calls \in Seq(HookCall) /\ TypeOK /\ InFlight
    BY DEF ReviewInv, TypeOK
  <1>2. Grows(change, calls, change', calls')
    BY DEF Grows
  <1>3. RequestFits(Idle, change', calls')
    BY <1>1, IdleRequestFits
  <1>4. InFlight' /\ req' \in [Reqs -> Request]
    BY <1>1, <1>2, <1>3, IdleRequestType, OthersFit
  <1>5. TypeOK'
    BY <1>1, <1>4 DEF TypeOK
  <1>6. CallsHonest' /\ ReplayOnceRecorded'
    BY DEF ReviewInv, CallsHonest, ReplayOnceRecorded
  <1> QED BY <1>4, <1>5, <1>6

\* The status of one change is written, or stays; the columns only gain.
BackedBy(row) ==
    /\ row.status = "sandbox_passed" => row.sandbox # 0
    /\ row.status = "approved" => row.approver
    /\ row.status = "applied" => row.applied /\ row.approver /\ row.sandbox # 0

LEMMA StatusStep ==
    ASSUME ReviewInv, NEW c \in Changes,
           \A d \in Changes : d # c => change'[d] = change[d],
           BackedBy(change[c]) => BackedBy(change'[c])
    PROVE  StatusTracksColumns'
  <1>1. \A d \in Changes : BackedBy(change[d])
    BY Zenon DEF ReviewInv, StatusTracksColumns, BackedBy
  <1>2. ASSUME NEW d \in Changes PROVE BackedBy(change'[d])
    <2>1. CASE d = c
      BY <1>1, <2>1
    <2>2. CASE d # c
      BY <1>1, <2>2
    <2> QED BY <2>1, <2>2
  <1> QED BY <1>2, Zenon DEF StatusTracksColumns, BackedBy

\* Only the row of c changes, and of it sandbox and status.
LEMMA SandboxCommitInv ==
    ASSUME ReviewInv, NEW r \in Reqs, SandboxCommit(r) PROVE ReviewInv'
  <1> DEFINE c == req[r].c
             passed == IF req[r].read = "sandbox_passed" THEN change[c].status
                       ELSE "sandbox_passed"
  <1>1. /\ req[r].pc = "launch" /\ boxes' = boxes + 1 /\ Set(r, Idle)
        /\ change' = [change EXCEPT ![c].sandbox = boxes + 1, ![c].status = passed]
        /\ UNCHANGED <<calls, sent, lost, dispatched>>
    BY Zenon DEF SandboxCommit
  <1>2. c \in Changes /\ boxes \in Nat /\ change \in [Changes -> Change]
    BY <1>1, Serving DEF RequestFits, ReviewInv, TypeOK
  <1>3. change[c] \in Change /\ passed \in Statuses
    BY <1>2 DEF Change, Statuses
  <1>4. /\ change'[c] = [change[c] EXCEPT !.sandbox = boxes + 1, !.status = passed]
        /\ \A d \in Changes : d # c => change'[d] = change[d]
        /\ DOMAIN change' = Changes
    BY <1>1, <1>2
  <1>5. boxes + 1 \in Nat /\ boxes + 1 # 0
    BY <1>2
  <1> HIDE DEF c, passed
  <1>6. /\ change'[c].sandbox = boxes + 1 /\ change'[c].status = passed
        /\ change'[c].approver = change[c].approver /\ change'[c].applied = change[c].applied
        /\ change'[c] \in Change
    <2>1. change'[c] \in Change
      BY <1>3, <1>4, <1>5 DEF Change
    <2>2. change'[c].sandbox = boxes + 1 /\ change'[c].status = passed
      BY <1>3, <1>4 DEF Change
    <2>3. change'[c].approver = change[c].approver
      BY <1>3, <1>4 DEF Change
    <2>4. change'[c].applied = change[c].applied
      BY <1>3, <1>4 DEF Change
    <2> QED BY <2>1, <2>2, <2>3, <2>4
  <1>7. change' \in [Changes -> Change]
    BY <1>1, <1>2, <1>4, <1>6
  <1>8. \A d \in Changes : Tested(change, d) => Tested(change', d)
    BY <1>4, <1>5, <1>6 DEF Tested
  <1>9. StatusTracksColumns'
    <2>1. BackedBy(change[c]) => BackedBy(change'[c])
      BY <1>5, <1>6 DEF passed, BackedBy
    <2> QED BY <1>2, <1>4, <2>1, StatusStep
  <1>10. AppliedIsTraced'
    BY <1>1, <1>2, <1>4, <1>6 DEF ReviewInv, AppliedIsTraced
  <1> QED BY <1>1, <1>5, <1>7, <1>8, <1>9, <1>10, ChangeStep DEF ReviewInv

LEMMA ApproveCommitInv ==
    ASSUME ReviewInv, NEW r \in Reqs, ApproveCommit(r) PROVE ReviewInv'
  <1> DEFINE c == req[r].c
             approved == IF req[r].read = "approved" THEN change[c].status ELSE "approved"
  <1>1. /\ req[r].pc = "approve" /\ Set(r, Idle)
        /\ change' = [change EXCEPT ![c].approver = TRUE, ![c].status = approved]
        /\ UNCHANGED <<boxes, calls, sent, lost, dispatched>>
    BY Zenon DEF ApproveCommit
  <1>2. c \in Changes /\ boxes' \in Nat /\ change \in [Changes -> Change]
    BY <1>1, Serving DEF RequestFits, ReviewInv, TypeOK
  <1>3. change[c] \in Change /\ approved \in Statuses
    BY <1>2 DEF Change, Statuses
  <1>4. /\ change'[c] = [change[c] EXCEPT !.approver = TRUE, !.status = approved]
        /\ \A d \in Changes : d # c => change'[d] = change[d]
        /\ DOMAIN change' = Changes
    BY <1>1, <1>2
  <1> HIDE DEF c, approved
  <1>5. /\ change'[c].approver /\ change'[c].status = approved
        /\ change'[c].sandbox = change[c].sandbox /\ change'[c].applied = change[c].applied
        /\ change'[c] \in Change
    BY <1>2, <1>3, <1>4 DEF Change
  <1>6. change' \in [Changes -> Change]
    BY <1>1, <1>2, <1>4, <1>5
  <1>7. \A d \in Changes : Tested(change, d) => Tested(change', d)
    BY <1>4, <1>5 DEF Tested
  <1>8. StatusTracksColumns'
    <2>1. BackedBy(change[c]) => BackedBy(change'[c])
      BY <1>5 DEF approved, BackedBy
    <2> QED BY <1>2, <1>4, <2>1, StatusStep
  <1>9. AppliedIsTraced'
    BY <1>1, <1>2, <1>4, <1>5 DEF ReviewInv, AppliedIsTraced
  <1> QED BY <1>1, <1>2, <1>6, <1>7, <1>8, <1>9, ChangeStep DEF ReviewInv

\* The request knows that the change is tested and approved, and which row of the
\* ledger stands for it.
LEMMA MarkInv ==
    ASSUME ReviewInv, NEW r \in Reqs, Mark(r) PROVE ReviewInv'
  <1> DEFINE c == req[r].c
  <1>1. /\ req[r].pc = "mark" /\ Set(r, Idle)
        /\ change' = [change EXCEPT ![c].status = "applied", ![c].applied = TRUE]
        /\ UNCHANGED <<boxes, calls, sent, lost, dispatched>>
    BY Zenon DEF Mark
  <1>2. c \in Changes /\ boxes' \in Nat /\ change \in [Changes -> Change]
    BY <1>1, Serving DEF RequestFits, ReviewInv, TypeOK
  <1>3. /\ req[r].h \in Hooks /\ change[c].sandbox # 0 /\ change[c].approver
        /\ \E n \in DOMAIN calls : calls[n].key = _idempotency_key(req[r].h, c) /\ calls[n].ok
    BY <1>1, Serving DEF RequestFits, Called
  <1>4. /\ change'[c] = [change[c] EXCEPT !.status = "applied", !.applied = TRUE]
        /\ \A d \in Changes : d # c => change'[d] = change[d]
        /\ DOMAIN change' = Changes
    BY <1>1, <1>2
  <1>5. /\ change'[c].status = "applied" /\ change'[c].applied
        /\ change'[c].sandbox = change[c].sandbox /\ change'[c].approver = change[c].approver
        /\ change'[c] \in Change
    BY <1>2, <1>4 DEF Change, Statuses
  <1>6. change' \in [Changes -> Change]
    BY <1>1, <1>2, <1>4, <1>5
  <1>7. \A d \in Changes : Tested(change, d) => Tested(change', d)
    BY <1>4, <1>5 DEF Tested
  <1>8. StatusTracksColumns'
    BY <1>2, <1>3, <1>4, <1>5 DEF ReviewInv, StatusTracksColumns
  <1>9. ASSUME NEW d \in Changes, change'[d].applied
        PROVE  \E n \in DOMAIN calls :
                  /\ \E h \in Hooks : calls[n].key = _idempotency_key(h, d)
                  /\ calls[n].ok
                  /\ calls[n].live /\ ~calls[n].sim => calls[n].writes > 0
    <2>1. CASE d = c
      BY <1>3, <2>1 DEF ReviewInv, CallsHonest
    <2>2. CASE d # c
      BY <1>4, <1>9, <2>2 DEF ReviewInv, AppliedIsTraced
    <2> QED BY <2>1, <2>2
  <1>10. AppliedIsTraced'
    BY <1>1, <1>9, Zenon DEF AppliedIsTraced
  <1> QED BY <1>1, <1>2, <1>6, <1>7, <1>8, <1>10, ChangeStep DEF ReviewInv

-----------------------------------------------------------------------------
(* The step that adds to the ledger *)

LEMMA AppendFacts ==
    ASSUME NEW S, NEW q \in Seq(S), NEW e \in S
    PROVE  /\ Append(q, e) \in Seq(S)
           /\ Len(Append(q, e)) = Len(q) + 1
           /\ DOMAIN Append(q, e) = 1..(Len(q) + 1)
           /\ Append(q, e)[Len(q) + 1] = e
           /\ \A n \in DOMAIN q : Append(q, e)[n] = q[n]
  OBVIOUS

\* The row of request r.
AuditRow(r) == [key |-> Key(r), live |-> req[r].live, ok |-> req[r].ok, sim |-> req[r].sim,
           writes |-> req[r].writes, seen |-> req[r].seen]

LEMMA RowFacts ==
    ASSUME ReviewInv, NEW r \in Reqs, req[r].pc = "record"
    PROVE  /\ AuditRow(r) \in HookCall
           /\ AuditRow(r).key = _idempotency_key(req[r].h, req[r].c)
           /\ AuditRow(r).ok = req[r].ok /\ AuditRow(r).live = req[r].live /\ AuditRow(r).sim = req[r].sim
           /\ AuditRow(r).writes = req[r].writes /\ AuditRow(r).seen = req[r].seen
  <1>1. Key(r) \in Keys /\ req[r] \in Request
    BY Serving DEF Called
  <1>2. AuditRow(r) \in HookCall
    BY <1>1 DEF AuditRow, HookCall, Request
  <1> QED BY <1>2, Zenon DEF AuditRow, Key

\* Nothing of the key was there when the request looked, so whatever is there now
\* came later; and the row is what the request marks its change from.
LEMMA RecordInv ==
    ASSUME ReviewInv, NEW r \in Reqs, Record(r) PROVE ReviewInv'
  <1> DEFINE N == Len(calls) + 1
             me == IF req[r].apply /\ req[r].live /\ req[r].ok
                   THEN [req[r] EXCEPT !.pc = "mark", !.writes = 0] ELSE Idle
  <1>1. /\ req[r].pc = "record" /\ calls' = Append(calls, AuditRow(r)) /\ Set(r, me)
        /\ UNCHANGED <<change, boxes, sent, lost, dispatched>>
    BY Zenon DEF Record, AuditRow
  <1>2. /\ req[r] \in Request /\ RequestFits(req[r], change, calls) /\ calls \in Seq(HookCall)
        /\ Len(calls) \in Nat /\ DOMAIN calls = 1..Len(calls)
    BY Serving
  <1>3. AuditRow(r) \in HookCall
    BY <1>1, RowFacts
  <1>4. /\ calls' \in Seq(HookCall) /\ Len(calls') = N /\ DOMAIN calls' = 1..N
        /\ calls'[N] = AuditRow(r) /\ \A n \in DOMAIN calls : calls'[n] = calls[n]
    BY <1>1, <1>2, <1>3, AppendFacts
  <1>5. /\ DOMAIN calls \subseteq DOMAIN calls' /\ N \in DOMAIN calls' /\ N \in Nat
        /\ \A n \in DOMAIN calls' : n \in DOMAIN calls \/ n = N
    BY <1>2, <1>4
  <1>6. Grows(change, calls, change', calls')
    BY <1>1, <1>2, <1>4 DEF Grows
  <1>7. me \in Request
    BY <1>2, IdleRequestType DEF Request
  <1>8. ASSUME req[r].apply, req[r].live, req[r].ok PROVE RequestFits(me, change', calls')
    <2>1. me = [req[r] EXCEPT !.pc = "mark", !.writes = 0]
      BY <1>8
    <2>2. /\ me.pc = "mark" /\ me.c = req[r].c /\ me.h = req[r].h /\ me.apply = req[r].apply
          /\ me.seen = req[r].seen
      BY <1>2, <2>1 DEF Request
    <2> HIDE DEF me
    <2>3. RequestFits(req[r], change', calls')
      BY <1>2, <1>4, <1>6, FitsGrows
    <2>4. /\ calls'[N].key = _idempotency_key(me.h, me.c)
          /\ calls'[N].ok
      BY <1>1, <1>4, <1>8, <2>2, RowFacts, Zenon
    <2> HIDE DEF N
    <2> QED BY <1>1, <1>5, <1>8, <2>2, <2>3, <2>4 DEF RequestFits, Called
  <1>9. ASSUME ~(req[r].apply /\ req[r].live /\ req[r].ok) PROVE RequestFits(me, change', calls')
    BY <1>4, <1>9, IdleRequestFits
  <1>10. InFlight' /\ req' \in [Reqs -> Request]
    <2>1. RequestFits(me, change', calls')
      BY <1>8, <1>9
    <2> HIDE DEF me
    <2> QED BY <1>1, <1>4, <1>6, <1>7, <2>1, OthersFit DEF ReviewInv
  <1> HIDE DEF me, N
  <1>11. TypeOK'
    BY <1>1, <1>4, <1>10 DEF ReviewInv, TypeOK
  <1>12. CallsHonest'
    <2>1. AuditRow(r).ok /\ AuditRow(r).live /\ ~AuditRow(r).sim => AuditRow(r).writes > 0
      BY <1>1, <1>2, RowFacts DEF RequestFits
    <2> QED BY <1>4, <1>5, <2>1 DEF ReviewInv, CallsHonest
  <1>13. AppliedIsTraced'
    <2>1. ASSUME NEW c \in Changes, change'[c].applied
          PROVE  \E n \in DOMAIN calls' :
                    /\ \E h \in Hooks : calls'[n].key = _idempotency_key(h, c)
                    /\ calls'[n].ok
                    /\ calls'[n].live /\ ~calls'[n].sim => calls'[n].writes > 0
      <3>1. PICK n \in DOMAIN calls :
                    /\ \E h \in Hooks : calls[n].key = _idempotency_key(h, c)
                    /\ calls[n].ok
                    /\ calls[n].live /\ ~calls[n].sim => calls[n].writes > 0
        BY <1>1, <2>1 DEF ReviewInv, AppliedIsTraced
      <3>2. n \in DOMAIN calls' /\ calls'[n] = calls[n]
        BY <1>4, <1>5
      <3> QED BY <3>1, <3>2
    <2> QED BY <2>1, Zenon DEF AppliedIsTraced
  <1>14. ASSUME NEW n \in DOMAIN calls', NEW m \in DOMAIN calls', n < m, calls'[n].ok,
                calls'[m].live, calls'[n].key = calls'[m].key
         PROVE  calls'[m].seen < n
    <2>1. n \in DOMAIN calls /\ calls'[n] = calls[n] /\ n \in Nat
      BY <1>2, <1>4, <1>5, <1>14 DEF N
    <2>2. CASE m \in DOMAIN calls
      BY <1>4, <1>14, <2>1, <2>2 DEF ReviewInv, ReplayOnceRecorded
    <2>3. CASE m = N
      <3>1. /\ calls'[m] = AuditRow(r) /\ req[r].live
            /\ calls[n].key = _idempotency_key(req[r].h, req[r].c) /\ calls[n].ok
        BY <1>1, <1>4, <1>14, <2>1, <2>3, RowFacts, Zenon
      <3>2. n > req[r].seen /\ req[r].seen \in Nat
        BY <1>1, <1>2, <2>1, <3>1 DEF RequestFits, Request
      <3>3. calls'[m].seen = req[r].seen
        BY <1>1, <3>1, RowFacts
      <3> QED BY <2>1, <3>2, <3>3
    <2> QED BY <1>5, <2>2, <2>3
  <1>15. ReplayOnceRecorded'
    BY <1>14, Zenon DEF ReplayOnceRecorded
  <1>16. StatusTracksColumns'
    BY <1>1 DEF ReviewInv, StatusTracksColumns
  <1> QED BY <1>10, <1>11, <1>12, <1>13, <1>15, <1>16 DEF ReviewInv

-----------------------------------------------------------------------------
(* The theorems *)

LEMMA ReviewInitInv == Init => ReviewInv
  <1> SUFFICES ASSUME Init PROVE ReviewInv
    OBVIOUS
  <1>1. /\ change = [c \in Changes |-> [status |-> "proposed", sandbox |-> 0,
                                        approver |-> FALSE, applied |-> FALSE]]
        /\ boxes = 0 /\ calls = <<>>
        /\ sent = [k \in Keys |-> 0] /\ lost = [k \in Keys |-> 0]
        /\ req = [r \in Reqs |-> Idle] /\ dispatched = {}
    BY Zenon DEF Init
  <1>2. calls \in Seq(HookCall) /\ DOMAIN calls = {}
    BY <1>1
  <1>3. change \in [Changes -> Change]
    BY <1>1 DEF Change, Statuses
  <1>4. req \in [Reqs -> Request]
    BY <1>1, IdleRequestType
  <1>5. TypeOK
    BY <1>1, <1>2, <1>3, <1>4 DEF TypeOK
  <1>6. InFlight
    BY <1>1, <1>2, IdleRequestFits DEF InFlight
  <1>7. StatusTracksColumns /\ AppliedIsTraced
    BY <1>1 DEF StatusTracksColumns, AppliedIsTraced
  <1>8. CallsHonest /\ ReplayOnceRecorded
    BY <1>2 DEF CallsHonest, ReplayOnceRecorded
  <1> QED BY <1>5, <1>6, <1>7, <1>8 DEF ReviewInv

LEMMA ReviewNextInv == ReviewInv /\ [Next]_vars => ReviewInv'
  <1> SUFFICES ASSUME ReviewInv, [Next]_vars PROVE ReviewInv'
    OBVIOUS
  <1>1. CASE UNCHANGED vars
    BY <1>1 DEF vars, ReviewInv, TypeOK, InFlight, CallsHonest, StatusTracksColumns, AppliedIsTraced,
                ReplayOnceRecorded, RequestFits
  <1>2. CASE Next
    <2>1. PICK r \in Reqs :
            \/ \E c \in Changes :
                \/ SandboxBegin(r, c)
                \/ ApproveBegin(r, c)
                \/ \E h \in Hooks, live \in BOOLEAN :
                    \/ ApplyBegin(r, c, h, live)
                    \/ \E marker \in BOOLEAN : CallBegin(r, c, h, live, marker)
            \/ SandboxCommit(r) \/ ApproveCommit(r) \/ _existing_successful_call(r)
            \/ call_stack(r) \/ mcp_call(r) \/ _legacy_call(r)
            \/ Record(r) \/ Mark(r) \/ Crash(r)
      BY <1>2, Zenon DEF Next
    <2> QED BY <2>1, SandboxBeginInv, ApproveBeginInv, ApplyBeginInv, CallBeginInv,
               SandboxCommitInv, ApproveCommitInv, LookupInv, CallStackInv, McpCallInv,
               LegacyCallInv, RecordInv, MarkInv, CrashInv, Zenon
  <1> QED BY <1>1, <1>2

\* The inductive invariant: beside the properties, what each request in flight relies on
\* (production_reviews.apply_change, production_hooks.call_hook).
THEOREM InvTheorem == Spec => []ReviewInv
  BY ReviewInitInv, ReviewNextInv, PTL DEF Spec

\* Rows, ledger and requests keep their types.
THEOREM TypeTheorem == Spec => []TypeOK
  <1>1. ReviewInv => TypeOK
    BY DEF ReviewInv
  <1> QED BY <1>1, InvTheorem, PTL

\* create_sandbox_run, approve_change and apply_change write the status blindly, each from
\* a row loaded before others committed; it still never claims what the columns beside it
\* do not show.
THEOREM StatusTheorem == Spec => []StatusTracksColumns
  <1>1. ReviewInv => StatusTracksColumns
    BY DEF ReviewInv
  <1> QED BY <1>1, InvTheorem, PTL

\* An applied change is traced to a row of the ledger, though apply_change marks it in
\* another transaction than the one that records the call.
THEOREM TracedTheorem == Spec => []AppliedIsTraced
  <1>1. ReviewInv => AppliedIsTraced
    BY DEF ReviewInv
  <1> QED BY <1>1, InvTheorem, PTL

\* call_hook sends nothing live with a key whose success was recorded before it looked.
THEOREM ReplayTheorem == Spec => []ReplayOnceRecorded
  <1>1. ReviewInv => ReplayOnceRecorded
    BY DEF ReviewInv
  <1> QED BY <1>1, InvTheorem, PTL

-----------------------------------------------------------------------------
(* The ledger of writes *)

\* A finite set of tokens, and how many there are, when x has n tokens of its own.
LEMMA TokensOfOne ==
    ASSUME NEW R, NEW x, NEW n \in Nat, R \cap ({x} \X (1..n)) = {}
    PROVE  /\ IsFiniteSet(R) => /\ IsFiniteSet(R \cup ({x} \X (1..n)))
                                /\ Cardinality(R \cup ({x} \X (1..n))) = Cardinality(R) + n
           /\ IsFiniteSet(R \cup ({x} \X (1..n))) => IsFiniteSet(R)
  <1> DEFINE mine == {x} \X (1..n)
  <1>1. IsFiniteSet({x}) /\ Cardinality({x}) = 1
    BY FS_Singleton
  <1>2. IsFiniteSet(1..n) /\ Cardinality(1..n) = n
    BY FS_Interval
  <1>3. IsFiniteSet(mine) /\ Cardinality(mine) = n
    <2>1. IsFiniteSet(mine) /\ Cardinality(mine) = Cardinality({x}) * Cardinality(1..n)
      BY <1>1, <1>2, FS_Product, Zenon
    <2> QED BY <1>1, <1>2, <2>1
  <1>4. ASSUME IsFiniteSet(R) PROVE IsFiniteSet(R \cup mine) /\ Cardinality(R \cup mine) = Cardinality(R) + n
    <2>1. Cardinality(R \cap mine) = 0
      BY FS_EmptySet
    <2>2. Cardinality(R) \in Nat
      BY <1>4, FS_CardinalityType
    <2> HIDE DEF mine
    <2>3. IsFiniteSet(R \cup mine) /\ Cardinality(R \cup mine) = Cardinality(R) + Cardinality(mine) - Cardinality(R \cap mine)
      BY <1>3, <1>4, FS_Union
    <2> QED BY <1>3, <2>1, <2>2, <2>3
  <1>5. ASSUME IsFiniteSet(R \cup mine) PROVE IsFiniteSet(R)
    <2>1. R \in SUBSET (R \cup mine)
      OBVIOUS
    <2> QED BY <1>5, <2>1, FS_Subset
  <1> QED BY <1>4, <1>5

\* The tokens of x, and those of all others.
LEMMA TokensSplit ==
    ASSUME NEW S, NEW f \in [S -> Nat], NEW x \in S
    PROVE  LET R == UNION {{y} \X (1 .. f[y]) : y \in S \ {x}}
           IN  /\ Tokens(f) = R \cup ({x} \X (1 .. f[x]))
               /\ \A n : R \cap ({x} \X (1..n)) = {}
  <1> DEFINE R == UNION {{y} \X (1 .. f[y]) : y \in S \ {x}}
  <1>1. Tokens(f) \subseteq R \cup ({x} \X (1 .. f[x]))
    BY Zenon DEF Tokens
  <1>2. R \cup ({x} \X (1 .. f[x])) \subseteq Tokens(f)
    BY Zenon DEF Tokens
  <1>3. ASSUME NEW n, NEW t \in R \cap ({x} \X (1..n)) PROVE FALSE
    <2>1. PICK y \in S \ {x} : t \in {y} \X (1 .. f[y])
      BY <1>3, Zenon
    <2> QED BY <1>3, <2>1
  <1> QED BY <1>1, <1>2, <1>3

\* What one more or one less at x does to the total.
LEMMA TotalAt ==
    ASSUME NEW S, NEW f \in [S -> Nat], NEW g \in [S -> Nat], NEW x \in S,
           \A y \in S : y # x => g[y] = f[y], IsFiniteSet(Tokens(f))
    PROVE  /\ IsFiniteSet(Tokens(g)) /\ Total(f) \in Nat /\ Total(g) \in Nat
           /\ Total(g) = Total(f) - f[x] + g[x]
  <1> DEFINE R == UNION {{y} \X (1 .. f[y]) : y \in S \ {x}}
             R2 == UNION {{y} \X (1 .. g[y]) : y \in S \ {x}}
  <1>1. R2 = R
    OBVIOUS
  <1>2. Tokens(f) = R \cup ({x} \X (1 .. f[x])) /\ \A n : R \cap ({x} \X (1..n)) = {}
    BY TokensSplit
  <1>3. Tokens(g) = R2 \cup ({x} \X (1 .. g[x]))
    BY TokensSplit
  <1>4. f[x] \in Nat /\ g[x] \in Nat
    OBVIOUS
  <1> HIDE DEF R, R2
  <1>5. IsFiniteSet(R) /\ Total(f) = Cardinality(R) + f[x]
    <2>1. IsFiniteSet(R \cup ({x} \X (1 .. f[x])))
      BY <1>2, Zenon
    <2>2. IsFiniteSet(R)
      BY <1>2, <1>4, <2>1, TokensOfOne, Zenon
    <2>3. Cardinality(R \cup ({x} \X (1 .. f[x]))) = Cardinality(R) + f[x]
      BY <1>2, <1>4, <2>2, TokensOfOne, Zenon
    <2> QED BY <1>2, <2>2, <2>3, Zenon DEF Total
  <1>6. IsFiniteSet(Tokens(g)) /\ Total(g) = Cardinality(R) + g[x]
    <2>1. /\ IsFiniteSet(R \cup ({x} \X (1 .. g[x])))
          /\ Cardinality(R \cup ({x} \X (1 .. g[x]))) = Cardinality(R) + g[x]
      BY <1>2, <1>4, <1>5, TokensOfOne, Zenon
    <2> QED BY <1>1, <1>3, <2>1, Zenon DEF Total
  <1>7. Cardinality(R) \in Nat
    BY <1>5, FS_CardinalityType
  <1> QED BY <1>4, <1>5, <1>6, <1>7

\* What a new entry does to the total.
LEMMA TotalNew ==
    ASSUME NEW S, NEW f \in [S -> Nat], NEW x, x \notin S, NEW g \in [S \cup {x} -> Nat],
           \A y \in S : g[y] = f[y], IsFiniteSet(Tokens(f))
    PROVE  /\ IsFiniteSet(Tokens(g)) /\ Total(f) \in Nat
           /\ Total(g) = Total(f) + g[x]
  <1> DEFINE R == UNION {{y} \X (1 .. g[y]) : y \in (S \cup {x}) \ {x}}
  <1>1. R = UNION {{y} \X (1 .. f[y]) : y \in S}
    OBVIOUS
  <1>2. R = Tokens(f)
    BY <1>1, Zenon DEF Tokens
  <1>3. Tokens(g) = R \cup ({x} \X (1 .. g[x])) /\ \A n : R \cap ({x} \X (1..n)) = {}
    BY TokensSplit
  <1>4. g[x] \in Nat
    OBVIOUS
  <1> HIDE DEF R
  <1>5. IsFiniteSet(Tokens(g)) /\ Total(g) = Cardinality(R) + g[x]
    <2>1. IsFiniteSet(R)
      BY <1>2
    <2>2. /\ IsFiniteSet(R \cup ({x} \X (1 .. g[x])))
          /\ Cardinality(R \cup ({x} \X (1 .. g[x]))) = Cardinality(R) + g[x]
      BY <1>3, <1>4, <2>1, TokensOfOne, Zenon
    <2> QED BY <1>3, <2>2, Zenon DEF Total
  <1>6. Total(f) = Cardinality(R) /\ Total(f) \in Nat
    BY <1>2, FS_CardinalityType DEF Total
  <1> QED BY <1>5, <1>6

\* Writes that left belong to a request that has not recorded them yet, and the
\* tokens counted are finitely many.
Weight(me, k) == IF _idempotency_key(me.h, me.c) = k THEN me.writes ELSE 0
Settled == {"idle", "launch", "approve", "lookup", "send", "mark"}
Accounts ==
    /\ WritesAccounted
    /\ \A r \in Reqs : req[r].pc \in Settled => req[r].writes = 0
    /\ \A k \in Keys : IsFiniteSet(Tokens(RecordedWrites(k))) /\ IsFiniteSet(Tokens(PendingWrites(k)))

LEMMA TotalsTyped ==
    ASSUME ReviewInv, NEW k \in Keys
    PROVE  /\ RecordedWrites(k) \in [DOMAIN calls -> Nat] /\ PendingWrites(k) \in [Reqs -> Nat]
           /\ \A r \in Reqs : PendingWrites(k)[r] = Weight(req[r], k)
  <1>1. ASSUME NEW n \in DOMAIN calls PROVE calls[n].writes \in Nat
    <2>1. calls \in Seq(HookCall) /\ DOMAIN calls = 1..Len(calls)
      BY DEF ReviewInv, TypeOK
    <2>2. calls[n] \in HookCall
      BY <2>1
    <2> QED BY <2>2 DEF HookCall
  <1>2. ASSUME NEW r \in Reqs PROVE req[r].writes \in Nat
    BY DEF ReviewInv, TypeOK, Request
  <1> QED BY <1>1, <1>2 DEF RecordedWrites, PendingWrites, Weight, Key

\* The requests' part after a step of one of them.
LEMMA PendingStep ==
    ASSUME ReviewInv, Accounts, ReviewInv', NEW r \in Reqs, NEW me \in Request, Set(r, me), NEW k \in Keys
    PROVE  /\ IsFiniteSet(Tokens(PendingWrites(k)))'
           /\ Total(PendingWrites(k)) \in Nat /\ Total(PendingWrites(k))' \in Nat
           /\ Total(PendingWrites(k))' = Total(PendingWrites(k)) - Weight(req[r], k) + Weight(me, k)
  <1>1. PendingWrites(k) \in [Reqs -> Nat] /\ PendingWrites(k)' \in [Reqs -> Nat]
    <2>1. req \in [Reqs -> Request] /\ req' \in [Reqs -> Request]
      BY DEF ReviewInv, TypeOK
    <2>2. \A s \in Reqs : req[s].writes \in Nat /\ req'[s].writes \in Nat
      BY <2>1 DEF Request
    <2> QED BY <2>2 DEF PendingWrites, Key
  <1>2. req' = [req EXCEPT ![r] = me] /\ req \in [Reqs -> Request]
    BY DEF Set, ReviewInv, TypeOK
  <1>3. \A s \in Reqs : s # r => PendingWrites(k)'[s] = PendingWrites(k)[s]
    BY <1>2 DEF PendingWrites, Key
  <1>4. PendingWrites(k)[r] = Weight(req[r], k) /\ PendingWrites(k)'[r] = Weight(me, k)
    BY <1>2 DEF PendingWrites, Key, Weight
  <1>5. IsFiniteSet(Tokens(PendingWrites(k)))
    BY DEF Accounts
  <1> DEFINE f == PendingWrites(k)
             g == PendingWrites(k)'
  <1>6. f \in [Reqs -> Nat] /\ g \in [Reqs -> Nat] /\ (\A s \in Reqs : s # r => g[s] = f[s])
        /\ f[r] = Weight(req[r], k) /\ g[r] = Weight(me, k) /\ IsFiniteSet(Tokens(f))
    BY <1>1, <1>3, <1>4, <1>5
  <1> HIDE DEF f, g
  <1>7. /\ IsFiniteSet(Tokens(g)) /\ Total(f) \in Nat /\ Total(g) \in Nat
        /\ Total(g) = Total(f) - f[r] + g[r]
    BY <1>6, TotalAt
  <1> USE DEF f, g
  <1>8. Tokens(PendingWrites(k))' = Tokens(g) /\ Total(PendingWrites(k))' = Total(g)
    BY DEF Tokens, Total
  <1> QED BY <1>6, <1>7, <1>8

\* A step that adds no row and whose request answers for what it sent.
LEMMA AccountStep ==
    ASSUME ReviewInv, Accounts, ReviewInv', NEW r \in Reqs, NEW me \in Request, Set(r, me), calls' = calls,
           me.pc \in Settled => me.writes = 0,
           \A k \in Keys : sent'[k] - lost'[k] = sent[k] - lost[k] - Weight(req[r], k) + Weight(me, k)
    PROVE  Accounts'
  <1>1. \A k \in Keys : RecordedWrites(k)' = RecordedWrites(k)
    BY DEF RecordedWrites
  <1>2. ASSUME NEW k \in Keys
        PROVE  /\ sent'[k] = lost'[k] + Total(RecordedWrites(k))' + Total(PendingWrites(k))'
               /\ IsFiniteSet(Tokens(RecordedWrites(k)))' /\ IsFiniteSet(Tokens(PendingWrites(k)))'
    <2>1. IsFiniteSet(Tokens(RecordedWrites(k)))
      BY DEF Accounts
    <2>2. Total(RecordedWrites(k)) \in Nat
      BY <2>1, FS_CardinalityType DEF Total
    <2>3. Total(RecordedWrites(k))' = Total(RecordedWrites(k)) /\ IsFiniteSet(Tokens(RecordedWrites(k)))'
      BY <1>1, <2>1 DEF Total, Tokens
    <2>4. /\ IsFiniteSet(Tokens(PendingWrites(k)))'
          /\ Total(PendingWrites(k)) \in Nat /\ Total(PendingWrites(k))' \in Nat
          /\ Total(PendingWrites(k))' = Total(PendingWrites(k)) - Weight(req[r], k) + Weight(me, k)
      BY PendingStep
    <2>5. sent[k] = lost[k] + Total(RecordedWrites(k)) + Total(PendingWrites(k))
      BY DEF Accounts, WritesAccounted
    <2>6. sent[k] \in Nat /\ lost[k] \in Nat /\ sent'[k] \in Nat /\ lost'[k] \in Nat
      BY DEF ReviewInv, TypeOK
    <2>7. Weight(req[r], k) \in Nat /\ Weight(me, k) \in Nat
      BY DEF Weight, ReviewInv, TypeOK, Request
    <2>8. sent'[k] - lost'[k] = sent[k] - lost[k] - Weight(req[r], k) + Weight(me, k)
      OBVIOUS
    <2>9. sent'[k] = lost'[k] + Total(RecordedWrites(k))' + Total(PendingWrites(k))'
      BY <2>2, <2>3, <2>4, <2>5, <2>6, <2>7, <2>8
    <2> QED BY <2>3, <2>4, <2>9
  <1>3. \A s \in Reqs : req'[s].pc \in Settled => req'[s].writes = 0
    BY DEF Accounts, Set, ReviewInv, TypeOK
  <1>4. WritesAccounted'
    BY <1>2 DEF WritesAccounted
  <1> QED BY <1>2, <1>3, <1>4 DEF Accounts

\* A step of a request that has sent nothing since its last row, and sends nothing.
LEMMA SettledStep ==
    ASSUME ReviewInv, Accounts, ReviewInv', NEW r \in Reqs, NEW me \in Request, Set(r, me), calls' = calls,
           sent' = sent, lost' = lost, req[r].writes = 0, me.writes = 0
    PROVE  Accounts'
  <1>1. \A k \in Keys : Weight(req[r], k) = 0 /\ Weight(me, k) = 0
    BY DEF Weight
  <1>2. \A k \in Keys : sent[k] \in Nat /\ lost[k] \in Nat
    BY DEF ReviewInv, TypeOK
  <1>3. \A k \in Keys : sent'[k] - lost'[k] = sent[k] - lost[k] - Weight(req[r], k) + Weight(me, k)
    BY <1>1, <1>2
  <1> QED BY <1>3, AccountStep

\* n writes that leave are counted with their request.
LEMMA WriteAccounts ==
    ASSUME ReviewInv, Accounts, ReviewInv', NEW r \in Reqs, NEW me \in Request, Set(r, me), NEW n \in {0, 1},
           Write(r, n), req[r].pc \in Called, me.pc \in {"legacy", "record"},
           me.c = req[r].c, me.h = req[r].h, me.writes = req[r].writes + n
    PROVE  Accounts'
  <1>1. Key(r) \in Keys /\ sent \in [Keys -> Nat] /\ lost \in [Keys -> Nat] /\ req[r].writes \in Nat
    BY Serving DEF Request
  <1>2. sent' = [sent EXCEPT ![Key(r)] = @ + n] /\ calls' = calls /\ lost' = lost
    BY DEF Write
  <1>3. ASSUME NEW k \in Keys
        PROVE  sent'[k] - lost'[k] = sent[k] - lost[k] - Weight(req[r], k) + Weight(me, k)
    <2>1. CASE k = Key(r)
      <3>1. Weight(req[r], k) = req[r].writes /\ Weight(me, k) = req[r].writes + n
        BY <2>1 DEF Weight, Key
      <3>2. sent'[k] = sent[k] + n /\ lost'[k] = lost[k] /\ sent[k] \in Nat /\ lost[k] \in Nat
        BY <1>1, <1>2, <2>1
      <3> QED BY <1>1, <3>1, <3>2
    <2>2. CASE k # Key(r)
      <3>1. Weight(req[r], k) = 0 /\ Weight(me, k) = 0
        BY <2>2 DEF Weight, Key
      <3>2. sent'[k] = sent[k] /\ lost'[k] = lost[k] /\ sent[k] \in Nat /\ lost[k] \in Nat
        BY <1>1, <1>2, <2>2
      <3> QED BY <3>1, <3>2
    <2> QED BY <2>1, <2>2
  <1>4. ~(me.pc \in Settled)
    BY DEF Settled
  <1> QED BY <1>2, <1>3, <1>4, AccountStep

LEMMA SendAccounts ==
    ASSUME ReviewInv, Accounts, ReviewInv', NEW r \in Reqs, call_stack(r) \/ mcp_call(r) PROVE Accounts'
  <1>1. req[r] \in Request /\ req[r].pc = "send" /\ req[r].writes = 0
    BY Serving DEF call_stack, mcp_call, Accounts, Settled
  <1>2. PICK n \in {0, 1}, pc \in {"legacy", "record"}, ok \in BOOLEAN :
          Write(r, n) /\ Set(r, [req[r] EXCEPT !.pc = pc, !.ok = ok, !.writes = n])
    <2>1. CASE call_stack(r)
      <3>1. PICK ok \in BOOLEAN, n \in {0, 1} :
              Write(r, n) /\ Set(r, [req[r] EXCEPT !.pc = "record", !.ok = ok, !.writes = n])
        BY <2>1, Zenon DEF call_stack
      <3> QED BY <3>1
    <2>2. CASE mcp_call(r)
      <3>1. PICK answered \in BOOLEAN, n \in {0, 1} :
              Write(r, n) /\ Set(r, [req[r] EXCEPT !.pc = IF answered THEN "record" ELSE "legacy",
                                                   !.ok = answered, !.writes = n])
        BY <2>2, Zenon DEF mcp_call
      <3> QED BY <3>1
    <2> QED BY <2>1, <2>2
  <1> DEFINE me == [req[r] EXCEPT !.pc = pc, !.ok = ok, !.writes = n]
  <1>3. /\ me \in Request /\ me.pc = pc /\ me.c = req[r].c /\ me.h = req[r].h
        /\ me.writes = req[r].writes + n
    <2>1. me.pc = pc /\ me.c = req[r].c /\ me.h = req[r].h /\ me.writes = n
      BY <1>1 DEF Request
    <2>2. me \in Request
      <3>1. n \in Nat
        OBVIOUS
      <3>2. pc \in {"idle", "launch", "approve", "lookup", "send", "legacy", "record", "mark"}
        OBVIOUS
      <3> QED BY <1>1, <3>1, <3>2 DEF Request
    <2> HIDE DEF me
    <2> QED BY <1>1, <2>1, <2>2
  <1>4. req[r].pc \in Called
    BY <1>1 DEF Called
  <1>5. Set(r, me) /\ Write(r, n)
    BY <1>2
  <1> HIDE DEF me
  <1> QED BY <1>3, <1>4, <1>5, WriteAccounts

LEMMA LegacyAccounts ==
    ASSUME ReviewInv, Accounts, ReviewInv', NEW r \in Reqs, _legacy_call(r) PROVE Accounts'
  <1>1. req[r] \in Request /\ req[r].pc = "legacy"
    BY Serving DEF _legacy_call
  <1>2. PICK answered \in BOOLEAN, n \in {0, 1} :
          Write(r, n) /\ Set(r, [req[r] EXCEPT !.pc = "record", !.ok = TRUE, !.sim = ~answered,
                                               !.writes = @ + n])
    BY Zenon DEF _legacy_call
  <1> DEFINE me == [req[r] EXCEPT !.pc = "record", !.ok = TRUE, !.sim = ~answered, !.writes = @ + n]
  <1>3. /\ me \in Request /\ me.pc = "record" /\ me.c = req[r].c /\ me.h = req[r].h
        /\ me.writes = req[r].writes + n
    <2>1. me.pc = "record" /\ me.c = req[r].c /\ me.h = req[r].h /\ me.writes = req[r].writes + n
      BY <1>1 DEF Request
    <2>2. req[r].writes + n \in Nat
      BY <1>1 DEF Request
    <2>3. me \in Request
      BY <1>1, <2>2 DEF Request
    <2> QED BY <2>1, <2>3
  <1>4. req[r].pc \in Called
    BY <1>1 DEF Called
  <1>5. Set(r, me) /\ Write(r, n)
    BY <1>2
  <1> HIDE DEF me
  <1> QED BY <1>3, <1>4, <1>5, WriteAccounts

LEMMA CrashAccounts ==
    ASSUME ReviewInv, Accounts, ReviewInv', NEW r \in Reqs, Crash(r) PROVE Accounts'
  <1>1. /\ req[r] \in Request /\ req[r].writes \in Nat /\ sent \in [Keys -> Nat] /\ lost \in [Keys -> Nat]
        /\ req[r].pc \in Called => Key(r) \in Keys
    BY Serving DEF Request
  <1>2. Idle \in Request /\ Idle.writes = 0 /\ Set(r, Idle) /\ calls' = calls /\ sent' = sent
    BY IdleRequestType DEF Idle, Crash
  <1>3. CASE req[r].writes = 0
    BY <1>2, <1>3, SettledStep DEF Crash
  <1>4. CASE req[r].writes # 0
    <2>1. Key(r) \in Keys /\ req[r].writes > 0
      BY <1>1, <1>4 DEF Accounts, Settled, Called, Request
    <2>2. lost' = [lost EXCEPT ![Key(r)] = @ + req[r].writes]
      BY <2>1 DEF Crash
    <2>3. ASSUME NEW k \in Keys
          PROVE  sent'[k] - lost'[k] = sent[k] - lost[k] - Weight(req[r], k) + Weight(Idle, k)
      <3>1. Weight(Idle, k) = 0 /\ sent'[k] = sent[k] /\ sent[k] \in Nat /\ lost[k] \in Nat
        BY <1>1, <1>2 DEF Weight
      <3>2. CASE k = Key(r)
        <4>1. Weight(req[r], k) = req[r].writes /\ lost'[k] = lost[k] + req[r].writes
          BY <1>1, <2>2, <3>2 DEF Weight, Key
        <4> QED BY <1>1, <3>1, <4>1
      <3>3. CASE k # Key(r)
        <4>1. Weight(req[r], k) = 0 /\ lost'[k] = lost[k]
          BY <1>1, <2>2, <3>3 DEF Weight, Key
        <4> QED BY <3>1, <4>1
      <3> QED BY <3>2, <3>3
    <2> QED BY <1>2, <2>3, AccountStep
  <1> QED BY <1>3, <1>4

\* The row takes over what its request has sent.
LEMMA RecordAccounts ==
    ASSUME ReviewInv, Accounts, ReviewInv', NEW r \in Reqs, Record(r) PROVE Accounts'
  <1>1. /\ req[r] \in Request /\ req[r].writes \in Nat
        /\ calls \in Seq(HookCall) /\ Len(calls) \in Nat /\ DOMAIN calls = 1..Len(calls)
    BY Serving DEF Request
  <1>2. calls' = Append(calls, AuditRow(r)) /\ sent' = sent /\ lost' = lost /\ req[r].pc = "record"
    BY DEF Record, AuditRow
  <1>3. PICK me \in Request : Set(r, me) /\ me.writes = 0
    <2>1. Set(r, IF req[r].apply /\ req[r].live /\ req[r].ok
                 THEN [req[r] EXCEPT !.pc = "mark", !.writes = 0] ELSE Idle)
      BY DEF Record
    <2>2. /\ [req[r] EXCEPT !.pc = "mark", !.writes = 0] \in Request
          /\ [req[r] EXCEPT !.pc = "mark", !.writes = 0].writes = 0
      BY <1>1 DEF Request
    <2>3. Idle \in Request /\ Idle.writes = 0
      BY IdleRequestType DEF Idle
    <2> QED BY <2>1, <2>2, <2>3
  <1>4. DOMAIN calls' = DOMAIN calls \cup {Len(calls) + 1} /\ Len(calls) + 1 \notin DOMAIN calls
    BY <1>1, <1>2
  <1>5. /\ \A n \in DOMAIN calls : calls'[n] = calls[n]
        /\ calls'[Len(calls) + 1].key = Key(r) /\ calls'[Len(calls) + 1].writes = req[r].writes
    BY <1>1, <1>2 DEF AuditRow
  <1>6. ASSUME NEW k \in Keys
        PROVE  /\ sent'[k] = lost'[k] + Total(RecordedWrites(k))' + Total(PendingWrites(k))'
               /\ IsFiniteSet(Tokens(RecordedWrites(k)))' /\ IsFiniteSet(Tokens(PendingWrites(k)))'
    <2>1. /\ IsFiniteSet(Tokens(PendingWrites(k)))'
          /\ Total(PendingWrites(k)) \in Nat /\ Total(PendingWrites(k))' \in Nat
          /\ Total(PendingWrites(k))' = Total(PendingWrites(k)) - Weight(req[r], k) + Weight(me, k)
      BY <1>3, PendingStep
    <2>2. Weight(me, k) = 0 /\ Weight(req[r], k) \in Nat
      BY <1>1, <1>3 DEF Weight
    <2> DEFINE f == RecordedWrites(k)
               g == RecordedWrites(k)'
    <2>3. f \in [DOMAIN calls -> Nat] /\ IsFiniteSet(Tokens(f))
      BY TotalsTyped DEF Accounts
    <2>4. /\ g \in [DOMAIN calls \cup {Len(calls) + 1} -> Nat]
          /\ \A n \in DOMAIN calls : g[n] = f[n]
          /\ g[Len(calls) + 1] = Weight(req[r], k)
      <3>1. \A n \in DOMAIN calls : f[n] \in Nat
        BY <2>3
      <3>2. \A n \in DOMAIN calls : g[n] = f[n]
        BY <1>4, <1>5 DEF RecordedWrites
      <3>3. g[Len(calls) + 1] = Weight(req[r], k)
        BY <1>4, <1>5 DEF RecordedWrites, Weight, Key
      <3>4. g = [n \in DOMAIN calls \cup {Len(calls) + 1} |-> g[n]]
        BY <1>4 DEF RecordedWrites
      <3> HIDE DEF f, g
      <3>5. \A n \in DOMAIN calls \cup {Len(calls) + 1} : g[n] \in Nat
        BY <2>2, <3>1, <3>2, <3>3
      <3> QED BY <3>2, <3>3, <3>4, <3>5
    <2> HIDE DEF f, g
    <2>5. IsFiniteSet(Tokens(g)) /\ Total(f) \in Nat /\ Total(g) = Total(f) + Weight(req[r], k)
      <3> DEFINE S == DOMAIN calls
                 new == Len(calls) + 1
      <3>1. f \in [S -> Nat]
        BY <2>3
      <3>2. g \in [S \cup {new} -> Nat] /\ \A y \in S : g[y] = f[y]
        BY <2>4
      <3>3. new \notin S
        BY <1>4
      <3>4. IsFiniteSet(Tokens(f))
        BY <2>3
      <3>5. g[new] = Weight(req[r], k)
        BY <2>4
      <3> HIDE DEF S, new
      <3>6. IsFiniteSet(Tokens(g)) /\ Total(f) \in Nat /\ Total(g) = Total(f) + g[new]
        BY <3>1, <3>2, <3>3, <3>4, TotalNew
      <3> QED BY <3>5, <3>6
    <2> USE DEF f, g
    <2>6. Total(RecordedWrites(k))' = Total(g) /\ Tokens(RecordedWrites(k))' = Tokens(g)
      BY DEF Total, Tokens
    <2>7. sent[k] = lost[k] + Total(f) + Total(PendingWrites(k)) /\ sent[k] \in Nat /\ lost[k] \in Nat
      BY DEF Accounts, WritesAccounted, ReviewInv, TypeOK
    <2>8. sent'[k] = sent[k] /\ lost'[k] = lost[k]
      BY <1>2
    <2> HIDE DEF f, g
    <2>9. sent'[k] = lost'[k] + Total(g) + Total(PendingWrites(k))'
      BY <2>1, <2>2, <2>5, <2>7, <2>8
    <2> QED BY <2>1, <2>5, <2>6, <2>9
  <1>7. \A s \in Reqs : req'[s].pc \in Settled => req'[s].writes = 0
    BY <1>3 DEF Accounts, Set, ReviewInv, TypeOK
  <1>8. WritesAccounted'
    BY <1>6 DEF WritesAccounted
  <1> QED BY <1>6, <1>7, <1>8 DEF Accounts

\* The steps that send nothing and add no row.
LEMMA QuietAccounts ==
    ASSUME ReviewInv, Accounts, ReviewInv', NEW r \in Reqs,
           \/ \E c \in Changes :
                \/ SandboxBegin(r, c)
                \/ ApproveBegin(r, c)
                \/ \E h \in Hooks, live \in BOOLEAN :
                    \/ ApplyBegin(r, c, h, live)
                    \/ \E marker \in BOOLEAN : CallBegin(r, c, h, live, marker)
           \/ SandboxCommit(r) \/ ApproveCommit(r) \/ _existing_successful_call(r) \/ Mark(r)
    PROVE  Accounts'
  <1> DEFINE began == \E c \in Changes :
                        \/ SandboxBegin(r, c)
                        \/ ApproveBegin(r, c)
                        \/ \E h \in Hooks, live \in BOOLEAN :
                            \/ ApplyBegin(r, c, h, live)
                            \/ \E marker \in BOOLEAN : CallBegin(r, c, h, live, marker)
  <1>1. req \in [Reqs -> Request] /\ req' \in [Reqs -> Request] /\ req[r] \in Request /\ req'[r] \in Request
    BY DEF ReviewInv, TypeOK
  <1>2. /\ calls' = calls /\ sent' = sent /\ lost' = lost
        /\ req[r].pc \in Settled
        /\ \E me : Set(r, me) /\ (me.writes = 0 \/ me.writes = req[r].writes)
    <2>1. CASE began
      <3>1. PICK c \in Changes :
              \/ SandboxBegin(r, c)
              \/ ApproveBegin(r, c)
              \/ \E h \in Hooks, live \in BOOLEAN :
                  \/ ApplyBegin(r, c, h, live)
                  \/ \E marker \in BOOLEAN : CallBegin(r, c, h, live, marker)
        BY <2>1, Zenon
      <3>2. CASE SandboxBegin(r, c)
        <4>1. [Idle EXCEPT !.pc = "launch", !.c = c, !.read = change[c].status].writes = 0
          BY DEF Idle
        <4> QED BY <3>2, <4>1, IdleRequestType DEF SandboxBegin, Settled
      <3>3. CASE ApproveBegin(r, c)
        <4>1. [Idle EXCEPT !.pc = "approve", !.c = c, !.read = change[c].status].writes = 0
          BY DEF Idle
        <4> QED BY <3>3, <4>1, IdleRequestType DEF ApproveBegin, Settled
      <3>4. ASSUME NEW h \in Hooks, NEW live \in BOOLEAN, ApplyBegin(r, c, h, live)
            PROVE  /\ calls' = calls /\ sent' = sent /\ lost' = lost /\ req[r].pc \in Settled
                   /\ \E me : Set(r, me) /\ (me.writes = 0 \/ me.writes = req[r].writes)
        <4>1. [Idle EXCEPT !.pc = "lookup", !.c = c, !.h = h, !.apply = TRUE,
                           !.live = live, !.read = "approved"].writes = 0
          BY DEF Idle
        <4> QED BY <3>4, <4>1, IdleRequestType DEF ApplyBegin, Settled
      <3>5. ASSUME NEW h \in Hooks, NEW live \in BOOLEAN, NEW marker \in BOOLEAN,
                   CallBegin(r, c, h, live, marker)
            PROVE  /\ calls' = calls /\ sent' = sent /\ lost' = lost /\ req[r].pc \in Settled
                   /\ \E me : Set(r, me) /\ (me.writes = 0 \/ me.writes = req[r].writes)
        <4>1. [Idle EXCEPT !.pc = "lookup", !.c = c, !.h = h, !.live = live].writes = 0
          BY DEF Idle
        <4> QED BY <3>5, <4>1, IdleRequestType DEF CallBegin, Settled
      <3> QED BY <3>1, <3>2, <3>3, <3>4, <3>5
    <2>2. CASE SandboxCommit(r) \/ ApproveCommit(r) \/ Mark(r)
      <3>1. Idle.writes = 0
        BY DEF Idle
      <3> QED BY <2>2, <3>1 DEF SandboxCommit, ApproveCommit, Mark, Settled
    <2>3. CASE _existing_successful_call(r)
      <3>1. /\ [req[r] EXCEPT !.pc = "mark"].writes = req[r].writes
            /\ [req[r] EXCEPT !.pc = "send", !.seen = Len(calls)].writes = req[r].writes
            /\ Idle.writes = 0
        BY <1>1 DEF Request, Idle
      <3> QED BY <2>3, <3>1 DEF _existing_successful_call, Settled
    <2> QED BY <2>1, <2>2, <2>3
  <1>3. req[r].writes = 0
    BY <1>2 DEF Accounts
  <1>4. req'[r].writes = 0 /\ req' = [req EXCEPT ![r] = req'[r]]
    BY <1>1, <1>2, <1>3 DEF Set
  <1>5. Set(r, req'[r])
    BY <1>4 DEF Set
  <1> QED BY <1>1, <1>2, <1>3, <1>4, <1>5, SettledStep

LEMMA AccountsInit == Init => Accounts
  <1> SUFFICES ASSUME Init PROVE Accounts
    OBVIOUS
  <1>1. ASSUME NEW k \in Keys
        PROVE  Tokens(RecordedWrites(k)) = {} /\ Tokens(PendingWrites(k)) = {}
    <2>1. DOMAIN RecordedWrites(k) = {}
      BY DEF RecordedWrites, Init
    <2>2. \A r \in Reqs : PendingWrites(k)[r] = 0
      BY DEF PendingWrites, Init, Idle
    <2>3. DOMAIN PendingWrites(k) = Reqs
      BY DEF PendingWrites
    <2>4. 1..0 = {}
      OBVIOUS
    <2> QED BY <2>1, <2>2, <2>3, <2>4 DEF Tokens
  <1>2. IsFiniteSet({}) /\ Cardinality({}) = 0
    BY FS_EmptySet
  <1>3. WritesAccounted
    <2> SUFFICES ASSUME NEW k \in Keys
                 PROVE  sent[k] = lost[k] + Total(RecordedWrites(k)) + Total(PendingWrites(k))
      BY DEF WritesAccounted
    <2>1. Total(RecordedWrites(k)) = 0 /\ Total(PendingWrites(k)) = 0
      BY <1>1, <1>2 DEF Total
    <2>2. sent[k] = 0 /\ lost[k] = 0
      BY DEF Init
    <2> QED BY <2>1, <2>2
  <1>4. \A r \in Reqs : req[r].writes = 0
    BY DEF Init, Idle
  <1> QED BY <1>1, <1>2, <1>3, <1>4 DEF Accounts

LEMMA AccountsNext == ReviewInv /\ Accounts /\ ReviewInv' /\ [Next]_vars => Accounts'
  <1> SUFFICES ASSUME ReviewInv, Accounts, ReviewInv', [Next]_vars PROVE Accounts'
    OBVIOUS
  <1>1. CASE UNCHANGED vars
    BY <1>1 DEF vars, Accounts, WritesAccounted, RecordedWrites, PendingWrites, Key, Total, Tokens
  <1>2. CASE Next
    <2>1. PICK r \in Reqs :
            \/ \E c \in Changes :
                \/ SandboxBegin(r, c)
                \/ ApproveBegin(r, c)
                \/ \E h \in Hooks, live \in BOOLEAN :
                    \/ ApplyBegin(r, c, h, live)
                    \/ \E marker \in BOOLEAN : CallBegin(r, c, h, live, marker)
            \/ SandboxCommit(r) \/ ApproveCommit(r) \/ _existing_successful_call(r)
            \/ call_stack(r) \/ mcp_call(r) \/ _legacy_call(r)
            \/ Record(r) \/ Mark(r) \/ Crash(r)
      BY <1>2, Zenon DEF Next
    <2>2. CASE call_stack(r) \/ mcp_call(r)
      BY <2>2, SendAccounts
    <2>3. CASE _legacy_call(r)
      BY <2>3, LegacyAccounts
    <2>4. CASE Record(r)
      BY <2>4, RecordAccounts
    <2>5. CASE Crash(r)
      BY <2>5, CrashAccounts
    <2> QED BY <2>1, <2>2, <2>3, <2>4, <2>5, QuietAccounts
  <1> QED BY <1>1, <1>2

\* Every write an external system received is in the ledger of hook calls, belongs to a
\* call in flight, or was lost in a crash between the write and the row.
THEOREM AccountedTheorem == Spec => []WritesAccounted
  <1>1. Accounts => WritesAccounted
    BY DEF Accounts
  <1>2. ReviewInv /\ ReviewInv' /\ Accounts /\ [Next]_vars => Accounts'
    BY AccountsNext
  <1> QED BY <1>1, <1>2, AccountsInit, InvTheorem, PTL DEF Spec

-----------------------------------------------------------------------------
(* The refinement *)

sandboxedBar == {c \in Changes : change[c].sandbox # 0}
approvedBar == {c \in Changes : change[c].approver}
appliedBar == {c \in Changes : change[c].applied}
LVars == <<sandboxedBar, approvedBar, dispatched, appliedBar>>

\* A step that leaves the changes and the dispatches alone is a stutter.
LEMMA Stutters == UNCHANGED <<change, dispatched>> => UNCHANGED LVars
  BY DEF LVars, sandboxedBar, approvedBar, appliedBar

\* A write of an apply is a Dispatch of its change.
LEMMA WriteRefines ==
    ASSUME ReviewInv, NEW r \in Reqs, NEW n \in {0, 1}, req[r].pc \in Called, Write(r, n)
    PROVE  Lifecycle!LNext \/ UNCHANGED LVars
  <1>1. /\ change' = change
        /\ dispatched' = IF n > 0 /\ req[r].apply THEN dispatched \cup {req[r].c} ELSE dispatched
    BY Zenon DEF Write
  <1>2. CASE n > 0 /\ req[r].apply
    <2>1. req[r].c \in Changes /\ req[r].c \in sandboxedBar \cap approvedBar
      BY <1>2, Serving DEF RequestFits, Called, sandboxedBar, approvedBar
    <2>2. Lifecycle!Dispatch(req[r].c)
      BY <1>1, <1>2, <2>1 DEF Lifecycle!Dispatch, sandboxedBar, approvedBar, appliedBar
    <2> QED BY <2>1, <2>2 DEF Lifecycle!LNext
  <1>3. CASE ~(n > 0 /\ req[r].apply)
    BY <1>1, <1>3, Stutters
  <1> QED BY <1>2, <1>3

\* SandboxCommit is Sandbox of its change, whatever it does to the status.
LEMMA SandboxRefines ==
    ASSUME ReviewInv, NEW r \in Reqs, SandboxCommit(r) PROVE Lifecycle!LNext
  <1>0. PICK mine \in Changes : mine = req[r].c
    BY Serving DEF SandboxCommit, RequestFits
  <1>1. PICK passed : /\ req[r].pc = "launch"
                      /\ change' = [change EXCEPT ![mine].sandbox = boxes + 1, ![mine].status = passed]
                      /\ dispatched' = dispatched
    BY <1>0, Zenon DEF SandboxCommit
  <1>2. boxes + 1 # 0 /\ change \in [Changes -> Change]
    BY <1>0, <1>1, Serving DEF RequestFits, ReviewInv, TypeOK
  <1>3. /\ change'[mine] = [change[mine] EXCEPT !.sandbox = boxes + 1, !.status = passed]
        /\ \A d \in Changes : d # mine => change'[d] = change[d]
        /\ change[mine] \in Change
    BY <1>0, <1>1, <1>2
  <1>4. change'[mine].sandbox = boxes + 1
    BY <1>3 DEF Change
  <1>5. change'[mine].approver = change[mine].approver /\ change'[mine].applied = change[mine].applied
    BY <1>3 DEF Change
  <1>6. sandboxedBar' = sandboxedBar \cup {mine}
    BY <1>2, <1>3, <1>4 DEF sandboxedBar
  <1>7. approvedBar' = approvedBar /\ appliedBar' = appliedBar
    BY <1>2, <1>3, <1>5 DEF approvedBar, appliedBar
  <1>8. Lifecycle!Sandbox(mine)
    BY <1>1, <1>6, <1>7 DEF Lifecycle!Sandbox, sandboxedBar, approvedBar, appliedBar
  <1> QED BY <1>8 DEF Lifecycle!LNext

LEMMA ApproveRefines ==
    ASSUME ReviewInv, NEW r \in Reqs, ApproveCommit(r) PROVE Lifecycle!LNext
  <1>0. PICK mine \in Changes : mine = req[r].c
    BY Serving DEF ApproveCommit, RequestFits
  <1>1. PICK approved : /\ req[r].pc = "approve"
                        /\ change' = [change EXCEPT ![mine].approver = TRUE, ![mine].status = approved]
                        /\ dispatched' = dispatched
    BY <1>0, Zenon DEF ApproveCommit
  <1>2. change \in [Changes -> Change]
    BY <1>0, <1>1, Serving DEF RequestFits, ReviewInv, TypeOK
  <1>3. /\ change'[mine] = [change[mine] EXCEPT !.approver = TRUE, !.status = approved]
        /\ \A d \in Changes : d # mine => change'[d] = change[d]
        /\ change[mine] \in Change
    BY <1>0, <1>1, <1>2
  <1>4. change'[mine].approver
    BY <1>3 DEF Change
  <1>5. change'[mine].sandbox = change[mine].sandbox /\ change'[mine].applied = change[mine].applied
    BY <1>3 DEF Change
  <1>6. approvedBar' = approvedBar \cup {mine}
    BY <1>2, <1>3, <1>4 DEF approvedBar
  <1>7. sandboxedBar' = sandboxedBar /\ appliedBar' = appliedBar
    BY <1>2, <1>3, <1>5 DEF sandboxedBar, appliedBar
  <1>8. Lifecycle!Approve(mine)
    BY <1>1, <1>6, <1>7 DEF Lifecycle!Approve, sandboxedBar, approvedBar, appliedBar
  <1> QED BY <1>8 DEF Lifecycle!LNext

LEMMA MarkRefines ==
    ASSUME ReviewInv, NEW r \in Reqs, Mark(r) PROVE Lifecycle!LNext
  <1>0. PICK mine \in Changes : mine = req[r].c
    BY Serving DEF Mark, RequestFits
  <1>1. /\ req[r].pc = "mark"
        /\ change' = [change EXCEPT ![mine].status = "applied", ![mine].applied = TRUE]
        /\ dispatched' = dispatched
    BY <1>0, Zenon DEF Mark
  <1>2. /\ change \in [Changes -> Change]
        /\ change[mine].sandbox # 0 /\ change[mine].approver
    BY <1>0, <1>1, Serving DEF RequestFits, Called
  <1>3. /\ change'[mine] = [change[mine] EXCEPT !.status = "applied", !.applied = TRUE]
        /\ \A d \in Changes : d # mine => change'[d] = change[d]
        /\ change[mine] \in Change
    BY <1>0, <1>1, <1>2
  <1>4. change'[mine].applied
    BY <1>3 DEF Change
  <1>5. change'[mine].sandbox = change[mine].sandbox /\ change'[mine].approver = change[mine].approver
    BY <1>3 DEF Change
  <1>6. appliedBar' = appliedBar \cup {mine}
    BY <1>2, <1>3, <1>4 DEF appliedBar
  <1>7. sandboxedBar' = sandboxedBar /\ approvedBar' = approvedBar
    BY <1>2, <1>3, <1>5 DEF sandboxedBar, approvedBar
  <1>8. mine \in sandboxedBar \cap approvedBar
    BY <1>2 DEF sandboxedBar, approvedBar
  <1>9. Lifecycle!Apply(mine)
    BY <1>1, <1>6, <1>7, <1>8 DEF Lifecycle!Apply, sandboxedBar, approvedBar, appliedBar
  <1> QED BY <1>9 DEF Lifecycle!LNext

LEMMA StepRefines == ReviewInv /\ [Next]_vars => Lifecycle!LNext \/ UNCHANGED LVars
  <1> SUFFICES ASSUME ReviewInv, [Next]_vars PROVE Lifecycle!LNext \/ UNCHANGED LVars
    OBVIOUS
  <1>1. CASE UNCHANGED vars
    BY <1>1, Stutters DEF vars
  <1>2. CASE Next
    <2>1. PICK r \in Reqs :
            \/ \E c \in Changes :
                \/ SandboxBegin(r, c)
                \/ ApproveBegin(r, c)
                \/ \E h \in Hooks, live \in BOOLEAN :
                    \/ ApplyBegin(r, c, h, live)
                    \/ \E marker \in BOOLEAN : CallBegin(r, c, h, live, marker)
            \/ SandboxCommit(r) \/ ApproveCommit(r) \/ _existing_successful_call(r)
            \/ call_stack(r) \/ mcp_call(r) \/ _legacy_call(r)
            \/ Record(r) \/ Mark(r) \/ Crash(r)
      BY <1>2, Zenon DEF Next
    <2>2. CASE \E c \in Changes :
                \/ SandboxBegin(r, c)
                \/ ApproveBegin(r, c)
                \/ \E h \in Hooks, live \in BOOLEAN :
                    \/ ApplyBegin(r, c, h, live)
                    \/ \E marker \in BOOLEAN : CallBegin(r, c, h, live, marker)
      BY <2>2, Stutters DEF SandboxBegin, ApproveBegin, ApplyBegin, CallBegin
    <2>3. CASE _existing_successful_call(r) \/ Record(r) \/ Crash(r)
      BY <2>3, Stutters DEF _existing_successful_call, Record, Crash
    <2>4. CASE call_stack(r)
      <3>1. \E n \in {0, 1} : req[r].pc = "send" /\ Write(r, n)
        BY <2>4, Zenon DEF call_stack
      <3> QED BY <3>1, WriteRefines DEF Called
    <2>5. CASE mcp_call(r)
      <3>1. \E n \in {0, 1} : req[r].pc = "send" /\ Write(r, n)
        BY <2>5, Zenon DEF mcp_call
      <3> QED BY <3>1, WriteRefines DEF Called
    <2>6. CASE _legacy_call(r)
      <3>1. \E n \in {0, 1} : req[r].pc = "legacy" /\ Write(r, n)
        BY <2>6, Zenon DEF _legacy_call
      <3> QED BY <3>1, WriteRefines DEF Called
    <2> QED BY <2>1, <2>2, <2>3, <2>4, <2>5, <2>6, SandboxRefines, ApproveRefines, MarkRefines
  <1> QED BY <1>1, <1>2

\* Whatever its requests do to each other, the review implements ReviewLifecycle:
\* apply_change writes to an external system, and marks a change as applied, only when it
\* has a sandbox run and an approver, and none of the four is ever taken back.
THEOREM LifecycleTheorem == Spec => ImplementsLifecycle
  <1>1. Init => Lifecycle!LInit
    BY DEF Init, Lifecycle!LInit
  <1>2. ReviewInv /\ [Next]_vars => [Lifecycle!LNext]_LVars
    BY StepRefines
  <1> QED BY <1>1, <1>2, InvTheorem, PTL
          DEF Spec, ImplementsLifecycle, Lifecycle!LSpec, LVars, sandboxedBar, approvedBar, appliedBar
=============================================================================
