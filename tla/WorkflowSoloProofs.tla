-------------------------- MODULE WorkflowSoloProofs --------------------------
(***************************************************************************)
(* What WorkflowRuntime promises when one session serves the requests one  *)
(* after the other, for every number of runs, crashes and overruns and for *)
(* every template: the rows in the session's memory are the rows in the    *)
(* database, so no completed step runs again, no attempt goes uncounted    *)
(* and no recorded external write is repeated.  Without crashes a run that *)
(* says succeeded is complete as well, and what it emitted has a row.      *)
(***************************************************************************)
EXTENDS WorkflowRuntimeProofs

-----------------------------------------------------------------------------
(* The inductive invariant *)

\* Requests are served one at a time (a single worker process, no overlap).
OneSession == \A s, t \in Sessions : s = t

\* The template proposes at most one change, as the four built-in ones do
\* (production_workflows.py:72,128,173,192).
OneProposal ==
    \A i, j \in Steps : Kind[i] = "change.propose" /\ Kind[j] = "change.propose" => i = j

\* Rows in memory say what the stored ones say, their leases aside.
Matches(cache, rows) ==
    \A i \in Steps : /\ cache[i].status = rows[i].status
                     /\ cache[i].attempts = rows[i].attempts
                     /\ cache[i].out = rows[i].out

\* The session has read the step rows of its run and still relies on them.
Loaded(me) == \/ me.pc \in {"mark", "plan", "exec", "rdecide"}
              \/ me.pc \in {"recover", "load"} /\ me.resumed

Underway(me, i) ==
    /\ me.work[i].stage # "none" => me.pc = "exec" /\ step[me.run][i].status = "running"
    /\ me.work[i].stage \in {"leased", "inserting"}
          => execs[me.run][i] < step[me.run][i].attempts
    /\ me.work[i].stage = "sent" => LatestOut(me.cache, "change.propose") # 0

SoloSession(me) ==
    /\ me.pc = "lookup" => ~me.resumed
    /\ Loaded(me) => Matches(me.cache, step[me.run])
    /\ \A i \in Steps : Underway(me, i)

\* A step got beyond pending only after every step ahead of it succeeded.
Prefix(rows) ==
    \A i, j \in Steps :
        i < j /\ rows[j].status \notin {"pending", "blocked"} => rows[i].status = "succeeded"

\* The key of a succeeded call is the proposal a succeeded step made.
CallsBacked ==
    \A r \in Runs : \A k \in hookCalls[r] : \E p \in Steps :
        Kind[p] = "change.propose" /\ step[r][p].status = "succeeded" /\ step[r][p].out = k

InOrder == \A r \in Runs : Prefix(step[r])

SoloInv ==
    /\ AttemptsCoverExecutions /\ CallsBacked /\ InOrder
    /\ \A s \in Sessions : SoloSession(sess[s])

\* What no step of the only session does to a succeeded step.
Stays ==
    \A r \in Runs : \A i \in Steps : step[r][i].status = "succeeded" =>
        /\ step'[r][i].status = "succeeded" /\ step'[r][i].out = step[r][i].out
        /\ execs'[r][i] = execs[r][i]

NoNewWrite == \A r \in Runs : hookCalls[r] # {} => sends'[r] = sends[r]

-----------------------------------------------------------------------------
(* Steps in general *)

\* With one session, what its next value is decides what every session's is.
LEMMA SoloKept ==
    ASSUME OneSession, SoloInv, Stays, UNCHANGED hookCalls,
           AttemptsCoverExecutions', InOrder',
           NEW s \in Sessions, SoloSession(sess[s])'
    PROVE  SoloInv'
<1>1. \A t \in Sessions : t = s
  BY DEF OneSession
<1>2. CallsBacked'
  BY DEF SoloInv, CallsBacked, Stays
<1> QED
  BY <1>1, <1>2 DEF SoloInv

LEMMA NothingRun ==
    ASSUME SoloInv, UNCHANGED <<step, execs>>
    PROVE  Stays /\ AttemptsCoverExecutions' /\ InOrder'
BY DEF SoloInv, Stays, AttemptsCoverExecutions, InOrder, Prefix

\* A step that rewrites the rows of one run.
LEMMA RowsRewritten ==
    ASSUME TypeInv, SoloInv, NEW r \in Runs, NEW rows, step' = [step EXCEPT ![r] = rows],
           UNCHANGED execs,
           \A i \in Steps : rows[i].attempts \in {step[r][i].attempts, step[r][i].attempts + 1},
           \A i \in Steps : step[r][i].status = "succeeded" =>
               rows[i].status = "succeeded" /\ rows[i].out = step[r][i].out,
           Prefix(rows)
    PROVE  /\ Stays /\ AttemptsCoverExecutions' /\ InOrder'
           /\ step'[r] = rows
<1>1. step'[r] = rows /\ \A q \in Runs : q # r => step'[q] = step[q]
  BY DEF TypeInv, TypeOK
<1>2. Stays
  BY <1>1 DEF Stays
<1>3. AttemptsCoverExecutions'
  <2> SUFFICES ASSUME NEW q \in Runs, NEW i \in Steps
               PROVE  execs[q][i] <= step'[q][i].attempts
    BY DEF AttemptsCoverExecutions
  <2>1. execs[q][i] <= step[q][i].attempts /\ execs[q][i] \in Nat /\ step[q][i].attempts \in Nat
    BY DEF SoloInv, AttemptsCoverExecutions, TypeInv, TypeOK, StepRow
  <2> QED  BY <1>1, <2>1
<1>4. InOrder'
  BY <1>1 DEF SoloInv, InOrder, Prefix
<1> QED
  BY <1>1, <1>2, <1>3, <1>4

\* A session with nothing in hand, and one with rows in hand.
LEMMA HandsEmpty ==
    ASSUME NEW s \in Sessions, \A i \in Steps : sess'[s].work[i].stage = "none",
           \/ sess'[s].pc \in {"idle", "select", "rload", "refresh", "publish"}
           \/ sess'[s].pc \in {"lookup", "recover", "load"} /\ ~sess'[s].resumed
    PROVE  SoloSession(sess[s])'
BY DEF SoloSession, Loaded, Underway

LEMMA RowsInHand ==
    ASSUME NEW s \in Sessions, \A i \in Steps : sess'[s].work[i].stage = "none",
           sess'[s].pc # "lookup", Matches(sess'[s].cache, step'[sess'[s].run])
    PROVE  SoloSession(sess[s])'
BY DEF SoloSession, Underway

\* What is true of the only session when it is past its selection.
LEMMA OwnSolo ==
    ASSUME SoloInv, NEW s \in Sessions
    PROVE  /\ SoloSession(sess[s])
           /\ sess[s].pc # "exec" => \A i \in Steps : sess[s].work[i].stage = "none"
BY DEF SoloInv, SoloSession, Underway

LEMMA IdleSolo ==
    ASSUME TypeInv, NEW s \in Sessions, Set(s, Idle)
    PROVE  SoloSession(sess[s])'
<1>1. sess'[s] = Idle
  BY SetValue
<1> QED
  BY <1>1, HandsEmpty DEF Idle, NoWork

LEMMA NextRunSolo ==
    ASSUME TypeInv, NEW s \in Sessions, NEW me, Set(s, NextRun(me))
    PROVE  SoloSession(sess[s])'
<1>1. sess'[s] = NextRun(me)
  BY SetValue
<1>2. /\ \A i \in Steps : NextRun(me).work[i].stage = "none"
      /\ ~NextRun(me).resumed /\ NextRun(me).pc \in {"idle", "recover"}
  BY DEF NextRun, Idle, NoWork
<1> QED
  BY <1>1, <1>2, HandsEmpty

-----------------------------------------------------------------------------
(* One lemma per action *)

LEMMA LookupSolo ==
    ASSUME TypeInv, SoloInv, OneSession, NEW s \in Sessions, Lookup(s)
    PROVE  SoloInv' /\ Stays
<1>1. UNCHANGED <<step, execs, hookCalls>> /\ sess[s].pc = "lookup" /\ sess[s] \in Session
  BY OwnRun DEF Lookup, rowVars, history
<1>2. SoloSession(sess[s])'
  <2>1. CASE run[sess[s].run].status \in Active
    <3> DEFINE me == [sess[s] EXCEPT !.pc = "recover", !.snap[sess[s].run] = run[sess[s].run]]
    <3>1. Set(s, me)
      BY <2>1 DEF Lookup
    <3>2. sess'[s] = me
      <4> HIDE DEF me
      <4> QED  BY <3>1, SetValue
    <3>3. me.pc = "recover" /\ me.work = sess[s].work /\ me.resumed = sess[s].resumed
      BY <1>1 DEF Session
    <3>4. ~sess[s].resumed /\ \A i \in Steps : sess[s].work[i].stage = "none"
      BY <1>1, OwnSolo DEF SoloSession
    <3> HIDE DEF me
    <3> QED  BY <3>2, <3>3, <3>4, HandsEmpty
  <2>2. CASE run[sess[s].run].status \notin Active
    BY <2>2, IdleSolo DEF Lookup
  <2> QED  BY <2>1, <2>2
<1> QED
  BY <1>1, <1>2, NothingRun, SoloKept

\* A request of the only session finds it idle.
LEMMA RequestSolo ==
    ASSUME TypeInv, SoloInv, OneSession, NEW s \in Sessions, NEW me, Request(s, me),
           UNCHANGED <<step, execs, hookCalls>>,
           me.work = Idle.work,
           \/ me.pc \in {"idle", "select", "rload", "refresh", "publish"}
           \/ me.pc \in {"lookup", "recover", "load"} /\ ~me.resumed
    PROVE  SoloInv' /\ Stays
<1>1. sess'[s] = me
  BY SetValue DEF Request
<1>2. \A i \in Steps : me.work[i].stage = "none"
  BY DEF Idle, NoWork
<1>3. SoloSession(sess[s])'
  BY <1>1, <1>2, HandsEmpty
<1> QED
  BY <1>3, NothingRun, SoloKept

LEMMA StartSyncSolo ==
    ASSUME TypeInv, SoloInv, OneSession, NEW s \in Sessions, NEW r \in Runs, StartSync(s, r)
    PROVE  SoloInv' /\ Stays
<1> DEFINE me == [Idle EXCEPT !.pc = "lookup", !.run = r]
<1>1. Request(s, me) /\ UNCHANGED <<step, execs, hookCalls>>
  BY DEF StartSync, history
<1>2. me.work = Idle.work /\ me.pc = "lookup" /\ ~me.resumed
  BY DEF Idle
<1> HIDE DEF me
<1> QED
  BY <1>1, <1>2, RequestSolo

LEMMA ResumeLookupSolo ==
    ASSUME TypeInv, SoloInv, OneSession, NEW s \in Sessions, NEW r \in Runs, ResumeLookup(s, r)
    PROVE  SoloInv' /\ Stays
<1> DEFINE me == [Idle EXCEPT !.pc = "rload", !.run = r, !.snap[r] = run[r]]
<1>1. Request(s, me) /\ UNCHANGED <<step, execs, hookCalls>>
  BY DEF ResumeLookup, rowVars, history
<1>2. me.work = Idle.work /\ me.pc = "rload"
  BY DEF Idle
<1> HIDE DEF me
<1> QED
  BY <1>1, <1>2, RequestSolo

LEMMA DrainRecoverSolo ==
    ASSUME TypeInv, SoloInv, OneSession, NEW s \in Sessions, DrainRecover(s)
    PROVE  SoloInv' /\ Stays
<1> DEFINE me == [Idle EXCEPT !.pc = "select"]
<1>1. /\ Request(s, me) /\ UNCHANGED <<execs, hookCalls>>
      /\ step' = [r \in Runs |-> [i \in Steps |->
                     IF Expired(step[r][i]) THEN Recovered(step[r][i]) ELSE step[r][i]]]
  BY DEF DrainRecover, history
<1>2. sess'[s] = me
  <2> HIDE DEF me
  <2> QED  BY <1>1, SetValue DEF Request
<1>3. SoloSession(sess[s])'
  BY <1>2, HandsEmpty DEF Idle, NoWork
<1>4. \A r \in Runs : \A i \in Steps :
         /\ step'[r][i].attempts = step[r][i].attempts
         /\ \/ step'[r][i] = step[r][i]
            \/ step[r][i].status = "running" /\ step'[r][i].status = "pending"
  <2> SUFFICES ASSUME NEW r \in Runs, NEW i \in Steps
               PROVE  /\ step'[r][i].attempts = step[r][i].attempts
                      /\ \/ step'[r][i] = step[r][i]
                         \/ step[r][i].status = "running" /\ step'[r][i].status = "pending"
    OBVIOUS
  <2>1. step[r][i] \in StepRow
    BY DEF TypeInv, TypeOK
  <2>2. step'[r][i] = IF Expired(step[r][i]) THEN Recovered(step[r][i]) ELSE step[r][i]
    BY <1>1
  <2> QED  BY <2>1, <2>2 DEF Expired, Recovered, StepRow
<1>5. Stays /\ AttemptsCoverExecutions' /\ InOrder'
  <2>1. Stays
    BY <1>1, <1>4 DEF Stays
  <2>2. AttemptsCoverExecutions'
    BY <1>1, <1>4 DEF SoloInv, AttemptsCoverExecutions
  <2>3. InOrder'
    BY <1>4 DEF SoloInv, InOrder, Prefix
  <2> QED  BY <2>1, <2>2, <2>3
<1> QED
  BY <1>1, <1>3, <1>5, SoloKept

LEMMA DrainSelectSolo ==
    ASSUME TypeInv, SoloInv, OneSession, NEW s \in Sessions, DrainSelect(s)
    PROVE  SoloInv' /\ Stays
<1>1. UNCHANGED <<step, execs, hookCalls>> /\ \E me : Set(s, NextRun(me))
  BY DEF DrainSelect, rowVars, history
<1> QED
  BY <1>1, NextRunSolo, NothingRun, SoloKept

LEMMA PublishSolo ==
    ASSUME TypeInv, SoloInv, OneSession, NEW s \in Sessions, Publish(s)
    PROVE  SoloInv' /\ Stays
<1>1. UNCHANGED <<step, execs, hookCalls>> /\ Set(s, NextRun(sess[s]))
  BY DEF Publish, rowVars
<1> QED
  BY <1>1, NextRunSolo, NothingRun, SoloKept

\* A session that gives up, or is lost, leaves rows and counts alone.
LEMMA GiveUpSolo ==
    ASSUME TypeInv, SoloInv, OneSession, NEW s \in Sessions, Set(s, Idle),
           UNCHANGED <<step, execs, hookCalls>>
    PROVE  SoloInv' /\ Stays
BY IdleSolo, NothingRun, SoloKept

LEMMA RefreshSolo ==
    ASSUME TypeInv, SoloInv, OneSession, NEW s \in Sessions, Refresh(s)
    PROVE  SoloInv' /\ Stays
<1> DEFINE me == [sess[s] EXCEPT !.pc = "publish", !.snap[sess[s].run] = run[sess[s].run]]
<1>1. /\ UNCHANGED <<step, execs, hookCalls>> /\ Set(s, me) /\ sess[s].pc = "refresh"
      /\ sess[s] \in Session
  BY OwnRun DEF Refresh, rowVars, history
<1>2. sess'[s] = me
  <2> HIDE DEF me
  <2> QED  BY <1>1, SetValue
<1>3. me.pc = "publish" /\ me.work = sess[s].work
  BY <1>1 DEF Session
<1>4. SoloSession(sess[s])'
  <2> HIDE DEF me
  <2> QED  BY <1>1, <1>2, <1>3, OwnSolo, HandsEmpty
<1> QED
  BY <1>1, <1>4, NothingRun, SoloKept

LEMMA ResumeLoadSolo ==
    ASSUME TypeInv, SoloInv, OneSession, NEW s \in Sessions, ResumeLoad(s)
    PROVE  SoloInv' /\ Stays
<1> DEFINE me == [sess[s] EXCEPT !.pc = "rdecide", !.cache = step[sess[s].run], !.resumed = TRUE]
<1>1. /\ UNCHANGED <<step, execs, hookCalls>> /\ Set(s, me) /\ sess[s].pc = "rload"
      /\ sess[s] \in Session
  BY OwnRun DEF ResumeLoad, rowVars, history
<1>2. sess'[s] = me
  <2> HIDE DEF me
  <2> QED  BY <1>1, SetValue
<1>3. me.pc = "rdecide" /\ me.work = sess[s].work /\ me.cache = step'[me.run]
  BY <1>1 DEF Session
<1>4. SoloSession(sess[s])'
  <2>1. Matches(me.cache, step'[me.run])
    BY <1>3 DEF Matches
  <2> HIDE DEF me
  <2> QED  BY <1>1, <1>2, <1>3, <2>1, OwnSolo, RowsInHand
<1> QED
  BY <1>1, <1>4, NothingRun, SoloKept

LEMMA LoadStepsSolo ==
    ASSUME TypeInv, SoloInv, OneSession, NEW s \in Sessions, LoadSteps(s)
    PROVE  SoloInv' /\ Stays
<1> DEFINE me == [sess[s] EXCEPT !.pc = "mark",
                     !.cache = IF sess[s].resumed THEN @ ELSE step[sess[s].run]]
<1>1. /\ UNCHANGED <<step, execs, hookCalls>> /\ Set(s, me) /\ sess[s].pc = "load"
      /\ sess[s] \in Session
  BY OwnRun DEF LoadSteps, rowVars, history
<1>2. sess'[s] = me
  <2> HIDE DEF me
  <2> QED  BY <1>1, SetValue
<1>3. /\ me.pc = "mark" /\ me.work = sess[s].work /\ me.run = sess[s].run
      /\ me.cache = IF sess[s].resumed THEN sess[s].cache ELSE step[sess[s].run]
  BY <1>1 DEF Session
<1>4. Matches(me.cache, step'[me.run])
  <2>1. sess[s].resumed => Matches(sess[s].cache, step[sess[s].run])
    BY <1>1, OwnSolo DEF SoloSession, Loaded
  <2> HIDE DEF me
  <2> QED  BY <1>1, <1>3, <2>1 DEF Matches
<1>5. SoloSession(sess[s])'
  <2> HIDE DEF me
  <2> QED  BY <1>1, <1>2, <1>3, <1>4, OwnSolo, RowsInHand
<1> QED
  BY <1>1, <1>5, NothingRun, SoloKept

LEMMA MarkRunningSolo ==
    ASSUME TypeInv, SoloInv, OneSession, NEW s \in Sessions, MarkRunning(s)
    PROVE  SoloInv' /\ Stays
<1> DEFINE me == [sess[s] EXCEPT !.pc = "plan",
                     !.findings = sess[s].snap[sess[s].run].findings,
                     !.proposals = sess[s].snap[sess[s].run].proposals]
<1>1. /\ UNCHANGED <<step, execs, hookCalls>> /\ Set(s, me) /\ sess[s].pc = "mark"
      /\ sess[s] \in Session
  BY OwnRun, Zenon DEF MarkRunning, history
<1>2. sess'[s] = me
  <2> HIDE DEF me
  <2> QED  BY <1>1, SetValue
<1>3. /\ me.pc = "plan" /\ me.work = sess[s].work /\ me.run = sess[s].run
      /\ me.cache = sess[s].cache
  BY <1>1 DEF Session
<1>4. Matches(me.cache, step'[me.run])
  <2>1. Matches(sess[s].cache, step[sess[s].run])
    BY <1>1, OwnSolo DEF SoloSession, Loaded
  <2> HIDE DEF me
  <2> QED  BY <1>1, <1>3, <2>1 DEF Matches
<1>5. SoloSession(sess[s])'
  <2> HIDE DEF me
  <2> QED  BY <1>1, <1>2, <1>3, <1>4, OwnSolo, RowsInHand
<1> QED
  BY <1>1, <1>5, NothingRun, SoloKept

LEMMA RecoverRunSolo ==
    ASSUME TypeInv, SoloInv, OneSession, NEW s \in Sessions, RecoverRun(s)
    PROVE  SoloInv' /\ Stays
<1> DEFINE me == sess[s]
           r == me.run
           lost == {i \in Steps : Expired(step[r][i])}
           held == IF me.resumed THEN me.cache ELSE step[r]
           pending == [i \in Steps |-> IF i \in lost THEN Recovered(held[i]) ELSE held[i]]
           rows == [i \in Steps |->
                      IF i \notin lost THEN step[r][i]
                      ELSE [step[r][i] EXCEPT
                              !.status = Flush(@, held[i].status, "pending"),
                              !.owner = Flush(@, held[i].owner, Nobody),
                              !.lease = Flush(@, held[i].lease, "none"),
                              !.out = held[i].out]]
           new == [me EXCEPT !.pc = "load", !.cache = IF me.resumed THEN pending ELSE @]
<1>1. /\ me \in Session /\ r \in Runs /\ step[r] \in [Steps -> StepRow]
      /\ me.cache \in [Steps -> StepRow] /\ me.pc = "recover"
  BY OwnRun DEF RecoverRun
<1>2. UNCHANGED <<execs, hookCalls>> /\ Set(s, new) /\ step' = [step EXCEPT ![r] = rows]
  BY Zenon DEF RecoverRun, history
<1>3. sess'[s] = new
  <2> HIDE DEF new
  <2> QED  BY <1>2, SetValue
<1>4. Matches(held, step[r]) /\ held \in [Steps -> StepRow]
  BY <1>1, OwnSolo DEF SoloSession, Loaded, Matches
<1>5. \A i \in Steps : /\ rows[i].attempts = step[r][i].attempts
                       /\ rows[i].out = step[r][i].out
                       /\ rows[i].status = IF i \in lost THEN "pending" ELSE step[r][i].status
  <2> SUFFICES ASSUME NEW i \in Steps
               PROVE  /\ rows[i].attempts = step[r][i].attempts
                      /\ rows[i].out = step[r][i].out
                      /\ rows[i].status = IF i \in lost THEN "pending" ELSE step[r][i].status
    OBVIOUS
  <2>1. /\ held[i].status = step[r][i].status /\ held[i].out = step[r][i].out
        /\ held[i] \in StepRow /\ step[r][i] \in StepRow
    BY <1>1, <1>4 DEF Matches
  <2> HIDE DEF held, lost
  <2> QED  BY <2>1 DEF StepRow, Flush
<1>6. \A i \in lost : step[r][i].status = "running"
  BY DEF Expired
<1>7. Prefix(rows)
  <2>1. Prefix(step[r])
    BY <1>1 DEF SoloInv, InOrder
  <2> HIDE DEF rows, lost
  <2> QED  BY <1>5, <1>6, <2>1 DEF Prefix
<1>8. Stays /\ AttemptsCoverExecutions' /\ InOrder' /\ step'[r] = rows
  <2>1. UNCHANGED execs
    BY <1>2
  <2>2. \A i \in Steps : rows[i].attempts \in {step[r][i].attempts, step[r][i].attempts + 1}
    <3> HIDE DEF rows, lost
    <3> QED  BY <1>5
  <2>3. \A i \in Steps : step[r][i].status = "succeeded" =>
                            rows[i].status = "succeeded" /\ rows[i].out = step[r][i].out
    <3> HIDE DEF rows, lost
    <3> QED  BY <1>5, <1>6
  <2> HIDE DEF rows, r, new
  <2> QED  BY <1>1, <1>2, <1>7, <2>1, <2>2, <2>3, RowsRewritten, Zenon
<1>9. SoloSession(sess[s])'
  <2>1. new.pc = "load" /\ new.work = me.work /\ new.run = r /\ new.resumed = me.resumed
    BY <1>1 DEF Session
  <2>2. me.resumed => new.cache = pending
    BY <1>1 DEF Session
  <2>3. CASE me.resumed
    <3>1. Matches(pending, rows)
      <4> SUFFICES ASSUME NEW i \in Steps
                   PROVE  /\ pending[i].status = rows[i].status
                          /\ pending[i].attempts = rows[i].attempts
                          /\ pending[i].out = rows[i].out
        BY DEF Matches
      <4>1. /\ held[i].status = step[r][i].status /\ held[i].out = step[r][i].out
            /\ held[i].attempts = step[r][i].attempts /\ held[i] \in StepRow
        BY <1>4 DEF Matches
      <4> HIDE DEF held, lost, rows
      <4> QED  BY <1>5, <4>1 DEF Recovered, StepRow
    <3> HIDE DEF new, pending, rows
    <3> QED  BY <1>1, <1>3, <1>8, <2>1, <2>2, <2>3, <3>1, OwnSolo, RowsInHand
  <2>4. CASE ~me.resumed
    <3> HIDE DEF new
    <3> QED  BY <1>1, <1>3, <2>1, <2>4, OwnSolo, HandsEmpty
  <2> QED  BY <2>3, <2>4
<1> QED
  BY <1>2, <1>8, <1>9, SoloKept

LEMMA LeaseReadySolo ==
    ASSUME TypeInv, SoloInv, OneSession, NEW s \in Sessions, LeaseReady(s)
    PROVE  SoloInv' /\ Stays
<1> DEFINE me == sess[s]
           r == me.run
           ready == Ready(me.cache)
           leased == [i \in Steps |-> Leased(me.cache[i], s)]
           rows == [i \in Steps |->
                      IF i \in ready THEN [leased[i] EXCEPT !.out = step[r][i].out]
                      ELSE step[r][i]]
           cache == [i \in Steps |-> IF i \in ready THEN leased[i] ELSE me.cache[i]]
           work == [i \in Steps |-> IF i \in ready THEN [NoWork EXCEPT !.stage = "leased"]
                                     ELSE NoWork]
           new == [me EXCEPT !.pc = "exec", !.cache = cache, !.work = work]
<1>1. /\ me \in Session /\ r \in Runs /\ step[r] \in [Steps -> StepRow]
      /\ me.cache \in [Steps -> StepRow] /\ me.pc = "plan"
  BY OwnRun DEF LeaseReady
<1>2. UNCHANGED <<execs, hookCalls>> /\ Set(s, new) /\ step' = [step EXCEPT ![r] = rows]
  BY Zenon DEF LeaseReady, history
<1>3. sess'[s] = new
  <2> HIDE DEF new
  <2> QED  BY <1>2, SetValue
<1>4. Matches(me.cache, step[r]) /\ Prefix(step[r])
  BY <1>1, OwnSolo DEF SoloSession, Loaded, SoloInv, InOrder
<1>5. \A i \in ready : step[r][i].status = "pending"
                       /\ (i > 1 => step[r][i - 1].status = "succeeded")
  <2> SUFFICES ASSUME NEW i \in ready
               PROVE  step[r][i].status = "pending"
                      /\ (i > 1 => step[r][i - 1].status = "succeeded")
    OBVIOUS
  <2>1. i \in Steps /\ (i > 1 => i - 1 \in Steps)
    BY RuntimeAssumption DEF Ready, Steps
  <2> QED  BY <1>4, <2>1 DEF Ready, Matches
<1>6. \A i \in Steps :
         /\ i \in ready => /\ rows[i].status = "running" /\ rows[i].out = step[r][i].out
                           /\ rows[i].attempts = step[r][i].attempts + 1
                           /\ leased[i].status = "running" /\ leased[i].out = step[r][i].out
                           /\ leased[i].attempts = step[r][i].attempts + 1
         /\ i \notin ready => rows[i] = step[r][i]
  <2> SUFFICES ASSUME NEW i \in Steps
               PROVE  /\ i \in ready =>
                           /\ rows[i].status = "running" /\ rows[i].out = step[r][i].out
                           /\ rows[i].attempts = step[r][i].attempts + 1
                           /\ leased[i].status = "running" /\ leased[i].out = step[r][i].out
                           /\ leased[i].attempts = step[r][i].attempts + 1
                      /\ i \notin ready => rows[i] = step[r][i]
    OBVIOUS
  <2>1. /\ me.cache[i] \in StepRow /\ me.cache[i].out = step[r][i].out
        /\ me.cache[i].attempts = step[r][i].attempts
    BY <1>1, <1>4 DEF Matches
  <2>2. /\ leased[i].status = "running" /\ leased[i].out = step[r][i].out
        /\ leased[i].attempts = step[r][i].attempts + 1 /\ leased[i] \in StepRow
    BY <2>1, RowsTyped DEF Leased, StepRow
  <2> HIDE DEF leased, ready
  <2> QED  BY <2>2 DEF StepRow
<1>7. Prefix(rows)
  <2> SUFFICES ASSUME NEW i \in Steps, NEW j \in Steps, i < j,
                      rows[j].status \notin {"pending", "blocked"}
               PROVE  rows[i].status = "succeeded"
    BY DEF Prefix
  <2>1. step[r][i].status = "succeeded"
    <3>1. CASE j \notin ready
      BY <1>4, <1>6, <3>1 DEF Prefix
    <3>2. CASE j \in ready
      <4>1. j - 1 \in Steps /\ (i = j - 1 \/ i < j - 1) /\ j > 1
        BY RuntimeAssumption DEF Steps
      <4>2. step[r][j - 1].status = "succeeded"
        BY <1>5, <3>2, <4>1
      <4> HIDE DEF ready
      <4> QED  BY <1>4, <4>1, <4>2 DEF Prefix
    <3> QED  BY <3>1, <3>2
  <2>2. i \notin ready
    BY <1>5, <2>1
  <2> QED  BY <1>6, <2>1, <2>2
<1>8. Stays /\ AttemptsCoverExecutions' /\ InOrder' /\ step'[r] = rows
  <2>1. UNCHANGED execs
    BY <1>2
  <2>2. \A i \in Steps : rows[i].attempts \in {step[r][i].attempts, step[r][i].attempts + 1}
    <3> HIDE DEF rows, ready
    <3> QED  BY <1>6
  <2>3. \A i \in Steps : step[r][i].status = "succeeded" =>
                            rows[i].status = "succeeded" /\ rows[i].out = step[r][i].out
    <3> HIDE DEF rows, ready
    <3> QED  BY <1>5, <1>6
  <2> HIDE DEF rows, r
  <2> QED  BY <1>1, <1>2, <1>7, <2>1, <2>2, <2>3, RowsRewritten, Zenon
<1>9. SoloSession(sess[s])'
  <2>1. new.pc = "exec" /\ new.run = r /\ new.cache = cache /\ new.work = work
    BY <1>1 DEF Session
  <2>2. Matches(cache, rows)
    <3> SUFFICES ASSUME NEW i \in Steps
                 PROVE  /\ cache[i].status = rows[i].status
                        /\ cache[i].attempts = rows[i].attempts
                        /\ cache[i].out = rows[i].out
      BY DEF Matches
    <3>1. cache[i] = IF i \in ready THEN leased[i] ELSE me.cache[i]
      OBVIOUS
    <3> HIDE DEF cache, rows, ready, leased
    <3> QED  BY <1>4, <1>6, <3>1 DEF Matches
  <2>3. \A i \in Steps : /\ i \in ready => work[i].stage = "leased"
                         /\ i \notin ready => work[i].stage = "none"
    <3> HIDE DEF ready
    <3> QED  BY DEF NoWork
  <2>4. \A i \in Steps : execs[r][i] <= step[r][i].attempts /\ execs[r][i] \in Nat
                         /\ step[r][i].attempts \in Nat
    BY <1>1 DEF SoloInv, AttemptsCoverExecutions, TypeInv, TypeOK, StepRow
  <2>5. \A i \in Steps : work[i].stage # "none" =>
           /\ work[i].stage = "leased" /\ rows[i].status = "running"
           /\ execs[r][i] < rows[i].attempts
    <3> HIDE DEF work, rows, ready, leased
    <3> QED  BY <1>6, <2>3, <2>4
  <2> HIDE DEF new, cache, work, rows
  <2> QED
    BY <1>2, <1>3, <1>8, <2>1, <2>2, <2>5 DEF SoloSession, Underway
<1> QED
  BY <1>2, <1>8, <1>9, SoloKept

-----------------------------------------------------------------------------
(* Executing steps *)

\* The session moves the work on one step along, which may start it.
LEMMA WorkMoved ==
    ASSUME TypeInv, SoloInv, OneSession, NEW s \in Sessions, sess[s].pc = "exec",
           NEW i \in Steps, sess[s].work[i].stage # "none",
           NEW work \in Work, Set(s, [sess[s] EXCEPT !.work[i] = work]),
           UNCHANGED step,
           \/ UNCHANGED execs /\ work.stage \notin {"leased"}
              /\ (work.stage = "inserting" => sess[s].work[i].stage = "leased")
           \/ /\ Started(s, i) /\ sess[s].work[i].stage \in {"leased", "inserting"}
              /\ work.stage \notin {"leased", "inserting"},
           work.stage = "sent" => LatestOut(sess[s].cache, "change.propose") # 0
    PROVE  SoloSession(sess[s])' /\ Stays /\ AttemptsCoverExecutions' /\ InOrder'
<1> DEFINE me == sess[s]
           r == me.run
           new == [me EXCEPT !.work[i] = work]
<1>1. /\ me \in Session /\ r \in Runs /\ me.work \in [Steps -> Work]
      /\ execs \in [Runs -> [Steps -> Nat]] /\ step \in [Runs -> [Steps -> StepRow]]
  BY OwnRun DEF TypeInv, TypeOK
<1>2. sess'[s] = new
  <2> HIDE DEF new
  <2> QED  BY SetValue DEF new
<1>3. /\ new.pc = me.pc /\ new.run = r /\ new.cache = me.cache /\ new.resumed = me.resumed
      /\ new.work[i] = work /\ \A j \in Steps : j # i => new.work[j] = me.work[j]
  BY <1>1 DEF Session
<1>4. /\ SoloSession(me) /\ Matches(me.cache, step[r]) /\ step[r][i].status = "running"
      /\ sess[s].work[i].stage \in {"leased", "inserting"} => execs[r][i] < step[r][i].attempts
  BY <1>1, OwnSolo DEF SoloSession, Loaded, Underway
<1>5. /\ \A q \in Runs : \A j \in Steps : q # r \/ j # i => execs'[q][j] = execs[q][j]
      /\ \/ execs'[r][i] = execs[r][i]
         \/ /\ execs'[r][i] = execs[r][i] + 1
            /\ sess[s].work[i].stage \in {"leased", "inserting"}
  BY <1>1 DEF Started
<1>6. Stays
  BY <1>4, <1>5 DEF Stays
<1>7. AttemptsCoverExecutions'
  <2> SUFFICES ASSUME NEW q \in Runs, NEW j \in Steps
               PROVE  execs'[q][j] <= step'[q][j].attempts
    BY DEF AttemptsCoverExecutions
  <2>1. execs[q][j] <= step[q][j].attempts
    BY DEF SoloInv, AttemptsCoverExecutions
  <2>2. execs[q][j] \in Nat /\ step[q][j].attempts \in Nat
    BY <1>1 DEF StepRow
  <2> QED  BY <1>4, <1>5, <2>1, <2>2
<1>8. InOrder'
  BY DEF SoloInv, InOrder, Prefix
<1>9. SoloSession(sess[s])'
  <2>1. \A j \in Steps : Underway(sess[s], j)'
    <3> SUFFICES ASSUME NEW j \in Steps PROVE Underway(sess[s], j)'
      OBVIOUS
    <3>1. Underway(me, j)
      BY <1>4 DEF SoloSession
    <3>2. CASE j # i
      <4> HIDE DEF new
      <4> QED  BY <1>1, <1>2, <1>3, <1>5, <3>1, <3>2 DEF Underway
    <3>3. CASE j = i
      <4>1. work.stage \in {"leased", "inserting"} =>
               UNCHANGED execs /\ sess[s].work[i].stage \in {"leased", "inserting"}
        OBVIOUS
      <4> HIDE DEF new
      <4> QED  BY <1>2, <1>3, <1>4, <3>3, <4>1 DEF Underway
    <3> QED  BY <3>2, <3>3
  <2>2. Matches(sess'[s].cache, step'[sess'[s].run]) /\ sess'[s].pc = "exec"
    <3> HIDE DEF new
    <3> QED  BY <1>2, <1>3, <1>4 DEF Matches
  <2> QED  BY <2>1, <2>2 DEF SoloSession
<1> QED
  BY <1>6, <1>7, <1>8, <1>9

\* A step that started and has its result.
LEMMA StartedDone ==
    ASSUME TypeInv, SoloInv, OneSession, NEW s \in Sessions, NEW i \in Steps,
           Working(s, i, "leased") \/ Working(s, i, "inserting"),
           NEW status \in Outcome, NEW out \in Nat, Finished(s, i, status, out),
           Started(s, i), UNCHANGED step, UNCHANGED hookCalls
    PROVE  SoloInv' /\ Stays
<1> DEFINE work == [stage |-> "done", status |-> status, out |-> out]
<1>1. work \in Work /\ work.stage = "done"
  BY DEF Work
<1>2. /\ sess[s].pc = "exec" /\ sess[s].work[i].stage \in {"leased", "inserting"}
      /\ Set(s, [sess[s] EXCEPT !.work[i] = work])
  BY DEF Working, Finished
<1>3. SoloSession(sess[s])' /\ Stays /\ AttemptsCoverExecutions' /\ InOrder'
  <2> HIDE DEF work
  <2> QED  BY <1>1, <1>2, WorkMoved
<1> QED
  BY <1>3, SoloKept

LEMMA ExecuteStepSolo ==
    ASSUME TypeInv, SoloInv, OneSession, NEW s \in Sessions, NEW i \in Steps, ExecuteStep(s, i)
    PROVE  SoloInv' /\ Stays
<1> DEFINE me == sess[s]
           out == CASE Kind[i] = "finding.emit" -> LatestOut(me.cache, "agent")
                    [] Kind[i] = "change.propose" ->
                         IF LatestOut(me.cache, "finding.emit") = 0 THEN 0 ELSE FreshId(s, i)
                    [] OTHER -> 0
<1>1. /\ Working(s, i, "leased") /\ Started(s, i) /\ UNCHANGED step /\ UNCHANGED hookCalls
      /\ me.pc = "exec" /\ me.cache \in [Steps -> StepRow]
  BY OwnRun DEF ExecuteStep, Working, rowVars
<1>2. PICK status \in Outcomes(Kind[i], me.snap[me.run].manual) : Finished(s, i, status, out)
  BY DEF ExecuteStep
<1>3. status \in Outcome
  BY <1>2 DEF Outcomes, Outcome
<1>4. out \in Nat
  <2>1. FreshId(s, i) \in Nat
    BY <1>1, StartedTyped
  <2> QED  BY <1>1, <2>1, LatestOutTyped
<1> HIDE DEF out
<1> QED
  BY <1>1, <1>2, <1>3, <1>4, StartedDone

LEMMA AgentReportsSolo ==
    ASSUME TypeInv, SoloInv, OneSession, NEW s \in Sessions, NEW i \in Steps,
           Working(s, i, "leased") \/ Working(s, i, "inserting"), AgentReports(s, i)
    PROVE  SoloInv' /\ Stays
<1>1. Started(s, i) /\ UNCHANGED step /\ UNCHANGED hookCalls /\ sess[s].pc = "exec"
  BY DEF AgentReports, Working
<1>2. PICK status \in Outcome, out \in Nat : Finished(s, i, status, out)
  <2>1. FreshId(s, i) \in Nat
    BY <1>1, StartedTyped
  <2> QED  BY <2>1 DEF AgentReports, Outcome
<1> QED
  BY <1>1, <1>2, StartedDone

\* The session moves to a stage of its own without starting the step.
LEMMA AgentMissingSolo ==
    ASSUME TypeInv, SoloInv, OneSession, NEW s \in Sessions, NEW i \in Steps, AgentMissing(s, i)
    PROVE  SoloInv' /\ Stays
<1> DEFINE work == [sess[s].work[i] EXCEPT !.stage = "inserting"]
<1>1. /\ sess[s].pc = "exec" /\ sess[s].work[i].stage = "leased" /\ sess[s].work[i] \in Work
      /\ sess[s] \in Session
      /\ UNCHANGED step /\ UNCHANGED hookCalls /\ UNCHANGED execs
      /\ Set(s, [sess[s] EXCEPT !.work[i].stage = "inserting"])
  BY OwnRun DEF AgentMissing, Working, rowVars, history
<1>2. work \in Work /\ work.stage = "inserting"
  BY <1>1 DEF Work
<1>3. Set(s, [sess[s] EXCEPT !.work[i] = work])
  BY <1>1
<1>4. SoloSession(sess[s])' /\ Stays /\ AttemptsCoverExecutions' /\ InOrder'
  <2> HIDE DEF work
  <2> QED  BY <1>1, <1>2, <1>3, WorkMoved
<1> QED
  BY <1>1, <1>4, SoloKept

\* The proposal whose key a hook uses is one that a succeeded step made.
LEMMA LatestMade ==
    ASSUME NEW cache \in [Steps -> StepRow], NEW kind, LatestOut(cache, kind) # 0
    PROVE  \E p \in Steps : /\ Kind[p] = kind /\ cache[p].status = "succeeded"
                            /\ cache[p].out = LatestOut(cache, kind)
<1> DEFINE made == {i \in Steps : Kind[i] = kind /\ cache[i].status = "succeeded"}
<1>1. made # {} /\ LatestOut(cache, kind) = cache[Last(made)].out
  BY DEF LatestOut
<1>2. Last(made) \in made
  <2>1. made \subseteq Steps
    OBVIOUS
  <2> HIDE DEF made
  <2> QED  BY <1>1, <2>1, LastIn
<1> QED
  BY <1>1, <1>2

LEMMA HookSendSolo ==
    ASSUME TypeInv, SoloInv, OneSession, NEW s \in Sessions, NEW i \in Steps, HookSend(s, i)
    PROVE  SoloInv' /\ Stays
<1> DEFINE key == LatestOut(sess[s].cache, "change.propose")
<1>1. /\ Working(s, i, "leased") /\ Started(s, i) /\ UNCHANGED step /\ UNCHANGED hookCalls
      /\ sess[s].pc = "exec" /\ sess[s].work[i].stage = "leased"
      /\ sess[s] \in Session /\ sess[s].work[i] \in Work
  BY OwnRun DEF HookSend, Working, rowVars
<1>2. CASE Finished(s, i, "succeeded", 0)
  <2>1. "succeeded" \in Outcome /\ 0 \in Nat
    BY DEF Outcome
  <2> QED  BY <1>1, <1>2, <2>1, StartedDone
<1>3. CASE key # 0 /\ Set(s, [sess[s] EXCEPT !.work[i].stage = "sent"])
  <2> DEFINE work == [sess[s].work[i] EXCEPT !.stage = "sent"]
  <2>1. work \in Work /\ work.stage = "sent"
    BY <1>1 DEF Work
  <2>2. Set(s, [sess[s] EXCEPT !.work[i] = work])
    BY <1>1, <1>3
  <2>3. SoloSession(sess[s])' /\ Stays /\ AttemptsCoverExecutions' /\ InOrder'
    <3> HIDE DEF work
    <3> QED  BY <1>1, <1>3, <2>1, <2>2, WorkMoved
  <2> QED  BY <1>1, <2>3, SoloKept
<1>4. \/ Finished(s, i, "succeeded", 0)
      \/ key # 0 /\ Set(s, [sess[s] EXCEPT !.work[i].stage = "sent"])
  BY Zenon DEF HookSend
<1> QED
  BY <1>2, <1>3, <1>4

\* While a run has a succeeded call, the only session finds that call again.
LEMMA HookSendRepeats ==
    ASSUME TypeInv, SoloInv, OneProposal, NEW s \in Sessions, NEW i \in Steps, HookSend(s, i)
    PROVE  NoNewWrite
<1> DEFINE r == sess[s].run
           key == LatestOut(sess[s].cache, "change.propose")
<1>1. /\ sess[s].pc = "exec" /\ r \in Runs /\ sess[s].cache \in [Steps -> StepRow]
      /\ Matches(sess[s].cache, step[r])
  <2>1. sess[s].pc = "exec"
    BY DEF HookSend, Working
  <2> QED  BY <2>1, OwnRun, OwnSolo DEF SoloSession, Loaded
<1>2. CASE UNCHANGED sends
  BY <1>2 DEF NoNewWrite
<1>3. CASE key # 0 /\ key \notin hookCalls[r] /\ sends' = [sends EXCEPT ![r] = @ + 1]
  <2>1. PICK p \in Steps : Kind[p] = "change.propose" /\ sess[s].cache[p].out = key
    BY <1>1, <1>3, LatestMade
  <2>2. step[r][p].out = key
    BY <1>1, <2>1 DEF Matches
  <2>3. hookCalls[r] = {}
    <3> SUFFICES ASSUME NEW k \in hookCalls[r] PROVE FALSE
      OBVIOUS
    <3>1. PICK q \in Steps : Kind[q] = "change.propose" /\ step[r][q].out = k
      BY <1>1 DEF SoloInv, CallsBacked
    <3>2. q = p
      BY <2>1, <3>1 DEF OneProposal
    <3> QED  BY <1>3, <2>2, <3>1, <3>2
  <2>4. \A q \in Runs : q # r => sends'[q] = sends[q]
    BY <1>3 DEF TypeInv, TypeOK
  <2> QED  BY <2>3, <2>4 DEF NoNewWrite
<1>4. \/ UNCHANGED sends
      \/ key # 0 /\ key \notin hookCalls[r] /\ sends' = [sends EXCEPT ![r] = @ + 1]
  BY Zenon DEF HookSend, AlreadySent
<1> QED
  BY <1>2, <1>3, <1>4

LEMMA HookSaveSolo ==
    ASSUME TypeInv, SoloInv, OneSession, NEW s \in Sessions, NEW i \in Steps, HookSave(s, i)
    PROVE  SoloInv' /\ Stays
<1> DEFINE r == sess[s].run
           key == LatestOut(sess[s].cache, "change.propose")
<1>1. /\ sess[s].pc = "exec" /\ sess[s].work[i].stage = "sent" /\ r \in Runs
      /\ sess[s].cache \in [Steps -> StepRow]
      /\ UNCHANGED step /\ UNCHANGED execs
  BY OwnRun DEF HookSave, Working, history
<1>2. PICK status \in Outcome : Finished(s, i, status, 0)
  BY DEF HookSave, Outcome
<1>3. SoloSession(sess[s])' /\ Stays /\ AttemptsCoverExecutions' /\ InOrder'
  <2> DEFINE work == [stage |-> "done", status |-> status, out |-> 0]
  <2>1. work \in Work /\ work.stage = "done"
    BY DEF Work
  <2>2. Set(s, [sess[s] EXCEPT !.work[i] = work])
    BY <1>2 DEF Finished
  <2> HIDE DEF work
  <2> QED  BY <1>1, <2>1, <2>2, WorkMoved
<1>4. hookCalls' \in {hookCalls, [hookCalls EXCEPT ![r] = @ \cup {key}]}
  BY DEF HookSave
<1>5. CallsBacked'
  <2> SUFFICES ASSUME NEW q \in Runs, NEW k \in hookCalls'[q]
               PROVE  \E p \in Steps : /\ Kind[p] = "change.propose"
                                       /\ step[q][p].status = "succeeded" /\ step[q][p].out = k
    BY <1>1 DEF CallsBacked
  <2>1. CASE k \in hookCalls[q]
    BY <2>1 DEF SoloInv, CallsBacked
  <2>2. CASE k \notin hookCalls[q]
    <3>1. q = r /\ k = key
      <4> HIDE DEF key
      <4> QED  BY <1>1, <1>4, <2>2 DEF TypeInv, TypeOK
    <3>2. SoloSession(sess[s]) /\ Matches(sess[s].cache, step[r])
      BY <1>1, OwnSolo DEF SoloSession, Loaded
    <3>3. key # 0
      BY <1>1, <3>2 DEF SoloSession, Underway
    <3>4. PICK p \in Steps : /\ Kind[p] = "change.propose" /\ sess[s].cache[p].out = key
                             /\ sess[s].cache[p].status = "succeeded"
      BY <1>1, <3>3, LatestMade
    <3> QED  BY <3>1, <3>2, <3>4 DEF Matches
  <2> QED  BY <2>1, <2>2
<1>6. \A t \in Sessions : t = s
  BY DEF OneSession
<1> QED
  BY <1>3, <1>5, <1>6 DEF SoloInv

-----------------------------------------------------------------------------
(* Recording, finishing, resuming *)

LEMMA RecordResultsSolo ==
    ASSUME TypeInv, SoloInv, OneSession, NEW s \in Sessions, RecordResults(s)
    PROVE  SoloInv' /\ Stays
<1> DEFINE me == sess[s]
           r == me.run
           todo == {i \in Steps : me.work[i].stage = "done"}
           Result(row, i) == [row EXCEPT !.status = me.work[i].status, !.owner = Nobody,
                                         !.lease = "none", !.out = me.work[i].out]
           rows == [i \in Steps |-> IF i \in todo THEN Result(step[r][i], i) ELSE step[r][i]]
           cache == [i \in Steps |-> IF i \in todo THEN Result(me.cache[i], i) ELSE me.cache[i]]
<1>1. /\ me \in Session /\ r \in Runs /\ step[r] \in [Steps -> StepRow]
      /\ me.cache \in [Steps -> StepRow] /\ me.pc = "exec"
  BY OwnRun DEF RecordResults
<1>2. UNCHANGED execs /\ UNCHANGED hookCalls /\ step' = [step EXCEPT ![r] = rows]
  BY Zenon DEF RecordResults
<1>3. Matches(me.cache, step[r]) /\ Prefix(step[r])
      /\ \A i \in todo : step[r][i].status = "running"
  BY <1>1, OwnSolo DEF SoloSession, Loaded, Underway, SoloInv, InOrder
<1>4. \A i \in Steps : \A row \in StepRow :
         /\ Result(row, i).attempts = row.attempts /\ Result(row, i).out = me.work[i].out
         /\ Result(row, i).status = me.work[i].status
  BY DEF StepRow
<1>5. \A i \in Steps : /\ rows[i] = IF i \in todo THEN Result(step[r][i], i) ELSE step[r][i]
                       /\ cache[i] = IF i \in todo THEN Result(me.cache[i], i) ELSE me.cache[i]
                       /\ step[r][i] \in StepRow /\ me.cache[i] \in StepRow
  BY <1>1
<1>6. /\ \A i \in Steps : rows[i].attempts \in {step[r][i].attempts, step[r][i].attempts + 1}
      /\ \A i \in Steps : i \notin todo => rows[i] = step[r][i]
      /\ Matches(cache, rows)
  <2> HIDE DEF todo, Result, rows, cache
  <2> QED  BY <1>3, <1>4, <1>5 DEF Matches
<1>7. \A i \in Steps : step[r][i].status = "succeeded" =>
                          rows[i].status = "succeeded" /\ rows[i].out = step[r][i].out
  <2> HIDE DEF todo, rows
  <2> QED  BY <1>3, <1>6
<1>8. Prefix(rows)
  <2> SUFFICES ASSUME NEW i \in Steps, NEW j \in Steps, i < j,
                      rows[j].status \notin {"pending", "blocked"}
               PROVE  rows[i].status = "succeeded"
    BY DEF Prefix
  <2>1. step[r][j].status \notin {"pending", "blocked"}
    <3> HIDE DEF rows, todo
    <3> QED  BY <1>3, <1>6
  <2>2. step[r][i].status = "succeeded"
    BY <1>3, <2>1 DEF Prefix
  <2> HIDE DEF rows
  <2> QED  BY <1>7, <2>2
<1>9. Stays /\ AttemptsCoverExecutions' /\ InOrder' /\ step'[r] = rows
  <2> HIDE DEF rows, r
  <2> QED  BY <1>1, <1>2, <1>6, <1>7, <1>8, RowsRewritten, Zenon
<1>10. SoloSession(sess[s])'
  <2>1. PICK new : Set(s, new) /\ new = [me EXCEPT !.pc = "plan", !.cache = cache,
                !.work = [i \in Steps |-> NoWork],
                !.findings = @ \cup {me.work[i].out : i \in Made(me.work, "finding.emit")},
                !.proposals = @ \cup
                    {[id |-> me.work[i].out,
                      finding |-> LatestOut(me.cache, "finding.emit")] :
                        i \in Made(me.work, "change.propose")},
                !.verdict = Verdict(me.work)]
    BY Zenon DEF RecordResults
  <2>2. sess'[s] = new
    BY <2>1, SetValue
  <2>3. /\ new.pc = "plan" /\ new.run = r /\ new.cache = cache
        /\ new.work = [i \in Steps |-> NoWork]
    <3> HIDE DEF cache
    <3> QED  BY <1>1, <2>1 DEF Session
  <2>4. \A i \in Steps : new.work[i].stage = "none"
    <3>1. \A i \in Steps : new.work[i] = NoWork
      <4> HIDE DEF cache
      <4> QED  BY <2>3
    <3> QED  BY <3>1 DEF NoWork
  <2> HIDE DEF rows, cache
  <2> QED  BY <1>6, <1>9, <2>2, <2>3, <2>4, RowsInHand
<1> QED
  BY <1>2, <1>9, <1>10, SoloKept

LEMMA FinalizeSolo ==
    ASSUME TypeInv, SoloInv, OneSession, NEW s \in Sessions, Finalize(s)
    PROVE  SoloInv' /\ Stays
<1> DEFINE me == sess[s]
           r == me.run
           final == FinalStatus(me)
           rows == [i \in Steps |->
                      IF final = "failed" /\ me.cache[i].status = "pending"
                      THEN [step[r][i] EXCEPT !.status = "blocked"] ELSE step[r][i]]
           new == [me EXCEPT !.pc = "refresh"]
<1>1. /\ me \in Session /\ r \in Runs /\ step[r] \in [Steps -> StepRow] /\ me.pc = "plan"
  BY OwnRun DEF Finalize
<1>2. UNCHANGED execs /\ UNCHANGED hookCalls /\ step' = [step EXCEPT ![r] = rows] /\ Set(s, new)
  BY Zenon DEF Finalize, history
<1>3. Matches(me.cache, step[r]) /\ Prefix(step[r])
  BY <1>1, OwnSolo DEF SoloSession, Loaded, SoloInv, InOrder
<1>4. \A i \in Steps : /\ rows[i].attempts = step[r][i].attempts
                       /\ rows[i].out = step[r][i].out
                       /\ \/ rows[i].status = step[r][i].status
                          \/ step[r][i].status = "pending" /\ rows[i].status = "blocked"
  <2> SUFFICES ASSUME NEW i \in Steps
               PROVE  /\ rows[i].attempts = step[r][i].attempts
                      /\ rows[i].out = step[r][i].out
                      /\ \/ rows[i].status = step[r][i].status
                         \/ step[r][i].status = "pending" /\ rows[i].status = "blocked"
    OBVIOUS
  <2>1. step[r][i] \in StepRow /\ me.cache[i].status = step[r][i].status
    BY <1>1, <1>3 DEF Matches
  <2>2. rows[i] = IF final = "failed" /\ me.cache[i].status = "pending"
                  THEN [step[r][i] EXCEPT !.status = "blocked"] ELSE step[r][i]
    <3> HIDE DEF final
    <3> QED  OBVIOUS
  <2> HIDE DEF rows, final
  <2> QED  BY <2>1, <2>2 DEF StepRow
<1>5. Prefix(rows)
  <2> HIDE DEF rows
  <2> QED  BY <1>3, <1>4 DEF Prefix
<1>6. /\ \A i \in Steps : rows[i].attempts \in {step[r][i].attempts, step[r][i].attempts + 1}
      /\ \A i \in Steps : step[r][i].status = "succeeded" =>
                             rows[i].status = "succeeded" /\ rows[i].out = step[r][i].out
  <2> HIDE DEF rows
  <2> QED  BY <1>4
<1>7. Stays /\ AttemptsCoverExecutions' /\ InOrder'
  <2> HIDE DEF rows, r, new
  <2> QED  BY <1>1, <1>2, <1>5, <1>6, RowsRewritten, Zenon
<1>8. SoloSession(sess[s])'
  <2>1. sess'[s] = new
    <3> HIDE DEF new
    <3> QED  BY <1>2, SetValue
  <2>2. new.pc = "refresh" /\ new.work = me.work
    BY <1>1 DEF Session
  <2> HIDE DEF new
  <2> QED  BY <1>1, <2>1, <2>2, OwnSolo, HandsEmpty
<1> QED
  BY <1>2, <1>7, <1>8, SoloKept

\* The gate a decision is about waits in the stored rows, behind succeeded steps.
LEMMA GateWaits ==
    ASSUME TypeInv, SoloInv, NEW s \in Sessions, sess[s].pc = "rdecide",
           Awaiting(sess[s].cache) # {}
    PROVE  /\ First(Awaiting(sess[s].cache)) \in Steps
           /\ step[sess[s].run][First(Awaiting(sess[s].cache))].status = "awaiting_approval"
           /\ Matches(sess[s].cache, step[sess[s].run]) /\ Prefix(step[sess[s].run])
<1>1. sess[s].run \in Runs
  BY OwnRun
<1>2. Matches(sess[s].cache, step[sess[s].run]) /\ Prefix(step[sess[s].run])
  BY <1>1, OwnSolo DEF SoloSession, Loaded, SoloInv, InOrder
<1>3. Awaiting(sess[s].cache) \subseteq Nat
  BY RuntimeAssumption DEF Awaiting, Steps
<1>4. First(Awaiting(sess[s].cache)) \in Awaiting(sess[s].cache)
  BY <1>3, FirstIn
<1> QED
  BY <1>2, <1>4 DEF Awaiting, Matches

LEMMA ApproveSolo ==
    ASSUME TypeInv, SoloInv, OneSession, NEW s \in Sessions, Approve(s)
    PROVE  SoloInv' /\ Stays
<1> DEFINE me == sess[s]
           r == me.run
           gate == First(Awaiting(me.cache))
           Approved(row, i) ==
               [row EXCEPT !.status = IF i = gate THEN "succeeded"
                                      ELSE IF me.cache[i].status = "blocked" THEN "pending"
                                      ELSE @]
           rows == [i \in Steps |-> Approved(step[r][i], i)]
           cache == [i \in Steps |-> Approved(me.cache[i], i)]
           new == [me EXCEPT !.pc = "recover", !.snap[r].status = "running", !.cache = cache]
<1>1. /\ me \in Session /\ r \in Runs /\ step[r] \in [Steps -> StepRow]
      /\ me.cache \in [Steps -> StepRow] /\ me.pc = "rdecide"
  BY OwnRun DEF Approve
<1>2. UNCHANGED execs /\ UNCHANGED hookCalls /\ step' = [step EXCEPT ![r] = rows] /\ Set(s, new)
  BY Zenon DEF Approve
<1>3. /\ gate \in Steps /\ step[r][gate].status = "awaiting_approval"
      /\ Matches(me.cache, step[r]) /\ Prefix(step[r])
  BY GateWaits DEF Approve
<1>4. \A row \in StepRow : \A i \in Steps :
         /\ Approved(row, i).status = IF i = gate THEN "succeeded"
                                      ELSE IF me.cache[i].status = "blocked" THEN "pending"
                                      ELSE row.status
         /\ Approved(row, i).attempts = row.attempts /\ Approved(row, i).out = row.out
  <2> HIDE DEF gate
  <2> QED  BY DEF StepRow
<1>5. \A i \in Steps : /\ rows[i] = Approved(step[r][i], i) /\ step[r][i] \in StepRow
                       /\ cache[i] = Approved(me.cache[i], i) /\ me.cache[i] \in StepRow
  <2> HIDE DEF Approved
  <2> QED  BY <1>1
<1>6. Matches(cache, rows)
  <2> HIDE DEF Approved, rows, cache, gate
  <2> QED  BY <1>3, <1>4, <1>5 DEF Matches
<1>7. /\ \A i \in Steps : rows[i].attempts \in {step[r][i].attempts, step[r][i].attempts + 1}
      /\ \A i \in Steps : step[r][i].status = "succeeded" =>
                             rows[i].status = "succeeded" /\ rows[i].out = step[r][i].out
      /\ \A i \in Steps : \/ rows[i].status = step[r][i].status
                          \/ i = gate /\ rows[i].status = "succeeded"
                          \/ step[r][i].status = "blocked" /\ rows[i].status = "pending"
  <2> HIDE DEF Approved, rows, gate
  <2> QED  BY <1>3, <1>4, <1>5 DEF Matches
<1>8. Prefix(rows)
  <2> HIDE DEF rows, gate
  <2> QED  BY <1>3, <1>7 DEF Prefix
<1>9. Stays /\ AttemptsCoverExecutions' /\ InOrder' /\ step'[r] = rows
  <2> HIDE DEF rows, r, new
  <2> QED  BY <1>1, <1>2, <1>7, <1>8, RowsRewritten, Zenon
<1>10. SoloSession(sess[s])'
  <2>1. sess'[s] = new
    <3> HIDE DEF new
    <3> QED  BY <1>2, SetValue
  <2>2. new.pc = "recover" /\ new.work = me.work /\ new.run = r /\ new.cache = cache
    <3> HIDE DEF cache
    <3> QED  BY <1>1 DEF Session
  <2> HIDE DEF new, cache, rows
  <2> QED  BY <1>1, <1>6, <1>9, <2>1, <2>2, OwnSolo, RowsInHand
<1> QED
  BY <1>2, <1>9, <1>10, SoloKept

LEMMA RejectSolo ==
    ASSUME TypeInv, SoloInv, OneSession, NEW s \in Sessions, Reject(s)
    PROVE  SoloInv' /\ Stays
<1> DEFINE me == sess[s]
           r == me.run
           gate == First(Awaiting(me.cache))
           rows == [step[r] EXCEPT ![gate].status = "cancelled"]
           new == [me EXCEPT !.pc = "publish", !.snap[r].status = "cancelled"]
<1>1. /\ me \in Session /\ r \in Runs /\ step[r] \in [Steps -> StepRow] /\ me.pc = "rdecide"
  BY OwnRun DEF Reject
<1>2. /\ UNCHANGED execs /\ UNCHANGED hookCalls /\ Set(s, new)
      /\ step' = [step EXCEPT ![r][gate].status = "cancelled"]
  BY Zenon DEF Reject, history
<1>3. step' = [step EXCEPT ![r] = rows]
  BY <1>2
<1>4. /\ gate \in Steps /\ step[r][gate].status = "awaiting_approval" /\ Prefix(step[r])
  BY GateWaits DEF Reject
<1>5. /\ rows[gate].attempts = step[r][gate].attempts /\ rows[gate].status = "cancelled"
      /\ \A i \in Steps : i # gate => rows[i] = step[r][i]
  <2>1. step[r][gate] \in StepRow
    BY <1>1, <1>4
  <2> HIDE DEF gate
  <2> QED  BY <1>1, <1>4, <2>1 DEF StepRow
<1>6. Prefix(rows)
  <2> HIDE DEF rows, gate
  <2> QED  BY <1>4, <1>5 DEF Prefix
<1>7. /\ \A i \in Steps : rows[i].attempts \in {step[r][i].attempts, step[r][i].attempts + 1}
      /\ \A i \in Steps : step[r][i].status = "succeeded" =>
                             rows[i].status = "succeeded" /\ rows[i].out = step[r][i].out
  <2> HIDE DEF rows, gate
  <2> QED  BY <1>4, <1>5
<1>8. Stays /\ AttemptsCoverExecutions' /\ InOrder'
  <2> HIDE DEF rows, r, new
  <2> QED  BY <1>1, <1>2, <1>3, <1>6, <1>7, RowsRewritten, Zenon
<1>9. SoloSession(sess[s])'
  <2>1. sess'[s] = new
    <3> HIDE DEF new
    <3> QED  BY <1>2, SetValue
  <2>2. new.pc = "publish" /\ new.work = me.work
    BY <1>1 DEF Session
  <2> HIDE DEF new
  <2> QED  BY <1>1, <2>1, <2>2, OwnSolo, HandsEmpty
<1> QED
  BY <1>2, <1>8, <1>9, SoloKept

\* Time only moves leases, which no session's copy depends on.
LEMMA LeaseTimeSolo ==
    ASSUME TypeInv, SoloInv, NEW r \in Runs, NEW i \in Steps, LeaseLapse(r, i) \/ LeaseOverrun(r, i)
    PROVE  SoloInv' /\ Stays
<1>1. UNCHANGED sess /\ UNCHANGED execs /\ UNCHANGED hookCalls
      /\ step' = [step EXCEPT ![r][i].lease = "expired"]
  BY DEF LeaseLapse, LeaseOverrun, history
<1>2. \A q \in Runs : \A j \in Steps :
         /\ step'[q][j].status = step[q][j].status /\ step'[q][j].out = step[q][j].out
         /\ step'[q][j].attempts = step[q][j].attempts
  BY <1>1 DEF TypeInv, TypeOK, StepRow
<1>3. Stays /\ AttemptsCoverExecutions' /\ InOrder' /\ CallsBacked'
  BY <1>1, <1>2 DEF Stays, SoloInv, AttemptsCoverExecutions, InOrder, Prefix, CallsBacked
<1>4. ASSUME NEW s \in Sessions PROVE SoloSession(sess[s])'
  <2>1. SoloSession(sess[s]) /\ (sess[s].pc \notin {"idle", "select"} => sess[s].run \in Runs)
    BY DEF SoloInv, TypeInv, OnRun
  <2>2. \A j \in Steps : Underway(sess[s], j) => Underway(sess[s], j)'
    BY <1>1, <1>2, <2>1 DEF Underway
  <2>3. Loaded(sess[s]) => sess[s].run \in Runs
    BY <2>1 DEF Loaded
  <2> QED
    BY <1>1, <1>2, <2>1, <2>2, <2>3 DEF SoloSession, Loaded, Matches
<1> QED
  BY <1>3, <1>4 DEF SoloInv

LEMMA RowsUntouched ==
    ASSUME SoloInv, UNCHANGED <<sess, step, execs, hookCalls>>
    PROVE  SoloInv' /\ Stays
BY DEF SoloInv, Stays, AttemptsCoverExecutions, InOrder, Prefix, CallsBacked, SoloSession,
   Loaded, Matches, Underway

-----------------------------------------------------------------------------
(* The theorems *)

LEMMA InitSolo == Init => SoloInv
<1> SUFFICES ASSUME Init PROVE SoloInv
  OBVIOUS
<1>1. AttemptsCoverExecutions /\ CallsBacked /\ InOrder
  BY DEF Init, AttemptsCoverExecutions, CallsBacked, InOrder, Prefix, FreshStep
<1>2. \A s \in Sessions : SoloSession(sess[s])
  BY DEF Init, SoloSession, Loaded, Underway, Idle, NoWork
<1> QED
  BY <1>1, <1>2 DEF SoloInv

LEMMA SoloStep ==
    ASSUME OneSession, TypeInv, SoloInv, [Next]_vars
    PROVE  SoloInv' /\ Stays
<1>1. ASSUME NEW s \in Sessions, Advance(s) PROVE SoloInv' /\ Stays
  <2>1. ASSUME NEW i \in Steps, AgentFound(s, i) \/ AgentInserted(s, i) PROVE SoloInv' /\ Stays
    BY <2>1, AgentReportsSolo DEF AgentFound, AgentInserted
  <2>2. ASSUME NEW i \in Steps, AgentConflict(s, i) PROVE SoloInv' /\ Stays
    BY <2>2, GiveUpSolo DEF AgentConflict, history
  <2>3. ASSUME StepWork(s) PROVE SoloInv' /\ Stays
    BY <2>1, <2>2, <2>3, ExecuteStepSolo, HookSendSolo, HookSaveSolo, AgentMissingSolo
       DEF StepWork
  <2>4. ASSUME ResumeNothing(s) PROVE SoloInv' /\ Stays
    BY <2>4, GiveUpSolo DEF ResumeNothing, history
  <2> QED
    BY <1>1, <2>3, <2>4, LookupSolo, DrainSelectSolo, RecoverRunSolo, LoadStepsSolo,
       MarkRunningSolo, LeaseReadySolo, RecordResultsSolo, FinalizeSolo, RefreshSolo,
       PublishSolo, ResumeLoadSolo, ApproveSolo, RejectSolo DEF Advance
<1>2. ASSUME NEW s \in Sessions, DrainRecover(s) \/ Crash(s) PROVE SoloInv' /\ Stays
  <2>1. CASE Crash(s)
    BY <2>1, GiveUpSolo DEF Crash, history
  <2> QED  BY <1>2, <2>1, DrainRecoverSolo
<1>3. ASSUME NEW s \in Sessions, NEW r \in Runs, StartSync(s, r) \/ ResumeLookup(s, r)
      PROVE  SoloInv' /\ Stays
  BY <1>3, StartSyncSolo, ResumeLookupSolo
<1>4. ASSUME NEW r \in Runs, Enqueue(r) \/ Cancel(r) PROVE SoloInv' /\ Stays
  <2>1. UNCHANGED <<sess, step, execs, hookCalls>>
    BY <1>4 DEF Enqueue, Cancel, history
  <2> QED  BY <2>1, RowsUntouched
<1>5. ASSUME NEW r \in Runs, NEW i \in Steps, LeaseLapse(r, i) \/ LeaseOverrun(r, i)
      PROVE  SoloInv' /\ Stays
  BY <1>5, LeaseTimeSolo
<1>6. CASE UNCHANGED vars
  BY <1>6, RowsUntouched DEF vars, rowVars, history
<1> QED
  BY <1>1, <1>2, <1>3, <1>4, <1>5, <1>6 DEF Next

\* With one session, what it has in memory of a run is what the database says,
\* steps succeed in order and attempts count every execution.
THEOREM SoloTheorem ==
    ASSUME OneSession
    PROVE  Spec => []SoloInv
<1>1. TypeInv /\ SoloInv /\ [Next]_vars => SoloInv'
  BY SoloStep
<1> QED
  BY <1>1, InitSolo, TypeInvariant, PTL DEF Spec

\* Attempt counting (_lease_step): served one at a time, whatever crashes and
\* however often leases expire, every execution of a step was counted as an
\* attempt before it began.
THEOREM AttemptsTheorem ==
    ASSUME OneSession
    PROVE  Spec => []AttemptsCoverExecutions
<1>1. SoloInv => AttemptsCoverExecutions
  BY DEF SoloInv
<1> QED
  BY <1>1, SoloTheorem, PTL

\* Recovery in full: served one at a time, with human gates, resumes, rejections and
\* crashes anywhere, a row that says running always has an owner and a lease, so no
\* step is left for good as running (recover_expired_step_leases skips rows without
\* lease_expires_at).
THEOREM SoloLeasedTheorem ==
    ASSUME OneSession
    PROVE  Spec => []RunningHasLease
<1>1. TypeInv /\ SoloInv /\ RunningHasLease /\ [Next]_vars => RunningHasLease'
  <2> SUFFICES ASSUME TypeInv, SoloInv, RunningHasLease, [Next]_vars PROVE RunningHasLease'
    OBVIOUS
  <2>1. ~ResumesStale
    <3> SUFFICES ASSUME NEW s \in Sessions, sess[s].pc = "recover", sess[s].resumed,
                        NEW i \in Steps, Expired(step[sess[s].run][i])
                 PROVE  sess[s].cache[i].status # "pending"
      BY DEF ResumesStale
    <3>1. Matches(sess[s].cache, step[sess[s].run])
      BY OwnSolo DEF SoloSession, Loaded
    <3> QED  BY <3>1 DEF Matches, Expired
  <2> QED  BY <2>1, LeaseStep
<1> QED
  BY <1>1, SoloTheorem, InitLeased, TypeInvariant, PTL DEF Spec

\* Served one at a time, a step recorded as succeeded is never put back, leased
\* or executed again, by recovery, by a resume or after a crash
\* (recover_expired_step_leases, process_workflow_run).
THEOREM CompletedTheorem ==
    ASSUME OneSession
    PROVE  Spec => CompletedStepStays
<1>1. TypeInv /\ SoloInv /\ [Next]_vars =>
        \A r \in Runs : \A i \in Steps : step[r][i].status = "succeeded" =>
            step'[r][i].status = "succeeded" /\ execs'[r][i] = execs[r][i]
  BY SoloStep DEF Stays
<1> QED
  BY <1>1, SoloTheorem, TypeInvariant, PTL DEF Spec, CompletedStepStays

\* The sends of a run that has a succeeded call are over.
LEMMA NoNewWriteStep ==
    ASSUME OneProposal, TypeInv, SoloInv, [Next]_vars
    PROVE  NoNewWrite
<1>1. ASSUME NEW s \in Sessions, NEW i \in Steps, HookSend(s, i) PROVE NoNewWrite
  BY <1>1, HookSendRepeats
<1>2. ASSUME NEW s \in Sessions, NEW i \in Steps,
             \/ ExecuteStep(s, i) \/ HookSave(s, i) \/ AgentFound(s, i) \/ AgentMissing(s, i)
             \/ AgentInserted(s, i) \/ AgentConflict(s, i)
      PROVE  UNCHANGED sends
  BY <1>2 DEF ExecuteStep, HookSave, AgentFound, AgentMissing, AgentInserted, AgentReports,
     AgentConflict, history
<1>3. ASSUME NEW s \in Sessions, Advance(s), ~StepWork(s) PROVE UNCHANGED sends
  <2>1. CASE Lookup(s) \/ DrainSelect(s) \/ RecoverRun(s) \/ LoadSteps(s) \/ MarkRunning(s)
             \/ LeaseReady(s) \/ Refresh(s) \/ Publish(s)
    BY <2>1, Zenon DEF Lookup, DrainSelect, RecoverRun, LoadSteps, MarkRunning, LeaseReady,
       Refresh, Publish, history
  <2>2. CASE RecordResults(s) \/ Finalize(s) \/ ResumeLoad(s) \/ ResumeNothing(s) \/ Approve(s)
             \/ Reject(s)
    BY <2>2, Zenon DEF RecordResults, Finalize, ResumeLoad, ResumeNothing, Approve, Reject, history
  <2> QED  BY <1>3, <2>1, <2>2 DEF Advance
<1>4. ASSUME NEW s \in Sessions, DrainRecover(s) \/ Crash(s) PROVE UNCHANGED sends
  BY <1>4 DEF DrainRecover, Crash, history
<1>5. ASSUME NEW s \in Sessions, NEW r \in Runs, StartSync(s, r) \/ ResumeLookup(s, r)
      PROVE  UNCHANGED sends
  BY <1>5 DEF StartSync, ResumeLookup, history
<1>6. ASSUME NEW r \in Runs, Enqueue(r) \/ Cancel(r) PROVE UNCHANGED sends
  BY <1>6 DEF Enqueue, Cancel, history
<1>7. ASSUME NEW r \in Runs, NEW i \in Steps, LeaseLapse(r, i) \/ LeaseOverrun(r, i)
      PROVE  UNCHANGED sends
  BY <1>7 DEF LeaseLapse, LeaseOverrun, history
<1>8. UNCHANGED vars => UNCHANGED sends
  BY DEF vars, history
<1>9. UNCHANGED sends => NoNewWrite
  BY DEF NoNewWrite
<1>10. ASSUME NEW s \in Sessions, StepWork(s) PROVE NoNewWrite
  BY <1>1, <1>2, <1>9, <1>10 DEF StepWork
<1>11. ASSUME NEW s \in Sessions, Advance(s) PROVE NoNewWrite
  BY <1>3, <1>9, <1>10, <1>11
<1> QED
  BY <1>4, <1>5, <1>6, <1>7, <1>8, <1>9, <1>11 DEF Next

\* External idempotency (_existing_successful_call): served one at a time, with a
\* template that proposes at most one change, a run whose write is recorded as
\* succeeded never writes outside again, however often hook.out is repeated.
THEOREM RecordedTheorem ==
    ASSUME OneSession, OneProposal
    PROVE  Spec => RecordedCallIsFinal
<1>1. TypeInv /\ SoloInv /\ [Next]_vars =>
        \A r \in Runs : hookCalls[r] # {} => sends'[r] = sends[r]
  BY NoNewWriteStep DEF NoNewWrite
<1> QED
  BY <1>1, SoloTheorem, TypeInvariant, PTL DEF Spec, RecordedCallIsFinal

-----------------------------------------------------------------------------
(* Without crashes: what makes SuccessIsComplete and EmittedIsPersisted hold *)

\* No session is lost in the middle of its work.
NoCrash == MaxCrashes = 0

\* Nothing of the run is under way, or exactly its gate is.
Clean(r) == \A i \in Steps : step[r][i].status \in {"pending", "succeeded"}
Waiting(r) ==
    \E g \in Steps : /\ step[r][g].status = "awaiting_approval"
                     /\ \A i \in Steps \ {g} : step[r][i].status \in {"pending", "succeeded"}

\* What succeeded steps emitted is among these findings and proposals.
Known(r, findings, proposals) ==
    /\ \A i \in Steps : step[r][i].status = "succeeded" /\ step[r][i].out # 0 =>
          /\ Kind[i] = "finding.emit" => step[r][i].out \in findings
          /\ Kind[i] = "change.propose" => \E p \in proposals : p.id = step[r][i].out
    /\ \A p \in proposals : p.finding \in findings

KnownToRun(r) == Known(r, run[r].findings, run[r].proposals)

Executing(me, r) == me.pc \in {"plan", "exec"} /\ me.run = r

\* A run no session executes is at rest between two steps or at its gate.
AtRest(r) ==
    (\A s \in Sessions : ~Executing(sess[s], r)) =>
        /\ run[r].status \in {"absent", "queued", "running"} => Clean(r) /\ KnownToRun(r)
        /\ run[r].status = "awaiting_approval" => Waiting(r) /\ KnownToRun(r)

\* A succeeded run is complete, and all it emitted has a row.
Complete(r) ==
    run[r].status = "succeeded" => \A i \in Steps :
        /\ step[r][i].status = "succeeded"
        /\ step[r][i].out # 0 =>
              /\ Kind[i] = "finding.emit" => step[r][i].out \in persisted[r].findings
              /\ Kind[i] = "change.propose" =>
                    \E p \in persisted[r].proposals : p.id = step[r][i].out

\* The outputs the session read are those of the run.
UpToDate(me, r) == run[r].findings = me.snap[r].findings /\ run[r].proposals = me.snap[r].proposals

Prepared(me, r) == /\ Clean(r) /\ KnownToRun(r) /\ UpToDate(me, r)
                   /\ run[r].status \in {"queued", "running", "cancelled"}

InExecution(me, i) ==
    /\ me.work[i].stage = "none" => step[me.run][i].status \in {"pending", "succeeded"}
    /\ \A j \in Steps : me.work[i].stage # "none" /\ me.work[j].stage # "none" => i = j
    /\ me.work[i].stage = "done" /\ Kind[i] = "change.propose" /\ me.work[i].out # 0
          => LatestOut(me.cache, "finding.emit") # 0
    /\ me.work[i].stage = "inserting" =>
          Kind[i] = "agent" /\ agentAsset[me.run][i] # "committed"

\* The runs a drain still has to process, and the one the session is on.
BatchReady(me) == me.run \notin me.batch /\ \A q \in me.batch : Prepared(me, q)

OwnClean(me) ==
    /\ me.pc \in {"lookup", "recover", "load", "mark", "rload", "rdecide"}
          => me.verdict = "succeeded"
    /\ me.pc \in {"recover", "load", "mark"} => Prepared(me, me.run)
    /\ me.pc \in {"rload", "rdecide"} =>
          /\ Waiting(me.run) /\ KnownToRun(me.run) /\ UpToDate(me, me.run)
          /\ run[me.run].status \in {"awaiting_approval", "cancelled"}
    /\ me.pc \in {"plan", "exec"} =>
          /\ Known(me.run, me.findings, me.proposals) /\ UpToDate(me, me.run)
          /\ run[me.run].status \in {"queued", "running", "cancelled"}
    /\ me.pc = "plan" => /\ me.verdict = "succeeded" => Clean(me.run)
                         /\ me.verdict = "awaiting_approval" => Waiting(me.run)
    /\ me.pc = "exec" => \A i \in Steps : InExecution(me, i)

CleanInv == /\ \A r \in Runs : AtRest(r) /\ Complete(r)
            /\ \A s \in Sessions : BatchReady(sess[s]) /\ OwnClean(sess[s])

\* A run whose row and step rows a step leaves alone.
Untouched(r) == /\ step'[r] = step[r] /\ persisted'[r] = persisted[r]
                /\ run'[r].status = run[r].status /\ run'[r].findings = run[r].findings
                /\ run'[r].proposals = run[r].proposals

LEMMA RestKept ==
    ASSUME NEW r \in Runs, AtRest(r), Complete(r), Untouched(r),
           \A s \in Sessions : Executing(sess[s], r) => Executing(sess'[s], r)
    PROVE  AtRest(r)' /\ Complete(r)'
BY DEF AtRest, Complete, Untouched, Clean, Waiting, KnownToRun, Known, Executing

LEMMA PreparedKept ==
    ASSUME NEW r \in Runs, NEW me, Prepared(me, r), Untouched(r),
           NEW s \in Sessions, sess'[s].snap[r] = me.snap[r]
    PROVE  Prepared(sess[s], r)'
BY DEF Prepared, Untouched, Clean, KnownToRun, Known, UpToDate

LEMMA WaitingKept ==
    ASSUME NEW r \in Runs, Untouched(r), KnownToRun(r)
    PROVE  KnownToRun(r)' /\ (Waiting(r) => Waiting(r)') /\ (Clean(r) => Clean(r)')
BY DEF Untouched, Clean, KnownToRun, Known, Waiting

\* The session goes on with its run and its batch.
LEMMA OwnStep ==
    ASSUME TypeInv, OneSession, CleanInv, NEW s \in Sessions,
           sess[s].pc \notin {"idle", "select"},
           \A q \in Runs : q # sess[s].run => Untouched(q),
           sess'[s].run = sess[s].run, sess'[s].batch = sess[s].batch,
           \A q \in Runs : q # sess[s].run => sess'[s].snap[q] = sess[s].snap[q],
           AtRest(sess[s].run)', Complete(sess[s].run)', OwnClean(sess[s])'
    PROVE  CleanInv'
<1> DEFINE r == sess[s].run
<1>1. r \in Runs /\ sess[s].batch \subseteq Runs /\ \A t \in Sessions : t = s
  BY OwnRun DEF OneSession, Session
<1>2. BatchReady(sess[s])'
  <2>1. BatchReady(sess[s])
    BY DEF CleanInv
  <2>2. ASSUME NEW q \in sess[s].batch PROVE Prepared(sess[s], q)'
    <3>1. q \in Runs /\ q # r /\ Prepared(sess[s], q)
      BY <1>1, <2>1 DEF BatchReady
    <3> QED  BY <3>1, PreparedKept
  <2>3. \A q \in sess'[s].batch : Prepared(sess[s], q)'
    BY <2>2
  <2> QED  BY <2>1, <2>3 DEF BatchReady
<1>3. ASSUME NEW q \in Runs PROVE AtRest(q)' /\ Complete(q)'
  <2>1. CASE q = r
    BY <2>1
  <2>2. CASE q # r
    <3>1. \A t \in Sessions : ~Executing(sess[t], q)
      BY <1>1, <2>2 DEF Executing
    <3> QED  BY <2>2, <3>1, RestKept DEF CleanInv
  <2> QED  BY <2>1, <2>2
<1> QED
  BY <1>1, <1>2, <1>3 DEF CleanInv

\* The session stays or turns elsewhere and no row changes.
LEMMA QuietStep ==
    ASSUME TypeInv, OneSession, CleanInv, NEW s \in Sessions, UNCHANGED <<run, step, persisted>>,
           \A r \in Runs : Executing(sess[s], r) => Executing(sess'[s], r),
           BatchReady(sess[s])', OwnClean(sess[s])'
    PROVE  CleanInv'
<1>1. \A t \in Sessions : t = s
  BY DEF OneSession
<1>2. ASSUME NEW q \in Runs PROVE AtRest(q)' /\ Complete(q)'
  <2>1. Untouched(q) /\ \A t \in Sessions : Executing(sess[t], q) => Executing(sess'[t], q)
    BY <1>1 DEF Untouched
  <2> QED  BY <2>1, RestKept DEF CleanInv
<1> QED
  BY <1>1, <1>2 DEF CleanInv

LEMMA OwnQuiet ==
    ASSUME TypeInv, OneSession, CleanInv, NEW s \in Sessions, UNCHANGED <<run, step, persisted>>,
           sess[s].pc \notin {"idle", "select"},
           sess'[s].run = sess[s].run, sess'[s].batch = sess[s].batch,
           \A q \in Runs : q # sess[s].run => sess'[s].snap[q] = sess[s].snap[q],
           sess[s].pc \in {"plan", "exec"} => sess'[s].pc \in {"plan", "exec"},
           OwnClean(sess[s])'
    PROVE  CleanInv'
<1>1. sess[s].run \in Runs
  BY OwnRun
<1>2. \A t \in Sessions : t = s
  BY DEF OneSession
<1>3. \A q \in Runs : Untouched(q)
  BY DEF Untouched
<1>4. AtRest(sess[s].run)' /\ Complete(sess[s].run)'
  <2>1. ASSUME NEW q \in Runs PROVE AtRest(q)' /\ Complete(q)'
    <3>1. \A t \in Sessions : Executing(sess[t], q) => Executing(sess'[t], q)
      BY <1>2 DEF Executing
    <3> QED  BY <1>3, <3>1, RestKept DEF CleanInv
  <2>2. sess'[s].run \in Runs
    BY <1>1
  <2> QED  BY <1>1, <2>1
<1> QED
  BY <1>3, <1>4, OwnStep

\* A session that ends its request.
LEMMA EndClean ==
    ASSUME TypeInv, OneSession, CleanInv, NEW s \in Sessions, UNCHANGED <<run, step, persisted>>,
           sess[s].pc \notin {"plan", "exec"}, sess'[s].batch = {},
           sess'[s].pc \in {"idle", "select"}
    PROVE  CleanInv'
<1>1. BatchReady(sess[s])' /\ OwnClean(sess[s])'
  BY DEF BatchReady, OwnClean
<1> QED
  BY <1>1, QuietStep DEF Executing

-----------------------------------------------------------------------------
(* Without crashes: one lemma per action *)

\* The next run of a batch is ready because every run of the batch is.
LEMMA NextRunClean ==
    ASSUME NEW s \in Sessions, NEW me, me.batch \subseteq Runs, UNCHANGED <<run, step, persisted>>,
           sess'[s] = NextRun(me), \A q \in me.batch : Prepared(me, q)
    PROVE  BatchReady(sess[s])' /\ OwnClean(sess[s])'
<1>1. CASE me.batch = {}
  <2>1. sess'[s] = Idle
    BY <1>1 DEF NextRun
  <2> QED  BY <2>1 DEF Idle, BatchReady, OwnClean
<1>2. CASE me.batch # {}
  <2> DEFINE r == First(me.batch)
  <2>1. r \in me.batch
    BY <1>2, FirstIn, RuntimeAssumption DEF Runs
  <2>2. /\ sess'[s].pc = "recover" /\ sess'[s].run = r /\ sess'[s].batch = me.batch \ {r}
        /\ \A q \in me.batch : sess'[s].snap[q] = me.snap[q]
        /\ sess'[s].verdict = "succeeded"
    <3> HIDE DEF r
    <3>1. sess'[s] = [Idle EXCEPT !.pc = "recover", !.run = r, !.batch = me.batch \ {r},
                        !.snap = [q \in Runs |-> IF q \in me.batch THEN me.snap[q] ELSE AbsentRun]]
      BY <1>2 DEF NextRun, r
    <3> QED  BY <3>1 DEF Idle
  <2>3. \A q \in me.batch : Prepared(sess[s], q)'
    <3> SUFFICES ASSUME NEW q \in me.batch PROVE Prepared(sess[s], q)'
      OBVIOUS
    <3>1. q \in Runs /\ Untouched(q)
      BY DEF Untouched
    <3> QED  BY <2>2, <3>1, PreparedKept
  <2> HIDE DEF r
  <2> QED  BY <2>1, <2>2, <2>3 DEF BatchReady, OwnClean
<1> QED
  BY <1>1, <1>2

LEMMA DrainSelectClean ==
    ASSUME TypeInv, OneSession, CleanInv, NEW s \in Sessions, DrainSelect(s)
    PROVE  CleanInv'
<1> DEFINE eligible == {r \in Runs : run[r].status \in Active /\ lock[r] = Nobody}
           chosen == {r \in eligible :
                         Cardinality({q \in eligible : q < r}) < BatchLimit}
           me == [Idle EXCEPT !.batch = chosen, !.snap = run]
<1>1. /\ UNCHANGED <<run, step, persisted>> /\ Set(s, NextRun(me)) /\ sess[s].pc = "select"
  BY Zenon DEF DrainSelect, rowVars
<1>2. sess'[s] = NextRun(me)
  <2> HIDE DEF me
  <2> QED  BY <1>1, SetValue
<1>3. me.batch = chosen /\ me.snap = run
  <2> HIDE DEF chosen
  <2> QED  BY DEF Idle
<1>4. chosen \subseteq Runs /\ \A q \in chosen : run[q].status \in Active
  OBVIOUS
<1>5. \A q \in me.batch : Prepared(me, q)
  <2> SUFFICES ASSUME NEW q \in chosen PROVE Prepared(me, q)
    BY <1>3
  <2>1. \A t \in Sessions : ~Executing(sess[t], q)
    BY <1>1 DEF OneSession, Executing
  <2>2. Clean(q) /\ KnownToRun(q) /\ run[q].status \in {"queued", "running"}
    BY <1>4, <2>1 DEF CleanInv, AtRest, Active
  <2> HIDE DEF chosen, me
  <2> QED  BY <1>3, <2>2 DEF Prepared, UpToDate
<1>6. BatchReady(sess[s])' /\ OwnClean(sess[s])'
  <2> HIDE DEF chosen, me
  <2> QED  BY <1>1, <1>2, <1>3, <1>4, <1>5, NextRunClean
<1> QED
  BY <1>1, <1>6, QuietStep DEF Executing

LEMMA PublishClean ==
    ASSUME TypeInv, OneSession, CleanInv, NEW s \in Sessions, Publish(s)
    PROVE  CleanInv'
<1>1. /\ UNCHANGED <<run, step, persisted>> /\ Set(s, NextRun(sess[s])) /\ sess[s].pc = "publish"
  BY DEF Publish, rowVars
<1>2. sess'[s] = NextRun(sess[s])
  BY <1>1, SetValue
<1>3. sess[s].batch \subseteq Runs /\ \A q \in sess[s].batch : Prepared(sess[s], q)
  BY <1>1, OwnRun DEF Session, CleanInv, BatchReady
<1>4. BatchReady(sess[s])' /\ OwnClean(sess[s])'
  BY <1>1, <1>2, <1>3, NextRunClean
<1> QED
  BY <1>1, <1>4, QuietStep DEF Executing

LEMMA LookupClean ==
    ASSUME TypeInv, OneSession, CleanInv, NEW s \in Sessions, Lookup(s)
    PROVE  CleanInv'
<1> DEFINE r == sess[s].run
           me == [sess[s] EXCEPT !.pc = "recover", !.snap[r] = run[r]]
<1>1. /\ UNCHANGED <<run, step, persisted>> /\ sess[s].pc = "lookup" /\ sess[s] \in Session
      /\ r \in Runs /\ OwnClean(sess[s])
  BY OwnRun DEF Lookup, rowVars, CleanInv
<1>2. CASE run[r].status \in Active
  <2>1. sess'[s] = me
    <3>1. Set(s, me)
      BY <1>2 DEF Lookup
    <3> HIDE DEF me
    <3> QED  BY <3>1, SetValue
  <2>2. /\ sess'[s].pc = "recover" /\ sess'[s].run = r /\ sess'[s].batch = sess[s].batch
        /\ sess'[s].snap[r] = run[r] /\ sess'[s].verdict = sess[s].verdict
        /\ \A q \in Runs : q # r => sess'[s].snap[q] = sess[s].snap[q]
    BY <1>1, <2>1 DEF Session
  <2>3. Clean(r) /\ KnownToRun(r) /\ run[r].status \in {"queued", "running"}
    <3>1. \A t \in Sessions : ~Executing(sess[t], r)
      BY <1>1 DEF OneSession, Executing
    <3> QED  BY <1>1, <1>2, <3>1 DEF CleanInv, AtRest, Active
  <2>4. Prepared(sess[s], r)'
    BY <1>1, <2>2, <2>3 DEF Prepared, UpToDate, Clean, KnownToRun, Known
  <2>5. OwnClean(sess[s])'
    BY <1>1, <2>2, <2>4 DEF OwnClean
  <2> QED  BY <1>1, <2>2, <2>5, OwnQuiet
<1>3. CASE run[r].status \notin Active
  <2>1. sess'[s] = Idle
    BY <1>3, SetValue DEF Lookup
  <2>2. sess'[s].batch = {} /\ sess'[s].pc = "idle"
    BY <2>1 DEF Idle
  <2> QED  BY <1>1, <2>2, EndClean
<1> QED
  BY <1>2, <1>3

\* A new run has no rows and no outputs.
LEMMA NewRunClean ==
    ASSUME TypeInv, CleanInv, NEW r \in Runs, NEW status \in {"queued", "running"},
           NewRun(r, status), UNCHANGED <<step, persisted>>,
           \A s \in Sessions : \A q \in Runs :
               Executing(sess[s], q) => Executing(sess'[s], q)
    PROVE  \A q \in Runs : AtRest(q)' /\ Complete(q)'
<1>1. /\ run[r].status = "absent" /\ run'[r].status = status
      /\ run'[r].findings = run[r].findings /\ run'[r].proposals = run[r].proposals
      /\ \A q \in Runs : q # r => run'[q] = run[q]
  BY DEF NewRun, TypeInv, TypeOK, RunRow
<1>2. \A s \in Sessions : ~Executing(sess[s], r)
  BY <1>1 DEF CleanInv, OwnClean, Executing
<1>3. Clean(r) /\ KnownToRun(r)
  BY <1>1, <1>2 DEF CleanInv, AtRest
<1>4. AtRest(r)' /\ Complete(r)'
  <2>1. Clean(r)' /\ KnownToRun(r)'
    BY <1>1, <1>3 DEF Clean, KnownToRun, Known
  <2> QED  BY <1>1, <2>1 DEF AtRest, Complete
<1>5. ASSUME NEW q \in Runs, q # r PROVE AtRest(q)' /\ Complete(q)'
  <2>1. Untouched(q)
    BY <1>1, <1>5 DEF Untouched
  <2> QED  BY <2>1, RestKept DEF CleanInv
<1> QED
  BY <1>4, <1>5

LEMMA EnqueueClean ==
    ASSUME TypeInv, CleanInv, NEW r \in Runs, Enqueue(r)
    PROVE  CleanInv'
<1>1. NewRun(r, "queued") /\ UNCHANGED <<step, persisted>> /\ UNCHANGED <<sess, agentAsset>>
  BY DEF Enqueue
<1>2. \A q \in Runs : AtRest(q)' /\ Complete(q)'
  BY <1>1, NewRunClean
<1>3. run[r].status = "absent" /\ \A q \in Runs : q # r => run'[q] = run[q]
  BY <1>1 DEF NewRun, TypeInv, TypeOK
<1>4. ASSUME NEW s \in Sessions PROVE BatchReady(sess[s])' /\ OwnClean(sess[s])'
  <2>1. /\ BatchReady(sess[s]) /\ OwnClean(sess[s]) /\ sess[s] \in Session
        /\ sess[s].pc \notin {"idle", "select"} => sess[s].run \in Runs
    BY DEF CleanInv, TypeInv, TypeOK, OnRun
  <2>2. ASSUME NEW q \in Runs, q # r
        PROVE  /\ Prepared(sess[s], q) => Prepared(sess[s], q)'
               /\ Waiting(q) => Waiting(q)'
               /\ Clean(q) => Clean(q)'
               /\ KnownToRun(q) => KnownToRun(q)'
               /\ UpToDate(sess[s], q) => UpToDate(sess[s], q)'
               /\ Known(q, sess[s].findings, sess[s].proposals)
                     => Known(q, sess[s].findings, sess[s].proposals)'
    BY <1>1, <1>3, <2>2 DEF Prepared, Waiting, Clean, KnownToRun, Known, UpToDate
  <2>3. BatchReady(sess[s])'
    <3>1. \A q \in sess[s].batch : q \in Runs /\ q # r
      BY <1>3, <2>1 DEF BatchReady, Prepared, Session
    <3> QED  BY <1>1, <2>1, <2>2, <3>1 DEF BatchReady
  <2>4. OwnClean(sess[s])'
    <3>1. CASE sess[s].pc \in {"recover", "load", "mark", "rload", "rdecide", "plan", "exec"}
      <4>1. sess[s].run \in Runs /\ sess[s].run # r
        BY <1>3, <2>1, <3>1 DEF OwnClean, Prepared
      <4>2. \A i \in Steps : InExecution(sess[s], i) => InExecution(sess[s], i)'
        BY <1>1 DEF InExecution
      <4> QED  BY <1>1, <1>3, <2>1, <2>2, <4>1, <4>2 DEF OwnClean
    <3>2. CASE sess[s].pc \notin {"recover", "load", "mark", "rload", "rdecide", "plan", "exec"}
      BY <1>1, <2>1, <3>2 DEF OwnClean
    <3> QED  BY <3>1, <3>2
  <2> QED  BY <2>3, <2>4
<1> QED
  BY <1>2, <1>4 DEF CleanInv

LEMMA StartSyncClean ==
    ASSUME TypeInv, OneSession, CleanInv, NEW s \in Sessions, NEW r \in Runs, StartSync(s, r)
    PROVE  CleanInv'
<1> DEFINE me == [Idle EXCEPT !.pc = "lookup", !.run = r]
<1>1. /\ NewRun(r, "running") /\ UNCHANGED <<step, persisted>> /\ Set(s, me) /\ sess[s] = Idle
  BY DEF StartSync, Request
<1>2. sess'[s] = me
  <2> HIDE DEF me
  <2> QED  BY <1>1, SetValue
<1>3. /\ me.pc = "lookup" /\ me.batch = {} /\ me.verdict = "succeeded" /\ sess[s].pc = "idle"
  BY <1>1 DEF Idle
<1>4. \A t \in Sessions : t = s
  BY DEF OneSession
<1>5. \A q \in Runs : AtRest(q)' /\ Complete(q)'
  BY <1>1, <1>3, <1>4, NewRunClean DEF Executing
<1>6. BatchReady(sess[s])' /\ OwnClean(sess[s])'
  <2> HIDE DEF me
  <2> QED  BY <1>2, <1>3 DEF BatchReady, OwnClean
<1> QED
  BY <1>4, <1>5, <1>6 DEF CleanInv

\* What OwnClean says of a session that prepares its run.
LEMMA RefreshClean ==
    ASSUME TypeInv, OneSession, CleanInv, NEW s \in Sessions, Refresh(s)
    PROVE  CleanInv'
<1> DEFINE r == sess[s].run
           me == [sess[s] EXCEPT !.pc = "publish", !.snap[r] = run[r]]
<1>1. /\ UNCHANGED <<run, step, persisted>> /\ Set(s, me) /\ sess[s].pc = "refresh"
      /\ sess[s] \in Session
  BY OwnRun DEF Refresh, rowVars
<1>2. sess'[s] = me
  <2> HIDE DEF me
  <2> QED  BY <1>1, SetValue
<1>3. /\ me.pc = "publish" /\ me.run = r /\ me.batch = sess[s].batch
      /\ \A q \in Runs : q # r => me.snap[q] = sess[s].snap[q]
  BY <1>1 DEF Session
<1>4. OwnClean(sess[s])'
  <2> HIDE DEF me
  <2> QED  BY <1>2, <1>3 DEF OwnClean
<1> HIDE DEF me
<1> QED
  BY <1>1, <1>2, <1>3, <1>4, OwnQuiet

LEMMA ResumeLookupClean ==
    ASSUME TypeInv, OneSession, CleanInv, NEW s \in Sessions, NEW r \in Runs, ResumeLookup(s, r)
    PROVE  CleanInv'
<1> DEFINE me == [Idle EXCEPT !.pc = "rload", !.run = r, !.snap[r] = run[r]]
<1>1. /\ UNCHANGED <<run, step, persisted>> /\ Set(s, me) /\ sess[s] = Idle
      /\ run[r].status = "awaiting_approval"
  BY DEF ResumeLookup, Request, rowVars
<1>2. sess'[s] = me /\ sess[s].pc = "idle"
  <2>1. sess[s].pc = "idle"
    BY <1>1 DEF Idle
  <2> HIDE DEF me
  <2> QED  BY <1>1, <2>1, SetValue
<1>3. /\ me.pc = "rload" /\ me.run = r /\ me.batch = {} /\ me.snap[r] = run[r]
      /\ me.verdict = "succeeded"
  BY DEF Idle
<1>4. Waiting(r) /\ KnownToRun(r)
  <2>1. \A t \in Sessions : ~Executing(sess[t], r)
    BY <1>2 DEF OneSession, Executing
  <2> QED  BY <1>1, <2>1 DEF CleanInv, AtRest
<1>5. BatchReady(sess[s])' /\ OwnClean(sess[s])'
  <2> HIDE DEF me
  <2> QED
    BY <1>1, <1>2, <1>3, <1>4 DEF BatchReady, OwnClean, Waiting, KnownToRun, Known, UpToDate
<1> QED
  BY <1>1, <1>2, <1>5, QuietStep DEF Executing

LEMMA ResumeLoadClean ==
    ASSUME TypeInv, OneSession, CleanInv, NEW s \in Sessions, ResumeLoad(s)
    PROVE  CleanInv'
<1> DEFINE r == sess[s].run
           me == [sess[s] EXCEPT !.pc = "rdecide", !.cache = step[r], !.resumed = TRUE]
<1>1. /\ UNCHANGED <<run, step, persisted>> /\ Set(s, me) /\ sess[s].pc = "rload"
      /\ sess[s] \in Session /\ OwnClean(sess[s])
  BY OwnRun DEF ResumeLoad, rowVars, CleanInv
<1>2. sess'[s] = me
  <2> HIDE DEF me
  <2> QED  BY <1>1, SetValue
<1>3. /\ me.pc = "rdecide" /\ me.run = r /\ me.batch = sess[s].batch
      /\ me.snap = sess[s].snap /\ me.verdict = sess[s].verdict
  BY <1>1 DEF Session
<1>4. OwnClean(sess[s])'
  <2> HIDE DEF me
  <2> QED
    BY <1>1, <1>2, <1>3 DEF OwnClean, Waiting, KnownToRun, Known, UpToDate
<1> HIDE DEF me
<1> QED
  BY <1>1, <1>2, <1>3, <1>4, OwnQuiet

LEMMA LoadStepsClean ==
    ASSUME TypeInv, OneSession, CleanInv, NEW s \in Sessions, LoadSteps(s)
    PROVE  CleanInv'
<1> DEFINE r == sess[s].run
           me == [sess[s] EXCEPT !.pc = "mark", !.cache = IF sess[s].resumed THEN @ ELSE step[r]]
<1>1. /\ UNCHANGED <<run, step, persisted>> /\ Set(s, me) /\ sess[s].pc = "load"
      /\ sess[s] \in Session /\ OwnClean(sess[s])
  BY OwnRun DEF LoadSteps, rowVars, CleanInv
<1>2. sess'[s] = me
  <2> HIDE DEF me
  <2> QED  BY <1>1, SetValue
<1>3. /\ me.pc = "mark" /\ me.run = r /\ me.batch = sess[s].batch
      /\ me.snap = sess[s].snap /\ me.verdict = sess[s].verdict
  BY <1>1 DEF Session
<1>4. OwnClean(sess[s])'
  <2> HIDE DEF me
  <2> QED
    BY <1>1, <1>2, <1>3 DEF OwnClean, Prepared, Clean, KnownToRun, Known, UpToDate
<1> HIDE DEF me
<1> QED
  BY <1>1, <1>2, <1>3, <1>4, OwnQuiet

\* A drain's recovery finds no lost lease in a run at rest.
LEMMA DrainRecoverClean ==
    ASSUME TypeInv, OneSession, CleanInv, NEW s \in Sessions, DrainRecover(s)
    PROVE  CleanInv'
<1> DEFINE me == [Idle EXCEPT !.pc = "select"]
<1>1. /\ Set(s, me) /\ sess[s] = Idle /\ UNCHANGED <<run, persisted>>
      /\ step' = [r \in Runs |-> [i \in Steps |->
                     IF Expired(step[r][i]) THEN Recovered(step[r][i]) ELSE step[r][i]]]
  BY DEF DrainRecover, Request
<1>2. sess'[s] = me /\ sess[s].pc = "idle"
  <2>1. sess[s].pc = "idle"
    BY <1>1 DEF Idle
  <2> HIDE DEF me
  <2> QED  BY <1>1, <2>1, SetValue
<1>3. BatchReady(sess[s])' /\ OwnClean(sess[s])'
  BY <1>2 DEF BatchReady, OwnClean, Idle
<1>4. \A t \in Sessions : t = s
  BY DEF OneSession
<1>5. ASSUME NEW r \in Runs PROVE AtRest(r)' /\ Complete(r)'
  <2>1. \A i \in Steps : step[r][i].status # "running" => step'[r][i] = step[r][i]
    BY <1>1 DEF Expired
  <2>2. \A t \in Sessions : ~Executing(sess[t], r)
    BY <1>2, <1>4 DEF Executing
  <2>3. /\ run[r].status \in {"absent", "queued", "running"} => Clean(r) /\ KnownToRun(r)
        /\ run[r].status = "awaiting_approval" => Waiting(r) /\ KnownToRun(r)
    BY <2>2 DEF CleanInv, AtRest
  <2>4. Complete(r)'
    BY <1>1, <2>1 DEF CleanInv, Complete
  <2>5. Clean(r) => \A i \in Steps : step'[r][i] = step[r][i]
    BY <2>1 DEF Clean
  <2>6. Waiting(r) => \A i \in Steps : step'[r][i] = step[r][i]
    BY <2>1 DEF Waiting
  <2>7. (\A i \in Steps : step'[r][i] = step[r][i]) =>
           /\ Clean(r) => Clean(r)'
           /\ Waiting(r) => Waiting(r)'
           /\ KnownToRun(r) => KnownToRun(r)'
    BY <1>1 DEF Clean, Waiting, KnownToRun, Known
  <2>8. AtRest(r)'
    BY <1>1, <2>3, <2>5, <2>6, <2>7 DEF AtRest
  <2> QED  BY <2>4, <2>8
<1> QED
  BY <1>3, <1>4, <1>5 DEF CleanInv

LEMMA RecoverRunClean ==
    ASSUME TypeInv, OneSession, CleanInv, NEW s \in Sessions, RecoverRun(s)
    PROVE  CleanInv'
<1> DEFINE me == sess[s]
           r == me.run
           lost == {i \in Steps : Expired(step[r][i])}
           held == IF me.resumed THEN me.cache ELSE step[r]
           pending == [i \in Steps |-> IF i \in lost THEN Recovered(held[i]) ELSE held[i]]
           touched == lost # {} /\ me.snap[r].status = "running"
           rows == [i \in Steps |->
                      IF i \notin lost THEN step[r][i]
                      ELSE [step[r][i] EXCEPT
                              !.status = Flush(@, held[i].status, "pending"),
                              !.owner = Flush(@, held[i].owner, Nobody),
                              !.lease = Flush(@, held[i].lease, "none"),
                              !.out = held[i].out]]
           new == [me EXCEPT !.pc = "load", !.cache = IF me.resumed THEN pending ELSE @]
<1>1. /\ me \in Session /\ r \in Runs /\ step[r] \in [Steps -> StepRow] /\ run[r] \in RunRow
      /\ me.pc = "recover" /\ OwnClean(me)
  BY OwnRun DEF RecoverRun, CleanInv
<1>2. /\ step' = [step EXCEPT ![r] = rows] /\ Set(s, new) /\ UNCHANGED persisted
      /\ run' = [run EXCEPT
                   ![r].findings = IF touched THEN me.snap[r].findings ELSE @,
                   ![r].proposals = IF touched THEN me.snap[r].proposals ELSE @]
  BY Zenon DEF RecoverRun
<1>3. sess'[s] = new
  <2> HIDE DEF new
  <2> QED  BY <1>2, SetValue
<1>4. /\ new.pc = "load" /\ new.run = r /\ new.batch = me.batch /\ new.snap = me.snap
      /\ new.verdict = me.verdict
  <2> HIDE DEF pending
  <2> QED  BY <1>1 DEF Session
<1>5. Prepared(me, r) /\ lost = {}
  <2>1. Prepared(me, r)
    BY <1>1 DEF OwnClean
  <2> QED  BY <2>1 DEF Prepared, Clean, Expired
<1>6. \A q \in Runs : Untouched(q)
  <2>1. rows = step[r]
    <3>1. \A i \in Steps : rows[i] = step[r][i]
      BY <1>5
    <3> QED  BY <1>1, <3>1
  <2>2. step' = step
    <3> HIDE DEF rows
    <3> QED  BY <1>2, <2>1 DEF TypeInv, TypeOK
  <2>3. ~touched
    BY <1>5
  <2>4. \A q \in Runs : /\ run'[q].status = run[q].status /\ run'[q].findings = run[q].findings
                        /\ run'[q].proposals = run[q].proposals
    <3> HIDE DEF touched
    <3> QED  BY <1>1, <1>2, <2>3 DEF TypeInv, TypeOK, RunRow
  <2> QED  BY <1>2, <2>2, <2>4 DEF Untouched
<1>7. AtRest(r)' /\ Complete(r)'
  <2>1. \A t \in Sessions : Executing(sess[t], r) => Executing(sess'[t], r)
    BY <1>1 DEF OneSession, Executing
  <2>2. ASSUME NEW q \in Runs, q = r PROVE AtRest(q)' /\ Complete(q)'
    BY <1>6, <2>1, <2>2, RestKept DEF CleanInv
  <2>3. sess'[s].run \in Runs /\ sess'[s].run = r
    <3> HIDE DEF new
    <3> QED  BY <1>1, <1>3, <1>4
  <2> HIDE DEF new
  <2> QED  BY <2>2, <2>3
<1>8. OwnClean(sess[s])'
  <2>1. /\ step'[r] = step[r] /\ run'[r].status = run[r].status
        /\ run'[r].findings = run[r].findings /\ run'[r].proposals = run[r].proposals
    BY <1>1, <1>6 DEF Untouched
  <2>2. /\ sess'[s].pc = "load" /\ sess'[s].run = r /\ sess'[s].snap = me.snap
        /\ sess'[s].verdict = "succeeded"
    <3> HIDE DEF new
    <3> QED  BY <1>1, <1>3, <1>4 DEF OwnClean
  <2>3. Prepared(sess[s], sess[s].run)'
    BY <1>5, <2>1, <2>2 DEF Prepared, Clean, KnownToRun, Known, UpToDate
  <2> QED
    BY <2>2, <2>3 DEF OwnClean
<1> HIDE DEF new
<1> QED
  BY <1>1, <1>3, <1>4, <1>6, <1>7, <1>8, OwnStep

\* A step of the run's own session may leave the run executing: then only its
\* completeness is at stake, and only if it says succeeded.
LEMMA StillExecuting ==
    ASSUME NEW s \in Sessions, sess'[s].pc \in {"plan", "exec"},
           run'[sess'[s].run].status # "succeeded"
    PROVE  AtRest(sess[s].run)' /\ Complete(sess[s].run)'
BY DEF AtRest, Executing, Complete

LEMMA MarkRunningClean ==
    ASSUME TypeInv, OneSession, CleanInv, NEW s \in Sessions, MarkRunning(s)
    PROVE  CleanInv'
<1> DEFINE me == sess[s]
           r == me.run
           new == [me EXCEPT !.pc = "plan", !.findings = me.snap[r].findings,
                             !.proposals = me.snap[r].proposals]
<1>1. /\ me \in Session /\ r \in Runs /\ run[r] \in RunRow /\ me.pc = "mark" /\ OwnClean(me)
  BY OwnRun DEF MarkRunning, CleanInv
<1>2. /\ UNCHANGED <<step, persisted>> /\ Set(s, new)
      /\ run' = [run EXCEPT ![r].status = Flush(@, me.snap[r].status, "running")]
  BY Zenon DEF MarkRunning
<1>3. sess'[s] = new
  <2> HIDE DEF new
  <2> QED  BY <1>2, SetValue
<1>4. /\ sess'[s].pc = "plan" /\ sess'[s].run = r /\ sess'[s].batch = me.batch
      /\ sess'[s].snap = me.snap /\ sess'[s].verdict = me.verdict
      /\ sess'[s].findings = me.snap[r].findings /\ sess'[s].proposals = me.snap[r].proposals
  BY <1>1, <1>3 DEF Session
<1>5. Prepared(me, r) /\ me.verdict = "succeeded"
  BY <1>1 DEF OwnClean
<1>6. /\ run'[r].findings = run[r].findings /\ run'[r].proposals = run[r].proposals
      /\ run'[r].status \in {"queued", "running", "cancelled"}
  BY <1>1, <1>2, <1>5 DEF Flush, Prepared, TypeInv, TypeOK, RunRow
<1>7. \A q \in Runs : q # r => Untouched(q)
  BY <1>2 DEF Untouched, TypeInv, TypeOK
<1>8. AtRest(r)' /\ Complete(r)'
  BY <1>4, <1>6, StillExecuting
<1>9. OwnClean(sess[s])'
  <2>1. /\ me.snap[r].findings = run[r].findings /\ me.snap[r].proposals = run[r].proposals
        /\ Known(r, run[r].findings, run[r].proposals) /\ Clean(r)
    BY <1>5 DEF Prepared, UpToDate, KnownToRun
  <2>2. sess'[s].findings = run[r].findings /\ sess'[s].proposals = run[r].proposals
    BY <1>4, <2>1
  <2>3. Known(sess[s].run, sess[s].findings, sess[s].proposals)'
    BY <1>2, <1>4, <2>1, <2>2 DEF Known
  <2>4. Clean(sess[s].run)' /\ UpToDate(sess[s], sess[s].run)'
    BY <1>2, <1>4, <1>6, <2>1 DEF Clean, UpToDate
  <2> QED
    BY <1>4, <1>5, <1>6, <2>3, <2>4 DEF OwnClean
<1> QED
  BY <1>1, <1>4, <1>7, <1>8, <1>9, OwnStep

\* A chain has at most one step that is ready.
LEMMA OneReady ==
    ASSUME NEW cache, NEW rows, Matches(cache, rows), Prefix(rows),
           NEW i \in Ready(cache), NEW j \in Ready(cache)
    PROVE  i = j
<1>1. ASSUME NEW a \in Ready(cache), NEW b \in Ready(cache), a < b PROVE FALSE
  <2>1. /\ a \in Steps /\ b \in Steps /\ b - 1 \in Steps /\ b > 1 /\ (a = b - 1 \/ a < b - 1)
    BY <1>1, RuntimeAssumption DEF Ready, Steps
  <2>2. /\ rows[a].status = "pending" /\ rows[b - 1].status = "succeeded"
    BY <2>1 DEF Ready, Matches
  <2> QED  BY <2>1, <2>2 DEF Prefix
<1> QED
  BY <1>1, RuntimeAssumption DEF Ready, Steps

LEMMA LeaseReadyClean ==
    ASSUME TypeInv, SoloInv, OneSession, CleanInv, NEW s \in Sessions, LeaseReady(s)
    PROVE  CleanInv'
<1> DEFINE me == sess[s]
           r == me.run
           ready == Ready(me.cache)
           leased == [i \in Steps |-> Leased(me.cache[i], s)]
           rows == [i \in Steps |->
                      IF i \in ready THEN [leased[i] EXCEPT !.out = step[r][i].out]
                      ELSE step[r][i]]
           cache == [i \in Steps |-> IF i \in ready THEN leased[i] ELSE me.cache[i]]
           work == [i \in Steps |-> IF i \in ready THEN [NoWork EXCEPT !.stage = "leased"]
                                     ELSE NoWork]
           new == [me EXCEPT !.pc = "exec", !.cache = cache, !.work = work]
<1>1. /\ me \in Session /\ r \in Runs /\ step[r] \in [Steps -> StepRow]
      /\ me.cache \in [Steps -> StepRow] /\ me.pc = "plan" /\ me.verdict = "succeeded"
      /\ OwnClean(me)
  BY OwnRun DEF LeaseReady, CleanInv
<1>2. UNCHANGED <<run, persisted>> /\ Set(s, new) /\ step' = [step EXCEPT ![r] = rows]
  BY Zenon DEF LeaseReady
<1>3. sess'[s] = new
  <2> HIDE DEF new
  <2> QED  BY <1>2, SetValue
<1>4. /\ sess'[s].pc = "exec" /\ sess'[s].run = r /\ sess'[s].batch = me.batch
      /\ sess'[s].snap = me.snap /\ sess'[s].work = work
      /\ sess'[s].findings = me.findings /\ sess'[s].proposals = me.proposals
  <2> HIDE DEF cache, work
  <2> QED  BY <1>1, <1>3 DEF Session
<1>5. Matches(me.cache, step[r]) /\ Prefix(step[r])
  BY <1>1, OwnSolo DEF SoloSession, Loaded, SoloInv, InOrder
<1>6. \A i \in Steps : /\ i \in ready => work[i].stage = "leased"
                       /\ i \notin ready => work[i].stage = "none"
  <2> HIDE DEF ready
  <2> QED  BY DEF NoWork
<1>7. /\ \A i \in Steps : i \notin ready => step'[r][i] = step[r][i]
      /\ \A i \in Steps : i \in ready => step'[r][i].status = "running"
      /\ \A q \in Runs : q # r => step'[q] = step[q]
  <2>1. \A i \in Steps : leased[i] \in StepRow /\ leased[i].status = "running"
    <3>1. \A row \in StepRow : Leased(row, s).status = "running"
      BY DEF Leased, StepRow
    <3> QED  BY <1>1, <3>1, RowsTyped
  <2>2. /\ \A i \in Steps : i \notin ready => rows[i] = step[r][i]
        /\ \A i \in Steps : i \in ready => rows[i].status = "running"
    <3> HIDE DEF ready, leased
    <3> QED  BY <2>1 DEF StepRow
  <2>3. step'[r] = rows /\ \A q \in Runs : q # r => step'[q] = step[q]
    <3> HIDE DEF rows
    <3> QED  BY <1>1, <1>2 DEF TypeInv, TypeOK
  <2> HIDE DEF rows, ready
  <2> QED  BY <2>2, <2>3
<1>8. \A q \in Runs : q # r => Untouched(q)
  BY <1>2, <1>7 DEF Untouched
<1>9. AtRest(r)' /\ Complete(r)'
  <2>1. run'[sess'[s].run].status # "succeeded"
    BY <1>1, <1>2, <1>4 DEF OwnClean
  <2> QED  BY <1>4, <2>1, StillExecuting
<1>10. OwnClean(sess[s])'
  <2>1. ASSUME NEW i \in Steps PROVE InExecution(sess[s], i)'
    <3>1. step[r][i].status \in {"pending", "succeeded"}
      BY <1>1 DEF OwnClean, Clean
    <3>2. \A j \in Steps : work[i].stage # "none" /\ work[j].stage # "none" => i = j
      <4>1. \A j \in Steps : i \in ready /\ j \in ready => i = j
        BY <1>5, OneReady
      <4> HIDE DEF ready, work
      <4> QED  BY <1>6, <4>1
    <3>3. work[i].stage \in {"none", "leased"}
      <4> HIDE DEF ready, work
      <4> QED  BY <1>6
    <3>4. work[i].stage = "none" => step'[r][i] = step[r][i]
      <4> HIDE DEF ready, work
      <4> QED  BY <1>6, <1>7
    <3> HIDE DEF work
    <3> QED  BY <1>4, <3>1, <3>2, <3>3, <3>4 DEF InExecution
  <2>2. /\ Known(r, me.findings, me.proposals) /\ UpToDate(me, r)
        /\ run[r].status \in {"queued", "running", "cancelled"}
    BY <1>1 DEF OwnClean
  <2>3. Known(sess[s].run, sess[s].findings, sess[s].proposals)'
    <3>1. \A i \in Steps : step'[r][i].status = "succeeded" => step'[r][i] = step[r][i]
      <4> HIDE DEF ready
      <4> QED  BY <1>7
    <3> QED  BY <1>4, <2>2, <3>1 DEF Known
  <2>4. UpToDate(sess[s], sess[s].run)'
    BY <1>2, <1>4, <2>2 DEF UpToDate
  <2> QED
    BY <1>2, <1>4, <2>1, <2>2, <2>3, <2>4 DEF OwnClean
<1> QED
  BY <1>1, <1>4, <1>8, <1>9, <1>10, OwnStep

\* The session moves the work on one step along.
LEMMA ExecMoved ==
    ASSUME TypeInv, OneSession, CleanInv, NEW s \in Sessions, sess[s].pc = "exec",
           NEW i \in Steps, sess[s].work[i].stage # "none",
           NEW work \in Work, work.stage # "none", Set(s, [sess[s] EXCEPT !.work[i] = work]),
           UNCHANGED <<run, step, persisted>>,
           work.stage = "done" /\ Kind[i] = "change.propose" /\ work.out # 0
              => LatestOut(sess[s].cache, "finding.emit") # 0,
           work.stage = "inserting" =>
              Kind[i] = "agent" /\ agentAsset'[sess[s].run][i] # "committed"
    PROVE  CleanInv'
<1> DEFINE me == sess[s]
           r == me.run
           new == [me EXCEPT !.work[i] = work]
<1>1. /\ me \in Session /\ r \in Runs /\ me.work \in [Steps -> Work] /\ OwnClean(me)
  BY OwnRun DEF CleanInv
<1>2. sess'[s] = new
  <2> HIDE DEF new
  <2> QED  BY SetValue DEF new
<1>3. /\ sess'[s].pc = "exec" /\ sess'[s].run = r /\ sess'[s].cache = me.cache
      /\ sess'[s].batch = me.batch /\ sess'[s].snap = me.snap
      /\ sess'[s].findings = me.findings /\ sess'[s].proposals = me.proposals
      /\ sess'[s].work[i] = work /\ \A j \in Steps : j # i => sess'[s].work[j] = me.work[j]
  BY <1>1, <1>2 DEF Session
<1>4. \A j \in Steps : j # i => me.work[j].stage = "none"
  BY <1>1 DEF OwnClean, InExecution
<1>5. ASSUME NEW j \in Steps PROVE InExecution(sess[s], j)'
  <2>1. InExecution(me, j)
    BY <1>1 DEF OwnClean
  <2>2. LatestOut(sess[s].cache, "finding.emit")' = LatestOut(me.cache, "finding.emit")
    BY <1>3 DEF LatestOut
  <2>3. CASE j = i
    BY <1>3, <1>4, <2>2, <2>3 DEF InExecution
  <2>4. CASE j # i
    BY <1>3, <1>4, <2>1, <2>4 DEF InExecution
  <2> QED  BY <2>3, <2>4
<1>6. OwnClean(sess[s])'
  <2>1. /\ Known(r, me.findings, me.proposals) /\ UpToDate(me, r)
        /\ run[r].status \in {"queued", "running", "cancelled"}
    BY <1>1 DEF OwnClean
  <2>2. Known(sess[s].run, sess[s].findings, sess[s].proposals)'
    BY <1>3, <2>1 DEF Known
  <2>3. UpToDate(sess[s], sess[s].run)'
    BY <1>3, <2>1 DEF UpToDate
  <2> QED  BY <1>3, <1>5, <2>1, <2>2, <2>3 DEF OwnClean
<1> QED
  BY <1>1, <1>3, <1>6, OwnQuiet

LEMMA DoneClean ==
    ASSUME TypeInv, OneSession, CleanInv, NEW s \in Sessions, sess[s].pc = "exec",
           NEW i \in Steps, sess[s].work[i].stage # "none",
           NEW status \in Outcome, NEW out \in Nat, Finished(s, i, status, out),
           UNCHANGED <<run, step, persisted>>,
           Kind[i] = "change.propose" /\ out # 0 => LatestOut(sess[s].cache, "finding.emit") # 0
    PROVE  CleanInv'
<1> DEFINE work == [stage |-> "done", status |-> status, out |-> out]
<1>1. work \in Work /\ work.stage = "done" /\ work.out = out
  BY DEF Work
<1>2. Set(s, [sess[s] EXCEPT !.work[i] = work])
  BY DEF Finished
<1> HIDE DEF work
<1> QED
  BY <1>1, <1>2, ExecMoved

LEMMA ExecuteStepClean ==
    ASSUME TypeInv, OneSession, CleanInv, NEW s \in Sessions, NEW i \in Steps, ExecuteStep(s, i)
    PROVE  CleanInv'
<1> DEFINE me == sess[s]
           out == CASE Kind[i] = "finding.emit" -> LatestOut(me.cache, "agent")
                    [] Kind[i] = "change.propose" ->
                         IF LatestOut(me.cache, "finding.emit") = 0 THEN 0 ELSE FreshId(s, i)
                    [] OTHER -> 0
<1>1. /\ me.pc = "exec" /\ me.work[i].stage # "none" /\ Started(s, i)
      /\ UNCHANGED <<run, step, persisted>> /\ me.cache \in [Steps -> StepRow]
  BY OwnRun DEF ExecuteStep, Working, rowVars
<1>2. PICK status \in Outcomes(Kind[i], me.snap[me.run].manual) : Finished(s, i, status, out)
  BY DEF ExecuteStep
<1>3. status \in Outcome
  BY <1>2 DEF Outcomes, Outcome
<1>4. out \in Nat
  <2>1. FreshId(s, i) \in Nat
    BY <1>1, StartedTyped
  <2> QED  BY <1>1, <2>1, LatestOutTyped
<1>5. Kind[i] = "change.propose" /\ out # 0 => LatestOut(me.cache, "finding.emit") # 0
  OBVIOUS
<1> HIDE DEF out
<1> QED
  BY <1>1, <1>2, <1>3, <1>4, <1>5, DoneClean

LEMMA AgentReportsClean ==
    ASSUME TypeInv, OneSession, CleanInv, NEW s \in Sessions, NEW i \in Steps,
           sess[s].pc = "exec", sess[s].work[i].stage # "none", Kind[i] = "agent",
           AgentReports(s, i)
    PROVE  CleanInv'
<1>1. Started(s, i) /\ UNCHANGED <<run, step, persisted>>
  BY DEF AgentReports
<1>2. PICK status \in Outcome, out \in Nat : Finished(s, i, status, out)
  <2>1. FreshId(s, i) \in Nat
    BY <1>1, StartedTyped
  <2> QED  BY <2>1 DEF AgentReports, Outcome
<1> QED
  BY <1>1, <1>2, DoneClean

LEMMA AgentMissingClean ==
    ASSUME TypeInv, OneSession, CleanInv, NEW s \in Sessions, NEW i \in Steps, AgentMissing(s, i)
    PROVE  CleanInv'
<1> DEFINE work == [sess[s].work[i] EXCEPT !.stage = "inserting"]
<1>1. /\ sess[s].pc = "exec" /\ sess[s].work[i].stage = "leased" /\ sess[s].work[i] \in Work
      /\ Kind[i] = "agent" /\ sess[s] \in Session
      /\ agentAsset'[sess[s].run][i] # "committed"
      /\ UNCHANGED <<run, step, persisted>>
      /\ Set(s, [sess[s] EXCEPT !.work[i].stage = "inserting"])
  BY OwnRun DEF AgentMissing, Working, rowVars
<1>2. work \in Work /\ work.stage = "inserting"
  BY <1>1 DEF Work
<1>3. Set(s, [sess[s] EXCEPT !.work[i] = work])
  BY <1>1
<1> HIDE DEF work
<1> QED
  BY <1>1, <1>2, <1>3, ExecMoved

\* A session that is inserting its agent's asset finds no committed one.
LEMMA InsertingClean ==
    ASSUME TypeInv, CleanInv, NEW s \in Sessions, NEW i \in Steps, Working(s, i, "inserting")
    PROVE  /\ sess[s].pc = "exec" /\ sess[s].work[i].stage # "none" /\ Kind[i] = "agent"
           /\ ~AgentConflict(s, i)
BY DEF CleanInv, OwnClean, InExecution, Working, AgentConflict

LEMMA HookSendClean ==
    ASSUME TypeInv, OneSession, CleanInv, NEW s \in Sessions, NEW i \in Steps, HookSend(s, i)
    PROVE  CleanInv'
<1>1. /\ sess[s].pc = "exec" /\ sess[s].work[i].stage = "leased" /\ sess[s].work[i] \in Work
      /\ UNCHANGED <<run, step, persisted>> /\ sess[s] \in Session
  BY OwnRun DEF HookSend, Working, rowVars
<1>2. CASE Finished(s, i, "succeeded", 0)
  <2>1. "succeeded" \in Outcome /\ 0 \in Nat
    BY DEF Outcome
  <2> QED  BY <1>1, <1>2, <2>1, DoneClean
<1>3. CASE Set(s, [sess[s] EXCEPT !.work[i].stage = "sent"])
  <2> DEFINE work == [sess[s].work[i] EXCEPT !.stage = "sent"]
  <2>1. work \in Work /\ work.stage = "sent"
    BY <1>1 DEF Work
  <2>2. Set(s, [sess[s] EXCEPT !.work[i] = work])
    BY <1>1, <1>3
  <2> HIDE DEF work
  <2> QED  BY <1>1, <2>1, <2>2, ExecMoved
<1>4. \/ Finished(s, i, "succeeded", 0)
      \/ Set(s, [sess[s] EXCEPT !.work[i].stage = "sent"])
  BY Zenon DEF HookSend
<1> QED
  BY <1>2, <1>3, <1>4

LEMMA HookSaveClean ==
    ASSUME TypeInv, OneSession, CleanInv, NEW s \in Sessions, NEW i \in Steps, HookSave(s, i)
    PROVE  CleanInv'
<1>1. /\ sess[s].pc = "exec" /\ sess[s].work[i].stage # "none"
      /\ UNCHANGED <<run, step, persisted>>
  BY DEF HookSave, Working
<1>2. PICK status \in Outcome : Finished(s, i, status, 0)
  BY DEF HookSave, Outcome
<1> QED
  BY <1>1, <1>2, DoneClean

LEMMA RecordResultsClean ==
    ASSUME TypeInv, SoloInv, OneSession, CleanInv, NEW s \in Sessions, RecordResults(s)
    PROVE  CleanInv'
<1> DEFINE me == sess[s]
           r == me.run
           todo == {i \in Steps : me.work[i].stage = "done"}
           bad == {i \in Steps : me.work[i].stage = "done" /\ me.work[i].status # "succeeded"}
           Result(row, i) == [row EXCEPT !.status = me.work[i].status, !.owner = Nobody,
                                         !.lease = "none", !.out = me.work[i].out]
           rows == [i \in Steps |-> IF i \in todo THEN Result(step[r][i], i) ELSE step[r][i]]
           cache == [i \in Steps |-> IF i \in todo THEN Result(me.cache[i], i) ELSE me.cache[i]]
           source == LatestOut(me.cache, "finding.emit")
           found == {me.work[i].out : i \in Made(me.work, "finding.emit")}
           proposed == {[id |-> me.work[i].out, finding |-> source] :
                           i \in Made(me.work, "change.propose")}
           new == [me EXCEPT !.pc = "plan", !.cache = cache,
                     !.work = [i \in Steps |-> NoWork],
                     !.findings = @ \cup found, !.proposals = @ \cup proposed,
                     !.verdict = Verdict(me.work)]
<1>1. /\ me \in Session /\ r \in Runs /\ step[r] \in [Steps -> StepRow]
      /\ me.cache \in [Steps -> StepRow] /\ me.pc = "exec" /\ OwnClean(me)
  BY OwnRun DEF RecordResults, CleanInv
<1>2. UNCHANGED <<run, persisted>> /\ step' = [step EXCEPT ![r] = rows] /\ Set(s, new)
      /\ \A i \in Steps : me.work[i].stage \in {"none", "done"}
  BY Zenon DEF RecordResults
<1>3. sess'[s] = new
  <2> HIDE DEF new
  <2> QED  BY <1>2, SetValue
<1>4. /\ sess'[s].pc = "plan" /\ sess'[s].run = r /\ sess'[s].batch = me.batch
      /\ sess'[s].snap = me.snap /\ sess'[s].verdict = Verdict(me.work)
      /\ sess'[s].findings = me.findings \cup found
      /\ sess'[s].proposals = me.proposals \cup proposed
  <2> HIDE DEF cache, found, proposed
  <2> QED  BY <1>1, <1>3 DEF Session
<1>5. /\ \A i \in Steps : i \notin todo => step'[r][i] = step[r][i]
      /\ \A i \in todo : /\ step'[r][i].status = me.work[i].status
                         /\ step'[r][i].out = me.work[i].out
      /\ \A q \in Runs : q # r => step'[q] = step[q]
  <2>1. \A row \in StepRow : \A i \in Steps :
           Result(row, i).status = me.work[i].status /\ Result(row, i).out = me.work[i].out
    BY DEF StepRow
  <2>2. \A i \in Steps : rows[i] = IF i \in todo THEN Result(step[r][i], i) ELSE step[r][i]
    <3> HIDE DEF todo, Result
    <3> QED  OBVIOUS
  <2>3. step'[r] = rows /\ \A q \in Runs : q # r => step'[q] = step[q]
    <3> HIDE DEF rows
    <3> QED  BY <1>1, <1>2 DEF TypeInv, TypeOK
  <2>4. todo \subseteq Steps
    OBVIOUS
  <2> HIDE DEF rows, todo, Result
  <2> QED  BY <1>1, <2>1, <2>2, <2>3, <2>4
<1>6. /\ \A i, j \in todo : i = j
      /\ \A i \in Steps : i \notin todo => step[r][i].status \in {"pending", "succeeded"}
      /\ \A i \in todo : Kind[i] = "change.propose" /\ me.work[i].out # 0 => source # 0
  BY <1>1, <1>2 DEF OwnClean, InExecution
<1>7. \A q \in Runs : q # r => Untouched(q)
  <2> HIDE DEF todo
  <2> QED  BY <1>2, <1>5 DEF Untouched
<1>8. /\ Known(r, me.findings, me.proposals) /\ UpToDate(me, r)
      /\ run[r].status \in {"queued", "running", "cancelled"}
  BY <1>1 DEF OwnClean
<1>9. AtRest(r)' /\ Complete(r)'
  <2>1. run'[sess'[s].run].status # "succeeded"
    BY <1>2, <1>4, <1>8
  <2> QED  BY <1>4, <2>1, StillExecuting
<1>10. /\ \A i \in Made(me.work, "finding.emit") : me.work[i].out \in found
       /\ \A i \in Made(me.work, "change.propose") : \E p \in proposed : p.id = me.work[i].out
       /\ \A p \in proposed : p.finding = source /\ Made(me.work, "change.propose") # {}
  <2>1. \A i \in Made(me.work, "finding.emit") : me.work[i].out \in found
    OBVIOUS
  <2>2. \A i \in Made(me.work, "change.propose") : \E p \in proposed : p.id = me.work[i].out
    <3> SUFFICES ASSUME NEW i \in Made(me.work, "change.propose")
                 PROVE  \E p \in proposed : p.id = me.work[i].out
      OBVIOUS
    <3>1. [id |-> me.work[i].out, finding |-> source] \in proposed
      OBVIOUS
    <3> HIDE DEF source, proposed
    <3> QED  BY <3>1
  <2>3. ASSUME NEW p \in proposed
        PROVE  p.finding = source /\ Made(me.work, "change.propose") # {}
    <3>1. PICK i \in Made(me.work, "change.propose") :
             p = [id |-> me.work[i].out, finding |-> source]
      OBVIOUS
    <3> HIDE DEF source, proposed
    <3> QED  BY <3>1
  <2> HIDE DEF source, proposed, found
  <2> QED  BY <2>1, <2>2, <2>3
<1>11. \A p \in proposed : p.finding \in me.findings
  <2> SUFFICES ASSUME NEW p \in proposed PROVE source \in me.findings
    BY <1>10
  <2>1. source # 0
    BY <1>6, <1>10 DEF Made
  <2>2. PICK e \in Steps : /\ Kind[e] = "finding.emit" /\ me.cache[e].status = "succeeded"
                           /\ me.cache[e].out = source
    <3> HIDE DEF proposed
    <3> QED  BY <1>1, <2>1, LatestMade
  <2>3. Matches(me.cache, step[r])
    BY <1>1, OwnSolo DEF SoloSession, Loaded
  <2> HIDE DEF source
  <2> QED  BY <1>8, <2>1, <2>2, <2>3 DEF Known, Matches
<1>12. Known(sess[s].run, sess[s].findings, sess[s].proposals)'
  <2>1. ASSUME NEW i \in Steps, step'[r][i].status = "succeeded", step'[r][i].out # 0
        PROVE  /\ Kind[i] = "finding.emit" => step'[r][i].out \in me.findings \cup found
               /\ Kind[i] = "change.propose" =>
                     \E p \in me.proposals \cup proposed : p.id = step'[r][i].out
    <3>1. CASE i \notin todo
      <4> HIDE DEF todo, found, proposed
      <4> QED  BY <1>5, <1>8, <2>1, <3>1 DEF Known
    <3>2. CASE i \in todo
      <4>1. step'[r][i].out = me.work[i].out /\ me.work[i].stage = "done"
        BY <1>5, <3>2
      <4> HIDE DEF todo, found, proposed
      <4> QED  BY <1>10, <2>1, <4>1 DEF Made
    <3> QED  BY <3>1, <3>2
  <2>2. \A p \in me.proposals \cup proposed : p.finding \in me.findings \cup found
    <3> HIDE DEF found, proposed
    <3> QED  BY <1>8, <1>11 DEF Known
  <2> HIDE DEF found, proposed
  <2> QED  BY <1>4, <2>1, <2>2 DEF Known
<1>13. /\ Verdict(me.work) = "succeeded" => Clean(r)'
       /\ Verdict(me.work) = "awaiting_approval" => Waiting(r)'
  <2>1. CASE bad = {}
    <3>1. Verdict(me.work) = "succeeded"
      BY <2>1 DEF Verdict
    <3>2. \A i \in todo : me.work[i].status = "succeeded"
      BY <2>1
    <3>3. \A i \in Steps : step'[r][i].status \in {"pending", "succeeded"}
      <4> HIDE DEF todo
      <4> QED  BY <1>5, <1>6, <3>2
    <3> QED  BY <1>4, <3>1, <3>3 DEF Clean
  <2>2. CASE bad # {}
    <3> DEFINE g == Last(bad)
    <3>1. bad \subseteq Steps
      OBVIOUS
    <3>2. g \in bad
      <4> HIDE DEF bad
      <4> QED  BY <2>2, <3>1, LastIn
    <3>3. g \in todo /\ g \in Steps /\ me.work[g].status # "succeeded"
      <4> HIDE DEF g
      <4> QED  BY <3>2
    <3>4. Verdict(me.work) = me.work[g].status
      BY <2>2 DEF Verdict
    <3>5. step'[r][g].status = me.work[g].status
      <4> HIDE DEF g, todo
      <4> QED  BY <1>5, <3>3
    <3>6. \A i \in Steps \ {g} : step'[r][i].status \in {"pending", "succeeded"}
      <4>1. \A i \in Steps \ {g} : i \notin todo
        <5> HIDE DEF g, todo
        <5> QED  BY <1>6, <3>3
      <4> HIDE DEF g, todo
      <4> QED  BY <1>5, <1>6, <4>1
    <3> HIDE DEF g, bad
    <3> QED  BY <1>4, <3>3, <3>4, <3>5, <3>6 DEF Waiting
  <2> QED  BY <2>1, <2>2
<1>14. OwnClean(sess[s])'
  <2>1. UpToDate(sess[s], sess[s].run)'
    BY <1>2, <1>4, <1>8 DEF UpToDate
  <2>2. /\ sess'[s].verdict = "succeeded" => Clean(sess[s].run)'
        /\ sess'[s].verdict = "awaiting_approval" => Waiting(sess[s].run)'
    BY <1>4, <1>13 DEF Clean, Waiting
  <2> QED
    BY <1>2, <1>4, <1>8, <1>12, <2>1, <2>2 DEF OwnClean
<1> HIDE DEF new
<1> QED
  BY <1>1, <1>4, <1>7, <1>9, <1>14, OwnStep

\* The one step that ends an execution: what it writes is what the rows say.
LEMMA FinalizeClean ==
    ASSUME TypeInv, SoloInv, OneSession, CleanInv, NEW s \in Sessions, Finalize(s)
    PROVE  CleanInv'
<1> DEFINE me == sess[s]
           r == me.run
           final == FinalStatus(me)
           loaded == <<me.snap[r].findings, me.snap[r].proposals>>
           outputs == Flush(<<run[r].findings, run[r].proposals>>, loaded,
                            <<me.findings, me.proposals>>)
           row == [run[r] EXCEPT !.status = Flush(@, "running", final),
                                 !.findings = outputs[1], !.proposals = outputs[2]]
           known == persisted[r].findings \cup me.findings
           rows == [i \in Steps |->
                      IF final = "failed" /\ me.cache[i].status = "pending"
                      THEN [step[r][i] EXCEPT !.status = "blocked"] ELSE step[r][i]]
           new == [me EXCEPT !.pc = "refresh"]
<1>1. /\ me \in Session /\ r \in Runs /\ run[r] \in RunRow /\ step[r] \in [Steps -> StepRow]
      /\ me.pc = "plan" /\ OwnClean(me)
  BY OwnRun DEF Finalize, CleanInv
<1>2. run' = [run EXCEPT ![r] = row] /\ step' = [step EXCEPT ![r] = rows] /\ Set(s, new)
  BY Zenon DEF Finalize
<1>3. persisted' = [persisted EXCEPT ![r] =
                      [findings |-> known,
                       proposals |-> @.proposals \cup {p \in me.proposals : p.finding \in known}]]
  BY Zenon DEF Finalize
<1>4. /\ sess'[s].pc = "refresh" /\ sess'[s].run = r /\ sess'[s].batch = me.batch
      /\ sess'[s].snap = me.snap
  <2>1. sess'[s] = new
    <3> HIDE DEF new
    <3> QED  BY <1>2, SetValue
  <2> QED  BY <1>1, <2>1 DEF Session
<1>5. /\ Known(r, me.findings, me.proposals) /\ UpToDate(me, r)
      /\ run[r].status \in {"queued", "running", "cancelled"}
      /\ me.verdict = "succeeded" => Clean(r)
      /\ me.verdict = "awaiting_approval" => Waiting(r)
      /\ Matches(me.cache, step[r])
  BY <1>1, OwnSolo DEF OwnClean, SoloSession, Loaded
<1>6. /\ run'[r].status = IF final = "running" THEN run[r].status ELSE final
      /\ run'[r].findings = me.findings /\ run'[r].proposals = me.proposals
  <2>1. outputs[1] = me.findings /\ outputs[2] = me.proposals
    BY <1>5 DEF Flush, UpToDate
  <2>2. run'[r] = row
    <3> HIDE DEF row
    <3> QED  BY <1>1, <1>2 DEF TypeInv, TypeOK
  <2>3. row.findings = outputs[1] /\ row.proposals = outputs[2]
        /\ row.status = Flush(run[r].status, "running", final)
    <3> HIDE DEF outputs, final
    <3> QED  BY <1>1 DEF RunRow
  <2> HIDE DEF row, outputs, final
  <2> QED  BY <2>1, <2>2, <2>3 DEF Flush
<1>7. \A q \in Runs : q # r => Untouched(q)
  <2> HIDE DEF row, rows, known
  <2> QED  BY <1>2, <1>3 DEF Untouched, TypeInv, TypeOK
<1>8. step'[r] = rows
  <2> HIDE DEF rows
  <2> QED  BY <1>1, <1>2 DEF TypeInv, TypeOK
<1>9. final # "failed" => \A i \in Steps : step'[r][i] = step[r][i]
  <2> HIDE DEF final
  <2> QED  BY <1>8
<1>10. /\ me.findings \subseteq persisted'[r].findings
       /\ me.proposals \subseteq persisted'[r].proposals
  <2>1. persisted'[r] = [findings |-> known,
            proposals |-> persisted[r].proposals \cup {p \in me.proposals : p.finding \in known}]
    <3> HIDE DEF known
    <3> QED  BY <1>1, <1>3 DEF TypeInv, TypeOK
  <2>2. \A p \in me.proposals : p.finding \in known
    BY <1>5 DEF Known
  <2>3. me.findings \subseteq known
    OBVIOUS
  <2> HIDE DEF known
  <2> QED  BY <2>1, <2>2, <2>3
<1>11. /\ final \in {"running", "succeeded"} => me.verdict = "succeeded"
       /\ final = "succeeded" => \A i \in Steps : me.cache[i].status \notin {"pending", "running"}
       /\ final = "awaiting_approval" => me.verdict = "awaiting_approval"
       /\ final \in {"running", "succeeded", "awaiting_approval", "failed"}
  BY <1>1 DEF FinalStatus, Session, Outcome
<1> HIDE DEF final
<1>12. PICK q \in Runs : q = r
  BY <1>1
<1>13. final # "failed" => KnownToRun(q)'
  <2>1. ASSUME final # "failed"
        PROVE  Known(q, me.findings, me.proposals)
                  => Known(q, run[q].findings, run[q].proposals)'
    BY <1>6, <1>9, <1>12, <2>1 DEF Known
  <2> QED  BY <1>5, <1>12, <2>1 DEF KnownToRun
<1>14. (final \in {"running", "succeeded"} => Clean(q)')
       /\ (final = "awaiting_approval" => Waiting(q)')
  BY <1>5, <1>9, <1>11, <1>12 DEF Clean, Waiting
<1>15. AtRest(q)'
  <2>1. CASE final = "failed"
    BY <1>6, <1>12, <2>1 DEF AtRest
  <2>2. CASE final = "running"
    BY <1>5, <1>6, <1>12, <1>13, <1>14, <2>2 DEF AtRest
  <2>3. CASE final = "awaiting_approval"
    BY <1>6, <1>12, <1>13, <1>14, <2>3 DEF AtRest
  <2>4. CASE final = "succeeded"
    BY <1>6, <1>12, <2>4 DEF AtRest
  <2> QED  BY <1>11, <2>1, <2>2, <2>3, <2>4
<1>16. Complete(q)'
  <2> SUFFICES ASSUME run'[r].status = "succeeded", NEW i \in Steps
               PROVE  /\ step'[r][i].status = "succeeded"
                      /\ step'[r][i].out # 0 =>
                            /\ Kind[i] = "finding.emit" => step'[r][i].out \in persisted'[r].findings
                            /\ Kind[i] = "change.propose" =>
                                  \E p \in persisted'[r].proposals : p.id = step'[r][i].out
    BY <1>12 DEF Complete
  <2>1. final = "succeeded"
    BY <1>5, <1>6
  <2>2. step'[r][i] = step[r][i] /\ step[r][i].status = "succeeded"
    BY <1>5, <1>9, <1>11, <2>1 DEF Clean, Matches
  <2> QED  BY <1>5, <1>10, <2>2 DEF Known
<1>17. AtRest(sess[s].run)' /\ Complete(sess[s].run)'
  BY <1>4, <1>12, <1>15, <1>16
<1>18. OwnClean(sess[s])'
  BY <1>4 DEF OwnClean
<1> HIDE DEF new
<1> QED
  BY <1>1, <1>4, <1>7, <1>17, <1>18, OwnStep

\* A resume finds the gate its run waits at.
LEMMA ResumeFindsGate ==
    ASSUME TypeInv, SoloInv, CleanInv, NEW s \in Sessions, sess[s].pc = "rdecide"
    PROVE  Awaiting(sess[s].cache) # {}
<1>1. Matches(sess[s].cache, step[sess[s].run]) /\ Waiting(sess[s].run)
  BY OwnSolo DEF SoloSession, Loaded, CleanInv, OwnClean
<1> QED
  BY <1>1 DEF Matches, Waiting, Awaiting

LEMMA ApproveClean ==
    ASSUME TypeInv, StatusesEarned, SoloInv, OneSession, CleanInv, NEW s \in Sessions, Approve(s)
    PROVE  CleanInv'
<1> DEFINE me == sess[s]
           r == me.run
           gate == First(Awaiting(me.cache))
           Approved(row, i) ==
               [row EXCEPT !.status = IF i = gate THEN "succeeded"
                                      ELSE IF me.cache[i].status = "blocked" THEN "pending"
                                      ELSE @]
           rows == [i \in Steps |-> Approved(step[r][i], i)]
           cache == [i \in Steps |-> Approved(me.cache[i], i)]
           new == [me EXCEPT !.pc = "recover", !.snap[r].status = "running", !.cache = cache]
<1>1. /\ me \in Session /\ r \in Runs /\ step[r] \in [Steps -> StepRow] /\ me.snap[r] \in RunRow
      /\ run[r] \in RunRow /\ me.pc = "rdecide" /\ OwnClean(me)
  BY OwnRun DEF Approve, CleanInv
<1>2. /\ step' = [step EXCEPT ![r] = rows] /\ Set(s, new) /\ UNCHANGED persisted
      /\ run' = [run EXCEPT ![r].status = "running"]
  BY Zenon DEF Approve
<1>3. /\ gate \in Steps /\ step[r][gate].status = "awaiting_approval" /\ Matches(me.cache, step[r])
  BY GateWaits DEF Approve
<1>4. /\ Waiting(r) /\ KnownToRun(r) /\ UpToDate(me, r) /\ me.verdict = "succeeded"
  BY <1>1 DEF OwnClean
<1>5. Kind[gate] # "finding.emit" /\ Kind[gate] # "change.propose"
  <2>1. RowBacked(step[r][gate], r, gate)
    BY <1>1, <1>3 DEF StatusesEarned, RowsBacked
  <2> QED  BY <1>3, <2>1 DEF RowBacked
<1>6. \A i \in Steps \ {gate} : step[r][i].status \in {"pending", "succeeded"}
  BY <1>3, <1>4 DEF Waiting
<1>7. step'[r][gate].status = "succeeded" /\ \A i \in Steps \ {gate} : step'[r][i] = step[r][i]
  <2>1. step'[r] = rows
    <3> HIDE DEF rows
    <3> QED  BY <1>1, <1>2 DEF TypeInv, TypeOK
  <2>2. \A i \in Steps : rows[i] = Approved(step[r][i], i) /\ step[r][i] \in StepRow
    <3> HIDE DEF Approved
    <3> QED  BY <1>1
  <2>3. \A i \in Steps \ {gate} : me.cache[i].status # "blocked"
    <3> HIDE DEF gate
    <3> QED  BY <1>3, <1>6 DEF Matches
  <2>4. \A row \in StepRow : Approved(row, gate).status = "succeeded"
    <3> HIDE DEF gate
    <3> QED  BY DEF StepRow
  <2>5. \A row \in StepRow : \A i \in Steps \ {gate} : Approved(row, i) = row
    <3> HIDE DEF gate
    <3> QED  BY <2>3 DEF StepRow
  <2> HIDE DEF rows, Approved, gate
  <2> QED  BY <1>3, <2>1, <2>2, <2>4, <2>5
<1>8. /\ run'[r].status = "running"
      /\ run'[r].findings = run[r].findings /\ run'[r].proposals = run[r].proposals
      /\ \A q \in Runs : q # r => run'[q] = run[q] /\ step'[q] = step[q]
  <2> HIDE DEF rows
  <2> QED  BY <1>1, <1>2 DEF TypeInv, TypeOK, RunRow
<1>9. \A q \in Runs : q # r => Untouched(q)
  BY <1>2, <1>8 DEF Untouched
<1>10. /\ sess'[s].pc = "recover" /\ sess'[s].run = r /\ sess'[s].batch = me.batch
       /\ sess'[s].verdict = me.verdict
       /\ sess'[s].snap[r].findings = me.snap[r].findings
       /\ sess'[s].snap[r].proposals = me.snap[r].proposals
       /\ \A q \in Runs : q # r => sess'[s].snap[q] = me.snap[q]
  <2>1. sess'[s] = new
    <3> HIDE DEF new
    <3> QED  BY <1>2, SetValue
  <2> HIDE DEF cache
  <2> QED  BY <1>1, <2>1 DEF Session, RunRow
<1>11. PICK q \in Runs : q = r
  BY <1>1
<1> HIDE DEF gate, new, rows, cache, Approved
<1>12. Clean(q)'
  BY <1>6, <1>7, <1>11 DEF Clean
<1>13. KnownToRun(q)'
  BY <1>4, <1>5, <1>7, <1>8, <1>11 DEF KnownToRun, Known
<1>14. Prepared(sess[s], q)'
  BY <1>4, <1>8, <1>10, <1>11, <1>12, <1>13 DEF Prepared, UpToDate
<1>15. AtRest(sess[s].run)' /\ Complete(sess[s].run)'
  <2>1. AtRest(q)' /\ Complete(q)'
    BY <1>8, <1>11, <1>12, <1>13 DEF AtRest, Complete
  <2> QED  BY <1>10, <1>11, <2>1
<1>16. OwnClean(sess[s])'
  BY <1>4, <1>10, <1>11, <1>14 DEF OwnClean
<1> QED
  BY <1>1, <1>9, <1>10, <1>15, <1>16, OwnStep

LEMMA RejectClean ==
    ASSUME TypeInv, SoloInv, OneSession, CleanInv, NEW s \in Sessions, Reject(s)
    PROVE  CleanInv'
<1> DEFINE me == sess[s]
           r == me.run
           gate == First(Awaiting(me.cache))
           new == [me EXCEPT !.pc = "publish", !.snap[r].status = "cancelled"]
<1>1. me \in Session /\ r \in Runs /\ run[r] \in RunRow /\ me.pc = "rdecide"
  BY OwnRun DEF Reject
<1>2. /\ step' = [step EXCEPT ![r][gate].status = "cancelled"] /\ Set(s, new)
      /\ UNCHANGED persisted /\ run' = [run EXCEPT ![r].status = "cancelled"]
  BY Zenon DEF Reject
<1>3. /\ run'[r].status = "cancelled"
      /\ \A q \in Runs : q # r => run'[q] = run[q] /\ step'[q] = step[q]
  <2> HIDE DEF gate
  <2> QED  BY <1>1, <1>2 DEF TypeInv, TypeOK, RunRow
<1>4. \A q \in Runs : q # r => Untouched(q)
  BY <1>2, <1>3 DEF Untouched
<1>5. /\ sess'[s].pc = "publish" /\ sess'[s].run = r /\ sess'[s].batch = me.batch
      /\ \A q \in Runs : q # r => sess'[s].snap[q] = me.snap[q]
  <2>1. sess'[s] = new
    <3> HIDE DEF new
    <3> QED  BY <1>2, SetValue
  <2> QED  BY <1>1, <2>1 DEF Session
<1>6. AtRest(sess[s].run)' /\ Complete(sess[s].run)' /\ OwnClean(sess[s])'
  BY <1>3, <1>5 DEF AtRest, Complete, OwnClean
<1> HIDE DEF new
<1> QED
  BY <1>1, <1>4, <1>5, <1>6, OwnStep

\* Cancelling only takes a run's status away: nobody relied on it.
LEMMA CancelClean ==
    ASSUME TypeInv, CleanInv, NEW r \in Runs, Cancel(r)
    PROVE  CleanInv'
<1>1. /\ UNCHANGED <<sess, step, persisted, agentAsset>>
      /\ run' = [run EXCEPT ![r].status = "cancelled"]
  BY DEF Cancel
<1>2. /\ run'[r].status = "cancelled"
      /\ \A q \in Runs : /\ q # r => run'[q].status = run[q].status
                         /\ run'[q].findings = run[q].findings
                         /\ run'[q].proposals = run[q].proposals
  BY <1>1 DEF TypeInv, TypeOK, RunRow
<1>3. ASSUME NEW q \in Runs PROVE AtRest(q)' /\ Complete(q)'
  <2>1. CASE q = r
    BY <1>2, <2>1 DEF AtRest, Complete
  <2>2. CASE q # r
    <3>1. Untouched(q) /\ \A s \in Sessions : Executing(sess[s], q) => Executing(sess'[s], q)
      BY <1>1, <1>2, <2>2 DEF Untouched
    <3> QED  BY <3>1, RestKept DEF CleanInv
  <2> QED  BY <2>1, <2>2
<1>4. ASSUME NEW s \in Sessions PROVE BatchReady(sess[s])' /\ OwnClean(sess[s])'
  <2>1. /\ BatchReady(sess[s]) /\ OwnClean(sess[s]) /\ sess[s] \in Session
        /\ sess[s].pc \notin {"idle", "select"} => sess[s].run \in Runs
    BY DEF CleanInv, TypeInv, TypeOK, OnRun
  <2>2. ASSUME NEW q \in Runs
        PROVE  /\ Prepared(sess[s], q) => Prepared(sess[s], q)'
               /\ Waiting(q) => Waiting(q)'
               /\ Clean(q) => Clean(q)'
               /\ KnownToRun(q) => KnownToRun(q)'
               /\ UpToDate(sess[s], q) => UpToDate(sess[s], q)'
               /\ Known(q, sess[s].findings, sess[s].proposals)
                     => Known(q, sess[s].findings, sess[s].proposals)'
               /\ run'[q].status \in {run[q].status, "cancelled"}
    BY <1>1, <1>2 DEF Prepared, Waiting, Clean, KnownToRun, Known, UpToDate
  <2>3. BatchReady(sess[s])'
    <3>1. \A q \in sess[s].batch : q \in Runs
      BY <2>1 DEF Session
    <3> QED  BY <1>1, <2>1, <2>2, <3>1 DEF BatchReady
  <2>4. OwnClean(sess[s])'
    <3>1. CASE sess[s].pc \in {"recover", "load", "mark", "rload", "rdecide", "plan", "exec"}
      <4>1. sess[s].run \in Runs
        BY <2>1, <3>1
      <4>2. \A i \in Steps : InExecution(sess[s], i) => InExecution(sess[s], i)'
        BY <1>1 DEF InExecution
      <4> QED  BY <1>1, <2>1, <2>2, <4>1, <4>2 DEF OwnClean
    <3>2. CASE sess[s].pc \notin {"recover", "load", "mark", "rload", "rdecide", "plan", "exec"}
      BY <1>1, <2>1, <3>2 DEF OwnClean
    <3> QED  BY <3>1, <3>2
  <2> QED  BY <2>3, <2>4
<1> QED
  BY <1>3, <1>4 DEF CleanInv

\* Nothing but leases moves, if anything does.
LEMMA StatusesKeptClean ==
    ASSUME TypeInv, CleanInv, UNCHANGED <<run, persisted, agentAsset, sess>>,
           \A q \in Runs : \A j \in Steps :
               step'[q][j].status = step[q][j].status /\ step'[q][j].out = step[q][j].out
    PROVE  CleanInv'
<1>1. ASSUME NEW q \in Runs
      PROVE  /\ Waiting(q) = Waiting(q)' /\ Clean(q) = Clean(q)'
             /\ \A findings, proposals : Known(q, findings, proposals)
                                            => Known(q, findings, proposals)'
  BY DEF Waiting, Clean, Known
<1>2. ASSUME NEW q \in Runs PROVE KnownToRun(q) => KnownToRun(q)'
  <2>1. PICK row : row = run[q]
    OBVIOUS
  <2>2. Known(q, row.findings, row.proposals) => Known(q, row.findings, row.proposals)'
    BY <1>1
  <2> QED  BY <2>1, <2>2 DEF KnownToRun
<1>3. ASSUME NEW q \in Runs PROVE AtRest(q)' /\ Complete(q)'
  <2>1. AtRest(q)'
    BY <1>1, <1>2 DEF CleanInv, AtRest, Executing
  <2>2. Complete(q)'
    <3>1. Complete(q)
      BY DEF CleanInv
    <3> QED  BY <3>1 DEF Complete
  <2> QED  BY <2>1, <2>2
<1>4. ASSUME NEW s \in Sessions PROVE BatchReady(sess[s])' /\ OwnClean(sess[s])'
  <2>1. /\ BatchReady(sess[s]) /\ OwnClean(sess[s]) /\ sess[s] \in Session
        /\ sess[s].pc \notin {"idle", "select"} => sess[s].run \in Runs
    BY DEF CleanInv, TypeInv, TypeOK, OnRun
  <2>2. PICK me : me = sess[s]
    OBVIOUS
  <2>3. ASSUME NEW q \in Runs PROVE Prepared(me, q) => Prepared(me, q)'
    BY <1>1, <1>2 DEF Prepared, UpToDate
  <2>4. BatchReady(sess[s])'
    <3>1. \A q \in me.batch : q \in Runs
      BY <2>1, <2>2 DEF Session
    <3> QED  BY <2>1, <2>2, <2>3, <3>1 DEF BatchReady
  <2>5. OwnClean(sess[s])'
    <3>1. CASE me.pc \in {"recover", "load", "mark", "rload", "rdecide", "plan", "exec"}
      <4>1. me.run \in Runs
        BY <2>1, <2>2, <3>1
      <4>2. \A i \in Steps : InExecution(me, i) => InExecution(me, i)'
        BY <4>1 DEF InExecution
      <4>3. /\ Prepared(me, me.run) => Prepared(me, me.run)'
            /\ Waiting(me.run) = Waiting(me.run)' /\ Clean(me.run) = Clean(me.run)'
            /\ KnownToRun(me.run) => KnownToRun(me.run)'
            /\ UpToDate(me, me.run) => UpToDate(me, me.run)'
            /\ Known(me.run, me.findings, me.proposals)
                  => Known(me.run, me.findings, me.proposals)'
        BY <1>1, <1>2, <2>3, <4>1 DEF UpToDate
      <4>4. me = sess'[s]
        BY <2>2
      <4> QED  BY <2>1, <2>2, <4>2, <4>3, <4>4 DEF OwnClean
    <3>2. CASE me.pc \notin {"recover", "load", "mark", "rload", "rdecide", "plan", "exec"}
      BY <2>1, <2>2, <3>2 DEF OwnClean
    <3> QED  BY <3>1, <3>2
  <2> QED  BY <2>4, <2>5
<1> QED
  BY <1>3, <1>4 DEF CleanInv

-----------------------------------------------------------------------------
(* Theorems: without crashes *)

LEMMA InitClean == Init => CleanInv
<1> SUFFICES ASSUME Init PROVE CleanInv
  OBVIOUS
<1>1. ASSUME NEW r \in Runs PROVE AtRest(r) /\ Complete(r)
  <2>1. /\ run[r] = AbsentRun /\ \A i \in Steps : step[r][i] = FreshStep
    BY DEF Init
  <2>2. Clean(r)
    BY <2>1 DEF Clean, FreshStep
  <2>3. KnownToRun(r)
    BY <2>1 DEF KnownToRun, Known, FreshStep, AbsentRun
  <2> QED  BY <2>1, <2>2, <2>3 DEF AtRest, Complete, AbsentRun
<1>2. ASSUME NEW s \in Sessions PROVE BatchReady(sess[s]) /\ OwnClean(sess[s])
  <2>1. sess[s] = Idle
    BY DEF Init
  <2>2. sess[s].pc = "idle" /\ sess[s].batch = {} /\ sess[s].run = 0
    BY <2>1 DEF Idle
  <2> QED  BY <2>2 DEF BatchReady, OwnClean
<1> QED
  BY <1>1, <1>2 DEF CleanInv

LEMMA CleanStep ==
    ASSUME OneSession, NoCrash, IInv, SoloInv, CleanInv, [Next]_vars
    PROVE  CleanInv'
<1>1. TypeInv /\ StatusesEarned
  BY DEF IInv
<1>2. ASSUME NEW s \in Sessions, Advance(s) PROVE CleanInv'
  <2>1. ASSUME NEW i \in Steps, AgentFound(s, i) \/ AgentInserted(s, i) PROVE CleanInv'
    <3>1. CASE AgentFound(s, i)
      <4>1. /\ sess[s].pc = "exec" /\ sess[s].work[i].stage # "none" /\ Kind[i] = "agent"
            /\ AgentReports(s, i)
        BY <3>1 DEF AgentFound, Working
      <4> QED  BY <1>1, <4>1, AgentReportsClean
    <3>2. CASE AgentInserted(s, i)
      <4>1. Working(s, i, "inserting") /\ AgentReports(s, i)
        BY <3>2 DEF AgentInserted
      <4> QED  BY <1>1, <4>1, InsertingClean, AgentReportsClean
    <3> QED  BY <2>1, <3>1, <3>2
  <2>2. ASSUME NEW i \in Steps, AgentConflict(s, i) PROVE CleanInv'
    <3>1. Working(s, i, "inserting")
      BY <2>2 DEF AgentConflict
    <3>2. ~AgentConflict(s, i)
      BY <1>1, <3>1, InsertingClean
    <3> QED  BY <2>2, <3>2
  <2>3. ASSUME StepWork(s) PROVE CleanInv'
    BY <1>1, <2>1, <2>2, <2>3, ExecuteStepClean, HookSendClean, HookSaveClean, AgentMissingClean
       DEF StepWork
  <2>4. ~ResumeNothing(s)
    BY <1>1, ResumeFindsGate DEF ResumeNothing
  <2> QED
    BY <1>1, <1>2, <2>3, <2>4, LookupClean, DrainSelectClean, RecoverRunClean, LoadStepsClean,
       MarkRunningClean, LeaseReadyClean, RecordResultsClean, FinalizeClean, RefreshClean,
       PublishClean, ResumeLoadClean, ApproveClean, RejectClean DEF Advance
<1>3. ASSUME NEW s \in Sessions, DrainRecover(s) \/ Crash(s) PROVE CleanInv'
  <2>1. ~Crash(s)
    BY <1>1 DEF Crash, NoCrash, TypeInv, TypeOK
  <2> QED  BY <1>1, <1>3, <2>1, DrainRecoverClean
<1>4. ASSUME NEW s \in Sessions, NEW r \in Runs, StartSync(s, r) \/ ResumeLookup(s, r)
      PROVE  CleanInv'
  BY <1>1, <1>4, StartSyncClean, ResumeLookupClean
<1>5. ASSUME NEW r \in Runs, Enqueue(r) \/ Cancel(r) PROVE CleanInv'
  BY <1>1, <1>5, EnqueueClean, CancelClean
<1>6. ASSUME NEW r \in Runs, NEW i \in Steps, LeaseLapse(r, i) \/ LeaseOverrun(r, i)
      PROVE  CleanInv'
  <2>1. /\ UNCHANGED <<run, persisted, agentAsset, sess>>
        /\ step' = [step EXCEPT ![r][i].lease = "expired"]
    BY <1>6 DEF LeaseLapse, LeaseOverrun
  <2>2. \A q \in Runs : \A j \in Steps :
           step'[q][j].status = step[q][j].status /\ step'[q][j].out = step[q][j].out
    BY <1>1, <2>1 DEF TypeInv, TypeOK, StepRow
  <2> QED  BY <1>1, <2>1, <2>2, StatusesKeptClean
<1>7. UNCHANGED vars => CleanInv'
  <2>1. UNCHANGED vars => UNCHANGED <<run, persisted, agentAsset, sess>> /\ UNCHANGED step
    BY DEF vars, rowVars
  <2> QED  BY <1>1, <2>1, StatusesKeptClean
<1> QED
  BY <1>2, <1>3, <1>4, <1>5, <1>6, <1>7 DEF Next

\* Served one at a time and without a crash, a run between two requests is at
\* rest or at its gate, and what its steps emitted is among its outputs
\* (process_workflow_run, resume_workflow_run).
THEOREM CleanTheorem ==
    ASSUME OneSession, NoCrash
    PROVE  Spec => []CleanInv
<1>1. IInv /\ SoloInv /\ CleanInv /\ [Next]_vars => CleanInv'
  BY CleanStep
<1>2. Spec => []IInv
  BY InitEarned, EarnedStep, PTL DEF Spec
<1> QED
  BY <1>1, <1>2, InitClean, SoloTheorem, PTL DEF Spec

\* Finalizing (process_workflow_run): served one at a time and without a crash,
\* a run is closed as succeeded only when all its steps succeeded, whatever was
\* cancelled, resumed or recovered before.
THEOREM CompleteTheorem ==
    ASSUME OneSession, NoCrash
    PROVE  Spec => []SuccessIsComplete
<1>1. CleanInv => SuccessIsComplete
  BY DEF CleanInv, Complete, SuccessIsComplete
<1> QED
  BY <1>1, CleanTheorem, PTL

\* _persist_findings_and_proposals: served one at a time and without a crash, a succeeded run
\* has a row for every finding and every proposal its steps put in their outputs.
THEOREM PersistedTheorem ==
    ASSUME OneSession, NoCrash
    PROVE  Spec => []EmittedIsPersisted
<1>1. CleanInv => EmittedIsPersisted
  BY DEF CleanInv, Complete, EmittedIsPersisted
<1> QED
  BY <1>1, CleanTheorem, PTL

=============================================================================
