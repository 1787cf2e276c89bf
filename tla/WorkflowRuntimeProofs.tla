------------------------ MODULE WorkflowRuntimeProofs ------------------------
(***************************************************************************)
(* What WorkflowRuntime promises for every number of runs, sessions,       *)
(* crashes and overruns and for every template: its states are typed, no   *)
(* step starts before its predecessors completed, and no external write    *)
(* leaves before its gates.                                                *)
(***************************************************************************)
EXTENDS WorkflowRuntime, WellFoundedInduction, TLAPS

-----------------------------------------------------------------------------
(* Helpers *)

\* First picks an element of any non-empty set of naturals.
LEMMA FirstIn ==
    ASSUME NEW S, S \subseteq Nat, S # {}
    PROVE  First(S) \in S
<1>1. \E x \in S : \A y \in S : ~ (<<y, x>> \in OpToRel(<, Nat))
  BY NatLessThanWellFounded, WFMin
<1>2. PICK x \in S : \A y \in S : ~ (<<y, x>> \in OpToRel(<, Nat))
  BY <1>1
<1>3. \A y \in S : ~ (y < x)
  BY <1>2, Zenon DEF OpToRel
<1>4. \A y \in S : x <= y
  BY <1>3
<1> QED
  BY <1>4 DEF First

\* Last picks an element of any non-empty set of steps.
LEMMA LastIn ==
    ASSUME NEW S, S \subseteq Steps, S # {}
    PROVE  Last(S) \in S
<1> DEFINE Rest == {NumSteps - x : x \in S}
<1>1. Rest \subseteq Nat /\ Rest # {}
  BY RuntimeAssumption DEF Steps
<1>2. PICK n \in Rest : \A m \in Rest : ~ (<<m, n>> \in OpToRel(<, Nat))
  <2>1. \E n \in Rest : \A m \in Rest : ~ (<<m, n>> \in OpToRel(<, Nat))
    <3> HIDE DEF Rest
    <3> QED  BY <1>1, NatLessThanWellFounded, WFMin
  <2> QED  BY <2>1
<1>3. PICK x \in S : n = NumSteps - x
  BY <1>2
<1>4. \A y \in S : y <= x
  <2> SUFFICES ASSUME NEW y \in S PROVE y <= x
    OBVIOUS
  <2>1. NumSteps - y \in Rest
    OBVIOUS
  <2>2. ~ (NumSteps - y < NumSteps - x)
    BY <1>1, <1>2, <1>3, <2>1, Zenon DEF OpToRel
  <2> QED  BY <2>2, RuntimeAssumption DEF Steps
<1> QED
  BY <1>4 DEF Last

-----------------------------------------------------------------------------
(* Types *)

\* A session that has selected its run is on an existing index.
OnRun == \A s \in Sessions : sess[s].pc \notin {"idle", "select"} => sess[s].run \in Runs

TypeInv == TypeOK /\ OnRun

\* A step that sets session s to a well-typed value keeps all sessions typed.
LEMMA SetTyped ==
    ASSUME TypeInv, NEW s \in Sessions, NEW me \in Session, Set(s, me),
           me.pc \notin {"idle", "select"} => me.run \in Runs
    PROVE  sess' \in [Sessions -> Session] /\ OnRun'
BY DEF TypeInv, TypeOK, OnRun, Set

LEMMA IdleTyped == Idle \in Session
BY DEF Idle, Session, AbsentRun, FreshStep, NoWork, RunRow, RunStatus, StepRow, StepStatus,
       Work, Outcome

LEMMA LookupTyped ==
    ASSUME TypeInv, NEW s \in Sessions, Lookup(s)
    PROVE  TypeInv'
<1> DEFINE r == sess[s].run
           me == IF run[r].status \in Active
                 THEN [sess[s] EXCEPT !.pc = "recover", !.snap[r] = run[r]]
                 ELSE Idle
<1>1. me \in Session /\ (me.pc \notin {"idle", "select"} => me.run \in Runs)
  BY IdleTyped DEF TypeInv, TypeOK, OnRun, Lookup, Session, Idle
<1>2. Set(s, me)
  BY DEF Lookup
<1>3. sess' \in [Sessions -> Session] /\ OnRun'
  <2> HIDE DEF me
  <2> QED  BY <1>1, <1>2, SetTyped
<1> QED
  BY <1>3 DEF TypeInv, TypeOK, Lookup, rowVars, bounds, history

LEMMA NextRunTyped ==
    ASSUME NEW me \in Session
    PROVE  /\ NextRun(me) \in Session
           /\ NextRun(me).pc \notin {"idle", "select"} => NextRun(me).run \in Runs
<1>1. CASE me.batch = {}
  BY <1>1, IdleTyped DEF NextRun, Idle
<1>2. CASE me.batch # {}
  <2>1. First(me.batch) \in me.batch
    BY <1>2, FirstIn, RuntimeAssumption DEF Session, Runs
  <2>2. AbsentRun \in RunRow
    BY DEF AbsentRun, RunRow, RunStatus
  <2> QED
    BY <1>2, <2>1, <2>2, IdleTyped DEF NextRun, Idle, Session
<1> QED
  BY <1>1, <1>2

LEMMA RowsTyped ==
    ASSUME NEW row \in StepRow, NEW s \in Sessions
    PROVE  Recovered(row) \in StepRow /\ Leased(row, s) \in StepRow
<1>1. Recovered(row) \in StepRow
  BY DEF Recovered, StepRow, StepStatus
<1>2. Leased(row, s) \in StepRow
  <2>1. row.attempts + 1 \in Nat
    BY DEF StepRow
  <2> QED  BY <2>1 DEF Leased, StepRow, StepStatus
<1> QED  BY <1>1, <1>2

LEMMA LatestOutTyped ==
    ASSUME NEW c \in [Steps -> StepRow], NEW kind
    PROVE  LatestOut(c, kind) \in Nat
<1> DEFINE made == {i \in Steps : Kind[i] = kind /\ c[i].status = "succeeded"}
<1>1. made # {} => Last(made) \in Steps
  BY LastIn
<1> QED
  BY <1>1 DEF LatestOut, StepRow

LEMMA NewRunTyped ==
    ASSUME TypeInv, NEW r \in Runs, NEW status \in RunStatus, NewRun(r, status)
    PROVE  run' \in [Runs -> RunRow]
<1>1. PICK manual \in BOOLEAN :
          run' = [run EXCEPT ![r].status = status, ![r].manual = manual]
  BY DEF NewRun
<1>2. run[r] \in RunRow
  BY DEF TypeInv, TypeOK
<1>3. [run[r] EXCEPT !.status = status, !.manual = TRUE] \in RunRow
  BY <1>2 DEF RunRow
<1>4. [run[r] EXCEPT !.status = status, !.manual = FALSE] \in RunRow
  BY <1>2 DEF RunRow
<1>5. manual = TRUE \/ manual = FALSE
  OBVIOUS
<1>6. CASE manual = TRUE
  BY <1>1, <1>3, <1>6 DEF TypeInv, TypeOK
<1>7. CASE manual = FALSE
  BY <1>1, <1>4, <1>7 DEF TypeInv, TypeOK
<1> QED
  BY <1>5, <1>6, <1>7

LEMMA EnqueueTyped ==
    ASSUME TypeInv, NEW r \in Runs, Enqueue(r)
    PROVE  TypeInv'
<1>1. run' \in [Runs -> RunRow]
  BY NewRunTyped DEF Enqueue, RunStatus
<1> QED
  BY <1>1 DEF TypeInv, TypeOK, OnRun, Enqueue, bounds, history

LEMMA RequestTyped ==
    ASSUME TypeInv, NEW s \in Sessions, NEW me \in Session, Request(s, me),
           me.pc \notin {"idle", "select"} => me.run \in Runs
    PROVE  /\ sess' \in [Sessions -> Session] /\ OnRun'
           /\ crashes' \in Nat /\ overruns' \in Nat /\ cancels' \in Nat /\ requests' \in Nat
<1>1. Set(s, me)
  BY DEF Request
<1>2. sess' \in [Sessions -> Session] /\ OnRun'
  BY <1>1, SetTyped
<1> QED
  BY <1>2 DEF Request, TypeInv, TypeOK

LEMMA StartSyncTyped ==
    ASSUME TypeInv, NEW s \in Sessions, NEW r \in Runs, StartSync(s, r)
    PROVE  TypeInv'
<1> DEFINE me == [Idle EXCEPT !.pc = "lookup", !.run = r]
<1>1. me \in Session /\ me.run \in Runs
  BY IdleTyped DEF Session, Idle
<1>2. /\ sess' \in [Sessions -> Session] /\ OnRun'
      /\ crashes' \in Nat /\ overruns' \in Nat /\ cancels' \in Nat /\ requests' \in Nat
  BY <1>1, RequestTyped DEF StartSync
<1>3. run' \in [Runs -> RunRow]
  BY NewRunTyped DEF StartSync, RunStatus
<1> QED
  BY <1>2, <1>3 DEF TypeInv, TypeOK, StartSync, history

LEMMA DrainRecoverTyped ==
    ASSUME TypeInv, NEW s \in Sessions, DrainRecover(s)
    PROVE  TypeInv'
<1> DEFINE me == [Idle EXCEPT !.pc = "select"]
<1>1. me \in Session /\ me.pc = "select"
  BY IdleTyped DEF Session, Idle
<1>2. /\ sess' \in [Sessions -> Session] /\ OnRun'
      /\ crashes' \in Nat /\ overruns' \in Nat /\ cancels' \in Nat /\ requests' \in Nat
  BY <1>1, RequestTyped DEF DrainRecover
<1>3. step' \in [Runs -> [Steps -> StepRow]]
  BY RowsTyped DEF TypeInv, TypeOK, DrainRecover
<1> QED
  BY <1>2, <1>3 DEF TypeInv, TypeOK, DrainRecover, history

LEMMA DrainSelectTyped ==
    ASSUME TypeInv, NEW s \in Sessions, DrainSelect(s)
    PROVE  TypeInv'
<1>1. PICK chosen \in SUBSET Runs :
          /\ lock' = [r \in Runs |-> IF r \in chosen THEN s ELSE lock[r]]
          /\ Set(s, NextRun([Idle EXCEPT !.batch = chosen, !.snap = run]))
  BY DEF DrainSelect
<1> DEFINE me == [Idle EXCEPT !.batch = chosen, !.snap = run]
<1>2. me \in Session
  BY IdleTyped DEF Session, Idle, TypeInv, TypeOK
<1>3. sess' \in [Sessions -> Session] /\ OnRun'
  <2> HIDE DEF me
  <2>1. /\ NextRun(me) \in Session
        /\ NextRun(me).pc \notin {"idle", "select"} => NextRun(me).run \in Runs
    BY <1>2, NextRunTyped
  <2>2. Set(s, NextRun(me))
    BY <1>1 DEF me
  <2> QED  BY <2>1, <2>2, SetTyped
<1> QED
  BY <1>1, <1>3 DEF TypeInv, TypeOK, DrainSelect, rowVars, bounds, history

LEMMA LoadStepsTyped ==
    ASSUME TypeInv, NEW s \in Sessions, LoadSteps(s)
    PROVE  TypeInv'
<1> DEFINE me == [sess[s] EXCEPT !.pc = "mark",
                     !.cache = IF sess[s].resumed THEN @ ELSE step[sess[s].run]]
<1>1. me \in Session /\ me.run \in Runs
  <2>1. sess[s] \in Session /\ sess[s].run \in Runs
    BY DEF TypeInv, TypeOK, OnRun, LoadSteps
  <2>2. step[sess[s].run] \in [Steps -> StepRow]
    BY <2>1 DEF TypeInv, TypeOK
  <2> QED  BY <2>1, <2>2 DEF Session
<1>2. Set(s, me)
  BY DEF LoadSteps
<1>3. sess' \in [Sessions -> Session] /\ OnRun'
  <2> HIDE DEF me
  <2> QED  BY <1>1, <1>2, SetTyped
<1> QED
  BY <1>3 DEF TypeInv, TypeOK, LoadSteps, rowVars, bounds, history

\* What a session past its selection works on.
LEMMA OwnRun ==
    ASSUME TypeInv, NEW s \in Sessions, sess[s].pc \notin {"idle", "select"}
    PROVE  /\ sess[s] \in Session /\ sess[s].run \in Runs
           /\ run[sess[s].run] \in RunRow /\ sess[s].snap[sess[s].run] \in RunRow
           /\ step[sess[s].run] \in [Steps -> StepRow]
           /\ sess[s].cache \in [Steps -> StepRow] /\ sess[s].work \in [Steps -> Work]
BY DEF TypeInv, TypeOK, OnRun, Session

LEMMA UnlockTyped ==
    ASSUME TypeInv, NEW s \in Sessions, Unlock(s)
    PROVE  lock' \in [Runs -> Sessions \cup {Nobody}]
BY DEF TypeInv, TypeOK, Unlock

LEMMA AssetsTyped ==
    ASSUME TypeInv, NEW s \in Sessions, NEW fate \in {Nobody, "committed"}, Assets(s, fate)
    PROVE  agentAsset' \in [Runs -> [Steps -> Sessions \cup {Nobody, "committed"}]]
BY DEF TypeInv, TypeOK, Assets

LEMMA RecoverRunTyped ==
    ASSUME TypeInv, NEW s \in Sessions, RecoverRun(s)
    PROVE  TypeInv'
<1> DEFINE me == sess[s]
           r == me.run
           lost == {i \in Steps : Expired(step[r][i])}
           held == IF me.resumed THEN me.cache ELSE step[r]
           pending == [i \in Steps |-> IF i \in lost THEN Recovered(held[i]) ELSE held[i]]
           touched == lost # {} /\ me.snap[r].status = "running"
           row(i) == [step[r][i] EXCEPT
                        !.status = Flush(@, held[i].status, "pending"),
                        !.owner = Flush(@, held[i].owner, Nobody),
                        !.lease = Flush(@, held[i].lease, "none"),
                        !.out = held[i].out]
           new == [me EXCEPT !.pc = "load", !.cache = IF me.resumed THEN pending ELSE @]
<1>1. /\ me \in Session /\ r \in Runs /\ run[r] \in RunRow /\ me.snap[r] \in RunRow
      /\ step[r] \in [Steps -> StepRow] /\ me.cache \in [Steps -> StepRow]
  BY OwnRun DEF RecoverRun
<1>2. held \in [Steps -> StepRow]
  BY <1>1
<1>3. \A i \in Steps : row(i) \in StepRow
  <2> HIDE DEF held
  <2> SUFFICES ASSUME NEW i \in Steps
               PROVE  row(i) \in StepRow
    OBVIOUS
  <2>1. step[r][i] \in StepRow /\ held[i] \in StepRow
    BY <1>1, <1>2
  <2>2. /\ Flush(step[r][i].status, held[i].status, "pending") \in StepStatus
        /\ Flush(step[r][i].owner, held[i].owner, Nobody) \in Sessions \cup {Nobody}
        /\ Flush(step[r][i].lease, held[i].lease, "none") \in {"none", "live", "expired"}
        /\ held[i].out \in Nat
    BY <2>1 DEF Flush, StepRow, StepStatus
  <2> QED
    BY <2>1, <2>2 DEF StepRow
<1>4. pending \in [Steps -> StepRow]
  BY <1>2, RowsTyped
<1>5. step' \in [Runs -> [Steps -> StepRow]]
  <2>1. step' = [step EXCEPT ![r] = [i \in Steps |-> IF i \notin lost THEN step[r][i] ELSE row(i)]]
    BY DEF RecoverRun
  <2>2. [i \in Steps |-> IF i \notin lost THEN step[r][i] ELSE row(i)] \in [Steps -> StepRow]
    BY <1>1, <1>3
  <2> QED
    BY <2>1, <2>2 DEF TypeInv, TypeOK
<1>6. run' \in [Runs -> RunRow]
  <2>1. [run[r] EXCEPT !.findings = IF touched THEN me.snap[r].findings ELSE @,
                       !.proposals = IF touched THEN me.snap[r].proposals ELSE @] \in RunRow
    BY <1>1 DEF RunRow
  <2>2. run' = [run EXCEPT ![r] =
                  [run[r] EXCEPT !.findings = IF touched THEN me.snap[r].findings ELSE @,
                                 !.proposals = IF touched THEN me.snap[r].proposals ELSE @]]
    BY <1>1 DEF RecoverRun, TypeInv, TypeOK
  <2> QED
    BY <2>1, <2>2 DEF TypeInv, TypeOK
<1>7. sess' \in [Sessions -> Session] /\ OnRun'
  <2>1. new \in Session /\ new.run \in Runs
    BY <1>1, <1>4 DEF Session
  <2>2. Set(s, new)
    BY DEF RecoverRun
  <2> HIDE DEF new
  <2> QED  BY <2>1, <2>2, SetTyped
<1>8. lock' \in [Runs -> Sessions \cup {Nobody}]
  BY UnlockTyped DEF RecoverRun, TypeInv, TypeOK
<1> QED
  BY <1>5, <1>6, <1>7, <1>8 DEF TypeInv, TypeOK, RecoverRun, bounds, history

LEMMA MarkRunningTyped ==
    ASSUME TypeInv, NEW s \in Sessions, MarkRunning(s)
    PROVE  TypeInv'
<1> DEFINE me == sess[s]
           r == me.run
           new == [me EXCEPT !.pc = "plan", !.findings = me.snap[r].findings,
                             !.proposals = me.snap[r].proposals]
<1>1. me \in Session /\ r \in Runs /\ run[r] \in RunRow /\ me.snap[r] \in RunRow
  BY OwnRun DEF MarkRunning
<1>2. run' \in [Runs -> RunRow]
  <2>1. [run[r] EXCEPT !.status = Flush(@, me.snap[r].status, "running")] \in RunRow
    BY <1>1 DEF RunRow, RunStatus, Flush
  <2> QED
    BY <2>1 DEF MarkRunning, TypeInv, TypeOK
<1>3. sess' \in [Sessions -> Session] /\ OnRun'
  <2>1. new \in Session /\ new.run \in Runs
    BY <1>1 DEF Session, RunRow
  <2>2. Set(s, new)
    BY DEF MarkRunning
  <2> HIDE DEF new
  <2> QED  BY <2>1, <2>2, SetTyped
<1>4. lock' \in [Runs -> Sessions \cup {Nobody}]
  BY UnlockTyped DEF MarkRunning
<1> QED
  BY <1>2, <1>3, <1>4 DEF TypeInv, TypeOK, MarkRunning, bounds, history

LEMMA LeaseReadyTyped ==
    ASSUME TypeInv, NEW s \in Sessions, LeaseReady(s)
    PROVE  TypeInv'
<1> DEFINE me == sess[s]
           r == me.run
           ready == Ready(me.cache)
           leased == [i \in Steps |-> Leased(me.cache[i], s)]
           cache == [i \in Steps |-> IF i \in ready THEN leased[i] ELSE me.cache[i]]
           work == [i \in Steps |-> IF i \in ready THEN [NoWork EXCEPT !.stage = "leased"]
                                     ELSE NoWork]
           new == [me EXCEPT !.pc = "exec", !.cache = cache, !.work = work]
           row(i) == [leased[i] EXCEPT !.out = step[r][i].out]
<1>1. /\ me \in Session /\ r \in Runs /\ step[r] \in [Steps -> StepRow]
      /\ me.cache \in [Steps -> StepRow]
  BY OwnRun DEF LeaseReady
<1>2. leased \in [Steps -> StepRow]
  BY <1>1, RowsTyped
<1>3. step' \in [Runs -> [Steps -> StepRow]]
  <2>1. step' = [step EXCEPT ![r] = [i \in Steps |-> IF i \in ready THEN row(i) ELSE step[r][i]]]
    BY DEF LeaseReady
  <2>2. \A i \in Steps : row(i) \in StepRow
    <3> HIDE DEF leased
    <3> QED  BY <1>1, <1>2 DEF StepRow
  <2>3. [i \in Steps |-> IF i \in ready THEN row(i) ELSE step[r][i]] \in [Steps -> StepRow]
    BY <1>1, <2>2
  <2> QED
    BY <2>1, <2>3 DEF TypeInv, TypeOK
<1>4. cache \in [Steps -> StepRow]
  <2> HIDE DEF leased
  <2> QED  BY <1>1, <1>2
<1>5. work \in [Steps -> Work]
  BY DEF NoWork, Work, Outcome
<1>6. sess' \in [Sessions -> Session] /\ OnRun'
  <2>1. Set(s, new)
    BY DEF LeaseReady
  <2>2. new \in Session /\ new.run \in Runs
    <3> HIDE DEF cache, work
    <3> QED  BY <1>1, <1>4, <1>5 DEF Session
  <2> HIDE DEF new
  <2> QED  BY <2>1, <2>2, SetTyped
<1> QED
  BY <1>3, <1>6 DEF TypeInv, TypeOK, LeaseReady, bounds, history

LEMMA FinishedTyped ==
    ASSUME TypeInv, NEW s \in Sessions, sess[s].pc = "exec", NEW i \in Steps,
           NEW status \in Outcome, NEW out \in Nat, Finished(s, i, status, out)
    PROVE  sess' \in [Sessions -> Session] /\ OnRun'
<1> DEFINE new == [sess[s] EXCEPT !.work[i] = [stage |-> "done", status |-> status, out |-> out]]
<1>1. sess[s] \in Session /\ sess[s].run \in Runs
  BY OwnRun
<1>2. [stage |-> "done", status |-> status, out |-> out] \in Work
  BY DEF Work
<1>3. new \in Session /\ new.run \in Runs
  BY <1>1, <1>2 DEF Session
<1>4. Set(s, new)
  BY DEF Finished
<1> HIDE DEF new
<1> QED  BY <1>3, <1>4, SetTyped

LEMMA StageTyped ==
    ASSUME TypeInv, NEW s \in Sessions, sess[s].pc = "exec", NEW i \in Steps,
           NEW stage \in {"inserting", "sent"}, Set(s, [sess[s] EXCEPT !.work[i].stage = stage])
    PROVE  sess' \in [Sessions -> Session] /\ OnRun'
<1> DEFINE new == [sess[s] EXCEPT !.work[i].stage = stage]
<1>1. sess[s] \in Session /\ sess[s].run \in Runs /\ sess[s].work[i] \in Work
  BY OwnRun
<1>2. [sess[s].work[i] EXCEPT !.stage = stage] \in Work
  BY <1>1 DEF Work
<1>3. new \in Session /\ new.run \in Runs
  BY <1>1, <1>2 DEF Session
<1> HIDE DEF new
<1> QED  BY <1>3, SetTyped DEF new

LEMMA StartedTyped ==
    ASSUME TypeInv, NEW s \in Sessions, sess[s].pc = "exec", NEW i \in Steps, Started(s, i)
    PROVE  execs' \in [Runs -> [Steps -> Nat]] /\ FreshId(s, i) \in Nat
<1>1. sess[s].run \in Runs
  BY OwnRun
<1>2. execs \in [Runs -> [Steps -> Nat]]
  BY DEF TypeInv, TypeOK
<1>3. execs[sess[s].run] \in [Steps -> Nat] /\ execs[sess[s].run][i] + 1 \in Nat
  BY <1>1, <1>2
<1> QED
  BY <1>1, <1>2, <1>3 DEF Started, FreshId

LEMMA ExecuteStepTyped ==
    ASSUME TypeInv, NEW s \in Sessions, NEW i \in Steps, ExecuteStep(s, i)
    PROVE  TypeInv'
<1> DEFINE me == sess[s]
           out == CASE Kind[i] = "finding.emit" -> LatestOut(me.cache, "agent")
                    [] Kind[i] = "change.propose" ->
                         IF LatestOut(me.cache, "finding.emit") = 0 THEN 0 ELSE FreshId(s, i)
                    [] OTHER -> 0
<1>1. me.pc = "exec" /\ me.cache \in [Steps -> StepRow]
  BY OwnRun DEF ExecuteStep, Working
<1>2. execs' \in [Runs -> [Steps -> Nat]] /\ FreshId(s, i) \in Nat
  BY <1>1, StartedTyped DEF ExecuteStep
<1>3. out \in Nat
  BY <1>1, <1>2, LatestOutTyped
<1>4. PICK status \in Outcomes(Kind[i], me.snap[me.run].manual) : Finished(s, i, status, out)
  BY DEF ExecuteStep
<1>5. status \in Outcome
  BY <1>4 DEF Outcomes, Outcome
<1>6. sess' \in [Sessions -> Session] /\ OnRun'
  <2> HIDE DEF out
  <2> QED  BY <1>1, <1>3, <1>4, <1>5, FinishedTyped
<1> QED
  BY <1>2, <1>6 DEF TypeInv, TypeOK, ExecuteStep, rowVars, bounds

LEMMA AgentReportsTyped ==
    ASSUME TypeInv, NEW s \in Sessions, sess[s].pc = "exec", NEW i \in Steps, AgentReports(s, i),
           agentAsset' \in [Runs -> [Steps -> Sessions \cup {Nobody, "committed"}]]
    PROVE  TypeInv'
<1>1. execs' \in [Runs -> [Steps -> Nat]] /\ FreshId(s, i) \in Nat
  BY StartedTyped DEF AgentReports
<1>2. sess' \in [Sessions -> Session] /\ OnRun'
  <2>1. \E status \in Outcome, out \in Nat : Finished(s, i, status, out)
    BY <1>1 DEF AgentReports, Outcome
  <2> QED  BY <2>1, FinishedTyped
<1> QED
  BY <1>1, <1>2 DEF TypeInv, TypeOK, AgentReports, bounds

LEMMA AgentFoundTyped ==
    ASSUME TypeInv, NEW s \in Sessions, NEW i \in Steps, AgentFound(s, i)
    PROVE  TypeInv'
BY AgentReportsTyped DEF AgentFound, Working, TypeInv, TypeOK

LEMMA AgentInsertedTyped ==
    ASSUME TypeInv, NEW s \in Sessions, NEW i \in Steps, AgentInserted(s, i)
    PROVE  TypeInv'
<1>1. agentAsset' \in [Runs -> [Steps -> Sessions \cup {Nobody, "committed"}]]
  BY OwnRun DEF AgentInserted, Working, TypeInv, TypeOK
<1> QED
  BY <1>1, AgentReportsTyped DEF AgentInserted, Working

LEMMA AgentMissingTyped ==
    ASSUME TypeInv, NEW s \in Sessions, NEW i \in Steps, AgentMissing(s, i)
    PROVE  TypeInv'
<1>1. sess' \in [Sessions -> Session] /\ OnRun'
  BY StageTyped DEF AgentMissing, Working
<1> QED
  BY <1>1 DEF TypeInv, TypeOK, AgentMissing, rowVars, bounds, history

LEMMA AgentConflictTyped ==
    ASSUME TypeInv, NEW s \in Sessions, NEW i \in Steps, AgentConflict(s, i)
    PROVE  TypeInv'
<1>1. sess' \in [Sessions -> Session] /\ OnRun'
  BY IdleTyped, SetTyped DEF AgentConflict, Idle
<1>2. /\ lock' \in [Runs -> Sessions \cup {Nobody}]
      /\ agentAsset' \in [Runs -> [Steps -> Sessions \cup {Nobody, "committed"}]]
  BY UnlockTyped, AssetsTyped DEF AgentConflict
<1> QED
  BY <1>1, <1>2 DEF TypeInv, TypeOK, AgentConflict, bounds, history

LEMMA HookSendTyped ==
    ASSUME TypeInv, NEW s \in Sessions, NEW i \in Steps, HookSend(s, i)
    PROVE  TypeInv'
<1>1. sess[s].pc = "exec" /\ sess[s].run \in Runs
  BY OwnRun DEF HookSend, Working
<1>2. execs' \in [Runs -> [Steps -> Nat]]
  BY <1>1, StartedTyped DEF HookSend
<1>3. \/ Finished(s, i, "succeeded", 0) /\ UNCHANGED sends
      \/ /\ Set(s, [sess[s] EXCEPT !.work[i].stage = "sent"])
         /\ sends' = [sends EXCEPT ![sess[s].run] = @ + 1]
  BY Zenon DEF HookSend
<1>4. sess' \in [Sessions -> Session] /\ OnRun'
  <2>1. "succeeded" \in Outcome /\ 0 \in Nat
    BY DEF Outcome
  <2> QED  BY <1>1, <1>3, <2>1, FinishedTyped, StageTyped
<1>5. sends' \in [Runs -> Nat]
  <2>1. sends \in [Runs -> Nat]
    BY DEF TypeInv, TypeOK
  <2>2. sends[sess[s].run] + 1 \in Nat
    BY <1>1, <2>1
  <2>3. UNCHANGED sends \/ sends' = [sends EXCEPT ![sess[s].run] = @ + 1]
    BY <1>3
  <2> QED  BY <2>1, <2>2, <2>3
<1> QED
  BY <1>2, <1>4, <1>5 DEF TypeInv, TypeOK, HookSend, rowVars, bounds

LEMMA HookSaveTyped ==
    ASSUME TypeInv, NEW s \in Sessions, NEW i \in Steps, HookSave(s, i)
    PROVE  TypeInv'
<1>1. /\ sess[s].pc = "exec" /\ sess[s].run \in Runs
      /\ sess[s].cache \in [Steps -> StepRow]
  BY OwnRun DEF HookSave, Working
<1>2. sess' \in [Sessions -> Session] /\ OnRun'
  <2>1. \E status \in Outcome : Finished(s, i, status, 0)
    BY DEF HookSave, Outcome
  <2> QED  BY <1>1, <2>1, FinishedTyped
<1>3. hookCalls' \in [Runs -> SUBSET Nat]
  <2>1. LatestOut(sess[s].cache, "change.propose") \in Nat
    BY <1>1, LatestOutTyped
  <2> DEFINE key == LatestOut(sess[s].cache, "change.propose")
  <2>2. \/ hookCalls' = [hookCalls EXCEPT ![sess[s].run] = @ \cup {key}]
        \/ UNCHANGED hookCalls
    BY Zenon DEF HookSave
  <2> HIDE DEF key
  <2>3. hookCalls \in [Runs -> SUBSET Nat] /\ key \in Nat
    BY <2>1 DEF key, TypeInv, TypeOK
  <2>4. hookCalls[sess[s].run] \cup {key} \in SUBSET Nat
    BY <1>1, <2>3
  <2> QED  BY <2>2, <2>3, <2>4
<1>4. agentAsset' \in [Runs -> [Steps -> Sessions \cup {Nobody, "committed"}]]
  BY AssetsTyped DEF HookSave
<1> QED
  BY <1>2, <1>3, <1>4 DEF TypeInv, TypeOK, HookSave, bounds, history

LEMMA VerdictTyped ==
    ASSUME NEW work \in [Steps -> Work]
    PROVE  Verdict(work) \in Outcome
<1> DEFINE bad == {i \in Steps : work[i].stage = "done" /\ work[i].status # "succeeded"}
<1>1. bad # {} => Last(bad) \in Steps
  BY LastIn
<1> QED
  BY <1>1 DEF Verdict, Work, Outcome

LEMMA RecordResultsTyped ==
    ASSUME TypeInv, NEW s \in Sessions, RecordResults(s)
    PROVE  TypeInv'
<1> DEFINE me == sess[s]
           r == me.run
           todo == {i \in Steps : me.work[i].stage = "done"}
           Result(row, i) == [row EXCEPT !.status = me.work[i].status, !.owner = Nobody,
                                         !.lease = "none", !.out = me.work[i].out]
           rows == [i \in Steps |-> IF i \in todo THEN Result(step[r][i], i) ELSE step[r][i]]
           cache == [i \in Steps |-> IF i \in todo THEN Result(me.cache[i], i) ELSE me.cache[i]]
           found == {me.work[i].out : i \in Made(me.work, "finding.emit")}
           proposed == {[id |-> me.work[i].out, finding |-> LatestOut(me.cache, "finding.emit")] :
                           i \in Made(me.work, "change.propose")}
           new == [me EXCEPT !.pc = "plan", !.cache = cache, !.work = [i \in Steps |-> NoWork],
                             !.findings = @ \cup found, !.proposals = @ \cup proposed,
                             !.verdict = Verdict(me.work)]
<1>1. /\ me \in Session /\ r \in Runs /\ step[r] \in [Steps -> StepRow]
      /\ me.cache \in [Steps -> StepRow] /\ me.work \in [Steps -> Work]
  BY OwnRun DEF RecordResults
<1>2. \A row \in StepRow : \A i \in Steps : Result(row, i) \in StepRow
  BY <1>1 DEF StepRow, StepStatus, Work, Outcome
<1>3. rows \in [Steps -> StepRow] /\ cache \in [Steps -> StepRow]
  <2> HIDE DEF Result, todo
  <2> QED  BY <1>1, <1>2
<1>4. step' \in [Runs -> [Steps -> StepRow]]
  <2>1. step' = [step EXCEPT ![r] = rows]
    BY DEF RecordResults
  <2> HIDE DEF rows
  <2> QED  BY <1>1, <1>3, <2>1 DEF TypeInv, TypeOK
<1>5. found \in SUBSET Nat
  BY <1>1 DEF Made, Work
<1>6. proposed \in SUBSET Proposal
  BY <1>1, LatestOutTyped DEF Made, Work, Proposal
<1>7. [i \in Steps |-> NoWork] \in [Steps -> Work]
  BY DEF NoWork, Work, Outcome
<1>8. sess' \in [Sessions -> Session] /\ OnRun'
  <2>1. Set(s, new)
    BY Zenon DEF RecordResults
  <2>2. Verdict(me.work) \in Outcome
    BY <1>1, VerdictTyped
  <2>3. new \in Session /\ new.run \in Runs
    <3> HIDE DEF cache, found, proposed
    <3> QED  BY <1>1, <1>3, <1>5, <1>6, <1>7, <2>2 DEF Session
  <2> HIDE DEF new
  <2> QED  BY <2>1, <2>3, SetTyped
<1>9. agentAsset' \in [Runs -> [Steps -> Sessions \cup {Nobody, "committed"}]]
  BY AssetsTyped DEF RecordResults
<1>10. decided' \in [Runs -> SUBSET Steps] /\ completed' \in [Runs -> SUBSET Steps]
  <2>1. decided \in [Runs -> SUBSET Steps] /\ completed \in [Runs -> SUBSET Steps]
    BY DEF TypeInv, TypeOK
  <2> QED  BY <1>1, <2>1 DEF RecordResults
<1> QED
  BY <1>4, <1>8, <1>9, <1>10 DEF TypeInv, TypeOK, RecordResults, bounds

LEMMA FinalizeTyped ==
    ASSUME TypeInv, NEW s \in Sessions, Finalize(s)
    PROVE  TypeInv'
<1> DEFINE me == sess[s]
           r == me.run
           final == FinalStatus(me)
           loaded == <<me.snap[r].findings, me.snap[r].proposals>>
           outputs == Flush(<<run[r].findings, run[r].proposals>>, loaded,
                            <<me.findings, me.proposals>>)
           row == [run[r] EXCEPT !.status = Flush(@, "running", final),
                                 !.findings = outputs[1], !.proposals = outputs[2]]
           known == persisted[r].findings \cup me.findings
           kept == persisted[r].proposals \cup {p \in me.proposals : p.finding \in known}
           rows == [i \in Steps |->
                      IF final = "failed" /\ me.cache[i].status = "pending"
                      THEN [step[r][i] EXCEPT !.status = "blocked"] ELSE step[r][i]]
           new == [me EXCEPT !.pc = "refresh"]
<1>1. /\ me \in Session /\ r \in Runs /\ run[r] \in RunRow /\ me.snap[r] \in RunRow
      /\ step[r] \in [Steps -> StepRow]
  BY OwnRun DEF Finalize
<1>2. row \in RunRow
  <2>1. final \in RunStatus /\ run[r].status \in RunStatus
    BY <1>1 DEF FinalStatus, RunStatus, RunRow, Session, Outcome
  <2>2. outputs \in (SUBSET Nat) \X (SUBSET Proposal)
    BY <1>1 DEF Flush, RunRow, Session
  <2>3. Flush(run[r].status, "running", final) \in RunStatus
    BY <2>1 DEF Flush
  <2> HIDE DEF final, outputs
  <2> QED  BY <1>1, <2>2, <2>3 DEF RunRow
<1>3. run' \in [Runs -> RunRow]
  <2>1. run' = [run EXCEPT ![r] = row]
    BY Zenon DEF Finalize
  <2> HIDE DEF row
  <2> QED  BY <1>2, <2>1 DEF TypeInv, TypeOK
<1>4. step' \in [Runs -> [Steps -> StepRow]]
  <2>1. step' = [step EXCEPT ![r] = rows]
    BY Zenon DEF Finalize
  <2>2. rows \in [Steps -> StepRow]
    <3> HIDE DEF final
    <3> QED  BY <1>1 DEF StepRow, StepStatus
  <2> HIDE DEF rows
  <2> QED  BY <2>1, <2>2 DEF TypeInv, TypeOK
<1>5. persisted' \in [Runs -> [findings : SUBSET Nat, proposals : SUBSET Proposal]]
  <2>1. persisted' = [persisted EXCEPT ![r] = [findings |-> known, proposals |-> kept]]
    BY DEF Finalize
  <2>2. persisted \in [Runs -> [findings : SUBSET Nat, proposals : SUBSET Proposal]]
    BY DEF TypeInv, TypeOK
  <2>3. known \in SUBSET Nat /\ kept \in SUBSET Proposal
    BY <1>1, <2>2 DEF Session
  <2> HIDE DEF known, kept
  <2> QED  BY <2>1, <2>2, <2>3
<1>6. sess' \in [Sessions -> Session] /\ OnRun'
  <2>1. Set(s, new)
    BY Zenon DEF Finalize
  <2>2. new \in Session /\ new.run \in Runs
    BY <1>1 DEF Session
  <2> HIDE DEF new
  <2> QED  BY <2>1, <2>2, SetTyped
<1> QED
  BY <1>3, <1>4, <1>5, <1>6 DEF TypeInv, TypeOK, Finalize, bounds, history

LEMMA RefreshTyped ==
    ASSUME TypeInv, NEW s \in Sessions, Refresh(s)
    PROVE  TypeInv'
<1> DEFINE me == [sess[s] EXCEPT !.pc = "publish", !.snap[sess[s].run] = run[sess[s].run]]
<1>1. me \in Session /\ me.run \in Runs
  <2>1. sess[s] \in Session /\ sess[s].run \in Runs /\ run[sess[s].run] \in RunRow
    BY OwnRun DEF Refresh
  <2> QED  BY <2>1 DEF Session
<1>2. Set(s, me)
  BY DEF Refresh
<1>3. sess' \in [Sessions -> Session] /\ OnRun'
  <2> HIDE DEF me
  <2> QED  BY <1>1, <1>2, SetTyped
<1> QED
  BY <1>3 DEF TypeInv, TypeOK, Refresh, rowVars, bounds, history

LEMMA PublishTyped ==
    ASSUME TypeInv, NEW s \in Sessions, Publish(s)
    PROVE  TypeInv'
<1>1. /\ sess[s] \in Session /\ sess[s].run \in Runs /\ sess[s].snap[sess[s].run] \in RunRow
      /\ Set(s, NextRun(sess[s]))
  BY OwnRun DEF Publish
<1>2. sess' \in [Sessions -> Session] /\ OnRun'
  <2>1. /\ NextRun(sess[s]) \in Session
        /\ NextRun(sess[s]).pc \notin {"idle", "select"} => NextRun(sess[s]).run \in Runs
    BY <1>1, NextRunTyped
  <2> QED  BY <1>1, <2>1, SetTyped
<1>3. announced' \in [Runs -> SUBSET RunStatus]
  <2>1. announced \in [Runs -> SUBSET RunStatus]
    BY DEF TypeInv, TypeOK
  <2>2. FinishedStatus(sess[s]) \in RunStatus
    BY <1>1 DEF FinishedStatus, RunRow
  <2>3. announced' = [announced EXCEPT ![sess[s].run] = @ \cup {FinishedStatus(sess[s])}]
    BY DEF Publish
  <2>4. announced[sess[s].run] \cup {FinishedStatus(sess[s])} \in SUBSET RunStatus
    BY <1>1, <2>1, <2>2
  <2> QED  BY <2>1, <2>3, <2>4
<1> QED
  BY <1>2, <1>3 DEF TypeInv, TypeOK, Publish, rowVars, bounds

LEMMA ResumeLookupTyped ==
    ASSUME TypeInv, NEW s \in Sessions, NEW r \in Runs, ResumeLookup(s, r)
    PROVE  TypeInv'
<1> DEFINE me == [Idle EXCEPT !.pc = "rload", !.run = r, !.snap[r] = run[r]]
<1>1. me \in Session /\ me.run \in Runs
  BY IdleTyped DEF TypeInv, TypeOK, Session, Idle
<1>2. /\ sess' \in [Sessions -> Session] /\ OnRun'
      /\ crashes' \in Nat /\ overruns' \in Nat /\ cancels' \in Nat /\ requests' \in Nat
  BY <1>1, RequestTyped DEF ResumeLookup
<1> QED
  BY <1>2 DEF TypeInv, TypeOK, ResumeLookup, rowVars, history

LEMMA ResumeLoadTyped ==
    ASSUME TypeInv, NEW s \in Sessions, ResumeLoad(s)
    PROVE  TypeInv'
<1> DEFINE me == [sess[s] EXCEPT !.pc = "rdecide", !.cache = step[sess[s].run], !.resumed = TRUE]
<1>1. me \in Session /\ me.run \in Runs
  <2>1. sess[s] \in Session /\ sess[s].run \in Runs /\ step[sess[s].run] \in [Steps -> StepRow]
    BY OwnRun DEF ResumeLoad
  <2> QED  BY <2>1 DEF Session
<1>2. Set(s, me)
  BY DEF ResumeLoad
<1>3. sess' \in [Sessions -> Session] /\ OnRun'
  <2> HIDE DEF me
  <2> QED  BY <1>1, <1>2, SetTyped
<1> QED
  BY <1>3 DEF TypeInv, TypeOK, ResumeLoad, rowVars, bounds, history

LEMMA StatusTyped ==
    ASSUME TypeInv, NEW r \in Runs, NEW status \in RunStatus,
           run' = [run EXCEPT ![r].status = status]
    PROVE  run' \in [Runs -> RunRow]
<1>1. run[r] \in RunRow
  BY DEF TypeInv, TypeOK
<1>2. [run[r] EXCEPT !.status = status] \in RunRow
  BY <1>1 DEF RunRow
<1> QED
  BY <1>2 DEF TypeInv, TypeOK

LEMMA GateTyped ==
    ASSUME NEW c, Awaiting(c) # {}
    PROVE  First(Awaiting(c)) \in Steps /\ First(Awaiting(c)) \in Awaiting(c)
<1>1. Awaiting(c) \subseteq Steps /\ Steps \subseteq Nat
  BY RuntimeAssumption DEF Awaiting, Steps
<1>2. First(Awaiting(c)) \in Awaiting(c)
  BY <1>1, FirstIn
<1> QED
  BY <1>1, <1>2

LEMMA ResumeNothingTyped ==
    ASSUME TypeInv, NEW s \in Sessions, ResumeNothing(s)
    PROVE  TypeInv'
<1>1. sess' \in [Sessions -> Session] /\ OnRun'
  BY IdleTyped, SetTyped DEF ResumeNothing, Idle
<1>2. run' \in [Runs -> RunRow]
  BY OwnRun, StatusTyped DEF ResumeNothing, RunStatus
<1> QED
  BY <1>1, <1>2 DEF TypeInv, TypeOK, ResumeNothing, bounds, history

LEMMA ApproveTyped ==
    ASSUME TypeInv, NEW s \in Sessions, Approve(s)
    PROVE  TypeInv'
<1> DEFINE me == sess[s]
           r == me.run
           gate == First(Awaiting(me.cache))
           Approved(row, i) ==
               [row EXCEPT !.status = IF i = gate THEN "succeeded"
                                      ELSE IF me.cache[i].status = "blocked" THEN "pending"
                                      ELSE @]
           rows == [i \in Steps |-> Approved(step[r][i], i)]
           cache == [i \in Steps |-> Approved(me.cache[i], i)]
           new == [me EXCEPT !.pc = "recover", !.snap[r].status = "running", !.cache = cache]
<1>1. /\ me \in Session /\ r \in Runs /\ run[r] \in RunRow /\ me.snap[r] \in RunRow
      /\ step[r] \in [Steps -> StepRow] /\ me.cache \in [Steps -> StepRow]
  BY OwnRun DEF Approve
<1>2. gate \in Steps
  BY GateTyped DEF Approve
<1>3. \A row \in StepRow : \A i \in Steps : Approved(row, i) \in StepRow
  <2> HIDE DEF gate
  <2> QED  BY DEF StepRow, StepStatus
<1>4. rows \in [Steps -> StepRow] /\ cache \in [Steps -> StepRow]
  <2> HIDE DEF Approved
  <2> QED  BY <1>1, <1>3
<1>5. step' \in [Runs -> [Steps -> StepRow]]
  <2>1. step' = [step EXCEPT ![r] = rows]
    BY Zenon DEF Approve
  <2> HIDE DEF rows
  <2> QED  BY <1>4, <2>1 DEF TypeInv, TypeOK
<1>6. run' \in [Runs -> RunRow]
  BY <1>1, StatusTyped DEF Approve, RunStatus
<1>7. sess' \in [Sessions -> Session] /\ OnRun'
  <2>1. Set(s, new)
    BY Zenon DEF Approve
  <2>2. new \in Session /\ new.run \in Runs
    <3>1. [me.snap[r] EXCEPT !.status = "running"] \in RunRow
      BY <1>1 DEF RunRow, RunStatus
    <3> HIDE DEF cache
    <3> QED  BY <1>1, <1>4, <3>1 DEF Session
  <2> HIDE DEF new
  <2> QED  BY <2>1, <2>2, SetTyped
<1>8. approved' \in SUBSET Runs /\ completed' \in [Runs -> SUBSET Steps]
  <2>1. approved \in SUBSET Runs /\ completed \in [Runs -> SUBSET Steps]
    BY DEF TypeInv, TypeOK
  <2>2. approved' = approved \cup {r} /\ completed' = [completed EXCEPT ![r] = @ \cup {gate}]
    BY DEF Approve
  <2> HIDE DEF gate
  <2> QED  BY <1>1, <1>2, <2>1, <2>2
<1> QED
  BY <1>5, <1>6, <1>7, <1>8 DEF TypeInv, TypeOK, Approve, bounds

LEMMA RejectTyped ==
    ASSUME TypeInv, NEW s \in Sessions, Reject(s)
    PROVE  TypeInv'
<1> DEFINE r == sess[s].run
           gate == First(Awaiting(sess[s].cache))
           new == [sess[s] EXCEPT !.pc = "publish", !.snap[r].status = "cancelled"]
<1>1. /\ sess[s] \in Session /\ r \in Runs /\ run[r] \in RunRow /\ sess[s].snap[r] \in RunRow
      /\ step[r] \in [Steps -> StepRow]
  BY OwnRun DEF Reject
<1>2. step' \in [Runs -> [Steps -> StepRow]]
  <2>1. gate \in Steps
    BY GateTyped DEF Reject
  <2>2. step' = [step EXCEPT ![r][gate].status = "cancelled"]
    BY DEF Reject
  <2>3. [step[r][gate] EXCEPT !.status = "cancelled"] \in StepRow
    BY <1>1, <2>1 DEF StepRow, StepStatus
  <2> HIDE DEF gate
  <2> QED  BY <1>1, <2>1, <2>2, <2>3 DEF TypeInv, TypeOK
<1>3. run' \in [Runs -> RunRow]
  BY <1>1, StatusTyped DEF Reject, RunStatus
<1>4. sess' \in [Sessions -> Session] /\ OnRun'
  <2>1. Set(s, new)
    BY DEF Reject
  <2>2. new \in Session /\ new.run \in Runs
    <3>1. [sess[s].snap[r] EXCEPT !.status = "cancelled"] \in RunRow
      BY <1>1 DEF RunRow, RunStatus
    <3> QED  BY <1>1, <3>1 DEF Session
  <2> HIDE DEF new
  <2> QED  BY <2>1, <2>2, SetTyped
<1> QED
  BY <1>2, <1>3, <1>4 DEF TypeInv, TypeOK, Reject, bounds, history

LEMMA CancelTyped ==
    ASSUME TypeInv, NEW r \in Runs, Cancel(r)
    PROVE  TypeInv'
<1>1. run' \in [Runs -> RunRow] /\ announced' \in [Runs -> SUBSET RunStatus]
  BY StatusTyped DEF Cancel, TypeInv, TypeOK, RunStatus
<1> QED
  BY <1>1 DEF TypeInv, TypeOK, OnRun, Cancel

LEMMA CrashTyped ==
    ASSUME TypeInv, NEW s \in Sessions, Crash(s)
    PROVE  TypeInv'
<1>1. sess' \in [Sessions -> Session] /\ OnRun'
  BY IdleTyped, SetTyped DEF Crash, Idle
<1>2. /\ lock' \in [Runs -> Sessions \cup {Nobody}]
      /\ agentAsset' \in [Runs -> [Steps -> Sessions \cup {Nobody, "committed"}]]
  BY UnlockTyped, AssetsTyped DEF Crash
<1> QED
  BY <1>1, <1>2 DEF TypeInv, TypeOK, Crash, history

LEMMA LeaseTimeTyped ==
    ASSUME TypeInv, NEW r \in Runs, NEW i \in Steps, LeaseLapse(r, i) \/ LeaseOverrun(r, i)
    PROVE  TypeInv'
<1>1. step' \in [Runs -> [Steps -> StepRow]]
  <2>1. [step[r][i] EXCEPT !.lease = "expired"] \in StepRow
    <3>1. step[r][i] \in StepRow
      BY DEF TypeInv, TypeOK
    <3> QED  BY <3>1 DEF StepRow
  <2>2. step' = [step EXCEPT ![r][i].lease = "expired"]
    BY DEF LeaseLapse, LeaseOverrun
  <2> QED  BY <2>1, <2>2 DEF TypeInv, TypeOK
<1>2. overruns' \in Nat
  BY DEF LeaseLapse, LeaseOverrun, TypeInv, TypeOK, bounds
<1> QED
  BY <1>1, <1>2 DEF TypeInv, TypeOK, OnRun, LeaseLapse, LeaseOverrun, bounds, history

LEMMA InitTyped == Init => TypeInv
<1> SUFFICES ASSUME Init PROVE TypeInv
  OBVIOUS
<1>1. AbsentRun \in RunRow /\ FreshStep \in StepRow
  BY DEF AbsentRun, RunRow, RunStatus, FreshStep, StepRow, StepStatus
<1>2. OnRun
  BY DEF OnRun, Init, Idle
<1> QED
  BY <1>1, <1>2, IdleTyped DEF Init, TypeInv, TypeOK

LEMMA TypeStep == TypeInv /\ [Next]_vars => TypeInv'
<1> SUFFICES ASSUME TypeInv, [Next]_vars PROVE TypeInv'
  OBVIOUS
<1>1. ASSUME NEW s \in Sessions, Advance(s) PROVE TypeInv'
  <2>1. ASSUME StepWork(s) PROVE TypeInv'
    BY <2>1, ExecuteStepTyped, HookSendTyped, HookSaveTyped, AgentFoundTyped, AgentMissingTyped,
       AgentInsertedTyped, AgentConflictTyped DEF StepWork
  <2> QED
    BY <1>1, <2>1, LookupTyped, DrainSelectTyped, RecoverRunTyped, LoadStepsTyped,
       MarkRunningTyped, LeaseReadyTyped, RecordResultsTyped, FinalizeTyped, RefreshTyped, PublishTyped,
       ResumeLoadTyped, ResumeNothingTyped, ApproveTyped, RejectTyped DEF Advance
<1>2. ASSUME NEW s \in Sessions, DrainRecover(s) \/ Crash(s) PROVE TypeInv'
  BY <1>2, DrainRecoverTyped, CrashTyped
<1>3. ASSUME NEW s \in Sessions, NEW r \in Runs, StartSync(s, r) \/ ResumeLookup(s, r)
      PROVE  TypeInv'
  BY <1>3, StartSyncTyped, ResumeLookupTyped
<1>4. ASSUME NEW r \in Runs, Enqueue(r) \/ Cancel(r) PROVE TypeInv'
  BY <1>4, EnqueueTyped, CancelTyped
<1>5. ASSUME NEW r \in Runs, NEW i \in Steps, LeaseLapse(r, i) \/ LeaseOverrun(r, i)
      PROVE  TypeInv'
  BY <1>5, LeaseTimeTyped
<1>6. CASE UNCHANGED vars
  BY <1>6 DEF vars, rowVars, bounds, history, TypeInv, TypeOK, OnRun
<1> QED
  BY <1>1, <1>2, <1>3, <1>4, <1>5, <1>6 DEF Next

LEMMA TypeInvariant == Spec => []TypeInv
BY InitTyped, TypeStep, PTL DEF Spec

\* Whatever interleaves, crashes or overruns, every row and every session stays
\* well typed; in particular a session that has selected a run is on a run that
\* the table has, and every result and every announcement is a known status.
THEOREM TypeCorrect == Spec => []TypeOK
BY TypeInvariant, PTL DEF TypeInv

-----------------------------------------------------------------------------
(* Statuses are earned *)

IInv == TypeInv /\ StatusesEarned

\* What every step does to what the invariant looks back on: completed steps
\* stay recorded, existing runs stay and keep their inputs.
Grows ==
    \A r \in Runs :
        /\ completed[r] \subseteq completed'[r]
        /\ run[r].status # "absent" =>
              run'[r].status # "absent" /\ run'[r].manual = run[r].manual

LEMMA SessionKept ==
    ASSUME IInv, Grows, NEW t \in Sessions, sess'[t] = sess[t]
    PROVE  SessionBacked(sess[t])' /\ SessionOnRun(sess[t])'
<1>1. SessionBacked(sess[t]) /\ SessionOnRun(sess[t])
  BY DEF IInv, StatusesEarned
<1>2. sess[t].run # 0 => sess[t].run \in Runs
  BY DEF IInv, TypeInv, TypeOK, Session
<1>3. SessionOnRun(sess[t])'
  BY <1>1 DEF SessionOnRun, Grows
<1>4. SessionBacked(sess[t])'
  BY <1>1, <1>2 DEF SessionBacked, SessionOnRun, RowBacked, Grows
<1> QED
  BY <1>3, <1>4

\* Rows stay backed when a step only keeps their statuses or takes success away.
LEMMA RowsKept ==
    ASSUME IInv, Grows,
           \A r \in Runs : \A i \in Steps :
              \/ step'[r][i].status = step[r][i].status
              \/ step'[r][i].status \notin {"succeeded", "awaiting_approval"}
    PROVE  RowsBacked'
BY DEF IInv, StatusesEarned, RowsBacked, RowBacked, Grows

\* What was completed stays gated, what was sent or started stays justified, when
\* a step completes, sends and starts nothing.
LEMMA HistoryKept ==
    ASSUME IInv, Grows, UNCHANGED <<completed, decided, approved>>,
           \A r \in Runs : run'[r].status = "absent" => run[r].status = "absent"
    PROVE  /\ CompletedGated'
           /\ UNCHANGED sends => SendsBacked'
           /\ UNCHANGED execs => StartedAfterPredecessors'
<1>1. CompletedGated'
  BY DEF IInv, StatusesEarned, CompletedGated, Grows
<1>2. UNCHANGED sends => SendsBacked'
  BY DEF IInv, StatusesEarned, SendsBacked
<1>3. UNCHANGED execs => StartedAfterPredecessors'
  BY DEF IInv, StatusesEarned, StartedAfterPredecessors
<1> QED
  BY <1>1, <1>2, <1>3

\* No run appears, disappears or changes its inputs, and nothing completes.
RunsStay ==
    /\ UNCHANGED completed
    /\ \A r \in Runs : /\ run'[r].status = "absent" <=> run[r].status = "absent"
                       /\ run'[r].manual = run[r].manual

LEMMA RunsStayGrows == RunsStay => Grows
BY DEF RunsStay, Grows

LEMMA RunKept == UNCHANGED <<run, completed>> => RunsStay
BY DEF RunsStay

LEMMA StatusKept ==
    ASSUME TypeInv, NEW r \in Runs, run[r].status # "absent", UNCHANGED completed,
           NEW row \in RunRow, run' = [run EXCEPT ![r] = row],
           row.status # "absent", row.manual = run[r].manual
    PROVE  RunsStay
BY DEF TypeInv, TypeOK, RunsStay

\* A step of session s that earns nothing only has to leave a backed session.
LEMMA SessionStep ==
    ASSUME IInv, NEW s \in Sessions, NEW me, Set(s, me),
           RunsStay, UNCHANGED <<decided, approved>>,
           \A r \in Runs : \A i \in Steps :
              \/ step'[r][i].status = step[r][i].status
              \/ step'[r][i].status \notin {"succeeded", "awaiting_approval"},
           SessionBacked(sess[s])' /\ SessionOnRun(sess[s])',
           UNCHANGED sends \/ SendsBacked',
           UNCHANGED execs \/ StartedAfterPredecessors'
    PROVE  StatusesEarned'
<1>1. /\ Grows /\ UNCHANGED completed
      /\ \A r \in Runs : run'[r].status = "absent" => run[r].status = "absent"
  BY RunsStayGrows DEF RunsStay
<1>2. RowsBacked'
  BY <1>1, RowsKept
<1>3. CompletedGated' /\ SendsBacked' /\ StartedAfterPredecessors'
  BY <1>1, HistoryKept
<1>4. \A t \in Sessions : SessionBacked(sess[t])' /\ SessionOnRun(sess[t])'
  <2> SUFFICES ASSUME NEW t \in Sessions
               PROVE  SessionBacked(sess[t])' /\ SessionOnRun(sess[t])'
    OBVIOUS
  <2>1. CASE t = s
    BY <2>1
  <2>2. CASE t # s
    <3>1. sess'[t] = sess[t]
      BY <2>2 DEF Set, IInv, TypeInv, TypeOK
    <3> QED  BY <1>1, <3>1, SessionKept
  <2> QED  BY <2>1, <2>2
<1> QED
  BY <1>2, <1>3, <1>4 DEF StatusesEarned

\* The value a step gives to a session.
LEMMA SetValue ==
    ASSUME TypeInv, NEW s \in Sessions, NEW me, Set(s, me)
    PROVE  /\ sess'[s] = me
           /\ \A t \in Sessions : t # s => sess'[t] = sess[t]
BY DEF TypeInv, TypeOK, Set

\* A session that is idle again holds nothing.
LEMMA IdleBacked ==
    ASSUME NEW s \in Sessions, sess'[s].run = 0, sess'[s].batch = {},
           sess'[s].pc \in {"idle", "select"}
    PROVE  SessionBacked(sess[s])' /\ SessionOnRun(sess[s])'
BY RuntimeAssumption DEF SessionBacked, SessionOnRun, Runs

\* A session that keeps its rows and results keeps them backed.
LEMMA HandsKept ==
    ASSUME IInv, Grows, NEW s \in Sessions, sess'[s].run = sess[s].run,
           sess'[s].cache = sess[s].cache, sess'[s].work = sess[s].work
    PROVE  SessionBacked(sess[s])'
<1>1. SessionBacked(sess[s]) /\ SessionOnRun(sess[s])
  BY DEF IInv, StatusesEarned
<1>2. sess[s].run # 0 => sess[s].run \in Runs
  BY DEF IInv, TypeInv, TypeOK, Session
<1> QED
  BY <1>1, <1>2 DEF SessionBacked, SessionOnRun, RowBacked, Grows

\* A session that goes on with its run and its batch stays on existing runs.
LEMMA PlaceKept ==
    ASSUME IInv, Grows, NEW s \in Sessions, sess[s].pc \notin {"idle", "select", "lookup"},
           sess'[s].run = sess[s].run, sess'[s].batch = sess[s].batch,
           \A r \in Runs : sess'[s].snap[r].manual = sess[s].snap[r].manual
    PROVE  SessionOnRun(sess[s])'
<1>1. SessionOnRun(sess[s])
  BY DEF IInv, StatusesEarned
<1> QED
  BY <1>1 DEF SessionOnRun, Grows

LEMMA SessionStays ==
    ASSUME IInv, NEW s \in Sessions, NEW me, Set(s, me), RunsStay,
           UNCHANGED <<step, decided, approved, sends, execs>>,
           SessionBacked(sess[s])' /\ SessionOnRun(sess[s])'
    PROVE  StatusesEarned'
BY SessionStep

LEMMA LookupEarned ==
    ASSUME IInv, NEW s \in Sessions, Lookup(s)
    PROVE  StatusesEarned'
<1> DEFINE r == sess[s].run
<1>1. /\ TypeInv /\ r \in Runs /\ sess[s] \in Session
      /\ SessionBacked(sess[s]) /\ SessionOnRun(sess[s])
  BY OwnRun DEF IInv, StatusesEarned, Lookup
<1>2. RunsStay /\ Grows /\ UNCHANGED <<step, decided, approved, sends, execs>>
  BY RunKept, RunsStayGrows DEF Lookup, rowVars, history
<1>3. CASE run[r].status \in Active
  <2>1. Set(s, [sess[s] EXCEPT !.pc = "recover", !.snap[r] = run[r]])
    BY <1>3 DEF Lookup
  <2>2. sess'[s] = [sess[s] EXCEPT !.pc = "recover", !.snap[r] = run[r]]
    BY <1>1, <2>1, SetValue
  <2>3. SessionBacked(sess[s])'
    BY <1>1, <1>2, <2>2, HandsKept DEF Session
  <2>4. SessionOnRun(sess[s])'
    BY <1>1, <1>2, <2>2 DEF SessionOnRun, Session, Lookup, rowVars
  <2> QED  BY <1>2, <2>1, <2>3, <2>4, SessionStays
<1>4. CASE run[r].status \notin Active
  <2>1. Set(s, Idle) /\ sess'[s] = Idle
    BY <1>1, <1>4, SetValue DEF Lookup
  <2>2. SessionBacked(sess[s])' /\ SessionOnRun(sess[s])'
    BY <2>1, IdleBacked DEF Idle
  <2> QED  BY <1>2, <2>1, <2>2, SessionStays
<1> QED  BY <1>3, <1>4

LEMMA EnqueueEarned ==
    ASSUME IInv, NEW r \in Runs, Enqueue(r)
    PROVE  StatusesEarned'
<1>1. /\ Grows /\ \A q \in Runs : run'[q].status = "absent" => run[q].status = "absent"
      /\ UNCHANGED <<step, sess, completed, decided, approved, sends, execs>>
  BY DEF Enqueue, NewRun, Grows, history, IInv, TypeInv, TypeOK
<1>2. RowsBacked'
  BY <1>1, RowsKept
<1>3. \A t \in Sessions : SessionBacked(sess[t])' /\ SessionOnRun(sess[t])'
  BY <1>1, SessionKept
<1> QED
  BY <1>1, <1>2, <1>3, HistoryKept DEF StatusesEarned

LEMMA StartSyncEarned ==
    ASSUME IInv, NEW s \in Sessions, NEW r \in Runs, StartSync(s, r)
    PROVE  StatusesEarned'
<1> DEFINE me == [Idle EXCEPT !.pc = "lookup", !.run = r]
<1>1. /\ Grows /\ \A q \in Runs : run'[q].status = "absent" => run[q].status = "absent"
      /\ UNCHANGED <<step, completed, decided, approved, sends, execs>>
      /\ run'[r].status = "running"
  BY DEF StartSync, NewRun, Grows, history, IInv, TypeInv, TypeOK
<1>2. RowsBacked'
  BY <1>1, RowsKept
<1>3. sess'[s] = me /\ \A t \in Sessions : t # s => sess'[t] = sess[t]
  <2> HIDE DEF me
  <2> QED  BY SetValue DEF StartSync, Request, IInv, me
<1>4. SessionBacked(sess[s])' /\ SessionOnRun(sess[s])'
  <2>1. /\ sess'[s].pc = "lookup" /\ sess'[s].run = r /\ sess'[s].batch = {} /\ r # 0
        /\ \A i \in Steps : sess'[s].cache[i] = FreshStep /\ sess'[s].work[i] = NoWork
    BY <1>3, RuntimeAssumption DEF Idle, Runs
  <2>2. SessionBacked(sess[s])'
    BY <2>1 DEF SessionBacked, RowBacked, FreshStep, NoWork
  <2>3. SessionOnRun(sess[s])'
    BY <1>1, <2>1 DEF SessionOnRun
  <2> QED  BY <2>2, <2>3
<1>5. \A t \in Sessions : SessionBacked(sess[t])' /\ SessionOnRun(sess[t])'
  BY <1>1, <1>3, <1>4, SessionKept
<1> QED
  BY <1>1, <1>2, <1>5, HistoryKept DEF StatusesEarned

LEMMA DrainRecoverEarned ==
    ASSUME IInv, NEW s \in Sessions, DrainRecover(s)
    PROVE  StatusesEarned'
<1> DEFINE me == [Idle EXCEPT !.pc = "select"]
<1>1. RunsStay /\ UNCHANGED <<decided, approved, sends, execs>> /\ Set(s, me)
  BY RunKept DEF DrainRecover, Request, history
<1>2. SessionBacked(sess[s])' /\ SessionOnRun(sess[s])'
  <2>1. sess'[s] = me
    BY <1>1, SetValue DEF IInv
  <2> QED  BY <2>1, IdleBacked DEF Idle
<1>3. \A r \in Runs : \A i \in Steps :
         \/ step'[r][i].status = step[r][i].status
         \/ step'[r][i].status \notin {"succeeded", "awaiting_approval"}
  <2> SUFFICES ASSUME NEW r \in Runs, NEW i \in Steps
               PROVE  step'[r][i] = step[r][i] \/ step'[r][i].status = "pending"
    OBVIOUS
  <2>1. step[r][i] \in StepRow
    BY DEF IInv, TypeInv, TypeOK
  <2> QED  BY <2>1 DEF DrainRecover, Recovered, StepRow
<1> QED
  BY <1>1, <1>2, <1>3, SessionStep

\* The next run of a batch is taken up with nothing but what was read of it.
LEMMA NextRunBacked ==
    ASSUME IInv, NEW s \in Sessions, NEW me \in Session, sess'[s] = NextRun(me),
           \A r \in me.batch : run'[r].status # "absent" /\ me.snap[r].manual = run'[r].manual
    PROVE  SessionBacked(sess[s])' /\ SessionOnRun(sess[s])'
<1>1. CASE me.batch = {}
  BY <1>1, IdleBacked DEF NextRun, Idle
<1>2. CASE me.batch # {}
  <2>1. First(me.batch) \in me.batch /\ First(me.batch) # 0 /\ me.batch \subseteq Runs
    BY <1>2, FirstIn, RuntimeAssumption DEF Session, Runs
  <2>2. /\ sess'[s].run = First(me.batch) /\ sess'[s].batch = me.batch \ {First(me.batch)}
        /\ \A i \in Steps : sess'[s].cache[i] = FreshStep /\ sess'[s].work[i] = NoWork
        /\ \A r \in me.batch : sess'[s].snap[r] = me.snap[r]
    BY <1>2, <2>1 DEF NextRun, Idle
  <2> QED
    BY <2>1, <2>2 DEF SessionBacked, SessionOnRun, RowBacked, FreshStep, NoWork
<1> QED
  BY <1>1, <1>2

LEMMA DrainSelectEarned ==
    ASSUME IInv, NEW s \in Sessions, DrainSelect(s)
    PROVE  StatusesEarned'
<1>1. PICK chosen \in SUBSET Runs :
          /\ \A r \in chosen : run[r].status \in Active
          /\ Set(s, NextRun([Idle EXCEPT !.batch = chosen, !.snap = run]))
  BY DEF DrainSelect
<1> DEFINE me == [Idle EXCEPT !.batch = chosen, !.snap = run]
<1>2. RunsStay /\ UNCHANGED <<run, step, decided, approved, sends, execs>>
  BY RunKept DEF DrainSelect, rowVars, history
<1>3. sess'[s] = NextRun(me)
  BY <1>1, SetValue DEF IInv
<1>4. me \in Session /\ \A r \in me.batch : run'[r].status # "absent" /\ me.snap[r].manual = run'[r].manual
  BY <1>1, <1>2, IdleTyped DEF Session, Idle, IInv, TypeInv, TypeOK, Active
<1>5. SessionBacked(sess[s])' /\ SessionOnRun(sess[s])'
  <2> HIDE DEF me
  <2> QED  BY <1>3, <1>4, NextRunBacked
<1> QED
  BY <1>1, <1>2, <1>5, SessionStays

LEMMA LoadStepsEarned ==
    ASSUME IInv, NEW s \in Sessions, LoadSteps(s)
    PROVE  StatusesEarned'
<1> DEFINE me == [sess[s] EXCEPT !.pc = "mark",
                     !.cache = IF sess[s].resumed THEN @ ELSE step[sess[s].run]]
<1>1. /\ RunsStay /\ Grows /\ UNCHANGED <<run, completed, step, decided, approved, sends, execs>>
      /\ Set(s, me)
  BY RunKept, RunsStayGrows DEF LoadSteps, rowVars, history
<1>2. /\ TypeInv /\ sess[s] \in Session /\ sess[s].run \in Runs
      /\ SessionBacked(sess[s]) /\ RowsBacked
  BY OwnRun DEF IInv, StatusesEarned, LoadSteps
<1>3. sess'[s] = me
  <2> HIDE DEF me
  <2> QED  BY <1>1, <1>2, SetValue
<1>4. SessionBacked(sess[s])'
  BY <1>1, <1>2, <1>3 DEF SessionBacked, RowsBacked, RowBacked, Session
<1>5. SessionOnRun(sess[s])'
  BY <1>1, <1>2, <1>3, PlaceKept DEF LoadSteps, Session
<1> QED
  BY <1>1, <1>4, <1>5, SessionStays

\* What holds of a session past its selection, gathered once.
LEMMA OwnBacked ==
    ASSUME IInv, NEW s \in Sessions, sess[s].pc \notin {"idle", "select", "lookup"}
    PROVE  /\ SessionBacked(sess[s]) /\ SessionOnRun(sess[s]) /\ sess[s].run # 0
           /\ run[sess[s].run].status # "absent"
           /\ sess[s].snap[sess[s].run].manual = run[sess[s].run].manual
<1>1. sess[s].run \in Runs /\ SessionBacked(sess[s]) /\ SessionOnRun(sess[s])
  BY OwnRun DEF IInv, StatusesEarned
<1> QED
  BY <1>1 DEF SessionOnRun

LEMMA RecoverRunEarned ==
    ASSUME IInv, NEW s \in Sessions, RecoverRun(s)
    PROVE  StatusesEarned'
<1> DEFINE me == sess[s]
           r == me.run
           lost == {i \in Steps : Expired(step[r][i])}
           held == IF me.resumed THEN me.cache ELSE step[r]
           pending == [i \in Steps |-> IF i \in lost THEN Recovered(held[i]) ELSE held[i]]
           touched == lost # {} /\ me.snap[r].status = "running"
           new == [me EXCEPT !.pc = "load", !.cache = IF me.resumed THEN pending ELSE @]
<1>1. /\ TypeInv /\ me \in Session /\ r \in Runs /\ run[r] \in RunRow
      /\ step[r] \in [Steps -> StepRow] /\ me.cache \in [Steps -> StepRow]
      /\ SessionBacked(me)
  BY OwnRun, OwnBacked DEF RecoverRun, IInv
<1>2. UNCHANGED <<completed, decided, approved, sends, execs>> /\ Set(s, new)
  BY Zenon DEF RecoverRun, history
<1>3. sess'[s] = new
  <2> HIDE DEF new
  <2> QED  BY <1>1, <1>2, SetValue
<1>4. RunsStay
  BY <1>1, <1>2 DEF RecoverRun, RunsStay, TypeInv, TypeOK, RunRow
<1>5. Grows
  BY <1>4, RunsStayGrows
<1>6. \A q \in Runs : \A i \in Steps :
         \/ step'[q][i].status = step[q][i].status
         \/ step'[q][i].status \notin {"succeeded", "awaiting_approval"}
  <2> SUFFICES ASSUME NEW q \in Runs, NEW i \in Steps
               PROVE  step'[q][i].status \in {step[q][i].status, "pending"}
    OBVIOUS
  <2>1. step[q][i] \in StepRow
    BY <1>1 DEF TypeInv, TypeOK
  <2>2. CASE q # r \/ i \notin lost
    BY <1>1, <2>2 DEF RecoverRun, TypeInv, TypeOK
  <2>3. CASE q = r /\ i \in lost
    <3>1. step'[q][i].status = Flush(step[r][i].status, held[i].status, "pending")
      BY <1>1, <2>1, <2>3 DEF RecoverRun, TypeInv, TypeOK, StepRow
    <3> QED  BY <2>3, <3>1 DEF Flush
  <2> QED  BY <2>2, <2>3
<1>7. SessionBacked(sess[s])'
  <2>1. \A i \in Steps : \/ sess'[s].cache[i].status = me.cache[i].status
                          \/ sess'[s].cache[i].status = "pending"
    <3>1. CASE me.resumed
      <4>1. \A i \in Steps : sess'[s].cache[i] \in {me.cache[i], Recovered(me.cache[i])}
        BY <1>1, <1>3, <3>1 DEF Session
      <4>2. \A i \in Steps : Recovered(me.cache[i]).status = "pending"
        BY <1>1 DEF Recovered, StepRow
      <4> QED  BY <4>1, <4>2
    <3>2. CASE ~me.resumed
      BY <1>1, <1>3, <3>2 DEF Session
    <3> QED  BY <3>1, <3>2
  <2>2. sess'[s].run = r /\ sess'[s].work = me.work
    BY <1>1, <1>3 DEF Session
  <2>3. run'[r].manual = run[r].manual
    BY <1>1, <1>4 DEF RunsStay
  <2> QED
    BY <1>1, <1>2, <2>1, <2>2, <2>3 DEF SessionBacked, RowBacked
<1>8. SessionOnRun(sess[s])'
  BY <1>1, <1>3, <1>5, PlaceKept DEF RecoverRun, Session
<1> QED
  BY <1>2, <1>4, <1>6, <1>7, <1>8, SessionStep

LEMMA MarkRunningEarned ==
    ASSUME IInv, NEW s \in Sessions, MarkRunning(s)
    PROVE  StatusesEarned'
<1> DEFINE me == sess[s]
           r == me.run
           row == [run[r] EXCEPT !.status = Flush(@, me.snap[r].status, "running")]
           new == [me EXCEPT !.pc = "plan", !.findings = me.snap[r].findings,
                             !.proposals = me.snap[r].proposals]
<1>1. /\ TypeInv /\ me \in Session /\ r \in Runs /\ run[r] \in RunRow
      /\ run[r].status # "absent"
  BY OwnRun, OwnBacked DEF MarkRunning, IInv
<1>2. UNCHANGED <<step, completed, decided, approved, sends, execs>> /\ Set(s, new)
  BY Zenon DEF MarkRunning, history
<1>3. sess'[s] = new
  <2> HIDE DEF new
  <2> QED  BY <1>1, <1>2, SetValue
<1>4. RunsStay
  <2>1. run' = [run EXCEPT ![r] = row]
    BY <1>1 DEF MarkRunning, TypeInv, TypeOK
  <2>2. row \in RunRow /\ row.status # "absent" /\ row.manual = run[r].manual
    BY <1>1 DEF Flush, RunRow, RunStatus
  <2> HIDE DEF row
  <2> QED  BY <1>1, <1>2, <2>1, <2>2, StatusKept
<1>5. Grows
  BY <1>4, RunsStayGrows
<1>6. SessionBacked(sess[s])' /\ SessionOnRun(sess[s])'
  BY <1>1, <1>3, <1>5, HandsKept, PlaceKept DEF MarkRunning, Session
<1> QED
  BY <1>2, <1>4, <1>6, SessionStays

LEMMA LeaseReadyEarned ==
    ASSUME IInv, NEW s \in Sessions, LeaseReady(s)
    PROVE  StatusesEarned'
<1> DEFINE me == sess[s]
           r == me.run
           ready == Ready(me.cache)
           leased == [i \in Steps |-> Leased(me.cache[i], s)]
           cache == [i \in Steps |-> IF i \in ready THEN leased[i] ELSE me.cache[i]]
           work == [i \in Steps |-> IF i \in ready THEN [NoWork EXCEPT !.stage = "leased"]
                                     ELSE NoWork]
           new == [me EXCEPT !.pc = "exec", !.cache = cache, !.work = work]
<1>1. /\ TypeInv /\ me \in Session /\ r \in Runs /\ step[r] \in [Steps -> StepRow]
      /\ me.cache \in [Steps -> StepRow] /\ SessionBacked(me) /\ r # 0
  BY OwnRun, OwnBacked DEF LeaseReady, IInv
<1>2. /\ RunsStay /\ UNCHANGED <<completed, decided, approved, sends, execs>>
      /\ Set(s, new)
  BY RunKept DEF LeaseReady, history
<1>3. Grows
  BY <1>2, RunsStayGrows
<1>4. sess'[s] = new
  <2> HIDE DEF new
  <2> QED  BY <1>1, <1>2, SetValue
<1>5. \A i \in Steps : leased[i].status = "running"
  BY <1>1 DEF Leased, StepRow
<1>6. \A q \in Runs : \A i \in Steps :
         \/ step'[q][i].status = step[q][i].status
         \/ step'[q][i].status \notin {"succeeded", "awaiting_approval"}
  <2> SUFFICES ASSUME NEW q \in Runs, NEW i \in Steps
               PROVE  step'[q][i].status \in {step[q][i].status, "running"}
    OBVIOUS
  <2>1. step' = [step EXCEPT ![r] = [j \in Steps |->
                    IF j \in ready THEN [leased[j] EXCEPT !.out = step[r][j].out]
                    ELSE step[r][j]]]
    BY Zenon DEF LeaseReady
  <2>2. [leased[i] EXCEPT !.out = step[r][i].out].status = "running"
    BY <1>1, <1>5, RowsTyped DEF StepRow
  <2> HIDE DEF leased
  <2> QED  BY <1>1, <2>1, <2>2 DEF TypeInv, TypeOK
<1>7. \A i \in ready : 1..(i - 1) \subseteq completed[r]
  <2> SUFFICES ASSUME NEW i \in ready PROVE 1..(i - 1) \subseteq completed[r]
    OBVIOUS
  <2>1. i \in 1..NumSteps /\ NumSteps \in Nat
    BY RuntimeAssumption DEF Ready, Steps
  <2>2. CASE i = 1
    BY <2>2
  <2>3. CASE i > 1
    <3>1. i - 1 \in Steps /\ me.cache[i - 1].status = "succeeded"
      BY <2>1, <2>3 DEF Ready, Steps
    <3>2. i - 1 \in completed[r] /\ 1..((i - 1) - 1) \subseteq completed[r]
      BY <1>1, <3>1 DEF SessionBacked, RowBacked
    <3> QED  BY <2>1, <2>3, <3>2
  <2> QED  BY <2>1, <2>2, <2>3
<1>8. SessionBacked(sess[s])'
  <2>1. /\ sess'[s].run = r
        /\ \A i \in Steps : sess'[s].cache[i].status \in {me.cache[i].status, "running"}
        /\ \A i \in Steps : sess'[s].work[i].stage \in {"none", "leased"}
        /\ \A i \in Steps : sess'[s].work[i].stage = "leased" => i \in ready
    <3> HIDE DEF leased, ready
    <3> QED  BY <1>1, <1>4, <1>5 DEF Session, NoWork
  <2> HIDE DEF ready
  <2> QED
    BY <1>1, <1>2, <1>7, <2>1 DEF SessionBacked, RowBacked
<1>9. SessionOnRun(sess[s])'
  BY <1>1, <1>3, <1>4, PlaceKept DEF LeaseReady, Session
<1> QED
  BY <1>2, <1>6, <1>8, <1>9, SessionStep

\* A result a session has not recorded yet is backed if the gates say so.
LEMMA FinishedBacked ==
    ASSUME IInv, NEW s \in Sessions, sess[s].pc = "exec", NEW i \in Steps,
           sess[s].work[i].stage # "none", RunsStay,
           NEW status \in Outcome, NEW out \in Nat, Finished(s, i, status, out),
           status = "awaiting_approval" => Kind[i] = "gate.human",
           status = "succeeded" /\ Kind[i] = "gate.human" => ~run[sess[s].run].manual
    PROVE  SessionBacked(sess[s])' /\ SessionOnRun(sess[s])'
<1> DEFINE me == sess[s]
           result == [stage |-> "done", status |-> status, out |-> out]
<1>1. /\ TypeInv /\ me \in Session /\ me.run \in Runs /\ me.work \in [Steps -> Work]
      /\ SessionBacked(me) /\ me.run # 0
  BY OwnRun, OwnBacked DEF IInv
<1>2. sess'[s] = [me EXCEPT !.work[i] = result]
  BY <1>1, SetValue DEF Finished
<1>3. /\ sess'[s].run = me.run /\ sess'[s].batch = me.batch /\ sess'[s].cache = me.cache
      /\ sess'[s].snap = me.snap
      /\ sess'[s].work[i] = result /\ \A j \in Steps : j # i => sess'[s].work[j] = me.work[j]
  BY <1>1, <1>2 DEF Session
<1>4. completed' = completed /\ run'[me.run].manual = run[me.run].manual
  BY <1>1 DEF RunsStay
<1>5. SessionBacked(sess[s])'
  BY <1>1, <1>3, <1>4 DEF SessionBacked, RowBacked
<1>6. SessionOnRun(sess[s])'
  BY <1>1, <1>3, PlaceKept, RunsStayGrows
<1> QED
  BY <1>5, <1>6

\* Moving leased work to another stage changes nothing about what backs it.
LEMMA StageBacked ==
    ASSUME IInv, NEW s \in Sessions, sess[s].pc = "exec", NEW i \in Steps,
           sess[s].work[i].stage # "none", RunsStay, Kind[i] # "gate.human",
           NEW stage \in {"inserting", "sent"},
           Set(s, [sess[s] EXCEPT !.work[i].stage = stage])
    PROVE  SessionBacked(sess[s])' /\ SessionOnRun(sess[s])'
<1> DEFINE me == sess[s]
<1>1. /\ TypeInv /\ me \in Session /\ me.run \in Runs /\ me.work \in [Steps -> Work]
      /\ SessionBacked(me) /\ me.run # 0
  BY OwnRun, OwnBacked DEF IInv
<1>2. sess'[s] = [me EXCEPT !.work[i].stage = stage]
  BY <1>1, SetValue
<1>3. /\ sess'[s].run = me.run /\ sess'[s].batch = me.batch /\ sess'[s].cache = me.cache
      /\ sess'[s].snap = me.snap
      /\ sess'[s].work[i].stage = stage
      /\ \A j \in Steps : j # i => sess'[s].work[j] = me.work[j]
  BY <1>1, <1>2 DEF Session, Work
<1>4. completed' = completed /\ run'[me.run].manual = run[me.run].manual
  BY <1>1 DEF RunsStay
<1>5. SessionBacked(sess[s])'
  BY <1>1, <1>3, <1>4 DEF SessionBacked, RowBacked
<1>6. SessionOnRun(sess[s])'
  BY <1>1, <1>3, PlaceKept, RunsStayGrows
<1> QED
  BY <1>5, <1>6

LEMMA StartedEarned ==
    ASSUME IInv, NEW s \in Sessions, sess[s].pc = "exec", NEW i \in Steps,
           sess[s].work[i].stage # "none", RunsStay, Started(s, i)
    PROVE  StartedAfterPredecessors' /\ 1..(i - 1) \subseteq completed[sess[s].run]
<1>1. /\ sess[s].run \in Runs /\ 1..(i - 1) \subseteq completed[sess[s].run]
  BY OwnRun, OwnBacked DEF IInv, SessionBacked
<1>2. \A r \in Runs : \A j \in Steps :
         execs'[r][j] = execs[r][j] \/ (r = sess[s].run /\ j = i)
  BY <1>1 DEF Started, IInv, TypeInv, TypeOK
<1> QED
  BY <1>1, <1>2 DEF IInv, StatusesEarned, StartedAfterPredecessors, RunsStay

LEMMA ExecuteStepEarned ==
    ASSUME IInv, NEW s \in Sessions, NEW i \in Steps, ExecuteStep(s, i)
    PROVE  StatusesEarned'
<1> DEFINE me == sess[s]
           out == CASE Kind[i] = "finding.emit" -> LatestOut(me.cache, "agent")
                    [] Kind[i] = "change.propose" ->
                         IF LatestOut(me.cache, "finding.emit") = 0 THEN 0 ELSE FreshId(s, i)
                    [] OTHER -> 0
<1>1. /\ me.pc = "exec" /\ me.work[i].stage # "none" /\ Started(s, i)
      /\ me.cache \in [Steps -> StepRow] /\ me.snap[me.run].manual = run[me.run].manual
  BY OwnRun, OwnBacked DEF ExecuteStep, Working, IInv
<1>2. RunsStay /\ UNCHANGED <<step, decided, approved, sends>>
  BY RunKept DEF ExecuteStep, rowVars
<1>3. PICK status \in Outcomes(Kind[i], me.snap[me.run].manual) : Finished(s, i, status, out)
  BY DEF ExecuteStep
<1>4. /\ status \in Outcome
      /\ status = "awaiting_approval" => Kind[i] = "gate.human"
      /\ status = "succeeded" /\ Kind[i] = "gate.human" => ~run[me.run].manual
  BY <1>1, <1>3 DEF Outcomes, Outcome
<1>5. out \in Nat
  <2>1. FreshId(s, i) \in Nat
    BY <1>1, StartedTyped DEF IInv
  <2> QED  BY <1>1, <2>1, LatestOutTyped
<1>6. SessionBacked(sess[s])' /\ SessionOnRun(sess[s])'
  <2> HIDE DEF out
  <2> QED  BY <1>1, <1>2, <1>3, <1>4, <1>5, FinishedBacked
<1>7. StartedAfterPredecessors'
  BY <1>1, <1>2, StartedEarned
<1> QED
  <2>1. \E new : Set(s, new)
    BY <1>3 DEF Finished
  <2> QED  BY <1>2, <1>6, <1>7, <2>1, SessionStep

LEMMA AgentReportsEarned ==
    ASSUME IInv, NEW s \in Sessions, NEW i \in Steps, sess[s].pc = "exec",
           sess[s].work[i].stage # "none", Kind[i] # "gate.human", AgentReports(s, i)
    PROVE  StatusesEarned'
<1>1. RunsStay /\ UNCHANGED <<step, decided, approved, sends>> /\ Started(s, i)
  BY RunKept DEF AgentReports
<1>2. PICK status \in Outcome, out \in Nat :
          Finished(s, i, status, out) /\ status # "awaiting_approval"
  <2>1. FreshId(s, i) \in Nat
    BY <1>1, StartedTyped DEF IInv
  <2> QED  BY <2>1 DEF AgentReports, Outcome
<1>3. SessionBacked(sess[s])' /\ SessionOnRun(sess[s])'
  BY <1>1, <1>2, FinishedBacked
<1>4. StartedAfterPredecessors'
  BY <1>1, StartedEarned
<1> QED
  <2>1. \E new : Set(s, new)
    BY <1>2 DEF Finished
  <2> QED  BY <1>1, <1>3, <1>4, <2>1, SessionStep

LEMMA AgentFoundEarned ==
    ASSUME IInv, NEW s \in Sessions, NEW i \in Steps, AgentFound(s, i)
    PROVE  StatusesEarned'
BY AgentReportsEarned DEF AgentFound, Working

LEMMA AgentInsertedEarned ==
    ASSUME IInv, NEW s \in Sessions, NEW i \in Steps, AgentInserted(s, i)
    PROVE  StatusesEarned'
<1>1. /\ sess[s].pc = "exec" /\ sess[s].work[i].stage = "inserting" /\ AgentReports(s, i)
  BY DEF AgentInserted, Working
<1>2. Kind[i] # "gate.human"
  BY <1>1, OwnBacked DEF SessionBacked
<1> QED
  BY <1>1, <1>2, AgentReportsEarned

LEMMA AgentMissingEarned ==
    ASSUME IInv, NEW s \in Sessions, NEW i \in Steps, AgentMissing(s, i)
    PROVE  StatusesEarned'
<1>1. RunsStay /\ UNCHANGED <<step, decided, approved, sends, execs>>
  BY RunKept DEF AgentMissing, rowVars, history
<1>2. SessionBacked(sess[s])' /\ SessionOnRun(sess[s])'
  BY <1>1, StageBacked DEF AgentMissing, Working
<1> QED
  BY <1>1, <1>2, SessionStays DEF AgentMissing

LEMMA AgentConflictEarned ==
    ASSUME IInv, NEW s \in Sessions, NEW i \in Steps, AgentConflict(s, i)
    PROVE  StatusesEarned'
<1>1. /\ RunsStay /\ UNCHANGED <<step, decided, approved, sends, execs>> /\ Set(s, Idle)
  BY RunKept DEF AgentConflict, history
<1>2. SessionBacked(sess[s])' /\ SessionOnRun(sess[s])'
  <2>1. sess'[s] = Idle
    BY <1>1, SetValue DEF IInv
  <2> QED  BY <2>1, IdleBacked DEF Idle
<1> QED
  BY <1>1, <1>2, SessionStays

LEMMA HookSendEarned ==
    ASSUME IInv, NEW s \in Sessions, NEW i \in Steps, HookSend(s, i)
    PROVE  StatusesEarned'
<1>1. /\ sess[s].pc = "exec" /\ sess[s].work[i].stage # "none" /\ Started(s, i)
      /\ Kind[i] = "hook.out" /\ sess[s].run \in Runs
  BY OwnRun DEF HookSend, Working, IInv
<1>2. RunsStay /\ UNCHANGED <<step, completed, decided, approved>>
  BY RunKept DEF HookSend, rowVars
<1>3. StartedAfterPredecessors' /\ 1..(i - 1) \subseteq completed[sess[s].run]
  BY <1>1, <1>2, StartedEarned
<1>4. \/ Finished(s, i, "succeeded", 0) /\ UNCHANGED sends
      \/ /\ Set(s, [sess[s] EXCEPT !.work[i].stage = "sent"])
         /\ sends' = [sends EXCEPT ![sess[s].run] = @ + 1]
  BY Zenon DEF HookSend
<1>5. SessionBacked(sess[s])' /\ SessionOnRun(sess[s])'
  <2>1. "succeeded" \in Outcome /\ 0 \in Nat
    BY DEF Outcome
  <2> QED  BY <1>1, <1>2, <1>4, <2>1, FinishedBacked, StageBacked
<1>6. SendsBacked'
  <2>1. \A r \in Runs : sends'[r] = sends[r] \/ r = sess[s].run
    BY <1>4 DEF IInv, TypeInv, TypeOK
  <2> QED
    BY <1>1, <1>2, <1>3, <2>1 DEF IInv, StatusesEarned, SendsBacked
<1> QED
  <2>1. \E new : Set(s, new)
    BY <1>4 DEF Finished
  <2> QED  BY <1>2, <1>3, <1>5, <1>6, <2>1, SessionStep

LEMMA HookSaveEarned ==
    ASSUME IInv, NEW s \in Sessions, NEW i \in Steps, HookSave(s, i)
    PROVE  StatusesEarned'
<1>1. /\ sess[s].pc = "exec" /\ sess[s].work[i].stage = "sent"
      /\ Kind[i] # "gate.human"
  BY OwnBacked DEF HookSave, Working, SessionBacked
<1>2. RunsStay /\ UNCHANGED <<step, decided, approved, sends, execs>>
  BY RunKept DEF HookSave, history
<1>3. PICK status \in Outcome : Finished(s, i, status, 0) /\ status # "awaiting_approval"
  BY DEF HookSave, Outcome
<1>4. SessionBacked(sess[s])' /\ SessionOnRun(sess[s])'
  BY <1>1, <1>2, <1>3, FinishedBacked
<1> QED
  BY <1>2, <1>3, <1>4, SessionStays DEF Finished

\* A step that does complete something: it has to keep the completed steps gated
\* and leave backed rows and a backed session.
LEMMA EarningStep ==
    ASSUME IInv, NEW s \in Sessions, NEW me, Set(s, me), Grows,
           RowsBacked', CompletedGated', UNCHANGED <<sends, execs>>,
           SessionBacked(sess[s])' /\ SessionOnRun(sess[s])'
    PROVE  StatusesEarned'
<1>1. \A t \in Sessions : SessionBacked(sess[t])' /\ SessionOnRun(sess[t])'
  BY SetValue, SessionKept DEF IInv
<1>2. SendsBacked'
  BY DEF IInv, StatusesEarned, SendsBacked, Grows
<1>3. StartedAfterPredecessors'
  BY DEF IInv, StatusesEarned, StartedAfterPredecessors, Grows
<1> QED
  BY <1>1, <1>2, <1>3 DEF StatusesEarned

LEMMA RecordResultsEarned ==
    ASSUME IInv, NEW s \in Sessions, RecordResults(s)
    PROVE  StatusesEarned'
<1> DEFINE me == sess[s]
           r == me.run
           todo == {i \in Steps : me.work[i].stage = "done"}
           won == {i \in todo : me.work[i].status = "succeeded"}
           Result(row, i) == [row EXCEPT !.status = me.work[i].status, !.owner = Nobody,
                                         !.lease = "none", !.out = me.work[i].out]
           rows == [i \in Steps |-> IF i \in todo THEN Result(step[r][i], i) ELSE step[r][i]]
<1>1. /\ TypeInv /\ me \in Session /\ r \in Runs /\ step[r] \in [Steps -> StepRow]
      /\ me.cache \in [Steps -> StepRow] /\ me.work \in [Steps -> Work]
      /\ SessionBacked(me) /\ r # 0 /\ run[r].status # "absent"
  BY OwnRun, OwnBacked DEF RecordResults, IInv
<1>2. /\ step' = [step EXCEPT ![r] = rows]
      /\ decided' = [decided EXCEPT ![r] = @ \cup {i \in todo : Kind[i] = "gate.policy"}]
      /\ completed' = [completed EXCEPT ![r] = @ \cup won]
      /\ UNCHANGED <<run, sends, execs, approved>>
  BY Zenon DEF RecordResults
<1>3. Grows
  BY <1>1, <1>2 DEF Grows, TypeInv, TypeOK
<1>4. \A row \in StepRow : \A i \in Steps : Result(row, i).status = me.work[i].status
  BY DEF StepRow
<1>5. \A i \in todo :
         /\ 1..(i - 1) \subseteq completed[r]
         /\ me.work[i].status = "awaiting_approval" => Kind[i] = "gate.human"
         /\ me.work[i].status = "succeeded" /\ Kind[i] = "gate.human" => ~run[r].manual
  BY <1>1 DEF SessionBacked
<1>6. completed'[r] = completed[r] \cup won
  BY <1>1, <1>2 DEF TypeInv, TypeOK
<1>7. RowsBacked'
  <2> SUFFICES ASSUME NEW q \in Runs, NEW i \in Steps
               PROVE  RowBacked(step[q][i], q, i)'
    BY DEF RowsBacked
  <2>1. RowBacked(step[q][i], q, i)
    BY DEF IInv, StatusesEarned, RowsBacked
  <2>2. CASE q # r \/ i \notin todo
    <3>1. step'[q][i] = step[q][i]
      <4> HIDE DEF Result, todo
      <4> QED  BY <1>1, <1>2, <2>2 DEF TypeInv, TypeOK
    <3> QED  BY <1>3, <2>1, <3>1 DEF RowBacked, Grows
  <2>3. CASE q = r /\ i \in todo
    <3>1. step'[q][i].status = me.work[i].status
      <4> HIDE DEF Result, todo
      <4> QED  BY <1>1, <1>2, <1>4, <2>3 DEF TypeInv, TypeOK
    <3>2. me.work[i].status = "succeeded" => i \in won
      BY <2>3
    <3> HIDE DEF won, todo
    <3> QED  BY <1>5, <1>6, <2>3, <3>1, <3>2 DEF RowBacked
  <2> QED  BY <2>2, <2>3
<1>8. CompletedGated'
  <2>1. \A q \in Runs : q # r => completed'[q] = completed[q] /\ decided'[q] = decided[q]
    BY <1>1, <1>2 DEF TypeInv, TypeOK
  <2>2. decided'[r] = decided[r] \cup {i \in todo : Kind[i] = "gate.policy"}
    BY <1>1, <1>2 DEF TypeInv, TypeOK
  <2>3. \A i \in won : /\ 1..(i - 1) \subseteq completed[r]
                       /\ Kind[i] = "gate.policy" => i \in decided'[r]
                       /\ Kind[i] = "gate.human" => ~run[r].manual
    BY <1>5, <2>2
  <2>4. CompletedGated
    BY DEF IInv, StatusesEarned
  <2> HIDE DEF won, todo
  <2> QED
    BY <1>1, <1>2, <1>6, <2>1, <2>2, <2>3, <2>4 DEF CompletedGated
<1>9. /\ sess'[s].run = r /\ sess'[s].batch = me.batch /\ sess'[s].snap = me.snap
      /\ \A i \in Steps : sess'[s].work[i].stage = "none"
      /\ \A i \in Steps : sess'[s].cache[i] =
                             IF i \in todo THEN Result(me.cache[i], i) ELSE me.cache[i]
  <2>1. PICK new : Set(s, new) /\ new = [me EXCEPT !.pc = "plan",
                !.cache = [i \in Steps |->
                    IF i \in todo THEN Result(me.cache[i], i) ELSE me.cache[i]],
                !.work = [i \in Steps |-> NoWork],
                !.findings = @ \cup {me.work[i].out : i \in Made(me.work, "finding.emit")},
                !.proposals = @ \cup
                    {[id |-> me.work[i].out,
                      finding |-> LatestOut(me.cache, "finding.emit")] :
                        i \in Made(me.work, "change.propose")},
                !.verdict = Verdict(me.work)]
    BY Zenon DEF RecordResults
  <2>2. sess'[s] = new
    BY <1>1, <2>1, SetValue
  <2> HIDE DEF Result, todo
  <2> QED  BY <1>1, <2>1, <2>2 DEF Session, NoWork
<1>10. SessionBacked(sess[s])'
  <2>1. \A i \in Steps :
           LET status == sess'[s].cache[i].status
           IN /\ status = "succeeded" => i \in completed'[r]
              /\ status \in {"succeeded", "awaiting_approval"} => 1..(i - 1) \subseteq completed'[r]
              /\ status = "awaiting_approval" => Kind[i] = "gate.human"
    <3> SUFFICES ASSUME NEW i \in Steps
                 PROVE  LET status == sess'[s].cache[i].status
                        IN /\ status = "succeeded" => i \in completed'[r]
                           /\ status \in {"succeeded", "awaiting_approval"}
                                => 1..(i - 1) \subseteq completed'[r]
                           /\ status = "awaiting_approval" => Kind[i] = "gate.human"
      OBVIOUS
    <3>1. RowBacked(me.cache[i], r, i)
      BY <1>1 DEF SessionBacked
    <3>2. CASE i \notin todo
      <4>1. sess'[s].cache[i] = me.cache[i] /\ sess'[s].run = r
        BY <1>9, <3>2
      <4>2. completed[r] \subseteq completed'[r]
        BY <1>6
      <4> HIDE DEF todo
      <4> QED  BY <3>1, <4>1, <4>2 DEF RowBacked
    <3>3. CASE i \in todo
      <4>1. sess'[s].cache[i].status = me.work[i].status
        <5> HIDE DEF Result, todo
        <5> QED  BY <1>1, <1>4, <1>9, <3>3
      <4>2. me.work[i].status = "succeeded" => i \in won
        BY <3>3
      <4> HIDE DEF won, todo
      <4> QED  BY <1>5, <1>6, <3>3, <4>1, <4>2 DEF RowBacked
    <3> QED  BY <3>2, <3>3
  <2> QED
    BY <1>9, <2>1 DEF SessionBacked, RowBacked
<1>11. SessionOnRun(sess[s])'
  BY <1>3, <1>9, PlaceKept DEF RecordResults
<1> QED
  <2>1. \E new : Set(s, new)
    BY Zenon DEF RecordResults
  <2> QED  BY <1>2, <1>3, <1>7, <1>8, <1>10, <1>11, <2>1, EarningStep

LEMMA FinalizeEarned ==
    ASSUME IInv, NEW s \in Sessions, Finalize(s)
    PROVE  StatusesEarned'
<1> DEFINE me == sess[s]
           r == me.run
           final == FinalStatus(me)
           loaded == <<me.snap[r].findings, me.snap[r].proposals>>
           outputs == Flush(<<run[r].findings, run[r].proposals>>, loaded,
                            <<me.findings, me.proposals>>)
           row == [run[r] EXCEPT !.status = Flush(@, "running", final),
                                 !.findings = outputs[1], !.proposals = outputs[2]]
           rows == [i \in Steps |->
                      IF final = "failed" /\ me.cache[i].status = "pending"
                      THEN [step[r][i] EXCEPT !.status = "blocked"] ELSE step[r][i]]
           new == [me EXCEPT !.pc = "refresh"]
<1>1. /\ TypeInv /\ me \in Session /\ r \in Runs /\ run[r] \in RunRow
      /\ step[r] \in [Steps -> StepRow] /\ run[r].status # "absent"
      /\ me.snap[r].manual = run[r].manual
  BY OwnRun, OwnBacked DEF Finalize, IInv
<1>2. /\ run' = [run EXCEPT ![r] = row] /\ step' = [step EXCEPT ![r] = rows] /\ Set(s, new)
      /\ UNCHANGED <<completed, decided, approved, sends, execs>>
  BY Zenon DEF Finalize, history
<1>3. row \in RunRow /\ row.status # "absent" /\ row.manual = run[r].manual
  <2>1. final \in RunStatus \ {"absent"}
    BY <1>1 DEF FinalStatus, RunStatus, Session, Outcome
  <2>2. Flush(run[r].status, "running", final) \in RunStatus \ {"absent"}
    BY <1>1, <2>1 DEF Flush, RunRow
  <2>3. outputs \in (SUBSET Nat) \X (SUBSET Proposal)
    BY <1>1 DEF Flush, RunRow, Session
  <2> HIDE DEF final, outputs
  <2> QED  BY <1>1, <2>2, <2>3 DEF RunRow
<1>4. RunsStay /\ Grows
  <2> HIDE DEF row
  <2> QED  BY <1>1, <1>2, <1>3, StatusKept, RunsStayGrows
<1>5. \A q \in Runs : \A i \in Steps :
         \/ step'[q][i].status = step[q][i].status
         \/ step'[q][i].status \notin {"succeeded", "awaiting_approval"}
  <2> SUFFICES ASSUME NEW q \in Runs, NEW i \in Steps
               PROVE  step'[q][i].status \in {step[q][i].status, "blocked"}
    OBVIOUS
  <2>1. [step[r][i] EXCEPT !.status = "blocked"].status = "blocked"
    BY <1>1 DEF StepRow
  <2> HIDE DEF final
  <2> QED  BY <1>1, <1>2, <2>1 DEF TypeInv, TypeOK
<1>6. sess'[s] = new
  <2> HIDE DEF new
  <2> QED  BY <1>1, <1>2, SetValue
<1>7. SessionBacked(sess[s])'
  <2> HIDE DEF row
  <2> QED  BY <1>1, <1>4, <1>6, HandsKept DEF Session
<1>8. SessionOnRun(sess[s])'
  BY <1>1, <1>4, <1>6, PlaceKept DEF Finalize, Session
<1> QED
  BY <1>2, <1>4, <1>5, <1>7, <1>8, SessionStep

LEMMA RefreshEarned ==
    ASSUME IInv, NEW s \in Sessions, Refresh(s)
    PROVE  StatusesEarned'
<1> DEFINE r == sess[s].run
           me == [sess[s] EXCEPT !.pc = "publish", !.snap[r] = run[r]]
<1>1. /\ sess[s] \in Session /\ r \in Runs /\ SessionOnRun(sess[s]) /\ Set(s, me)
      /\ UNCHANGED <<run, step, completed, decided, approved, sends, execs>>
  BY OwnRun, OwnBacked DEF Refresh, IInv, rowVars, history
<1>2. sess'[s] = me
  <2> HIDE DEF me
  <2> QED  BY <1>1, SetValue DEF IInv
<1>3. RunsStay /\ Grows
  BY <1>1, RunKept, RunsStayGrows
<1>4. SessionBacked(sess[s])'
  BY <1>1, <1>2, <1>3, HandsKept DEF Session
<1>5. SessionOnRun(sess[s])'
  <2>1. /\ sess'[s].run = r /\ sess'[s].batch = sess[s].batch /\ sess'[s].snap[r] = run[r]
        /\ \A q \in Runs \ {r} : sess'[s].snap[q] = sess[s].snap[q]
    BY <1>1, <1>2 DEF Session
  <2>2. sess[s].pc = "refresh" /\ run[r].status # "absent"
    BY <1>1, OwnBacked DEF Refresh, IInv
  <2> QED  BY <1>1, <2>1, <2>2 DEF SessionOnRun
<1> QED
  BY <1>1, <1>3, <1>4, <1>5, SessionStays

LEMMA PublishEarned ==
    ASSUME IInv, NEW s \in Sessions, Publish(s)
    PROVE  StatusesEarned'
<1>1. /\ sess[s] \in Session /\ SessionOnRun(sess[s]) /\ Set(s, NextRun(sess[s]))
      /\ UNCHANGED <<run, step, completed, decided, approved, sends, execs>>
  BY OwnRun, OwnBacked DEF Publish, IInv, rowVars
<1>2. sess'[s] = NextRun(sess[s])
  BY <1>1, SetValue DEF IInv
<1>3. \A r \in sess[s].batch : run'[r].status # "absent" /\ sess[s].snap[r].manual = run'[r].manual
  BY <1>1 DEF SessionOnRun, Session, Publish
<1>4. SessionBacked(sess[s])' /\ SessionOnRun(sess[s])'
  BY <1>1, <1>2, <1>3, NextRunBacked
<1> QED
  BY <1>1, <1>4, RunKept, SessionStays

LEMMA ResumeLookupEarned ==
    ASSUME IInv, NEW s \in Sessions, NEW r \in Runs, ResumeLookup(s, r)
    PROVE  StatusesEarned'
<1> DEFINE me == [Idle EXCEPT !.pc = "rload", !.run = r, !.snap[r] = run[r]]
<1>1. /\ UNCHANGED <<run, step, completed, decided, approved, sends, execs>> /\ Set(s, me)
      /\ run[r].status # "absent"
  BY DEF ResumeLookup, Request, rowVars, history
<1>2. sess'[s] = me
  <2> HIDE DEF me
  <2> QED  BY <1>1, SetValue DEF IInv
<1>3. /\ sess'[s].run = r /\ sess'[s].batch = {} /\ sess'[s].snap[r] = run[r] /\ r # 0
      /\ \A i \in Steps : sess'[s].cache[i] = FreshStep /\ sess'[s].work[i] = NoWork
  BY <1>2, RuntimeAssumption DEF Idle, Runs
<1>4. SessionBacked(sess[s])'
  BY <1>3 DEF SessionBacked, RowBacked, FreshStep, NoWork
<1>5. SessionOnRun(sess[s])'
  BY <1>1, <1>3 DEF SessionOnRun
<1> QED
  BY <1>1, <1>4, <1>5, RunKept, SessionStays

LEMMA ResumeLoadEarned ==
    ASSUME IInv, NEW s \in Sessions, ResumeLoad(s)
    PROVE  StatusesEarned'
<1> DEFINE me == [sess[s] EXCEPT !.pc = "rdecide", !.cache = step[sess[s].run], !.resumed = TRUE]
<1>1. /\ UNCHANGED <<run, step, completed, decided, approved, sends, execs>> /\ Set(s, me)
  BY DEF ResumeLoad, rowVars, history
<1>2. /\ TypeInv /\ sess[s] \in Session /\ sess[s].run \in Runs
      /\ SessionBacked(sess[s]) /\ RowsBacked
  BY OwnRun DEF IInv, StatusesEarned, ResumeLoad
<1>3. sess'[s] = me
  <2> HIDE DEF me
  <2> QED  BY <1>1, <1>2, SetValue
<1>4. SessionBacked(sess[s])'
  BY <1>1, <1>2, <1>3 DEF SessionBacked, RowsBacked, RowBacked, Session
<1>5. SessionOnRun(sess[s])'
  BY <1>1, <1>2, <1>3, PlaceKept, RunKept, RunsStayGrows DEF ResumeLoad, Session
<1> QED
  BY <1>1, <1>4, <1>5, RunKept, SessionStays

LEMMA StatusWritten ==
    ASSUME TypeInv, NEW r \in Runs, run[r].status # "absent", UNCHANGED completed,
           NEW status \in RunStatus \ {"absent"}, run' = [run EXCEPT ![r].status = status]
    PROVE  RunsStay
BY DEF TypeInv, TypeOK, RunsStay, RunRow

LEMMA ResumeNothingEarned ==
    ASSUME IInv, NEW s \in Sessions, ResumeNothing(s)
    PROVE  StatusesEarned'
<1>1. /\ UNCHANGED <<step, completed, decided, approved, sends, execs>> /\ Set(s, Idle)
      /\ run' = [run EXCEPT ![sess[s].run].status = "succeeded"]
  BY DEF ResumeNothing, history
<1>2. RunsStay
  <2>1. TypeInv /\ sess[s].run \in Runs /\ run[sess[s].run].status # "absent"
    BY OwnRun, OwnBacked DEF ResumeNothing, IInv
  <2>2. "succeeded" \in RunStatus \ {"absent"}
    BY DEF RunStatus
  <2> QED  BY <1>1, <2>1, <2>2, StatusWritten
<1>3. SessionBacked(sess[s])' /\ SessionOnRun(sess[s])'
  <2>1. sess'[s] = Idle
    BY <1>1, SetValue DEF IInv
  <2> QED  BY <2>1, IdleBacked DEF Idle
<1> QED
  BY <1>1, <1>2, <1>3, SessionStays

LEMMA RejectEarned ==
    ASSUME IInv, NEW s \in Sessions, Reject(s)
    PROVE  StatusesEarned'
<1> DEFINE r == sess[s].run
           gate == First(Awaiting(sess[s].cache))
           new == [sess[s] EXCEPT !.pc = "publish", !.snap[r].status = "cancelled"]
<1>1. /\ UNCHANGED <<completed, decided, approved, sends, execs>> /\ Set(s, new)
      /\ run' = [run EXCEPT ![r].status = "cancelled"]
      /\ step' = [step EXCEPT ![r][gate].status = "cancelled"]
  BY DEF Reject, history
<1>2. /\ TypeInv /\ sess[s] \in Session /\ r \in Runs /\ run[r].status # "absent"
      /\ step[r] \in [Steps -> StepRow] /\ sess[s].snap[r] \in RunRow
  BY OwnRun, OwnBacked DEF Reject, IInv
<1>3. RunsStay /\ Grows
  <2>1. "cancelled" \in RunStatus \ {"absent"}
    BY DEF RunStatus
  <2>2. RunsStay
    BY <1>1, <1>2, <2>1, StatusWritten
  <2> QED  BY <2>2, RunsStayGrows
<1>4. sess'[s] = new
  <2> HIDE DEF new
  <2> QED  BY <1>1, <1>2, SetValue
<1>5. SessionBacked(sess[s])'
  BY <1>2, <1>3, <1>4, HandsKept DEF Session
<1>6. SessionOnRun(sess[s])'
  <2>1. [sess[s].snap[r] EXCEPT !.status = "cancelled"].manual = sess[s].snap[r].manual
    BY <1>2 DEF RunRow
  <2>2. \A q \in Runs : sess'[s].snap[q].manual = sess[s].snap[q].manual
    BY <1>2, <1>4, <2>1 DEF Session
  <2>3. sess'[s].run = r /\ sess'[s].batch = sess[s].batch
    BY <1>2, <1>4 DEF Session
  <2> QED  BY <1>3, <2>2, <2>3, PlaceKept DEF Reject
<1>7. \A q \in Runs : \A i \in Steps :
         \/ step'[q][i].status = step[q][i].status
         \/ step'[q][i].status \notin {"succeeded", "awaiting_approval"}
  <2> SUFFICES ASSUME NEW q \in Runs, NEW i \in Steps
               PROVE  step'[q][i].status \in {step[q][i].status, "cancelled"}
    OBVIOUS
  <2>1. [step[r][i] EXCEPT !.status = "cancelled"].status = "cancelled"
    BY <1>2 DEF StepRow
  <2> HIDE DEF gate
  <2> QED  BY <1>1, <1>2, <2>1 DEF TypeInv, TypeOK
<1> QED
  BY <1>1, <1>3, <1>5, <1>6, <1>7, SessionStep

LEMMA ApproveEarned ==
    ASSUME IInv, NEW s \in Sessions, Approve(s)
    PROVE  StatusesEarned'
<1> DEFINE me == sess[s]
           r == me.run
           gate == First(Awaiting(me.cache))
           Approved(row, i) ==
               [row EXCEPT !.status = IF i = gate THEN "succeeded"
                                      ELSE IF me.cache[i].status = "blocked" THEN "pending"
                                      ELSE @]
           rows == [i \in Steps |-> Approved(step[r][i], i)]
           new == [me EXCEPT !.pc = "recover", !.snap[r].status = "running",
                             !.cache = [i \in Steps |-> Approved(me.cache[i], i)]]
<1>1. /\ TypeInv /\ me \in Session /\ r \in Runs /\ run[r].status # "absent"
      /\ me.snap[r] \in RunRow /\ step[r] \in [Steps -> StepRow]
      /\ me.cache \in [Steps -> StepRow] /\ SessionBacked(me) /\ r # 0
  BY OwnRun, OwnBacked DEF Approve, IInv
<1>2. /\ step' = [step EXCEPT ![r] = rows]
      /\ run' = [run EXCEPT ![r].status = "running"] /\ Set(s, new)
      /\ approved' = approved \cup {r} /\ completed' = [completed EXCEPT ![r] = @ \cup {gate}]
      /\ UNCHANGED <<decided, sends, execs>>
  BY Zenon DEF Approve
<1>3. /\ gate \in Steps /\ me.cache[gate].status = "awaiting_approval"
      /\ Kind[gate] = "gate.human" /\ 1..(gate - 1) \subseteq completed[r]
  <2>1. gate \in Steps /\ gate \in Awaiting(me.cache)
    BY GateTyped DEF Approve
  <2>2. me.cache[gate].status = "awaiting_approval"
    BY <2>1 DEF Awaiting
  <2> HIDE DEF gate
  <2> QED  BY <1>1, <2>1, <2>2 DEF SessionBacked, RowBacked
<1>4. /\ \A q \in Runs : /\ run'[q].manual = run[q].manual
                         /\ run'[q].status = "absent" => run[q].status = "absent"
                         /\ run[q].status # "absent" => run'[q].status # "absent"
      /\ run'[r].status # "absent"
  BY <1>1, <1>2 DEF TypeInv, TypeOK, RunRow
<1>5. /\ completed'[r] = completed[r] \cup {gate}
      /\ \A q \in Runs : q # r => completed'[q] = completed[q]
  <2> HIDE DEF gate
  <2> QED  BY <1>1, <1>2 DEF TypeInv, TypeOK
<1>6. Grows
  <2> HIDE DEF gate
  <2> QED  BY <1>4, <1>5 DEF Grows
<1>7. \A row \in StepRow : \A i \in Steps :
         Approved(row, i).status = IF i = gate THEN "succeeded"
                                   ELSE IF me.cache[i].status = "blocked" THEN "pending"
                                   ELSE row.status
  <2> HIDE DEF gate
  <2> QED  BY DEF StepRow
<1>8. RowsBacked'
  <2> SUFFICES ASSUME NEW q \in Runs, NEW i \in Steps
               PROVE  RowBacked(step[q][i], q, i)'
    BY DEF RowsBacked
  <2>1. RowBacked(step[q][i], q, i)
    BY DEF IInv, StatusesEarned, RowsBacked
  <2>2. CASE q # r
    <3>1. step'[q][i] = step[q][i]
      <4> HIDE DEF rows
      <4> QED  BY <1>1, <1>2, <2>2 DEF TypeInv, TypeOK
    <3> QED  BY <1>6, <2>1, <3>1 DEF RowBacked, Grows
  <2>3. CASE q = r
    <3>1. step'[q][i] = Approved(step[r][i], i)
      <4> HIDE DEF Approved
      <4> QED  BY <1>1, <1>2, <2>3 DEF TypeInv, TypeOK
    <3>2. step'[q][i].status = IF i = gate THEN "succeeded"
                               ELSE IF me.cache[i].status = "blocked" THEN "pending"
                               ELSE step[r][i].status
      <4> HIDE DEF Approved, gate
      <4> QED  BY <1>1, <1>7, <3>1
    <3> HIDE DEF gate
    <3> QED  BY <1>3, <1>5, <2>1, <2>3, <3>2 DEF RowBacked
  <2> QED  BY <2>2, <2>3
<1>9. CompletedGated'
  <2>1. CompletedGated
    BY DEF IInv, StatusesEarned
  <2> HIDE DEF gate
  <2> QED
    BY <1>1, <1>2, <1>3, <1>4, <1>5, <2>1 DEF CompletedGated
<1>10. sess'[s] = new
  <2> HIDE DEF new
  <2> QED  BY <1>1, <1>2, SetValue
<1>11. /\ sess'[s].run = r /\ sess'[s].batch = me.batch /\ sess'[s].work = me.work
       /\ \A i \in Steps : sess'[s].cache[i] = Approved(me.cache[i], i)
       /\ \A q \in Runs : sess'[s].snap[q].manual = me.snap[q].manual
  <2>1. [me.snap[r] EXCEPT !.status = "running"].manual = me.snap[r].manual
    BY <1>1 DEF RunRow
  <2> HIDE DEF Approved
  <2> QED  BY <1>1, <1>10, <2>1 DEF Session
<1>12. SessionBacked(sess[s])'
  <2>1. \A i \in Steps :
           sess'[s].cache[i].status = IF i = gate THEN "succeeded"
                                      ELSE IF me.cache[i].status = "blocked" THEN "pending"
                                      ELSE me.cache[i].status
    <3> HIDE DEF Approved, gate
    <3> QED  BY <1>1, <1>7, <1>11
  <2>2. \A i \in Steps : RowBacked(me.cache[i], r, i)
    BY <1>1 DEF SessionBacked
  <2>3. \A i \in Steps :
           LET status == sess'[s].cache[i].status
           IN /\ status = "succeeded" => i \in completed'[r]
              /\ status \in {"succeeded", "awaiting_approval"} => 1..(i - 1) \subseteq completed'[r]
              /\ status = "awaiting_approval" => Kind[i] = "gate.human"
    <3> HIDE DEF gate
    <3> QED  BY <1>3, <1>5, <2>1, <2>2 DEF RowBacked
  <2> HIDE DEF gate, Approved
  <2> QED
    BY <1>1, <1>4, <1>5, <1>11, <2>3 DEF SessionBacked, RowBacked
<1>13. SessionOnRun(sess[s])'
  BY <1>6, <1>11, PlaceKept DEF Approve
<1> QED
  BY <1>2, <1>6, <1>8, <1>9, <1>12, <1>13, EarningStep

LEMMA CancelEarned ==
    ASSUME IInv, NEW r \in Runs, Cancel(r)
    PROVE  StatusesEarned'
<1>1. /\ UNCHANGED <<step, sess, completed, decided, approved, sends, execs>>
      /\ run' = [run EXCEPT ![r].status = "cancelled"] /\ run[r].status # "absent"
  BY DEF Cancel
<1>2. "cancelled" \in RunStatus \ {"absent"}
  BY DEF RunStatus
<1>3. RunsStay /\ Grows
  BY <1>1, <1>2, StatusWritten, RunsStayGrows DEF IInv
<1>4. RowsBacked'
  BY <1>1, <1>3, RowsKept
<1>5. \A t \in Sessions : SessionBacked(sess[t])' /\ SessionOnRun(sess[t])'
  BY <1>1, <1>3, SessionKept
<1> QED
  BY <1>1, <1>3, <1>4, <1>5, HistoryKept DEF StatusesEarned, RunsStay

LEMMA CrashEarned ==
    ASSUME IInv, NEW s \in Sessions, Crash(s)
    PROVE  StatusesEarned'
<1>1. UNCHANGED <<run, step, completed, decided, approved, sends, execs>> /\ Set(s, Idle)
  BY DEF Crash, history
<1>2. SessionBacked(sess[s])' /\ SessionOnRun(sess[s])'
  <2>1. sess'[s] = Idle
    BY <1>1, SetValue DEF IInv
  <2> QED  BY <2>1, IdleBacked DEF Idle
<1> QED
  BY <1>1, <1>2, RunKept, SessionStays

LEMMA LeaseTimeEarned ==
    ASSUME IInv, NEW r \in Runs, NEW i \in Steps, LeaseLapse(r, i) \/ LeaseOverrun(r, i)
    PROVE  StatusesEarned'
<1>1. /\ UNCHANGED <<run, sess, completed, decided, approved, sends, execs>>
      /\ step' = [step EXCEPT ![r][i].lease = "expired"]
  BY DEF LeaseLapse, LeaseOverrun, history
<1>2. RunsStay /\ Grows
  BY <1>1, RunKept, RunsStayGrows
<1>3. \A q \in Runs : \A j \in Steps : step'[q][j].status = step[q][j].status
  BY <1>1 DEF IInv, TypeInv, TypeOK, StepRow
<1>4. RowsBacked'
  BY <1>2, <1>3, RowsKept
<1>5. \A t \in Sessions : SessionBacked(sess[t])' /\ SessionOnRun(sess[t])'
  BY <1>1, <1>2, SessionKept
<1> QED
  BY <1>1, <1>2, <1>4, <1>5, HistoryKept DEF StatusesEarned, RunsStay

LEMMA InitEarned == Init => IInv
<1> SUFFICES ASSUME Init PROVE IInv
  OBVIOUS
<1>1. TypeInv
  BY InitTyped
<1>2. RowsBacked
  BY DEF Init, RowsBacked, RowBacked, FreshStep
<1>3. CompletedGated /\ SendsBacked /\ StartedAfterPredecessors
  BY DEF Init, CompletedGated, SendsBacked, StartedAfterPredecessors
<1>4. \A s \in Sessions : SessionBacked(sess[s]) /\ SessionOnRun(sess[s])
  BY RuntimeAssumption DEF Init, Idle, SessionBacked, SessionOnRun, Runs
<1> QED
  BY <1>1, <1>2, <1>3, <1>4 DEF IInv, StatusesEarned

LEMMA EarnedStep == IInv /\ [Next]_vars => IInv'
<1> SUFFICES ASSUME IInv, [Next]_vars PROVE StatusesEarned'
  BY TypeStep DEF IInv
<1>1. ASSUME NEW s \in Sessions, Advance(s) PROVE StatusesEarned'
  <2>1. ASSUME StepWork(s) PROVE StatusesEarned'
    BY <2>1, ExecuteStepEarned, HookSendEarned, HookSaveEarned, AgentFoundEarned,
       AgentMissingEarned, AgentInsertedEarned, AgentConflictEarned DEF StepWork
  <2> QED
    BY <1>1, <2>1, LookupEarned, DrainSelectEarned, RecoverRunEarned, LoadStepsEarned,
       MarkRunningEarned, LeaseReadyEarned, RecordResultsEarned, FinalizeEarned,
       RefreshEarned, PublishEarned,
       ResumeLoadEarned, ResumeNothingEarned, ApproveEarned, RejectEarned DEF Advance
<1>2. ASSUME NEW s \in Sessions, DrainRecover(s) \/ Crash(s) PROVE StatusesEarned'
  BY <1>2, DrainRecoverEarned, CrashEarned
<1>3. ASSUME NEW s \in Sessions, NEW r \in Runs, StartSync(s, r) \/ ResumeLookup(s, r)
      PROVE  StatusesEarned'
  BY <1>3, StartSyncEarned, ResumeLookupEarned
<1>4. ASSUME NEW r \in Runs, Enqueue(r) \/ Cancel(r) PROVE StatusesEarned'
  BY <1>4, EnqueueEarned, CancelEarned
<1>5. ASSUME NEW r \in Runs, NEW i \in Steps, LeaseLapse(r, i) \/ LeaseOverrun(r, i)
      PROVE  StatusesEarned'
  BY <1>5, LeaseTimeEarned
<1>6. CASE UNCHANGED vars
  BY <1>6 DEF vars, rowVars, bounds, history, IInv, StatusesEarned, RowsBacked, RowBacked,
     CompletedGated, SendsBacked, StartedAfterPredecessors, SessionBacked, SessionOnRun
<1> QED
  BY <1>1, <1>2, <1>3, <1>4, <1>5, <1>6 DEF Next

\* The inductive invariant: rows, results in memory and history agree that
\* every success was earned, for any number of stale, racing or crashing sessions.
THEOREM EarnedTheorem == Spec => []StatusesEarned
<1>1. Spec => []IInv
  BY InitEarned, EarnedStep, PTL DEF Spec
<1> QED
  BY <1>1, PTL DEF IInv

\* Dependency order (process_workflow_run's pending list): however many drains
\* work on one run, from however old a copy of its rows, no step starts before
\* every step ahead of it was once recorded as succeeded.
THEOREM PredecessorsTheorem == Spec => []StartedAfterPredecessors
BY EarnedTheorem, PTL DEF StatusesEarned

\* The gates hold: no external write of a hook.out step without the policy
\* decisions and, for a run that asked for one, without the human approval.
THEOREM GatedTheorem == Spec => []ExternalWritesGated
<1>1. TypeOK /\ StatusesEarned => ExternalWritesGated
  <2> SUFFICES ASSUME TypeOK, StatusesEarned, NEW r \in Runs, sends[r] > 0
               PROVE  \E h \in Steps :
                        /\ Kind[h] = "hook.out"
                        /\ \A i \in 1..(h - 1) :
                              /\ Kind[i] = "gate.policy" => i \in decided[r]
                              /\ Kind[i] = "gate.human" /\ run[r].manual => r \in approved
    BY DEF ExternalWritesGated
  <2>1. PICK h \in Steps : Kind[h] = "hook.out" /\ 1..(h - 1) \subseteq completed[r]
    BY DEF StatusesEarned, SendsBacked
  <2> QED
    BY <2>1 DEF StatusesEarned, CompletedGated
<1> QED
  BY <1>1, TypeCorrect, EarnedTheorem, PTL

-----------------------------------------------------------------------------
(* Leases *)

\* The one thing that can take a running step's lease away: a resume request
\* recovers an expired step that the rows it read before still call pending.
\* The write-back then leaves the stored status alone (Flush).
ResumesStale ==
    \E s \in Sessions : /\ sess[s].pc = "recover" /\ sess[s].resumed
                        /\ \E i \in Steps : /\ Expired(step[sess[s].run][i])
                                            /\ sess[s].cache[i].status = "pending"

\* A row that a step leaves alone, takes out of running or leases anew.
RowLeased(row, new) ==
    new.status = "running" => \/ row.status = "running" /\ new.owner = row.owner
                                 /\ new.lease \in {row.lease, "live", "expired"}
                              \/ new.owner # Nobody /\ new.lease # "none"

LEMMA LeaseKept ==
    ASSUME RunningHasLease,
           \A r \in Runs : \A i \in Steps : RowLeased(step[r][i], step'[r][i])
    PROVE  RunningHasLease'
BY DEF RunningHasLease, RowLeased

LEMMA RowsUnwritten ==
    ASSUME RunningHasLease, UNCHANGED step
    PROVE  RunningHasLease'
BY DEF RunningHasLease

\* A step that rewrites the rows of one run.
LEMMA RowsReleased ==
    ASSUME TypeInv, RunningHasLease, NEW r \in Runs, NEW rows,
           step' = [step EXCEPT ![r] = rows],
           \A i \in Steps : RowLeased(step[r][i], rows[i])
    PROVE  RunningHasLease'
<1>1. step'[r] = rows /\ \A q \in Runs : q # r => step'[q] = step[q]
  BY DEF TypeInv, TypeOK
<1> QED
  BY <1>1, LeaseKept DEF RowLeased

LEMMA DrainRecoverLeases ==
    ASSUME TypeInv, RunningHasLease, NEW s \in Sessions, DrainRecover(s)
    PROVE  RunningHasLease'
<1> SUFFICES ASSUME NEW r \in Runs, NEW i \in Steps PROVE RowLeased(step[r][i], step'[r][i])
  BY LeaseKept
<1>1. step'[r][i] = IF Expired(step[r][i]) THEN Recovered(step[r][i]) ELSE step[r][i]
  BY DEF DrainRecover
<1>2. step[r][i] \in StepRow
  BY DEF TypeInv, TypeOK
<1> QED
  BY <1>1, <1>2 DEF RowLeased, Recovered, StepRow

LEMMA RecoverRunLeases ==
    ASSUME TypeInv, RunningHasLease, ~ResumesStale, NEW s \in Sessions, RecoverRun(s)
    PROVE  RunningHasLease'
<1> DEFINE me == sess[s]
           r == me.run
           lost == {i \in Steps : Expired(step[r][i])}
           held == IF me.resumed THEN me.cache ELSE step[r]
           rows == [i \in Steps |->
                IF i \notin lost THEN step[r][i]
                ELSE [step[r][i] EXCEPT
                        !.status = Flush(@, held[i].status, "pending"),
                        !.owner = Flush(@, held[i].owner, Nobody),
                        !.lease = Flush(@, held[i].lease, "none"),
                        !.out = held[i].out]]
<1>1. r \in Runs /\ step[r] \in [Steps -> StepRow]
  BY OwnRun DEF RecoverRun
<1>2. step' = [step EXCEPT ![r] = rows]
  BY DEF RecoverRun
<1>3. ASSUME NEW i \in Steps PROVE RowLeased(step[r][i], rows[i])
  <2>1. CASE i \notin lost
    BY <2>1 DEF RowLeased
  <2>2. CASE i \in lost
    <3>1. held[i].status # "pending"
      BY <2>2 DEF ResumesStale, RecoverRun, Expired
    <3>2. rows[i].status = "pending"
      BY <1>1, <2>2, <3>1 DEF Flush, StepRow
    <3> QED  BY <3>2 DEF RowLeased
  <2> QED  BY <2>1, <2>2
<1> QED
  <2> HIDE DEF rows
  <2> QED  BY <1>1, <1>2, <1>3, RowsReleased

LEMMA LeaseReadyLeases ==
    ASSUME TypeInv, RunningHasLease, NEW s \in Sessions, LeaseReady(s)
    PROVE  RunningHasLease'
<1> DEFINE me == sess[s]
           r == me.run
           ready == Ready(me.cache)
           leased == [i \in Steps |-> Leased(me.cache[i], s)]
           rows == [i \in Steps |-> IF i \in ready THEN [leased[i] EXCEPT !.out = step[r][i].out]
                                    ELSE step[r][i]]
<1>1. /\ r \in Runs /\ step[r] \in [Steps -> StepRow]
      /\ me.cache \in [Steps -> StepRow] /\ s # Nobody
  BY OwnRun, RuntimeAssumption DEF LeaseReady
<1>2. step' = [step EXCEPT ![r] = rows]
  BY DEF LeaseReady
<1>3. ASSUME NEW i \in Steps PROVE RowLeased(step[r][i], rows[i])
  <2>1. CASE i \notin ready
    BY <2>1 DEF RowLeased
  <2>2. CASE i \in ready
    <3>1. leased[i] = Leased(me.cache[i], s) /\ Leased(me.cache[i], s) \in StepRow
      BY <1>1, RowsTyped
    <3>3. leased[i].owner = s /\ leased[i].lease = "live"
      BY <1>1, <3>1 DEF Leased, StepRow
    <3>4. rows[i].owner = s /\ rows[i].lease = "live"
      <4> HIDE DEF leased
      <4> QED  BY <2>2, <3>1, <3>3 DEF StepRow
    <3> QED  BY <1>1, <3>4 DEF RowLeased
  <2> QED  BY <2>1, <2>2
<1> QED
  <2> HIDE DEF rows
  <2> QED  BY <1>1, <1>2, <1>3, RowsReleased

LEMMA RecordResultsLeases ==
    ASSUME TypeInv, RunningHasLease, NEW s \in Sessions, RecordResults(s)
    PROVE  RunningHasLease'
<1> DEFINE me == sess[s]
           r == me.run
           todo == {i \in Steps : me.work[i].stage = "done"}
           Result(row, i) == [row EXCEPT !.status = me.work[i].status, !.owner = Nobody,
                                         !.lease = "none", !.out = me.work[i].out]
           rows == [i \in Steps |-> IF i \in todo THEN Result(step[r][i], i) ELSE step[r][i]]
<1>1. /\ r \in Runs /\ step[r] \in [Steps -> StepRow] /\ me.work \in [Steps -> Work]
  BY OwnRun DEF RecordResults
<1>2. step' = [step EXCEPT ![r] = rows]
  BY DEF RecordResults
<1>3. ASSUME NEW i \in Steps PROVE RowLeased(step[r][i], rows[i])
  <2>1. CASE i \notin todo
    BY <2>1 DEF RowLeased
  <2>2. CASE i \in todo
    <3>1. rows[i].status = me.work[i].status
      BY <1>1, <2>2 DEF StepRow
    <3>2. me.work[i].status # "running"
      BY <1>1 DEF Work, Outcome
    <3> QED  BY <3>1, <3>2 DEF RowLeased
  <2> QED  BY <2>1, <2>2
<1> QED
  <2> HIDE DEF rows
  <2> QED  BY <1>1, <1>2, <1>3, RowsReleased

LEMMA FinalizeLeases ==
    ASSUME TypeInv, RunningHasLease, NEW s \in Sessions, Finalize(s)
    PROVE  RunningHasLease'
<1> DEFINE me == sess[s]
           r == me.run
           rows == [i \in Steps |->
                IF FinalStatus(me) = "failed" /\ me.cache[i].status = "pending"
                THEN [step[r][i] EXCEPT !.status = "blocked"] ELSE step[r][i]]
<1>1. r \in Runs /\ step[r] \in [Steps -> StepRow]
  BY OwnRun DEF Finalize
<1>2. step' = [step EXCEPT ![r] = rows]
  BY DEF Finalize
<1>3. ASSUME NEW i \in Steps PROVE RowLeased(step[r][i], rows[i])
  BY <1>1 DEF RowLeased, StepRow
<1> QED
  <2> HIDE DEF rows
  <2> QED  BY <1>1, <1>2, <1>3, RowsReleased

LEMMA DecideLeases ==
    ASSUME TypeInv, RunningHasLease, NEW s \in Sessions, Approve(s) \/ Reject(s)
    PROVE  RunningHasLease'
<1> DEFINE me == sess[s]
           r == me.run
           gate == First(Awaiting(me.cache))
<1>1. r \in Runs /\ step[r] \in [Steps -> StepRow]
  BY OwnRun DEF Approve, Reject
<1>2. CASE Approve(s)
  <2> DEFINE Approved(row, i) ==
                 [row EXCEPT !.status = IF i = gate THEN "succeeded"
                                        ELSE IF me.cache[i].status = "blocked" THEN "pending"
                                        ELSE @]
             rows == [i \in Steps |-> Approved(step[r][i], i)]
  <2>1. step' = [step EXCEPT ![r] = rows]
    BY <1>2 DEF Approve
  <2>2. ASSUME NEW i \in Steps PROVE RowLeased(step[r][i], rows[i])
    BY <1>1 DEF RowLeased, StepRow
  <2> HIDE DEF rows
  <2> QED  BY <1>1, <2>1, <2>2, RowsReleased
<1>3. CASE Reject(s)
  <2> DEFINE rows == [step[r] EXCEPT ![gate].status = "cancelled"]
  <2>1. step' = [step EXCEPT ![r] = rows]
    BY <1>3 DEF Reject
  <2>2. ASSUME NEW i \in Steps PROVE RowLeased(step[r][i], rows[i])
    BY <1>1 DEF RowLeased, StepRow
  <2> HIDE DEF rows
  <2> QED  BY <1>1, <2>1, <2>2, RowsReleased
<1> QED
  BY <1>2, <1>3

LEMMA LeaseTimeLeases ==
    ASSUME TypeInv, RunningHasLease, NEW r \in Runs, NEW i \in Steps,
           LeaseLapse(r, i) \/ LeaseOverrun(r, i)
    PROVE  RunningHasLease'
<1> DEFINE rows == [step[r] EXCEPT ![i].lease = "expired"]
<1>1. step[r] \in [Steps -> StepRow]
  BY DEF TypeInv, TypeOK
<1>2. step' = [step EXCEPT ![r] = rows]
  BY DEF LeaseLapse, LeaseOverrun
<1>3. ASSUME NEW j \in Steps PROVE RowLeased(step[r][j], rows[j])
  BY <1>1 DEF RowLeased, StepRow
<1> QED
  <2> HIDE DEF rows
  <2> QED  BY <1>2, <1>3, RowsReleased

LEMMA LeaseStep ==
    ASSUME TypeInv, RunningHasLease, ~ResumesStale, [Next]_vars
    PROVE  RunningHasLease'
<1>1. ASSUME NEW s \in Sessions, Advance(s) PROVE RunningHasLease'
  <2>1. ASSUME StepWork(s) PROVE UNCHANGED step
    BY <2>1 DEF StepWork, ExecuteStep, HookSend, HookSave, AgentFound, AgentInserted,
       AgentReports, AgentMissing, AgentConflict, rowVars
  <2>2. ASSUME \/ Lookup(s) \/ DrainSelect(s) \/ LoadSteps(s) \/ MarkRunning(s)
               \/ Refresh(s) \/ Publish(s) \/ ResumeLoad(s) \/ ResumeNothing(s)
        PROVE  UNCHANGED step
    BY <2>2 DEF Lookup, DrainSelect, LoadSteps, MarkRunning, Refresh, Publish, ResumeLoad,
       ResumeNothing, rowVars
  <2> QED
    BY <1>1, <2>1, <2>2, RowsUnwritten, RecoverRunLeases, LeaseReadyLeases,
       RecordResultsLeases, FinalizeLeases, DecideLeases DEF Advance
<1>2. ASSUME NEW s \in Sessions, DrainRecover(s) \/ Crash(s) PROVE RunningHasLease'
  BY <1>2, DrainRecoverLeases, RowsUnwritten DEF Crash
<1>3. ASSUME NEW s \in Sessions, NEW r \in Runs, StartSync(s, r) \/ ResumeLookup(s, r)
      PROVE  RunningHasLease'
  BY <1>3, RowsUnwritten DEF StartSync, ResumeLookup, rowVars
<1>4. ASSUME NEW r \in Runs, Enqueue(r) \/ Cancel(r) PROVE RunningHasLease'
  BY <1>4, RowsUnwritten DEF Enqueue, Cancel
<1>5. ASSUME NEW r \in Runs, NEW i \in Steps, LeaseLapse(r, i) \/ LeaseOverrun(r, i)
      PROVE  RunningHasLease'
  BY <1>5, LeaseTimeLeases
<1>6. CASE UNCHANGED vars
  BY <1>6, RowsUnwritten DEF vars, rowVars
<1> QED
  BY <1>1, <1>2, <1>3, <1>4, <1>5, <1>6 DEF Next

LEMMA InitLeased == Init => RunningHasLease
BY DEF Init, RunningHasLease, FreshStep

\* Whatever sessions race, crash or overrun, and whatever the template: no step of
\* the runtime takes the owner or the lease from a running row, except a resume
\* request that recovers a run whose step went from pending to running, and lapsed,
\* since it read the rows (resume, then recover_expired_step_leases).
THEOREM LeaseLostOnlyByResume ==
    Spec => [][RunningHasLease /\ ~ResumesStale => RunningHasLease']_vars
<1>1. TypeInv /\ [Next]_vars => (RunningHasLease /\ ~ResumesStale => RunningHasLease')
  BY LeaseStep
<1> QED
  BY <1>1, TypeInvariant, PTL DEF Spec

-----------------------------------------------------------------------------
(* Templates without a human gate *)

\* The template pauses for nobody, as code_compliance_scan, vendor_risk_review,
\* evidence_collection and ai_system_intake do (production_workflows.py:43,157,197,215).
NoHumanGate == \A i \in Steps : Kind[i] # "gate.human"

\* Nothing waits, and no session is or ever becomes a resumed one.
NothingWaits ==
    /\ \A r \in Runs : run[r].status # "awaiting_approval"
    /\ \A s \in Sessions : /\ sess[s].pc \notin {"rload", "rdecide"} /\ ~sess[s].resumed
                           /\ sess[s].verdict # "awaiting_approval"

\* A step of session s that leaves a session that waits for nothing.
LEMMA WaitlessStep ==
    ASSUME TypeInv, NothingWaits, NEW s \in Sessions, NEW me, Set(s, me),
           me.pc \notin {"rload", "rdecide"}, ~me.resumed, me.verdict # "awaiting_approval",
           \A r \in Runs : run'[r].status # "awaiting_approval"
    PROVE  NothingWaits'
BY SetValue DEF NothingWaits

LEMMA WaitlessIdle ==
    ASSUME TypeInv, NothingWaits, NEW s \in Sessions, Set(s, Idle),
           \A r \in Runs : run'[r].status # "awaiting_approval"
    PROVE  NothingWaits'
<1>1. /\ Idle.pc = "idle" /\ ~Idle.resumed /\ Idle.verdict = "succeeded"
  BY DEF Idle
<1> QED
  BY <1>1, WaitlessStep

LEMMA WaitlessNextRun ==
    ASSUME TypeInv, NothingWaits, NEW s \in Sessions, NEW old, Set(s, NextRun(old)), UNCHANGED run
    PROVE  NothingWaits'
<1>1. /\ NextRun(old).pc \in {"idle", "recover"} /\ ~NextRun(old).resumed
      /\ NextRun(old).verdict = "succeeded"
  BY DEF NextRun, Idle
<1> QED
  BY <1>1, WaitlessStep DEF NothingWaits

\* A step that changes what session s is doing but neither its verdict nor how it came
\* to its rows.
LEMMA WaitlessKept ==
    ASSUME TypeInv, NothingWaits, NEW s \in Sessions, NEW me, Set(s, me),
           me.pc \notin {"rload", "rdecide"}, me.resumed = sess[s].resumed,
           me.verdict = sess[s].verdict,
           \A r \in Runs : run'[r].status # "awaiting_approval"
    PROVE  NothingWaits'
BY WaitlessStep DEF NothingWaits

LEMMA RequestWaitless ==
    ASSUME TypeInv, NothingWaits, NEW s \in Sessions, NEW r \in Runs, StartSync(s, r)
    PROVE  NothingWaits'
<1> DEFINE sync == [Idle EXCEPT !.pc = "lookup", !.run = r]
<1>1. sync.pc = "lookup" /\ ~sync.resumed /\ sync.verdict = "succeeded"
  BY DEF Idle
<1>2. Set(s, sync)
  BY DEF StartSync, Request
<1>3. \A q \in Runs : run'[q].status # "awaiting_approval"
  BY DEF StartSync, NewRun, NothingWaits, TypeInv, TypeOK
<1> HIDE DEF sync
<1> QED
  BY <1>1, <1>2, <1>3, WaitlessStep

LEMMA RunRequestWaitless ==
    ASSUME TypeInv, NothingWaits, NEW r \in Runs, Enqueue(r) \/ Cancel(r)
    PROVE  NothingWaits'
<1>1. UNCHANGED sess /\ run \in [Runs -> RunRow]
  BY DEF Enqueue, Cancel, TypeInv, TypeOK
<1>2. \A q \in Runs : run'[q].status \in {run[q].status, "queued", "cancelled"}
  <2>1. CASE Enqueue(r)
    <3>1. PICK manual \in BOOLEAN :
             run' = [run EXCEPT ![r] = [run[r] EXCEPT !.status = "queued", !.manual = manual]]
      BY <2>1, <1>1 DEF Enqueue, NewRun
    <3> QED  BY <1>1, <3>1 DEF RunRow
  <2>2. CASE Cancel(r)
    BY <1>1, <2>2 DEF Cancel, RunRow
  <2> QED  BY <2>1, <2>2
<1> QED
  BY <1>1, <1>2 DEF NothingWaits

LEMMA StartingWaitless ==
    ASSUME TypeInv, NothingWaits, NEW s \in Sessions,
           Lookup(s) \/ RecoverRun(s) \/ LoadSteps(s) \/ MarkRunning(s)
    PROVE  NothingWaits'
<1> DEFINE me == sess[s]
           r == me.run
<1>1. me \in Session /\ r \in Runs /\ run[r] \in RunRow
  BY OwnRun DEF Lookup, RecoverRun, LoadSteps, MarkRunning
<1>2. CASE Lookup(s)
  <2>1. CASE run[r].status \in Active
    <3> DEFINE new == [me EXCEPT !.pc = "recover", !.snap[r] = run[r]]
    <3>1. Set(s, new) /\ UNCHANGED run
      BY <1>2, <2>1 DEF Lookup, rowVars
    <3>2. new.pc = "recover" /\ new.resumed = me.resumed /\ new.verdict = me.verdict
      BY <1>1 DEF Session
    <3> HIDE DEF new
    <3> QED  BY <3>1, <3>2, WaitlessKept DEF NothingWaits
  <2>2. CASE run[r].status \notin Active
    BY <1>2, <2>2, WaitlessIdle DEF Lookup, rowVars, NothingWaits
  <2> QED  BY <2>1, <2>2
<1>3. CASE RecoverRun(s)
  <2>1. PICK cache : Set(s, [me EXCEPT !.pc = "load", !.cache = cache])
    BY <1>3 DEF RecoverRun
  <2> DEFINE new == [me EXCEPT !.pc = "load", !.cache = cache]
  <2>2. new.pc = "load" /\ new.resumed = me.resumed /\ new.verdict = me.verdict
    BY <1>1 DEF Session
  <2>3. \A q \in Runs : run'[q].status = run[q].status
    BY <1>1, <1>3 DEF RecoverRun, TypeInv, TypeOK, RunRow
  <2> HIDE DEF new
  <2> QED  BY <2>1, <2>2, <2>3, WaitlessKept DEF NothingWaits, new
<1>4. CASE LoadSteps(s)
  <2>1. PICK cache : Set(s, [me EXCEPT !.pc = "mark", !.cache = cache])
    BY <1>4 DEF LoadSteps
  <2> DEFINE new == [me EXCEPT !.pc = "mark", !.cache = cache]
  <2>2. new.pc = "mark" /\ new.resumed = me.resumed /\ new.verdict = me.verdict
    BY <1>1 DEF Session
  <2>3. UNCHANGED run
    BY <1>4 DEF LoadSteps, rowVars
  <2> HIDE DEF new
  <2> QED  BY <2>1, <2>2, <2>3, WaitlessKept DEF NothingWaits, new
<1>5. CASE MarkRunning(s)
  <2> DEFINE new == [me EXCEPT !.pc = "plan", !.findings = me.snap[r].findings,
                               !.proposals = me.snap[r].proposals]
  <2>1. Set(s, new)
    BY <1>5 DEF MarkRunning
  <2>2. new.pc = "plan" /\ new.resumed = me.resumed /\ new.verdict = me.verdict
    BY <1>1 DEF Session
  <2>3. \A q \in Runs : run'[q].status \in {run[q].status, "running"}
    BY <1>1, <1>5 DEF MarkRunning, Flush, TypeInv, TypeOK, RunRow
  <2> HIDE DEF new
  <2> QED  BY <2>1, <2>2, <2>3, WaitlessKept DEF NothingWaits
<1> QED
  BY <1>2, <1>3, <1>4, <1>5

LEMMA WorkWaitless ==
    ASSUME TypeInv, NothingWaits, NEW s \in Sessions,
           LeaseReady(s) \/ (\E i \in Steps : ExecuteStep(s, i) \/ HookSend(s, i) \/ HookSave(s, i)
                               \/ AgentFound(s, i) \/ AgentMissing(s, i) \/ AgentInserted(s, i))
    PROVE  NothingWaits'
<1> DEFINE me == sess[s]
<1>1. me \in Session /\ me.pc \in {"plan", "exec"} /\ UNCHANGED run
  BY OwnRun DEF LeaseReady, ExecuteStep, HookSend, HookSave, AgentFound, AgentMissing, AgentInserted,
     AgentReports, Working, rowVars
<1>2. PICK pc, cache, work :
         pc \in {"plan", "exec"} /\ Set(s, [me EXCEPT !.pc = pc, !.cache = cache, !.work = work])
  <2> DEFINE Kept(pc, cache, work) ==
                /\ pc \in {"plan", "exec"}
                /\ Set(s, [me EXCEPT !.pc = pc, !.cache = cache, !.work = work])
  <2>1. ASSUME LeaseReady(s) PROVE \E pc, cache, work : Kept(pc, cache, work)
    <3> DEFINE cache == [i \in Steps |-> IF i \in Ready(me.cache) THEN Leased(me.cache[i], s)
                                         ELSE me.cache[i]]
               work == [i \in Steps |-> IF i \in Ready(me.cache)
                                        THEN [NoWork EXCEPT !.stage = "leased"] ELSE NoWork]
    <3>1. Set(s, [me EXCEPT !.pc = "exec",
                   !.cache = [i \in Steps |-> IF i \in Ready(me.cache)
                                THEN [j \in Steps |-> Leased(me.cache[j], s)][i] ELSE me.cache[i]],
                   !.work = work])
      BY <2>1, Zenon DEF LeaseReady
    <3>2. Set(s, [me EXCEPT !.pc = "exec", !.cache = cache, !.work = work])
      BY <3>1
    <3> HIDE DEF cache, work
    <3>3. Kept("exec", cache, work)
      BY <3>2
    <3> HIDE DEF Kept
    <3> QED  BY <3>3
  <2>2. ASSUME NEW w, Set(s, [me EXCEPT !.work = w])
        PROVE  Kept(me.pc, me.cache, w)
    <3>1. [me EXCEPT !.work = w] = [me EXCEPT !.pc = me.pc, !.cache = me.cache, !.work = w]
      BY <1>1 DEF Session
    <3> QED  BY <1>1, <2>2, <3>1
  <2>3. ASSUME ~LeaseReady(s) PROVE \E w : Set(s, [me EXCEPT !.work = w])
    <3>1. ASSUME NEW i, NEW status, NEW out, Finished(s, i, status, out)
          PROVE  \E w : Set(s, [me EXCEPT !.work = w])
      <4> DEFINE w == [me.work EXCEPT ![i] = [stage |-> "done", status |-> status, out |-> out]]
      <4>1. Set(s, [me EXCEPT !.work = w])
        BY <3>1 DEF Finished
      <4> QED  BY <4>1
    <3>2. ASSUME NEW i, NEW stage, Set(s, [me EXCEPT !.work[i].stage = stage])
          PROVE  \E w : Set(s, [me EXCEPT !.work = w])
      <4> DEFINE w == [me.work EXCEPT ![i].stage = stage]
      <4>1. Set(s, [me EXCEPT !.work = w])
        BY <3>2
      <4> QED  BY <4>1
    <3> QED
      BY <2>3, <3>1, <3>2 DEF ExecuteStep, HookSend, HookSave, AgentFound, AgentMissing,
         AgentInserted, AgentReports
  <2> QED
    <3> HIDE DEF Kept
    <3>1. \E pc, cache, work : Kept(pc, cache, work)
      BY <2>1, <2>2, <2>3
    <3> QED  BY <3>1 DEF Kept
<1> DEFINE new == [me EXCEPT !.pc = pc, !.cache = cache, !.work = work]
<1>3. new.pc = pc /\ new.resumed = me.resumed /\ new.verdict = me.verdict
  BY <1>1 DEF Session
<1> HIDE DEF new
<1> QED
  BY <1>1, <1>2, <1>3, WaitlessKept DEF NothingWaits, new

\* Without a human gate no result waits for approval (_execute_step).
LEMMA ResultsWaitless ==
    ASSUME NoHumanGate, IInv, NothingWaits, NEW s \in Sessions, RecordResults(s)
    PROVE  NothingWaits'
<1> DEFINE me == sess[s]
           bad == {i \in Steps : me.work[i].stage = "done" /\ me.work[i].status # "succeeded"}
<1>1. me \in Session /\ me.run \in Runs /\ SessionBacked(me)
  BY OwnRun DEF RecordResults, IInv, StatusesEarned
<1>2. \A i \in Steps : me.work[i].stage = "done" => me.work[i].status # "awaiting_approval"
  BY <1>1, RuntimeAssumption DEF SessionBacked, NoHumanGate, Runs
<1>3. Verdict(me.work) # "awaiting_approval"
  <2>1. bad # {} => Last(bad) \in bad
    BY LastIn
  <2> QED  BY <1>2, <2>1 DEF Verdict
<1>4. PICK cache, work, findings, proposals :
         Set(s, [me EXCEPT !.pc = "plan", !.cache = cache, !.work = work, !.findings = findings,
                           !.proposals = proposals, !.verdict = Verdict(me.work)])
  BY DEF RecordResults
<1> DEFINE new == [me EXCEPT !.pc = "plan", !.cache = cache, !.work = work, !.findings = findings,
                             !.proposals = proposals, !.verdict = Verdict(me.work)]
<1>5. new.pc = "plan" /\ new.resumed = me.resumed /\ new.verdict = Verdict(me.work)
  BY <1>1 DEF Session
<1>6. UNCHANGED run /\ ~me.resumed
  BY DEF RecordResults, NothingWaits
<1> HIDE DEF new
<1> QED
  BY <1>3, <1>4, <1>5, <1>6, WaitlessStep DEF NothingWaits, new, IInv

LEMMA EndingWaitless ==
    ASSUME TypeInv, NothingWaits, NEW s \in Sessions, Finalize(s) \/ Refresh(s)
    PROVE  NothingWaits'
<1> DEFINE me == sess[s]
           r == me.run
<1>1. me \in Session /\ r \in Runs /\ run[r] \in RunRow
  BY OwnRun DEF Finalize, Refresh
<1>2. CASE Finalize(s)
  <2> DEFINE new == [me EXCEPT !.pc = "refresh"]
  <2>1. Set(s, new) /\ new.pc = "refresh" /\ new.resumed = me.resumed /\ new.verdict = me.verdict
    BY <1>1, <1>2 DEF Finalize, Session
  <2>2. FinalStatus(me) # "awaiting_approval"
    BY DEF FinalStatus, NothingWaits
  <2>3. \A q \in Runs : run'[q].status \in {run[q].status, FinalStatus(me)}
    BY <1>1, <1>2 DEF Finalize, Flush, TypeInv, TypeOK, RunRow
  <2> HIDE DEF new
  <2> QED  BY <2>1, <2>2, <2>3, WaitlessKept DEF NothingWaits
<1>3. CASE Refresh(s)
  <2> DEFINE new == [me EXCEPT !.pc = "publish", !.snap[r] = run[r]]
  <2>1. Set(s, new) /\ UNCHANGED run
    BY <1>3 DEF Refresh, rowVars
  <2>2. new.pc = "publish" /\ new.resumed = me.resumed /\ new.verdict = me.verdict
    BY <1>1 DEF Session
  <2> HIDE DEF new
  <2> QED  BY <2>1, <2>2, WaitlessKept DEF NothingWaits
<1> QED
  BY <1>2, <1>3

LEMMA WaitlessNext ==
    ASSUME NoHumanGate, IInv, NothingWaits, [Next]_vars
    PROVE  NothingWaits'
<1> USE DEF IInv
<1>1. ASSUME NEW s \in Sessions, Advance(s) PROVE NothingWaits'
  <2>1. ASSUME NEW i \in Steps, AgentConflict(s, i) PROVE NothingWaits'
    BY <2>1, WaitlessIdle DEF AgentConflict, NothingWaits
  <2>2. CASE StepWork(s)
    BY <2>1, <2>2, WorkWaitless DEF StepWork
  <2>3. CASE DrainSelect(s) \/ Publish(s)
    <3>1. UNCHANGED run /\ \E old : Set(s, NextRun(old))
      BY <2>3 DEF DrainSelect, Publish, rowVars
    <3> QED  BY <3>1, WaitlessNextRun
  <2>4. ~(ResumeLoad(s) \/ ResumeNothing(s) \/ Approve(s) \/ Reject(s))
    BY DEF ResumeLoad, ResumeNothing, Approve, Reject, NothingWaits
  <2> QED
    BY <1>1, <2>2, <2>3, <2>4, StartingWaitless, WorkWaitless, ResultsWaitless, EndingWaitless
       DEF Advance
<1>2. ASSUME NEW s \in Sessions, DrainRecover(s) PROVE NothingWaits'
  <2> DEFINE drain == [Idle EXCEPT !.pc = "select"]
  <2>1. /\ Set(s, drain) /\ UNCHANGED run
        /\ drain.pc = "select" /\ ~drain.resumed /\ drain.verdict = "succeeded"
    BY <1>2 DEF DrainRecover, Request, Idle
  <2> HIDE DEF drain
  <2> QED  BY <2>1, WaitlessStep DEF NothingWaits
<1>3. ASSUME NEW s \in Sessions, Crash(s) PROVE NothingWaits'
  BY <1>3, WaitlessIdle DEF Crash, NothingWaits
<1>4. ASSUME NEW s \in Sessions, NEW r \in Runs, StartSync(s, r) \/ ResumeLookup(s, r)
      PROVE  NothingWaits'
  <2>1. ~ResumeLookup(s, r)
    BY DEF ResumeLookup, NothingWaits
  <2> QED  BY <1>4, <2>1, RequestWaitless
<1>5. ASSUME NEW r \in Runs, Enqueue(r) \/ Cancel(r) PROVE NothingWaits'
  BY <1>5, RunRequestWaitless
<1>6. CASE UNCHANGED <<run, sess>>
  BY <1>6 DEF NothingWaits
<1> QED
  BY <1>1, <1>2, <1>3, <1>4, <1>5, <1>6 DEF Next, LeaseLapse, LeaseOverrun, vars, rowVars

LEMMA InitWaitless == Init => NothingWaits
BY DEF Init, NothingWaits, AbsentRun, Idle

\* Of a template without a human gate, any number of drains and sync requests,
\* racing, crashing and overrunning their leases, leave no step row that says
\* running without an owner and a lease: recovery finds every one of them
\* (_lease_step, recover_expired_step_leases, _recover_run_expired_steps).
THEOREM LeasedTheorem ==
    ASSUME NoHumanGate
    PROVE  Spec => []RunningHasLease
<1>1. IInv /\ NothingWaits /\ RunningHasLease /\ [Next]_vars
        => (IInv /\ NothingWaits /\ RunningHasLease)'
  <2> SUFFICES ASSUME IInv, NothingWaits, RunningHasLease, [Next]_vars
               PROVE  (IInv /\ NothingWaits /\ RunningHasLease)'
    OBVIOUS
  <2>1. ~ResumesStale /\ TypeInv
    BY DEF ResumesStale, NothingWaits, IInv
  <2> QED  BY <2>1, EarnedStep, WaitlessNext, LeaseStep
<1>2. Init => IInv /\ NothingWaits /\ RunningHasLease
  BY InitEarned, InitWaitless, InitLeased
<1> QED
  BY <1>1, <1>2, PTL DEF Spec

-----------------------------------------------------------------------------
(* The runtime implements GovernedRuns *)

\* What waits for approval, in a row or in a copy of one, was executed, on a run that
\* asks for a human; what a session has a result of, it started.
RowStarted(row, r, i) == row.status = "awaiting_approval" => execs[r][i] > 0 /\ run[r].manual

HandsStarted(me) ==
    me.run # 0 => \A i \in Steps :
        /\ RowStarted(me.cache[i], me.run, i)
        /\ me.work[i].stage \in {"sent", "done"} => execs[me.run][i] > 0
        /\ me.work[i].stage = "done" /\ me.work[i].status = "awaiting_approval" => run[me.run].manual

WorkStarted ==
    /\ \A r \in Runs : /\ run[r].status = "absent" => ~run[r].manual
                       /\ \A i \in Steps : RowStarted(step[r][i], r, i)
    /\ \A s \in Sessions : HandsStarted(sess[s])

\* What every step does to what WorkStarted looks back on.
ManualStays ==
    \A r \in Runs : /\ run[r].manual => run'[r].manual
                    /\ run'[r].status = "absent" => ~run'[r].manual
ExecsGrow == \A r \in Runs : \A i \in Steps : execs'[r][i] \in Nat /\ execs[r][i] <= execs'[r][i]
RowsWait ==
    \A r \in Runs : \A i \in Steps :
        step'[r][i].status = step[r][i].status \/ step'[r][i].status # "awaiting_approval"

\* No run appears, disappears or changes its inputs.
RunsSame ==
    \A r \in Runs : /\ run'[r].status = "absent" <=> run[r].status = "absent"
                    /\ run'[r].manual = run[r].manual

LEMMA SameStays == WorkStarted /\ RunsSame => ManualStays
BY DEF WorkStarted, RunsSame, ManualStays

LEMMA SameExecs == TypeInv /\ UNCHANGED execs => ExecsGrow
<1> SUFFICES ASSUME TypeInv, UNCHANGED execs, NEW r \in Runs, NEW i \in Steps
             PROVE  execs'[r][i] \in Nat /\ execs[r][i] <= execs'[r][i]
  BY DEF ExecsGrow
<1>1. execs[r][i] \in Nat
  BY DEF TypeInv, TypeOK
<1> QED
  BY <1>1

LEMMA RowStays ==
    ASSUME TypeInv, ManualStays, ExecsGrow, NEW r \in Runs, NEW i \in Steps, NEW row,
           RowStarted(row, r, i)
    PROVE  row.status = "awaiting_approval" => execs'[r][i] > 0 /\ run'[r].manual
<1>1. execs[r][i] \in Nat /\ execs'[r][i] \in Nat /\ execs[r][i] <= execs'[r][i]
  BY DEF TypeInv, TypeOK, ExecsGrow
<1> QED
  BY <1>1 DEF RowStarted, ManualStays

\* A step of session s that makes no row wait only has to leave s with started work.
LEMMA WorkStep ==
    ASSUME TypeInv, WorkStarted, ManualStays, ExecsGrow, RowsWait,
           NEW s \in Sessions, NEW me, Set(s, me), HandsStarted(sess[s])'
    PROVE  WorkStarted'
<1>1. \A r \in Runs : \A i \in Steps : RowStarted(step[r][i], r, i)'
  <2> SUFFICES ASSUME NEW r \in Runs, NEW i \in Steps, step'[r][i].status = "awaiting_approval"
               PROVE  execs'[r][i] > 0 /\ run'[r].manual
    BY DEF RowStarted
  <2> QED  BY RowStays DEF WorkStarted, RowsWait
<1>2. \A t \in Sessions : HandsStarted(sess[t])'
  <2> SUFFICES ASSUME NEW t \in Sessions, t # s, sess[t].run # 0
               PROVE  HandsStarted(sess[t])'
    BY SetValue DEF HandsStarted
  <2>1. sess'[t] = sess[t] /\ HandsStarted(sess[t]) /\ sess[t].run \in Runs
    BY SetValue DEF WorkStarted, TypeInv, TypeOK, Session
  <2>2. ASSUME NEW i \in Steps
        PROVE  /\ sess[t].cache[i].status = "awaiting_approval"
                    => execs'[sess[t].run][i] > 0 /\ run'[sess[t].run].manual
               /\ sess[t].work[i].stage \in {"sent", "done"} => execs'[sess[t].run][i] > 0
               /\ sess[t].work[i].stage = "done" /\ sess[t].work[i].status = "awaiting_approval"
                    => run'[sess[t].run].manual
    <3>1. /\ RowStarted(sess[t].cache[i], sess[t].run, i)
          /\ sess[t].work[i].stage \in {"sent", "done"} => execs[sess[t].run][i] > 0
          /\ sess[t].work[i].stage = "done" /\ sess[t].work[i].status = "awaiting_approval"
                => run[sess[t].run].manual
      BY <2>1 DEF HandsStarted
    <3>2. /\ execs[sess[t].run][i] \in Nat /\ execs'[sess[t].run][i] \in Nat
          /\ execs[sess[t].run][i] <= execs'[sess[t].run][i]
      BY <2>1 DEF TypeInv, TypeOK, ExecsGrow
    <3>3. sess[t].cache[i].status = "awaiting_approval"
             => execs'[sess[t].run][i] > 0 /\ run'[sess[t].run].manual
      BY <2>1, <3>1, RowStays
    <3> QED  BY <2>1, <3>1, <3>2, <3>3 DEF ManualStays
  <2> QED  BY <2>1, <2>2 DEF HandsStarted, RowStarted
<1> QED
  BY <1>1, <1>2 DEF WorkStarted, ManualStays

\* A session that starts over holds nothing.
LEMMA FreshHands ==
    ASSUME NEW s \in Sessions,
           \A i \in Steps : sess'[s].cache[i] = FreshStep /\ sess'[s].work[i] = NoWork
    PROVE  HandsStarted(sess[s])'
BY DEF HandsStarted, RowStarted, FreshStep, NoWork

\* A session that stays on its run: of its rows only read ones wait, and what it has a
\* result of has started.
LEMMA HandsStep ==
    ASSUME TypeInv, WorkStarted, ManualStays, ExecsGrow, NEW s \in Sessions,
           sess[s].run \in Runs, sess'[s].run = sess[s].run, sess[s].run # 0,
           \A i \in Steps : sess'[s].cache[i].status
               \in (StepStatus \ {"awaiting_approval"})
                     \cup {sess[s].cache[i].status, step[sess[s].run][i].status},
           \A i \in Steps :
               \/ sess'[s].work[i] = sess[s].work[i]
               \/ sess'[s].work[i].stage \in {"none", "leased", "inserting"}
               \/ /\ execs'[sess[s].run][i] > 0
                  /\ sess'[s].work[i].stage = "done"
                        /\ sess'[s].work[i].status = "awaiting_approval" => run[sess[s].run].manual
    PROVE  HandsStarted(sess[s])'
<1> DEFINE r == sess[s].run
<1>1. HandsStarted(sess[s]) /\ \A i \in Steps : RowStarted(step[r][i], r, i)
  BY DEF WorkStarted
<1> SUFFICES ASSUME NEW i \in Steps
             PROVE  /\ sess'[s].cache[i].status = "awaiting_approval"
                         => execs'[r][i] > 0 /\ run'[r].manual
                    /\ sess'[s].work[i].stage \in {"sent", "done"} => execs'[r][i] > 0
                    /\ sess'[s].work[i].stage = "done" /\ sess'[s].work[i].status = "awaiting_approval"
                         => run'[r].manual
  BY DEF HandsStarted, RowStarted
<1>2. execs[r][i] \in Nat /\ execs'[r][i] \in Nat /\ execs[r][i] <= execs'[r][i]
  BY DEF TypeInv, TypeOK, ExecsGrow
<1>3. sess'[s].cache[i].status = "awaiting_approval" => execs'[r][i] > 0 /\ run'[r].manual
  <2>1. RowStarted(sess[s].cache[i], r, i) /\ RowStarted(step[r][i], r, i)
    BY <1>1 DEF HandsStarted
  <2> QED  BY <2>1, RowStays DEF StepStatus
<1>4. /\ sess[s].work[i].stage \in {"sent", "done"} => execs[r][i] > 0
      /\ sess[s].work[i].stage = "done" /\ sess[s].work[i].status = "awaiting_approval" => run[r].manual
  BY <1>1 DEF HandsStarted
<1> QED
  BY <1>2, <1>3, <1>4 DEF ManualStays

-----------------------------------------------------------------------------
(* What a step is of the abstract specification *)

GVars == <<createdBar, manualBar, startedBar, completed, decided, approved, sends>>
Refines == Governed!GNext \/ UNCHANGED GVars

\* Nothing of a governed run changes.
LEMMA Stutters ==
    ASSUME RunsSame, UNCHANGED <<execs, completed, decided, approved, sends>>
    PROVE  UNCHANGED GVars
<1>1. createdBar' = createdBar /\ manualBar' = manualBar /\ startedBar' = startedBar
  BY DEF createdBar, manualBar, startedBar, RunsSame
<1> QED
  BY <1>1 DEF GVars

\* A step of one session that is none of an execution, a recording or an approval.
LEMMA QuietWork ==
    ASSUME TypeInv, WorkStarted, RunsSame, RowsWait,
           UNCHANGED <<execs, completed, decided, approved, sends>>,
           NEW s \in Sessions, NEW me, Set(s, me), HandsStarted(sess[s])'
    PROVE  WorkStarted' /\ Refines
BY SameStays, SameExecs, WorkStep, Stutters DEF Refines

\* ... that leaves the session with nothing in hand.
LEMMA QuietFresh ==
    ASSUME TypeInv, WorkStarted, RunsSame, RowsWait,
           UNCHANGED <<execs, completed, decided, approved, sends>>,
           NEW s \in Sessions, NEW me, Set(s, me),
           \A i \in Steps : me.cache[i] = FreshStep /\ me.work[i] = NoWork
    PROVE  WorkStarted' /\ Refines
<1>1. HandsStarted(sess[s])'
  BY SetValue, FreshHands
<1> QED
  BY <1>1, QuietWork

\* ... that keeps its work and changes its rows to read or not waiting ones.
LEMMA QuietRows ==
    ASSUME TypeInv, WorkStarted, RunsSame, RowsWait,
           UNCHANGED <<execs, completed, decided, approved, sends>>,
           NEW s \in Sessions, NEW me, Set(s, me), sess[s].run \in Runs, me.run = sess[s].run,
           \A i \in Steps : me.cache[i].status
               \in (StepStatus \ {"awaiting_approval"})
                     \cup {sess[s].cache[i].status, step[sess[s].run][i].status},
           \A i \in Steps : me.work[i] = sess[s].work[i]
                            \/ me.work[i].stage \in {"none", "leased", "inserting"}
    PROVE  WorkStarted' /\ Refines
<1>1. sess'[s] = me /\ sess[s].run # 0
  BY SetValue, RuntimeAssumption DEF Runs
<1>2. HandsStarted(sess[s])'
  BY <1>1, HandsStep, SameStays, SameExecs
<1> QED
  BY <1>2, QuietWork

LEMMA FreshSessions ==
    /\ \A i \in Steps : Idle.cache[i] = FreshStep /\ Idle.work[i] = NoWork
    /\ \A me : \A i \in Steps : NextRun(me).cache[i] = FreshStep /\ NextRun(me).work[i] = NoWork
BY DEF Idle, NextRun

LEMMA SameRun == UNCHANGED run => RunsSame
BY DEF RunsSame

LEMMA SameRows == UNCHANGED step => RowsWait
BY DEF RowsWait

\* One run's status or outputs are written.
LEMMA WrittenRun ==
    ASSUME TypeInv, NEW r \in Runs, run[r].status # "absent", NEW row,
           run' = [run EXCEPT ![r] = row], row.status # "absent", row.manual = run[r].manual
    PROVE  RunsSame
BY DEF RunsSame, TypeInv, TypeOK

LEMMA WrittenRows ==
    ASSUME TypeInv, NEW r \in Runs, NEW rows, step' = [step EXCEPT ![r] = rows],
           \A i \in Steps : rows[i].status = step[r][i].status
                            \/ rows[i].status # "awaiting_approval"
    PROVE  RowsWait
BY DEF RowsWait, TypeInv, TypeOK

\* A new run is a Create of the abstract specification.
LEMMA NewRunRefines ==
    ASSUME TypeInv, WorkStarted, NEW r \in Runs, NEW status \in RunStatus, status # "absent",
           NewRun(r, status), UNCHANGED <<execs, completed, decided, approved, sends>>
    PROVE  ManualStays /\ Refines
<1>1. PICK manual \in BOOLEAN :
         run' = [run EXCEPT ![r] = [run[r] EXCEPT !.status = status, !.manual = manual]]
  <2>1. PICK manual \in BOOLEAN : run' = [run EXCEPT ![r].status = status, ![r].manual = manual]
    BY DEF NewRun
  <2>2. run' = [run EXCEPT ![r] = [run[r] EXCEPT !.status = status, !.manual = manual]]
    BY <2>1 DEF TypeInv, TypeOK
  <2> QED  BY <2>2
<1>2. /\ run[r].status = "absent" /\ ~run[r].manual /\ run[r] \in RunRow
      /\ run'[r].status = status /\ run'[r].manual = manual
      /\ \A q \in Runs : q # r => run'[q] = run[q]
  <2>1. run[r].status = "absent" /\ ~run[r].manual
    BY DEF NewRun, WorkStarted
  <2>2. run[r] \in RunRow /\ run \in [Runs -> RunRow]
    BY DEF TypeInv, TypeOK
  <2>3. run'[r] = [run[r] EXCEPT !.status = status, !.manual = manual]
        /\ \A q \in Runs : q # r => run'[q] = run[q]
    BY <1>1, <2>2
  <2>4. run'[r].status = status /\ run'[r].manual = manual
    BY <2>2, <2>3 DEF RunRow
  <2> QED  BY <2>1, <2>2, <2>3, <2>4
<1>3. ManualStays
  BY <1>2 DEF ManualStays, WorkStarted
<1>4. /\ r \notin createdBar /\ createdBar' = createdBar \cup {r}
      /\ manualBar' \in {manualBar, manualBar \cup {r}} /\ startedBar' = startedBar
  <2>1. manual = TRUE \/ manual = FALSE
    OBVIOUS
  <2>2. createdBar' = createdBar \cup {r} /\ r \notin createdBar
    BY <1>2 DEF createdBar
  <2>3. manual = TRUE => manualBar' = manualBar \cup {r}
    BY <1>2 DEF manualBar
  <2>4. manual = FALSE => manualBar' = manualBar
    BY <1>2 DEF manualBar
  <2>5. startedBar' = startedBar
    BY DEF startedBar
  <2> QED  BY <2>1, <2>2, <2>3, <2>4, <2>5
<1>5. Governed!Create(r)
  BY <1>4 DEF Governed!Create
<1> QED
  BY <1>3, <1>5 DEF Governed!GNext, Refines

\* An execution is a Start.
LEMMA StartRefines ==
    ASSUME IInv, WorkStarted, NEW s \in Sessions, sess[s].pc = "exec", NEW i \in Steps,
           sess[s].work[i].stage # "none", Started(s, i),
           UNCHANGED <<run, completed, decided, approved>>,
           \/ UNCHANGED sends
           \/ Kind[i] = "hook.out" /\ sends' = [sends EXCEPT ![sess[s].run] = @ + 1]
    PROVE  Refines
<1> DEFINE r == sess[s].run
<1>1. /\ r \in Runs /\ SessionBacked(sess[s]) /\ SessionOnRun(sess[s]) /\ r # 0
      /\ execs \in [Runs -> [Steps -> Nat]]
  <2>1. r \in Runs /\ execs \in [Runs -> [Steps -> Nat]]
    BY OwnRun DEF IInv, TypeInv, TypeOK
  <2>2. SessionBacked(sess[s]) /\ SessionOnRun(sess[s])
    BY DEF IInv, StatusesEarned
  <2> QED  BY <2>1, <2>2, RuntimeAssumption DEF Runs
<1>2. r \in createdBar /\ 1..(i - 1) \subseteq completed[r]
  BY <1>1 DEF createdBar, SessionOnRun, SessionBacked
<1>3. createdBar' = createdBar /\ manualBar' = manualBar
  BY DEF createdBar, manualBar
<1>4. startedBar' = [startedBar EXCEPT ![r] = @ \cup {i}]
  <2>1. execs' = [execs EXCEPT ![r][i] = @ + 1]
    BY DEF Started
  <2>2. \A q \in Runs : {j \in Steps : execs'[q][j] > 0}
             = IF q = r THEN {j \in Steps : execs[q][j] > 0} \cup {i}
               ELSE {j \in Steps : execs[q][j] > 0}
    <3> SUFFICES ASSUME NEW q \in Runs
                 PROVE  {j \in Steps : execs'[q][j] > 0}
                          = IF q = r THEN {j \in Steps : execs[q][j] > 0} \cup {i}
                            ELSE {j \in Steps : execs[q][j] > 0}
      OBVIOUS
    <3>1. \A j \in Steps : execs'[q][j] = IF q = r /\ j = i THEN execs[q][j] + 1 ELSE execs[q][j]
      BY <1>1, <2>1
    <3>2. \A j \in Steps : execs[q][j] \in Nat
      BY <1>1
    <3>3. \A j \in Steps : execs'[q][j] > 0 <=> execs[q][j] > 0 \/ (q = r /\ j = i)
      BY <3>1, <3>2
    <3> QED  BY <3>3
  <2> QED  BY <1>1, <2>2, Zenon DEF startedBar
<1>5. Governed!Start(r, i)
  BY <1>2, <1>3, <1>4 DEF Governed!Start, Governed!Reached
<1> QED
  BY <1>1, <1>5 DEF Governed!GNext, Refines

-----------------------------------------------------------------------------
(* One lemma per action *)

LEMMA CreateImplements ==
    ASSUME IInv, WorkStarted, NEW r \in Runs,
           Enqueue(r) \/ (\E s \in Sessions : StartSync(s, r))
    PROVE  WorkStarted' /\ Refines
<1>1. CASE Enqueue(r)
  <2>1. ManualStays /\ Refines
    BY <1>1, NewRunRefines DEF Enqueue, IInv, RunStatus, history
  <2>2. UNCHANGED <<step, sess, execs>>
    BY <1>1 DEF Enqueue, history
  <2>3. ExecsGrow
    BY <2>2, SameExecs DEF IInv
  <2>4. WorkStarted'
    <3>1. \A q \in Runs : \A i \in Steps : RowStarted(step[q][i], q, i)'
      BY <2>1, <2>2 DEF WorkStarted, RowStarted, ManualStays
    <3>2. \A s \in Sessions : sess[s].run # 0 => sess[s].run \in Runs
      BY DEF IInv, TypeInv, TypeOK, Session
    <3>3. \A s \in Sessions : HandsStarted(sess[s])'
      BY <2>1, <2>2, <3>2 DEF WorkStarted, HandsStarted, RowStarted, ManualStays
    <3> QED  BY <2>1, <3>1, <3>3 DEF WorkStarted, ManualStays
  <2> QED  BY <2>1, <2>4
<1>2. ASSUME NEW s \in Sessions, StartSync(s, r) PROVE WorkStarted' /\ Refines
  <2> DEFINE me == [Idle EXCEPT !.pc = "lookup", !.run = r]
  <2>1. ManualStays /\ Refines
    BY <1>2, NewRunRefines DEF StartSync, IInv, RunStatus, history
  <2>2. UNCHANGED <<step, execs>> /\ Set(s, me)
    BY <1>2 DEF StartSync, Request, history
  <2>3. \A i \in Steps : me.cache[i] = FreshStep /\ me.work[i] = NoWork
    BY DEF Idle
  <2> HIDE DEF me
  <2>4. HandsStarted(sess[s])'
    BY <2>2, <2>3, SetValue, FreshHands DEF IInv
  <2> QED
    BY <2>1, <2>2, <2>4, SameExecs, SameRows, WorkStep DEF IInv
<1> QED
  BY <1>1, <1>2

\* Requests that begin, batches that move on and sessions that end.
LEMMA TurnImplements ==
    ASSUME IInv, WorkStarted, NEW s \in Sessions,
           \/ DrainSelect(s) \/ Publish(s) \/ ResumeNothing(s) \/ Crash(s)
           \/ \E i \in Steps : AgentConflict(s, i)
           \/ \E r \in Runs : ResumeLookup(s, r)
    PROVE  WorkStarted' /\ Refines
<1>1. UNCHANGED <<step, execs, completed, decided, approved, sends>>
  BY DEF DrainSelect, Publish, ResumeNothing, Crash, AgentConflict, ResumeLookup, rowVars, history
<1>2. \E me : Set(s, me) /\ \A i \in Steps : me.cache[i] = FreshStep /\ me.work[i] = NoWork
  <2>1. CASE \E r \in Runs : ResumeLookup(s, r)
    <3> PICK r \in Runs : ResumeLookup(s, r)
      BY <2>1
    <3>1. LET me == [Idle EXCEPT !.pc = "rload", !.run = r, !.snap[r] = run[r]]
          IN Set(s, me) /\ \A i \in Steps : me.cache[i] = FreshStep /\ me.work[i] = NoWork
      BY DEF ResumeLookup, Request, Idle
    <3> QED  BY <3>1
  <2>2. CASE ~\E r \in Runs : ResumeLookup(s, r)
    <3>1. Set(s, Idle) \/ \E me : Set(s, NextRun(me))
      BY <2>2 DEF DrainSelect, Publish, ResumeNothing, Crash, AgentConflict
    <3> QED  BY <3>1, FreshSessions
  <2> QED  BY <2>1, <2>2
<1>3. RunsSame
  <2>1. CASE ResumeNothing(s)
    <3> DEFINE r == sess[s].run
               row == [run[r] EXCEPT !.status = "succeeded"]
    <3>1. r \in Runs /\ run[r] \in RunRow /\ run[r].status # "absent"
      BY <2>1, OwnRun, OwnBacked DEF ResumeNothing, IInv
    <3>2. run' = [run EXCEPT ![r] = row]
      BY <2>1, <3>1 DEF ResumeNothing, IInv, TypeInv, TypeOK
    <3>3. row.status # "absent" /\ row.manual = run[r].manual
      BY <3>1 DEF RunRow
    <3> HIDE DEF row
    <3> QED  BY <3>1, <3>2, <3>3, WrittenRun DEF IInv
  <2>2. CASE ~ResumeNothing(s)
    BY <2>2, SameRun DEF DrainSelect, Publish, Crash, AgentConflict, ResumeLookup, rowVars
  <2> QED  BY <2>1, <2>2
<1> QED
  BY <1>1, <1>2, <1>3, SameRows, QuietFresh DEF IInv

LEMMA DrainRecoverImplements ==
    ASSUME IInv, WorkStarted, NEW s \in Sessions, DrainRecover(s)
    PROVE  WorkStarted' /\ Refines
<1> DEFINE me == [Idle EXCEPT !.pc = "select"]
<1>1. /\ UNCHANGED <<run, execs, completed, decided, approved, sends>> /\ Set(s, me)
      /\ \A i \in Steps : me.cache[i] = FreshStep /\ me.work[i] = NoWork
  BY DEF DrainRecover, Request, Idle, history
<1>2. RowsWait
  <2> SUFFICES ASSUME NEW r \in Runs, NEW i \in Steps
               PROVE  step'[r][i].status \in {step[r][i].status, "pending"}
    BY DEF RowsWait
  <2>1. step[r][i] \in StepRow
    BY DEF IInv, TypeInv, TypeOK
  <2>2. step'[r][i] = IF Expired(step[r][i]) THEN Recovered(step[r][i]) ELSE step[r][i]
    BY DEF DrainRecover
  <2> QED  BY <2>1, <2>2 DEF Recovered, StepRow
<1> HIDE DEF me
<1> QED
  BY <1>1, <1>2, SameRun, QuietFresh DEF IInv

LEMMA LookupImplements ==
    ASSUME IInv, WorkStarted, NEW s \in Sessions, Lookup(s)
    PROVE  WorkStarted' /\ Refines
<1> DEFINE old == sess[s]
           me == [old EXCEPT !.pc = "recover", !.snap[old.run] = run[old.run]]
<1>1. /\ UNCHANGED <<run, step, execs, completed, decided, approved, sends>>
      /\ old \in Session /\ old.run \in Runs
  BY OwnRun DEF Lookup, rowVars, history, IInv
<1>2. CASE run[old.run].status \notin Active
  <2>1. Set(s, Idle)
    BY <1>2 DEF Lookup
  <2> QED  BY <1>1, <2>1, FreshSessions, SameRun, SameRows, QuietFresh DEF IInv
<1>3. CASE run[old.run].status \in Active
  <2>1. Set(s, me)
    BY <1>3 DEF Lookup
  <2>2. me.run = old.run /\ me.cache = old.cache /\ me.work = old.work
    BY <1>1 DEF Session
  <2> HIDE DEF me
  <2> QED  BY <1>1, <2>1, <2>2, SameRun, SameRows, QuietRows DEF IInv
<1> QED
  BY <1>2, <1>3

\* Steps that only read, or write the run row.
LEMMA ReadImplements ==
    ASSUME IInv, WorkStarted, NEW s \in Sessions, LoadSteps(s) \/ Refresh(s) \/ ResumeLoad(s)
    PROVE  WorkStarted' /\ Refines
<1> DEFINE old == sess[s]
           load == [old EXCEPT !.pc = "mark", !.cache = IF old.resumed THEN @ ELSE step[old.run]]
           refresh == [old EXCEPT !.pc = "publish", !.snap[old.run] = run[old.run]]
           resume == [old EXCEPT !.pc = "rdecide", !.cache = step[old.run], !.resumed = TRUE]
<1>1. /\ UNCHANGED <<run, step, execs, completed, decided, approved, sends>>
      /\ old \in Session /\ old.run \in Runs
  BY OwnRun DEF LoadSteps, Refresh, ResumeLoad, rowVars, history, IInv
<1>2. PICK me \in {load, refresh, resume} : Set(s, me)
  BY DEF LoadSteps, Refresh, ResumeLoad
<1>3. me.run = old.run /\ me.cache \in {old.cache, step[old.run]} /\ me.work = old.work
  BY <1>1 DEF Session
<1> HIDE DEF load, refresh, resume
<1> QED
  BY <1>1, <1>2, <1>3, SameRun, SameRows, QuietRows DEF IInv

LEMMA MarkRunningImplements ==
    ASSUME IInv, WorkStarted, NEW s \in Sessions, MarkRunning(s)
    PROVE  WorkStarted' /\ Refines
<1> DEFINE old == sess[s]
           r == old.run
           row == [run[r] EXCEPT !.status = Flush(@, old.snap[r].status, "running")]
           me == [old EXCEPT !.pc = "plan", !.findings = old.snap[r].findings,
                             !.proposals = old.snap[r].proposals]
<1>1. /\ UNCHANGED <<step, execs, completed, decided, approved, sends>> /\ Set(s, me)
      /\ old \in Session /\ r \in Runs /\ run[r] \in RunRow /\ run[r].status # "absent"
  BY OwnRun, OwnBacked DEF MarkRunning, history, IInv
<1>2. RunsSame
  <2>1. run' = [run EXCEPT ![r] = row]
    BY <1>1 DEF MarkRunning, IInv, TypeInv, TypeOK
  <2>2. row.status # "absent" /\ row.manual = run[r].manual
    BY <1>1 DEF Flush, RunRow
  <2> HIDE DEF row
  <2> QED  BY <1>1, <2>1, <2>2, WrittenRun DEF IInv
<1>3. me.run = old.run /\ me.cache = old.cache /\ me.work = old.work
  BY <1>1 DEF Session
<1> HIDE DEF me
<1> QED
  BY <1>1, <1>2, <1>3, SameRows, QuietRows DEF IInv

LEMMA FinalizeImplements ==
    ASSUME IInv, WorkStarted, NEW s \in Sessions, Finalize(s)
    PROVE  WorkStarted' /\ Refines
<1> DEFINE old == sess[s]
           r == old.run
           final == FinalStatus(old)
           me == [old EXCEPT !.pc = "refresh"]
           rows == [i \in Steps |->
                      IF final = "failed" /\ old.cache[i].status = "pending"
                      THEN [step[r][i] EXCEPT !.status = "blocked"] ELSE step[r][i]]
<1>1. /\ UNCHANGED <<execs, completed, decided, approved, sends>> /\ Set(s, me)
      /\ old \in Session /\ r \in Runs /\ run[r] \in RunRow /\ run[r].status # "absent"
      /\ step[r] \in [Steps -> StepRow]
  BY OwnRun, OwnBacked DEF Finalize, history, IInv
<1>2. RunsSame
  <2>1. final # "absent"
    BY <1>1 DEF FinalStatus, Session, Outcome
  <2>2. PICK row : /\ run' = [run EXCEPT ![r] = row]
                   /\ \E findings, proposals :
                        row = [run[r] EXCEPT !.status = Flush(@, "running", final),
                                             !.findings = findings, !.proposals = proposals]
    BY DEF Finalize
  <2>3. row.status # "absent" /\ row.manual = run[r].manual
    <3> HIDE DEF final
    <3> QED  BY <1>1, <2>1, <2>2 DEF Flush, RunRow
  <2> QED  BY <1>1, <2>2, <2>3, WrittenRun DEF IInv
<1>3. RowsWait
  <2>1. step' = [step EXCEPT ![r] = rows]
    BY DEF Finalize
  <2>2. \A i \in Steps : rows[i].status \in {step[r][i].status, "blocked"}
    <3> HIDE DEF final
    <3> QED  BY <1>1 DEF StepRow
  <2> HIDE DEF rows
  <2> QED  BY <1>1, <2>1, <2>2, WrittenRows DEF IInv
<1>4. me.run = old.run /\ me.cache = old.cache /\ me.work = old.work
  BY <1>1 DEF Session
<1> HIDE DEF me
<1> QED
  BY <1>1, <1>2, <1>3, <1>4, QuietRows DEF IInv

LEMMA RejectImplements ==
    ASSUME IInv, WorkStarted, NEW s \in Sessions, Reject(s)
    PROVE  WorkStarted' /\ Refines
<1> DEFINE old == sess[s]
           r == old.run
           gate == First(Awaiting(old.cache))
           row == [run[r] EXCEPT !.status = "cancelled"]
           rows == [step[r] EXCEPT ![gate].status = "cancelled"]
           me == [old EXCEPT !.pc = "publish", !.snap[r].status = "cancelled"]
<1>1. /\ UNCHANGED <<execs, completed, decided, approved, sends>> /\ Set(s, me)
      /\ old \in Session /\ r \in Runs /\ run[r] \in RunRow /\ run[r].status # "absent"
      /\ step[r] \in [Steps -> StepRow]
  BY OwnRun, OwnBacked DEF Reject, history, IInv
<1>2. RunsSame
  <2>1. run' = [run EXCEPT ![r] = row]
    BY <1>1 DEF Reject, IInv, TypeInv, TypeOK
  <2>2. row.status # "absent" /\ row.manual = run[r].manual
    BY <1>1 DEF RunRow
  <2> HIDE DEF row
  <2> QED  BY <1>1, <2>1, <2>2, WrittenRun DEF IInv
<1>3. RowsWait
  <2>1. step' = [step EXCEPT ![r] = rows]
    BY <1>1 DEF Reject, IInv, TypeInv, TypeOK
  <2>2. \A i \in Steps : rows[i].status \in {step[r][i].status, "cancelled"}
    <3> HIDE DEF gate
    <3> QED  BY <1>1 DEF StepRow
  <2> HIDE DEF rows
  <2> QED  BY <1>1, <2>1, <2>2, WrittenRows DEF IInv
<1>4. me.run = old.run /\ me.cache = old.cache /\ me.work = old.work
  BY <1>1 DEF Session
<1> HIDE DEF me
<1> QED
  BY <1>1, <1>2, <1>3, <1>4, QuietRows DEF IInv

LEMMA RecoverRunImplements ==
    ASSUME IInv, WorkStarted, NEW s \in Sessions, RecoverRun(s)
    PROVE  WorkStarted' /\ Refines
<1> DEFINE old == sess[s]
           r == old.run
           lost == {i \in Steps : Expired(step[r][i])}
           held == IF old.resumed THEN old.cache ELSE step[r]
           pending == [i \in Steps |-> IF i \in lost THEN Recovered(held[i]) ELSE held[i]]
           touched == lost # {} /\ old.snap[r].status = "running"
           rows == [i \in Steps |->
                IF i \notin lost THEN step[r][i]
                ELSE [step[r][i] EXCEPT
                        !.status = Flush(@, held[i].status, "pending"),
                        !.owner = Flush(@, held[i].owner, Nobody),
                        !.lease = Flush(@, held[i].lease, "none"),
                        !.out = held[i].out]]
           me == [old EXCEPT !.pc = "load", !.cache = IF old.resumed THEN pending ELSE @]
<1>1. /\ UNCHANGED <<execs, completed, decided, approved, sends>> /\ Set(s, me)
      /\ old \in Session /\ r \in Runs /\ run[r] \in RunRow /\ run[r].status # "absent"
      /\ step[r] \in [Steps -> StepRow] /\ old.cache \in [Steps -> StepRow]
  BY OwnRun, OwnBacked, Zenon DEF RecoverRun, history, IInv
<1>2. RunsSame
  <2> DEFINE row == [run[r] EXCEPT !.findings = IF touched THEN old.snap[r].findings ELSE @,
                                   !.proposals = IF touched THEN old.snap[r].proposals ELSE @]
  <2>1. run' = [run EXCEPT ![r] = row]
    BY <1>1 DEF RecoverRun, IInv, TypeInv, TypeOK
  <2>2. row.status # "absent" /\ row.manual = run[r].manual
    BY <1>1 DEF RunRow
  <2> HIDE DEF row
  <2> QED  BY <1>1, <2>1, <2>2, WrittenRun DEF IInv
<1>3. RowsWait
  <2>1. step' = [step EXCEPT ![r] = rows]
    BY DEF RecoverRun
  <2>2. \A i \in Steps : rows[i].status \in {step[r][i].status, "pending"}
    BY <1>1 DEF StepRow, Flush
  <2> HIDE DEF rows
  <2> QED  BY <1>1, <2>1, <2>2, WrittenRows DEF IInv
<1>4. me.run = old.run /\ me.work = old.work /\ me.cache \in {old.cache, pending}
  BY <1>1 DEF Session
<1>5. \A i \in Steps : me.cache[i].status
         \in (StepStatus \ {"awaiting_approval"}) \cup {old.cache[i].status, step[r][i].status}
  <2>1. \A row \in StepRow : Recovered(row).status = "pending"
    BY DEF Recovered, StepRow
  <2>2. \A i \in Steps : pending[i].status \in {"pending", old.cache[i].status, step[r][i].status}
    BY <1>1, <2>1
  <2> HIDE DEF me, pending
  <2> QED  BY <1>4, <2>2 DEF StepStatus
<1> HIDE DEF me
<1> QED
  BY <1>1, <1>2, <1>3, <1>4, <1>5, QuietRows DEF IInv

LEMMA LeaseReadyImplements ==
    ASSUME IInv, WorkStarted, NEW s \in Sessions, LeaseReady(s)
    PROVE  WorkStarted' /\ Refines
<1> DEFINE old == sess[s]
           r == old.run
           ready == Ready(old.cache)
           leased == [i \in Steps |-> Leased(old.cache[i], s)]
           rows == [i \in Steps |-> IF i \in ready THEN [leased[i] EXCEPT !.out = step[r][i].out]
                                    ELSE step[r][i]]
           cache == [i \in Steps |-> IF i \in ready THEN leased[i] ELSE old.cache[i]]
           work == [i \in Steps |-> IF i \in ready THEN [NoWork EXCEPT !.stage = "leased"]
                                    ELSE NoWork]
           me == [old EXCEPT !.pc = "exec", !.cache = cache, !.work = work]
<1>1. /\ UNCHANGED <<run, execs, completed, decided, approved, sends>> /\ Set(s, me)
      /\ old \in Session /\ r \in Runs
      /\ step[r] \in [Steps -> StepRow] /\ old.cache \in [Steps -> StepRow]
  BY OwnRun DEF LeaseReady, history, IInv
<1>2. \A i \in Steps : leased[i].status = "running" /\ leased[i] \in StepRow
  <2>1. \A i \in Steps : Leased(old.cache[i], s) \in StepRow
    BY <1>1, RowsTyped
  <2>2. \A i \in Steps : Leased(old.cache[i], s).status = "running"
    BY <1>1 DEF Leased, StepRow
  <2> QED  BY <2>1, <2>2
<1>3. RowsWait
  <2>1. step' = [step EXCEPT ![r] = rows]
    BY DEF LeaseReady
  <2>2. \A i \in Steps : rows[i].status \in {step[r][i].status, "running"}
    <3> HIDE DEF leased, ready
    <3> QED  BY <1>2 DEF StepRow
  <2> HIDE DEF rows
  <2> QED  BY <1>1, <2>1, <2>2, WrittenRows DEF IInv
<1>4. me.run = old.run /\ me.work = work /\ me.cache = cache
  BY <1>1 DEF Session
<1>5. \A i \in Steps : /\ cache[i].status \in {"running", old.cache[i].status}
                       /\ work[i].stage \in {"none", "leased"}
  <2> HIDE DEF leased, ready
  <2> QED  BY <1>2 DEF NoWork
<1>6. \A i \in Steps : me.cache[i].status
         \in (StepStatus \ {"awaiting_approval"}) \cup {old.cache[i].status, step[r][i].status}
  <2> HIDE DEF cache, me
  <2> QED  BY <1>4, <1>5 DEF StepStatus
<1>7. \A i \in Steps : me.work[i] = old.work[i] \/ me.work[i].stage \in {"none", "leased", "inserting"}
  <2> HIDE DEF work, me
  <2> QED  BY <1>4, <1>5
<1> HIDE DEF me
<1> QED
  BY <1>1, <1>3, <1>4, <1>6, <1>7, SameRun, QuietRows DEF IInv

\* A session that gives step i of its run a new stage or a result.
LEMMA StageHands ==
    ASSUME TypeInv, WorkStarted, NEW s \in Sessions, sess[s].pc = "exec", NEW i \in Steps,
           NEW work, Set(s, [sess[s] EXCEPT !.work[i] = work]), UNCHANGED run, ExecsGrow,
           \/ work.stage = "inserting"
           \/ /\ execs'[sess[s].run][i] > 0
              /\ work.stage = "done" /\ work.status = "awaiting_approval" => run[sess[s].run].manual
    PROVE  HandsStarted(sess[s])'
<1> DEFINE me == [sess[s] EXCEPT !.work[i] = work]
<1>1. /\ sess[s] \in Session /\ sess[s].run \in Runs /\ sess[s].run # 0
      /\ sess[s].work \in [Steps -> Work]
  BY OwnRun, RuntimeAssumption DEF Runs
<1>2. sess'[s] = me
  <2>1. Set(s, me)
    OBVIOUS
  <2> HIDE DEF me
  <2> QED  BY <2>1, SetValue
<1>3. /\ me.run = sess[s].run /\ me.cache = sess[s].cache /\ me.work[i] = work
      /\ \A j \in Steps : j # i => me.work[j] = sess[s].work[j]
  BY <1>1 DEF Session
<1> HIDE DEF me
<1> QED
  BY <1>1, <1>2, <1>3, SameRun, SameStays, HandsStep

\* Starting a step makes its count positive.
LEMMA StartedCount ==
    ASSUME TypeInv, NEW s \in Sessions, sess[s].pc = "exec", NEW i \in Steps, Started(s, i)
    PROVE  ExecsGrow /\ execs'[sess[s].run][i] > 0
<1> DEFINE r == sess[s].run
<1>1. r \in Runs /\ execs \in [Runs -> [Steps -> Nat]]
  BY OwnRun DEF TypeInv, TypeOK
<1>2. execs' = [execs EXCEPT ![r][i] = @ + 1]
  BY DEF Started
<1>3. ASSUME NEW q \in Runs, NEW j \in Steps
      PROVE  /\ execs'[q][j] \in {execs[q][j], execs[q][j] + 1} /\ execs[q][j] \in Nat
             /\ execs'[r][i] = execs[r][i] + 1 /\ execs[r][i] \in Nat
  BY <1>1, <1>2
<1> QED
  BY <1>1, <1>3 DEF ExecsGrow

\* An execution of a step that yields a result, or the request of a hook.out step.
LEMMA ExecutionImplements ==
    ASSUME IInv, WorkStarted, NEW s \in Sessions, sess[s].pc = "exec", NEW i \in Steps,
           sess[s].work[i].stage # "none", Started(s, i),
           UNCHANGED <<run, step, completed, decided, approved>>,
           \/ UNCHANGED sends
           \/ Kind[i] = "hook.out" /\ sends' = [sends EXCEPT ![sess[s].run] = @ + 1],
           NEW work, Set(s, [sess[s] EXCEPT !.work[i] = work]),
           work.stage = "done" /\ work.status = "awaiting_approval" => run[sess[s].run].manual
    PROVE  WorkStarted' /\ Refines
<1>1. Refines
  BY StartRefines
<1>2. ExecsGrow /\ execs'[sess[s].run][i] > 0
  BY StartedCount DEF IInv
<1>3. HandsStarted(sess[s])'
  BY <1>2, StageHands DEF IInv
<1> QED
  BY <1>1, <1>2, <1>3, SameRun, SameStays, SameRows, WorkStep DEF IInv

LEMMA ExecuteImplements ==
    ASSUME IInv, WorkStarted, NEW s \in Sessions, NEW i \in Steps,
           ExecuteStep(s, i) \/ AgentFound(s, i) \/ AgentInserted(s, i)
    PROVE  WorkStarted' /\ Refines
<1>1. /\ sess[s].pc = "exec" /\ sess[s].work[i].stage # "none" /\ Started(s, i)
      /\ UNCHANGED <<run, step, completed, decided, approved, sends>>
  BY DEF ExecuteStep, AgentFound, AgentInserted, AgentReports, Working, rowVars
<1>2. sess[s].snap[sess[s].run].manual = run[sess[s].run].manual
  BY <1>1, OwnBacked
<1>3. \E status, out : /\ Finished(s, i, status, out)
                       /\ status = "awaiting_approval" => run[sess[s].run].manual
  <2>1. CASE ExecuteStep(s, i)
    <3>1. PICK out : \E status \in Outcomes(Kind[i], sess[s].snap[sess[s].run].manual) :
                        Finished(s, i, status, out)
      BY <2>1 DEF ExecuteStep
    <3> QED  BY <1>2, <3>1 DEF Outcomes
  <2>2. CASE ~ExecuteStep(s, i)
    <3>1. \E status \in {"succeeded", "failed"} : \E out : Finished(s, i, status, out)
      BY <2>2 DEF AgentFound, AgentInserted, AgentReports
    <3> QED  BY <3>1
  <2> QED  BY <2>1, <2>2
<1>4. PICK status, out : /\ Finished(s, i, status, out)
                         /\ status = "awaiting_approval" => run[sess[s].run].manual
  BY <1>3
<1> DEFINE work == [stage |-> "done", status |-> status, out |-> out]
<1>5. /\ Set(s, [sess[s] EXCEPT !.work[i] = work])
      /\ work.stage = "done" /\ work.status = "awaiting_approval" => run[sess[s].run].manual
  BY <1>4 DEF Finished
<1> HIDE DEF work
<1> QED
  BY <1>1, <1>5, ExecutionImplements

LEMMA HookSendImplements ==
    ASSUME IInv, WorkStarted, NEW s \in Sessions, NEW i \in Steps, HookSend(s, i)
    PROVE  WorkStarted' /\ Refines
<1>1. /\ sess[s].pc = "exec" /\ sess[s].work[i].stage # "none" /\ Started(s, i)
      /\ Kind[i] = "hook.out" /\ UNCHANGED <<run, step, completed, decided, approved>>
  BY DEF HookSend, Working, rowVars
<1>2. sess[s] \in Session /\ sess[s].work[i] \in Work
  BY <1>1, OwnRun DEF IInv
<1>3. \/ Finished(s, i, "succeeded", 0) /\ UNCHANGED sends
      \/ /\ Set(s, [sess[s] EXCEPT !.work[i].stage = "sent"])
         /\ sends' = [sends EXCEPT ![sess[s].run] = @ + 1]
  BY Zenon DEF HookSend
<1> DEFINE done == [stage |-> "done", status |-> "succeeded", out |-> 0]
           sent == [sess[s].work[i] EXCEPT !.stage = "sent"]
<1>4. CASE Finished(s, i, "succeeded", 0) /\ UNCHANGED sends
  <2>1. Set(s, [sess[s] EXCEPT !.work[i] = done]) /\ done.status = "succeeded"
    BY <1>4 DEF Finished
  <2> HIDE DEF done
  <2> QED  BY <1>1, <1>4, <2>1, ExecutionImplements
<1>5. CASE /\ Set(s, [sess[s] EXCEPT !.work[i].stage = "sent"])
           /\ sends' = [sends EXCEPT ![sess[s].run] = @ + 1]
  <2>1. Set(s, [sess[s] EXCEPT !.work[i] = sent]) /\ sent.stage = "sent"
    BY <1>2, <1>5 DEF Work
  <2> HIDE DEF sent
  <2> QED  BY <1>1, <1>5, <2>1, ExecutionImplements
<1> QED
  BY <1>3, <1>4, <1>5

LEMMA StageImplements ==
    ASSUME IInv, WorkStarted, NEW s \in Sessions, NEW i \in Steps,
           AgentMissing(s, i) \/ HookSave(s, i)
    PROVE  WorkStarted' /\ Refines
<1>1. /\ sess[s].pc = "exec"
      /\ UNCHANGED <<run, step, execs, completed, decided, approved, sends>>
  BY DEF AgentMissing, HookSave, Working, rowVars, history
<1>2. sess[s] \in Session /\ sess[s].run \in Runs /\ sess[s].work[i] \in Work /\ sess[s].run # 0
  BY <1>1, OwnRun, RuntimeAssumption DEF IInv, Runs
<1>3. \E work : /\ Set(s, [sess[s] EXCEPT !.work[i] = work])
                /\ \/ work.stage = "inserting"
                   \/ execs'[sess[s].run][i] > 0 /\ work.status # "awaiting_approval"
  <2>1. CASE AgentMissing(s, i)
    <3> DEFINE work == [sess[s].work[i] EXCEPT !.stage = "inserting"]
    <3>1. Set(s, [sess[s] EXCEPT !.work[i] = work]) /\ work.stage = "inserting"
      BY <1>2, <2>1 DEF AgentMissing, Work
    <3> HIDE DEF work
    <3> QED  BY <3>1
  <2>2. CASE HookSave(s, i)
    <3>1. PICK status \in {"succeeded", "failed"} : Finished(s, i, status, 0)
      BY <2>2 DEF HookSave
    <3> DEFINE work == [stage |-> "done", status |-> status, out |-> 0]
    <3>2. Set(s, [sess[s] EXCEPT !.work[i] = work]) /\ work.status # "awaiting_approval"
      BY <3>1 DEF Finished
    <3>3. execs'[sess[s].run][i] > 0
      <4>1. sess[s].work[i].stage = "sent" /\ HandsStarted(sess[s])
        BY <2>2 DEF HookSave, Working, WorkStarted
      <4> QED  BY <1>1, <1>2, <4>1 DEF HandsStarted
    <3> HIDE DEF work
    <3> QED  BY <3>2, <3>3
  <2> QED  BY <2>1, <2>2
<1>4. PICK work : /\ Set(s, [sess[s] EXCEPT !.work[i] = work])
                  /\ \/ work.stage = "inserting"
                     \/ execs'[sess[s].run][i] > 0 /\ work.status # "awaiting_approval"
  BY <1>3
<1>5. HandsStarted(sess[s])'
  BY <1>1, <1>4, SameExecs, StageHands DEF IInv
<1> QED
  BY <1>1, <1>4, <1>5, SameRun, SameRows, QuietWork DEF IInv

LEMMA TimeImplements ==
    ASSUME IInv, WorkStarted, NEW r \in Runs,
           Cancel(r) \/ (\E i \in Steps : LeaseLapse(r, i) \/ LeaseOverrun(r, i))
    PROVE  WorkStarted' /\ Refines
<1>1. UNCHANGED <<sess, execs, completed, decided, approved, sends>>
  BY DEF Cancel, LeaseLapse, LeaseOverrun, history
<1>2. RunsSame /\ RowsWait
  <2>1. CASE Cancel(r)
    <3> DEFINE row == [run[r] EXCEPT !.status = "cancelled"]
    <3>1. run[r] \in RunRow /\ run[r].status # "absent" /\ run' = [run EXCEPT ![r] = row]
      BY <2>1 DEF Cancel, IInv, TypeInv, TypeOK
    <3>2. row.status # "absent" /\ row.manual = run[r].manual
      BY <3>1 DEF RunRow
    <3> HIDE DEF row
    <3> QED  BY <2>1, <3>1, <3>2, WrittenRun, SameRows DEF Cancel, IInv
  <2>2. CASE \E i \in Steps : LeaseLapse(r, i) \/ LeaseOverrun(r, i)
    <3> PICK i \in Steps : LeaseLapse(r, i) \/ LeaseOverrun(r, i)
      BY <2>2
    <3> DEFINE rows == [step[r] EXCEPT ![i].lease = "expired"]
    <3>1. step[r] \in [Steps -> StepRow] /\ UNCHANGED run
      BY DEF LeaseLapse, LeaseOverrun, IInv, TypeInv, TypeOK
    <3>2. step' = [step EXCEPT ![r] = rows]
      BY <3>1 DEF LeaseLapse, LeaseOverrun, IInv, TypeInv, TypeOK
    <3>3. \A j \in Steps : rows[j].status = step[r][j].status
                            \/ rows[j].status # "awaiting_approval"
      BY <3>1 DEF StepRow
    <3> HIDE DEF rows
    <3>4. RowsWait
      <4>1. TypeInv
        BY DEF IInv
      <4> QED  BY <3>2, <3>3, <4>1, WrittenRows, Zenon
    <3> QED  BY <3>1, <3>4, SameRun
  <2> QED  BY <2>1, <2>2
<1>3. \A q \in Runs : \A i \in Steps : RowStarted(step[q][i], q, i)'
  BY <1>1, <1>2 DEF WorkStarted, RowStarted, RunsSame, RowsWait
<1>4. \A s \in Sessions : HandsStarted(sess[s])'
  <2>1. \A s \in Sessions : sess[s].run # 0 => sess[s].run \in Runs
    BY DEF IInv, TypeInv, TypeOK, Session
  <2> QED  BY <1>1, <1>2, <2>1 DEF WorkStarted, HandsStarted, RowStarted, RunsSame
<1> QED
  BY <1>1, <1>2, <1>3, <1>4, Stutters DEF WorkStarted, RunsSame, Refines

\* Recording the results of a batch is a Complete.
LEMMA RecordResultsImplements ==
    ASSUME IInv, WorkStarted, NEW s \in Sessions, RecordResults(s)
    PROVE  WorkStarted' /\ Refines
<1> DEFINE me == sess[s]
           r == me.run
           todo == {i \in Steps : me.work[i].stage = "done"}
           won == {i \in todo : me.work[i].status = "succeeded"}
           Result(row, i) == [row EXCEPT !.status = me.work[i].status, !.owner = Nobody,
                                         !.lease = "none", !.out = me.work[i].out]
           rows == [i \in Steps |-> IF i \in todo THEN Result(step[r][i], i) ELSE step[r][i]]
<1>1. /\ TypeInv /\ me \in Session /\ r \in Runs /\ step[r] \in [Steps -> StepRow]
      /\ me.cache \in [Steps -> StepRow] /\ me.work \in [Steps -> Work]
      /\ SessionBacked(me) /\ r # 0 /\ run[r].status # "absent"
  BY OwnRun, OwnBacked DEF RecordResults, IInv
<1>2. /\ step' = [step EXCEPT ![r] = rows]
      /\ decided' = [decided EXCEPT ![r] = @ \cup {i \in todo : Kind[i] = "gate.policy"}]
      /\ completed' = [completed EXCEPT ![r] = @ \cup won]
      /\ UNCHANGED <<run, sends, execs, approved>>
  BY Zenon DEF RecordResults
<1>3. ManualStays /\ ExecsGrow
  BY <1>1, <1>2, SameRun, SameStays, SameExecs
<1>4. \A row \in StepRow : \A i \in Steps : Result(row, i).status = me.work[i].status
  BY DEF StepRow
<1>5. ASSUME NEW i \in todo
      PROVE  /\ 1..(i - 1) \subseteq completed[r] /\ execs[r][i] > 0 /\ i \in Steps
             /\ me.work[i].status = "awaiting_approval" => run[r].manual
             /\ me.work[i].status = "succeeded" /\ Kind[i] = "gate.human" => ~run[r].manual
  <2>1. HandsStarted(me)
    BY DEF WorkStarted
  <2> QED  BY <1>1, <2>1 DEF SessionBacked, HandsStarted
<1>6. Refines
  <2>1. r \in createdBar /\ todo \in SUBSET Steps /\ won \in SUBSET todo
    BY <1>1 DEF createdBar
  <2>2. createdBar' = createdBar /\ manualBar' = manualBar /\ startedBar' = startedBar
    BY <1>2 DEF createdBar, manualBar, startedBar
  <2>3. todo \subseteq startedBar[r]
    <3> HIDE DEF todo
    <3> QED  BY <1>1, <1>5 DEF startedBar
  <2>4. \A i \in todo : Governed!Reached(r, i)
    <3> HIDE DEF todo
    <3> QED  BY <1>5, <2>1 DEF Governed!Reached
  <2>5. \A i \in won : ~(Kind[i] = "gate.human" /\ r \in manualBar)
    <3>1. \A i \in won : i \in todo /\ me.work[i].status = "succeeded"
      OBVIOUS
    <3> HIDE DEF todo, won
    <3> QED  BY <1>1, <1>5, <3>1 DEF manualBar
  <2>6. Governed!Complete(r, todo, won)
    <3> HIDE DEF todo, won
    <3> QED  BY <1>2, <2>1, <2>2, <2>3, <2>4, <2>5 DEF Governed!Complete
  <2> HIDE DEF todo, won
  <2> QED  BY <1>1, <2>1, <2>6 DEF Governed!GNext, Refines
<1>7. \A q \in Runs : \A i \in Steps : RowStarted(step[q][i], q, i)'
  <2> SUFFICES ASSUME NEW q \in Runs, NEW i \in Steps, step'[q][i].status = "awaiting_approval"
               PROVE  execs'[q][i] > 0 /\ run'[q].manual
    BY DEF RowStarted
  <2>1. CASE q # r \/ i \notin todo
    <3>1. step'[q][i] = step[q][i]
      <4> HIDE DEF Result, todo
      <4> QED  BY <1>1, <1>2, <2>1 DEF TypeInv, TypeOK
    <3> QED  BY <1>2, <3>1 DEF WorkStarted, RowStarted
  <2>2. CASE q = r /\ i \in todo
    <3>1. step'[q][i].status = me.work[i].status
      <4> HIDE DEF Result, todo
      <4> QED  BY <1>1, <1>2, <1>4, <2>2 DEF TypeInv, TypeOK
    <3> HIDE DEF todo
    <3> QED  BY <1>2, <1>5, <2>2, <3>1
  <2> QED  BY <2>1, <2>2
<1>8. /\ sess'[s].run = r
      /\ \A i \in Steps : sess'[s].work[i].stage = "none"
      /\ \A i \in Steps : sess'[s].cache[i] =
                             IF i \in todo THEN Result(me.cache[i], i) ELSE me.cache[i]
  <2>1. PICK new : Set(s, new) /\ new = [me EXCEPT !.pc = "plan",
                !.cache = [i \in Steps |->
                    IF i \in todo THEN Result(me.cache[i], i) ELSE me.cache[i]],
                !.work = [i \in Steps |-> NoWork],
                !.findings = @ \cup {me.work[i].out : i \in Made(me.work, "finding.emit")},
                !.proposals = @ \cup
                    {[id |-> me.work[i].out,
                      finding |-> LatestOut(me.cache, "finding.emit")] :
                        i \in Made(me.work, "change.propose")},
                !.verdict = Verdict(me.work)]
    BY Zenon DEF RecordResults
  <2>2. sess'[s] = new
    BY <1>1, <2>1, SetValue
  <2> HIDE DEF Result, todo
  <2> QED  BY <1>1, <2>1, <2>2 DEF Session, NoWork
<1>9. HandsStarted(sess[s])'
  <2> SUFFICES ASSUME NEW i \in Steps, sess'[s].cache[i].status = "awaiting_approval"
               PROVE  execs'[r][i] > 0 /\ run'[r].manual
    BY <1>8 DEF HandsStarted, RowStarted
  <2>1. CASE i \notin todo
    <3>1. sess'[s].cache[i] = me.cache[i] /\ HandsStarted(me)
      BY <1>8, <2>1 DEF WorkStarted
    <3> QED  BY <1>1, <1>2, <3>1 DEF HandsStarted, RowStarted
  <2>2. CASE i \in todo
    <3>1. sess'[s].cache[i].status = me.work[i].status
      <4> HIDE DEF Result, todo
      <4> QED  BY <1>1, <1>4, <1>8, <2>2
    <3> HIDE DEF todo
    <3> QED  BY <1>2, <1>5, <2>2, <3>1
  <2> QED  BY <2>1, <2>2
<1>10. \A t \in Sessions : HandsStarted(sess[t])'
  <2> SUFFICES ASSUME NEW t \in Sessions, t # s PROVE HandsStarted(sess[t])'
    BY <1>9
  <2>1. \E new : Set(s, new)
    BY Zenon DEF RecordResults
  <2>2. sess'[t] = sess[t] /\ HandsStarted(sess[t])
    BY <1>1, <2>1, SetValue DEF WorkStarted
  <2> QED  BY <1>2, <2>2 DEF HandsStarted, RowStarted
<1> QED
  BY <1>2, <1>6, <1>7, <1>10 DEF WorkStarted

\* A resume request that approves is an Approve of its gate.
LEMMA ApproveImplements ==
    ASSUME IInv, WorkStarted, NEW s \in Sessions, Approve(s)
    PROVE  WorkStarted' /\ Refines
<1> DEFINE me == sess[s]
           r == me.run
           gate == First(Awaiting(me.cache))
           Approved(row, i) ==
               [row EXCEPT !.status = IF i = gate THEN "succeeded"
                                      ELSE IF me.cache[i].status = "blocked" THEN "pending"
                                      ELSE @]
           rows == [i \in Steps |-> Approved(step[r][i], i)]
           new == [me EXCEPT !.pc = "recover", !.snap[r].status = "running",
                             !.cache = [i \in Steps |-> Approved(me.cache[i], i)]]
<1>1. /\ TypeInv /\ me \in Session /\ r \in Runs /\ run[r].status # "absent"
      /\ me.snap[r] \in RunRow /\ step[r] \in [Steps -> StepRow] /\ run[r] \in RunRow
      /\ me.cache \in [Steps -> StepRow] /\ SessionBacked(me) /\ r # 0 /\ HandsStarted(me)
  BY OwnRun, OwnBacked DEF Approve, IInv, WorkStarted
<1>2. /\ step' = [step EXCEPT ![r] = rows]
      /\ run' = [run EXCEPT ![r].status = "running"] /\ Set(s, new)
      /\ approved' = approved \cup {r} /\ completed' = [completed EXCEPT ![r] = @ \cup {gate}]
      /\ UNCHANGED <<decided, sends, execs>>
  BY Zenon DEF Approve
<1>3. /\ gate \in Steps /\ Kind[gate] = "gate.human" /\ 1..(gate - 1) \subseteq completed[r]
      /\ execs[r][gate] > 0 /\ run[r].manual
  <2>1. gate \in Steps /\ gate \in Awaiting(me.cache)
    BY GateTyped DEF Approve
  <2>2. me.cache[gate].status = "awaiting_approval"
    BY <2>1 DEF Awaiting
  <2> HIDE DEF gate
  <2> QED  BY <1>1, <2>1, <2>2 DEF SessionBacked, RowBacked, HandsStarted, RowStarted
<1>4. RunsSame
  <2> DEFINE row == [run[r] EXCEPT !.status = "running"]
  <2>1. run' = [run EXCEPT ![r] = row]
    BY <1>1, <1>2 DEF TypeInv, TypeOK
  <2>2. row.status # "absent" /\ row.manual = run[r].manual
    BY <1>1 DEF RunRow
  <2> HIDE DEF row
  <2> QED  BY <1>1, <2>1, <2>2, WrittenRun
<1>5. Refines
  <2>1. r \in createdBar /\ r \in manualBar /\ gate \in startedBar[r]
    <3> HIDE DEF gate
    <3> QED  BY <1>1, <1>3 DEF createdBar, manualBar, startedBar
  <2>2. createdBar' = createdBar /\ manualBar' = manualBar /\ startedBar' = startedBar
    BY <1>2, <1>4 DEF createdBar, manualBar, startedBar, RunsSame
  <2>3. Governed!Approve(r, gate)
    <3> HIDE DEF gate
    <3> QED  BY <1>2, <1>3, <2>1, <2>2 DEF Governed!Approve, Governed!Reached
  <2> HIDE DEF gate
  <2> QED  BY <1>1, <1>3, <2>3 DEF Governed!GNext, Refines
<1>6. \A row \in StepRow : \A i \in Steps :
         Approved(row, i).status \in {"succeeded", "pending", row.status}
  <2> HIDE DEF gate
  <2> QED  BY DEF StepRow
<1>7. RowsWait
  <2>1. \A i \in Steps : rows[i].status = step[r][i].status
                          \/ rows[i].status # "awaiting_approval"
    <3> HIDE DEF Approved
    <3> QED  BY <1>1, <1>6
  <2> HIDE DEF rows
  <2> QED  BY <1>1, <1>2, <2>1, WrittenRows, Zenon
<1>8. /\ new.run = r /\ new.work = me.work
      /\ \A i \in Steps : new.cache[i].status \in {"succeeded", "pending", me.cache[i].status}
  <2> HIDE DEF Approved
  <2> QED  BY <1>1, <1>6 DEF Session
<1>9. HandsStarted(sess[s])'
  <2>1. sess'[s] = new
    <3> HIDE DEF new
    <3> QED  BY <1>1, <1>2, SetValue
  <2> HIDE DEF new
  <2> QED
    BY <1>1, <1>2, <1>4, <1>8, <2>1, HandsStep, SameStays, SameExecs DEF StepStatus
<1> HIDE DEF new, rows
<1> QED
  BY <1>1, <1>2, <1>4, <1>5, <1>7, <1>9, SameStays, SameExecs, WorkStep

LEMMA ImplementsStep ==
    ASSUME IInv, WorkStarted, [Next]_vars
    PROVE  WorkStarted' /\ Refines
<1>1. ASSUME NEW s \in Sessions, Advance(s) PROVE WorkStarted' /\ Refines
  <2>1. ASSUME StepWork(s) PROVE WorkStarted' /\ Refines
    BY <2>1, ExecuteImplements, HookSendImplements, StageImplements, TurnImplements DEF StepWork
  <2> QED
    BY <1>1, <2>1, LookupImplements, TurnImplements, RecoverRunImplements, ReadImplements,
       MarkRunningImplements, LeaseReadyImplements, RecordResultsImplements, FinalizeImplements,
       ApproveImplements, RejectImplements DEF Advance
<1>2. ASSUME NEW s \in Sessions, DrainRecover(s) \/ Crash(s) PROVE WorkStarted' /\ Refines
  BY <1>2, DrainRecoverImplements, TurnImplements
<1>3. ASSUME NEW s \in Sessions, NEW r \in Runs, StartSync(s, r) \/ ResumeLookup(s, r)
      PROVE  WorkStarted' /\ Refines
  BY <1>3, CreateImplements, TurnImplements
<1>4. ASSUME NEW r \in Runs, Enqueue(r) \/ Cancel(r) PROVE WorkStarted' /\ Refines
  BY <1>4, CreateImplements, TimeImplements
<1>5. ASSUME NEW r \in Runs, NEW i \in Steps, LeaseLapse(r, i) \/ LeaseOverrun(r, i)
      PROVE  WorkStarted' /\ Refines
  BY <1>5, TimeImplements
<1>6. CASE UNCHANGED vars
  <2>1. UNCHANGED GVars
    BY <1>6 DEF vars, rowVars, bounds, history, GVars, createdBar, manualBar, startedBar
  <2>2. WorkStarted'
    BY <1>6 DEF vars, rowVars, bounds, history, WorkStarted, RowStarted, HandsStarted
  <2> QED  BY <2>1, <2>2 DEF Refines
<1> QED
  BY <1>1, <1>2, <1>3, <1>4, <1>5, <1>6 DEF Next

LEMMA InitImplements == Init => WorkStarted /\ Governed!GInit
<1> SUFFICES ASSUME Init PROVE WorkStarted /\ Governed!GInit
  OBVIOUS
<1>1. WorkStarted
  BY DEF Init, WorkStarted, RowStarted, HandsStarted, AbsentRun, FreshStep, Idle
<1>2. createdBar = {} /\ manualBar = {} /\ startedBar = [r \in Runs |-> {}]
  BY DEF Init, createdBar, manualBar, startedBar, AbsentRun
<1> QED
  BY <1>1, <1>2 DEF Init, Governed!GInit

\* The runtime implements GovernedRuns: for every template and any number of runs,
\* sessions, crashes, overruns and cancellations, each transaction of
\* process_workflow_run, the drains, resume and cancel is one step of the abstract
\* run, or none.
THEOREM GovernedTheorem == Spec => ImplementsGovernedRuns
<1>1. Init => IInv /\ WorkStarted /\ Governed!GInit
  BY InitEarned, InitImplements
<1>2. IInv /\ WorkStarted /\ [Next]_vars => (IInv /\ WorkStarted)' /\ [Governed!GNext]_GVars
  BY EarnedStep, ImplementsStep DEF Refines
<1> QED
  BY <1>1, <1>2, PTL DEF Spec, ImplementsGovernedRuns, Governed!GSpec, GVars, Governed!gvars

=============================================================================
