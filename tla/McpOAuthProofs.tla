---------------------------- MODULE McpOAuthProofs ----------------------------
(***************************************************************************)
(* Proofs about McpOAuth, for any number of requests, authorizations and   *)
(* rotations.  CallbackMatches is inductive once the types are; that the   *)
(* stored token is the newest is not: it needs to know where every token   *)
(* is, in a row, in what a refresh has loaded, or on its way to a row.     *)
(***************************************************************************)
EXTENDS McpOAuth, TLAPS

Bearing == {"store", "restore"}

\* The token a request stands for: the one it refreshes or the one it will store.
Of(me) == IF me.pc = "refresh" THEN me.was.token_set ELSE me.token

\* A token its server issued.
Issued(t, nw) == t.flow \in Flows /\ t.n >= 1 /\ t.n <= nw[t.flow]

FlowFits(me, cn, nw) ==
    /\ me.pc \in {"register", "start", "exchange"} => me.flow \in Flows
    /\ me.row \in 0..Len(cn)
    /\ me.pc \in {"exchange", "store", "refresh", "restore"} => me.row # 0
    /\ me.pc = "refresh" => me.was.token_set # NoToken
    /\ me.pc \in Bearing => me.token # NoToken /\ me.token.n = nw[me.token.flow]
    /\ me.pc \notin Bearing => me.token = NoToken
    /\ Of(me) # NoToken => Issued(Of(me), nw)

Requests == \A o \in OReqs : FlowFits(oreq[o], connection, newest)

Rows ==
    \A i \in DOMAIN connection :
        connection[i].token_set # NoToken => Issued(connection[i].token_set, newest)

Unspent == \A f \in codes : newest[f] = 0

\* All tokens of a flow belong to one row.
OneRow ==
    /\ \A i, j \in DOMAIN connection :
           /\ connection[i].token_set # NoToken
           /\ connection[i].token_set.flow = connection[j].token_set.flow
           => i = j
    /\ \A o \in OReqs, i \in DOMAIN connection :
           /\ connection[i].token_set # NoToken
           /\ connection[i].token_set.flow = Of(oreq[o]).flow
           => oreq[o].row = i
    /\ \A o, p \in OReqs :
           Of(oreq[o]) # NoToken /\ Of(oreq[o]).flow = Of(oreq[p]).flow
           => oreq[o].row = oreq[p].row

\* A token on its way to a row is newer than every other one of its flow.
Ahead ==
    \A o \in OReqs : oreq[o].pc \in Bearing =>
        /\ \A i \in DOMAIN connection :
               connection[i].token_set.flow = oreq[o].token.flow
                   => connection[i].token_set.n < oreq[o].token.n
        /\ \A p \in OReqs \ {o} :
               Of(oreq[p]).flow = oreq[o].token.flow => Of(oreq[p]).n < oreq[o].token.n

OAuthInv ==
    /\ OAuthTypeOK
    /\ Requests
    /\ Rows
    /\ Unspent
    /\ OneRow
    /\ Ahead
    /\ CallbackMatches
    /\ StoredTokenIsNewest

-----------------------------------------------------------------------------
(* Requests that only look, fail or end *)

LEMMA IdleFlowType ==
    OIdle \in ORequest /\ OIdle.pc = "idle" /\ OIdle.token = NoToken /\ OIdle.row = 0
  BY OAuthAssumption DEF OIdle, ORequest, Blank, Connection, OStatus, Flows, Flow0, OToken, NoToken

\* Init
LEMMA OAuthInitInv == OAuthInit => OAuthInv
  <1> SUFFICES ASSUME OAuthInit PROVE OAuthInv
    OBVIOUS
  <1>1. \A o \in OReqs : oreq[o] = OIdle
    BY DEF OAuthInit
  <1>2. OAuthTypeOK
    BY IdleFlowType, OAuthAssumption DEF OAuthInit, OAuthTypeOK, Flows, Flow0
  <1>3. Requests
    <2>1. 0 \in 0..Len(connection)
      BY DEF OAuthInit
    <2>2. FlowFits(OIdle, connection, newest)
      BY <2>1, IdleFlowType DEF FlowFits, Bearing, Of
    <2> QED BY <1>1, <2>2 DEF Requests
  <1>4. Rows /\ Unspent /\ CallbackMatches /\ StoredTokenIsNewest
    BY DEF OAuthInit, Rows, Unspent, CallbackMatches, StoredTokenIsNewest
  <1>5. OneRow
    BY <1>1, IdleFlowType DEF OAuthInit, OneRow, Of
  <1>6. Ahead
    BY <1>1, IdleFlowType DEF OAuthInit, Ahead, Bearing
  <1> QED BY <1>2, <1>3, <1>4, <1>5, <1>6 DEF OAuthInv

\* Whoever asks keeps the invariant as long as its request fits and holds no token but
\* one its row has, and if it gives up a new token that token's flow is unanswered.
LEMMA LookKeeps ==
    ASSUME OAuthInv, NEW o \in OReqs, NEW me \in ORequest,
           oreq' = [oreq EXCEPT ![o] = me],
           UNCHANGED <<connection, codes, newest>>,
           flows' \in Flow0, unanswered \subseteq unanswered', unanswered' \subseteq Flows,
           FlowFits(me, connection, newest), me.pc \notin Bearing,
           \/ Of(me) = NoToken
           \/ me.row \in DOMAIN connection /\ Of(me) = connection[me.row].token_set,
           oreq[o].pc = "restore" => oreq[o].token.flow \in unanswered'
    PROVE  OAuthInv'
  <1> USE DEF OAuthInv
  <1>1. oreq'[o] = me /\ \A p \in OReqs : p # o => oreq'[p] = oreq[p]
    BY DEF OAuthTypeOK
  <1>2. OAuthTypeOK'
    BY DEF OAuthTypeOK
  <1>3. Requests'
    BY <1>1 DEF Requests
  <1>4. Rows' /\ Unspent' /\ CallbackMatches'
    BY DEF Rows, Unspent, CallbackMatches
  <1>5. OneRow'
    <2>1. ASSUME NEW p \in OReqs, NEW i \in DOMAIN connection,
                 connection[i].token_set # NoToken,
                 connection[i].token_set.flow = Of(oreq'[p]).flow
          PROVE  oreq'[p].row = i
      BY <1>1, <2>1 DEF OneRow, Rows, Issued, NoToken, Flows
    <2>2. ASSUME NEW p \in OReqs, NEW q \in OReqs,
                 Of(oreq'[p]) # NoToken, Of(oreq'[p]).flow = Of(oreq'[q]).flow
          PROVE  oreq'[p].row = oreq'[q].row
      BY <1>1, <2>2 DEF OneRow, Requests, FlowFits, Rows, Issued, NoToken, Flows
    <2> QED BY <2>1, <2>2 DEF OneRow
  <1>6. Ahead'
    <2>1. ASSUME NEW p \in OReqs, oreq'[p].pc \in Bearing, NEW q \in OReqs \ {p},
                 Of(oreq'[q]).flow = oreq'[p].token.flow
          PROVE  Of(oreq'[q]).n < oreq'[p].token.n
      <3>1. p # o /\ oreq'[p] = oreq[p] /\ Issued(oreq[p].token, newest)
        BY <1>1, <2>1 DEF Requests, FlowFits, Of, Bearing
      <3>2. CASE q = o
        BY <1>1, <2>1, <3>1, <3>2 DEF Ahead, Issued, NoToken, Flows
      <3>3. CASE q # o
        BY <1>1, <2>1, <3>1, <3>3 DEF Ahead
      <3> QED BY <3>2, <3>3
    <2> QED BY <1>1, <2>1 DEF Ahead
  <1>7. StoredTokenIsNewest'
    <2> SUFFICES ASSUME NEW i \in DOMAIN connection,
                        connection[i].token_set # NoToken,
                        connection[i].token_set.flow \notin unanswered',
                        connection[i].token_set.n # newest[connection[i].token_set.flow]
                 PROVE  \E r \in OReqs :
                            /\ oreq'[r].pc = "restore"
                            /\ oreq'[r].token = [flow |-> connection[i].token_set.flow,
                                                 n |-> newest[connection[i].token_set.flow]]
      BY DEF StoredTokenIsNewest
    <2>1. PICK r \in OReqs :
              /\ oreq[r].pc = "restore"
              /\ oreq[r].token = [flow |-> connection[i].token_set.flow,
                                  n |-> newest[connection[i].token_set.flow]]
      BY DEF StoredTokenIsNewest
    <2>2. r # o
      BY <2>1
    <2> QED BY <1>1, <2>1, <2>2
  <1> QED BY <1>2, <1>3, <1>4, <1>5, <1>6, <1>7

LEMMA IdleFlowFits ==
    ASSUME OAuthInv PROVE FlowFits(OIdle, connection, newest) /\ Of(OIdle) = NoToken
  <1>1. 0 \in 0..Len(connection)
    BY DEF OAuthInv, OAuthTypeOK
  <1> QED BY <1>1, IdleFlowType DEF FlowFits, Bearing, Of

LEMMA RowType ==
    ASSUME OAuthInv, NEW i \in DOMAIN connection
    PROVE  i \in Nat \ {0} /\ i \in 0..Len(connection) /\ connection[i] \in Connection
  <1>1. connection \in Seq(Connection)
    BY DEF OAuthInv, OAuthTypeOK
  <1> QED BY <1>1

LEMMA RegisterKeeps ==
    ASSUME OAuthInv, NEW o \in OReqs, discover_and_register_oauth_client(o) PROVE OAuthInv'
  <1> DEFINE me == [OIdle EXCEPT !.pc = "register", !.flow = flows + 1]
  <1> USE DEF discover_and_register_oauth_client
  <1>1. flows + 1 \in Flows /\ flows' \in Flow0
    BY OAuthAssumption DEF OAuthInv, OAuthTypeOK, Flows, Flow0
  <1>2. me \in ORequest /\ me.pc = "register" /\ me.flow \in Flows /\ me.row = 0 /\ me.token = NoToken
    BY <1>1, IdleFlowType DEF ORequest, Flows, Flow0
  <1>3. FlowFits(me, connection, newest) /\ Of(me) = NoToken
    BY <1>2, IdleFlowFits DEF FlowFits, Bearing, Of, OIdle
  <1>4. oreq' = [oreq EXCEPT ![o] = me] /\ oreq[o].pc = "idle" /\ unanswered \subseteq Flows
    BY IdleFlowType DEF Serve, OAuthInv, OAuthTypeOK
  <1> HIDE DEF me
  <1> QED BY <1>1, <1>2, <1>3, <1>4, LookKeeps DEF Bearing

LEMMA ConnectionKeeps ==
    ASSUME OAuthInv, NEW o \in OReqs, _connection_for_hook(o) PROVE OAuthInv'
  <1> USE DEF _connection_for_hook
  <1>1. /\ oreq[o] \in ORequest /\ FlowFits(oreq[o], connection, newest)
        /\ flows' \in Flow0 /\ unanswered' \subseteq Flows /\ unanswered \subseteq unanswered'
        /\ oreq[o].pc = "register" /\ connection \in Seq(Connection)
    BY DEF OAuthInv, OAuthTypeOK, Requests
  <1>2. ASSUME NEW me \in ORequest, oreq' = [oreq EXCEPT ![o] = me],
               me.pc = "start", me.flow = oreq[o].flow, me.token = oreq[o].token,
               me.row \in 0..Len(connection)
        PROVE  OAuthInv'
    <2>1. FlowFits(me, connection, newest) /\ Of(me) = NoToken
      BY <1>1, <1>2 DEF FlowFits, Bearing, Of
    <2> QED BY <1>1, <1>2, <2>1, LookKeeps DEF Bearing
  <1>3. CASE Serve(o, [oreq[o] EXCEPT !.pc = "start"])
    <2> DEFINE me == [oreq[o] EXCEPT !.pc = "start"]
    <2>1. me \in ORequest /\ me.pc = "start" /\ me.flow = oreq[o].flow
          /\ me.token = oreq[o].token /\ me.row \in 0..Len(connection)
      BY <1>1 DEF ORequest, FlowFits
    <2>2. oreq' = [oreq EXCEPT ![o] = me]
      BY <1>3 DEF Serve
    <2> HIDE DEF me
    <2> QED BY <1>2, <2>1, <2>2
  <1>4. ASSUME NEW i \in DOMAIN connection,
               Serve(o, [oreq[o] EXCEPT !.pc = "start", !.row = i, !.was = connection[i]])
        PROVE  OAuthInv'
    <2> DEFINE me == [oreq[o] EXCEPT !.pc = "start", !.row = i, !.was = connection[i]]
    <2>1. i \in Nat /\ i \in 0..Len(connection) /\ connection[i] \in Connection
      BY RowType
    <2>2. me \in ORequest /\ me.pc = "start" /\ me.flow = oreq[o].flow
          /\ me.token = oreq[o].token /\ me.row \in 0..Len(connection)
      BY <1>1, <2>1 DEF ORequest
    <2>3. oreq' = [oreq EXCEPT ![o] = me]
      BY <1>4 DEF Serve
    <2> HIDE DEF me
    <2> QED BY <1>2, <2>2, <2>3
  <1> QED BY <1>3, <1>4

LEMMA CompleteBeginKeeps ==
    ASSUME OAuthInv, NEW o \in OReqs, NEW f \in Flows, CompleteBegin(o, f) PROVE OAuthInv'
  <1>1. PICK i \in DOMAIN connection :
          Serve(o, [OIdle EXCEPT !.pc = "exchange", !.row = i, !.was = connection[i], !.flow = f])
    BY DEF CompleteBegin
  <1> DEFINE me == [OIdle EXCEPT !.pc = "exchange", !.row = i, !.was = connection[i], !.flow = f]
  <1>2. i \in Nat \ {0} /\ i \in 0..Len(connection) /\ connection[i] \in Connection
    BY RowType
  <1>3. /\ me \in ORequest /\ me.pc = "exchange" /\ me.flow \in Flows
        /\ me.row = i /\ me.token = NoToken
    <2>1. f \in Flow0
      BY DEF Flows, Flow0
    <2> QED BY <1>2, <2>1, IdleFlowType DEF ORequest
  <1>4. FlowFits(me, connection, newest) /\ Of(me) = NoToken
    BY <1>2, <1>3 DEF FlowFits, Bearing, Of
  <1>5. /\ oreq' = [oreq EXCEPT ![o] = me] /\ oreq[o].pc = "idle"
        /\ UNCHANGED <<connection, codes, newest, unanswered, flows>>
        /\ flows \in Flow0 /\ unanswered \subseteq Flows
    BY <1>1, IdleFlowType DEF Serve, CompleteBegin, OAuthInv, OAuthTypeOK
  <1> HIDE DEF me
  <1> QED BY <1>3, <1>4, <1>5, LookKeeps DEF Bearing

LEMMA RefreshBeginKeeps ==
    ASSUME OAuthInv, NEW o \in OReqs, NEW force \in BOOLEAN, RefreshBegin(o, force) PROVE OAuthInv'
  <1>1. PICK i \in DOMAIN connection :
          /\ connection[i].token_set # NoToken
          /\ Serve(o, [OIdle EXCEPT !.pc = "refresh", !.row = i, !.was = connection[i]])
    BY DEF RefreshBegin
  <1> DEFINE me == [OIdle EXCEPT !.pc = "refresh", !.row = i, !.was = connection[i]]
  <1>2. i \in Nat \ {0} /\ i \in 0..Len(connection) /\ connection[i] \in Connection
    BY RowType
  <1>3. /\ me \in ORequest /\ me.pc = "refresh" /\ me.was = connection[i]
        /\ me.row = i /\ me.token = NoToken
    BY <1>2, IdleFlowType DEF ORequest, Flows, Flow0
  <1>4. Of(me) = connection[i].token_set /\ Issued(Of(me), newest)
    BY <1>1, <1>3 DEF OAuthInv, Rows, Of
  <1>5. FlowFits(me, connection, newest)
    BY <1>1, <1>2, <1>3, <1>4 DEF FlowFits, Bearing
  <1>6. /\ oreq' = [oreq EXCEPT ![o] = me] /\ oreq[o].pc = "idle"
        /\ UNCHANGED <<connection, codes, newest, unanswered, flows>>
        /\ flows \in Flow0 /\ unanswered \subseteq Flows
    BY <1>1, IdleFlowType DEF Serve, RefreshBegin, OAuthInv, OAuthTypeOK
  <1> HIDE DEF me
  <1> QED BY <1>3, <1>4, <1>5, <1>6, LookKeeps DEF Bearing

\* A request that ends, its new token lost if it had one.
LEMMA EndKeeps ==
    ASSUME OAuthInv, NEW o \in OReqs, Serve(o, OIdle), UNCHANGED <<connection, flows, codes, newest>>,
           unanswered \subseteq unanswered', unanswered' \subseteq Flows,
           oreq[o].pc = "restore" => oreq[o].token.flow \in unanswered'
    PROVE  OAuthInv'
  <1>1. oreq' = [oreq EXCEPT ![o] = OIdle] /\ flows' \in Flow0
    BY DEF Serve, OAuthInv, OAuthTypeOK
  <1> QED BY <1>1, IdleFlowType, IdleFlowFits, LookKeeps DEF Bearing

LEMMA CrashKeeps ==
    ASSUME OAuthInv, NEW o \in OReqs, OAuthCrash(o) PROVE OAuthInv'
  <1>1. FlowFits(oreq[o], connection, newest) /\ unanswered \subseteq Flows
    BY DEF OAuthInv, Requests, OAuthTypeOK
  <1>2. oreq[o].token # NoToken => oreq[o].token.flow \in Flows
    BY <1>1 DEF FlowFits, Bearing, Of, Issued
  <1>3. oreq[o].pc = "restore" => oreq[o].token # NoToken
    BY <1>1 DEF FlowFits, Bearing
  <1> QED BY <1>1, <1>2, <1>3, EndKeeps DEF OAuthCrash

-----------------------------------------------------------------------------
(* The server: consent, the first token and rotation *)

LEMMA ConsentKeeps ==
    ASSUME OAuthInv, NEW f \in Flows, Consent(f) PROVE OAuthInv'
  <1> USE DEF OAuthInv, Consent
  <1>1. OAuthTypeOK'
    BY DEF OAuthTypeOK
  <1>2. Requests' /\ Rows' /\ Unspent' /\ CallbackMatches'
    BY DEF Requests, Rows, Unspent, CallbackMatches
  <1>3. OneRow' /\ Ahead'
    BY DEF OneRow, Ahead
  <1>4. StoredTokenIsNewest'
    BY DEF StoredTokenIsNewest
  <1> QED BY <1>1, <1>2, <1>3, <1>4

\* What the types and Requests say of one request.
LEMMA RequestFacts ==
    ASSUME OAuthInv, NEW o \in OReqs
    PROVE  /\ oreq[o] \in ORequest /\ FlowFits(oreq[o], connection, newest)
           /\ Of(oreq[o]) \in OToken
           /\ NoToken \in OToken /\ NoToken.flow \notin Flows
  <1>1. oreq[o] \in ORequest /\ FlowFits(oreq[o], connection, newest)
    BY DEF OAuthInv, OAuthTypeOK, Requests
  <1>2. Of(oreq[o]) \in OToken
    BY <1>1 DEF ORequest, Connection, Of
  <1> QED BY <1>1, <1>2, OAuthAssumption DEF OToken, NoToken, Flows, Flow0

LEMMA ExchangeKeeps ==
    ASSUME OAuthInv, NEW o \in OReqs, ExchangeCode(o) PROVE OAuthInv'
  <1> DEFINE f == oreq[o].flow
             me == [oreq[o] EXCEPT !.pc = "store", !.token = [flow |-> f, n |-> 1]]
  <1>1. oreq[o] \in ORequest /\ FlowFits(oreq[o], connection, newest)
        /\ oreq[o].pc = "exchange" /\ UNCHANGED <<connection, flows, unanswered>>
    BY RequestFacts DEF ExchangeCode
  <1>2. CASE UNCHANGED <<codes, newest>> /\ Serve(o, OIdle)
    BY <1>1, <1>2, EndKeeps DEF OAuthInv, OAuthTypeOK
  <1>3. CASE /\ f \in codes /\ codes' = codes \ {f}
             /\ newest' = [newest EXCEPT ![f] = 1] /\ Serve(o, me)
    <2>1. f \in Flows /\ newest[f] = 0 /\ newest \in [Flows -> 0..MaxTokens] /\ codes \subseteq Flows
      BY <1>3 DEF OAuthInv, OAuthTypeOK, Unspent
    <2>2. newest' \in [Flows -> 0..MaxTokens] /\ newest'[f] = 1
          /\ \A g \in Flows : g # f => newest'[g] = newest[g]
      BY <1>3, <2>1, OAuthAssumption
    <2>3. \A t \in OToken : Issued(t, newest) =>
              t.flow # f /\ newest'[t.flow] = newest[t.flow] /\ Issued(t, newest')
      BY <2>1, <2>2 DEF Issued, OToken
    <2>4. /\ me \in ORequest /\ me.pc = "store" /\ me.row = oreq[o].row
          /\ me.token = [flow |-> f, n |-> 1]
      <3>1. [flow |-> f, n |-> 1] \in OToken
        BY <2>1, OAuthAssumption DEF OToken, Flows, Flow0
      <3> QED BY <1>1, <3>1 DEF ORequest
    <2>5. oreq \in [OReqs -> ORequest]
      BY DEF OAuthInv, OAuthTypeOK
    <2>6. oreq'[o] = me /\ \A p \in OReqs : p # o => oreq'[p] = oreq[p]
      BY <1>3, <2>5 DEF Serve
    <2>7. OAuthTypeOK'
      BY <1>1, <1>3, <2>1, <2>2, <2>4, <2>5 DEF Serve, OAuthInv, OAuthTypeOK
    <2> HIDE DEF me, f
    <2>8. Of(me) = [flow |-> f, n |-> 1] /\ me.pc \in Bearing /\ Issued(Of(me), newest')
      BY <2>1, <2>2, <2>4 DEF Of, Bearing, Issued
    <2>9. FlowFits(me, connection, newest')
      BY <1>1, <2>2, <2>4, <2>8, <2>1, RequestFacts DEF FlowFits, Bearing, Of
    <2>10. ASSUME NEW p \in OReqs, p # o PROVE FlowFits(oreq[p], connection, newest')
      <3>1. FlowFits(oreq[p], connection, newest) /\ Of(oreq[p]) \in OToken
        BY RequestFacts
      <3> QED BY <2>3, <3>1 DEF FlowFits, Bearing, Of
    <2>11. Requests'
      BY <1>1, <2>6, <2>9, <2>10 DEF Requests
    <2>12. \A i \in DOMAIN connection : connection[i].token_set \in OToken
      BY RowType DEF Connection
    <2>13. \A i \in DOMAIN connection :
               connection[i].token_set.flow # f
               /\ (connection[i].token_set # NoToken => Issued(connection[i].token_set, newest))
      BY <2>1, <2>3, <2>12, RequestFacts DEF OAuthInv, Rows
    <2>14. \A p \in OReqs : Of(oreq[p]).flow # f
      BY <2>1, <2>3, RequestFacts DEF FlowFits
    <2>15. Rows'
      BY <1>1, <2>3, <2>12, <2>13 DEF Rows
    <2>16. Unspent' /\ CallbackMatches'
      BY <1>1, <1>3, <2>1, <2>2 DEF OAuthInv, Unspent, CallbackMatches
    <2>17. OneRow'
      BY <1>1, <2>4, <2>6, <2>8, <2>13, <2>14 DEF OAuthInv, OneRow
    <2>18. Ahead'
      BY <1>1, <2>4, <2>6, <2>8, <2>13, <2>14 DEF OAuthInv, Ahead, Of, Bearing
    <2>19. StoredTokenIsNewest'
      <3> SUFFICES ASSUME NEW i \in DOMAIN connection,
                          connection[i].token_set # NoToken,
                          connection[i].token_set.flow \notin unanswered,
                          connection[i].token_set.n # newest'[connection[i].token_set.flow]
                   PROVE  \E r \in OReqs :
                            /\ oreq'[r].pc = "restore"
                            /\ oreq'[r].token = [flow |-> connection[i].token_set.flow,
                                                 n |-> newest'[connection[i].token_set.flow]]
        BY <1>1 DEF StoredTokenIsNewest
      <3>1. newest'[connection[i].token_set.flow] = newest[connection[i].token_set.flow]
        BY <2>3, <2>12, <2>13
      <3>2. PICK r \in OReqs :
                /\ oreq[r].pc = "restore"
                /\ oreq[r].token = [flow |-> connection[i].token_set.flow,
                                    n |-> newest[connection[i].token_set.flow]]
        BY <3>1 DEF OAuthInv, StoredTokenIsNewest
      <3>3. r # o
        BY <1>1, <3>2
      <3> QED BY <2>6, <3>1, <3>2, <3>3
    <2> QED BY <2>7, <2>11, <2>15, <2>16, <2>17, <2>18, <2>19 DEF OAuthInv
  <1> QED BY <1>2, <1>3 DEF ExchangeCode

LEMMA RotateKeeps ==
    ASSUME OAuthInv, NEW o \in OReqs, RotateToken(o) PROVE OAuthInv'
  <1> DEFINE held == oreq[o].was.token_set
             f == held.flow
             next == [held EXCEPT !.n = @ + 1]
             me == [oreq[o] EXCEPT !.pc = "restore", !.token = next]
  <1>1. oreq[o] \in ORequest /\ FlowFits(oreq[o], connection, newest)
        /\ oreq[o].pc = "refresh" /\ UNCHANGED <<connection, flows, codes, unanswered>>
        /\ held = Of(oreq[o]) /\ held \in OToken /\ held # NoToken
    BY RequestFacts DEF RotateToken, FlowFits, Of
  <1>2. CASE UNCHANGED newest /\ Serve(o, OIdle)
    BY <1>1, <1>2, EndKeeps DEF OAuthInv, OAuthTypeOK
  <1>3. CASE /\ held.n = newest[f] /\ next.n <= MaxTokens
             /\ newest' = [newest EXCEPT ![f] = next.n] /\ Serve(o, me)
    <2>1. f \in Flows /\ held.n >= 1 /\ newest \in [Flows -> 0..MaxTokens]
          /\ held.n \in 0..MaxTokens /\ codes \subseteq Flows
      BY <1>1 DEF OAuthInv, OAuthTypeOK, FlowFits, Issued, OToken
    <2>2. /\ next \in OToken /\ next.flow = f /\ next.n = newest[f] + 1
          /\ next = [flow |-> f, n |-> newest[f] + 1]
      BY <1>1, <1>3, <2>1, OAuthAssumption DEF OToken
    <2>3. newest' \in [Flows -> 0..MaxTokens] /\ newest'[f] = newest[f] + 1
          /\ \A g \in Flows : g # f => newest'[g] = newest[g]
      BY <1>3, <2>1, <2>2, OAuthAssumption DEF OToken
    <2>4. me \in ORequest /\ me.pc = "restore" /\ me.row = oreq[o].row /\ me.token = next
      BY <1>1, <2>2 DEF ORequest
    <2>5. oreq \in [OReqs -> ORequest]
      BY DEF OAuthInv, OAuthTypeOK
    <2>6. oreq'[o] = me /\ \A p \in OReqs : p # o => oreq'[p] = oreq[p]
      BY <1>3, <2>5 DEF Serve
    <2>7. OAuthTypeOK'
      BY <1>1, <1>3, <2>1, <2>3, <2>4, <2>5 DEF Serve, OAuthInv, OAuthTypeOK
    <2>8. Of(oreq[o]).flow = f /\ Of(oreq[o]).n = newest[f] /\ Of(oreq[o]) # NoToken
          /\ f # NoToken.flow
      BY <1>1, <1>3, <2>1, RequestFacts
    <2> HIDE DEF me, next, held, f
    <2>9. Of(me) = next /\ me.pc \in Bearing /\ Issued(next, newest') /\ next # NoToken
      BY <2>1, <2>2, <2>3, <2>4, <2>8 DEF Of, Bearing, Issued
    <2>10. \A t \in OToken : Issued(t, newest) => Issued(t, newest') /\ t.n <= newest[t.flow]
      BY <2>1, <2>3 DEF Issued, OToken
    <2>11. ASSUME NEW p \in OReqs, oreq[p].pc \in Bearing PROVE p # o /\ oreq[p].token.flow # f
      <3>1. p # o
        BY <1>1, <2>11 DEF Bearing
      <3>2. oreq[p].token.n = newest[oreq[p].token.flow]
        BY <2>11, RequestFacts DEF FlowFits
      <3> QED BY <2>1, <2>8, <2>11, <3>1, <3>2 DEF OAuthInv, Ahead
    <2>12. FlowFits(me, connection, newest')
      BY <1>1, <2>2, <2>3, <2>4, <2>9 DEF FlowFits, Bearing
    <2>13. ASSUME NEW p \in OReqs, p # o PROVE FlowFits(oreq[p], connection, newest')
      <3>1. FlowFits(oreq[p], connection, newest) /\ Of(oreq[p]) \in OToken
        BY RequestFacts
      <3>2. oreq[p].pc \in Bearing =>
               Issued(oreq[p].token, newest) /\ oreq[p].token.flow # f
        BY <2>11, <3>1 DEF FlowFits, Of, Bearing
      <3> QED BY <2>3, <2>10, <3>1, <3>2 DEF FlowFits, Issued
    <2>14. Requests'
      BY <1>1, <2>6, <2>12, <2>13 DEF Requests
    <2>15. \A i \in DOMAIN connection :
               /\ connection[i].token_set \in OToken
               /\ connection[i].token_set # NoToken => Issued(connection[i].token_set, newest)
      BY RowType DEF Connection, OAuthInv, Rows
    <2>16. Rows'
      BY <1>1, <2>10, <2>15 DEF Rows
    <2>17. Unspent' /\ CallbackMatches'
      BY <1>1, <2>1, <2>3, <2>8, <1>3 DEF OAuthInv, Unspent, CallbackMatches
    <2>18. \A p \in OReqs : /\ oreq'[p].row = oreq[p].row
                            /\ Of(oreq'[p]).flow = Of(oreq[p]).flow
                            /\ Of(oreq'[p]) # NoToken => Of(oreq[p]) # NoToken
      BY <2>2, <2>4, <2>6, <2>8, <2>9
    <2>19. OneRow'
      BY <1>1, <2>18 DEF OAuthInv, OneRow
    <2>20. Ahead'
      <3> SUFFICES ASSUME NEW p \in OReqs, oreq'[p].pc \in Bearing
                   PROVE  /\ \A i \in DOMAIN connection :
                               connection[i].token_set.flow = oreq'[p].token.flow
                                   => connection[i].token_set.n < oreq'[p].token.n
                          /\ \A q \in OReqs \ {p} : Of(oreq'[q]).flow = oreq'[p].token.flow
                                   => Of(oreq'[q]).n < oreq'[p].token.n
        BY <1>1 DEF Ahead
      <3>1. CASE p = o
        <4>1. oreq'[p].token.flow = f /\ oreq'[p].token.n = newest[f] + 1
          BY <2>2, <2>4, <2>6, <3>1
        <4>2. ASSUME NEW i \in DOMAIN connection, connection[i].token_set.flow = f
              PROVE  connection[i].token_set.n < newest[f] + 1
          BY <2>1, <2>8, <2>15, <4>2 DEF Issued, OToken
        <4>3. ASSUME NEW q \in OReqs \ {o}, Of(oreq[q]).flow = f
              PROVE  Of(oreq[q]).n < newest[f] + 1
          BY <2>1, <2>8, <4>3, RequestFacts DEF FlowFits, Issued, OToken
        <4> QED BY <2>6, <3>1, <4>1, <4>2, <4>3
      <3>2. CASE p # o
        <4>1. oreq'[p] = oreq[p] /\ oreq[p].token.flow # f
          BY <2>6, <2>11, <3>2
        <4> QED BY <2>2, <2>6, <2>9, <4>1 DEF OAuthInv, Ahead
      <3> QED BY <3>1, <3>2
    <2>21. StoredTokenIsNewest'
      <3> SUFFICES ASSUME NEW i \in DOMAIN connection,
                          connection[i].token_set # NoToken,
                          connection[i].token_set.flow \notin unanswered,
                          connection[i].token_set.n # newest'[connection[i].token_set.flow]
                   PROVE  \E r \in OReqs :
                            /\ oreq'[r].pc = "restore"
                            /\ oreq'[r].token = [flow |-> connection[i].token_set.flow,
                                                 n |-> newest'[connection[i].token_set.flow]]
        BY <1>1 DEF StoredTokenIsNewest
      <3>1. CASE connection[i].token_set.flow = f
        BY <2>2, <2>3, <2>4, <2>6, <3>1
      <3>2. CASE connection[i].token_set.flow # f
        <4>1. newest'[connection[i].token_set.flow] = newest[connection[i].token_set.flow]
          BY <2>3, <2>15, <3>2 DEF Issued
        <4>2. PICK r \in OReqs :
                  /\ oreq[r].pc = "restore"
                  /\ oreq[r].token = [flow |-> connection[i].token_set.flow,
                                      n |-> newest[connection[i].token_set.flow]]
          BY <4>1 DEF OAuthInv, StoredTokenIsNewest
        <4>3. r # o
          BY <1>1, <4>2
        <4> QED BY <2>6, <4>1, <4>2, <4>3
      <3> QED BY <3>1, <3>2
    <2> QED BY <2>7, <2>14, <2>16, <2>17, <2>19, <2>20, <2>21 DEF OAuthInv
  <1> QED BY <1>2, <1>3 DEF RotateToken

-----------------------------------------------------------------------------
(* Writing the row *)

\* A start writes client, state and verifier together; tokens stay where they are.
LEMMA StartKeeps ==
    ASSUME OAuthInv, NEW o \in OReqs, start_authorization(o) PROVE OAuthInv'
  <1> DEFINE i == oreq[o].row
             f == oreq[o].flow
  <1>1. /\ oreq[o] \in ORequest /\ FlowFits(oreq[o], connection, newest) /\ oreq[o].pc = "start"
        /\ f \in Flows /\ i \in 0..Len(connection) /\ connection \in Seq(Connection)
        /\ UNCHANGED <<flows, codes, newest, unanswered>> /\ oreq' = [oreq EXCEPT ![o] = OIdle]
    BY RequestFacts DEF start_authorization, FlowFits, Serve, OAuthInv, OAuthTypeOK
  <1>2. oreq'[o] = OIdle /\ \A p \in OReqs : p # o => oreq'[p] = oreq[p]
    BY <1>1 DEF OAuthInv, OAuthTypeOK
  <1>3. oreq' \in [OReqs -> ORequest]
    BY <1>1, IdleFlowType DEF OAuthInv, OAuthTypeOK
  <1>4. /\ connection' \in Seq(Connection)
        /\ Len(connection) <= Len(connection')
        /\ \A j \in DOMAIN connection' :
              \/ /\ j \in DOMAIN connection
                 /\ connection'[j].token_set = connection[j].token_set
                 /\ connection'[j].status = connection[j].status
                    \/ connection'[j].status = "authorization_pending"
                 /\ \/ connection'[j] = connection[j]
                    \/ connection'[j].client = f /\ connection'[j].state = f
                       /\ connection'[j].code_verifier = f
              \/ connection'[j].token_set = NoToken
                 /\ connection'[j].status = "authorization_pending"
                 /\ connection'[j].client = f /\ connection'[j].state = f
                 /\ connection'[j].code_verifier = f
    <2>1. CASE i = 0
      <3> DEFINE new == [Blank EXCEPT !.client = f, !.state = f, !.code_verifier = f]
      <3>1. new \in Connection /\ new.token_set = NoToken /\ new.status = "authorization_pending"
            /\ new.client = f /\ new.state = f /\ new.code_verifier = f
        <4>1. Blank \in Connection
          BY IdleFlowType DEF OIdle, ORequest
        <4>2. f \in Flow0
          BY <1>1 DEF Flows, Flow0
        <4>3. Blank.token_set = NoToken /\ Blank.status = "authorization_pending"
          BY DEF Blank
        <4> QED BY <1>1, <4>1, <4>2, <4>3 DEF Connection
      <3>2. connection' = Append(connection, new)
        BY <2>1 DEF start_authorization
      <3> HIDE DEF new
      <3> QED BY <1>1, <3>1, <3>2
    <2>2. CASE i # 0
      <3>1. i \in DOMAIN connection /\ connection[i] \in Connection
        BY <1>1, <2>2
      <3> DEFINE old == connection[i]
                 new == [old EXCEPT
                           !.status = IF oreq[o].was.status = "authorization_pending" THEN @
                                      ELSE "authorization_pending",
                           !.client = f, !.state = f, !.code_verifier = f]
      <3>2. connection' = [connection EXCEPT ![i] = new]
        BY <1>1, <2>2, <3>1 DEF start_authorization
      <3>3. f \in Flow0
        BY <1>1 DEF Flows, Flow0
      <3>4. /\ new \in Connection /\ new.token_set = old.token_set
            /\ new.status = old.status \/ new.status = "authorization_pending"
            /\ new.client = f /\ new.state = f /\ new.code_verifier = f
        BY <1>1, <3>1, <3>3 DEF Connection, OStatus
      <3> HIDE DEF new, i, f
      <3>5. Len(connection') = Len(connection) /\ DOMAIN connection' = DOMAIN connection
            /\ connection' \in Seq(Connection)
        BY <1>1, <3>1, <3>2, <3>4
      <3>6. connection'[i] = new /\ \A j \in DOMAIN connection : j # i => connection'[j] = connection[j]
        BY <1>1, <3>1, <3>2
      <3> QED BY <3>4, <3>5, <3>6
    <2> QED BY <2>1, <2>2
  <1>5. OAuthTypeOK'
    BY <1>1, <1>3, <1>4 DEF OAuthInv, OAuthTypeOK
  <1>6. Requests'
    <2>1. ASSUME NEW p \in OReqs PROVE FlowFits(oreq'[p], connection', newest)
      <3>1. FlowFits(oreq'[p], connection, newest)
        BY <1>2, IdleFlowFits, RequestFacts
      <3>2. Len(connection) \in Nat /\ Len(connection') \in Nat
        BY <1>1, <1>4
      <3> QED BY <1>4, <3>1, <3>2 DEF FlowFits
    <2> QED BY <1>1, <2>1 DEF Requests
  <1>7. Rows' /\ Unspent' /\ CallbackMatches'
    BY <1>1, <1>4 DEF OAuthInv, Rows, Unspent, CallbackMatches
  <1>8. Of(oreq'[o]) = NoToken /\ oreq'[o].pc \notin Bearing /\ Of(oreq[o]) = NoToken
        /\ oreq[o].pc \notin Bearing
    BY <1>1, <1>2, IdleFlowFits, IdleFlowType DEF Bearing, Of, FlowFits
  <1>9. OneRow'
    <2>1. ASSUME NEW j \in DOMAIN connection', connection'[j].token_set # NoToken
          PROVE  j \in DOMAIN connection /\ connection'[j].token_set = connection[j].token_set
                 /\ connection[j].token_set.flow # NoToken.flow
      BY <1>4, <2>1, RequestFacts DEF OAuthInv, Rows, Issued
    <2>2. ASSUME NEW j \in DOMAIN connection', NEW k \in DOMAIN connection',
                 connection'[j].token_set # NoToken,
                 connection'[j].token_set.flow = connection'[k].token_set.flow
          PROVE  j = k
      BY <2>1, <2>2 DEF OAuthInv, OneRow
    <2>3. ASSUME NEW p \in OReqs, NEW j \in DOMAIN connection',
                 connection'[j].token_set # NoToken,
                 connection'[j].token_set.flow = Of(oreq'[p]).flow
          PROVE  oreq'[p].row = j
      BY <1>2, <1>8, <2>1, <2>3 DEF OAuthInv, OneRow
    <2>4. ASSUME NEW p \in OReqs, NEW q \in OReqs,
                 Of(oreq'[p]) # NoToken, Of(oreq'[p]).flow = Of(oreq'[q]).flow
          PROVE  oreq'[p].row = oreq'[q].row
      <3>1. p # o /\ oreq'[p] = oreq[p] /\ Of(oreq[p]).flow \in Flows
        BY <1>2, <1>8, <2>4, RequestFacts DEF FlowFits, Issued
      <3>2. q # o
        BY <1>8, <2>4, <3>1, RequestFacts
      <3> QED BY <1>2, <2>4, <3>1, <3>2 DEF OAuthInv, OneRow
    <2> QED BY <2>2, <2>3, <2>4 DEF OneRow
  <1>10. Ahead'
    <2> SUFFICES ASSUME NEW p \in OReqs, oreq'[p].pc \in Bearing
                 PROVE  /\ \A j \in DOMAIN connection' :
                             connection'[j].token_set.flow = oreq'[p].token.flow
                                 => connection'[j].token_set.n < oreq'[p].token.n
                        /\ \A q \in OReqs \ {p} : Of(oreq'[q]).flow = oreq'[p].token.flow
                                 => Of(oreq'[q]).n < oreq'[p].token.n
      BY DEF Ahead
    <2>1. p # o /\ oreq'[p] = oreq[p] /\ oreq[p].token.flow # NoToken.flow
      BY <1>2, <1>8, RequestFacts DEF FlowFits, Of, Bearing, Issued
    <2> QED BY <1>2, <1>4, <1>8, <2>1 DEF OAuthInv, Ahead
  <1>11. StoredTokenIsNewest'
    <2> SUFFICES ASSUME NEW j \in DOMAIN connection',
                        connection'[j].token_set # NoToken,
                        connection'[j].token_set.flow \notin unanswered,
                        connection'[j].token_set.n # newest[connection'[j].token_set.flow]
                 PROVE  \E r \in OReqs :
                          /\ oreq'[r].pc = "restore"
                          /\ oreq'[r].token = [flow |-> connection'[j].token_set.flow,
                                               n |-> newest[connection'[j].token_set.flow]]
      BY <1>1 DEF StoredTokenIsNewest
    <2>1. j \in DOMAIN connection /\ connection'[j].token_set = connection[j].token_set
      BY <1>4
    <2>2. PICK r \in OReqs :
              /\ oreq[r].pc = "restore"
              /\ oreq[r].token = [flow |-> connection[j].token_set.flow,
                                  n |-> newest[connection[j].token_set.flow]]
      BY <2>1 DEF OAuthInv, StoredTokenIsNewest
    <2> QED BY <1>1, <1>2, <2>1, <2>2
  <1> QED BY <1>5, <1>6, <1>7, <1>9, <1>10, <1>11 DEF OAuthInv

\* A request puts its new token into its row and ends.
LEMMA StoreKeeps ==
    ASSUME OAuthInv, NEW o \in OReqs, oreq[o].pc \in Bearing, Serve(o, OIdle),
           UNCHANGED <<flows, codes, newest, unanswered>>,
           connection' \in Seq(Connection), Len(connection') = Len(connection),
           connection'[oreq[o].row].token_set = oreq[o].token,
           \A j \in DOMAIN connection : j # oreq[o].row => connection'[j] = connection[j],
           CallbackMatches'
    PROVE  OAuthInv'
  <1> DEFINE i == oreq[o].row
             t == oreq[o].token
  <1>1. /\ oreq[o] \in ORequest /\ FlowFits(oreq[o], connection, newest)
        /\ t = Of(oreq[o]) /\ t # NoToken /\ t.n = newest[t.flow] /\ Issued(t, newest)
        /\ t.flow # NoToken.flow
    BY RequestFacts DEF FlowFits, Of, Bearing, Issued
  <1>2. i \in DOMAIN connection /\ DOMAIN connection' = DOMAIN connection
    <2>1. i \in 0..Len(connection) /\ i # 0 /\ connection \in Seq(Connection)
      BY <1>1 DEF FlowFits, Bearing, OAuthInv, OAuthTypeOK
    <2> QED BY <2>1
  <1>3. oreq' = [oreq EXCEPT ![o] = OIdle] /\ oreq' \in [OReqs -> ORequest]
        /\ oreq'[o] = OIdle /\ \A p \in OReqs : p # o => oreq'[p] = oreq[p]
    BY IdleFlowType DEF Serve, OAuthInv, OAuthTypeOK
  <1>4. Of(oreq'[o]) = NoToken /\ oreq'[o].pc \notin Bearing
    BY <1>3, IdleFlowFits, IdleFlowType DEF Bearing
  <1>5. \A j \in DOMAIN connection' :
            \/ j = i /\ connection'[j].token_set = t
            \/ j # i /\ j \in DOMAIN connection /\ connection'[j] = connection[j]
    BY <1>2
  <1> HIDE DEF i, t
  <1>6. OAuthTypeOK'
    BY <1>1, <1>3, <1>5 DEF OAuthInv, OAuthTypeOK
  <1>7. Requests'
    <2>1. \A p \in OReqs : FlowFits(oreq'[p], connection, newest)
      BY <1>3, IdleFlowFits, RequestFacts
    <2> QED BY <2>1 DEF Requests, FlowFits
  <1>8. Rows' /\ Unspent'
    BY <1>1, <1>5 DEF OAuthInv, Rows, Unspent
  <1>9. \A j \in DOMAIN connection' : connection'[j].token_set # NoToken =>
            connection'[j].token_set.flow # NoToken.flow
    BY <1>1, <1>5, RequestFacts DEF OAuthInv, Rows, Issued
  <1>10. ASSUME NEW j \in DOMAIN connection, connection[j].token_set.flow = t.flow PROVE j = i
    BY <1>1, <1>10 DEF OAuthInv, OneRow, i
  <1>11. ASSUME NEW p \in OReqs, Of(oreq[p]).flow = t.flow PROVE oreq[p].row = i
    BY <1>1, <1>11 DEF OAuthInv, OneRow, i
  <1>12. OneRow'
    <2>1. ASSUME NEW j \in DOMAIN connection', NEW k \in DOMAIN connection',
                 connection'[j].token_set # NoToken,
                 connection'[j].token_set.flow = connection'[k].token_set.flow
          PROVE  j = k
      BY <1>5, <1>10, <2>1 DEF OAuthInv, OneRow
    <2>2. ASSUME NEW p \in OReqs, NEW j \in DOMAIN connection',
                 connection'[j].token_set # NoToken,
                 connection'[j].token_set.flow = Of(oreq'[p]).flow
          PROVE  oreq'[p].row = j
      <3>1. p # o /\ oreq'[p] = oreq[p]
        BY <1>3, <1>4, <1>9, <2>2
      <3> QED BY <1>5, <1>11, <2>2, <3>1 DEF OAuthInv, OneRow
    <2>3. ASSUME NEW p \in OReqs, NEW q \in OReqs,
                 Of(oreq'[p]) # NoToken, Of(oreq'[p]).flow = Of(oreq'[q]).flow
          PROVE  oreq'[p].row = oreq'[q].row
      <3>1. p # o /\ oreq'[p] = oreq[p] /\ Of(oreq[p]).flow \in Flows
        BY <1>3, <1>4, <2>3, RequestFacts DEF FlowFits, Issued
      <3>2. q # o
        BY <1>4, <2>3, <3>1, RequestFacts
      <3> QED BY <1>3, <2>3, <3>1, <3>2 DEF OAuthInv, OneRow
    <2> QED BY <2>1, <2>2, <2>3 DEF OneRow
  <1>13. Ahead'
    <2> SUFFICES ASSUME NEW p \in OReqs, oreq'[p].pc \in Bearing
                 PROVE  /\ \A j \in DOMAIN connection' :
                             connection'[j].token_set.flow = oreq'[p].token.flow
                                 => connection'[j].token_set.n < oreq'[p].token.n
                        /\ \A q \in OReqs \ {p} : Of(oreq'[q]).flow = oreq'[p].token.flow
                                 => Of(oreq'[q]).n < oreq'[p].token.n
      BY DEF Ahead
    <2>1. p # o /\ oreq'[p] = oreq[p] /\ oreq[p].token.flow # NoToken.flow
      BY <1>3, <1>4, RequestFacts DEF FlowFits, Of, Bearing, Issued
    <2> QED BY <1>1, <1>3, <1>4, <1>5, <2>1 DEF OAuthInv, Ahead
  <1>14. StoredTokenIsNewest'
    <2> SUFFICES ASSUME NEW j \in DOMAIN connection',
                        connection'[j].token_set # NoToken,
                        connection'[j].token_set.flow \notin unanswered,
                        connection'[j].token_set.n # newest[connection'[j].token_set.flow]
                 PROVE  \E r \in OReqs :
                          /\ oreq'[r].pc = "restore"
                          /\ oreq'[r].token = [flow |-> connection'[j].token_set.flow,
                                               n |-> newest[connection'[j].token_set.flow]]
      BY DEF StoredTokenIsNewest
    <2>1. j # i /\ j \in DOMAIN connection /\ connection'[j] = connection[j]
      BY <1>1, <1>5
    <2>2. PICK r \in OReqs :
              /\ oreq[r].pc = "restore"
              /\ oreq[r].token = [flow |-> connection[j].token_set.flow,
                                  n |-> newest[connection[j].token_set.flow]]
      BY <2>1 DEF OAuthInv, StoredTokenIsNewest
    <2>3. r # o
      BY <1>10, <2>1, <2>2 DEF t
    <2> QED BY <1>3, <2>1, <2>2, <2>3
  <1> QED BY <1>6, <1>7, <1>8, <1>12, <1>13, <1>14 DEF OAuthInv

LEMMA CompleteKeeps ==
    ASSUME OAuthInv, NEW o \in OReqs, complete_authorization(o) PROVE OAuthInv'
  <1> DEFINE i == oreq[o].row
             new == [connection[i] EXCEPT
                       !.token_set = oreq[o].token,
                       !.status = IF oreq[o].was.status = "authorized" THEN @ ELSE "authorized",
                       !.state = 0, !.code_verifier = 0]
  <1>1. /\ oreq[o].pc = "store" /\ oreq[o] \in ORequest /\ oreq[o].token \in OToken
        /\ i \in 1..Len(connection) /\ connection \in Seq(Connection) /\ CallbackMatches
        /\ Serve(o, OIdle) /\ UNCHANGED <<flows, codes, newest, unanswered>>
    BY RequestFacts DEF complete_authorization, FlowFits, ORequest, OAuthInv, OAuthTypeOK
  <1>2. connection[i] \in Connection /\ 0 \in Flow0
    BY <1>1, OAuthAssumption DEF Flow0
  <1>3. new \in Connection /\ new.token_set = oreq[o].token /\ new.state = 0
    BY <1>1, <1>2 DEF Connection, OStatus
  <1>4. connection' = [connection EXCEPT ![i] = new]
    BY <1>1, <1>2 DEF complete_authorization
  <1> HIDE DEF i, new
  <1>5. /\ connection' \in Seq(Connection) /\ Len(connection') = Len(connection)
        /\ connection'[i] = new
        /\ \A j \in DOMAIN connection : j # i => connection'[j] = connection[j]
        /\ DOMAIN connection' = DOMAIN connection
    BY <1>1, <1>3, <1>4
  <1>6. CallbackMatches'
    BY <1>1, <1>3, <1>5 DEF CallbackMatches
  <1> QED BY <1>1, <1>3, <1>5, <1>6, StoreKeeps DEF i, Bearing

LEMMA RefreshKeeps ==
    ASSUME OAuthInv, NEW o \in OReqs, refresh_if_needed(o) PROVE OAuthInv'
  <1> DEFINE i == oreq[o].row
             new == [connection[i] EXCEPT !.token_set = oreq[o].token]
  <1>1. /\ oreq[o].pc = "restore" /\ oreq[o] \in ORequest /\ oreq[o].token \in OToken
        /\ i \in 1..Len(connection) /\ connection \in Seq(Connection) /\ CallbackMatches
        /\ Serve(o, OIdle) /\ UNCHANGED <<flows, codes, newest, unanswered>>
    BY RequestFacts DEF refresh_if_needed, FlowFits, ORequest, OAuthInv, OAuthTypeOK
  <1>2. connection[i] \in Connection
    BY <1>1
  <1>3. /\ new \in Connection /\ new.token_set = oreq[o].token /\ new.state = connection[i].state
        /\ new.client = connection[i].client /\ new.code_verifier = connection[i].code_verifier
    BY <1>1, <1>2 DEF Connection
  <1>4. connection' = [connection EXCEPT ![i] = new]
    BY <1>1, <1>2 DEF refresh_if_needed
  <1> HIDE DEF i, new
  <1>5. /\ connection' \in Seq(Connection) /\ Len(connection') = Len(connection)
        /\ connection'[i] = new
        /\ \A j \in DOMAIN connection : j # i => connection'[j] = connection[j]
        /\ DOMAIN connection' = DOMAIN connection
    BY <1>1, <1>3, <1>4
  <1>6. CallbackMatches'
    BY <1>1, <1>3, <1>5 DEF CallbackMatches
  <1> QED BY <1>1, <1>3, <1>5, <1>6, StoreKeeps DEF i, Bearing

-----------------------------------------------------------------------------
(* The theorems *)

LEMMA OAuthNextInv == OAuthInv /\ [OAuthNext]_oauthVars => OAuthInv'
  <1> SUFFICES ASSUME OAuthInv, [OAuthNext]_oauthVars PROVE OAuthInv'
    OBVIOUS
  <1>1. CASE UNCHANGED oauthVars
    BY <1>1 DEF oauthVars, OAuthInv, OAuthTypeOK, Requests, Rows, Unspent, OneRow, Ahead,
                CallbackMatches, StoredTokenIsNewest
  <1>2. CASE OAuthNext
    BY <1>2, ConsentKeeps, RegisterKeeps, ConnectionKeeps, StartKeeps, CompleteBeginKeeps,
       ExchangeKeeps, CompleteKeeps, RefreshBeginKeeps, RotateKeeps, RefreshKeeps, CrashKeeps
       DEF OAuthNext
  <1> QED BY <1>1, <1>2

\* However starts, callbacks, refreshes and crashes overlap, the invariant holds.
THEOREM OAuthInvTheorem == OAuthSpec => []OAuthInv
  BY OAuthInitInv, OAuthNextInv, PTL DEF OAuthSpec

\* The connection rows, the requests and the server keep their types, and an
\* authorized connection has tokens.
THEOREM OAuthTypeTheorem == OAuthSpec => []OAuthTypeOK
  BY OAuthInvTheorem, PTL DEF OAuthInv

\* A connection waiting for a callback holds the client and the verifier of the
\* flow it waits for: start_authorization writes the three together.
THEOREM CallbackTheorem == OAuthSpec => []CallbackMatches
  BY OAuthInvTheorem, PTL DEF OAuthInv

\* The refresh token of a row is the newest of its flow, or the newest one is about
\* to be stored or was lost: a late refresh or callback never puts an old one back.
THEOREM NewestTheorem == OAuthSpec => []StoredTokenIsNewest
  BY OAuthInvTheorem, PTL DEF OAuthInv
=============================================================================
