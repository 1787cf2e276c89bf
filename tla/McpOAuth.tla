------------------------------- MODULE McpOAuth -------------------------------
(***************************************************************************)
(* The OAuth connection of one MCP hook: mcp_oauth.py starts an            *)
(* authorization, completes it when the browser comes back, and refreshes  *)
(* tokens, for an operator or on the way of a hook call.  Requests run     *)
(* concurrently; each loads the row, awaits the authorization server and   *)
(* writes the columns whose value differs from the one it loaded.          *)
(***************************************************************************)
EXTENDS Integers, Sequences

CONSTANTS
    OReqs,     \* requests being served
    MaxFlows,  \* bound on authorizations started
    MaxTokens  \* bound on refresh tokens issued in one flow

ASSUME OAuthAssumption == MaxFlows \in Nat \ {0} /\ MaxTokens \in Nat \ {0}

VARIABLES
    connection,  \* the mcp_oauth_connection rows of the hook
    flows,       \* how many clients were registered: every start registers one
    codes,       \* flows the user agreed to, whose code is unspent
    newest,      \* newest[f]: the last refresh token issued to client f
    oreq,        \* oreq[o]: the request o is serving
    unanswered   \* history: flows of which a new token did not reach a row

oauthVars == <<connection, flows, codes, newest, oreq, unanswered>>

\* state, code_verifier and client_id of a start are random or registered
\* anew: they are the number of its flow here; 0 is null.
Flows == 1..MaxFlows
Flow0 == 0..MaxFlows
OToken == [flow : Flow0, n : 0..MaxTokens]
NoToken == [flow |-> 0, n |-> 0]
OStatus == {"authorization_pending", "authorized"}
Connection == [status : OStatus, client : Flows, state : Flow0, code_verifier : Flow0,
               token_set : OToken]

\* row: the connection selected, 0 for none; was: its columns then; token:
\* what the server answered.
ORequest == [pc : {"idle", "register", "start", "exchange", "store", "refresh", "restore"},
             row : Nat, was : Connection, token : OToken, flow : Flow0]
Blank == [status |-> "authorization_pending", client |-> 1, state |-> 0,
          code_verifier |-> 0, token_set |-> NoToken]
OIdle == [pc |-> "idle", row |-> 0, was |-> Blank, token |-> NoToken, flow |-> 0]

OAuthTypeOK ==
    /\ connection \in Seq(Connection)
    /\ \A i \in DOMAIN connection :
         connection[i].status = "authorized" => connection[i].token_set # NoToken
    /\ flows \in Flow0 /\ codes \subseteq Flows
    /\ newest \in [Flows -> 0..MaxTokens]
    /\ oreq \in [OReqs -> ORequest]
    /\ unanswered \subseteq Flows

OAuthInit ==
    /\ connection = <<>>
    /\ flows = 0 /\ codes = {} /\ unanswered = {}
    /\ newest = [f \in Flows |-> 0]
    /\ oreq = [o \in OReqs |-> OIdle]

Serve(o, me) == oreq' = [oreq EXCEPT ![o] = me]

-----------------------------------------------------------------------------
(* start_authorization *)

\* Discovery and dynamic registration; when one fails nothing is written.
discover_and_register_oauth_client(o) ==
    /\ oreq[o] = OIdle
    /\ flows < MaxFlows
    /\ flows' = flows + 1
    /\ Serve(o, [OIdle EXCEPT !.pc = "register", !.flow = flows + 1])
    /\ UNCHANGED <<connection, codes, newest, unanswered>>

\* The row updated last; nothing keeps two starts from inserting one each.
_connection_for_hook(o) ==
    /\ oreq[o].pc = "register"
    /\ \/ /\ connection = <<>>
          /\ Serve(o, [oreq[o] EXCEPT !.pc = "start"])
       \/ \E i \in DOMAIN connection :
            Serve(o, [oreq[o] EXCEPT !.pc = "start", !.row = i, !.was = connection[i]])
    /\ UNCHANGED <<connection, flows, codes, newest, unanswered>>

\* Faulty variant: the verifier is made once for a connection.
StartKeepingVerifier(o) ==
    LET me == oreq[o] IN
    /\ me.pc = "start"
    /\ connection' = IF me.row = 0
        THEN Append(connection, [Blank EXCEPT !.client = me.flow, !.state = me.flow,
                                              !.code_verifier = me.flow])
        ELSE [connection EXCEPT ![me.row].client = me.flow, ![me.row].state = me.flow]
    /\ Serve(o, OIdle)
    /\ UNCHANGED <<flows, codes, newest, unanswered>>

\* The token set of an earlier authorization stays.
start_authorization(o) ==
    LET me == oreq[o]
        i == me.row
    IN  /\ me.pc = "start"
        /\ connection' = IF i = 0
            THEN Append(connection, [Blank EXCEPT !.client = me.flow, !.state = me.flow,
                                                  !.code_verifier = me.flow])
            ELSE [connection EXCEPT
                    ![i].status = IF me.was.status = "authorization_pending" THEN @
                                  ELSE "authorization_pending",
                    ![i].client = me.flow,
                    ![i].state = me.flow,
                    ![i].code_verifier = me.flow]
        /\ Serve(o, OIdle)
        /\ UNCHANGED <<flows, codes, newest, unanswered>>

\* The user agrees at the authorization server.
Consent(f) ==
    /\ f <= flows /\ f \notin codes /\ newest[f] = 0
    /\ codes' = codes \cup {f}
    /\ UNCHANGED <<connection, flows, newest, oreq, unanswered>>

-----------------------------------------------------------------------------
(* complete_authorization *)

CompleteBegin(o, f) ==
    /\ oreq[o] = OIdle
    /\ f \in codes
    /\ \E i \in DOMAIN connection :
        /\ connection[i].state = f
        /\ Serve(o, [OIdle EXCEPT !.pc = "exchange", !.row = i, !.was = connection[i], !.flow = f])
    /\ UNCHANGED <<connection, flows, codes, newest, unanswered>>

\* The server answers with the first tokens if code, client and verifier are of
\* one flow and the code is unspent; any other answer ends the request.
ExchangeCode(o) ==
    LET me == oreq[o]
        granted == me.flow \in codes /\ me.was.client = me.flow /\ me.was.code_verifier = me.flow
    IN  /\ me.pc = "exchange"
        /\ IF granted
           THEN /\ codes' = codes \ {me.flow}
                /\ newest' = [newest EXCEPT ![me.flow] = 1]
                /\ Serve(o, [me EXCEPT !.pc = "store", !.token = [flow |-> me.flow, n |-> 1]])
           ELSE /\ Serve(o, OIdle)
                /\ UNCHANGED <<codes, newest>>
        /\ UNCHANGED <<connection, flows, unanswered>>

\* Whatever a start wrote to the row meanwhile is not looked at.
complete_authorization(o) ==
    LET me == oreq[o]
        i == me.row
    IN  /\ me.pc = "store"
        /\ connection' = [connection EXCEPT
                ![i].token_set = me.token,
                ![i].status = IF me.was.status = "authorized" THEN @ ELSE "authorized",
                ![i].state = 0,
                ![i].code_verifier = 0]
        /\ Serve(o, OIdle)
        /\ UNCHANGED <<flows, codes, newest, unanswered>>

-----------------------------------------------------------------------------
(* refresh_connection and oauth_token_for_hook *)

\* By an operator (force), or by a hook call when the connection is authorized
\* and its token runs out within a minute.
RefreshBegin(o, force) ==
    /\ oreq[o] = OIdle
    /\ \E i \in DOMAIN connection :
        /\ force \/ connection[i].status = "authorized"
        /\ connection[i].token_set # NoToken
        /\ Serve(o, [OIdle EXCEPT !.pc = "refresh", !.row = i, !.was = connection[i]])
    /\ UNCHANGED <<connection, flows, codes, newest, unanswered>>

\* The server knows the token and the client it belongs to, and rotates it, as
\* it has to for public clients.  A refused refresh fails the request, and the
\* hook call with it.
RotateToken(o) ==
    LET me == oreq[o]
        held == me.was.token_set
        next == [held EXCEPT !.n = @ + 1]
    IN  /\ me.pc = "refresh"
        /\ \/ /\ held.flow = me.was.client
              /\ held.n = newest[held.flow]
              /\ next.n <= MaxTokens
              /\ newest' = [newest EXCEPT ![held.flow] = next.n]
              /\ Serve(o, [me EXCEPT !.pc = "restore", !.token = next])
           \/ /\ Serve(o, OIdle)
              /\ UNCHANGED newest
        /\ UNCHANGED <<connection, flows, codes, unanswered>>

\* Faulty variant: the old token set is laid over the new one.
RestoreOld(o) ==
    LET me == oreq[o] IN
    /\ me.pc = "restore"
    /\ connection' = [connection EXCEPT ![me.row].token_set = me.was.token_set]
    /\ Serve(o, OIdle)
    /\ UNCHANGED <<flows, codes, newest, unanswered>>

refresh_if_needed(o) ==
    LET me == oreq[o] IN
    /\ me.pc = "restore"
    /\ connection' = [connection EXCEPT ![me.row].token_set = me.token]
    /\ Serve(o, OIdle)
    /\ UNCHANGED <<flows, codes, newest, unanswered>>

\* The process dies, or the server's answer is lost.
OAuthCrash(o) ==
    /\ oreq[o].pc # "idle"
    /\ unanswered' = IF oreq[o].token = NoToken THEN unanswered
                     ELSE unanswered \cup {oreq[o].token.flow}
    /\ Serve(o, OIdle)
    /\ UNCHANGED <<connection, flows, codes, newest>>

OAuthNext ==
    \/ \E f \in Flows : Consent(f)
    \/ \E o \in OReqs :
        \/ discover_and_register_oauth_client(o)
        \/ _connection_for_hook(o)
        \/ start_authorization(o)
        \/ \E f \in Flows : CompleteBegin(o, f)
        \/ ExchangeCode(o)
        \/ complete_authorization(o)
        \/ \E force \in BOOLEAN : RefreshBegin(o, force)
        \/ RotateToken(o)
        \/ refresh_if_needed(o)
        \/ OAuthCrash(o)

OAuthSpec == OAuthInit /\ [][OAuthNext]_oauthVars

-----------------------------------------------------------------------------
(* Properties *)

\* A connection that waits for a callback holds the client and the verifier
\* of the very flow it waits for, however starts and completions overlap, so
\* the server accepts the code that comes with the state.
CallbackMatches ==
    \A i \in DOMAIN connection :
        connection[i].state # 0 =>
            /\ connection[i].client = connection[i].state
            /\ connection[i].code_verifier = connection[i].state

\* The refresh token a connection holds is the one its server accepts: the
\* newest of its flow, unless the request that got a newer one is about to
\* store it, or died before it could.  A rotated token is never put back.
StoredTokenIsNewest ==
    \A i \in DOMAIN connection :
        LET held == connection[i].token_set IN
        held # NoToken /\ held.flow \notin unanswered =>
            \/ held.n = newest[held.flow]
            \/ \E o \in OReqs : /\ oreq[o].pc = "restore"
                                /\ oreq[o].token = [flow |-> held.flow, n |-> newest[held.flow]]
=============================================================================
