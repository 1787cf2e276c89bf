---------------------------- MODULE ModelProviders ----------------------------
(***************************************************************************)
(* Calls of model providers, model_providers.py, as routers/models.py      *)
(* serves them: a completion in one piece, a check of a provider, and a    *)
(* completion streamed as server-sent events, which are translated from    *)
(* the events of the provider as they come in.  What the router does not   *)
(* catch is an answer 500 to a completion, and cuts a stream off.          *)
(***************************************************************************)
EXTENDS Integers, Sequences, FiniteSets

CONSTANT MaxWire  \* bound on the events a provider sends in one stream

ASSUME ProviderAssumption == MaxWire \in Nat

VARIABLES
    prompt,    \* the request being served
    parts,     \* how many pieces of text the provider has sent: text_parts
    concluded, \* yielded_done
    wire,      \* how many events the provider has sent
    reply      \* what the client has received: events, or one result

providerVars == <<prompt, parts, concluded, wire, reply>>

PROVIDERS == {"openai", "anthropic", "google"}

\* text: how many pieces the event carries; status: HTTP status, 0 if none.
Event == [type : {"start", "delta", "usage", "done", "error", "result"},
          text : Nat, status : {0, 200, 400, 404, 500, 502}]
Plain(type, text) == [type |-> type, text |-> text, status |-> 0]
Failure(status) == [type |-> "error", text |-> 0, status |-> status]

ProviderTypeOK ==
    /\ prompt \in [pc : {"idle", "open", "ended", "raised"}, provider : PROVIDERS \cup {"unknown"},
                   streamed : BOOLEAN]
    /\ parts \in Nat /\ wire \in 0..MaxWire /\ concluded \in BOOLEAN
    /\ reply \in Seq(Event)

ProviderInit ==
    /\ prompt = [pc |-> "idle", provider |-> "unknown", streamed |-> FALSE]
    /\ parts = 0 /\ wire = 0 /\ concluded = FALSE
    /\ reply = <<>>

Ask(pc, provider, streamed) ==
    /\ prompt.pc = "idle"
    /\ prompt' = [pc |-> pc, provider |-> provider, streamed |-> streamed]
    /\ UNCHANGED <<parts, wire, concluded>>

End == prompt' = [prompt EXCEPT !.pc = "ended"]

-----------------------------------------------------------------------------
(* complete and check_provider *)

\* No choice of provider, normalize_choice.
UnknownProvider(streamed) ==
    /\ Ask("ended", "unknown", streamed)
    /\ reply' = <<[Failure(404) EXCEPT !.status = IF streamed THEN 0 ELSE @]>>

Result(text) == [type |-> "result", text |-> text, status |-> 200]

\* A dry run needs no key.  A missing key and an answer that is refused or lost
\* have a status of their own; not caught are an answer that is no JSON or of another
\* form, a model name that makes no URL, and what asking a vault for the key raises.
complete(provider) ==
    /\ Ask("ended", provider, FALSE)
    /\ \/ reply' = <<Result(1)>>
       \/ \E status \in {400, 502, 500} : reply' = <<Failure(status)>>

\* A missing key and a failing completion are results of a check, what a completion
\* does not catch is not.
check_provider(provider) ==
    /\ Ask("ended", provider, FALSE)
    /\ \/ \E sample \in {0, 1} : reply' = <<Result(sample)>>
       \/ reply' = <<Failure(500)>>

-----------------------------------------------------------------------------
(* stream_complete *)

\* chunks: the pieces of 32 characters of the text of a dry run.
StreamDryRun(provider) ==
    /\ Ask("ended", provider, TRUE)
    /\ \E chunks \in 1..MaxWire :
        reply' = <<Plain("start", 0)>> \o [i \in 1..chunks |-> Plain("delta", 1)]
                 \o <<Plain("done", chunks)>>

\* No key, or the provider cannot be reached or refuses the request: the stream
\* has begun, and ends with an error event.  Of a refusal the body was to be
\* quoted, but it has not been read, and asking for it raises an error that takes
\* the status of 502 with it.
StreamRefused(provider) ==
    /\ Ask("ended", provider, TRUE)
    /\ \E status \in {400, 502, 0} : reply' = <<Plain("start", 0), Failure(status)>>

\* Neither is caught: what asking a vault for the key raises (an answer that is no
\* JSON, a connection that breaks), and a model of Google that makes no URL.  The
\* stream has begun and is cut off.
StreamCut(provider) ==
    /\ Ask("raised", provider, TRUE)
    /\ reply' = <<Plain("start", 0)>>

stream_complete(provider) ==
    /\ Ask("open", provider, TRUE)
    /\ reply' = <<Plain("start", 0)>>

\* What an event of a provider is translated to, if to anything.
_openai_stream_event == {"delta", "done", "error"}
_anthropic_stream_event == {"delta", "usage", "done", "error"}
_google_stream_event == {"delta", "done"}

Translations ==
    [openai |-> _openai_stream_event, anthropic |-> _anthropic_stream_event,
     google |-> _google_stream_event]

Wire ==
    /\ prompt.pc = "open"
    /\ wire < MaxWire
    /\ wire' = wire + 1
    /\ UNCHANGED prompt

Arrives(type) == Wire /\ type \in Translations[prompt.provider]

\* Faulty variant: text is not kept for the end of the stream.
ForgetDelta ==
    /\ Arrives("delta")
    /\ reply' = Append(reply, Plain("delta", 1))
    /\ UNCHANGED <<parts, concluded>>

\* Text, of whatever provider.  An event of Google that has text is a delta even
\* if it also says that the answer is finished.
StreamDelta ==
    /\ Arrives("delta")
    /\ parts' = parts + 1
    /\ reply' = Append(reply, Plain("delta", 1))
    /\ UNCHANGED concluded

StreamUsage ==
    /\ Arrives("usage")
    /\ reply' = Append(reply, Plain("usage", 0))
    /\ UNCHANGED <<parts, concluded>>

\* What comes after it is passed on as well.
StreamDone ==
    /\ Arrives("done")
    /\ concluded' = TRUE
    /\ reply' = Append(reply, Plain("done", parts))
    /\ UNCHANGED parts

\* The provider reports an error; reading goes on.
StreamError ==
    /\ Arrives("error")
    /\ reply' = Append(reply, Failure(0))
    /\ UNCHANGED <<parts, concluded>>

\* Comments, [DONE], events of other types.
StreamOther ==
    /\ Wire
    /\ UNCHANGED <<parts, concluded, reply>>

\* The provider closes the stream, with or without having said that it is done.
StreamCloses ==
    /\ prompt.pc = "open"
    /\ End
    /\ reply' = IF concluded THEN reply ELSE Append(reply, Plain("done", parts))
    /\ UNCHANGED <<parts, concluded, wire>>

\* The connection breaks or is silent for 60 seconds.
StreamBreaks ==
    /\ prompt.pc = "open"
    /\ End
    /\ reply' = Append(reply, Failure(502))
    /\ UNCHANGED <<parts, concluded, wire>>

\* An event whose translation raises: a part of Google whose text is null, or, of any
\* provider, a number too long to parse.  Nothing catches it, and the stream is cut off.
StreamRaises ==
    /\ prompt.pc = "open"
    /\ prompt' = [prompt EXCEPT !.pc = "raised"]
    /\ UNCHANGED <<parts, concluded, wire, reply>>

ProviderNext ==
    \/ \E streamed \in BOOLEAN : UnknownProvider(streamed)
    \/ \E provider \in PROVIDERS :
        \/ complete(provider)
        \/ check_provider(provider)
        \/ StreamDryRun(provider)
        \/ StreamRefused(provider)
        \/ StreamCut(provider)
        \/ stream_complete(provider)
    \/ StreamDelta
    \/ StreamUsage
    \/ StreamDone
    \/ StreamError
    \/ StreamOther
    \/ StreamCloses
    \/ StreamBreaks
    \/ StreamRaises

ProviderSpec == ProviderInit /\ [][ProviderNext]_providerVars

-----------------------------------------------------------------------------
(* Properties *)

\* Where the text among the first n events is.
Deltas(events, n) == {i \in 1..n : events[i].type = "delta"}

\* However a provider's stream ends and whatever it sends after its own end, the
\* client is told that it is over, by a done or an error event, unless an exception
\* that nothing catches cuts it off (StreamCut, StreamRaises: the client may then hear
\* no more than the start); and every done event, of a stream that is cut off later as
\* well, carries the text of all the deltas before it.
StreamIsWhole ==
    /\ prompt.pc = "ended" =>
         \E i \in DOMAIN reply : reply[i].type \in {"done", "error", "result"}
    /\ \A i \in DOMAIN reply :
         reply[i].type = "done" => reply[i].text = Cardinality(Deltas(reply, i))

-----------------------------------------------------------------------------
(* What makes it inductive *)

\* The pieces kept are those passed on; of the end nothing is told before it
\* is there.
PartsKept ==
    /\ prompt.pc = "idle" => reply = <<>> /\ parts = 0 /\ ~concluded
    /\ prompt.pc = "open" => parts = Cardinality(Deltas(reply, Len(reply)))
    /\ prompt.pc = "open" /\ concluded => \E i \in DOMAIN reply : reply[i].type = "done"
=============================================================================
