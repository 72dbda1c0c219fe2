-------------------------------- MODULE Inference --------------------------------
(***************************************************************************)
(* The inference adapter (services/inference_adapter): its runtime between *)
(* start and stop, requests for a whole answer (/infer) and for a stream   *)
(* (/infer/stream), and the thread of each generation, which hands its     *)
(* tokens to the request through a queue.                                  *)
(*                                                                         *)
(* A request for a whole answer keeps its thread of the server's pool; a   *)
(* stream has one from each resumption of its generator to the next yield. *)
(* A token is named by the request it was generated for.  The model and    *)
(* the TextIteratorStreamer are transformers' own: generate puts tokens    *)
(* into the streamer, ends it, and returns; it may raise at any point.     *)
(***************************************************************************)
EXTENDS ThreadPool

CONSTANTS
  Infers, Streams,   \* requests, by route
  Probes,            \* requests to /health
  MaxTokens,         \* max_new_tokens
  MaxErrors          \* bound: exceptions of the library

ASSUME InferenceAssumption ==
  /\ Infers \cap Streams = {} /\ Infers \cap Probes = {} /\ Streams \cap Probes = {}
  /\ MaxTokens \in Nat /\ MaxErrors \in Nat

Generates == Infers \cup Streams
Asked == Generates \cup Probes

VARIABLES
  backend,     \* "stub" or "hf"
  serving,     \* the lifespan is between start and stop
  loaded,      \* _model and _tokenizer are set
  ready,       \* _ready
  lastError,   \* _last_error is set
  clients,     \* the requests that have not come, and need not
  place,       \* [q]: where the handler or the generator of q stands
  queue,       \* [q]: the streamer's queue
  gen,         \* [q]: run_generation in its thread
  made,        \* [q]: the tokens it has put
  chunks,      \* [q]: generated_chunks, the data of the token events as well
  outcome,     \* [q]: the last event or the response
  errors

runtimeVars == <<backend, serving, loaded, ready, lastError>>
requestVars == <<clients, place, chunks, outcome>>
threadVars == <<queue, gen, made>>
inferenceVars == <<runtimeVars, requestVars, threadVars, errors>>

Stop == <<>>   \* the streamer's stop signal
Token == Generates \X (1..MaxTokens)
Place == {"none", "handler", "begin", "reading", "joining", "closing", "closed"}
Outcome == {"none", "done", "error", "broken", "health"}

InferenceInit ==
  /\ backend \in {"stub", "hf"}
  /\ serving = FALSE
  /\ loaded = FALSE /\ ready = FALSE /\ lastError = FALSE
  /\ clients = Asked
  /\ place = [q \in Asked |-> "none"]
  /\ queue = [q \in Generates |-> <<>>]
  /\ gen = [q \in Generates |-> "none"]
  /\ made = [q \in Generates |-> 0]
  /\ chunks = [q \in Generates |-> <<>>]
  /\ outcome = [q \in Asked |-> "none"]
  /\ errors = 0

GoesTo(q, p) == place' = [place EXCEPT ![q] = p]
Error == errors < MaxErrors /\ errors' = errors + 1

-----------------------------------------------------------------------------
(* The lifespan.                                                            *)

\* start; loading may fail, and then the service runs degraded.
Start ==
  /\ ~serving /\ clients # {}
  /\ serving' = TRUE
  /\ \/ /\ ready' = TRUE /\ loaded' = (backend = "hf") /\ lastError' = FALSE
        /\ UNCHANGED errors
     \/ /\ backend = "hf" /\ Error
        /\ ready' = FALSE /\ lastError' = TRUE /\ UNCHANGED loaded
  /\ UNCHANGED <<line, busy, backend, requestVars, threadVars>>

\* The server stops once its requests have ended.  Generations of streams that their
\* clients left may still run.
StopServing ==
  /\ serving /\ \A q \in Asked : place[q] \in {"none", "closed"}
  /\ serving' = FALSE /\ loaded' = FALSE /\ ready' = FALSE
  /\ UNCHANGED <<line, busy, backend, lastError, requestVars, threadVars, errors>>

-----------------------------------------------------------------------------
(* A request.                                                               *)

Comes(q) ==
  /\ serving /\ q \in clients
  /\ clients' = clients \ {q}
  /\ GoesTo(q, IF q \in Infers THEN "begin" ELSE "handler")
  /\ Enqueue(q)
  /\ UNCHANGED <<runtimeVars, threadVars, chunks, outcome, errors>>

\* The generator yields its last event, or the handler returns or raises.
Answers(q, what) ==
  /\ outcome' = [outcome EXCEPT ![q] = what]
  /\ GoesTo(q, IF q \in Streams THEN "closing" ELSE "closed")
  /\ Release(q)

Health(q) ==
  /\ q \in Probes \cap busy
  /\ Answers(q, "health")
  /\ UNCHANGED <<runtimeVars, clients, chunks, threadVars, errors>>

\* The handler of /infer/stream returns a generator that has not begun.
ReturnGenerator(q) ==
  /\ q \in Streams \cap busy /\ place[q] = "handler"
  /\ GoesTo(q, "begin")
  /\ Release(q)
  /\ UNCHANGED <<runtimeVars, clients, chunks, outcome, threadVars, errors>>

Yielded(q) ==
  /\ q \in Streams \ busy /\ place[q] \in {"begin", "reading", "closing"}
  /\ \A i \in DOMAIN line : line[i] # q

\* The event was sent; the response resumes the generator.
Resume(q) ==
  /\ Yielded(q)
  /\ Enqueue(q)
  /\ UNCHANGED <<inferenceVars>>

\* The client goes away.
Disconnect(q) ==
  /\ q \in Streams \ busy /\ place[q] \in {"begin", "reading", "closing"}
  /\ Leave(q)
  /\ GoesTo(q, "closed")
  /\ outcome' = [outcome EXCEPT ![q] = IF @ = "none" THEN "broken" ELSE @]
  /\ UNCHANGED <<runtimeVars, clients, chunks, threadVars, errors>>

Begins(q) == q \in Generates \cap busy /\ place[q] = "begin"

Refuse(q) ==
  /\ Begins(q) /\ backend = "hf" /\ ~ready
  /\ Answers(q, "error")
  /\ UNCHANGED <<runtimeVars, clients, chunks, threadVars, errors>>

\* Formatting or encoding the prompt raises: not an InferenceRuntimeError.
PrepareFails(q) ==
  /\ Begins(q) /\ backend = "hf" /\ ready
  /\ Error
  /\ outcome' = [outcome EXCEPT ![q] = "broken"]
  /\ GoesTo(q, "closed") /\ Release(q)
  /\ UNCHANGED <<runtimeVars, clients, chunks, threadVars>>

\* The queue a generation writes to and its request reads
Streamer_Shared(q) == CHOOSE p \in Generates : TRUE  \* variant for RequestsEnd: one for all
Streamer(q) == q

Generate(q) ==
  /\ Begins(q) /\ backend = "hf" /\ ready
  /\ GoesTo(q, "reading")
  /\ queue' = [queue EXCEPT ![Streamer(q)] = <<>>]
  /\ gen' = [gen EXCEPT ![q] = "running"]
  /\ UNCHANGED <<line, busy, runtimeVars, clients, chunks, outcome, made, errors>>

\* The stub has its chunks at hand and needs no other thread.
GenerateStub(q) ==
  /\ Begins(q) /\ backend = "stub"
  /\ GoesTo(q, "reading")
  /\ queue' = [queue EXCEPT ![q] = [i \in 1..MaxTokens |-> <<q, i>>] \o <<Stop>>]
  /\ gen' = [gen EXCEPT ![q] = "returned"]
  /\ made' = [made EXCEPT ![q] = MaxTokens]
  /\ UNCHANGED <<line, busy, runtimeVars, clients, chunks, outcome, errors>>

\* for chunk in streamer: a stream yields the token.
ReadToken(q) ==
  LET s == queue[Streamer(q)] IN
  /\ q \in busy /\ place[q] = "reading" /\ s # <<>>
  /\ queue' = [queue EXCEPT ![Streamer(q)] = Tail(s)]
  /\ IF Head(s) = Stop
     THEN GoesTo(q, "joining") /\ UNCHANGED <<line, busy, chunks>>
     ELSE /\ chunks' = [chunks EXCEPT ![q] = Append(@, Head(s))]
          /\ IF q \in Streams THEN Release(q) ELSE UNCHANGED <<line, busy>>
          /\ UNCHANGED place
  /\ UNCHANGED <<runtimeVars, clients, outcome, gen, made, errors>>

\* thread.join, and the look at generation_error
Join_NoWait(q) ==  \* variant for DoneIsWhole: the error is looked for before the thread ended
  /\ q \in busy /\ place[q] = "joining"
  /\ Answers(q, IF gen[q] = "failed" THEN "error" ELSE "done")
  /\ UNCHANGED <<runtimeVars, clients, chunks, threadVars, errors>>
Join(q) ==
  /\ q \in busy /\ place[q] = "joining" /\ gen[q] \in {"returned", "failed"}
  /\ Answers(q, IF gen[q] = "failed" THEN "error" ELSE "done")
  /\ UNCHANGED <<runtimeVars, clients, chunks, threadVars, errors>>

\* The generator is exhausted.
Close(q) ==
  /\ q \in Streams \cap busy /\ place[q] = "closing"
  /\ GoesTo(q, "closed")
  /\ Release(q)
  /\ UNCHANGED <<runtimeVars, clients, chunks, outcome, threadVars, errors>>

-----------------------------------------------------------------------------
(* run_generation, with generate of the library.                            *)

PutToken(q) ==
  /\ gen[q] = "running" /\ made[q] < MaxTokens
  /\ made' = [made EXCEPT ![q] = @ + 1]
  /\ queue' = [queue EXCEPT ![Streamer(q)] = Append(@, <<q, made[q] + 1>>)]
  /\ UNCHANGED <<line, busy, runtimeVars, requestVars, gen, errors>>

EndStreamer(q) ==
  /\ gen[q] = "running"
  /\ queue' = [queue EXCEPT ![Streamer(q)] = Append(@, Stop)]
  /\ gen' = [gen EXCEPT ![q] = "ended"]
  /\ UNCHANGED <<line, busy, runtimeVars, requestVars, made, errors>>

GenerateReturns(q) ==
  /\ gen[q] = "ended"
  /\ gen' = [gen EXCEPT ![q] = "returned"]
  /\ UNCHANGED <<line, busy, runtimeVars, requestVars, queue, made, errors>>

GenerateRaises(q) ==
  /\ gen[q] \in {"running", "ended"}
  /\ Error
  /\ gen' = [gen EXCEPT ![q] = "raised"]
  /\ UNCHANGED <<line, busy, runtimeVars, requestVars, queue, made>>

\* generation_error.append, and the thread ends.
NoteError(q) ==
  /\ gen[q] = "raised"
  /\ gen' = [gen EXCEPT ![q] = "failed"]
  /\ UNCHANGED <<line, busy, runtimeVars, requestVars, queue, made, errors>>

-----------------------------------------------------------------------------
Handle(q) ==
  \/ Refuse(q) \/ Generate(q) \/ GenerateStub(q)
  \/ ReadToken(q) \/ Join(q) \/ Close(q) \/ ReturnGenerator(q) \/ Resume(q)

Generation(q) == PutToken(q) \/ EndStreamer(q) \/ GenerateReturns(q) \/ NoteError(q)

TakeThread == Dispatch /\ UNCHANGED inferenceVars

InferenceNext ==
  \/ Start \/ StopServing \/ TakeThread
  \/ \E q \in Asked : Comes(q)
  \/ \E q \in Probes : Health(q)
  \/ \E q \in Generates :
       Handle(q) \/ Generation(q) \/ GenerateRaises(q) \/ PrepareFails(q)
  \/ \E q \in Streams : Disconnect(q)

InferenceSpec ==
  PoolInit /\ InferenceInit /\ [][InferenceNext]_<<poolVars, inferenceVars>>

\* Handlers, generations and responses go on; generate ends at last (it makes at most
\* max_new_tokens); the server gives out its threads.
InferenceFairness ==
  /\ WF_<<poolVars, inferenceVars>>(TakeThread)
  /\ \A q \in Probes : WF_<<poolVars, inferenceVars>>(Health(q))
  /\ \A q \in Generates :
       WF_<<poolVars, inferenceVars>>(Handle(q)) /\ WF_<<poolVars, inferenceVars>>(Generation(q))

-----------------------------------------------------------------------------
(* Properties.                                                              *)

\* Types; a runtime of transformers that is ready has its model (no request loads it
\* again while another one does), and nothing but a probe runs while none serves.
InferenceTypeOK ==
  /\ backend \in {"stub", "hf"} /\ errors \in 0..MaxErrors
  /\ serving \in BOOLEAN /\ lastError \in BOOLEAN
  /\ loaded = (ready /\ backend = "hf") /\ (ready => serving)
  /\ clients \subseteq Asked /\ place \in [Asked -> Place] /\ outcome \in [Asked -> Outcome]
  /\ queue \in [Generates -> Seq(Token \cup {Stop})]
  /\ gen \in [Generates -> {"none", "running", "ended", "returned", "raised", "failed"}]
  /\ made \in [Generates -> 0..MaxTokens] /\ chunks \in [Generates -> Seq(Token)]
  /\ \A q \in busy \cap Asked : serving /\ place[q] \notin {"none", "closed"}

\* "done events carry the final aggregated response" (API_CONTRACT.md:189): who is told
\* done, or is answered with 200, has every token of its own generation, in order,
\* none of another request's, and that generation did not fail.
DoneIsWhole ==
  \A q \in Generates : outcome[q] = "done" =>
    gen[q] = "returned" /\ chunks[q] = [i \in 1..made[q] |-> <<q, i>>]

\* The requests whose generation failed before it ended the streamer: they wait for
\* the next token, and no one will put it.
Hung ==
  {q \in Generates : place[q] = "reading" /\ gen[q] = "failed" /\ queue[Streamer(q)] = <<>>}

\* Every request that comes ends, those behind other streams and probes of /health
\* included, unless its own generation failed, as long as the hung ones leave a thread.
RequestsEnd ==
  [](Cardinality(Hung) < Pool) =>
    \A q \in Asked : place[q] # "none" ~> place[q] = "closed" \/ (q \in Generates /\ q \in Hung)

\* "error events report runtime failures" (API_CONTRACT.md:190): every stream ends.
StreamsEnd == \A q \in Generates : place[q] # "none" ~> place[q] = "closed"

=============================================================================
