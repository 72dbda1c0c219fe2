------------------------------ MODULE ServerProofs ------------------------------
(***************************************************************************)
(* Theorems about the threads of a server: for any number of requests,     *)
(* calls, threads and tokens, a request of the inference adapter that is   *)
(* told done has all the tokens of its own generation and no other's, and  *)
(* a task has a thread, or waits for one, exactly while it has work left.  *)
(***************************************************************************)
EXTENDS MCServerThreads, FiniteSetTheorems, TLAPS

-----------------------------------------------------------------------------
(* The invariant.                                                           *)

Gen == {"none", "running", "ended", "returned", "raised", "failed"}

Types ==
  /\ place \in [Asked -> Place] /\ outcome \in [Asked -> Outcome]
  /\ queue \in [Generates -> Seq(Token \cup {Stop})] /\ gen \in [Generates -> Gen]
  /\ made \in [Generates -> 0..MaxTokens] /\ chunks \in [Generates -> Seq(Token)]
  /\ \A q \in clients \cap Generates : place[q] = "none"

\* s has the tokens of q that follow the first n, up to index k.
Follow(q, n, s, k) == \A i \in 1..k : s[i] = <<q, n + i>>

\* Generation g of q put m tokens: the request, at place p with outcome o, has read
\* them into c, or they are in the streamer's queue s, before the stop signal if there
\* is one.
Flow(q, c, s, m, g, p, o) ==
  /\ Follow(q, 0, c, Len(c))
  /\ \/ /\ g \in {"none", "running", "raised", "failed"} /\ p # "joining"
        /\ Len(c) + Len(s) = m /\ Follow(q, Len(c), s, Len(s))
     \/ /\ g \in {"ended", "returned", "raised", "failed"} /\ p # "joining"
        /\ Len(c) + Len(s) = m + 1 /\ Follow(q, Len(c), s, Len(s) - 1)
        /\ s # <<>> /\ s[Len(s)] = Stop
     \/ /\ g \in {"ended", "returned", "raised", "failed"}
        /\ p \in {"joining", "closing", "closed"}
        /\ Len(c) = m /\ Len(s) = 0
  /\ p \in {"none", "handler", "begin"} => g = "none" /\ s = <<>> /\ m = 0 /\ c = <<>>
  /\ o = "done" => p \in {"closing", "closed"} /\ g = "returned" /\ Len(c) = m

FlowAt(q) == Flow(q, chunks[q], queue[q], made[q], gen[q], place[q], outcome[q])

FlowInv == Types /\ \A q \in Generates : FlowAt(q)

-----------------------------------------------------------------------------
(* The flow of one request.                                                 *)

LEMMA GeneratesAsk == \A q \in Generates : q \in Asked /\ q \notin Probes
BY InferenceAssumption DEF Generates, Asked

LEMMA TokenIsNotStop == \A t \in Token : t # Stop
BY DEF Token, Stop

LEMMA HeadIn ==
  ASSUME NEW S, NEW s \in Seq(S), s # <<>>
  PROVE  Head(s) \in S
OBVIOUS

\* Putting a token
LEMMA FlowPut ==
  ASSUME NEW q \in Generates, NEW c \in Seq(Token), NEW s \in Seq(Token \cup {Stop}),
         NEW m \in Nat, NEW p, NEW o,
         m < MaxTokens, Flow(q, c, s, m, "running", p, o)
  PROVE  /\ <<q, m + 1>> \in Token
         /\ Flow(q, c, Append(s, <<q, m + 1>>), m + 1, "running", p, o)
<1> DEFINE t == <<q, m + 1>>
           u == Append(s, t)
<1>1. Len(c) + Len(s) = m /\ Follow(q, Len(c), s, Len(s)) /\ p # "joining"
  BY DEF Flow
<1>2. t \in Token
  BY InferenceAssumption DEF Token
<1>3. /\ u \in Seq(Token \cup {Stop}) /\ Len(u) = Len(s) + 1 /\ u[Len(s) + 1] = t
      /\ \A i \in 1..Len(s) : u[i] = s[i]
  BY <1>2
<1>4. t = <<q, Len(c) + (Len(s) + 1)>>
  BY <1>1
<1>5. Follow(q, Len(c), u, Len(u))
  <2> SUFFICES ASSUME NEW i \in 1..Len(s) + 1  PROVE u[i] = <<q, Len(c) + i>>
    BY <1>3 DEF Follow
  <2>1. CASE i \in 1..Len(s)
    BY <1>1, <1>3, <2>1 DEF Follow
  <2>2. CASE i = Len(s) + 1
    BY <1>3, <1>4, <2>2
  <2> QED  BY <2>1, <2>2
<1>6. u # <<>> /\ Len(c) + Len(u) = m + 1
  BY <1>1, <1>3
<1> QED  BY <1>1, <1>2, <1>5, <1>6 DEF Flow

\* Ending the streamer
LEMMA FlowStop ==
  ASSUME NEW q \in Generates, NEW c \in Seq(Token), NEW s \in Seq(Token \cup {Stop}),
         NEW m \in Nat, NEW p, NEW o,
         Flow(q, c, s, m, "running", p, o)
  PROVE  Flow(q, c, Append(s, Stop), m, "ended", p, o)
<1> DEFINE u == Append(s, Stop)
<1>1. Len(c) + Len(s) = m /\ Follow(q, Len(c), s, Len(s)) /\ p # "joining"
  BY DEF Flow
<1>2. /\ u \in Seq(Token \cup {Stop}) /\ Len(u) = Len(s) + 1 /\ u[Len(s) + 1] = Stop
      /\ \A i \in 1..Len(s) : u[i] = s[i]
  OBVIOUS
<1>3. Follow(q, Len(c), u, Len(u) - 1) /\ u # <<>>
  BY <1>1, <1>2 DEF Follow
<1> QED  BY <1>1, <1>2, <1>3 DEF Flow

\* Reading a token
LEMMA FlowRead ==
  ASSUME NEW q \in Generates, NEW c \in Seq(Token), NEW s \in Seq(Token \cup {Stop}),
         NEW m \in Nat, NEW g, NEW o,
         Flow(q, c, s, m, g, "reading", o), s # <<>>, Head(s) # Stop
  PROVE  Flow(q, Append(c, Head(s)), Tail(s), m, g, "reading", o)
<1> DEFINE d == Append(c, Head(s))
           t == Tail(s)
<1>1. /\ Len(s) \in Nat \ {0} /\ Head(s) = s[1] /\ Len(t) = Len(s) - 1
      /\ \A i \in 1..Len(t) : t[i] = s[i + 1]
  OBVIOUS
<1>2. /\ Len(d) = Len(c) + 1 /\ d[Len(c) + 1] = Head(s) /\ Len(c) \in Nat
      /\ \A i \in 1..Len(c) : d[i] = c[i]
  OBVIOUS
<1>3. CASE /\ g \in {"none", "running", "raised", "failed"}
           /\ Len(c) + Len(s) = m /\ Follow(q, Len(c), s, Len(s))
  <2>1. Follow(q, 0, d, Len(d)) /\ Follow(q, Len(d), t, Len(t)) /\ Len(d) + Len(t) = m
    BY <1>1, <1>2, <1>3 DEF Flow, Follow
  <2> QED  BY <1>3, <2>1 DEF Flow
<1>4. CASE /\ g \in {"ended", "returned", "raised", "failed"}
           /\ Len(c) + Len(s) = m + 1 /\ Follow(q, Len(c), s, Len(s) - 1)
           /\ s[Len(s)] = Stop
  <2>1. Len(s) # 1
    BY <1>1, <1>4
  <2>2. Head(s) = <<q, Len(c) + 1>>
    BY <1>1, <1>4, <2>1 DEF Follow
  <2>3. Follow(q, 0, d, Len(d))
    BY <1>2, <2>2 DEF Flow, Follow
  <2>4. Follow(q, Len(d), t, Len(t) - 1) /\ Len(d) + Len(t) = m + 1
    BY <1>1, <1>2, <1>4, <2>1 DEF Follow
  <2>5. Len(t) \in Nat \ {0} /\ Len(t) + 1 = Len(s)
    BY <1>1, <2>1
  <2>6. t # <<>> /\ t[Len(t)] = Stop
    <3>1. t # <<>>
      <4> HIDE DEF t
      <4> QED  BY <2>5
    <3>2. t[Len(t)] = s[Len(t) + 1]
      <4> HIDE DEF t
      <4> QED  BY <1>1, <2>5
    <3> QED  BY <1>4, <2>5, <3>1, <3>2
  <2> QED  BY <1>4, <2>3, <2>4, <2>6 DEF Flow
<1> QED  BY <1>3, <1>4 DEF Flow

\* Reading the stop signal
LEMMA FlowEnds ==
  ASSUME NEW q \in Generates, NEW c \in Seq(Token), NEW s \in Seq(Token \cup {Stop}),
         NEW m \in Nat, NEW g, NEW o,
         Flow(q, c, s, m, g, "reading", o), s # <<>>, Head(s) = Stop
  PROVE  Flow(q, c, Tail(s), m, g, "joining", o)
<1>1. /\ Len(s) \in Nat \ {0} /\ Head(s) = s[1] /\ Len(Tail(s)) = Len(s) - 1
      /\ Len(c) \in Nat
  OBVIOUS
<1>2. \A n \in Nat : <<q, n>> # Stop
  BY DEF Stop
<1>3. \A k \in Nat : Follow(q, Len(c), s, k) => k = 0
  <2> SUFFICES ASSUME NEW k \in Nat, Follow(q, Len(c), s, k), k # 0  PROVE FALSE
    OBVIOUS
  <2>1. s[1] = <<q, Len(c) + 1>>
    BY DEF Follow
  <2>2. Len(c) + 1 \in Nat
    BY <1>1
  <2>3. s[1] # Stop
    BY <1>2, <2>1, <2>2
  <2> QED  BY <1>1, <2>3
<1>4. /\ g \in {"ended", "returned", "raised", "failed"}
      /\ Len(c) + Len(s) = m + 1 /\ Follow(q, Len(c), s, Len(s) - 1)
  BY <1>1, <1>3 DEF Flow
<1>5. Len(s) = 1
  BY <1>1, <1>3, <1>4
<1>6. Len(c) = m
  BY <1>1, <1>4, <1>5
<1>7. Len(Tail(s)) = 0
  BY <1>1, <1>5
<1> QED  BY <1>4, <1>6, <1>7 DEF Flow

\* The stub's stream
LEMMA FlowStub ==
  ASSUME NEW q \in Generates, NEW o, o # "done"
  PROVE  LET s == [i \in 1..MaxTokens |-> <<q, i>>] \o <<Stop>> IN
           /\ s \in Seq(Token \cup {Stop})
           /\ Flow(q, <<>>, s, MaxTokens, "returned", "reading", o)
<1> DEFINE a == [i \in 1..MaxTokens |-> <<q, i>>]
           s == a \o <<Stop>>
<1>1. MaxTokens \in Nat
  BY InferenceAssumption
<1>2. a \in Seq(Token \cup {Stop}) /\ Len(a) = MaxTokens
  BY <1>1 DEF Token
<1>3. /\ s \in Seq(Token \cup {Stop}) /\ Len(s) = MaxTokens + 1 /\ s[MaxTokens + 1] = Stop
      /\ \A i \in 1..MaxTokens : s[i] = a[i]
  BY <1>1, <1>2
<1>4. \A i \in 1..MaxTokens : s[i] = <<q, 0 + i>>
  BY <1>1, <1>3
<1>5. s # <<>>
  BY <1>1, <1>3
<1> QED  BY <1>1, <1>3, <1>4, <1>5 DEF Flow, Follow

-----------------------------------------------------------------------------
(* The initial states and the steps.                                        *)

LEMMA FlowInit == InferenceInit => FlowInv
<1> SUFFICES ASSUME InferenceInit  PROVE FlowInv
  OBVIOUS
<1>1. Types
  BY InferenceAssumption DEF InferenceInit, Types, Place, Outcome, Gen
<1>2. ASSUME NEW q \in Generates  PROVE FlowAt(q)
  BY GeneratesAsk DEF InferenceInit, FlowAt, Flow, Follow
<1> QED  BY <1>1, <1>2 DEF FlowInv

LEMMA FlowStep == FlowInv /\ [InferenceNext]_<<poolVars, inferenceVars>> => FlowInv'
<1> SUFFICES ASSUME FlowInv, [InferenceNext]_<<poolVars, inferenceVars>>  PROVE FlowInv'
  OBVIOUS
<1> USE DEF FlowInv, inferenceVars, runtimeVars, requestVars, threadVars, GoesTo
<1>0. UNCHANGED <<clients, place, outcome, queue, gen, made, chunks>> => FlowInv'
  BY DEF Types, FlowAt
<1>1. CASE Start \/ StopServing \/ TakeThread
  BY <1>0, <1>1 DEF Start, StopServing, TakeThread
<1>2. ASSUME NEW q \in Asked, Comes(q)  PROVE FlowInv'
  <2>1. Types'
    BY <1>2, GeneratesAsk DEF Comes, Types, Place, Outcome, Gen
  <2>2. ASSUME NEW p \in Generates  PROVE FlowAt(p)'
    <3>1. CASE p = q
      BY <1>2, <2>2, <3>1, GeneratesAsk DEF Comes, Types, FlowAt, Flow
    <3>2. CASE p # q
      BY <1>2, <2>2, <3>2, GeneratesAsk DEF Comes, Types, FlowAt
    <3> QED  BY <3>1, <3>2
  <2> QED  BY <2>1, <2>2
<1>3. ASSUME NEW q \in Probes, Health(q)  PROVE FlowInv'
  <2>1. Types'
    BY <1>3, GeneratesAsk DEF Health, Answers, Types, Place, Outcome, Gen
  <2>2. ASSUME NEW p \in Generates  PROVE FlowAt(p)'
    BY <1>3, <2>2, GeneratesAsk DEF Health, Answers, Types, FlowAt, Flow
  <2> QED  BY <2>1, <2>2
<1>4. ASSUME NEW q \in Generates, Refuse(q)  PROVE FlowInv'
  <2>1. Types'
    BY <1>4, GeneratesAsk DEF Refuse, Begins, Answers, Types, Place, Outcome, Gen
  <2>2. ASSUME NEW p \in Generates  PROVE FlowAt(p)'
    <3>1. CASE p = q
      BY <1>4, <2>2, <3>1, GeneratesAsk DEF Refuse, Begins, Answers, Types, FlowAt, Flow
    <3>2. CASE p # q
      BY <1>4, <2>2, <3>2, GeneratesAsk DEF Refuse, Begins, Answers, Types, FlowAt
    <3> QED  BY <3>1, <3>2
  <2> QED  BY <2>1, <2>2
<1>5. ASSUME NEW q \in Generates, Generate(q)  PROVE FlowInv'
  <2>1. Types'
    BY <1>5, GeneratesAsk DEF Generate, Begins, Streamer, Types, Place, Outcome, Gen
  <2>2. ASSUME NEW p \in Generates  PROVE FlowAt(p)'
    <3>1. CASE p = q
      BY <1>5, <2>2, <3>1, GeneratesAsk DEF Generate, Begins, Streamer, Types, FlowAt, Flow,
         Follow
    <3>2. CASE p # q
      BY <1>5, <2>2, <3>2, GeneratesAsk DEF Generate, Begins, Streamer, Types, FlowAt
    <3> QED  BY <3>1, <3>2
  <2> QED  BY <2>1, <2>2
<1>6. ASSUME NEW q \in Generates, GenerateStub(q)  PROVE FlowInv'
  <2>0. /\ chunks[q] = <<>> /\ outcome[q] # "done"
        /\ queue'[q] \in Seq(Token \cup {Stop})
        /\ Flow(q, <<>>, queue'[q], MaxTokens, "returned", "reading", outcome[q])
    BY <1>6, FlowStub DEF GenerateStub, Begins, Types, FlowAt, Flow
  <2>1. Types'
    BY <1>6, <2>0, GeneratesAsk, InferenceAssumption DEF GenerateStub, Begins, Types, Place,
       Outcome, Gen
  <2>2. ASSUME NEW p \in Generates  PROVE FlowAt(p)'
    <3>1. CASE p = q
      BY <1>6, <2>0, <2>2, <3>1, GeneratesAsk DEF GenerateStub, Begins, Types, FlowAt
    <3>2. CASE p # q
      BY <1>6, <2>2, <3>2, GeneratesAsk DEF GenerateStub, Begins, Types, FlowAt
    <3> QED  BY <3>1, <3>2
  <2> QED  BY <2>1, <2>2
<1>7. ASSUME NEW q \in Generates, ReadToken(q)  PROVE FlowInv'
  <2>0. /\ chunks'[q] \in Seq(Token) /\ queue'[q] \in Seq(Token \cup {Stop})
        /\ Flow(q, chunks'[q], queue'[q], made[q], gen[q], place'[q], outcome[q])
    <3>1. /\ chunks[q] \in Seq(Token) /\ queue[q] \in Seq(Token \cup {Stop}) /\ made[q] \in Nat
          /\ Flow(q, chunks[q], queue[q], made[q], gen[q], "reading", outcome[q])
          /\ queue[q] # <<>> /\ queue'[q] = Tail(queue[q])
      BY <1>7, InferenceAssumption DEF ReadToken, Streamer, Types, FlowAt
    <3>2. CASE Head(queue[q]) = Stop
      <4>1. chunks'[q] = chunks[q] /\ place'[q] = "joining"
        BY <1>7, <3>2, GeneratesAsk DEF ReadToken, Streamer, Types
      <4> QED  BY <3>1, <3>2, <4>1, FlowEnds
    <3>3. CASE Head(queue[q]) # Stop
      <4>1. chunks'[q] = Append(chunks[q], Head(queue[q])) /\ place'[q] = "reading"
        BY <1>7, <3>3 DEF ReadToken, Streamer, Types
      <4>2. Head(queue[q]) \in Token
        <5>1. Head(queue[q]) \in Token \cup {Stop}
          BY <3>1, HeadIn
        <5> QED  BY <3>3, <5>1
      <4>3. chunks'[q] \in Seq(Token)
        BY <3>1, <4>1, <4>2
      <4>4. queue'[q] \in Seq(Token \cup {Stop})
        BY <3>1
      <4>5. Flow(q, chunks'[q], queue'[q], made[q], gen[q], place'[q], outcome[q])
        BY <3>1, <3>3, <4>1, FlowRead
      <4> QED  BY <4>3, <4>4, <4>5
    <3> QED  BY <3>2, <3>3
  <2>1. Types'
    BY <1>7, <2>0, GeneratesAsk DEF ReadToken, Streamer, Types, Place, Outcome, Gen
  <2>2. ASSUME NEW p \in Generates  PROVE FlowAt(p)'
    <3>1. CASE p = q
      BY <1>7, <2>0, <2>2, <3>1, GeneratesAsk DEF ReadToken, Streamer, Types, FlowAt
    <3>2. CASE p # q
      BY <1>7, <2>2, <3>2, GeneratesAsk DEF ReadToken, Streamer, Types, FlowAt
    <3> QED  BY <3>1, <3>2
  <2> QED  BY <2>1, <2>2
<1>8. ASSUME NEW q \in Generates, Join(q)  PROVE FlowInv'
  <2>1. Types'
    BY <1>8, GeneratesAsk DEF Join, Answers, Types, Place, Outcome, Gen
  <2>2. ASSUME NEW p \in Generates  PROVE FlowAt(p)'
    <3>1. CASE p = q
      BY <1>8, <2>2, <3>1, GeneratesAsk DEF Join, Answers, Types, FlowAt, Flow
    <3>2. CASE p # q
      BY <1>8, <2>2, <3>2, GeneratesAsk DEF Join, Answers, Types, FlowAt
    <3> QED  BY <3>1, <3>2
  <2> QED  BY <2>1, <2>2
<1>9. ASSUME NEW q \in Generates, Close(q)  PROVE FlowInv'
  <2>1. Types'
    BY <1>9, GeneratesAsk DEF Close, Types, Place, Outcome, Gen
  <2>2. ASSUME NEW p \in Generates  PROVE FlowAt(p)'
    <3>1. CASE p = q
      BY <1>9, <2>2, <3>1, GeneratesAsk DEF Close, Types, FlowAt, Flow
    <3>2. CASE p # q
      BY <1>9, <2>2, <3>2, GeneratesAsk DEF Close, Types, FlowAt
    <3> QED  BY <3>1, <3>2
  <2> QED  BY <2>1, <2>2
<1>10. ASSUME NEW q \in Generates, ReturnGenerator(q)  PROVE FlowInv'
  <2>1. Types'
    BY <1>10, GeneratesAsk DEF ReturnGenerator, Types, Place, Outcome, Gen
  <2>2. ASSUME NEW p \in Generates  PROVE FlowAt(p)'
    <3>1. CASE p = q
      BY <1>10, <2>2, <3>1, GeneratesAsk DEF ReturnGenerator, Types, FlowAt, Flow
    <3>2. CASE p # q
      BY <1>10, <2>2, <3>2, GeneratesAsk DEF ReturnGenerator, Types, FlowAt
    <3> QED  BY <3>1, <3>2
  <2> QED  BY <2>1, <2>2
<1>11. ASSUME NEW q \in Generates, Resume(q)  PROVE FlowInv'
  BY <1>0, <1>11 DEF Resume
<1>12. ASSUME NEW q \in Generates, PutToken(q)  PROVE FlowInv'
  <2>0. /\ <<q, made[q] + 1>> \in Token /\ made[q] + 1 \in 0..MaxTokens
        /\ Flow(q, chunks[q], Append(queue[q], <<q, made[q] + 1>>), made[q] + 1, gen[q],
                place[q], outcome[q])
    <3>1. /\ chunks[q] \in Seq(Token) /\ queue[q] \in Seq(Token \cup {Stop})
          /\ gen[q] = "running"
          /\ made[q] \in Nat /\ made[q] < MaxTokens /\ made[q] + 1 \in 0..MaxTokens
          /\ Flow(q, chunks[q], queue[q], made[q], "running", place[q], outcome[q])
      BY <1>12, InferenceAssumption DEF PutToken, Types, FlowAt
    <3> QED  BY <3>1, FlowPut
  <2>1. Types'
    BY <1>12, <2>0, GeneratesAsk DEF PutToken, Streamer, Types, Place, Outcome, Gen
  <2>2. ASSUME NEW p \in Generates  PROVE FlowAt(p)'
    <3>1. CASE p = q
      BY <1>12, <2>0, <2>2, <3>1, GeneratesAsk DEF PutToken, Streamer, Types, FlowAt
    <3>2. CASE p # q
      BY <1>12, <2>2, <3>2, GeneratesAsk DEF PutToken, Streamer, Types, FlowAt
    <3> QED  BY <3>1, <3>2
  <2> QED  BY <2>1, <2>2
<1>13. ASSUME NEW q \in Generates, EndStreamer(q)  PROVE FlowInv'
  <2>0. Flow(q, chunks[q], Append(queue[q], Stop), made[q], "ended", place[q], outcome[q])
    <3>1. /\ chunks[q] \in Seq(Token) /\ queue[q] \in Seq(Token \cup {Stop}) /\ made[q] \in Nat
          /\ Flow(q, chunks[q], queue[q], made[q], "running", place[q], outcome[q])
      BY <1>13, InferenceAssumption DEF EndStreamer, Types, FlowAt
    <3> QED  BY <3>1, FlowStop
  <2>1. Types'
    BY <1>13, <2>0, GeneratesAsk DEF EndStreamer, Streamer, Types, Place, Outcome, Gen
  <2>2. ASSUME NEW p \in Generates  PROVE FlowAt(p)'
    <3>1. CASE p = q
      BY <1>13, <2>0, <2>2, <3>1, GeneratesAsk DEF EndStreamer, Streamer, Types, FlowAt
    <3>2. CASE p # q
      BY <1>13, <2>2, <3>2, GeneratesAsk DEF EndStreamer, Streamer, Types, FlowAt
    <3> QED  BY <3>1, <3>2
  <2> QED  BY <2>1, <2>2
<1>14. ASSUME NEW q \in Generates, GenerateReturns(q)  PROVE FlowInv'
  <2>1. Types'
    BY <1>14, GeneratesAsk DEF GenerateReturns, Types, Place, Outcome, Gen
  <2>2. ASSUME NEW p \in Generates  PROVE FlowAt(p)'
    <3>1. CASE p = q
      BY <1>14, <2>2, <3>1, GeneratesAsk DEF GenerateReturns, Types, FlowAt, Flow
    <3>2. CASE p # q
      BY <1>14, <2>2, <3>2, GeneratesAsk DEF GenerateReturns, Types, FlowAt
    <3> QED  BY <3>1, <3>2
  <2> QED  BY <2>1, <2>2
<1>15. ASSUME NEW q \in Generates, NoteError(q)  PROVE FlowInv'
  <2>1. Types'
    BY <1>15, GeneratesAsk DEF NoteError, Types, Place, Outcome, Gen
  <2>2. ASSUME NEW p \in Generates  PROVE FlowAt(p)'
    <3>1. CASE p = q
      BY <1>15, <2>2, <3>1, GeneratesAsk DEF NoteError, Types, FlowAt, Flow
    <3>2. CASE p # q
      BY <1>15, <2>2, <3>2, GeneratesAsk DEF NoteError, Types, FlowAt
    <3> QED  BY <3>1, <3>2
  <2> QED  BY <2>1, <2>2
<1>16. ASSUME NEW q \in Generates, GenerateRaises(q)  PROVE FlowInv'
  <2>1. Types'
    BY <1>16, GeneratesAsk DEF GenerateRaises, Types, Place, Outcome, Gen
  <2>2. ASSUME NEW p \in Generates  PROVE FlowAt(p)'
    <3>1. CASE p = q
      BY <1>16, <2>2, <3>1, GeneratesAsk DEF GenerateRaises, Types, FlowAt, Flow
    <3>2. CASE p # q
      BY <1>16, <2>2, <3>2, GeneratesAsk DEF GenerateRaises, Types, FlowAt
    <3> QED  BY <3>1, <3>2
  <2> QED  BY <2>1, <2>2
<1>17. ASSUME NEW q \in Generates, PrepareFails(q)  PROVE FlowInv'
  <2>1. Types'
    BY <1>17, GeneratesAsk DEF PrepareFails, Begins, Types, Place, Outcome, Gen
  <2>2. ASSUME NEW p \in Generates  PROVE FlowAt(p)'
    <3>1. CASE p = q
      BY <1>17, <2>2, <3>1, GeneratesAsk DEF PrepareFails, Begins, Types, FlowAt, Flow
    <3>2. CASE p # q
      BY <1>17, <2>2, <3>2, GeneratesAsk DEF PrepareFails, Begins, Types, FlowAt
    <3> QED  BY <3>1, <3>2
  <2> QED  BY <2>1, <2>2
<1>18. ASSUME NEW q \in Streams, Disconnect(q)  PROVE FlowInv'
  <2>1. Types'
    BY <1>18, GeneratesAsk, InferenceAssumption DEF Disconnect, Generates, Types, Place,
       Outcome, Gen
  <2>2. ASSUME NEW p \in Generates  PROVE FlowAt(p)'
    <3>1. CASE p = q
      BY <1>18, <2>2, <3>1, GeneratesAsk, InferenceAssumption DEF Disconnect, Types, FlowAt,
         Flow
    <3>2. CASE p # q
      BY <1>18, <2>2, <3>2, GeneratesAsk DEF Disconnect, Types, FlowAt
    <3> QED  BY <3>1, <3>2
  <2> QED  BY <2>1, <2>2
<1>19. CASE UNCHANGED <<poolVars, inferenceVars>>
  BY <1>0, <1>19
<1> QED
  BY <1>1, <1>2, <1>3, <1>4, <1>5, <1>6, <1>7, <1>8, <1>9, <1>10, <1>11, <1>12, <1>13,
     <1>14, <1>15, <1>16, <1>17, <1>18, <1>19 DEF InferenceNext, Handle, Generation

LEMMA FlowIsWhole == FlowInv => DoneIsWhole
<1> SUFFICES ASSUME FlowInv, NEW q \in Generates, outcome[q] = "done"
             PROVE  gen[q] = "returned" /\ chunks[q] = [i \in 1..made[q] |-> <<q, i>>]
  BY DEF DoneIsWhole
<1>1. gen[q] = "returned" /\ Len(chunks[q]) = made[q] /\ Follow(q, 0, chunks[q], made[q])
  BY DEF FlowInv, FlowAt, Flow
<1>2. chunks[q] \in Seq(Token) /\ made[q] \in Nat
  BY DEF FlowInv, Types
<1>3. chunks[q] = [i \in 1..made[q] |-> chunks[q][i]]
  BY <1>1, <1>2
<1>4. \A i \in 1..made[q] : chunks[q][i] = <<q, i>>
  BY <1>1, <1>2 DEF Follow
<1> QED  BY <1>1, <1>3, <1>4

\* "done events carry the final aggregated response" (API_CONTRACT.md:189): a request
\* that is told done has every token of its own generation in order, whatever other
\* requests, failures and disconnections there are.
THEOREM WholeAnswers == InferenceSpec => []DoneIsWhole
BY FlowInit, FlowStep, FlowIsWhole, PTL DEF InferenceSpec

-----------------------------------------------------------------------------
(* The threads.                                                             *)

Lined == {line[i] : i \in DOMAIN line}
Tasks == busy \cup Lined

\* The threads are enough; a task is in line once, and not while it has a thread.
PoolInv(T) ==
  /\ line \in Seq(T) /\ busy \subseteq T /\ IsFiniteSet(busy)
  /\ Cardinality(busy) \in 0..Pool
  /\ \A i \in DOMAIN line : line[i] \notin busy
  /\ \A i, j \in DOMAIN line : line[i] = line[j] => i = j

LEMMA PoolStarts == ASSUME NEW T, PoolInit PROVE PoolInv(T) /\ Tasks = {}
<1>1. line = <<>> /\ busy = {} /\ Lined = {}
  BY DEF PoolInit, Lined
<1> QED  BY <1>1, FS_EmptySet, PoolAssumption DEF PoolInv, Tasks

LEMMA EnqueueIs ==
  ASSUME NEW T, PoolInv(T), NEW t \in T, t \notin Tasks, Enqueue(t)
  PROVE  PoolInv(T)' /\ Tasks' = Tasks \cup {t} /\ busy' = busy
<1>1. /\ line' = Append(line, t) /\ busy' = busy /\ line \in Seq(T)
      /\ t \notin busy /\ \A i \in DOMAIN line : line[i] # t
  BY DEF Enqueue, PoolInv, Tasks, Lined
<1>2. /\ line' \in Seq(T) /\ DOMAIN line' = 1..(Len(line) + 1) /\ Len(line) \in Nat
      /\ line'[Len(line) + 1] = t
      /\ \A i \in DOMAIN line : line'[i] = line[i] /\ i \in 1..Len(line)
      /\ \A i \in 1..Len(line) : i \in DOMAIN line
  BY <1>1
<1>3. \A i \in DOMAIN line' : i \in DOMAIN line \/ i = Len(line) + 1
  BY <1>2
<1>4. Lined' = Lined \cup {t}
  BY <1>2, <1>3 DEF Lined
<1>5. \A i \in DOMAIN line' : line'[i] \notin busy'
  BY <1>1, <1>2, <1>3 DEF PoolInv
<1>6. \A i, j \in DOMAIN line' : line'[i] = line'[j] => i = j
  BY <1>1, <1>2, <1>3 DEF PoolInv
<1> QED  BY <1>1, <1>2, <1>4, <1>5, <1>6 DEF PoolInv, Tasks

LEMMA ReleaseIs ==
  ASSUME NEW T, PoolInv(T), NEW t \in busy, Release(t)
  PROVE  PoolInv(T)' /\ Tasks' = Tasks \ {t} /\ busy' = busy \ {t}
<1>1. line' = line /\ busy' = busy \ {t} /\ t \notin Lined
  BY DEF Release, PoolInv, Lined
<1>2. /\ IsFiniteSet(busy \ {t}) /\ Cardinality(busy \ {t}) = Cardinality(busy) - 1
      /\ Cardinality(busy \ {t}) \in Nat
  BY FS_RemoveElement, FS_CardinalityType DEF PoolInv
<1>3. Cardinality(busy \ {t}) \in 0..Pool
  BY <1>2, PoolAssumption DEF PoolInv
<1> QED  BY <1>1, <1>2, <1>3 DEF PoolInv, Tasks, Lined

LEMMA DispatchIs ==
  ASSUME NEW T, PoolInv(T), Dispatch
  PROVE  /\ PoolInv(T)' /\ Tasks' = Tasks
         /\ busy' \subseteq busy \cup Lined
<1>1. /\ line \in Seq(T) /\ line # <<>> /\ line' = Tail(line)
      /\ busy' = busy \cup {Head(line)} /\ Cardinality(busy) < Pool
  BY DEF Dispatch, PoolInv
<1>2. /\ Len(line) \in Nat /\ Len(line) >= 1 /\ DOMAIN line = 1..Len(line)
      /\ line' \in Seq(T) /\ Head(line) = line[1] /\ DOMAIN line' = 1..(Len(line) - 1)
      /\ \A i \in 1..(Len(line) - 1) : line'[i] = line[i + 1]
  BY <1>1
<1>3. 1 \in DOMAIN line /\ line[1] \notin busy /\ line[1] \in T /\ line[1] \in Lined
  BY <1>2 DEF PoolInv, Lined
<1>4. \A i \in DOMAIN line' : i + 1 \in DOMAIN line /\ i + 1 # 1 /\ line'[i] = line[i + 1]
  BY <1>2
<1>5. \A i \in DOMAIN line : i = 1 \/ (i - 1 \in DOMAIN line' /\ line'[i - 1] = line[i])
  BY <1>2
<1>6. Lined' \cup {line[1]} = Lined
  BY <1>3, <1>4, <1>5 DEF Lined
<1>7. /\ IsFiniteSet(busy \cup {line[1]}) /\ Cardinality(busy \cup {line[1]}) = Cardinality(busy) + 1
      /\ Cardinality(busy) \in Nat
  BY <1>3, FS_AddElement, FS_CardinalityType DEF PoolInv
<1>8. Cardinality(busy') \in 0..Pool /\ IsFiniteSet(busy')
  BY <1>1, <1>2, <1>7, PoolAssumption
<1>9. \A i \in DOMAIN line' : line'[i] \notin busy'
  BY <1>1, <1>2, <1>3, <1>4 DEF PoolInv
<1>10. \A i, j \in DOMAIN line' : line'[i] = line'[j] => i = j
  <2> TAKE i, j \in DOMAIN line'
  <2>1. line'[i] = line'[j] => i + 1 = j + 1
    BY <1>4 DEF PoolInv
  <2> QED  BY <1>2, <2>1
<1>11. busy' \subseteq T
  BY <1>1, <1>2, <1>3 DEF PoolInv
<1>12. Tasks' = Tasks
  BY <1>1, <1>2, <1>6 DEF Tasks
<1> QED  BY <1>1, <1>2, <1>3, <1>8, <1>9, <1>10, <1>11, <1>12 DEF PoolInv

LEMMA LeaveIs ==
  ASSUME NEW T, PoolInv(T), NEW t, t \notin busy, Leave(t)
  PROVE  PoolInv(T)' /\ Tasks' = Tasks \ {t} /\ busy' = busy
<1> DEFINE at == {i \in DOMAIN line : line[i] = t}
           n == CHOOSE i \in at : TRUE
<1>1. /\ busy' = busy /\ line \in Seq(T)
      /\ line' = IF at = {} THEN line
                 ELSE SubSeq(line, 1, n - 1) \o SubSeq(line, n + 1, Len(line))
  BY DEF Leave, PoolInv
<1>2. CASE at = {}
  <2>1. line' = line /\ t \notin Lined
    BY <1>1, <1>2 DEF Lined
  <2> QED  BY <1>1, <2>1 DEF PoolInv, Tasks, Lined
<1>3. CASE at # {}
  <2>1. n \in DOMAIN line /\ line[n] = t
    BY <1>3
  <2> HIDE DEF n
  <2>2. line' = SubSeq(line, 1, n - 1) \o SubSeq(line, n + 1, Len(line))
    BY <1>1, <1>3
  <2>3. Len(line) \in Nat /\ DOMAIN line = 1..Len(line) /\ n \in 1..Len(line)
    BY <1>1, <2>1
  <2>4. /\ SubSeq(line, 1, n - 1) \in Seq(T) /\ Len(SubSeq(line, 1, n - 1)) = n - 1
        /\ \A i \in 1..(n - 1) : SubSeq(line, 1, n - 1)[i] = line[i]
    BY <1>1, <2>3
  <2>5. ASSUME NEW l \in Seq(T), NEW k \in 1..Len(l)
        PROVE  /\ SubSeq(l, k + 1, Len(l)) \in Seq(T)
               /\ Len(SubSeq(l, k + 1, Len(l))) = Len(l) - k
               /\ \A i \in 1..(Len(l) - k) : SubSeq(l, k + 1, Len(l))[i] = l[k + i]
    <3>1. Len(l) \in Nat /\ k + 1 \in 1..(Len(l) + 1)
      OBVIOUS
    <3>2. Len(SubSeq(l, k + 1, Len(l))) = Len(l) - k
      BY <3>1
    <3>3. \A i \in 1..(Len(l) - k) : SubSeq(l, k + 1, Len(l))[i] = l[k + i]
      BY <3>1
    <3>4. SubSeq(l, k + 1, Len(l)) \in Seq(T)
      BY <3>1
    <3> QED  BY <3>2, <3>3, <3>4
  <2> DEFINE a == SubSeq(line, 1, n - 1)
             b == SubSeq(line, n + 1, Len(line))
  <2>14. /\ b \in Seq(T) /\ Len(b) = Len(line) - n
         /\ \A i \in 1..(Len(line) - n) : b[i] = line[n + i]
    BY <1>1, <2>3, <2>5
  <2>15. /\ a \in Seq(T) /\ Len(a) = n - 1 /\ line' = a \o b
         /\ \A i \in 1..(n - 1) : a[i] = line[i]
    BY <2>2, <2>4
  <2> HIDE DEF a, b
  <2>6. /\ line' \in Seq(T) /\ Len(line') = Len(line) - 1
        /\ \A i \in 1..(Len(line) - 1) :
             line'[i] = IF i < n THEN line[i] ELSE line[i + 1]
    <3>4. line' \in Seq(T) /\ Len(line') = Len(a) + Len(b)
      <4>1. ASSUME NEW c \in Seq(T), NEW d \in Seq(T)
            PROVE  c \o d \in Seq(T) /\ Len(c \o d) = Len(c) + Len(d)
        OBVIOUS
      <4>2. a \in Seq(T) /\ b \in Seq(T) /\ line' = a \o b
        BY <2>14, <2>15
      <4> QED  BY <4>1, <4>2
    <3>1. line' \in Seq(T) /\ Len(line') = Len(line) - 1
      BY <2>3, <2>14, <2>15, <3>4
    <3>2. \A i \in 1..(n - 1) : line'[i] = line[i]
      BY <2>3, <2>14, <2>15
    <3>3. ASSUME NEW i \in 1..(Len(line) - 1), ~(i < n)  PROVE line'[i] = line[i + 1]
      <4>1. i - (n - 1) \in 1..(Len(line) - n)
        BY <2>3, <3>3
      <4>2. line'[i] = b[i - (n - 1)]
        BY <2>3, <2>14, <2>15, <3>3
      <4>3. b[i - (n - 1)] = line[n + (i - (n - 1))]
        BY <2>14, <4>1
      <4> QED  BY <2>3, <4>2, <4>3
    <3> QED  BY <2>3, <3>1, <3>2, <3>3
  <2>7. DOMAIN line' = 1..(Len(line) - 1)
    BY <2>3, <2>6
  <2> DEFINE from(i) == IF i < n THEN i ELSE i + 1
  <2>8. \A i \in DOMAIN line' : from(i) \in DOMAIN line /\ from(i) # n /\ line'[i] = line[from(i)]
    BY <2>3, <2>6, <2>7
  <2>9. \A j \in DOMAIN line : j = n \/ \E i \in DOMAIN line' : j = from(i)
    <3> TAKE j \in DOMAIN line
    <3>1. CASE j < n
      <4>1. j \in DOMAIN line' /\ j = from(j)
        BY <2>3, <2>7, <3>1
      <4> QED  BY <4>1
    <3>2. CASE j > n
      <4>1. j - 1 \in DOMAIN line' /\ j = from(j - 1)
        BY <2>3, <2>7, <3>2
      <4> QED  BY <4>1
    <3> QED  BY <2>3, <3>1, <3>2
  <2>10. \A i, j \in DOMAIN line' : from(i) = from(j) => i = j
    BY <2>3, <2>7
  <2> HIDE DEF from
  <2>11. Lined' = Lined \ {t}
    BY <2>1, <2>8, <2>9 DEF Lined, PoolInv
  <2>12. \A i \in DOMAIN line' : line'[i] \notin busy'
    BY <1>1, <2>8 DEF PoolInv
  <2>13. \A i, j \in DOMAIN line' : line'[i] = line'[j] => i = j
    BY <2>8, <2>10 DEF PoolInv
  <2> QED  BY <1>1, <2>6, <2>11, <2>12, <2>13 DEF PoolInv, Tasks
<1> QED  BY <1>2, <1>3

-----------------------------------------------------------------------------
(* The calls of a replica.                                                  *)

Stages == {"none", "sent", "opened", "writing", "reading", "done"}

StageInv ==
  /\ PoolInv(Call) /\ stage \in [Call -> Stages]
  /\ \A c \in Call : stage[c] \notin {"none", "done"} <=> c \in Tasks

\* The rest of ReplicaTypeOK
LockInv ==
  /\ given \subseteq Call /\ coming \subseteq Client
  /\ remote \in [RemoteWrites -> {"idle", "begin", "ended"} \cup DOMAIN After]
  /\ token \in {"here", "peer", "sent"} /\ wanted \subseteq RemoteWrites
  /\ request \in LocalWrites \cup {"none"} /\ writing \in LocalWrites \cup {"none"}
  /\ marks \subseteq RemoteWrites /\ marks \cap finished = {}
  /\ \A w \in marks : stage[[of |-> w, op |-> "start"]] = "done"

DoneStays == \A c \in Call : stage[c] = "done" => stage'[c] = "done"

LEMMA Calls ==
  /\ \A q \in Reads : Read(q) \in Call
  /\ \A q \in LocalWrites : Write(q) \in Call /\ [of |-> q, op |-> "transfer"] \in Call
  /\ \A w \in RemoteWrites, o \in {"request", "start", "replicate", "finish"} :
       [of |-> w, op |-> o] \in Call
  /\ DOMAIN After = {"request", "start", "replicate", "finish"}
BY DEF Call, Read, Write, After

LEMMA StageSame ==
  ASSUME StageInv, UNCHANGED <<stage, line, busy>>  PROVE StageInv' /\ DoneStays
BY DEF StageInv, PoolInv, Tasks, Lined, DoneStays

LEMMA GoesIs ==
  ASSUME StageInv, NEW c \in Call, c \in busy, NEW l \in Stages \ {"none", "done"},
         Goes(c, l), stage[c] # "done", UNCHANGED <<line, busy>>
  PROVE  StageInv' /\ DoneStays
<1>1. stage' \in [Call -> Stages] /\ stage'[c] = l /\ \A d \in Call \ {c} : stage'[d] = stage[d]
  BY DEF Goes, StageInv
<1>2. Tasks' = Tasks /\ PoolInv(Call)' /\ c \in Tasks
  BY DEF StageInv, PoolInv, Tasks, Lined
<1> QED  BY <1>1, <1>2 DEF StageInv, DoneStays

LEMMA EndsIs ==
  ASSUME StageInv, NEW c \in Call, c \in busy, Ends(c)
  PROVE  StageInv' /\ DoneStays /\ stage'[c] = "done"
<1>1. /\ stage' \in [Call -> Stages] /\ stage'[c] = "done"
      /\ \A d \in Call \ {c} : stage'[d] = stage[d]
  BY DEF Ends, Goes, StageInv, Stages
<1>2. Tasks' = Tasks \ {c} /\ PoolInv(Call)'
  BY ReleaseIs DEF StageInv, Ends
<1> QED  BY <1>1, <1>2 DEF StageInv, DoneStays

LEMMA SendsIs ==
  ASSUME StageInv, NEW c \in Call, Sends(c)
  PROVE  StageInv' /\ DoneStays
<1>1. /\ stage' \in [Call -> Stages] /\ stage'[c] = "sent"
      /\ \A d \in Call \ {c} : stage'[d] = stage[d]
  BY DEF Sends, Goes, StageInv, Stages
<1>2. c \notin Tasks /\ stage[c] = "none" /\ Enqueue(c)
  BY DEF StageInv, Sends
<1>3. Tasks' = Tasks \cup {c} /\ PoolInv(Call)'
  BY <1>2, EnqueueIs DEF StageInv
<1> QED  BY <1>1, <1>2, <1>3 DEF StageInv, DoneStays

LEMMA AssignIs == ASSUME StageInv, Assign  PROVE StageInv' /\ DoneStays
<1>1. Tasks' = Tasks /\ PoolInv(Call)' /\ stage' = stage
  BY DispatchIs DEF Assign, StageInv, replicaVars
<1> QED  BY <1>1 DEF StageInv, DoneStays

\* Marks that stay keep their started calls.
LEMMA MarksKept ==
  ASSUME LockInv, DoneStays
  PROVE  \A w \in marks : stage'[[of |-> w, op |-> "start"]] = "done"
BY Calls DEF LockInv, DoneStays

LEMMA LocksKept ==
  ASSUME LockInv, DoneStays, UNCHANGED <<marks, finished>>, given' \subseteq Call,
         coming' \subseteq Client,
         (remote \in [RemoteWrites -> {"idle", "begin", "ended"} \cup DOMAIN After])',
         token' \in {"here", "peer", "sent"}, wanted' \subseteq RemoteWrites,
         request' \in LocalWrites \cup {"none"}, writing' \in LocalWrites \cup {"none"}
  PROVE  LockInv'
BY MarksKept DEF LockInv

LEMMA ReplicaStarts ==
  ASSUME PoolInit, ReplicaInit
  PROVE  StageInv /\ LockInv /\ \A c \in Call : stage[c] = "none"
<1>1. PoolInv(Call) /\ Tasks = {}
  BY PoolStarts
<1>2. /\ stage = [c \in Call |-> "none"] /\ marks = {}
  BY DEF ReplicaInit
<1>3. StageInv
  BY <1>1, <1>2 DEF StageInv, Stages
<1>4. LockInv
  BY <1>2 DEF ReplicaInit, LockInv
<1> QED  BY <1>2, <1>3, <1>4

LEMMA ReplicaStep ==
  ASSUME StageInv, LockInv, ReplicaNext
  PROVE  StageInv' /\ LockInv'
<1> USE DEF replicaVars, lockVars
<1>1. ASSUME NEW q \in Client, Arrive(q)  PROVE StageInv' /\ LockInv'
  <2> DEFINE c == IF q \in Reads THEN Read(q) ELSE Write(q)
  <2>1. c \in Call /\ Sends(c)
    BY <1>1, Calls DEF Arrive, Client
  <2>2. StageInv' /\ DoneStays
    BY <2>1, SendsIs
  <2> QED  BY <1>1, <2>2, LocksKept DEF Arrive, LockInv
<1>2. ASSUME NEW w \in RemoteWrites, RemoteArrives(w)  PROVE StageInv' /\ LockInv'
  <2> DEFINE c == [of |-> w, op |-> "request"]
  <2>1. c \in Call /\ (Sends(c) \/ UNCHANGED <<stage, line, busy>>)
    BY <1>2, Calls DEF RemoteArrives
  <2>2. StageInv' /\ DoneStays
    BY <2>1, SendsIs, StageSame
  <2>3. /\ (remote \in [RemoteWrites -> {"idle", "begin", "ended"} \cup DOMAIN After])'
        /\ coming' \subseteq Client
    BY <1>2, Calls DEF RemoteArrives, LockInv
  <2> QED  BY <1>2, <2>2, <2>3, LocksKept DEF RemoteArrives, LockInv
<1>3. ASSUME NEW w \in RemoteWrites, GiveUp(w)  PROVE StageInv' /\ LockInv'
  <2> DEFINE c == [of |-> w, op |-> "finish"]
  <2>1. c \in Call /\ (Sends(c) \/ UNCHANGED <<stage, line, busy>>)
    BY <1>3, Calls DEF GiveUp
  <2>2. StageInv' /\ DoneStays
    BY <2>1, SendsIs, StageSame
  <2>3. /\ (remote \in [RemoteWrites -> {"idle", "begin", "ended"} \cup DOMAIN After])'
        /\ given' \subseteq Call
    BY <1>3, Calls DEF GiveUp, LockInv
  <2> QED  BY <1>3, <2>2, <2>3, LocksKept DEF GiveUp, LockInv
<1>4. CASE Assign
  <2>1. StageInv' /\ DoneStays
    BY <1>4, AssignIs
  <2> QED  BY <1>4, <2>1, LocksKept DEF Assign, LockInv
<1>5. ASSUME NEW q \in Reads, AcquireRead(q)  PROVE StageInv' /\ LockInv'
  <2>1. StageInv' /\ DoneStays
    BY <1>5, GoesIs, Calls DEF AcquireRead, At, Stages
  <2> QED  BY <1>5, <2>1, LocksKept DEF AcquireRead, LockInv
<1>6. ASSUME NEW q \in Reads, ReleaseRead(q)  PROVE StageInv' /\ LockInv'
  <2>1. StageInv' /\ DoneStays
    BY <1>6, EndsIs, Calls DEF ReleaseRead, At
  <2> QED  BY <1>6, <2>1, LocksKept DEF ReleaseRead, LockInv
<1>7. ASSUME NEW q \in LocalWrites, OpenWrite(q)  PROVE StageInv' /\ LockInv'
  <2>1. StageInv' /\ DoneStays
    BY <1>7, GoesIs, Calls DEF OpenWrite, At, Stages
  <2> QED  BY <1>7, <2>1, LocksKept DEF OpenWrite, LockInv
<1>8. ASSUME NEW q \in LocalWrites, BeginWrite(q)  PROVE StageInv' /\ LockInv'
  <2>1. StageInv' /\ DoneStays
    BY <1>8, GoesIs, Calls DEF BeginWrite, At, Stages
  <2> QED  BY <1>8, <2>1, LocksKept DEF BeginWrite, LockInv
<1>9. ASSUME NEW q \in LocalWrites, FinishWrite(q)  PROVE StageInv' /\ LockInv'
  <2>1. StageInv' /\ DoneStays
    BY <1>9, EndsIs, Calls DEF FinishWrite, At
  <2> QED  BY <1>9, <2>1, LocksKept DEF FinishWrite, LockInv
<1>10. ASSUME NEW q \in LocalWrites, ReceiveToken(q)  PROVE StageInv' /\ LockInv'
  <2>1. StageInv' /\ DoneStays
    BY <1>10, EndsIs, Calls DEF ReceiveToken, At
  <2> QED  BY <1>10, <2>1, LocksKept DEF ReceiveToken, LockInv
<1>11. ASSUME NEW w \in RemoteWrites, NoteRequest(w)  PROVE StageInv' /\ LockInv'
  <2>1. StageInv' /\ DoneStays
    BY <1>11, EndsIs, Calls DEF NoteRequest, At
  <2> QED  BY <1>11, <2>1, LocksKept DEF NoteRequest, LockInv
<1>12. ASSUME NEW w \in RemoteWrites, MarkStarted(w)  PROVE StageInv' /\ LockInv'
  <2>1. StageInv' /\ DoneStays /\ stage'[[of |-> w, op |-> "start"]] = "done"
    BY <1>12, EndsIs, Calls DEF MarkStarted, At
  <2>2. marks' \subseteq RemoteWrites /\ marks' \cap finished' = {}
    BY <1>12 DEF MarkStarted, LockInv
  <2>3. \A v \in marks' : stage'[[of |-> v, op |-> "start"]] = "done"
    BY <1>12, <2>1, MarksKept DEF MarkStarted
  <2> QED  BY <1>12, <2>1, <2>2, <2>3 DEF MarkStarted, LockInv
<1>13. ASSUME NEW w \in RemoteWrites, Replicate(w)  PROVE StageInv' /\ LockInv'
  <2>1. StageInv' /\ DoneStays
    BY <1>13, EndsIs, Calls DEF Replicate, At
  <2> QED  BY <1>13, <2>1, LocksKept DEF Replicate, LockInv
<1>14. ASSUME NEW w \in RemoteWrites, MarkFinished(w)  PROVE StageInv' /\ LockInv'
  <2>1. StageInv' /\ DoneStays
    BY <1>14, EndsIs, Calls DEF MarkFinished, At
  <2>2. marks' \subseteq RemoteWrites /\ marks' \cap finished' = {}
    BY <1>14 DEF MarkFinished, LockInv
  <2>3. \A v \in marks' : stage'[[of |-> v, op |-> "start"]] = "done"
    BY <1>14, <2>1, MarksKept DEF MarkFinished
  <2> QED  BY <1>14, <2>1, <2>2, <2>3 DEF MarkFinished, LockInv
<1>15. ASSUME NEW q \in LocalWrites, SendToken(q)  PROVE StageInv' /\ LockInv'
  <2>1. StageInv' /\ DoneStays
    BY <1>15, SendsIs, Calls DEF SendToken
  <2> QED  BY <1>15, <2>1, LocksKept DEF SendToken, LockInv
<1>16. ASSUME NEW w \in RemoteWrites, RemoteBegins(w)  PROVE StageInv' /\ LockInv'
  <2>1. StageInv' /\ DoneStays
    BY <1>16, SendsIs, Calls DEF RemoteBegins
  <2>2. (remote \in [RemoteWrites -> {"idle", "begin", "ended"} \cup DOMAIN After])'
    BY <1>16, Calls DEF RemoteBegins, LockInv
  <2> QED  BY <1>16, <2>1, <2>2, LocksKept DEF RemoteBegins, LockInv
<1>17. ASSUME NEW w \in RemoteWrites, RemoteGoesOn(w)  PROVE StageInv' /\ LockInv'
  <2> DEFINE next == After[remote[w]]
  <2>0. next \in {"begin", "replicate", "finish", "ended"}
    BY <1>17, Calls DEF RemoteGoesOn, After
  <2>1. /\ remote' = [remote EXCEPT ![w] = next]
        /\ \/ next \in {"replicate", "finish"} /\ Sends([of |-> w, op |-> next])
           \/ UNCHANGED <<stage, line, busy>>
    BY <1>17 DEF RemoteGoesOn
  <2> HIDE DEF next
  <2>2. StageInv' /\ DoneStays
    BY <2>1, SendsIs, StageSame, Calls
  <2>3. (remote \in [RemoteWrites -> {"idle", "begin", "ended"} \cup DOMAIN After])'
    BY <2>0, <2>1, Calls DEF LockInv
  <2> QED  BY <1>17, <2>2, <2>3, LocksKept DEF RemoteGoesOn, LockInv
<1> QED
  BY <1>1, <1>2, <1>3, <1>4, <1>5, <1>6, <1>7, <1>8, <1>9, <1>10, <1>11, <1>12, <1>13,
     <1>14, <1>15, <1>16, <1>17 DEF ReplicaNext, Thread, Peers

-----------------------------------------------------------------------------
(* The requests of the inference adapter.                                   *)

Open(q) == place[q] \notin {"none", "closed"}

\* A request with work left is served, and has a thread or a place in line only then.
RequestInv == PoolInv(Asked) /\ \A q \in Tasks : Open(q)

\* The rest of InferenceTypeOK: FlowInv has the types of what the requests and the
\* generations write.
RuntimeInv ==
  /\ backend \in {"stub", "hf"} /\ errors \in 0..MaxErrors
  /\ serving \in BOOLEAN /\ lastError \in BOOLEAN /\ ready \in BOOLEAN
  /\ loaded = (ready /\ backend = "hf") /\ (ready => serving)
  /\ place \in [Asked -> Place]
  /\ clients \subseteq Asked /\ \A q \in clients : place[q] = "none"
  /\ \A q \in Asked : Open(q) => serving

AskInv == RequestInv /\ RuntimeInv

LEMMA AskSame ==
  ASSUME AskInv, UNCHANGED <<line, busy, backend, serving, ready, loaded, lastError, errors>>,
         UNCHANGED <<clients, place>>
  PROVE  AskInv'
BY DEF AskInv, RequestInv, RuntimeInv, PoolInv, Tasks, Lined, Open

\* A step of request q that leaves the runtime as it is: q goes to place p and is a
\* task afterwards only if it has work left.
LEMMA Moves ==
  ASSUME AskInv, NEW q \in Asked, q \notin clients', clients' \subseteq clients,
         NEW p \in Place, GoesTo(q, p), UNCHANGED runtimeVars, errors' \in 0..MaxErrors,
         PoolInv(Asked)', Tasks' \subseteq Tasks \cup {q},
         p \in {"none", "closed"} => q \notin Tasks', serving
  PROVE  AskInv'
<1>1. place' \in [Asked -> Place] /\ place'[q] = p /\ \A r \in Asked \ {q} : place'[r] = place[r]
  BY DEF AskInv, RuntimeInv, GoesTo
<1>2. Tasks' \subseteq Asked
  BY DEF PoolInv, Tasks, Lined
<1>3. RequestInv'
  <2>1. ASSUME NEW r \in Tasks'  PROVE Open(r)'
    <3>1. CASE r = q
      BY <1>1, <2>1, <3>1 DEF Open
    <3>2. CASE r # q
      BY <1>1, <1>2, <2>1, <3>2 DEF Open, AskInv, RequestInv
    <3> QED  BY <3>1, <3>2
  <2> QED  BY <2>1 DEF RequestInv
<1>4. RuntimeInv'
  BY <1>1 DEF AskInv, RuntimeInv, runtimeVars, Open
<1> QED  BY <1>3, <1>4 DEF AskInv

\* q has a thread: it is served, has come and has work left.
LEMMA HasThread ==
  ASSUME AskInv, NEW q \in busy  PROVE q \in Asked /\ q \notin clients /\ Open(q) /\ serving
<1>1. q \in Asked /\ Open(q)
  BY DEF AskInv, RequestInv, PoolInv, Tasks
<1> QED  BY <1>1 DEF AskInv, RuntimeInv, Open

\* q goes to p and releases its thread.
LEMMA MovesOff ==
  ASSUME AskInv, NEW q \in busy, NEW p \in Place, GoesTo(q, p), Release(q),
         UNCHANGED <<runtimeVars, clients>>, errors' \in 0..MaxErrors
  PROVE  AskInv'
<1>1. q \in Asked /\ q \notin clients /\ serving
  BY HasThread
<1>2. PoolInv(Asked)' /\ Tasks' = Tasks \ {q}
  BY ReleaseIs DEF AskInv, RequestInv
<1> QED  BY <1>1, <1>2, Moves

\* q goes to p and keeps its thread.
LEMMA MovesOn ==
  ASSUME AskInv, NEW q \in busy, NEW p \in Place \ {"none", "closed"}, GoesTo(q, p),
         UNCHANGED <<line, busy, runtimeVars, clients, errors>>
  PROVE  AskInv'
<1>1. q \in Asked /\ q \notin clients /\ serving
  BY HasThread
<1>2. PoolInv(Asked)' /\ Tasks' = Tasks
  BY DEF AskInv, RequestInv, PoolInv, Tasks, Lined
<1>3. errors' \in 0..MaxErrors
  BY DEF AskInv, RuntimeInv
<1> QED  BY <1>1, <1>2, <1>3, Moves

LEMMA AskStarts == ASSUME PoolInit, InferenceInit PROVE AskInv
<1>1. PoolInv(Asked) /\ Tasks = {}
  BY PoolStarts
<1>2. errors \in 0..MaxErrors /\ \A q \in Asked : place[q] = "none"
  BY InferenceAssumption DEF InferenceInit
<1>3. loaded = (ready /\ backend = "hf")
  BY DEF InferenceInit
<1>4. /\ backend \in {"stub", "hf"} /\ serving = FALSE /\ lastError \in BOOLEAN
      /\ ready = FALSE /\ clients = Asked /\ place \in [Asked -> Place]
  BY DEF InferenceInit, Place
<1> QED  BY <1>1, <1>2, <1>3, <1>4 DEF AskInv, RequestInv, RuntimeInv, Open

LEMMA AskStep == ASSUME AskInv, InferenceNext PROVE AskInv'
<1> USE DEF inferenceVars, runtimeVars, requestVars, threadVars
<1>0. errors \in 0..MaxErrors /\ MaxErrors \in Nat
  BY InferenceAssumption DEF AskInv, RuntimeInv
<1>1. CASE Start
  <2>1. ~serving /\ ~ready /\ loaded = FALSE /\ \A q \in Asked : ~Open(q)
    BY <1>1 DEF Start, AskInv, RuntimeInv
  <2>2. RequestInv'
    BY <1>1 DEF Start, AskInv, RequestInv, PoolInv, Tasks, Lined, Open
  <2>4. errors' \in 0..MaxErrors /\ UNCHANGED <<backend, clients, place>> /\ serving' = TRUE
    BY <1>0, <1>1 DEF Start, Error
  <2>5. loaded' = (ready' /\ backend' = "hf")
    <3>1. CASE ready' = TRUE /\ loaded' = (backend = "hf")
      BY <2>4, <3>1
    <3>2. CASE ready' = FALSE /\ loaded' = loaded
      BY <2>1, <3>2
    <3> QED  BY <1>1, <3>1, <3>2 DEF Start
  <2>6. ready' \in BOOLEAN /\ lastError' \in BOOLEAN
    BY <1>1 DEF Start
  <2>3. RuntimeInv'
    BY <2>4, <2>5, <2>6 DEF AskInv, RuntimeInv, Open
  <2> QED  BY <2>2, <2>3 DEF AskInv
<1>2. CASE StopServing
  <2>1. \A q \in Asked : ~Open(q)
    BY <1>2 DEF StopServing, Open
  <2>2. RequestInv'
    BY <1>2 DEF StopServing, AskInv, RequestInv, PoolInv, Tasks, Lined, Open
  <2>3. RuntimeInv'
    BY <1>2, <2>1 DEF StopServing, AskInv, RuntimeInv, Open
  <2> QED  BY <2>2, <2>3 DEF AskInv
<1>3. CASE TakeThread
  <2>1. PoolInv(Asked)' /\ Tasks' = Tasks
    BY <1>3, DispatchIs DEF TakeThread, AskInv, RequestInv
  <2> QED  BY <1>3, <2>1 DEF TakeThread, AskInv, RequestInv, RuntimeInv, Open
<1>4. ASSUME NEW q \in Asked, Comes(q)  PROVE AskInv'
  <2>1. q \notin Tasks /\ q \in Asked
    BY <1>4 DEF Comes, AskInv, RequestInv, RuntimeInv, Open
  <2>2. PoolInv(Asked)' /\ Tasks' = Tasks \cup {q}
    BY <1>4, <2>1, EnqueueIs DEF Comes, AskInv, RequestInv
  <2> DEFINE p == IF q \in Infers THEN "begin" ELSE "handler"
  <2>3. p \in Place \ {"none", "closed"} /\ GoesTo(q, p)
    BY <1>4 DEF Comes, Place
  <2> QED  BY <1>0, <1>4, <2>1, <2>2, <2>3, Moves DEF Comes
<1>5. ASSUME NEW q \in busy, NEW what, Answers(q, what),
             UNCHANGED <<runtimeVars, clients, errors>>
      PROVE  AskInv'
  <2> DEFINE p == IF q \in Streams THEN "closing" ELSE "closed"
  <2>1. p \in Place /\ GoesTo(q, p) /\ Release(q)
    BY <1>5 DEF Answers, Place
  <2> QED  BY <1>0, <1>5, <2>1, MovesOff
<1>6. ASSUME NEW q \in Probes, Health(q)  PROVE AskInv'
  BY <1>5, <1>6 DEF Health
<1>7. ASSUME NEW q \in Generates, Refuse(q)  PROVE AskInv'
  BY <1>5, <1>7 DEF Refuse, Begins
<1>8. ASSUME NEW q \in Generates, Join(q)  PROVE AskInv'
  BY <1>5, <1>8 DEF Join
<1>9. ASSUME NEW q \in Generates, Generate(q) \/ GenerateStub(q)  PROVE AskInv'
  <2>1. q \in busy /\ "reading" \in Place \ {"none", "closed"} /\ GoesTo(q, "reading")
    BY <1>9 DEF Generate, GenerateStub, Begins, Place
  <2> QED  BY <1>9, <2>1, MovesOn DEF Generate, GenerateStub
<1>10. ASSUME NEW q \in Generates, ReadToken(q)  PROVE AskInv'
  <2>1. q \in busy /\ place[q] = "reading" /\ "joining" \in Place \ {"none", "closed"}
        /\ "reading" \in Place
    BY <1>10 DEF ReadToken, Place
  <2>2. \/ GoesTo(q, "joining") /\ UNCHANGED <<line, busy>>
        \/ Release(q) /\ UNCHANGED place
        \/ UNCHANGED <<line, busy, place>>
    BY <1>10 DEF ReadToken
  <2>3. CASE GoesTo(q, "joining") /\ UNCHANGED <<line, busy>>
    BY <1>10, <2>1, <2>3, MovesOn DEF ReadToken
  <2>4. CASE Release(q) /\ UNCHANGED place
    <3>1. GoesTo(q, "reading")
      BY <2>1, <2>4 DEF GoesTo, AskInv, RuntimeInv
    <3> QED  BY <1>0, <1>10, <2>1, <2>4, <3>1, MovesOff DEF ReadToken
  <2>5. CASE UNCHANGED <<line, busy, place>>
    BY <1>10, <2>5, AskSame DEF ReadToken
  <2> QED  BY <2>2, <2>3, <2>4, <2>5
<1>11. ASSUME NEW q \in Generates, Close(q)  PROVE AskInv'
  <2>1. q \in busy /\ "closed" \in Place /\ GoesTo(q, "closed") /\ Release(q)
    BY <1>11 DEF Close, Place
  <2> QED  BY <1>0, <1>11, <2>1, MovesOff DEF Close
<1>12. ASSUME NEW q \in Generates, ReturnGenerator(q)  PROVE AskInv'
  <2>1. q \in busy /\ "begin" \in Place /\ GoesTo(q, "begin") /\ Release(q)
    BY <1>12 DEF ReturnGenerator, Place
  <2> QED  BY <1>0, <1>12, <2>1, MovesOff DEF ReturnGenerator
<1>13. ASSUME NEW q \in Generates, PrepareFails(q)  PROVE AskInv'
  <2>1. q \in busy /\ "closed" \in Place /\ GoesTo(q, "closed") /\ Release(q)
    BY <1>13 DEF PrepareFails, Begins, Place
  <2>2. errors' \in 0..MaxErrors
    BY <1>0, <1>13 DEF PrepareFails, Error
  <2> QED  BY <1>13, <2>1, <2>2, MovesOff DEF PrepareFails
<1>14. ASSUME NEW q \in Generates, Resume(q)  PROVE AskInv'
  <2>1. q \in Asked /\ q \notin Tasks /\ Open(q) /\ Enqueue(q)
    BY <1>14, GeneratesAsk DEF Resume, Yielded, Tasks, Lined, Open
  <2>2. PoolInv(Asked)' /\ Tasks' = Tasks \cup {q}
    BY <2>1, EnqueueIs DEF AskInv, RequestInv
  <2> QED  BY <1>14, <2>1, <2>2 DEF Resume, AskInv, RequestInv, RuntimeInv, Open
<1>15. ASSUME NEW q \in Streams, Disconnect(q)  PROVE AskInv'
  <2>1. q \in Asked /\ q \notin busy /\ Open(q) /\ q \notin clients /\ serving
    BY <1>15 DEF Disconnect, Open, Asked, Generates, AskInv, RuntimeInv
  <2>2. PoolInv(Asked)' /\ Tasks' = Tasks \ {q}
    BY <1>15, <2>1, LeaveIs DEF Disconnect, AskInv, RequestInv
  <2>3. "closed" \in Place /\ GoesTo(q, "closed")
    BY <1>15 DEF Disconnect, Place
  <2> QED  BY <1>0, <1>15, <2>1, <2>2, <2>3, Moves DEF Disconnect
<1>16. ASSUME NEW q \in Generates, Generation(q)  PROVE AskInv'
  BY <1>16, AskSame DEF Generation, PutToken, EndStreamer, GenerateReturns, NoteError
<1>17. ASSUME NEW q \in Generates, GenerateRaises(q)  PROVE AskInv'
  BY <1>0, <1>17 DEF GenerateRaises, Error, AskInv, RequestInv, RuntimeInv, PoolInv, Tasks,
     Lined, Open
<1> QED
  BY <1>1, <1>2, <1>3, <1>4, <1>6, <1>7, <1>8, <1>9, <1>10, <1>11, <1>12, <1>13, <1>14,
     <1>15, <1>16, <1>17 DEF InferenceNext, Handle

-----------------------------------------------------------------------------
(* A server of either kind.                                                 *)

ServersInv ==
  /\ server \in {"replica", "inference"} /\ FlowInv /\ RuntimeInv /\ LockInv
  /\ server = "replica" => StageInv
  /\ server = "inference" =>
       RequestInv /\ stage \in [Call -> Stages] /\ \A c \in Call : stage[c] = "none"

LEMMA ServersStart == Init => ServersInv
BY FlowInit, AskStarts, ReplicaStarts DEF Init, ServersInv, AskInv, StageInv

LEMMA ServersStep == ServersInv /\ [Next]_vars => ServersInv'
<1> SUFFICES ASSUME ServersInv, [Next]_vars  PROVE ServersInv'
  OBVIOUS
<1>1. CASE server = "replica" /\ ReplicaNext /\ UNCHANGED <<server, inferenceVars>>
  <2>1. StageInv' /\ LockInv'
    BY <1>1, ReplicaStep DEF ServersInv
  <2>2. FlowInv'
    BY <1>1 DEF ServersInv, FlowInv, Types, FlowAt, inferenceVars, requestVars, threadVars
  <2>3. RuntimeInv'
    BY <1>1 DEF ServersInv, RuntimeInv, Open, inferenceVars, runtimeVars, requestVars
  <2> QED  BY <1>1, <2>1, <2>2, <2>3 DEF ServersInv
<1>2. CASE server = "inference" /\ InferenceNext /\ UNCHANGED <<server, replicaVars>>
  <2>1. AskInv' /\ FlowInv'
    BY <1>2, AskStep, FlowStep DEF ServersInv, AskInv
  <2>2. LockInv' /\ stage' = stage
    BY <1>2 DEF ServersInv, LockInv, replicaVars, lockVars
  <2> QED  BY <1>2, <2>1, <2>2 DEF ServersInv, AskInv
<1>3. CASE UNCHANGED vars
  BY <1>3 DEF vars, poolVars, replicaVars, lockVars, inferenceVars, runtimeVars, requestVars,
     threadVars, ServersInv, FlowInv, Types, FlowAt, RuntimeInv, LockInv, StageInv,
     RequestInv, PoolInv, Tasks, Lined, Open
<1> QED  BY <1>1, <1>2, <1>3 DEF Next

LEMMA ServersOK == ServersInv => ServersTypeOK
<1> SUFFICES ASSUME ServersInv  PROVE ServersTypeOK
  OBVIOUS
<1>1. ASSUME NEW T, PoolInv(T), T \subseteq Call \cup Asked
      PROVE  PoolTypeOK(Call \cup Asked) /\ Tasks \subseteq T
  BY <1>1, PoolAssumption DEF PoolInv, PoolTypeOK, Tasks, Lined
<1>2. PoolTypeOK(Call \cup Asked)
  BY <1>1 DEF ServersInv, StageInv, RequestInv
<1>3. ReplicaTypeOK
  <2>1. stage \in [Call -> Stages] /\ \A c \in Call : stage[c] \notin {"none", "done"} <=> c \in Tasks
    <3>1. CASE server = "replica"
      BY <3>1 DEF ServersInv, StageInv
    <3>2. CASE server = "inference"
      BY <1>1, <3>2, ServersAssumption DEF ServersInv, RequestInv
    <3> QED  BY <3>1, <3>2 DEF ServersInv
  <2> QED  BY <2>1 DEF ReplicaTypeOK, ServersInv, LockInv, Tasks, Lined, Stages
<1>4. InferenceTypeOK
  <2>1. \A q \in busy \cap Asked : serving /\ place[q] \notin {"none", "closed"}
    <3>1. CASE server = "replica"
      BY <1>1, <3>1, ServersAssumption DEF ServersInv, StageInv, Tasks
    <3>2. CASE server = "inference"
      BY <3>2 DEF ServersInv, RequestInv, RuntimeInv, Open, Tasks
    <3> QED  BY <3>1, <3>2 DEF ServersInv
  <2> QED  BY <2>1 DEF InferenceTypeOK, ServersInv, FlowInv, Types, RuntimeInv, Gen
<1> QED  BY <1>2, <1>3, <1>4 DEF ServersTypeOK

\* The threads of a server are never more than the pool has; a call to a replica has a
\* thread, or is in line for one, exactly from when it is sent to when it is answered, a
\* mark is only set by the start call of its write (coordination.py), and a request to
\* the adapter has a thread only while the adapter serves it, with a model that is
\* loaded exactly while it is ready (runtime.py).
THEOREM ServersHold == Spec => []ServersTypeOK
<1>1. Init /\ [][Next]_vars => []ServersInv
  BY ServersStart, ServersStep, PTL
<1> QED  BY <1>1, ServersOK, PTL DEF Spec

=============================================================================
