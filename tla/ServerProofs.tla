---------------------------- MODULE ServerProofs ----------------------------
(***************************************************************************)
(* Proofs about the engine and the event loop, for any number of clients,  *)
(* any scripts, any buffer sizes, timeout and failing calls.               *)
(*                                                                         *)
(* First what the operators of module Http do to a connection record,      *)
(* whatever the record, the input and MaxBody are.  http_read_step is the  *)
(* only engine entry the event loop calls.  ReadStepEffect says all that   *)
(* the invariants of the loop need to know of it; ReadStepOutcome says     *)
(* what it adds to the output and takes from the input; ReadStepCount how  *)
(* much of a body it has read, and which one.                              *)
(*                                                                         *)
(* Then that IndInv is inductive, and what follows from it: the types, the *)
(* table, the backlog and the connections, one lemma for each conjunct.    *)
(***************************************************************************)
EXTENDS ServerProperties, SequenceTheorems, WellFoundedInduction, TLAPS

\* A set of numbers has a least one.
LEMMA LeastNumber ==
  ASSUME NEW S \in SUBSET Nat, S # {}
  PROVE  \E m \in S : \A n \in S : m <= n
<1> DEFINE R == OpToRel(<, Nat)
<1>1. IsWellFoundedOn(R, Nat)
  BY NatLessThanWellFounded, Zenon
<1> HIDE DEF R
<1>2. PICK m \in S : \A n \in S : ~ (<<n, m>> \in R)
  BY <1>1, WFMin
<1>3. ASSUME NEW n \in S
      PROVE  m <= n
  <2>1. ~(n < m)
    BY <1>2 DEF R, OpToRel
  <2> QED BY <2>1
<1> QED BY <1>3

-----------------------------------------------------------------------------
(* What keeps a record well formed.                                        *)

\* d is c after an answer has been queued: the handler's or an error's.
Answers(c, d) ==
  /\ d \in Conn
  /\ d.state = "WRITE"
  /\ Len(d.out) > Len(c.out)
  /\ d.out_off = c.out_off
  /\ d.want_continue = c.want_continue
  /\ d.id = c.id

\* d is c after a 100 Continue has been queued.
Continues(c, d) ==
  /\ d \in Conn
  /\ d.state = "WRITE"
  /\ d.next_state \in {"READ_BODY", "READ_CHUNK"}
  /\ Len(d.out) > Len(c.out)
  /\ d.out_off = c.out_off
  /\ d.id = c.id

\* d is c after more of a request has been read, or nothing could be.
Waits(c, d) ==
  /\ d \in Conn
  /\ d.state # "WRITE"
  /\ d.out = c.out
  /\ d.out_off = c.out_off
  /\ d.want_continue = c.want_continue
  /\ d.id = c.id

\* The minimum of two lengths is a length that exceeds neither.
LEMMA SmallerIsLength ==
  ASSUME NEW m \in Nat, NEW n \in Nat
  PROVE  Smaller(m, n) \in Nat /\ Smaller(m, n) <= m /\ Smaller(m, n) <= n
BY DEF Smaller

\* buf_consume leaves a buffer of the same kind, shorter by what was used.
LEMMA ConsumeIsSeq ==
  ASSUME NEW S, NEW s \in Seq(S), NEW n \in 0 .. Len(s)
  PROVE  Consume(s, n) \in Seq(S) /\ Len(Consume(s, n)) = Len(s) - n
BY DEF Consume

\* Short tuples are sequences.
LEMMA OneIsSeq ==
  ASSUME NEW S, NEW x \in S
  PROVE  <<x>> \in Seq(S) /\ Len(<<x>>) > 0
OBVIOUS

\* A pair is a sequence.
LEMMA TwoIsSeq ==
  ASSUME NEW S, NEW x \in S, NEW y \in S
  PROVE  <<x, y>> \in Seq(S) /\ Len(<<x, y>>) > 0
OBVIOUS

\* A triple is a sequence.
LEMMA ThreeIsSeq ==
  ASSUME NEW S, NEW x \in S, NEW y \in S, NEW z \in S
  PROVE  <<x, y, z>> \in Seq(S) /\ Len(<<x, y, z>>) > 0
OBVIOUS

\* Whatever is queued is a token of the connection's output.
LEMMA OutTokenType ==
  ASSUME NEW c \in Conn, NEW code \in FinalStatus,
         NEW kind \in {"head", "body", "chunk", "fin"}
  PROVE  Part(c, kind, code) \in OutTok /\ End(c, kind, code) \in OutTok
BY DEF Part, End, OutTok, Conn

\* An answer has at least its head.
LEMMA ResponseBytesType ==
  ASSUME NEW c \in Conn, NEW code \in FinalStatus,
         NEW reply \in ReplyKind
  PROVE  /\ ResponseBytes(c, code, reply) \in Seq(OutTok)
         /\ Len(ResponseBytes(c, code, reply)) > 0
<1>1. /\ End(c, "head", code) \in OutTok
      /\ Part(c, "head", code) \in OutTok
      /\ End(c, "body", code) \in OutTok
      /\ Part(c, "chunk", code) \in OutTok
      /\ End(c, "fin", code) \in OutTok
  BY OutTokenType
<1> DEFINE B == ResponseBytes(c, code, reply)
<1>2. CASE reply = "empty"
  <2>1. B = <<End(c, "head", code)>>
    BY <1>2 DEF ResponseBytes
  <2> QED BY <1>1, <2>1, OneIsSeq
<1>3. CASE reply = "plain"
  <2>1. B = <<Part(c, "head", code), End(c, "body", code)>>
    BY <1>3 DEF ResponseBytes
  <2> QED BY <1>1, <2>1, TwoIsSeq
<1>4. CASE reply \notin {"empty", "plain"}
  <2>1. B = <<Part(c, "head", code), Part(c, "chunk", code), End(c, "fin", code)>>
    BY <1>4 DEF ResponseBytes
  <2> QED BY <1>1, <2>1, ThreeIsSeq
<1> QED BY <1>2, <1>3, <1>4

\* Queueing tokens sets CONN_WRITE and touches nothing but the output.
LEMMA QueueAnswers ==
  ASSUME NEW c \in Conn, NEW s \in Seq(OutTok), Len(s) > 0
  PROVE  Answers(c, Queue(c, s)) /\ Queue(c, s).next_state = c.next_state
<1>1. c.out \o s \in Seq(OutTok) /\ Len(c.out \o s) > Len(c.out)
  BY DEF Conn
<1> QED BY <1>1 DEF Queue, Answers, Conn, ConnState

\* http_finalize_response queues a non-empty answer and leaves CONN_WRITE set.
LEMMA FinalizeAnswers ==
  ASSUME NEW c \in Conn, NEW code \in FinalStatus,
         NEW reply \in ReplyKind
  PROVE  Answers(c, FinalizeResponse(c, code, reply))
<1> DEFINE k == [c EXCEPT !.keep_alive = DecideKeepAlive(c)]
           s == ResponseBytes(c, code, reply)
<1>1. DecideKeepAlive(c) \in BOOLEAN
  BY DEF DecideKeepAlive, Conn, Request
<1>2. /\ k \in Conn /\ k.out = c.out /\ k.out_off = c.out_off
      /\ k.want_continue = c.want_continue /\ k.id = c.id
  BY <1>1 DEF Conn
<1>3. s \in Seq(OutTok) /\ Len(s) > 0
  <2>1. s \in Seq(OutTok)
    BY ResponseBytesType
  <2>2. Len(s) > 0
    BY ResponseBytesType
  <2> QED BY <2>1, <2>2
<1>4. <<End(c, "fin", code)>> \in Seq(OutTok) /\ Len(<<End(c, "fin", code)>>) > 0
  BY OutTokenType, OneIsSeq
<1>5. CASE c.streamed
  <2>1. FinalizeResponse(c, code, reply) = Queue(c, <<End(c, "fin", code)>>)
    BY <1>5 DEF FinalizeResponse
  <2> QED BY <1>4, <2>1, QueueAnswers
<1>6. CASE ~c.streamed
  <2>1. FinalizeResponse(c, code, reply) = Queue(k, s)
    BY <1>6 DEF FinalizeResponse
  <2> HIDE DEF k, s
  <2>2. Answers(k, Queue(k, s))
    BY <1>2, <1>3, QueueAnswers
  <2> QED BY <1>2, <2>1, <2>2 DEF Answers
<1> QED BY <1>5, <1>6

\* The record k has the output and the marks of c.
Alike(c, k) ==
  /\ k \in Conn
  /\ k.out = c.out
  /\ k.out_off = c.out_off
  /\ k.want_continue = c.want_continue
  /\ k.id = c.id

\* Answering after a change that leaves the output alone is answering.
LEMMA AnswersAlike ==
  ASSUME NEW c \in Conn, NEW k, Alike(c, k), NEW d, Answers(k, d)
  PROVE  Answers(c, d)
BY DEF Alike, Answers

\* Queueing more after an answer is still an answer.
LEMMA AnswersTwice ==
  ASSUME NEW c \in Conn, NEW k, Answers(c, k), NEW d, Answers(k, d)
  PROVE  Answers(c, d)
BY DEF Answers, Conn

\* dispatch_request: whatever the handler does, an answer is queued.
LEMMA DispatchAnswers ==
  ASSUME NEW c \in Conn
  PROVE  Answers(c, Dispatch(c))
<1>1. Reply(c.req) \in ReplyKind /\ 200 \in FinalStatus
  BY DEF Reply, Conn, Request, ReplyKind, FinalStatus
<1>2. CASE c.req.reply # "sse"
  BY <1>1, <1>2, FinalizeAnswers DEF Dispatch
<1>3. CASE c.req.reply = "sse"
  <2> DEFINE k == [c EXCEPT !.streamed = TRUE, !.keep_alive = (c.req.ver = 1)]
  <2>1. Alike(c, k)
    BY DEF Alike, Conn
  <2>2. /\ <<Part(c, "head", 200)>> \in Seq(OutTok) /\ Len(<<Part(c, "head", 200)>>) > 0
    BY <1>1, OutTokenType, OneIsSeq
  <2>3. SseStart(c) = Queue(k, <<Part(c, "head", 200)>>)
    BY DEF SseStart
  <2>4. Answers(c, SseStart(c))
    <3> HIDE DEF k
    <3>1. Answers(k, SseStart(c))
      BY <2>1, <2>2, <2>3, QueueAnswers DEF Alike
    <3> QED BY <2>1, <3>1, AnswersAlike
  <2> DEFINE m == SseStart(c)
             n == StreamWrite(m)
  <2>5. m \in Conn
    BY <2>4 DEF Answers
  <2>6. Answers(m, n)
    <3> HIDE DEF m
    <3>1. <<Part(m, "chunk", 200)>> \in Seq(OutTok) /\ Len(<<Part(m, "chunk", 200)>>) > 0
      BY <1>1, <2>5, OutTokenType, OneIsSeq
    <3> QED BY <2>5, <3>1, QueueAnswers DEF StreamWrite
  <2>7. Dispatch(c) = FinalizeResponse(n, 200, Reply(c.req))
    BY <1>3 DEF Dispatch
  <2> HIDE DEF m, n
  <2>8. Answers(n, Dispatch(c))
    BY <1>1, <2>6, <2>7, FinalizeAnswers DEF Answers
  <2>9. Answers(c, n)
    BY <2>4, <2>6, AnswersTwice DEF m
  <2> QED BY <2>8, <2>9, AnswersTwice
<1> QED BY <1>2, <1>3

\* error_response queues an answer as well.
LEMMA ErrorAnswers ==
  ASSUME NEW c \in Conn, NEW code \in FinalStatus
  PROVE  Answers(c, ErrorResponse(c, code))
BY FinalizeAnswers DEF ErrorResponse, ReplyKind

-----------------------------------------------------------------------------
(* Reading.                                                                *)

\* send_continue_100, called with the state of the body that is to be read.
LEMMA SendContinueContinues ==
  ASSUME NEW c \in Conn, c.state \in {"READ_BODY", "READ_CHUNK"}
  PROVE  Continues(c, SendContinue100(c))
<1> DEFINE k == [c EXCEPT !.want_continue = TRUE, !.next_state = c.state]
           s == <<Part(c, "continue", 100)>>
<1>1. k \in Conn /\ k.out = c.out /\ k.out_off = c.out_off /\ k.id = c.id /\ k.next_state = c.state
  BY DEF Conn, ConnState
<1>2. s \in Seq(OutTok) /\ Len(s) > 0
  <2>1. Part(c, "continue", 100) \in OutTok
    BY DEF Part, OutTok, Conn
  <2> QED BY <2>1, OneIsSeq
<1>3. SendContinue100(c) = Queue(k, s)
  BY DEF SendContinue100
<1> HIDE DEF k, s
<1>4. Answers(k, Queue(k, s)) /\ Queue(k, s).next_state = k.next_state
  BY <1>1, <1>2, QueueAnswers
<1> QED BY <1>1, <1>3, <1>4 DEF Answers, Continues

\* The block found by parse_headers ends inside the input.
LEMMA BlockEndInRange ==
  ASSUME NEW in \in Seq(InTok), HasBlock(in)
  PROVE  BlockEnd(in) \in 1 .. Len(in)
BY DEF HasBlock, BlockEnd

\* parse_headers stores a request and leaves the output alone.
LEMMA ParseHeadersAlike ==
  ASSUME NEW c \in Conn, HasBlock(c.in)
  PROVE  Alike(c, ParseHeaders(c)) /\ ParseHeaders(c).state = c.state
<1> DEFINE e == BlockEnd(c.in)
           b == BlockToken(c.in, e)
<1>1. c.in \in Seq(InTok)
  BY DEF Conn
<1>2. e \in 1 .. Len(c.in)
  BY <1>1, BlockEndInRange
<1>3. b \in InTok
  BY <1>1, <1>2 DEF BlockToken, HasRequestLine
<1>4. Stored(c.in, e) \in Request
  <2>1. b.q \in Request
    BY <1>3 DEF InTok
  <2>2. BlankRequest \in Request
    BY DEF BlankRequest, Request, ReplyKind
  <2>3. [BlankRequest EXCEPT !.method = b.q.method, !.ver = b.q.ver] \in Request
    BY <2>1, <2>2 DEF Request
  <2> QED BY <2>1, <2>2, <2>3 DEF Stored
<1>5. AfterBlock(c, e) \in Seq(InTok)
  BY <1>1, <1>2, ConsumeIsSeq DEF AfterBlock
<1>6. ParseHeaders(c) = [c EXCEPT !.num = b.r, !.req = Stored(c.in, e), !.in = AfterBlock(c, e)]
  BY DEF ParseHeaders
<1>7. b.r \in Nat
  BY <1>3 DEF InTok
<1> HIDE DEF e, b
<1> QED BY <1>4, <1>5, <1>6, <1>7 DEF Alike, Conn

\* What one call of http_read_step may do to a connection that is read from.
Step(c, d) == Answers(c, d) \/ Continues(c, d) \/ Waits(c, d)

\* A step after a change that leaves the output alone is a step.
LEMMA StepAlike ==
  ASSUME NEW c \in Conn, NEW k, Alike(c, k), NEW d, Step(k, d)
  PROVE  Step(c, d)
BY DEF Alike, Step, Answers, Continues, Waits

\* Moving bytes from the input to the body leaves the output alone.
LEMMA BodyAlike ==
  ASSUME NEW c \in Conn, NEW b \in Nat, NEW s \in Seq(InTok), NEW n \in Nat
  PROVE  /\ Alike(c, [c EXCEPT !.body = b, !.in = s, !.body_remaining = n])
         /\ Alike(c, [c EXCEPT !.body = b, !.in = s])
BY DEF Alike, Conn

\* read_body_clength takes no more than there is and no more than is due.
LEMMA ReadBodyLengthSteps ==
  ASSUME NEW c \in Conn, c.state = "READ_BODY"
  PROVE  Step(c, ReadBodyLength(c))
<1> DEFINE take == BodyTake(c)
           k == [c EXCEPT !.body = @ + take, !.in = Consume(@, take),
                          !.body_remaining = @ - take]
<1>1. take \in Nat /\ take <= c.body_remaining /\ take <= Len(c.in)
  <2>1. c.body_remaining \in Nat /\ Len(c.in) \in Nat
    BY DEF Conn
  <2> QED BY <2>1, SmallerIsLength DEF BodyTake
<1>2. Consume(c.in, take) \in Seq(InTok)
  <2>1. c.in \in Seq(InTok) /\ take \in 0 .. Len(c.in)
    BY <1>1 DEF Conn
  <2> QED BY <2>1, ConsumeIsSeq
<1>3. ReadBodyLength(c) = IF take >= c.body_remaining THEN Dispatch(k) ELSE k
  BY DEF ReadBodyLength
<1>4. Alike(c, k) /\ k.state = "READ_BODY"
  <2>1. c.body + take \in Nat /\ c.body_remaining - take \in Nat
    BY <1>1 DEF Conn
  <2>2. k = [c EXCEPT !.body = c.body + take, !.in = Consume(c.in, take),
                      !.body_remaining = c.body_remaining - take]
    OBVIOUS
  <2>3. k.state = c.state
    BY DEF Conn
  <2> HIDE DEF take, k
  <2> QED BY <1>2, <2>1, <2>2, <2>3, BodyAlike
<1> HIDE DEF take, k
<1>5. CASE take >= c.body_remaining
  BY <1>3, <1>4, <1>5, DispatchAnswers, AnswersAlike DEF Alike, Step
<1>6. CASE ~(take >= c.body_remaining)
  BY <1>3, <1>4, <1>6 DEF Alike, Step, Waits
<1> QED BY <1>5, <1>6

\* Decoding chunks moves input to the body and leaves the output alone.
LEMMA DecodedAlike ==
  ASSUME NEW c \in Conn, NEW n \in 0 .. Len(c.in)
  PROVE  /\ Alike(c, Decoded(c, n))
         /\ Decoded(c, n).state = c.state
         /\ Len(Decoded(c, n).in) = Len(c.in) - n
<1>1. Consume(c.in, n) \in Seq(InTok) /\ Len(Consume(c.in, n)) = Len(c.in) - n
  <2>1. c.in \in Seq(InTok)
    BY DEF Conn
  <2> QED BY <2>1, ConsumeIsSeq
<1>2. c.body + n \in Nat
  BY DEF Conn
<1> DEFINE s == Consume(c.in, n)
<1>3. Decoded(c, n) = [c EXCEPT !.body = c.body + n, !.in = s]
  BY DEF Decoded
<1>4. Decoded(c, n).state = c.state /\ Decoded(c, n).in = s
  BY <1>3 DEF Conn
<1> HIDE DEF s
<1>5. Alike(c, Decoded(c, n))
  BY <1>1, <1>2, <1>3, BodyAlike DEF s
<1> QED BY <1>1, <1>4, <1>5 DEF s

\* read_body_chunked waits for more, or ends in an answer.
LEMMA ReadBodyChunkedSteps ==
  ASSUME NEW c \in Conn, c.state = "READ_CHUNK"
  PROVE  Step(c, ReadBodyChunked(c))
<1>0. c.in \in Seq(InTok) /\ Len(c.in) \in Nat
  BY DEF Conn
<1>1. CASE ~HasStop(c) \/ Wraps(c)
  <2>1. Alike(c, Decoded(c, Len(c.in))) /\ Decoded(c, Len(c.in)).state = "READ_CHUNK"
    BY <1>0, DecodedAlike
  <2> QED BY <1>1, <2>1 DEF ReadBodyChunked, Alike, Step, Waits
<1>2. CASE HasStop(c) /\ ~Wraps(c)
  <2> DEFINE k == StopAt(c)
             d == Decoded(c, k - 1)
  <2>1. k \in 1 .. Len(c.in)
    BY <1>2 DEF HasStop, StopAt
  <2>2. Alike(c, d) /\ Len(d.in) = Len(c.in) - (k - 1)
    <3>1. k - 1 \in 0 .. Len(c.in)
      BY <1>0, <2>1
    <3> HIDE DEF k
    <3> QED BY <3>1, DecodedAlike
  <2>3. d \in Conn
    BY <2>2 DEF Alike
  <2>4. ReadBodyChunked(c) \in
          {Dispatch(AfterLast(d)), ErrorResponse(d, 413), ErrorResponse(d, 400)}
    BY <1>2 DEF ReadBodyChunked
  <2> HIDE DEF k, d
  <2>5. Alike(c, AfterLast(d))
    <3>1. d.in \in Seq(InTok) /\ 1 \in 0 .. Len(d.in)
      BY <1>0, <2>1, <2>2, <2>3 DEF Conn
    <3>2. Consume(d.in, 1) \in Seq(InTok)
      BY <3>1, ConsumeIsSeq
    <3> QED BY <2>2, <2>3, <3>2 DEF AfterLast, Alike, Conn
  <2>6. Answers(c, Dispatch(AfterLast(d)))
    BY <2>5, DispatchAnswers, AnswersAlike DEF Alike
  <2>7. Answers(c, ErrorResponse(d, 413)) /\ Answers(c, ErrorResponse(d, 400))
    BY <2>2, <2>3, ErrorAnswers, AnswersAlike DEF FinalStatus
  <2> QED BY <2>4, <2>6, <2>7 DEF Step
<1> QED BY <1>1, <1>2

\* A body, once its headers are known, is waited for, answered or invited.
LEMMA ReadAfterHeadersSteps ==
  ASSUME NEW c \in Conn, c.state \in {"READ_BODY", "READ_CHUNK"}
  PROVE  Step(c, ReadAfterHeaders(c)) /\ Step(c, ReadBody(c))
<1>1. Step(c, ReadBody(c))
  BY ReadBodyLengthSteps, ReadBodyChunkedSteps DEF ReadBody
<1>2. Step(c, SendContinue100(c))
  BY SendContinueContinues DEF Step
<1> QED BY <1>1, <1>2 DEF ReadAfterHeaders

\* begin_body chooses how the body is read and goes on from there.
LEMMA BeginBodySteps ==
  ASSUME NEW c \in Conn
  PROVE  Step(c, BeginBody(c))
<1> DEFINE q == c.req
           chunk == [c EXCEPT !.state = "READ_CHUNK"]
           length == [c EXCEPT !.state = "READ_BODY", !.body_remaining = q.size]
<1>1. Alike(c, chunk) /\ chunk.state = "READ_CHUNK"
  BY DEF Alike, Conn, ConnState
<1>2. Alike(c, length) /\ length.state = "READ_BODY"
  BY DEF Alike, Conn, ConnState, Request
<1>3. BeginBody(c) \in
        {ReadAfterHeaders(chunk), ReadAfterHeaders(length),
         ErrorResponse(c, 400), ErrorResponse(c, 413), Dispatch(c)}
  BY MaxBodyAssumption DEF BeginBody, Conn, Request
<1> HIDE DEF chunk, length
<1>4. Step(c, ReadAfterHeaders(chunk))
  <2>1. Step(chunk, ReadAfterHeaders(chunk))
    BY <1>1, ReadAfterHeadersSteps DEF Alike
  <2> QED BY <1>1, <2>1, StepAlike
<1>5. Step(c, ReadAfterHeaders(length))
  <2>1. Step(length, ReadAfterHeaders(length))
    BY <1>2, ReadAfterHeadersSteps DEF Alike
  <2> QED BY <1>2, <2>1, StepAlike
<1>6. Step(c, ErrorResponse(c, 400)) /\ Step(c, ErrorResponse(c, 413))
  BY ErrorAnswers DEF Step, FinalStatus
<1>7. Step(c, Dispatch(c))
  BY DispatchAnswers DEF Step
<1> QED BY <1>3, <1>4, <1>5, <1>6, <1>7

(***************************************************************************)
(* http_read_step on any input: nothing in CONN_WRITE; otherwise it waits  *)
(* with the output untouched, or queues a 100 Continue, or an answer.      *)
(***************************************************************************)
THEOREM ReadStepEffect ==
  ASSUME NEW c \in Conn
  PROVE  IF c.state = "WRITE" THEN ReadStep(c) = c ELSE Step(c, ReadStep(c))
<1>1. CASE c.state = "WRITE"
  BY <1>1 DEF ReadStep, ReadBody
<1>2. CASE c.state \in {"READ_BODY", "READ_CHUNK"}
  BY <1>2, ReadAfterHeadersSteps DEF ReadStep
<1>3. CASE c.state = "READ_HEADERS"
  <2>1. ReadStep(c) = ReadHeaders(c)
    BY <1>3 DEF ReadStep
  <2>2. CASE ~HasBlock(c.in)
    BY <1>3, <2>1, <2>2 DEF ReadHeaders, Step, Waits
  <2>3. CASE HasBlock(c.in)
    <3> DEFINE p == ParseHeaders(c)
    <3>1. Alike(c, p)
      BY <2>3, ParseHeadersAlike
    <3>2. ReadHeaders(c) \in {ErrorResponse(p, 400), ErrorResponse(p, 501), BeginBody(p)}
      BY <2>3 DEF ReadHeaders
    <3> HIDE DEF p
    <3>3. p \in Conn
      BY <3>1 DEF Alike
    <3>4. Step(p, ErrorResponse(p, 400)) /\ Step(p, ErrorResponse(p, 501))
      BY <3>3, ErrorAnswers DEF Step, FinalStatus
    <3>5. Step(p, BeginBody(p))
      BY <3>3, BeginBodySteps
    <3>6. Step(p, ReadHeaders(c))
      BY <3>2, <3>4, <3>5
    <3>7. Step(c, ReadHeaders(c))
      BY <3>1, <3>6, StepAlike
    <3> QED BY <1>3, <2>1, <3>7
  <2> QED BY <2>2, <2>3
<1> QED BY <1>1, <1>2, <1>3 DEF Conn, ConnState

-----------------------------------------------------------------------------
(* What a read adds to the output, and takes from the input: nothing, a    *)
(* 100 Continue, or one whole response to the request at hand.             *)

\* b may come after a inside a response.
Within(a, b) ==
  \/ a.t = "head" /\ b.t \in {"body", "chunk"}
  \/ a.t = "chunk" /\ b.t \in {"chunk", "fin"}

\* toks is one whole final response to request n, of status code.
Whole(toks, n, code) ==
  /\ toks \in Seq(OutTok)
  /\ Len(toks) >= 1
  /\ toks[1].t = "head"
  /\ \A j \in 1 .. Len(toks) : toks[j].r = n
  /\ toks[Len(toks)].eom /\ toks[Len(toks)].code = code
  /\ \A j \in 1 .. (Len(toks) - 1) : ~toks[j].eom /\ Within(toks[j], toks[j + 1])

\* Not yet answered.
Fresh(c) == ~c.streamed /\ ~c.keep_alive /\ ~c.want_continue

\* d is c after a response to the request of c has been queued; keep_alive
\* is decided by the request, but for SSE and for errors.
RespondsTo(c, d) ==
  /\ d.state = "WRITE" /\ ~d.want_continue
  /\ \E toks \in Seq(OutTok), code \in FinalStatus :
       /\ Whole(toks, c.num, code)
       /\ d.out = c.out \o toks
       /\ code = 200 /\ c.req.reply # "sse" => d.keep_alive = DecideKeepAlive(c)

Responds(c, d) == RespondsTo(c, d) /\ d.in = c.in /\ d.num = c.num

\* The shapes of ResponseBytes and of an SSE answer are whole responses.
LEMMA WholeShapes ==
  ASSUME NEW c \in Conn, NEW code \in FinalStatus
  PROVE  /\ Whole(<<End(c, "head", code)>>, c.num, code)
         /\ Whole(<<Part(c, "head", code), End(c, "body", code)>>, c.num, code)
         /\ Whole(<<Part(c, "head", code), Part(c, "chunk", code), End(c, "fin", code)>>,
                  c.num, code)
<1>1. /\ End(c, "head", code) \in OutTok
      /\ Part(c, "head", code) \in OutTok
      /\ End(c, "body", code) \in OutTok
      /\ Part(c, "chunk", code) \in OutTok
      /\ End(c, "fin", code) \in OutTok
  BY OutTokenType
<1>2. ASSUME NEW kind
      PROVE  /\ Part(c, kind, code).t = kind /\ Part(c, kind, code).r = c.num
             /\ Part(c, kind, code).code = code /\ ~Part(c, kind, code).eom
             /\ End(c, kind, code).t = kind /\ End(c, kind, code).r = c.num
             /\ End(c, kind, code).code = code /\ End(c, kind, code).eom
  BY DEF Part, End
<1>3. Whole(<<End(c, "head", code)>>, c.num, code)
  <2> DEFINE a == End(c, "head", code)
  <2>1. a \in OutTok /\ a.t = "head" /\ a.r = c.num /\ a.code = code /\ a.eom
    BY <1>1, <1>2
  <2> HIDE DEF a
  <2>2. Whole(<<a>>, c.num, code)
    BY <2>1 DEF Whole
  <2> QED BY <2>2 DEF a
<1>4. Whole(<<Part(c, "head", code), End(c, "body", code)>>, c.num, code)
  <2> DEFINE a == Part(c, "head", code)
             b == End(c, "body", code)
  <2>1. /\ a \in OutTok /\ a.t = "head" /\ a.r = c.num /\ ~a.eom
        /\ b \in OutTok /\ b.t = "body" /\ b.r = c.num /\ b.code = code /\ b.eom
    BY <1>1, <1>2
  <2> HIDE DEF a, b
  <2>2. Whole(<<a, b>>, c.num, code)
    BY <2>1 DEF Whole, Within
  <2> QED BY <2>2 DEF a, b
<1>5. Whole(<<Part(c, "head", code), Part(c, "chunk", code), End(c, "fin", code)>>, c.num, code)
  <2> DEFINE a == Part(c, "head", code)
             b == Part(c, "chunk", code)
             e == End(c, "fin", code)
  <2>1. /\ a \in OutTok /\ a.t = "head" /\ a.r = c.num /\ ~a.eom
        /\ b \in OutTok /\ b.t = "chunk" /\ b.r = c.num /\ ~b.eom
        /\ e \in OutTok /\ e.t = "fin" /\ e.r = c.num /\ e.code = code /\ e.eom
    BY <1>1, <1>2
  <2> HIDE DEF a, b, e
  <2>2. Whole(<<a, b, e>>, c.num, code)
    <3>1. <<a, b, e>> \in Seq(OutTok) /\ Len(<<a, b, e>>) = 3
      BY <2>1
    <3> QED BY <2>1, <3>1 DEF Whole, Within
  <2> QED BY <2>2 DEF a, b, e
<1> QED BY <1>3, <1>4, <1>5

\* Three tokens queued one by one.
LEMMA ThreeAppended ==
  ASSUME NEW s \in Seq(OutTok), NEW a \in OutTok, NEW b \in OutTok, NEW e \in OutTok
  PROVE  ((s \o <<a>>) \o <<b>>) \o <<e>> = s \o <<a, b, e>>
<1>1. <<a>> \in Seq(OutTok) /\ <<b>> \in Seq(OutTok) /\ <<e>> \in Seq(OutTok) /\ <<a, b, e>> \in Seq(OutTok)
  OBVIOUS
<1> DEFINE u == s \o <<a>>
           v == u \o <<b>>
           w == v \o <<e>>
           x == s \o <<a, b, e>>
           n == Len(s)
<1>2. n \in Nat
  OBVIOUS
<1>3. u \in Seq(OutTok) /\ Len(u) = n + 1 /\ u[n + 1] = a /\ \A j \in 1 .. n : u[j] = s[j]
  BY <1>1, ConcatProperties
<1> HIDE DEF u
<1>4. /\ v \in Seq(OutTok) /\ Len(v) = n + 2 /\ v[n + 2] = b
      /\ \A j \in 1 .. (n + 1) : v[j] = u[j]
  BY <1>1, <1>2, <1>3, ConcatProperties
<1> HIDE DEF v
<1>5. /\ w \in Seq(OutTok) /\ Len(w) = n + 3 /\ w[n + 3] = e
      /\ \A j \in 1 .. (n + 2) : w[j] = v[j]
  BY <1>1, <1>2, <1>4, ConcatProperties
<1>6. /\ x \in Seq(OutTok) /\ Len(x) = n + 3
      /\ x[n + 1] = a /\ x[n + 2] = b /\ x[n + 3] = e
      /\ \A j \in 1 .. n : x[j] = s[j]
  BY <1>1, <1>2, ConcatProperties
<1> HIDE DEF w, x, n
<1>7. \A j \in 1 .. (n + 3) : w[j] = x[j]
  BY <1>2, <1>3, <1>4, <1>5, <1>6
<1>8. w = x
  BY <1>5, <1>6, <1>7, SeqEqual
<1> QED BY <1>8 DEF u, v, w, x

\* d has queued a response of status code to the request of c.
AnsweredWith(c, d, code) ==
  /\ d.state = "WRITE" /\ ~d.want_continue
  /\ \E toks \in Seq(OutTok) : Whole(toks, c.num, code) /\ d.out = c.out \o toks

\* d is c but for that response.
Gets(c, d, code) ==
  /\ AnsweredWith(c, d, code)
  /\ d.in = c.in /\ d.num = c.num /\ d.req = c.req /\ d.body = c.body

\* http_finalize_response queues a whole response when nothing was streamed.
LEMMA FinalizeGets ==
  ASSUME NEW c \in Conn, NEW code \in FinalStatus, NEW reply \in ReplyKind, Fresh(c)
  PROVE  /\ Gets(c, FinalizeResponse(c, code, reply), code)
         /\ FinalizeResponse(c, code, reply).keep_alive = DecideKeepAlive(c)
<1> DEFINE k == [c EXCEPT !.keep_alive = DecideKeepAlive(c)]
           toks == ResponseBytes(c, code, reply)
           d == FinalizeResponse(c, code, reply)
<1>1. d = Queue(k, toks)
  BY DEF FinalizeResponse, Fresh
<1>2. Whole(toks, c.num, code)
  <2>1. toks \in {<<End(c, "head", code)>>,
                  <<Part(c, "head", code), End(c, "body", code)>>,
                  <<Part(c, "head", code), Part(c, "chunk", code), End(c, "fin", code)>>}
    BY DEF ResponseBytes
  <2> HIDE DEF toks
  <2> QED BY <2>1, WholeShapes
<1>3. toks \in Seq(OutTok)
  BY <1>2 DEF Whole
<1>4. /\ k.out = c.out /\ k.in = c.in /\ k.num = c.num /\ k.req = c.req /\ k.body = c.body
      /\ k.want_continue = c.want_continue /\ k.keep_alive = DecideKeepAlive(c)
      /\ "out" \in DOMAIN k /\ "state" \in DOMAIN k
  BY DEF Conn
<1> HIDE DEF toks, k
<1>5. /\ d.out = c.out \o toks /\ d.state = "WRITE" /\ d.in = c.in /\ d.num = c.num
      /\ d.want_continue = c.want_continue /\ d.keep_alive = DecideKeepAlive(c)
      /\ d.req = c.req /\ d.body = c.body
  BY <1>1, <1>4 DEF Queue
<1> HIDE DEF d
<1>6. Gets(c, d, code)
  BY <1>2, <1>3, <1>5 DEF Gets, AnsweredWith, Fresh
<1> QED BY <1>5, <1>6 DEF d

\* So it responds to the request at hand.
LEMMA FinalizeResponds ==
  ASSUME NEW c \in Conn, NEW code \in FinalStatus, NEW reply \in ReplyKind, Fresh(c)
  PROVE  Responds(c, FinalizeResponse(c, code, reply))
BY FinalizeGets DEF Gets, AnsweredWith, Responds, RespondsTo

\* dispatch_request queues a whole response, whatever the handler does.
LEMMA DispatchGets ==
  ASSUME NEW c \in Conn, Fresh(c)
  PROVE  /\ Gets(c, Dispatch(c), 200)
         /\ c.req.reply # "sse" => Dispatch(c).keep_alive = DecideKeepAlive(c)
<1>1. Reply(c.req) \in ReplyKind /\ 200 \in FinalStatus
  BY DEF Reply, Conn, Request, ReplyKind, FinalStatus
<1>2. CASE c.req.reply # "sse"
  BY <1>1, <1>2, FinalizeGets DEF Dispatch
<1>3. CASE c.req.reply = "sse"
  <2> DEFINE a == Part(c, "head", 200)
             b == Part(c, "chunk", 200)
             e == End(c, "fin", 200)
             k == [c EXCEPT !.streamed = TRUE, !.keep_alive = (c.req.ver = 1)]
             m == SseStart(c)
             n == StreamWrite(m)
             d == Dispatch(c)
  <2>1. /\ k.out = c.out /\ k.in = c.in /\ k.num = c.num /\ k.req = c.req /\ k.body = c.body
        /\ k.want_continue = c.want_continue /\ k.streamed
        /\ "out" \in DOMAIN k /\ "state" \in DOMAIN k
    BY DEF Conn
  <2>2. m = Queue(k, <<a>>)
    BY DEF SseStart
  <2> HIDE DEF k
  <2>3. /\ m.out = c.out \o <<a>> /\ m.state = "WRITE" /\ m.in = c.in /\ m.num = c.num
        /\ m.want_continue = c.want_continue /\ m.streamed /\ m.req = c.req /\ m.body = c.body
        /\ "out" \in DOMAIN m /\ "state" \in DOMAIN m
    BY <2>1, <2>2 DEF Queue
  <2>4. Part(m, "chunk", 200) = b
    BY <2>3 DEF Part
  <2> HIDE DEF m
  <2>5. /\ n.out = (c.out \o <<a>>) \o <<b>> /\ n.state = "WRITE" /\ n.in = c.in
        /\ n.num = c.num /\ n.want_continue = c.want_continue /\ n.streamed
        /\ n.req = c.req /\ n.body = c.body
        /\ "out" \in DOMAIN n /\ "state" \in DOMAIN n
    BY <2>3, <2>4 DEF Queue, StreamWrite
  <2>6. End(n, "fin", 200) = e
    BY <2>5 DEF End
  <2>7. d = FinalizeResponse(n, 200, Reply(c.req))
    BY <1>3 DEF Dispatch, m
  <2> HIDE DEF n
  <2>8. d = Queue(n, <<e>>)
    BY <2>5, <2>6, <2>7 DEF FinalizeResponse
  <2>9. /\ d.out = ((c.out \o <<a>>) \o <<b>>) \o <<e>> /\ d.state = "WRITE" /\ d.in = c.in
        /\ d.num = c.num /\ d.want_continue = c.want_continue
        /\ d.req = c.req /\ d.body = c.body
    BY <2>5, <2>8 DEF Queue
  <2>10. a \in OutTok /\ b \in OutTok /\ e \in OutTok /\ c.out \in Seq(OutTok)
    BY <1>1, OutTokenType DEF Conn
  <2>11. Whole(<<a, b, e>>, c.num, 200)
    BY <1>1, WholeShapes
  <2> HIDE DEF a, b, e, d
  <2>12. ((c.out \o <<a>>) \o <<b>>) \o <<e>> = c.out \o <<a, b, e>>
    <3> DEFINE s == c.out
    <3>1. s \in Seq(OutTok)
      BY <2>10
    <3> HIDE DEF s
    <3>2. ((s \o <<a>>) \o <<b>>) \o <<e>> = s \o <<a, b, e>>
      BY <2>10, <3>1, ThreeAppended
    <3> QED BY <3>2 DEF s
  <2>13. <<a, b, e>> \in Seq(OutTok)
    BY <2>10
  <2>14. Gets(c, d, 200)
    BY <1>1, <2>9, <2>11, <2>12, <2>13 DEF Gets, AnsweredWith, Fresh
  <2> QED BY <1>3, <2>14 DEF d
<1> QED BY <1>2, <1>3

\* So it responds to the request at hand.
LEMMA DispatchResponds ==
  ASSUME NEW c \in Conn, Fresh(c)
  PROVE  Responds(c, Dispatch(c))
BY DispatchGets DEF Gets, AnsweredWith, Responds, RespondsTo, FinalStatus

\* error_response does so as well.
LEMMA ErrorResponds ==
  ASSUME NEW c \in Conn, NEW code \in FinalStatus, Fresh(c)
  PROVE  Responds(c, ErrorResponse(c, code))
BY FinalizeResponds DEF ErrorResponse, ReplyKind

-----------------------------------------------------------------------------
(* Reading a body.                                                         *)

\* Some of the input of c is used up in d.
Uses(c, d) == \E k \in 0 .. Len(c.in) : d.in = Consume(c.in, k)

\* m is at the same request as c and has queued no more.
Kin(c, m) ==
  /\ m \in Conn /\ Fresh(m) /\ Uses(c, m)
  /\ m.num = c.num /\ m.req = c.req /\ m.out = c.out

\* d waits for more of the body.
Reading(c, d) ==
  /\ d.state \in {"READ_BODY", "READ_CHUNK"} /\ Fresh(d)
  /\ d.req = c.req /\ d.out = c.out

\* d is c after a 100 Continue has been queued.
Inviting(c, d) ==
  /\ d.state = "WRITE" /\ d.want_continue /\ ~d.streamed /\ ~d.keep_alive
  /\ d.req = c.req
  /\ \E tok \in OutTok :
       /\ tok.t = "continue" /\ tok.r = c.num /\ ~tok.eom
       /\ d.out = c.out \o <<tok>>

BodyOutcome(c, d) == Uses(c, d) /\ d.num = c.num /\ (Reading(c, d) \/ RespondsTo(c, d))

\* What is left of a buffer once n tokens are used.
LEMMA ConsumeElements ==
  ASSUME NEW S, NEW s \in Seq(S), NEW n \in 0 .. Len(s)
  PROVE  /\ Consume(s, n) \in Seq(S)
         /\ Len(Consume(s, n)) = Len(s) - n
         /\ \A j \in 1 .. (Len(s) - n) : Consume(s, n)[j] = s[n + j]
BY DEF Consume

\* Using n tokens and then k more is using n + k.
LEMMA ConsumeTwice ==
  ASSUME NEW S, NEW s \in Seq(S), NEW n \in 0 .. Len(s), NEW k \in 0 .. (Len(s) - n)
  PROVE  Consume(Consume(s, n), k) = Consume(s, n + k)
<1> DEFINE t == Consume(s, n)
           u == Consume(t, k)
           v == Consume(s, n + k)
<1>1. /\ t \in Seq(S) /\ Len(t) = Len(s) - n /\ k \in 0 .. Len(t)
      /\ \A j \in 1 .. (Len(s) - n) : t[j] = s[n + j]
  BY ConsumeElements
<1>2. n + k \in 0 .. Len(s) /\ Len(s) \in Nat
  OBVIOUS
<1>3. /\ v \in Seq(S) /\ Len(v) = Len(s) - (n + k)
      /\ \A j \in 1 .. (Len(s) - (n + k)) : v[j] = s[n + k + j]
  BY <1>2, ConsumeElements
<1> HIDE DEF t, v
<1>4. /\ u \in Seq(S) /\ Len(u) = Len(t) - k
      /\ \A j \in 1 .. (Len(t) - k) : u[j] = t[k + j]
  <2>1. t \in Seq(S) /\ k \in 0 .. Len(t)
    BY <1>1
  <2> QED BY <2>1, ConsumeElements
<1> HIDE DEF u
<1>5. Len(u) = Len(v) /\ \A j \in 1 .. Len(u) : u[j] = v[j]
  BY <1>1, <1>2, <1>3, <1>4
<1>6. u = v
  BY <1>3, <1>4, <1>5, SeqEqual
<1> QED BY <1>6 DEF t, u, v

\* Using none is using some.
LEMMA UsesNone ==
  ASSUME NEW c \in Conn, NEW d, d.in = c.in
  PROVE  Uses(c, d)
<1>1. c.in \in Seq(InTok)
  BY DEF Conn
<1>2. Consume(c.in, 0) = c.in
  BY <1>1, SubSeqFull DEF Consume
<1> QED BY <1>1, <1>2 DEF Uses

\* Answering a record that is kin is answering the request at hand.
LEMMA KinResponds ==
  ASSUME NEW c \in Conn, NEW m, Kin(c, m), NEW d, Responds(m, d)
  PROVE  BodyOutcome(c, d)
<1>1. m.in = d.in => Uses(c, d)
  BY DEF Kin, Uses
<1>2. DecideKeepAlive(m) = DecideKeepAlive(c)
  BY DEF Kin, DecideKeepAlive
<1> QED BY <1>1, <1>2 DEF BodyOutcome, Responds, RespondsTo, Kin

\* read_body_clength waits for more or answers.
LEMMA BodyLengthOutcome ==
  ASSUME NEW c \in Conn, c.state = "READ_BODY", Fresh(c)
  PROVE  BodyOutcome(c, ReadBodyLength(c))
<1> DEFINE take == BodyTake(c)
           k == [c EXCEPT !.body = @ + take, !.in = Consume(@, take),
                          !.body_remaining = @ - take]
<1>1. take \in 0 .. Len(c.in) /\ take <= c.body_remaining /\ c.in \in Seq(InTok)
  <2>1. c.body_remaining \in Nat /\ Len(c.in) \in Nat /\ c.in \in Seq(InTok)
    BY DEF Conn
  <2>2. take \in Nat /\ take <= c.body_remaining /\ take <= Len(c.in)
    BY <2>1, SmallerIsLength DEF BodyTake
  <2> QED BY <2>1, <2>2
<1>2. ReadBodyLength(c) = IF take >= c.body_remaining THEN Dispatch(k) ELSE k
  BY DEF ReadBodyLength
<1>3. /\ k.in = Consume(c.in, take) /\ k.num = c.num /\ k.req = c.req /\ k.out = c.out
      /\ k.state = c.state
      /\ k.streamed = c.streamed /\ k.keep_alive = c.keep_alive
      /\ k.want_continue = c.want_continue
  BY DEF Conn
<1>4. k \in Conn
  <2>1. Consume(c.in, take) \in Seq(InTok)
    BY <1>1, ConsumeIsSeq
  <2>2. c.body + take \in Nat /\ c.body_remaining - take \in Nat
    BY <1>1 DEF Conn
  <2>3. k = [c EXCEPT !.body = c.body + take, !.in = Consume(c.in, take),
                      !.body_remaining = c.body_remaining - take]
    OBVIOUS
  <2> HIDE DEF take, k
  <2> QED BY <2>1, <2>2, <2>3, BodyAlike DEF Alike
<1> HIDE DEF take, k
<1>5. Kin(c, k)
  BY <1>1, <1>3, <1>4 DEF Kin, Uses, Fresh
<1>6. CASE take >= c.body_remaining
  BY <1>2, <1>5, <1>6, DispatchResponds, KinResponds DEF Kin
<1>7. CASE ~(take >= c.body_remaining)
  BY <1>2, <1>3, <1>5, <1>7 DEF BodyOutcome, Reading, Kin
<1> QED BY <1>6, <1>7

\* Decoded chunks leave a record that is kin.
LEMMA DecodedKin ==
  ASSUME NEW c \in Conn, NEW n \in 0 .. Len(c.in), Fresh(c)
  PROVE  /\ Kin(c, Decoded(c, n))
         /\ Decoded(c, n).in = Consume(c.in, n)
         /\ Decoded(c, n).state = c.state
<1> DEFINE d == Decoded(c, n)
<1>1. /\ d.in = Consume(c.in, n) /\ d.num = c.num /\ d.req = c.req /\ d.out = c.out
      /\ d.state = c.state
      /\ d.streamed = c.streamed /\ d.keep_alive = c.keep_alive
      /\ d.want_continue = c.want_continue
  BY DEF Decoded, Conn
<1>2. d \in Conn
  BY DecodedAlike DEF Alike
<1> QED BY <1>1, <1>2 DEF Kin, Uses, Fresh

\* read_body_chunked waits for more or answers.
LEMMA BodyChunkedOutcome ==
  ASSUME NEW c \in Conn, c.state = "READ_CHUNK", Fresh(c)
  PROVE  BodyOutcome(c, ReadBodyChunked(c))
<1>0. c.in \in Seq(InTok) /\ Len(c.in) \in Nat
  BY DEF Conn
<1>1. CASE ~HasStop(c) \/ Wraps(c)
  <2> DEFINE d == Decoded(c, Len(c.in))
  <2>1. Kin(c, d) /\ d.state = "READ_CHUNK"
    BY <1>0, DecodedKin
  <2>2. ReadBodyChunked(c) = d
    BY <1>1 DEF ReadBodyChunked
  <2> HIDE DEF d
  <2> QED BY <2>1, <2>2 DEF BodyOutcome, Reading, Kin
<1>2. CASE HasStop(c) /\ ~Wraps(c)
  <2> DEFINE k == StopAt(c)
             d == Decoded(c, k - 1)
             a == AfterLast(d)
  <2>1. k \in 1 .. Len(c.in)
    BY <1>2 DEF HasStop, StopAt
  <2>2. k - 1 \in 0 .. Len(c.in) /\ (k - 1) + 1 = k
    BY <1>0, <2>1
  <2>3. Kin(c, d) /\ d.in = Consume(c.in, k - 1)
    <3> HIDE DEF k
    <3> QED BY <2>2, DecodedKin
  <2>4. ReadBodyChunked(c) \in {Dispatch(a), ErrorResponse(d, 413), ErrorResponse(d, 400)}
    BY <1>2 DEF ReadBodyChunked
  <2> HIDE DEF k, d
  <2>5. Consume(d.in, 1) = Consume(c.in, k) /\ Consume(d.in, 1) \in Seq(InTok)
    <3>1. 1 \in 0 .. (Len(c.in) - (k - 1))
      BY <1>0, <2>1
    <3>2. Consume(Consume(c.in, k - 1), 1) = Consume(c.in, (k - 1) + 1)
      BY <1>0, <2>2, <3>1, ConsumeTwice
    <3>3. Consume(c.in, k) \in Seq(InTok)
      BY <1>0, <2>1, ConsumeIsSeq
    <3> QED BY <2>2, <2>3, <3>2, <3>3
  <2>6. Kin(c, a)
    <3>1. /\ a.in = Consume(d.in, 1) /\ a.num = d.num /\ a.req = d.req /\ a.out = d.out
          /\ a.streamed = d.streamed /\ a.keep_alive = d.keep_alive
          /\ a.want_continue = d.want_continue
      BY <2>3 DEF Kin, AfterLast, Conn
    <3>2. a \in Conn
      BY <2>3, <2>5 DEF Kin, AfterLast, Conn
    <3> HIDE DEF a
    <3> QED BY <2>1, <2>3, <2>5, <3>1, <3>2 DEF Kin, Uses, Fresh
  <2> HIDE DEF a
  <2>7. BodyOutcome(c, Dispatch(a))
    BY <2>6, DispatchResponds, KinResponds DEF Kin
  <2>8. BodyOutcome(c, ErrorResponse(d, 413)) /\ BodyOutcome(c, ErrorResponse(d, 400))
    BY <2>3, ErrorResponds, KinResponds DEF Kin, FinalStatus
  <2> QED BY <2>4, <2>7, <2>8
<1> QED BY <1>1, <1>2

\* Whatever way a body is read.
LEMMA ReadBodyOutcome ==
  ASSUME NEW c \in Conn, c.state \in {"READ_BODY", "READ_CHUNK"}, Fresh(c)
  PROVE  BodyOutcome(c, ReadBody(c))
BY BodyLengthOutcome, BodyChunkedOutcome DEF ReadBody

-----------------------------------------------------------------------------
(* Headers.                                                                *)

\* send_continue_100 queues its one token.
LEMMA ContinueInvites ==
  ASSUME NEW c \in Conn, Fresh(c)
  PROVE  /\ Inviting(c, SendContinue100(c))
         /\ SendContinue100(c).in = c.in
         /\ SendContinue100(c).num = c.num
<1> DEFINE k == [c EXCEPT !.want_continue = TRUE, !.next_state = c.state]
           tok == Part(c, "continue", 100)
           d == SendContinue100(c)
<1>1. /\ k.out = c.out /\ k.in = c.in /\ k.num = c.num /\ k.req = c.req
      /\ k.want_continue /\ k.streamed = c.streamed /\ k.keep_alive = c.keep_alive
      /\ "out" \in DOMAIN k /\ "state" \in DOMAIN k
  BY DEF Conn
<1>2. tok \in OutTok /\ tok.t = "continue" /\ tok.r = c.num /\ ~tok.eom /\ tok.code = 100
  BY DEF Part, OutTok, Conn
<1>3. d = Queue(k, <<tok>>)
  BY DEF SendContinue100
<1> HIDE DEF k, tok
<1>4. /\ d.out = c.out \o <<tok>> /\ d.state = "WRITE" /\ d.in = c.in /\ d.num = c.num
      /\ d.req = c.req /\ d.want_continue /\ d.streamed = c.streamed
      /\ d.keep_alive = c.keep_alive
  BY <1>1, <1>3 DEF Queue
<1> HIDE DEF d
<1>5. Inviting(c, d)
  BY <1>2, <1>4 DEF Inviting, Fresh
<1> QED BY <1>4, <1>5 DEF d

\* What begin_body can lead to.
BeginOutcome(c, d) == BodyOutcome(c, d) \/ (Uses(c, d) /\ d.num = c.num /\ Inviting(c, d))

\* Setting the state for a body changes nothing of what is compared.
LEMMA BeginKin ==
  ASSUME NEW c \in Conn, NEW k, Fresh(c),
         k = [c EXCEPT !.state = "READ_CHUNK"]
           \/ k = [c EXCEPT !.state = "READ_BODY", !.body_remaining = c.req.size]
  PROVE  BeginOutcome(c, ReadAfterHeaders(k))
<1>1. /\ k.in = c.in /\ k.num = c.num /\ k.req = c.req /\ k.out = c.out
      /\ k.streamed = c.streamed /\ k.keep_alive = c.keep_alive
      /\ k.want_continue = c.want_continue /\ k.state \in {"READ_BODY", "READ_CHUNK"}
  BY DEF Conn
<1>2. k \in Conn
  <2>1. c.req.size \in Nat
    BY DEF Conn, Request
  <2>2. [c EXCEPT !.state = "READ_CHUNK"] \in Conn
    BY DEF Conn, ConnState
  <2>3. [c EXCEPT !.state = "READ_BODY", !.body_remaining = c.req.size] \in Conn
    BY <2>1 DEF Conn, ConnState
  <2> QED BY <2>2, <2>3
<1>3. Fresh(k)
  BY <1>1 DEF Fresh
<1>4. ASSUME NEW d, BodyOutcome(k, d)
      PROVE  BodyOutcome(c, d)
  BY <1>1, <1>4 DEF BodyOutcome, Uses, Reading, RespondsTo, DecideKeepAlive
<1>5. BodyOutcome(c, ReadBody(k))
  BY <1>1, <1>2, <1>3, <1>4, ReadBodyOutcome
<1>6. /\ Inviting(c, SendContinue100(k)) /\ SendContinue100(k).num = c.num
      /\ Uses(c, SendContinue100(k))
  <2>1. /\ Inviting(k, SendContinue100(k)) /\ SendContinue100(k).num = c.num
        /\ SendContinue100(k).in = c.in
    BY <1>1, <1>2, <1>3, ContinueInvites
  <2> QED BY <1>1, <2>1, UsesNone DEF Inviting
<1> QED BY <1>5, <1>6 DEF ReadAfterHeaders, BeginOutcome

\* begin_body reads, invites or answers.
LEMMA BeginBodyOutcome ==
  ASSUME NEW c \in Conn, Fresh(c)
  PROVE  BeginOutcome(c, BeginBody(c))
<1> DEFINE chunk == [c EXCEPT !.state = "READ_CHUNK"]
           length == [c EXCEPT !.state = "READ_BODY", !.body_remaining = c.req.size]
<1>1. BeginBody(c) \in
        {ReadAfterHeaders(chunk), ReadAfterHeaders(length),
         ErrorResponse(c, 400), ErrorResponse(c, 413), Dispatch(c)}
  BY MaxBodyAssumption DEF BeginBody, Conn, Request
<1>2. BeginOutcome(c, ReadAfterHeaders(chunk)) /\ BeginOutcome(c, ReadAfterHeaders(length))
  BY BeginKin
<1> HIDE DEF chunk, length
<1>3. Kin(c, c)
  BY UsesNone DEF Kin
<1>4. ASSUME NEW d, Responds(c, d)
      PROVE  BeginOutcome(c, d)
  BY <1>3, <1>4, KinResponds DEF BeginOutcome
<1> QED BY <1>1, <1>2, <1>4, ErrorResponds, DispatchResponds DEF FinalStatus

\* parse_headers finds the first end of a block, however much follows it.
LEMMA BlockEndFirst ==
  ASSUME NEW in \in Seq(InTok), HasBlock(in)
  PROVE  BlockEnd(in) \in 1 .. Len(in) /\ IsBlockEnd(in, BlockEnd(in))
BY DEF HasBlock, BlockEnd

\* There is one first end only.
LEMMA BlockEndUnique ==
  ASSUME NEW in \in Seq(InTok), NEW e \in 1 .. Len(in), IsBlockEnd(in, e)
  PROVE  HasBlock(in) /\ BlockEnd(in) = e
<1>1. HasBlock(in)
  BY DEF HasBlock
<1> DEFINE b == BlockEnd(in)
<1>2. b \in 1 .. Len(in) /\ IsBlockEnd(in, b)
  BY <1>1, BlockEndFirst
<1> HIDE DEF b
<1>3. ~(b < e) /\ ~(e < b)
  BY <1>2 DEF IsBlockEnd
<1>4. b = e
  BY <1>2, <1>3
<1> QED BY <1>1, <1>4 DEF b

\* The token that names the block's request is one of its tokens.
LEMMA BlockTokenPlace ==
  ASSUME NEW in \in Seq(InTok), NEW e \in 1 .. Len(in)
  PROVE  /\ \E k \in 1 .. e : BlockToken(in, e) = in[k]
         /\ WellFormed(in, e) => e - 1 \in 1 .. e /\ BlockToken(in, e) = in[e - 1]
         /\ BlockToken(in, e) \in InTok
<1>1. CASE HasRequestLine(in, e)
  BY <1>1 DEF HasRequestLine, BlockToken
<1>2. CASE ~HasRequestLine(in, e)
  BY <1>2 DEF BlockToken, WellFormed
<1> QED BY <1>1, <1>2

\* More input behind a block changes nothing of it.
LEMMA BlockStable ==
  ASSUME NEW s \in Seq(InTok), NEW t \in Seq(InTok), HasBlock(s)
  PROVE  /\ HasBlock(s \o t)
         /\ BlockEnd(s \o t) = BlockEnd(s)
         /\ BlockToken(s \o t, BlockEnd(s)) = BlockToken(s, BlockEnd(s))
<1> DEFINE e == BlockEnd(s)
           u == s \o t
<1>1. e \in 1 .. Len(s) /\ IsBlockEnd(s, e)
  BY BlockEndFirst
<1>2. /\ u \in Seq(InTok) /\ Len(u) = Len(s) + Len(t) /\ Len(s) \in Nat /\ Len(t) \in Nat
      /\ \A j \in 1 .. Len(s) : u[j] = s[j]
  BY ConcatProperties
<1> HIDE DEF e, u
<1>3. e \in 1 .. Len(u) /\ Len(s) <= Len(u)
  BY <1>1, <1>2
<1>4. ASSUME NEW j \in 1 .. e
      PROVE  u[j] = s[j]
  <2>1. j \in 1 .. Len(s)
    BY <1>1, <1>2
  <2> QED BY <1>2, <2>1
<1>5. e \in 1 .. e /\ \A j \in 1 .. (e - 1) : j \in 1 .. e
  BY <1>1
<1>6. e \in 1 .. Len(u) /\ IsBlockEnd(u, e)
  BY <1>1, <1>3, <1>4, <1>5 DEF IsBlockEnd
<1>7. HasBlock(u) /\ BlockEnd(u) = e
  BY <1>2, <1>6, BlockEndUnique
<1>8. HasRequestLine(u, e) <=> HasRequestLine(s, e)
  <2>1. e >= 2 => e - 1 \in 1 .. e
    BY <1>1
  <2>2. \A j \in 1 .. (e - 2) : j \in 1 .. e
    BY <1>1
  <2> QED BY <1>4, <1>5, <2>1, <2>2 DEF HasRequestLine
<1>9. BlockToken(u, e) = BlockToken(s, e)
  <2>1. u[1] = s[1] /\ (e >= 2 => u[e - 1] = s[e - 1])
    <3>1. 1 \in 1 .. e /\ (e >= 2 => e - 1 \in 1 .. e)
      BY <1>1
    <3> QED BY <1>4, <3>1
  <2>2. HasRequestLine(s, e) => e >= 2
    BY DEF HasRequestLine
  <2> QED BY <1>8, <2>1, <2>2 DEF BlockToken
<1> QED BY <1>7, <1>9 DEF e, u

\* What http_read_step makes of a header block: the request of the block is
\* refused with its block left in the input, or the block is used up.
HeadersOutcome(c, d) ==
  LET e == BlockEnd(c.in)
      p == [num |-> BlockToken(c.in, e).r, req |-> BlockToken(c.in, e).q, out |-> c.out]
  IN  /\ d.num = p.num
      /\ \/ d.in = c.in /\ RespondsTo(p, d)
         \/ /\ WellFormed(c.in, e)
            /\ \E k \in e .. Len(c.in) : d.in = Consume(c.in, k)
            /\ Reading(p, d) \/ Inviting(p, d) \/ RespondsTo(p, d)

\* begin_body's outcome, seen from before parse_headers.
LEMMA ParsedOutcome ==
  ASSUME NEW c \in Conn, HasBlock(c.in), WellFormed(c.in, BlockEnd(c.in)),
         NEW d, BeginOutcome(ParseHeaders(c), d)
  PROVE  HeadersOutcome(c, d)
<1> DEFINE e == BlockEnd(c.in)
           b == BlockToken(c.in, e)
           m == ParseHeaders(c)
           p == [num |-> b.r, req |-> b.q, out |-> c.out]
<1>1. c.in \in Seq(InTok) /\ Len(c.in) \in Nat /\ e \in 1 .. Len(c.in)
  BY BlockEndFirst DEF Conn
<1>2. m.num = p.num /\ m.req = p.req /\ m.out = p.out /\ m.in = Consume(c.in, e)
  BY DEF ParseHeaders, Conn, Stored, WellFormed, AfterBlock
<1>3. d.num = m.num /\ Uses(m, d)
  BY DEF BeginOutcome, BodyOutcome
<1>4. Reading(m, d) \/ Inviting(m, d) \/ RespondsTo(m, d)
  BY DEF BeginOutcome, BodyOutcome
<1>5. WellFormed(c.in, e)
  OBVIOUS
<1> HIDE DEF m, p, e
<1>6. Reading(p, d) \/ Inviting(p, d) \/ RespondsTo(p, d)
  <2>1. Reading(m, d) => Reading(p, d)
    BY <1>2 DEF Reading
  <2>2. Inviting(m, d) => Inviting(p, d)
    BY <1>2 DEF Inviting
  <2>3. DecideKeepAlive(m) = DecideKeepAlive(p)
    BY <1>2 DEF DecideKeepAlive
  <2>4. RespondsTo(m, d) => RespondsTo(p, d)
    BY <1>2, <2>3 DEF RespondsTo
  <2> QED BY <1>4, <2>1, <2>2, <2>4
<1>7. \E k \in e .. Len(c.in) : d.in = Consume(c.in, k)
  <2>1. Len(m.in) = Len(c.in) - e
    <3>1. e \in 0 .. Len(c.in)
      BY <1>1
    <3> QED BY <1>1, <1>2, <3>1, ConsumeElements
  <2>2. PICK j \in 0 .. (Len(c.in) - e) : d.in = Consume(m.in, j)
    BY <1>3, <2>1 DEF Uses
  <2>3. Consume(Consume(c.in, e), j) = Consume(c.in, e + j)
    BY <1>1, ConsumeTwice
  <2>4. e + j \in e .. Len(c.in)
    BY <1>1
  <2> QED BY <1>2, <2>2, <2>3, <2>4
<1> QED BY <1>2, <1>3, <1>5, <1>6, <1>7 DEF HeadersOutcome, p, e

\* http_read_step while headers are read.
LEMMA ReadHeadersOutcome ==
  ASSUME NEW c \in Conn, HasBlock(c.in), Fresh(c)
  PROVE  HeadersOutcome(c, ReadHeaders(c))
<1> DEFINE e == BlockEnd(c.in)
           b == BlockToken(c.in, e)
           m == ParseHeaders(c)
           d == ReadHeaders(c)
           p == [num |-> b.r, req |-> b.q, out |-> c.out]
<1>1. m \in Conn /\ Fresh(m)
  <2>1. m \in Conn /\ m.want_continue = c.want_continue
    BY ParseHeadersAlike DEF Alike
  <2>2. m.streamed = c.streamed /\ m.keep_alive = c.keep_alive
    BY DEF ParseHeaders, Conn
  <2> QED BY <2>1, <2>2 DEF Fresh
<1>2. m.num = p.num /\ m.out = p.out /\ (~WellFormed(c.in, e) => m.in = c.in)
  BY DEF ParseHeaders, Conn, AfterBlock
<1>3. CASE ~WellFormed(c.in, e)
  <2>1. d = ErrorResponse(m, 400)
    BY <1>3 DEF ReadHeaders
  <2> HIDE DEF m, d, p
  <2>2. Gets(m, d, 400)
    BY <1>1, <2>1, FinalizeGets DEF ErrorResponse, FinalStatus, ReplyKind
  <2>3. RespondsTo(p, d)
    <3>1. PICK toks \in Seq(OutTok) : Whole(toks, p.num, 400) /\ d.out = p.out \o toks
      BY <1>2, <2>2 DEF Gets, AnsweredWith
    <3>2. 400 \in FinalStatus /\ 400 # 200 /\ d.state = "WRITE" /\ ~d.want_continue
      BY <2>2 DEF Gets, AnsweredWith, FinalStatus
    <3> QED BY <3>1, <3>2 DEF RespondsTo
  <2> QED BY <1>2, <1>3, <2>2, <2>3 DEF HeadersOutcome, Gets, p, d
<1>4. CASE WellFormed(c.in, e)
  <2>1. d \in {ErrorResponse(m, 501), BeginBody(m)}
    BY <1>4 DEF ReadHeaders
  <2>2. Kin(m, m)
    BY <1>1, UsesNone DEF Kin
  <2> HIDE DEF m, d
  <2>3. BeginOutcome(m, ErrorResponse(m, 501))
    BY <1>1, <2>2, ErrorResponds, KinResponds DEF BeginOutcome, FinalStatus
  <2>4. BeginOutcome(m, d)
    BY <1>1, <2>1, <2>3, BeginBodyOutcome
  <2> QED BY <1>4, <2>4, ParsedOutcome DEF m, d
<1> QED BY <1>3, <1>4

(***************************************************************************)
(* http_read_step, in every state a connection can be read from.           *)
(***************************************************************************)
THEOREM ReadStepOutcome ==
  ASSUME NEW c \in Conn, c.state # "WRITE", Fresh(c)
  PROVE  \/ c.state = "READ_HEADERS" /\ ~HasBlock(c.in) /\ ReadStep(c) = c
         \/ c.state = "READ_HEADERS" /\ HasBlock(c.in) /\ HeadersOutcome(c, ReadStep(c))
         \/ c.state # "READ_HEADERS" /\ BodyOutcome(c, ReadStep(c))
<1>1. CASE c.state = "READ_HEADERS" /\ ~HasBlock(c.in)
  BY <1>1 DEF ReadStep, ReadHeaders
<1>2. CASE c.state = "READ_HEADERS" /\ HasBlock(c.in)
  BY <1>2, ReadHeadersOutcome DEF ReadStep
<1>3. CASE c.state # "READ_HEADERS"
  <2>1. c.state \in {"READ_BODY", "READ_CHUNK"}
    BY <1>3 DEF Conn, ConnState
  <2> QED BY <1>3, <2>1, ReadBodyOutcome DEF ReadStep
<1> QED BY <1>1, <1>2, <1>3

-----------------------------------------------------------------------------
(* How much of a body a read takes, and which body.                        *)

\* The status of the answer is that of its last token, the last one queued.
LEMMA LastCode ==
  ASSUME NEW c, c.out \in Seq(OutTok), NEW d, NEW code, AnsweredWith(c, d, code)
  PROVE  d.out # <<>> /\ d.out[Len(d.out)].code = code
<1>1. PICK toks \in Seq(OutTok) : Whole(toks, c.num, code) /\ d.out = c.out \o toks
  BY DEF AnsweredWith
<1> DEFINE s == c.out
           u == s \o toks
<1>2. toks[Len(toks)].code = code /\ Len(toks) >= 1
  BY <1>1 DEF Whole
<1>3. /\ Len(u) = Len(s) + Len(toks) /\ Len(s) \in Nat /\ Len(toks) \in Nat
      /\ \A j \in 1 .. Len(s) + Len(toks) : u[j] = IF j <= Len(s) THEN s[j] ELSE toks[j - Len(s)]
  BY <1>1, ConcatProperties
<1> HIDE DEF u, s
<1>4. u[Len(u)] = toks[Len(toks)] /\ Len(u) >= 1
  BY <1>2, <1>3
<1>5. u # <<>>
  BY <1>4
<1> QED BY <1>1, <1>2, <1>4, <1>5 DEF u, s

\* Nothing queued, and more of the same request to be read.
Awaiting(c, d) ==
  /\ Fresh(d) /\ d.out = c.out /\ d.num = c.num /\ d.req = c.req
  /\ d.state = c.state

\* read_body_clength: d has taken k tokens of the body, all there were or all
\* that were due.
LengthRead(c, d) ==
  \E k \in 0 .. Len(c.in) :
    /\ d.in = Consume(c.in, k) /\ d.num = c.num /\ d.req = c.req /\ d.body = c.body + k
    /\ \/ /\ k = Len(c.in) /\ k < c.body_remaining
          /\ Awaiting(c, d) /\ d.body_remaining = c.body_remaining - k
       \/ k = c.body_remaining /\ AnsweredWith(c, d, 200)

AllChunks(in, k) == \A j \in 1 .. k : in[j].t = "chunk"

\* d has taken a chunk of c whose size wraps around.
Overran(c, d) == d.state = "READ_CHUNK" /\ d.body > c.body /\ HasHuge(c.in)

\* read_body_chunked: d has taken k tokens, all there were, or up to the last
\* one, or up to the one it refuses.
ChunkRead(c, d) ==
  \E k \in 0 .. Len(c.in) :
    /\ d.in = Consume(c.in, k) /\ d.num = c.num /\ d.req = c.req
    /\ c.body <= MaxBody => d.body <= MaxBody \/ Overran(c, d)
    /\ \/ Overran(c, d) /\ Awaiting(c, d)
       \/ /\ k = Len(c.in) /\ AllChunks(c.in, k) /\ d.body = c.body + k
          /\ Awaiting(c, d)
       \/ /\ k >= 1 /\ c.in[k].t = "last" /\ AllChunks(c.in, k - 1)
          /\ d.body = c.body + (k - 1) /\ AnsweredWith(c, d, 200)
       \/ /\ k < Len(c.in) /\ AllChunks(c.in, k) /\ d.body = c.body + k
          /\ c.in[k + 1].t # "last"
          /\ c.in[k + 1].t = "chunk" => c.body + k + 1 > MaxBody
          /\ AnsweredWith(c, d, 400) \/ AnsweredWith(c, d, 413)

\* An answer to a record with the same number and output is one to this.
LEMMA AnsweredAlike ==
  ASSUME NEW c, NEW k, k.num = c.num, k.out = c.out, NEW d, NEW code, AnsweredWith(k, d, code)
  PROVE  AnsweredWith(c, d, code)
BY DEF AnsweredWith

\* read_body_clength counts what it takes.
LEMMA BodyLengthCount ==
  ASSUME NEW c \in Conn, c.state = "READ_BODY", Fresh(c)
  PROVE  LengthRead(c, ReadBodyLength(c))
<1> DEFINE take == BodyTake(c)
           k == [c EXCEPT !.body = @ + take, !.in = Consume(@, take),
                          !.body_remaining = @ - take]
           d == ReadBodyLength(c)
<1>1. /\ take \in 0 .. Len(c.in) /\ take <= c.body_remaining /\ c.body_remaining \in Nat
      /\ take = c.body_remaining \/ take = Len(c.in)
  <2>1. c.body_remaining \in Nat /\ Len(c.in) \in Nat
    BY DEF Conn
  <2> QED BY <2>1, SmallerIsLength DEF BodyTake, Smaller
<1>2. d = IF take >= c.body_remaining THEN Dispatch(k) ELSE k
  BY DEF ReadBodyLength
<1>3. /\ k.in = Consume(c.in, take) /\ k.num = c.num /\ k.req = c.req /\ k.out = c.out
      /\ k.body = c.body + take /\ k.body_remaining = c.body_remaining - take
      /\ k.state = c.state /\ k.streamed = c.streamed /\ k.keep_alive = c.keep_alive
      /\ k.want_continue = c.want_continue
  BY DEF Conn
<1>4. k \in Conn
  <2>1. Consume(c.in, take) \in Seq(InTok)
    BY <1>1, ConsumeIsSeq DEF Conn
  <2>2. c.body + take \in Nat /\ c.body_remaining - take \in Nat
    BY <1>1 DEF Conn
  <2>3. k = [c EXCEPT !.body = c.body + take, !.in = Consume(c.in, take),
                      !.body_remaining = c.body_remaining - take]
    OBVIOUS
  <2> HIDE DEF take, k
  <2> QED BY <2>1, <2>2, <2>3, BodyAlike DEF Alike
<1> HIDE DEF take, k, d
<1>5. Fresh(k)
  BY <1>3 DEF Fresh
<1>6. CASE take >= c.body_remaining
  <2>1. Gets(k, d, 200) /\ take = c.body_remaining
    BY <1>1, <1>2, <1>4, <1>5, <1>6, DispatchGets
  <2>2. AnsweredWith(c, d, 200)
    BY <1>3, <2>1, AnsweredAlike DEF Gets
  <2>3. d.in = Consume(c.in, take) /\ d.num = c.num /\ d.req = c.req /\ d.body = c.body + take
    BY <1>3, <2>1 DEF Gets
  <2>4. LengthRead(c, d)
    BY <1>1, <2>1, <2>2, <2>3 DEF LengthRead
  <2> QED BY <2>4 DEF d
<1>7. CASE ~(take >= c.body_remaining)
  <2>1. d = k /\ take = Len(c.in) /\ take < c.body_remaining
    BY <1>1, <1>2, <1>7
  <2>2. Awaiting(c, d)
    BY <1>3, <1>5, <2>1 DEF Awaiting
  <2>3. LengthRead(c, d)
    BY <1>1, <1>3, <2>1, <2>2 DEF LengthRead
  <2> QED BY <2>3 DEF d
<1> QED BY <1>6, <1>7

\* The decoder finds nothing to stop at only when all it has are chunks that
\* fit.
LEMMA NoStop ==
  ASSUME NEW c \in Conn, ~HasStop(c), NEW k \in 1 .. Len(c.in)
  PROVE  c.in[k].t = "chunk" /\ c.body + k <= MaxBody
<1> DEFINE Bad(j) == c.in[j].t # "chunk" \/ c.body + j > MaxBody
           S == {j \in 1 .. Len(c.in) : Bad(j)}
<1>0. c.body \in Nat /\ MaxBody \in Nat /\ Len(c.in) \in Nat
  BY MaxBodyAssumption DEF Conn
<1>1. SUFFICES ASSUME Bad(k)
               PROVE  FALSE
  BY <1>0
<1>2. S \in SUBSET Nat /\ S # {}
  BY <1>1
<1>3. PICK m \in S : \A j \in S : m <= j
  <2> HIDE DEF S
  <2> QED BY <1>2, LeastNumber
<1>4. ASSUME NEW j \in 1 .. (m - 1)
      PROVE  c.in[j].t = "chunk" /\ c.body + j <= MaxBody
  <2>1. j \in 1 .. Len(c.in) /\ ~(m <= j) /\ j \in Nat
    BY <1>0, <1>3
  <2>2. j \notin S
    BY <1>3, <2>1
  <2>3. ~Bad(j)
    BY <2>1, <2>2
  <2> QED BY <1>0, <2>1, <2>3
<1>5. IsStop(c, m) /\ m \in 1 .. Len(c.in)
  BY <1>3, <1>4 DEF IsStop
<1> QED BY <1>5 DEF HasStop

\* read_body_chunked counts what it decodes.
LEMMA BodyChunkedCount ==
  ASSUME NEW c \in Conn, c.state = "READ_CHUNK", Fresh(c)
  PROVE  ChunkRead(c, ReadBodyChunked(c))
<1> DEFINE e == ReadBodyChunked(c)
<1>0. c.in \in Seq(InTok) /\ Len(c.in) \in Nat /\ c.body \in Nat /\ MaxBody \in Nat
  BY MaxBodyAssumption DEF Conn
<1>1. CASE ~HasStop(c)
  <2> DEFINE n == Len(c.in)
  <2>1. e = Decoded(c, n)
    BY <1>1 DEF ReadBodyChunked
  <2>2. Kin(c, e) /\ e.in = Consume(c.in, n) /\ e.state = c.state
    BY <1>0, <2>1, DecodedKin
  <2>3. e.body = c.body + n
    BY <2>1 DEF Decoded, Conn
  <2> HIDE DEF e
  <2>4. AllChunks(c.in, n)
    BY <1>1, NoStop DEF AllChunks
  <2>5. c.body <= MaxBody => e.body <= MaxBody
    <3>1. CASE n = 0
      BY <1>0, <2>3, <3>1
    <3>2. CASE n # 0
      <4>1. n \in 1 .. Len(c.in)
        BY <1>0, <3>2
      <4>2. c.body + n <= MaxBody
        BY <1>1, <4>1, NoStop
      <4> QED BY <2>3, <4>2
    <3> QED BY <3>1, <3>2
  <2>6. Awaiting(c, e) /\ n \in 0 .. Len(c.in)
    BY <1>0, <2>2 DEF Kin, Awaiting
  <2>7. ChunkRead(c, e)
    BY <2>2, <2>3, <2>4, <2>5, <2>6 DEF ChunkRead, Awaiting
  <2> QED BY <2>7 DEF e
<1>2. CASE HasStop(c) /\ ~Wraps(c)
  <2> DEFINE k == StopAt(c)
             d == Decoded(c, k - 1)
             a == AfterLast(d)
  <2>1. k \in 1 .. Len(c.in) /\ IsStop(c, k)
    BY <1>2 DEF HasStop, StopAt
  <2>2. k - 1 \in 0 .. Len(c.in) /\ (k - 1) + 1 = k
    BY <1>0, <2>1
  <2>3. Kin(c, d) /\ d.in = Consume(c.in, k - 1)
    <3> HIDE DEF k
    <3> QED BY <2>2, DecodedKin
  <2>4. e = CASE c.in[k].t = "last"  -> Dispatch(a)
              [] c.in[k].t \in {"chunk", "huge"} -> ErrorResponse(d, 413)
              [] OTHER -> ErrorResponse(d, 400)
    BY <1>2 DEF ReadBodyChunked
  <2>5. d.body = c.body + (k - 1)
    BY DEF Decoded, Conn
  <2>6. /\ a.in = Consume(d.in, 1) /\ a.num = d.num /\ a.req = d.req /\ a.out = d.out
        /\ a.streamed = d.streamed /\ a.keep_alive = d.keep_alive
        /\ a.want_continue = d.want_continue /\ a.body = d.body
    BY <2>3 DEF Kin, AfterLast, Conn
  <2> HIDE DEF k, d, e
  <2>7. Consume(d.in, 1) = Consume(c.in, k) /\ Consume(d.in, 1) \in Seq(InTok)
    <3>1. 1 \in 0 .. (Len(c.in) - (k - 1))
      BY <1>0, <2>1
    <3>2. Consume(Consume(c.in, k - 1), 1) = Consume(c.in, (k - 1) + 1)
      BY <1>0, <2>2, <3>1, ConsumeTwice
    <3>3. Consume(c.in, k) \in Seq(InTok)
      BY <1>0, <2>1, ConsumeIsSeq
    <3> QED BY <2>2, <2>3, <3>2, <3>3
  <2>8. a \in Conn /\ d \in Conn
    BY <2>3, <2>7 DEF Kin, AfterLast, Conn
  <2> HIDE DEF a
  <2>9. Fresh(a) /\ Fresh(d) /\ d.num = c.num /\ d.req = c.req /\ d.out = c.out
    BY <2>3, <2>6 DEF Kin, Fresh
  <2>10. AllChunks(c.in, k - 1)
    BY <2>1 DEF IsStop, AllChunks
  <2>11. c.body <= MaxBody => c.body + (k - 1) <= MaxBody
    <3>1. CASE k = 1
      BY <1>0, <3>1
    <3>2. CASE k # 1
      <4>1. k - 1 \in 1 .. (k - 1)
        BY <2>1, <3>2
      <4> QED BY <2>1, <4>1 DEF IsStop
    <3> QED BY <3>1, <3>2
  <2>12. CASE c.in[k].t = "last"
    <3>1. e = Dispatch(a)
      BY <2>4, <2>12
    <3>2. Gets(a, e, 200)
      BY <2>8, <2>9, <3>1, DispatchGets
    <3>3. AnsweredWith(c, e, 200)
      BY <2>6, <2>9, <3>2, AnsweredAlike DEF Gets
    <3>4. e.in = Consume(c.in, k) /\ e.num = c.num /\ e.req = c.req /\ e.body = c.body + (k - 1)
      BY <2>5, <2>6, <2>7, <2>9, <3>2 DEF Gets
    <3>5. k \in 0 .. Len(c.in) /\ k >= 1
      BY <2>1
    <3>6. ChunkRead(c, e)
      BY <2>10, <2>11, <2>12, <3>3, <3>4, <3>5 DEF ChunkRead
    <3> QED BY <3>6 DEF e
  <2>13. CASE c.in[k].t # "last"
    <3>1. e = ErrorResponse(d, 413) \/ e = ErrorResponse(d, 400)
      BY <2>4, <2>13
    <3>2. Gets(d, e, 413) \/ Gets(d, e, 400)
      BY <2>8, <2>9, <3>1, FinalizeGets DEF ErrorResponse, FinalStatus, ReplyKind
    <3>3. AnsweredWith(c, e, 413) \/ AnsweredWith(c, e, 400)
      BY <2>9, <3>2, AnsweredAlike DEF Gets
    <3>4. /\ e.in = Consume(c.in, k - 1) /\ e.num = c.num /\ e.req = c.req
          /\ e.body = c.body + (k - 1)
      BY <2>3, <2>5, <2>9, <3>2 DEF Gets
    <3>5. c.in[k].t = "chunk" => c.body + k > MaxBody
      BY <2>1 DEF IsStop
    <3> DEFINE m == k - 1
    <3>6. m \in 0 .. Len(c.in) /\ m < Len(c.in) /\ m + 1 = k /\ c.body + m + 1 = c.body + k
      BY <1>0, <2>1
    <3>7. e.in = Consume(c.in, m) /\ e.body = c.body + m /\ AllChunks(c.in, m)
          /\ (c.body <= MaxBody => e.body <= MaxBody)
      BY <2>10, <2>11, <3>4
    <3> HIDE DEF m
    <3>8. c.in[m + 1].t # "last" /\ (c.in[m + 1].t = "chunk" => c.body + m + 1 > MaxBody)
      BY <2>13, <3>5, <3>6
    <3>9. e.num = c.num /\ e.req = c.req
      BY <3>4
    <3>10. ChunkRead(c, e)
      BY <3>3, <3>6, <3>7, <3>8, <3>9 DEF ChunkRead
    <3> QED BY <3>10 DEF e
  <2> QED BY <2>12, <2>13
<1>3. CASE HasStop(c) /\ Wraps(c)
  <2> DEFINE n == Len(c.in)
  <2>1. e = Decoded(c, n)
    BY <1>3 DEF ReadBodyChunked
  <2>2. Kin(c, e) /\ e.in = Consume(c.in, n) /\ e.state = c.state
    BY <1>0, <2>1, DecodedKin
  <2>3. e.body = c.body + n
    BY <2>1 DEF Decoded, Conn
  <2> HIDE DEF e
  <2>4. PICK k \in 1 .. Len(c.in) : k = StopAt(c)
    BY <1>3 DEF HasStop, StopAt
  <2>5. c.in[k].t = "huge" /\ c.body + (k - 1) > 0
    BY <1>3, <2>4 DEF Wraps
  <2>6. e.body > c.body /\ HasHuge(c.in)
    BY <1>0, <2>3, <2>4, <2>5 DEF HasHuge
  <2>7. Awaiting(c, e) /\ n \in 0 .. Len(c.in)
    BY <1>0, <2>2 DEF Kin, Awaiting
  <2>8. ChunkRead(c, e)
    BY <2>2, <2>6, <2>7 DEF ChunkRead, Overran, Awaiting
  <2> QED BY <2>8 DEF e
<1> QED BY <1>1, <1>2, <1>3

\* Whatever way a body is read.
BodyRead(c, d) ==
  IF c.state = "READ_BODY" THEN LengthRead(c, d) ELSE ChunkRead(c, d)

\* Either way, so much has been read.
LEMMA ReadBodyCount ==
  ASSUME NEW c \in Conn, c.state \in {"READ_BODY", "READ_CHUNK"}, Fresh(c)
  PROVE  BodyRead(c, ReadBody(c))
BY BodyLengthCount, BodyChunkedCount DEF ReadBody, BodyRead

\* d is c after a 100 Continue has been queued; the body stays unread.
Invites(c, d) ==
  /\ d.state = "WRITE" /\ d.want_continue /\ d.next_state = c.state
  /\ d.in = c.in /\ d.num = c.num /\ d.req = c.req
  /\ d.body = c.body /\ d.body_remaining = c.body_remaining
  /\ \E tok \in OutTok :
       /\ tok.t = "continue" /\ tok.r = c.num /\ ~tok.eom /\ tok.code = 100
       /\ d.out = c.out \o <<tok>>

\* send_continue_100 does that.
LEMMA ContinueCount ==
  ASSUME NEW c \in Conn, Fresh(c)
  PROVE  Invites(c, SendContinue100(c))
<1> DEFINE k == [c EXCEPT !.want_continue = TRUE, !.next_state = c.state]
           tok == Part(c, "continue", 100)
           d == SendContinue100(c)
<1>1. /\ k.out = c.out /\ k.in = c.in /\ k.num = c.num /\ k.req = c.req
      /\ k.want_continue /\ k.next_state = c.state /\ k.body = c.body
      /\ k.body_remaining = c.body_remaining
      /\ "out" \in DOMAIN k /\ "state" \in DOMAIN k
  BY DEF Conn
<1>2. tok \in OutTok /\ tok.t = "continue" /\ tok.r = c.num /\ ~tok.eom /\ tok.code = 100
  BY DEF Part, OutTok, Conn
<1>3. d = Queue(k, <<tok>>)
  BY DEF SendContinue100
<1> HIDE DEF k, tok
<1>4. /\ d.out = c.out \o <<tok>> /\ d.state = "WRITE" /\ d.in = c.in /\ d.num = c.num
      /\ d.req = c.req /\ d.want_continue /\ d.next_state = c.state /\ d.body = c.body
      /\ d.body_remaining = c.body_remaining
  BY <1>1, <1>3 DEF Queue
<1> HIDE DEF d
<1>5. Invites(c, d)
  BY <1>2, <1>4 DEF Invites
<1> QED BY <1>5 DEF d

\* The record of a request whose headers, up to token e, are done with.
Begun(c, e, m) ==
  /\ m \in Conn /\ Fresh(m) /\ m.out = c.out /\ m.body = c.body
  /\ m.in = Consume(c.in, e)
  /\ m.num = BlockToken(c.in, e).r /\ m.req = BlockToken(c.in, e).q

\* What follows its headers, by the framing its headers announce.
Follow(m, d) ==
  \/ m.req.body = "none" /\ Gets(m, d, 200)
  \/ /\ m.req.body = "length" /\ m.req.size <= MaxBody
     /\ m.state = "READ_BODY" /\ m.body_remaining = m.req.size
     /\ Invites(m, d) \/ LengthRead(m, d)
  \/ /\ m.req.body = "chunked" /\ m.state = "READ_CHUNK"
     /\ Invites(m, d) \/ ChunkRead(m, d)

\* Why the request of a block is refused.
Refusable(in, e) ==
  LET q == BlockToken(in, e).q
  IN  \/ ~WellFormed(in, e)
      \/ UnknownMethod(in, e)
      \/ q.body = "length" /\ (q.fault = "length" \/ q.size > MaxBody)

\* http_read_step on a block: it is refused, or its body is looked at.
HeadersRead(c, d) ==
  LET e == BlockEnd(c.in)
  IN  \/ /\ Refusable(c.in, e) /\ Uses(c, d) /\ d.body = c.body
         /\ d.num = BlockToken(c.in, e).r
         /\ \E code \in FinalStatus \ {200} :
              AnsweredWith([num |-> BlockToken(c.in, e).r, out |-> c.out], d, code)
      \/ /\ WellFormed(c.in, e)
         /\ \E m \in Conn : Begun(c, e, m) /\ Follow(m, d)

\* begin_body, by the framing of the request.
LEMMA BeginCount ==
  ASSUME NEW p \in Conn, Fresh(p)
  PROVE  LET d == BeginBody(p)
             q == p.req
         IN  \/ /\ q.body = "length" /\ (q.fault = "length" \/ q.size > MaxBody)
                /\ Gets(p, d, 400) \/ Gets(p, d, 413)
             \/ \E m \in Conn :
                  /\ Fresh(m) /\ m.out = p.out /\ m.body = p.body /\ m.in = p.in
                  /\ m.num = p.num /\ m.req = p.req /\ Follow(m, d)
<1> DEFINE d == BeginBody(p)
           q == p.req
           chunk == [p EXCEPT !.state = "READ_CHUNK"]
           length == [p EXCEPT !.state = "READ_BODY", !.body_remaining = p.req.size]
<1>1. /\ p.req.body \in {"none", "length", "chunked"} /\ p.req.size \in Nat /\ MaxBody \in Nat
  BY MaxBodyAssumption DEF Conn, Request
<1>2. /\ chunk \in Conn /\ length \in Conn
      /\ chunk.state = "READ_CHUNK" /\ length.state = "READ_BODY"
      /\ length.body_remaining = q.size
  BY <1>1 DEF Conn, ConnState
<1> DEFINE Same(m) == /\ m \in Conn /\ Fresh(m) /\ m.out = p.out /\ m.body = p.body
                      /\ m.in = p.in /\ m.num = p.num /\ m.req = p.req
<1>3. Same(chunk) /\ Same(length) /\ Same(p)
  BY <1>2 DEF Fresh, Conn
<1>4. CASE q.body = "chunked"
  <2>1. d = ReadAfterHeaders(chunk)
    BY <1>4 DEF BeginBody
  <2> HIDE DEF chunk, d
  <2>2. Invites(chunk, d) \/ ChunkRead(chunk, d)
    BY <1>2, <1>3, <2>1, ContinueCount, ReadBodyCount DEF ReadAfterHeaders, BodyRead
  <2>3. Follow(chunk, d)
    BY <1>2, <1>3, <1>4, <2>2 DEF Follow
  <2> QED BY <1>3, <2>3 DEF d
<1>5. CASE q.body = "length" /\ q.fault = "length"
  <2>1. d = ErrorResponse(p, 400)
    BY <1>5 DEF BeginBody
  <2>2. Gets(p, d, 400)
    BY <2>1, FinalizeGets DEF ErrorResponse, FinalStatus, ReplyKind
  <2> QED BY <1>5, <2>2
<1>6. CASE q.body = "length" /\ q.fault # "length" /\ q.size > MaxBody
  <2>1. d = ErrorResponse(p, 413)
    BY <1>1, <1>6 DEF BeginBody
  <2>2. Gets(p, d, 413)
    BY <2>1, FinalizeGets DEF ErrorResponse, FinalStatus, ReplyKind
  <2> QED BY <1>6, <2>2
<1>7. CASE q.body = "length" /\ q.fault # "length" /\ q.size <= MaxBody
  <2>1. d = ReadAfterHeaders(length)
    BY <1>1, <1>7 DEF BeginBody
  <2> HIDE DEF length, d
  <2>2. Invites(length, d) \/ LengthRead(length, d)
    BY <1>2, <1>3, <2>1, ContinueCount, ReadBodyCount DEF ReadAfterHeaders, BodyRead
  <2>3. Follow(length, d)
    BY <1>2, <1>3, <1>7, <2>2 DEF Follow
  <2> QED BY <1>3, <2>3 DEF d
<1>8. CASE q.body = "none"
  <2>1. d = Dispatch(p)
    BY <1>8 DEF BeginBody
  <2>2. Gets(p, d, 200)
    BY <2>1, DispatchGets
  <2>3. Follow(p, d)
    BY <1>8, <2>2 DEF Follow
  <2> QED BY <1>3, <2>3
<1> QED BY <1>1, <1>4, <1>5, <1>6, <1>7, <1>8

\* parse_headers and what it leads to.
LEMMA HeadersCount ==
  ASSUME NEW c \in Conn, HasBlock(c.in), Fresh(c)
  PROVE  HeadersRead(c, ReadHeaders(c))
<1> DEFINE e == BlockEnd(c.in)
           b == BlockToken(c.in, e)
           m == ParseHeaders(c)
           d == ReadHeaders(c)
           p == [num |-> b.r, out |-> c.out]
<1>1. c.in \in Seq(InTok) /\ Len(c.in) \in Nat /\ e \in 1 .. Len(c.in)
  BY BlockEndFirst DEF Conn
<1>2. m \in Conn /\ Fresh(m)
  <2>1. m \in Conn /\ m.want_continue = c.want_continue
    BY ParseHeadersAlike DEF Alike
  <2>2. m.streamed = c.streamed /\ m.keep_alive = c.keep_alive
    BY DEF ParseHeaders, Conn
  <2> QED BY <2>1, <2>2 DEF Fresh
<1>3. /\ m.num = p.num /\ m.out = p.out /\ m.body = c.body
      /\ m.in = AfterBlock(c, e) /\ m.req = Stored(c.in, e)
  BY DEF ParseHeaders, Conn
<1>4. Uses(c, m)
  <2>1. m.in = c.in \/ m.in = Consume(c.in, e)
    BY <1>3 DEF AfterBlock
  <2>2. e \in 0 .. Len(c.in)
    BY <1>1
  <2> QED BY <2>1, <2>2, UsesNone DEF Uses
<1>5. WellFormed(c.in, e) => m.in = Consume(c.in, e) /\ m.req = b.q
  BY <1>3 DEF AfterBlock, Stored, WellFormed
<1>6. d = IF ~WellFormed(c.in, e) THEN ErrorResponse(m, 400)
          ELSE IF UnknownMethod(c.in, e) THEN ErrorResponse(m, 501) ELSE BeginBody(m)
  BY DEF ReadHeaders
<1> HIDE DEF m, d, p
<1>7. ASSUME NEW code \in FinalStatus \ {200}, Gets(m, d, code), Refusable(c.in, e)
      PROVE  HeadersRead(c, d)
  <2>1. AnsweredWith(p, d, code)
    BY <1>3, <1>7, AnsweredAlike DEF Gets
  <2>2. Uses(c, d) /\ d.body = c.body /\ d.num = b.r
    BY <1>3, <1>4, <1>7 DEF Gets, Uses, p
  <2> QED BY <1>7, <2>1, <2>2 DEF HeadersRead, p
<1>8. {400, 501, 413} \subseteq FinalStatus \ {200}
  BY DEF FinalStatus
<1>9. CASE ~WellFormed(c.in, e)
  <2>1. Gets(m, d, 400)
    BY <1>2, <1>6, <1>8, <1>9, FinalizeGets DEF ErrorResponse, ReplyKind
  <2>2. HeadersRead(c, d)
    BY <1>7, <1>8, <1>9, <2>1 DEF Refusable
  <2> QED BY <2>2 DEF d
<1>10. CASE WellFormed(c.in, e) /\ UnknownMethod(c.in, e)
  <2>1. Gets(m, d, 501)
    BY <1>2, <1>6, <1>8, <1>10, FinalizeGets DEF ErrorResponse, ReplyKind
  <2>2. HeadersRead(c, d)
    BY <1>7, <1>8, <1>10, <2>1 DEF Refusable
  <2> QED BY <2>2 DEF d
<1>11. CASE WellFormed(c.in, e) /\ ~UnknownMethod(c.in, e)
  <2>1. d = BeginBody(m)
    BY <1>6, <1>11
  <2>2. CASE /\ m.req.body = "length" /\ (m.req.fault = "length" \/ m.req.size > MaxBody)
             /\ Gets(m, d, 400) \/ Gets(m, d, 413)
    <3>1. HeadersRead(c, d)
      BY <1>5, <1>7, <1>8, <1>11, <2>2 DEF Refusable
    <3> QED BY <3>1 DEF d
  <2>3. CASE \E k \in Conn : /\ Fresh(k) /\ k.out = m.out /\ k.body = m.body /\ k.in = m.in
                            /\ k.num = m.num /\ k.req = m.req /\ Follow(k, d)
    <3>1. PICK k \in Conn : /\ Fresh(k) /\ k.out = m.out /\ k.body = m.body /\ k.in = m.in
                            /\ k.num = m.num /\ k.req = m.req /\ Follow(k, d)
      BY <2>3
    <3>2. Begun(c, e, k)
      BY <1>3, <1>5, <1>11, <3>1 DEF Begun, p
    <3>3. HeadersRead(c, d)
      BY <1>11, <3>1, <3>2 DEF HeadersRead
    <3> QED BY <3>3 DEF d
  <2> QED BY <1>2, <2>1, <2>2, <2>3, BeginCount
<1> QED BY <1>9, <1>10, <1>11

(***************************************************************************)
(* http_read_step once more, with what it counts: read_body_clength takes  *)
(* exactly what was announced, read_body_chunked everything up to the last *)
(* chunk, and neither stores more than MaxBody.                            *)
(***************************************************************************)
THEOREM ReadStepCount ==
  ASSUME NEW c \in Conn, c.state # "WRITE", Fresh(c)
  PROVE  \/ c.state = "READ_HEADERS" /\ ~HasBlock(c.in) /\ ReadStep(c) = c
         \/ c.state = "READ_HEADERS" /\ HasBlock(c.in) /\ HeadersRead(c, ReadStep(c))
         \/ c.state = "READ_BODY" /\ LengthRead(c, ReadStep(c))
         \/ c.state = "READ_CHUNK" /\ ChunkRead(c, ReadStep(c))
<1>1. CASE c.state = "READ_HEADERS" /\ ~HasBlock(c.in)
  BY <1>1 DEF ReadStep, ReadHeaders
<1>2. CASE c.state = "READ_HEADERS" /\ HasBlock(c.in)
  BY <1>2, HeadersCount DEF ReadStep
<1>3. CASE c.state # "READ_HEADERS"
  <2>1. c.state \in {"READ_BODY", "READ_CHUNK"}
    BY <1>3 DEF Conn, ConnState
  <2>2. BodyRead(c, ReadStep(c))
    BY <1>3, <2>1, ReadBodyCount DEF ReadStep
  <2> QED BY <2>1, <2>2 DEF BodyRead
<1> QED BY <1>1, <1>2, <1>3

-----------------------------------------------------------------------------
(* Helpers of the loop.                                                    *)

\* Closing slot k moves the last slot there and keeps every other one.
LEMMA SwapRemoveIsSeq ==
  ASSUME NEW S, NEW s \in Seq(S), NEW k \in 1 .. Len(s)
  PROVE  /\ SwapRemove(s, k) \in Seq(S)
         /\ Len(SwapRemove(s, k)) = Len(s) - 1
         /\ \A j \in 1 .. (Len(s) - 1) :
              SwapRemove(s, k)[j] = IF j = k THEN s[Len(s)] ELSE s[j]
<1> DEFINE t == SwapRemove(s, k)
<1>1. Len(s) \in Nat /\ Len(s) - 1 \in Nat
  OBVIOUS
<1>2. t \in [1 .. (Len(s) - 1) -> S]
  BY DEF SwapRemove
<1>3. \A j \in 1 .. (Len(s) - 1) : t[j] = IF j = k THEN s[Len(s)] ELSE s[j]
  BY DEF SwapRemove
<1> HIDE DEF t
<1>4. t \in Seq(S) /\ Len(t) = Len(s) - 1
  BY <1>1, <1>2
<1> QED BY <1>3, <1>4 DEF t

\* Joining sequences, and taking n elements behind the first m of one.
LEMMA ConcatIsSeq ==
  ASSUME NEW S, NEW s \in Seq(S), NEW t \in Seq(S)
  PROVE  s \o t \in Seq(S) /\ Len(s \o t) = Len(s) + Len(t)
OBVIOUS

\* A window of a sequence is a sequence of the same elements.
LEMMA SubSeqIsSeq ==
  ASSUME NEW S, NEW s \in Seq(S), NEW m \in Nat, NEW n \in Nat, m + n <= Len(s)
  PROVE  SubSeq(s, m + 1, m + n) \in Seq(S) /\ Len(SubSeq(s, m + 1, m + n)) = n
OBVIOUS

\* Overwriting one element of a sequence.
LEMMA ExceptIsSeq ==
  ASSUME NEW S, NEW s \in Seq(S), NEW k \in 1 .. Len(s), NEW x \in S
  PROVE  /\ [s EXCEPT ![k] = x] \in Seq(S)
         /\ Len([s EXCEPT ![k] = x]) = Len(s)
         /\ \A j \in 1 .. Len(s) : [s EXCEPT ![k] = x][j] = IF j = k THEN x ELSE s[j]
OBVIOUS

\* Marking slot k as looked at keeps the poll table's shape.
LEMMA ClearedIsTable ==
  ASSUME pfds \in Seq(PollFd), NEW k \in 1 .. Len(pfds)
  PROVE  /\ Cleared(k) \in Seq(PollFd)
         /\ Len(Cleared(k)) = Len(pfds)
         /\ \A j \in 1 .. Len(pfds) : Cleared(k)[j].fd = pfds[j].fd
<1> DEFINE x == [pfds[k] EXCEPT !.revents = {}]
<1>1. pfds[k] \in PollFd
  OBVIOUS
<1>2. x \in PollFd /\ x.fd = pfds[k].fd
  BY <1>1 DEF PollFd
<1>3. Cleared(k) = [pfds EXCEPT ![k] = x]
  BY DEF Cleared
<1> HIDE DEF x
<1> QED BY <1>2, <1>3, ExceptIsSeq

\* A fresh connection record is a connection record.
LEMMA BlankConnType == BlankConn \in Conn
BY DEF BlankConn, Conn, ConnState, BlankRequest, Request, ReplyKind

\* conn_reset_for_next and the end of a 100 Continue give a record again.
LEMMA ConnResetType ==
  ASSUME NEW c \in Conn, NEW n \in Nat
  PROVE  ConnReset(c, n) \in Conn
BY BlankConnType DEF ConnReset, Conn

\* Shrinking the body back to its kept prefix leaves a connection record.
LEMMA ResumeBodyType ==
  ASSUME NEW c \in Conn
  PROVE  ResumeBody(c) \in Conn
<1>1. <<>> \in Seq(OutTok)
  OBVIOUS
<1> QED BY <1>1 DEF ResumeBody, Conn

-----------------------------------------------------------------------------
(* Types.                                                                  *)

\* What TypeOK says of the clients' side and of the loop's side.
LoopTypeOK ==
  /\ pc \in Phase
  /\ i \in Nat
  /\ running \in BOOLEAN
  /\ conns \in Seq(Clients \cup {Listener})
  /\ pfds \in Seq(PollFd)
  /\ cap \in Nat
  /\ counter \in Nat
  /\ conn \in [Clients -> Conn]
  /\ \A c \in Clients : conn[c].out_off <= Len(conn[c].out)
  /\ now \in 0 .. MaxTime

\* The served slot holds a client's connection.
LEMMA ServedSlot ==
  ASSUME TypeOK, SlotsOpen, Parallel, i >= 2, i <= Len(conns)
  PROVE  /\ f \in Clients /\ fd[f] = "open"
         /\ i \in 1 .. Len(conns) /\ i \in 1 .. Len(pfds)
         /\ conn[f] \in Conn
<1>1. i \in 1 .. Len(conns) /\ i \in 1 .. Len(pfds)
  BY DEF TypeOK, Parallel
<1>2. f \in Clients /\ fd[f] = "open"
  BY <1>1 DEF SlotsOpen, f
<1>3. conn \in [Clients -> Conn]
  BY DEF TypeOK
<1>4. conn[f] \in Conn
  BY <1>2, <1>3
<1> QED BY <1>1, <1>2, <1>4

\* What a client sends are input tokens, and its cursor stays one.
LEMMA TokenKindType ==
  ASSUME NEW q \in Request, NEW pos \in Nat \ {0}
  PROVE  TokenKind(q, pos) \in {"line", "end", "data", "chunk", "last", "bad", "huge"}
BY DEF TokenKind, Request

\* A client that sends its next token keeps the types of the world.
LEMMA SendType ==
  ASSUME TypeOK, NEW c \in Clients, ~Done(c)
  PROVE  /\ NextToken(c) \in InTok
         /\ Beyond(at[c], Sending(c)) \in Cursor
<1>1. at[c].req \in Nat \ {0} /\ at[c].pos \in Nat \ {0} /\ at[c] \in Cursor
  BY DEF TypeOK, NetTypeOK, Cursor
<1>2. Sending(c) \in Request
  <2>1. script[c] \in Seq(Request)
    BY DEF TypeOK, NetTypeOK
  <2>2. at[c].req \in 1 .. Len(script[c])
    BY <1>1, <2>1 DEF Done
  <2> QED BY <2>1, <2>2 DEF Sending
<1>3. TokenKind(Sending(c), at[c].pos) \in {"line", "end", "data", "chunk", "last", "bad", "huge"}
  BY <1>1, <1>2, TokenKindType
<1>4. Beyond(at[c], Sending(c)) \in Cursor
  BY <1>1 DEF Beyond, Cursor
<1> QED BY <1>1, <1>2, <1>3, <1>4 DEF NextToken, InTok

\* No step of a client or of the network leaves the types.
LEMMA WorldType ==
  ASSUME TypeOK, NEW c \in Clients, NetStep(c), UNCHANGED serverVars
  PROVE  TypeOK'
<1>1. NetTypeOK'
  <2>1. CASE Connect(c)
    BY <2>1 DEF Connect, TypeOK, NetTypeOK
  <2>2. CASE Send(c)
    <3> DEFINE tok == NextToken(c)
               next == Beyond(at[c], Sending(c))
    <3>1. tok \in InTok /\ next \in Cursor
      BY <2>2, SendType DEF Send
    <3>2. /\ rx' = [rx EXCEPT ![c] = Append(@, tok)]
          /\ at' = [at EXCEPT ![c] = next]
          /\ UNCHANGED <<fd, backlog, tx, got, peer, script>>
      BY <2>2 DEF Send
    <3> HIDE DEF tok, next
    <3> QED BY <3>1, <3>2 DEF TypeOK, NetTypeOK
  <2>3. CASE SkipBody(c)
    <3> DEFINE next == [req |-> at[c].req + 1, pos |-> 1]
    <3>1. next \in Cursor
      <4>1. at[c] \in Cursor
        BY DEF TypeOK, NetTypeOK
      <4> QED BY <4>1 DEF Cursor
    <3>2. at' = [at EXCEPT ![c] = next] /\ UNCHANGED <<fd, backlog, rx, tx, got, peer, script>>
      BY <2>3 DEF SkipBody
    <3> HIDE DEF next
    <3> QED BY <3>1, <3>2 DEF TypeOK, NetTypeOK
  <2>4. CASE Receive(c)
    BY <2>4, SndBufAssumption DEF Receive, TypeOK, NetTypeOK
  <2>5. CASE LeaveEof(c)
    BY <2>5 DEF LeaveEof, TypeOK, NetTypeOK
  <2>6. CASE LeaveRst(c)
    <3>1. rx' \in [Clients -> Seq(InTok)]
      <4>1. rx \in [Clients -> Seq(InTok)]
        BY DEF TypeOK, NetTypeOK
      <4>2. rx' = rx \/ rx' = [rx EXCEPT ![c] = <<>>]
        BY <2>6 DEF LeaveRst
      <4>3. <<>> \in Seq(InTok)
        OBVIOUS
      <4> QED BY <4>1, <4>2, <4>3
    <3>2. /\ tx' = [tx EXCEPT ![c] = <<>>] /\ peer' = [peer EXCEPT ![c] = "rst"]
          /\ UNCHANGED <<fd, backlog, got, at, script>>
      BY <2>6 DEF LeaveRst
    <3> QED BY <3>1, <3>2, SndBufAssumption DEF TypeOK, NetTypeOK
  <2>7. CASE ResetAfterClose(c)
    BY <2>7, SndBufAssumption DEF ResetAfterClose, TypeOK, NetTypeOK
  <2> QED BY <2>1, <2>2, <2>3, <2>4, <2>5, <2>6, <2>7 DEF NetStep
<1>2. LoopTypeOK'
  BY DEF TypeOK, LoopTypeOK, serverVars
<1> QED BY <1>1, <1>2 DEF TypeOK, LoopTypeOK

\* conn_close keeps the types.
LEMMA CloseType ==
  ASSUME TypeOK, Parallel, SlotsOpen, NEW k \in 2 .. Len(conns),
         NEW table \in Seq(PollFd), Len(table) = Len(pfds), ConnClose(k, table),
         UNCHANGED <<running, cap, counter, now>>, pc' \in Phase, i' \in Nat
  PROVE  TypeOK'
<1>1. conns \in Seq(Clients \cup {Listener}) /\ k \in 1 .. Len(conns) /\ k \in 1 .. Len(table)
  BY DEF TypeOK, Parallel
<1>2. conns' \in Seq(Clients \cup {Listener}) /\ pfds' \in Seq(PollFd)
  BY <1>1, SwapRemoveIsSeq DEF ConnClose
<1>3. conns[k] \in Clients
  BY <1>1 DEF SlotsOpen
<1>4. conn' \in [Clients -> Conn] /\ \A c \in Clients : conn'[c].out_off <= Len(conn'[c].out)
  <2>1. BlankConn \in Conn /\ BlankConn.out_off <= Len(BlankConn.out)
    BY BlankConnType DEF BlankConn
  <2> QED BY <1>3, <2>1 DEF ConnClose, TypeOK
<1>5. NetTypeOK'
  BY <1>3 DEF ConnClose, TypeOK, NetTypeOK
<1> QED BY <1>2, <1>4, <1>5 DEF TypeOK

\* Putting a well-typed record in place of conn[f] keeps the types.
LEMMA ConnUpdateType ==
  ASSUME TypeOK, NEW c \in Clients, NEW d \in Conn, d.out_off <= Len(d.out)
  PROVE  /\ [conn EXCEPT ![c] = d] \in [Clients -> Conn]
         /\ \A e \in Clients : [conn EXCEPT ![c] = d][e].out_off
                                 <= Len([conn EXCEPT ![c] = d][e].out)
BY DEF TypeOK

\* What send() takes is a part of c->out.
LEMMA FlushedType ==
  ASSUME TypeOK, f \in Clients
  PROVE  /\ Flushed \in Nat /\ Flushed <= Pending(conn[f])
         /\ Flushed <= SndBuf - Len(tx[f])
         /\ SubSeq(conn[f].out, conn[f].out_off + 1, conn[f].out_off + Flushed) \in Seq(OutTok)
         /\ Len(SubSeq(conn[f].out, conn[f].out_off + 1, conn[f].out_off + Flushed)) = Flushed
<1>1. /\ conn[f] \in Conn /\ conn[f].out_off <= Len(conn[f].out)
      /\ tx[f] \in Seq(OutTok) /\ Len(tx[f]) <= SndBuf
  BY DEF TypeOK, NetTypeOK
<1>2. SndBuf - Len(tx[f]) \in Nat
  BY <1>1, SndBufAssumption
<1>3. /\ Pending(conn[f]) \in Nat /\ conn[f].out \in Seq(OutTok) /\ conn[f].out_off \in Nat
      /\ Pending(conn[f]) = Len(conn[f].out) - conn[f].out_off
  BY <1>1 DEF Pending, Conn
<1>4. /\ Flushed \in Nat /\ Flushed <= Pending(conn[f])
      /\ Flushed <= SndBuf - Len(tx[f])
  BY <1>2, <1>3, SmallerIsLength DEF Flushed
<1> DEFINE out == conn[f].out
           a == conn[f].out_off
           n == Flushed
<1>5. out \in Seq(OutTok) /\ a \in Nat /\ n \in Nat /\ a + n <= Len(out)
  BY <1>3, <1>4
<1> HIDE DEF out, a, n
<1>6. SubSeq(out, a + 1, a + n) \in Seq(OutTok) /\ Len(SubSeq(out, a + 1, a + n)) = n
  BY <1>5, SubSeqIsSeq
<1> QED BY <1>4, <1>6 DEF out, a, n

\* Handing tokens to the kernel keeps the types of the sockets.
LEMMA FlushType ==
  ASSUME TypeOK, f \in Clients, NEW new_fd \in [Clients -> {"none", "open", "closed"}],
         fd' = new_fd, UNCHANGED <<backlog, rx, got, peer, at, script>>,
         tx' = [tx EXCEPT ![f] = @ \o SubSeq(conn[f].out, conn[f].out_off + 1,
                                             conn[f].out_off + Flushed)]
  PROVE  NetTypeOK'
<1> DEFINE s == SubSeq(conn[f].out, conn[f].out_off + 1, conn[f].out_off + Flushed)
<1>1. tx[f] \in Seq(OutTok) /\ Len(tx[f]) \in Nat
  BY DEF TypeOK, NetTypeOK
<1>2. s \in Seq(OutTok) /\ Len(s) = Flushed
  BY FlushedType
<1>3. tx[f] \o s \in Seq(OutTok) /\ Len(tx[f] \o s) <= SndBuf
  <2>1. Flushed \in Nat /\ Flushed <= SndBuf - Len(tx[f])
    BY FlushedType
  <2> HIDE DEF s
  <2>2. Len(tx[f] \o s) = Len(tx[f]) + Len(s)
    BY <1>1, <1>2, ConcatIsSeq
  <2> QED BY <1>1, <1>2, <2>1, <2>2, ConcatIsSeq, SndBufAssumption
<1>4. tx' = [tx EXCEPT ![f] = tx[f] \o s]
  OBVIOUS
<1> DEFINE sent == tx[f] \o s
<1>5. sent \in Seq(OutTok) /\ Len(sent) <= SndBuf /\ tx' = [tx EXCEPT ![f] = sent]
  BY <1>3, <1>4
<1> HIDE DEF s, sent
<1>6. tx \in [Clients -> Seq(OutTok)] /\ \A c \in Clients : Len(tx[c]) <= SndBuf
  BY DEF TypeOK, NetTypeOK
<1>7. tx' \in [Clients -> Seq(OutTok)] /\ \A c \in Clients : Len(tx'[c]) <= SndBuf
  BY <1>5, <1>6
<1> QED BY <1>7 DEF TypeOK, NetTypeOK

\* A step of the loop that concerns no connection keeps the types.
LEMMA PhaseType ==
  ASSUME TypeOK, LoopBounds, Parallel,
         \/ Listen \/ RenewInterest \/ Shutdown \/ Free
         \/ PollReady \/ PollTimeout \/ PollInterrupted \/ PollFails
         \/ AcceptDone \/ ServeDone \/ ReapDone \/ Signal \/ Tick
  PROVE  TypeOK'
<1>1. NetTypeOK'
  <2>1. UNCHANGED netVars
    BY DEF Listen, RenewInterest, Shutdown, Free, PollReady, PollTimeout, PollInterrupted,
           PollFails, AcceptDone, ServeDone, ReapDone, Signal, Tick
  <2> QED BY <2>1 DEF netVars, TypeOK, NetTypeOK
<1>2. UNCHANGED <<conn, counter>>
  BY DEF Listen, RenewInterest, Shutdown, Free, PollReady, PollTimeout, PollInterrupted,
         PollFails, AcceptDone, ServeDone, ReapDone, Signal, Tick
<1>3. pfds' \in Seq(PollFd)
  <2>0. \A k \in 1 .. Len(pfds) : pfds[k] \in PollFd
    BY DEF TypeOK
  <2>1. CASE Listen
    <3>1. [fd |-> Listener, events |-> {"IN"}, revents |-> {}] \in PollFd
      BY DEF PollFd
    <3> QED BY <2>1, <3>1, OneIsSeq DEF Listen, TypeOK
  <2>2. CASE RenewInterest
    <3>1. pfds' \in [1 .. Len(pfds) -> PollFd]
      BY <2>0, <2>2 DEF RenewInterest, PollFd, Interest
    <3> QED BY <3>1 DEF TypeOK
  <2>3. CASE PollReady \/ PollTimeout
    <3>1. \A k \in 1 .. Len(pfds) : ReventsOf(k) \in SUBSET {"IN", "OUT", "HUP"}
      BY DEF ReventsOf, Revents
    <3>2. pfds' \in [1 .. Len(pfds) -> PollFd]
      BY <2>0, <2>3, <3>1 DEF PollReady, PollTimeout, PollFd
    <3> QED BY <3>2 DEF TypeOK
  <2>4. CASE AcceptDone
    <3>1. 1 \in 1 .. Len(pfds)
      BY <2>4 DEF AcceptDone, TypeOK, LoopBounds, Parallel
    <3> QED BY <2>4, <3>1, ClearedIsTable DEF AcceptDone, TypeOK
  <2>5. CASE Free
    BY <2>5 DEF Free
  <2> QED BY <2>1, <2>2, <2>3, <2>4, <2>5
       DEF Shutdown, PollInterrupted, PollFails, ServeDone, ReapDone, Signal, Tick, TypeOK
<1>4. pc' \in Phase
  BY DEF Listen, RenewInterest, Shutdown, Free, PollReady, PollTimeout, PollInterrupted,
         PollFails, AcceptDone, ServeDone, ReapDone, Signal, Tick, TypeOK, Phase
<1>8. running' \in BOOLEAN
  BY DEF Listen, RenewInterest, Shutdown, Free, PollReady, PollTimeout, PollInterrupted,
         PollFails, AcceptDone, ServeDone, ReapDone, Signal, Tick, TypeOK
<1>9. now' \in 0 .. MaxTime
  BY TimeAssumption
     DEF Listen, RenewInterest, Shutdown, Free, PollReady, PollTimeout, PollInterrupted,
         PollFails, AcceptDone, ServeDone, ReapDone, Signal, Tick, TypeOK, Phase
<1>5. i' \in Nat
  <2>1. Len(conns) \in Nat
    BY DEF TypeOK
  <2> QED BY <2>1 DEF Listen, RenewInterest, Shutdown, Free, PollReady, PollTimeout,
       PollInterrupted, PollFails, AcceptDone, ServeDone, ReapDone, Signal, Tick, TypeOK,
       LastSlot
<1>6. cap' \in Nat
  BY InitCapAssumption
     DEF Listen, RenewInterest, Shutdown, Free, PollReady, PollTimeout, PollInterrupted,
         PollFails, AcceptDone, ServeDone, ReapDone, Signal, Tick, TypeOK, Reserve
<1>7. conns' \in Seq(Clients \cup {Listener})
  <2>1. CASE Listen
    BY <2>1, OneIsSeq DEF Listen, TypeOK
  <2>2. CASE Free
    BY <2>2 DEF Free
  <2> QED BY <2>1, <2>2
       DEF RenewInterest, Shutdown, PollReady, PollTimeout, PollInterrupted, PollFails,
           AcceptDone, ServeDone, ReapDone, Signal, Tick, TypeOK
<1> QED BY <1>1, <1>2, <1>3, <1>4, <1>5, <1>6, <1>7, <1>8, <1>9 DEF TypeOK

\* One accepted connection is one more slot and a fresh record.
LEMMA AcceptType ==
  ASSUME TypeOK, Accept
  PROVE  TypeOK'
<1> DEFINE c == Head(backlog)
           d == ConnReset([BlankConn EXCEPT !.last_activity = now], NextId)
           slot == [fd |-> c, events |-> {"IN"}, revents |-> {}]
<1>1. c \in Clients /\ Tail(backlog) \in Seq(Clients)
  BY DEF Accept, TypeOK, NetTypeOK
<1>2. d \in Conn /\ d.out_off <= Len(d.out)
  <2>1. now \in Nat /\ NextId \in Nat
    BY TimeAssumption DEF TypeOK, NextId
  <2>2. [BlankConn EXCEPT !.last_activity = now] \in Conn
    BY <2>1, BlankConnType DEF Conn
  <2>3. d \in Conn
    BY <2>1, <2>2, ConnResetType
  <2>4. d.out = <<>> /\ d.out_off = 0
    BY DEF ConnReset, BlankConn
  <2> QED BY <2>3, <2>4
<1>3. slot \in PollFd
  BY <1>1 DEF PollFd
<1>4. /\ fd' = [fd EXCEPT ![c] = "open"] /\ conns' = Append(conns, c)
      /\ pfds' = Append(pfds, slot) /\ conn' = [conn EXCEPT ![c] = d]
      /\ backlog' = Tail(backlog) /\ cap' = Reserve(cap, Len(conns) + 1)
      /\ counter' = counter + 1
      /\ UNCHANGED <<rx, tx, got, peer, at, script, pc, i, running, now>>
  BY DEF Accept
<1> HIDE DEF c, d, slot
<1>5. NetTypeOK'
  BY <1>1, <1>4 DEF TypeOK, NetTypeOK
<1>6. conns' \in Seq(Clients \cup {Listener}) /\ pfds' \in Seq(PollFd)
  BY <1>1, <1>3, <1>4 DEF TypeOK
<1>7. /\ conn' \in [Clients -> Conn]
      /\ \A e \in Clients : conn'[e].out_off <= Len(conn'[e].out)
  BY <1>1, <1>2, <1>4, ConnUpdateType
<1>8. cap' \in Nat
  BY <1>4, InitCapAssumption DEF TypeOK, Reserve
<1> QED BY <1>4, <1>5, <1>6, <1>7, <1>8 DEF TypeOK

\* The read that http_read_step is run on is a connection record.
LEMMA ReceivedType ==
  ASSUME TypeOK, f \in Clients
  PROVE  /\ Received \in Conn
         /\ Received.state = conn[f].state
         /\ Received.out = conn[f].out
         /\ Received.out_off = conn[f].out_off
         /\ Received.want_continue = conn[f].want_continue
         /\ Received.next_state = conn[f].next_state
         /\ Received.id = conn[f].id
<1>1. conn[f] \in Conn /\ rx[f] \in Seq(InTok) /\ now \in Nat
  BY TimeAssumption DEF TypeOK, NetTypeOK
<1>2. conn[f].in \o rx[f] \in Seq(InTok)
  BY <1>1, ConcatIsSeq DEF Conn
<1> DEFINE s == conn[f].in \o rx[f]
           t == IF rx[f] = <<>> THEN conn[f].last_activity ELSE now
<1>3. t \in Nat
  BY <1>1 DEF Conn
<1>4. Received = [conn[f] EXCEPT !.in = s, !.last_activity = t]
  BY DEF Received
<1> HIDE DEF s, t
<1>5. s \in Seq(InTok)
  BY <1>2 DEF s
<1> QED BY <1>1, <1>3, <1>4, <1>5 DEF Conn

\* Serving a slot without closing its connection keeps the types.
LEMMA HandledType ==
  ASSUME TypeOK, i \in 1 .. Len(pfds), Handled, NetTypeOK', counter' \in Nat,
         conn' \in [Clients -> Conn],
         \A c \in Clients : conn'[c].out_off <= Len(conn'[c].out)
  PROVE  TypeOK'
<1>1. pfds' \in Seq(PollFd)
  BY ClearedIsTable DEF Handled, TypeOK
<1>2. i' \in Nat /\ UNCHANGED <<pc, running, conns, cap, now>>
  BY DEF Handled, TypeOK
<1> QED BY <1>1, <1>2 DEF TypeOK

\* A read of a ready connection keeps the types.
LEMMA ServeReadType ==
  ASSUME TypeOK, f \in Clients, i \in 1 .. Len(pfds), ServeRead \/ ServeReadHangs
  PROVE  TypeOK'
<1> DEFINE d == ReadStep(Received)
<1>1. d \in Conn /\ d.out_off <= Len(d.out)
  <2>1. Received \in Conn /\ Received.out_off <= Len(Received.out)
    <3>1. conn[f] \in Conn /\ conn[f].out_off <= Len(conn[f].out)
      BY DEF TypeOK
    <3> QED BY <3>1, ReceivedType
  <2>2. IF Received.state = "WRITE" THEN d = Received ELSE Step(Received, d)
    BY <2>1, ReadStepEffect
  <2> HIDE DEF d
  <2>3. /\ d \in Conn
        /\ d.out_off = Received.out_off
        /\ Len(d.out) > Len(Received.out) \/ d.out = Received.out
    BY <2>1, <2>2 DEF Step, Answers, Continues, Waits
  <2>4. Received.out_off \in Nat /\ Len(Received.out) \in Nat /\ Len(d.out) \in Nat
    <3>1. Received.out_off \in Nat /\ Received.out \in Seq(OutTok) /\ d.out \in Seq(OutTok)
      BY <2>1, <2>3 DEF Conn
    <3> QED BY <3>1
  <2> QED BY <2>1, <2>3, <2>4
<1>2. /\ conn' = [conn EXCEPT ![f] = d] /\ rx' = [rx EXCEPT ![f] = <<>>]
      /\ UNCHANGED <<fd, backlog, tx, got, peer, at, script, counter>>
  BY DEF ServeRead, ServeReadHangs, ReadOn
<1> HIDE DEF d
<1>3. NetTypeOK'
  BY <1>2 DEF TypeOK, NetTypeOK
<1>4. /\ conn' \in [Clients -> Conn]
      /\ \A c \in Clients : conn'[c].out_off <= Len(conn'[c].out)
  BY <1>1, <1>2, ConnUpdateType
<1>5. counter' \in Nat
  BY <1>2 DEF TypeOK
<1>6. CASE ServeReadHangs
  <2>1. pc' \in Phase /\ UNCHANGED <<i, running, conns, pfds, cap, now>>
    BY <1>6 DEF ServeReadHangs, Phase
  <2> QED BY <1>3, <1>4, <1>5, <2>1 DEF TypeOK
<1>7. CASE ServeRead
  <2>1. Handled
    BY <1>7 DEF ServeRead
  <2> QED BY <1>3, <1>4, <1>5, <2>1, HandledType
<1> QED BY <1>6, <1>7

\* The four ways a flush ends keep the types.
LEMMA ServeFlushType ==
  ASSUME TypeOK, Parallel, SlotsOpen, f \in Clients, i \in 1 .. Len(pfds), i \in 2 .. Len(conns),
         ServeFlushPart \/ ServeFlushContinue \/ ServeFlushKeepAlive \/ ServeFlushClose
  PROVE  TypeOK'
<1>1. conn[f] \in Conn /\ conn[f].out_off <= Len(conn[f].out) /\ counter \in Nat
  BY DEF TypeOK
<1>2. CASE ServeFlushPart
  <2> DEFINE d == [conn[f] EXCEPT !.out_off = @ + Flushed]
  <2>1. Flushed \in Nat /\ Flushed <= Pending(conn[f])
    BY FlushedType
  <2>2. d \in Conn /\ d.out_off <= Len(d.out)
    <3>1. /\ conn[f].out_off \in Nat /\ conn[f].out \in Seq(OutTok)
          /\ Pending(conn[f]) = Len(conn[f].out) - conn[f].out_off
      BY <1>1 DEF Conn, Pending
    <3> DEFINE n == conn[f].out_off + Flushed
    <3>2. n \in Nat /\ n <= Len(conn[f].out)
      BY <2>1, <3>1
    <3> HIDE DEF n
    <3>3. [conn[f] EXCEPT !.out_off = n] \in Conn
      BY <1>1, <3>2 DEF Conn
    <3>4. [conn[f] EXCEPT !.out_off = n].out = conn[f].out
      BY <1>1 DEF Conn
    <3>5. [conn[f] EXCEPT !.out_off = n].out_off = n
      BY <1>1 DEF Conn
    <3> QED BY <3>2, <3>3, <3>4, <3>5 DEF n
  <2>3. conn' = [conn EXCEPT ![f] = d] /\ Handled /\ Flush /\ UNCHANGED <<fd, counter>>
    BY <1>2 DEF ServeFlushPart
  <2> HIDE DEF d
  <2>4. NetTypeOK'
    BY <2>3, FlushType DEF Flush, TypeOK, NetTypeOK
  <2> QED BY <1>1, <2>2, <2>3, <2>4, ConnUpdateType, HandledType
<1>3. CASE ServeFlushContinue
  <2> DEFINE d == ResumeBody(conn[f])
  <2>1. d \in Conn /\ d.out_off <= Len(d.out)
    <3>1. d \in Conn
      BY <1>1, ResumeBodyType
    <3>2. d.out = <<>> /\ d.out_off = 0
      BY <1>1 DEF ResumeBody, Conn
    <3> QED BY <3>1, <3>2
  <2>2. conn' = [conn EXCEPT ![f] = d] /\ Handled /\ Flush /\ UNCHANGED <<fd, counter>>
    BY <1>3 DEF ServeFlushContinue
  <2> HIDE DEF d
  <2>3. NetTypeOK'
    BY <2>2, FlushType DEF Flush, TypeOK, NetTypeOK
  <2> QED BY <1>1, <2>1, <2>2, <2>3, ConnUpdateType, HandledType
<1>4. CASE ServeFlushKeepAlive
  <2> DEFINE d == ConnReset(conn[f], NextId)
  <2>1. d \in Conn /\ d.out_off <= Len(d.out)
    <3>1. NextId \in Nat
      BY <1>1 DEF NextId
    <3>2. d.out_off = 0 /\ d.out = <<>>
      BY DEF ConnReset, BlankConn
    <3> QED BY <1>1, <3>1, <3>2, ConnResetType
  <2>2. conn' = [conn EXCEPT ![f] = d] /\ Handled /\ Flush /\ counter' = counter + 1
        /\ UNCHANGED fd
    BY <1>4 DEF ServeFlushKeepAlive
  <2> HIDE DEF d
  <2>3. NetTypeOK'
    BY <2>2, FlushType DEF Flush, TypeOK, NetTypeOK
  <2>4. counter' \in Nat
    BY <1>1, <2>2
  <2> QED BY <2>1, <2>2, <2>3, <2>4, ConnUpdateType, HandledType
<1>5. CASE ServeFlushClose
  <2>1. [fd EXCEPT ![f] = "closed"] \in [Clients -> {"none", "open", "closed"}]
    BY DEF TypeOK, NetTypeOK
  <2>2. NetTypeOK'
    BY <1>5, <2>1, FlushType DEF ServeFlushClose
  <2>3. BlankConn \in Conn /\ BlankConn.out_off <= Len(BlankConn.out)
    BY BlankConnType DEF BlankConn
  <2>4. /\ conn' \in [Clients -> Conn]
        /\ \A c \in Clients : conn'[c].out_off <= Len(conn'[c].out)
    BY <1>5, <2>3, ConnUpdateType DEF ServeFlushClose
  <2>5. conns' \in Seq(Clients \cup {Listener}) /\ pfds' \in Seq(PollFd)
    <3>1. Cleared(i) \in Seq(PollFd) /\ Len(Cleared(i)) = Len(pfds)
      BY ClearedIsTable DEF TypeOK
    <3>2. i \in 1 .. Len(conns)
      BY DEF TypeOK
    <3> QED BY <1>5, <3>1, <3>2, SwapRemoveIsSeq DEF ServeFlushClose, TypeOK
  <2>6. i' \in Nat /\ UNCHANGED <<pc, running, cap, counter, now>>
    BY <1>5 DEF ServeFlushClose, TypeOK
  <2> QED BY <2>2, <2>4, <2>5, <2>6 DEF TypeOK
<1> QED BY <1>2, <1>3, <1>4, <1>5

\* No step of the serve and reap loops leaves the types.
LEMMA ServeType ==
  ASSUME TypeOK, Parallel, SlotsOpen, LoopBounds, Serve \/ ReapSlot
  PROVE  TypeOK'
<1>1. CASE ServeDone
  BY <1>1, PhaseType
<1>2. CASE Serve /\ ~ServeDone
  <2>1. i \in 2 .. Len(conns) /\ i \in 1 .. Len(pfds) /\ f \in Clients
    <3>1. i >= 2 /\ i <= Len(conns)
      BY <1>2 DEF Serve, ServeIdle, ServeHangup, ServeReadEnd, ServeRead, ServeReadHangs,
                  ReadOn, ServeFlushFails, ServeFlushPart, ServeFlushContinue,
                  ServeFlushKeepAlive, ServeFlushClose, ToRead, ToFlush, Serving, LoopBounds
    <3> QED BY <3>1, ServedSlot DEF TypeOK
  <2>2. CASE ServeIdle
    BY <2>1, <2>2, HandledType DEF ServeIdle, netVars, TypeOK, NetTypeOK
  <2>3. CASE ServeHangup \/ ServeReadEnd \/ ServeFlushFails
    <3>1. Cleared(i) \in Seq(PollFd) /\ Len(Cleared(i)) = Len(pfds)
      BY <2>1, ClearedIsTable DEF TypeOK
    <3>2. ConnClose(i, Cleared(i)) /\ UNCHANGED <<running, cap, counter, now>>
      BY <2>3 DEF ServeHangup, ServeReadEnd, ServeFlushFails, Dropped
    <3>3. pc' \in Phase /\ i' \in Nat
      BY <2>3 DEF ServeHangup, ServeReadEnd, ServeFlushFails, Dropped, TypeOK
    <3> QED BY <2>1, <3>1, <3>2, <3>3, CloseType
  <2>4. CASE ServeRead \/ ServeReadHangs
    BY <2>1, <2>4, ServeReadType
  <2>5. CASE ServeFlushPart \/ ServeFlushContinue \/ ServeFlushKeepAlive \/ ServeFlushClose
    BY <2>1, <2>5, ServeFlushType
  <2> QED BY <1>2, <2>2, <2>3, <2>4, <2>5 DEF Serve
<1>3. CASE ReapSlot
  <2>1. i \in 2 .. Len(conns) /\ i - 1 \in Nat
    BY <1>3 DEF ReapSlot, LoopBounds, TypeOK
  <2>2. CASE ConnClose(i, pfds)
    <3>1. /\ pc' \in Phase /\ i' \in Nat
          /\ UNCHANGED <<running, cap, counter, now>>
      BY <1>3, <2>1 DEF ReapSlot, TypeOK
    <3>2. pfds \in Seq(PollFd)
      BY DEF TypeOK
    <3> QED BY <2>1, <2>2, <3>1, <3>2, CloseType
  <2>3. CASE UNCHANGED <<netVars, conns, pfds, conn>>
    BY <1>3, <2>1, <2>3 DEF ReapSlot, netVars, TypeOK, NetTypeOK
  <2> QED BY <1>3, <2>2, <2>3 DEF ReapSlot
<1> QED BY <1>1, <1>2, <1>3

\* Every step keeps the types.
LEMMA NextType ==
  ASSUME TypeOK, Parallel, SlotsOpen, LoopBounds, [Next]_vars
  PROVE  TypeOK'
<1>1. CASE Loop /\ ~Spin
  BY <1>1, PhaseType, AcceptType, ServeType DEF Loop
<1>2. CASE World
  BY <1>2, WorldType DEF World
<1>3. CASE Signal \/ PollInterrupted \/ Tick
  BY <1>3, PhaseType
<1>4. CASE Spin \/ UNCHANGED vars
  BY <1>4 DEF Spin, vars, netVars, serverVars, TypeOK, NetTypeOK
<1> QED BY <1>1, <1>2, <1>3, <1>4 DEF Next

-----------------------------------------------------------------------------
(* The connection table.                                                   *)

\* A step that neither moves slots nor closes sockets keeps the table.
LEMMA TableKept ==
  ASSUME TableSound, UNCHANGED <<fd, conns, cap>>, pc' = "freed" \/ pc # "freed",
         Len(pfds') = Len(pfds), \A k \in 1 .. Len(pfds) : pfds'[k].fd = pfds[k].fd
  PROVE  TableSound'
<1>1. Parallel' /\ SlotsDistinct' /\ SlotsOpen'
  BY DEF TableSound, Parallel, SlotsDistinct, SlotsOpen
<1>2. NoneOutside'
  BY DEF TableSound, NoneOutside
<1> QED BY <1>1, <1>2 DEF TableSound

\* conn_close keeps the table, whichever slot is closed.
LEMMA TableClosed ==
  ASSUME TypeOK, TableSound, NEW k \in 2 .. Len(conns), NEW table \in Seq(PollFd),
         Len(table) = Len(pfds), \A j \in 1 .. Len(pfds) : table[j].fd = pfds[j].fd,
         fd' = [fd EXCEPT ![conns[k]] = "closed"], conns' = SwapRemove(conns, k),
         pfds' = SwapRemove(table, k), cap' = cap, pc # "freed"
  PROVE  TableSound' /\ Len(conns') = Len(conns) - 1
<1> DEFINE from(j) == IF j = k THEN Len(conns) ELSE j
<1>1. /\ conns \in Seq(Clients \cup {Listener}) /\ Len(conns) \in Nat /\ cap \in Nat
      /\ k \in 1 .. Len(conns) /\ Len(table) = Len(conns) /\ Len(conns) <= cap
  BY DEF TypeOK, TableSound, Parallel
<1>2. /\ Len(conns') = Len(conns) - 1
      /\ \A j \in 1 .. (Len(conns) - 1) : conns'[j] = conns[from(j)]
  <2>1. conns \in Seq(Clients \cup {Listener}) /\ k \in 1 .. Len(conns)
    BY <1>1
  <2>2. /\ Len(SwapRemove(conns, k)) = Len(conns) - 1
        /\ \A j \in 1 .. (Len(conns) - 1) :
             SwapRemove(conns, k)[j] = IF j = k THEN conns[Len(conns)] ELSE conns[j]
    BY <2>1, SwapRemoveIsSeq
  <2> QED BY <1>1, <2>2
<1>3. /\ Len(pfds') = Len(conns) - 1
      /\ \A j \in 1 .. (Len(conns) - 1) : pfds'[j] = table[from(j)]
  <2>1. table \in Seq(PollFd) /\ k \in 1 .. Len(table)
    BY <1>1
  <2>2. /\ Len(SwapRemove(table, k)) = Len(table) - 1
        /\ \A j \in 1 .. (Len(table) - 1) :
             SwapRemove(table, k)[j] = IF j = k THEN table[Len(table)] ELSE table[j]
    BY <2>1, SwapRemoveIsSeq
  <2> QED BY <1>1, <2>2
<1>4. \A j \in 1 .. (Len(conns) - 1) : from(j) \in 1 .. Len(conns) /\ from(j) # k
  BY <1>1
<1>5. \A j, m \in 1 .. (Len(conns) - 1) : j # m => from(j) # from(m)
  BY <1>1
<1>6. \A j \in 2 .. (Len(conns) - 1) : from(j) >= 2
  BY <1>1
<1>7. from(1) = 1
  BY <1>1
<1> HIDE DEF from
<1>8. Parallel'
  <2>1. \A j \in 1 .. Len(conns) : table[j].fd = conns[j]
    BY <1>1 DEF TableSound, Parallel
  <2>2. \A j \in 1 .. (Len(conns) - 1) : pfds'[j].fd = conns'[j]
    BY <1>2, <1>3, <1>4, <2>1
  <2> QED BY <1>1, <1>2, <1>3, <2>2 DEF Parallel
<1>9. SlotsDistinct'
  BY <1>1, <1>2, <1>4, <1>5 DEF TableSound, SlotsDistinct
<1>10. SlotsOpen'
  <2>1. conns[k] \in Clients /\ fd \in [Clients -> {"none", "open", "closed"}]
    BY <1>1 DEF TypeOK, NetTypeOK, TableSound, SlotsOpen
  <2>2. ASSUME NEW j \in 2 .. (Len(conns) - 1)
        PROVE  conns'[j] \in Clients /\ fd'[conns'[j]] = "open"
    <3>1. conns'[j] = conns[from(j)] /\ from(j) \in 2 .. Len(conns) /\ from(j) # k
      BY <1>1, <1>2, <1>4, <1>6
    <3>2. conns[from(j)] \in Clients /\ fd[conns[from(j)]] = "open"
      BY <1>1, <3>1 DEF TableSound, SlotsOpen
    <3>3. conns[from(j)] # conns[k]
      BY <1>1, <3>1 DEF TableSound, SlotsDistinct
    <3> QED BY <2>1, <3>1, <3>2, <3>3
  <2>3. Len(conns) >= 2 => conns'[1] = Listener
    BY <1>1, <1>2, <1>7 DEF TableSound, SlotsOpen
  <2> QED BY <1>1, <1>2, <2>2, <2>3 DEF SlotsOpen
<1>11. NoneOutside'
  <2> SUFFICES ASSUME NEW c \in Clients, fd'[c] = "open"
               PROVE  \E m \in 2 .. (Len(conns) - 1) : conns'[m] = c
    BY <1>2 DEF NoneOutside
  <2>1. conns[k] \in Clients /\ c # conns[k] /\ fd[c] = "open"
    BY <1>1 DEF TypeOK, NetTypeOK, TableSound, SlotsOpen
  <2>2. PICK m \in 2 .. Len(conns) : conns[m] = c
    BY <2>1 DEF TableSound, NoneOutside
  <2>3. m # k
    BY <2>1, <2>2
  <2>4. CASE m = Len(conns)
    <3>1. k \in 2 .. (Len(conns) - 1) /\ from(k) = m
      BY <1>1, <2>3, <2>4 DEF from
    <3>2. conns'[k] = c
      BY <1>1, <1>2, <2>2, <3>1
    <3> QED BY <3>1, <3>2
  <2>5. CASE m # Len(conns)
    <3>1. m \in 2 .. (Len(conns) - 1) /\ from(m) = m
      BY <1>1, <2>3, <2>5 DEF from
    <3>2. conns'[m] = c
      BY <1>1, <1>2, <2>2, <3>1
    <3> QED BY <3>1, <3>2
  <2> QED BY <2>4, <2>5
<1>12. Len(conns') <= cap'
  BY <1>1, <1>2
<1> QED BY <1>2, <1>8, <1>9, <1>10, <1>11, <1>12 DEF TableSound

\* accept_new_clients adds a slot for a socket that had none.
LEMMA TableAccepted ==
  ASSUME TypeOK, TableSound, LoopBounds, BacklogSound, Accept
  PROVE  TableSound'
<1> DEFINE c == Head(backlog)
           n == Len(conns)
<1>1. /\ conns \in Seq(Clients \cup {Listener}) /\ pfds \in Seq(PollFd)
      /\ n \in Nat /\ n >= 1 /\ Len(pfds) = n /\ cap \in Nat /\ n <= cap
  BY DEF Accept, TypeOK, LoopBounds, TableSound, Parallel
<1>2. c \in Clients /\ fd[c] = "none"
  <2>1. backlog \in Seq(Clients) /\ backlog # <<>>
    BY DEF Accept, TypeOK, NetTypeOK
  <2>2. 1 \in 1 .. Len(backlog) /\ c = backlog[1] /\ c \in Clients
    BY <2>1
  <2> QED BY <2>2 DEF BacklogSound
<1>3. /\ fd' = [fd EXCEPT ![c] = "open"] /\ conns' = Append(conns, c)
      /\ pfds' = Append(pfds, [fd |-> c, events |-> {"IN"}, revents |-> {}])
      /\ cap' = Reserve(cap, n + 1) /\ pc' = "accept"
  BY DEF Accept
<1>4. /\ Len(conns') = n + 1 /\ conns'[n + 1] = c /\ \A k \in 1 .. n : conns'[k] = conns[k]
  BY <1>1, <1>3
<1>5. /\ Len(pfds') = n + 1 /\ pfds'[n + 1].fd = c /\ \A k \in 1 .. n : pfds'[k] = pfds[k]
  BY <1>1, <1>3
<1>6. fd \in [Clients -> {"none", "open", "closed"}]
  BY DEF TypeOK, NetTypeOK
<1>7. \A k \in 1 .. n : conns[k] # c
  BY <1>1, <1>2, ListenerAssumption DEF TableSound, SlotsOpen
<1> HIDE DEF c, n
<1>8. Parallel'
  BY <1>1, <1>4, <1>5 DEF TableSound, Parallel, n
<1>9. SlotsDistinct'
  BY <1>1, <1>4, <1>7 DEF TableSound, SlotsDistinct, n
<1>10. SlotsOpen'
  BY <1>1, <1>2, <1>3, <1>4, <1>6 DEF TableSound, SlotsOpen, n
<1>11. NoneOutside'
  <2> SUFFICES ASSUME NEW d \in Clients, fd'[d] = "open"
               PROVE  \E k \in 2 .. (n + 1) : conns'[k] = d
    BY <1>4 DEF NoneOutside
  <2>1. CASE d = c
    BY <1>1, <1>4, <2>1
  <2>2. CASE d # c
    <3>1. fd[d] = "open" /\ pc # "freed"
      BY <1>2, <1>3, <1>6, <2>2 DEF Accept
    <3>2. PICK k \in 2 .. n : conns[k] = d
      BY <3>1 DEF TableSound, NoneOutside, n
    <3> QED BY <1>1, <1>4, <3>2
  <2> QED BY <2>1, <2>2
<1>12. Len(conns') <= cap'
  BY <1>1, <1>3, <1>4, InitCapAssumption DEF Reserve
<1> QED BY <1>8, <1>9, <1>10, <1>11, <1>12 DEF TableSound

\* The slot looked at by the serve loop, and the table after it.
LEMMA ServedSlotTable ==
  ASSUME TypeOK, TableSound, LoopBounds, Serve, ~ServeDone
  PROVE  /\ pc = "serve" /\ i \in 2 .. Len(conns) /\ i \in 1 .. Len(pfds)
         /\ f \in Clients /\ fd[f] = "open"
         /\ Cleared(i) \in Seq(PollFd) /\ Len(Cleared(i)) = Len(pfds)
         /\ \A j \in 1 .. Len(pfds) : Cleared(i)[j].fd = pfds[j].fd
<1>1. pc = "serve" /\ i >= 2 /\ i <= Len(conns)
  BY DEF Serve, ServeIdle, ServeHangup, ServeReadEnd, ServeRead, ServeReadHangs, ReadOn,
         ServeFlushFails, ServeFlushPart, ServeFlushContinue, ServeFlushKeepAlive,
         ServeFlushClose, ToRead, ToFlush, Serving, LoopBounds
<1>2. i \in 2 .. Len(conns) /\ i \in 1 .. Len(pfds) /\ f \in Clients /\ fd[f] = "open"
  BY <1>1, ServedSlot DEF TypeOK, TableSound
<1> QED BY <1>1, <1>2, ClearedIsTable DEF TypeOK

\* What the serve loop does to the table: it closes the slot, or keeps all,
\* for good if the decoder hangs.
LEMMA ServeTable ==
  ASSUME TypeOK, TableSound, LoopBounds, Serve, ~ServeDone
  PROVE  \/ /\ fd' = [fd EXCEPT ![f] = "closed"] /\ conn' = [conn EXCEPT ![f] = BlankConn]
            /\ conns' = SwapRemove(conns, i) /\ pfds' = SwapRemove(Cleared(i), i)
            /\ i' \in {i, i + 1}
            /\ UNCHANGED <<backlog, peer, pc, cap, counter>>
         \/ /\ Handled
            /\ UNCHANGED <<fd, backlog, peer>>
         \/ /\ pc' = "spin" /\ conn'[f].state = "READ_CHUNK"
            /\ UNCHANGED <<fd, backlog, peer, i, conns, pfds, cap, counter>>
<1>1. CASE ServeReadHangs
  <2> DEFINE d == ReadStep(Received)
  <2>1. d.state = "READ_CHUNK" /\ conn' = [conn EXCEPT ![f] = d]
    BY <1>1 DEF ServeReadHangs, ReadOn, MayHang, MidBody
  <2> HIDE DEF d
  <2>2. f \in Clients /\ conn \in [Clients -> Conn]
    BY ServedSlotTable DEF TypeOK
  <2>3. conn'[f].state = "READ_CHUNK"
    BY <2>1, <2>2
  <2> QED BY <1>1, <2>3 DEF ServeReadHangs, ReadOn
<1>2. CASE ~ServeReadHangs
  BY <1>2 DEF Serve, ServeIdle, ServeHangup, ServeReadEnd, ServeRead, ReadOn,
              ServeFlushFails, ServeFlushPart, ServeFlushContinue, ServeFlushKeepAlive,
              ServeFlushClose, Dropped, ConnClose, Flush, Handled, netVars, f
<1> QED BY <1>1, <1>2

\* The reaper closes the slot it looks at, or keeps all.
LEMMA ReapTable ==
  ASSUME TypeOK, TableSound, LoopBounds, ReapSlot
  PROVE  /\ i \in 2 .. Len(conns) /\ f \in Clients /\ fd[f] = "open"
         /\ pc = "reap" /\ i' = i - 1 /\ UNCHANGED <<backlog, peer, pc, cap, counter>>
         /\ \/ /\ fd' = [fd EXCEPT ![f] = "closed"] /\ conn' = [conn EXCEPT ![f] = BlankConn]
               /\ conns' = SwapRemove(conns, i) /\ pfds' = SwapRemove(pfds, i)
            \/ UNCHANGED <<fd, conns, pfds, conn>>
<1>1. i \in 2 .. Len(conns)
  BY DEF ReapSlot, LoopBounds, TypeOK
<1>2. f \in Clients /\ fd[f] = "open"
  BY <1>1, ServedSlot DEF TypeOK, TableSound
<1> QED BY <1>1, <1>2 DEF ReapSlot, ConnClose, netVars, f

\* The steps of the loop that neither open nor close a connection.
Quiet ==
  \/ RenewInterest \/ Shutdown \/ PollReady \/ PollTimeout \/ PollInterrupted \/ PollFails
  \/ AcceptDone \/ ServeDone \/ ReapDone \/ Signal \/ Tick

\* They leave the shape of the poll table, the sockets and the records.
LEMMA QuietTable ==
  ASSUME TypeOK, LoopBounds, TableSound, Quiet
  PROVE  /\ Len(pfds') = Len(pfds)
         /\ \A k \in 1 .. Len(pfds) : pfds'[k].fd = pfds[k].fd
         /\ UNCHANGED <<netVars, conns, cap, counter, conn>>
         /\ pc' = "freed" \/ pc # "freed"
<1>1. /\ UNCHANGED <<netVars, conns, cap, counter, conn>>
      /\ pc' = "freed" \/ pc # "freed"
  BY DEF Quiet, RenewInterest, Shutdown, PollReady, PollTimeout, PollInterrupted, PollFails,
         AcceptDone, ServeDone, ReapDone, Signal, Tick
<1>2. CASE RenewInterest \/ PollReady \/ PollTimeout
  <2>1. \A k \in 1 .. Len(pfds) : pfds[k] \in PollFd
    BY DEF TypeOK
  <2>2. Len(pfds) \in Nat
    BY DEF TypeOK
  <2>3. \A k \in 1 .. Len(pfds) : /\ [pfds[k] EXCEPT !.events = Interest(k)].fd = pfds[k].fd
                                  /\ [pfds[k] EXCEPT !.revents = ReventsOf(k)].fd = pfds[k].fd
                                  /\ [pfds[k] EXCEPT !.revents = {}].fd = pfds[k].fd
    BY <2>1 DEF PollFd
  <2>4. CASE RenewInterest
    BY <1>1, <2>2, <2>3, <2>4 DEF RenewInterest
  <2>5. CASE PollReady
    <3> DEFINE reported(k) == [pfds[k] EXCEPT !.revents = ReventsOf(k)]
    <3>1. pfds' = [k \in 1 .. Len(pfds) |-> reported(k)]
      BY <2>5 DEF PollReady
    <3>2. \A k \in 1 .. Len(pfds) : reported(k).fd = pfds[k].fd
      BY <2>3
    <3> HIDE DEF reported
    <3> QED BY <1>1, <2>2, <3>1, <3>2
  <2>6. CASE PollTimeout
    <3> DEFINE reported(k) == [pfds[k] EXCEPT !.revents = {}]
    <3>1. pfds' = [k \in 1 .. Len(pfds) |-> reported(k)]
      BY <2>6 DEF PollTimeout
    <3>2. \A k \in 1 .. Len(pfds) : reported(k).fd = pfds[k].fd
      BY <2>3
    <3> HIDE DEF reported
    <3> QED BY <1>1, <2>2, <3>1, <3>2
  <2> QED BY <1>2, <2>4, <2>5, <2>6
<1>3. CASE AcceptDone
  <2>1. 1 \in 1 .. Len(pfds)
    BY <1>3 DEF AcceptDone, TypeOK, LoopBounds, TableSound, Parallel
  <2> QED BY <1>1, <1>3, <2>1, ClearedIsTable DEF AcceptDone, TypeOK
<1>4. CASE UNCHANGED pfds
  BY <1>1, <1>4
<1> QED BY <1>2, <1>3, <1>4
  DEF Quiet, Shutdown, PollInterrupted, PollFails, ServeDone, ReapDone, Signal, Tick

\* The steps of the specification, as the lemmas below tell them apart.
LEMMA NextCases ==
  ASSUME [Next]_vars
  PROVE  \/ Listen \/ Free \/ Quiet \/ Accept \/ (Serve /\ ~ServeDone) \/ ReapSlot
         \/ \E c \in Clients : NetStep(c) /\ UNCHANGED serverVars
         \/ UNCHANGED vars
BY DEF Next, Loop, World, Quiet, Serve, Spin

\* Clients and kernel open and close no descriptor.
LEMMA WorldSockets ==
  ASSUME NEW c \in Clients, NetStep(c)
  PROVE  UNCHANGED fd
BY DEF NetStep, Connect, Send, SkipBody, Receive, LeaveEof, LeaveRst, ResetAfterClose

\* Every step keeps the table sound.
LEMMA TableNext ==
  ASSUME IndInv, [Next]_vars
  PROVE  TableSound'
<1> USE DEF IndInv
<1>1. CASE Listen
  <2>1. \A c \in Clients : fd'[c] = "none"
    BY <1>1 DEF Listen, LoopBounds, netVars
  <2>2. CASE conns' = conns
    <3>1. UNCHANGED <<fd, conns, pfds, cap>> /\ pc # "freed"
      BY <1>1, <2>2 DEF Listen, LoopBounds, netVars, TypeOK
    <3> QED BY <3>1, TableKept
  <2>3. CASE conns' # conns
    <3>1. /\ conns' = <<Listener>> /\ cap' = InitCap
          /\ pfds' = <<[fd |-> Listener, events |-> {"IN"}, revents |-> {}]>>
      BY <1>1, <2>3, InitCapAssumption DEF Listen, LoopBounds, Reserve
    <3>2. Len(conns') = 1 /\ conns'[1] = Listener /\ Len(pfds') = 1 /\ pfds'[1].fd = Listener
      BY <3>1
    <3>3. Parallel' /\ SlotsDistinct' /\ SlotsOpen'
      BY <3>2 DEF Parallel, SlotsDistinct, SlotsOpen
    <3>4. NoneOutside'
      BY <2>1 DEF NoneOutside
    <3> QED BY <3>1, <3>2, <3>3, <3>4, InitCapAssumption DEF TableSound
  <2> QED BY <2>2, <2>3
<1>2. CASE Free
  <2>1. conns' = <<>> /\ pfds' = <<>> /\ cap' = 0 /\ pc' = "freed"
    BY <1>2 DEF Free
  <2> QED BY <2>1 DEF TableSound, Parallel, SlotsDistinct, SlotsOpen, NoneOutside
<1>3. CASE Quiet
  BY <1>3, QuietTable, TableKept DEF netVars
<1>4. CASE Accept
  BY <1>4, TableAccepted
<1>5. CASE Serve /\ ~ServeDone
  <2>1. CASE Handled /\ UNCHANGED <<fd, backlog, peer>>
    <3>1. Len(pfds') = Len(pfds) /\ \A k \in 1 .. Len(pfds) : pfds'[k].fd = pfds[k].fd
      BY <1>5, <2>1, ServedSlotTable DEF Handled
    <3> QED BY <1>5, <2>1, <3>1, ServedSlotTable, TableKept DEF Handled
  <2>2. CASE /\ fd' = [fd EXCEPT ![f] = "closed"]
             /\ conns' = SwapRemove(conns, i) /\ pfds' = SwapRemove(Cleared(i), i)
             /\ cap' = cap
    BY <1>5, <2>2, ServedSlotTable, TableClosed DEF f
  <2>3. CASE pc' = "spin" /\ UNCHANGED <<fd, conns, pfds, cap>>
    BY <1>5, <2>3, ServedSlotTable, TableKept
  <2> QED BY <1>5, <2>1, <2>2, <2>3, ServeTable
<1>6. CASE ReapSlot
  <2>1. CASE UNCHANGED <<fd, conns, pfds, conn>>
    BY <1>6, <2>1, ReapTable, TableKept
  <2>2. CASE /\ fd' = [fd EXCEPT ![f] = "closed"]
             /\ conns' = SwapRemove(conns, i) /\ pfds' = SwapRemove(pfds, i)
    <3>1. pfds \in Seq(PollFd)
      BY DEF TypeOK
    <3> QED BY <1>6, <2>2, <3>1, ReapTable, TableClosed DEF f
  <2> QED BY <1>6, <2>1, <2>2, ReapTable
<1>7. CASE \E c \in Clients : NetStep(c) /\ UNCHANGED serverVars
  <2>1. UNCHANGED <<fd, conns, pfds, cap, pc>>
    BY <1>7, WorldSockets DEF serverVars
  <2> QED BY <2>1, TableKept
<1>8. CASE UNCHANGED vars
  BY <1>8, TableKept DEF vars, netVars, serverVars
<1> QED BY <1>1, <1>2, <1>3, <1>4, <1>5, <1>6, <1>7, <1>8, NextCases

\* Every step keeps the loop variable within its bounds.
LEMMA LoopBoundsNext ==
  ASSUME IndInv, [Next]_vars
  PROVE  LoopBounds'
<1> USE DEF IndInv
<1>0. Len(conns) \in Nat /\ i \in Nat
  BY DEF TypeOK
<1>1. CASE Listen
  <2>1. CASE pc' = "stopped"
    BY <2>1 DEF LoopBounds
  <2>2. CASE pc' = "top" /\ conns' = <<Listener>>
    <3>1. Len(conns') = 1
      BY <2>2
    <3> QED BY <2>2, <3>1 DEF LoopBounds
  <2> QED BY <1>1, <2>1, <2>2 DEF Listen
<1>2. CASE Free
  BY <1>2 DEF Free, LoopBounds
<1>3. CASE Quiet
  <2>1. UNCHANGED <<fd, conns, cap>>
    BY <1>3, QuietTable DEF netVars
  <2> QED BY <1>0, <1>3, <2>1
    DEF Quiet, RenewInterest, Shutdown, PollReady, PollTimeout, PollInterrupted, PollFails,
        AcceptDone, ServeDone, ReapDone, Signal, Tick, LastSlot, LoopBounds
<1>4. CASE Accept
  <2>1. pc' = "accept" /\ Len(conns') = Len(conns) + 1
    BY <1>4 DEF Accept, TypeOK
  <2> QED BY <1>0, <2>1 DEF LoopBounds
<1>5. CASE Serve /\ ~ServeDone
  <2>1. i >= 2 /\ i' \in {i, i + 1} /\ Len(conns) >= 2 /\ pc' \in {"serve", "spin"}
    BY <1>0, <1>5, ServedSlotTable, ServeTable DEF Handled
  <2>2. Len(conns') >= 1
    <3>1. conns' = conns \/ conns' = SwapRemove(conns, i)
      BY <1>5, ServeTable DEF Handled
    <3>2. Len(SwapRemove(conns, i)) = Len(conns) - 1
      BY <1>5, ServedSlotTable, SwapRemoveIsSeq DEF TypeOK
    <3> QED BY <1>0, <2>1, <3>1, <3>2
  <2>3. pc' = "spin" => i' \in 2 .. Len(conns') /\ conn'[conns'[i']].state = "READ_CHUNK"
    BY <1>5, ServedSlotTable, ServeTable DEF Handled, f
  <2> QED BY <1>0, <2>1, <2>2, <2>3 DEF LoopBounds
<1>6. CASE ReapSlot
  <2>1. pc' = "reap" /\ i' = i - 1 /\ i \in 2 .. Len(conns)
    BY <1>6, ReapTable
  <2>2. Len(conns') >= Len(conns) - 1
    <3>1. conns' = conns \/ conns' = SwapRemove(conns, i)
      BY <1>6, ReapTable
    <3>2. Len(SwapRemove(conns, i)) = Len(conns) - 1
      BY <2>1, SwapRemoveIsSeq DEF TypeOK
    <3> QED BY <1>0, <3>1, <3>2
  <2>3. Len(conns') \in Nat
    BY NextType DEF TypeOK, TableSound
  <2> QED BY <1>0, <2>1, <2>2, <2>3 DEF LoopBounds
<1>7. CASE \E c \in Clients : NetStep(c) /\ UNCHANGED serverVars
  BY <1>7, WorldSockets DEF serverVars, LoopBounds
<1>8. CASE UNCHANGED vars
  BY <1>8 DEF vars, netVars, serverVars, LoopBounds
<1> QED BY <1>1, <1>2, <1>3, <1>4, <1>5, <1>6, <1>7, <1>8, NextCases

-----------------------------------------------------------------------------
(* The backlog.                                                            *)

\* A step that leaves the backlog alone and gives no descriptor to a
\* connection that has none keeps the backlog sound.
LEMMA BacklogKept ==
  ASSUME TypeOK, BacklogSound, UNCHANGED backlog,
         \A c \in Clients : fd[c] = "none" => fd'[c] = "none",
         \A c \in Clients : peer'[c] = "absent" => peer[c] = "absent"
  PROVE  BacklogSound'
<1>1. \A k \in 1 .. Len(backlog) : backlog[k] \in Clients
  BY DEF TypeOK, NetTypeOK
<1> QED BY <1>1 DEF BacklogSound

\* A client waits in the backlog until its connection is accepted.
LEMMA BacklogConnect ==
  ASSUME TypeOK, BacklogSound, NEW c \in Clients, Connect(c)
  PROVE  BacklogSound'
<1>1. /\ backlog \in Seq(Clients) /\ Len(backlog) \in Nat
      /\ peer \in [Clients -> {"absent", "connected", "eof", "rst"}]
  BY DEF TypeOK, NetTypeOK
<1>2. /\ peer[c] = "absent" /\ fd[c] = "none" /\ backlog' = Append(backlog, c)
      /\ peer' = [peer EXCEPT ![c] = "connected"] /\ fd' = fd
  BY DEF Connect, BacklogSound
<1>3. /\ Len(backlog') = Len(backlog) + 1 /\ backlog'[Len(backlog) + 1] = c
      /\ \A k \in 1 .. Len(backlog) : backlog'[k] = backlog[k] /\ backlog[k] \in Clients
  BY <1>1, <1>2
<1>4. \A k \in 1 .. Len(backlog) : backlog[k] # c
  BY <1>2 DEF BacklogSound
<1>5. \A k \in 1 .. Len(backlog') : fd'[backlog'[k]] = "none" /\ peer'[backlog'[k]] # "absent"
  BY <1>1, <1>2, <1>3 DEF BacklogSound
<1>6. \A j, k \in 1 .. Len(backlog') : j # k => backlog'[j] # backlog'[k]
  BY <1>1, <1>3, <1>4 DEF BacklogSound
<1>7. \A d \in Clients : peer'[d] = "absent" => fd'[d] = "none"
  BY <1>1, <1>2 DEF BacklogSound
<1> QED BY <1>5, <1>6, <1>7 DEF BacklogSound

\* accept() takes the oldest one.
LEMMA BacklogAccept ==
  ASSUME TypeOK, BacklogSound, Accept
  PROVE  BacklogSound'
<1>1. /\ backlog \in Seq(Clients) /\ backlog # <<>> /\ Len(backlog) \in Nat
      /\ fd \in [Clients -> {"none", "open", "closed"}]
  <2>1. backlog # <<>>
    BY DEF Accept
  <2>2. backlog \in Seq(Clients) /\ fd \in [Clients -> {"none", "open", "closed"}]
    BY DEF TypeOK, NetTypeOK
  <2> QED BY <2>1, <2>2
<1>2. backlog' = Tail(backlog) /\ fd' = [fd EXCEPT ![backlog[1]] = "open"] /\ peer' = peer
  BY <1>1 DEF Accept
<1>3. /\ Len(backlog') = Len(backlog) - 1
      /\ \A k \in 1 .. (Len(backlog) - 1) : backlog'[k] = backlog[k + 1]
      /\ \A k \in 1 .. Len(backlog) : backlog[k] \in Clients
  BY <1>1, <1>2
<1>4. 1 \in 1 .. Len(backlog) /\ Len(backlog) >= 1
  BY <1>1
<1>5. \A k \in 1 .. (Len(backlog) - 1) :
        k + 1 \in 1 .. Len(backlog) /\ backlog[k + 1] # backlog[1]
  BY <1>1, <1>4 DEF BacklogSound
<1>6. \A k \in 1 .. Len(backlog') : fd'[backlog'[k]] = "none" /\ peer'[backlog'[k]] # "absent"
  BY <1>1, <1>2, <1>3, <1>5 DEF BacklogSound
<1>7. \A j, k \in 1 .. Len(backlog') : j # k => backlog'[j] # backlog'[k]
  BY <1>1, <1>3, <1>5 DEF BacklogSound
<1>8. \A d \in Clients : peer'[d] = "absent" => fd'[d] = "none"
  BY <1>1, <1>2, <1>3, <1>4 DEF BacklogSound
<1> QED BY <1>6, <1>7, <1>8 DEF BacklogSound

\* Every step keeps the backlog sound.
LEMMA BacklogNext ==
  ASSUME IndInv, [Next]_vars
  PROVE  BacklogSound'
<1> USE DEF IndInv
<1>0. /\ fd \in [Clients -> {"none", "open", "closed"}]
      /\ peer \in [Clients -> {"absent", "connected", "eof", "rst"}]
  BY DEF TypeOK, NetTypeOK
<1>1. CASE Listen \/ Free \/ Quiet \/ UNCHANGED vars
  <2>1. UNCHANGED <<fd, backlog, peer>>
    BY <1>1, QuietTable DEF Listen, Free, netVars, vars
  <2> QED BY <2>1, BacklogKept
<1>2. CASE Accept
  BY <1>2, BacklogAccept
<1>3. CASE Serve /\ ~ServeDone
  BY <1>0, <1>3, ServedSlotTable, ServeTable, BacklogKept
<1>4. CASE ReapSlot
  BY <1>0, <1>4, ReapTable, BacklogKept
<1>5. CASE \E c \in Clients : NetStep(c) /\ UNCHANGED serverVars
  <2>1. PICK c \in Clients : NetStep(c)
    BY <1>5
  <2>2. CASE Connect(c)
    BY <2>2, BacklogConnect
  <2>3. CASE ~Connect(c)
    <3>1. UNCHANGED <<fd, backlog>>
      BY <2>1, <2>3 DEF NetStep, Send, SkipBody, Receive, LeaveEof, LeaveRst, ResetAfterClose
    <3>2. \A d \in Clients : peer'[d] = "absent" => peer[d] = "absent"
      BY <1>0, <2>1, <2>3
         DEF NetStep, Send, SkipBody, Receive, LeaveEof, LeaveRst, ResetAfterClose
    <3> QED BY <3>1, <3>2, BacklogKept
  <2> QED BY <2>2, <2>3
<1> QED BY <1>1, <1>2, <1>3, <1>4, <1>5, NextCases

-----------------------------------------------------------------------------
(* The connections.                                                        *)

\* What WriteHasOutput and ContinueSound say of one connection.
ConnSound(d) ==
  /\ d.state = "WRITE" <=> Pending(d) > 0
  /\ d.want_continue => d.state = "WRITE" /\ d.next_state \in {"READ_BODY", "READ_CHUNK"}

\* What a step does to the connections: at most one record changes, to a
\* sound one that keeps its id, or takes the next, or is closed.
Moves(c, d) ==
  /\ conn' = [conn EXCEPT ![c] = d]
  /\ d \in Conn
  /\ ConnSound(d)
  /\ \/ d.id = conn[c].id /\ UNCHANGED <<fd, counter>>
     \/ /\ d.id = counter + 1 /\ counter' = counter + 1
        /\ UNCHANGED fd \/ fd' = [fd EXCEPT ![c] = "open"]
     \/ fd' = [fd EXCEPT ![c] = "closed"] /\ UNCHANGED counter

\* A closed record and one that has been reset are sound.
LEMMA BlankSound ==
  /\ ConnSound(BlankConn)
  /\ \A c \in Conn, n \in Nat : ConnSound(ConnReset(c, n)) /\ ConnReset(c, n).id = n
<1>1. ConnSound(BlankConn)
  BY DEF ConnSound, BlankConn, Pending
<1>2. ASSUME NEW c \in Conn, NEW n \in Nat
      PROVE  ConnSound(ConnReset(c, n)) /\ ConnReset(c, n).id = n
  <2> DEFINE d == ConnReset(c, n)
  <2>1. d.state = "READ_HEADERS" /\ d.out = <<>> /\ d.out_off = 0 /\ ~d.want_continue /\ d.id = n
    BY DEF ConnReset, BlankConn
  <2> HIDE DEF d
  <2>2. ConnSound(d)
    BY <2>1 DEF ConnSound, Pending
  <2> QED BY <2>1, <2>2 DEF d
<1> QED BY <1>1, <1>2

\* accept_new_clients makes a sound connection.
LEMMA AcceptMoves ==
  ASSUME TypeOK, Accept
  PROVE  \E c \in Clients, d \in Conn : Moves(c, d)
<1> DEFINE c == Head(backlog)
           b == [BlankConn EXCEPT !.last_activity = now]
           d == ConnReset(b, NextId)
<1>1. c \in Clients
  BY DEF Accept, TypeOK, NetTypeOK
<1>2. b \in Conn /\ NextId \in Nat
  <2>1. now \in Nat /\ NextId \in Nat
    BY TimeAssumption DEF TypeOK, NextId
  <2> QED BY <2>1, BlankConnType DEF Conn
<1>3. /\ conn' = [conn EXCEPT ![c] = d] /\ fd' = [fd EXCEPT ![c] = "open"]
      /\ counter' = counter + 1
  BY DEF Accept
<1> HIDE DEF b, c
<1>4. d \in Conn /\ ConnSound(d) /\ d.id = NextId
  BY <1>2, BlankSound, ConnResetType
<1> HIDE DEF d
<1> QED BY <1>1, <1>3, <1>4 DEF Moves, NextId

\* http_read_step leaves a sound connection sound.
LEMMA ServeReadMoves ==
  ASSUME TypeOK, WriteHasOutput, ContinueSound, f \in Clients,
         ServeRead \/ ServeReadHangs
  PROVE  \E d \in Conn : Moves(f, d)
<1> DEFINE c == Received
           d == ReadStep(c)
<1>1. /\ c \in Conn /\ c.state = conn[f].state /\ c.out = conn[f].out
      /\ c.out_off = conn[f].out_off /\ c.want_continue = conn[f].want_continue
      /\ c.next_state = conn[f].next_state /\ c.id = conn[f].id
  BY ReceivedType
<1>2. conn' = [conn EXCEPT ![f] = d] /\ UNCHANGED <<fd, counter>>
  BY DEF ServeRead, ServeReadHangs, ReadOn
<1>3. c.state = "WRITE" => d = c
  BY <1>1, ReadStepEffect
<1>4. c.state # "WRITE" => Step(c, d)
  BY <1>1, ReadStepEffect
<1> HIDE DEF c, d
<1>5. ConnSound(c) /\ (c.state # "WRITE" => ~c.want_continue)
  BY <1>1 DEF WriteHasOutput, ContinueSound, ConnSound, Pending
<1>6. /\ c.out_off \in Nat /\ Len(c.out) \in Nat /\ c.out_off <= Len(c.out)
  <2>1. conn[f].out_off <= Len(conn[f].out)
    BY DEF TypeOK
  <2>2. c.out_off \in Nat /\ c.out \in Seq(OutTok)
    BY <1>1 DEF Conn
  <2> QED BY <1>1, <2>1, <2>2
<1>7. CASE c.state = "WRITE"
  BY <1>1, <1>2, <1>3, <1>5, <1>7 DEF Moves
<1>8. CASE c.state # "WRITE" /\ Answers(c, d)
  <2>1. Len(d.out) \in Nat /\ Pending(d) > 0
    BY <1>6, <1>8 DEF Answers, Conn, Pending
  <2> QED BY <1>1, <1>2, <1>5, <1>8, <2>1 DEF Moves, ConnSound, Answers
<1>9. CASE c.state # "WRITE" /\ Continues(c, d)
  <2>1. Len(d.out) \in Nat /\ Pending(d) > 0
    BY <1>6, <1>9 DEF Continues, Conn, Pending
  <2> QED BY <1>1, <1>2, <1>9, <2>1 DEF Moves, ConnSound, Continues
<1>10. CASE c.state # "WRITE" /\ Waits(c, d)
  <2>1. Pending(d) = Pending(c)
    BY <1>10 DEF Waits, Pending
  <2> QED BY <1>1, <1>2, <1>5, <1>10, <2>1 DEF Moves, ConnSound, Waits
<1> QED BY <1>4, <1>7, <1>8, <1>9, <1>10 DEF Step

\* Neither does the way a flush ends, or a close in the serve loop.
LEMMA ServeMoves ==
  ASSUME TypeOK, TableSound, LoopBounds, WriteHasOutput, ContinueSound, Serve, ~ServeDone
  PROVE  \E d \in Conn : Moves(f, d)
<1>1. f \in Clients /\ conn[f] \in Conn /\ conn \in [Clients -> Conn]
  BY ServedSlotTable DEF TypeOK
<1>2. ConnSound(conn[f])
  BY <1>1 DEF WriteHasOutput, ContinueSound, ConnSound
<1>3. CASE ServeIdle
  <2>1. conn' = [conn EXCEPT ![f] = conn[f]] /\ UNCHANGED <<fd, counter>>
    BY <1>1, <1>3 DEF ServeIdle, netVars
  <2> QED BY <1>1, <1>2, <2>1 DEF Moves
<1>4. CASE ServeHangup \/ ServeReadEnd \/ ServeFlushFails \/ ServeFlushClose
  <2>1. /\ conn' = [conn EXCEPT ![f] = BlankConn] /\ fd' = [fd EXCEPT ![f] = "closed"]
        /\ UNCHANGED counter
    BY <1>4 DEF ServeHangup, ServeReadEnd, ServeFlushFails, ServeFlushClose, Dropped,
                ConnClose, f
  <2> QED BY <2>1, BlankSound, BlankConnType DEF Moves
<1>5. CASE ServeRead \/ ServeReadHangs
  BY <1>1, <1>5, ServeReadMoves
<1>6. CASE ServeFlushPart
  <2> DEFINE n == conn[f].out_off + Flushed
             d == [conn[f] EXCEPT !.out_off = n]
  <2>1. /\ conn' = [conn EXCEPT ![f] = d] /\ UNCHANGED <<fd, counter>>
        /\ Flushed < Pending(conn[f])
    BY <1>6 DEF ServeFlushPart
  <2>2. n \in Nat /\ n < Len(conn[f].out)
    <3>1. /\ conn[f].out_off \in Nat /\ Len(conn[f].out) \in Nat /\ Flushed \in Nat
          /\ Pending(conn[f]) = Len(conn[f].out) - conn[f].out_off
      BY <1>1, FlushedType DEF Conn, Pending
    <3> HIDE DEF Flushed
    <3> QED BY <2>1, <3>1
  <2> HIDE DEF n
  <2>3. /\ d \in Conn /\ d.state = conn[f].state /\ d.out = conn[f].out /\ d.out_off = n
        /\ d.want_continue = conn[f].want_continue /\ d.next_state = conn[f].next_state
        /\ d.id = conn[f].id
    BY <1>1, <2>2 DEF Conn
  <2> HIDE DEF d
  <2>4. Len(conn[f].out) \in Nat
    BY <1>1 DEF Conn
  <2>5. Pending(d) > 0
    BY <2>2, <2>3, <2>4 DEF Pending
  <2>6. Pending(conn[f]) > 0
    BY <1>1, <2>1, FlushedType DEF Conn, Pending
  <2>7. ConnSound(d)
    BY <1>2, <2>3, <2>5, <2>6 DEF ConnSound
  <2> QED BY <2>1, <2>3, <2>7 DEF Moves
<1>7. CASE ServeFlushContinue
  <2> DEFINE d == ResumeBody(conn[f])
  <2>1. /\ conn' = [conn EXCEPT ![f] = d] /\ UNCHANGED <<fd, counter>>
        /\ conn[f].want_continue
    BY <1>7 DEF ServeFlushContinue
  <2>2. d \in Conn
    BY <1>1, ResumeBodyType
  <2>3. /\ d.state = conn[f].next_state /\ d.out = <<>> /\ d.out_off = 0
        /\ ~d.want_continue /\ d.id = conn[f].id
    BY <1>1 DEF ResumeBody, Conn
  <2> HIDE DEF d
  <2>4. ConnSound(d)
    BY <1>2, <2>1, <2>3 DEF ConnSound, Pending
  <2> QED BY <2>1, <2>2, <2>3, <2>4 DEF Moves
<1>8. CASE ServeFlushKeepAlive
  <2> DEFINE d == ConnReset(conn[f], NextId)
  <2>1. /\ conn' = [conn EXCEPT ![f] = d] /\ UNCHANGED fd /\ counter' = counter + 1
    BY <1>8 DEF ServeFlushKeepAlive
  <2>2. NextId \in Nat
    BY DEF TypeOK, NextId
  <2>3. d \in Conn /\ ConnSound(d) /\ d.id = NextId
    BY <1>1, <2>2, BlankSound, ConnResetType
  <2> HIDE DEF d
  <2> QED BY <2>1, <2>3 DEF Moves, NextId
<1> QED BY <1>3, <1>4, <1>5, <1>6, <1>7, <1>8 DEF Serve

\* Every step changes at most one connection, in one of those ways.
LEMMA NextMoves ==
  ASSUME IndInv, [Next]_vars
  PROVE  (\E c \in Clients, d \in Conn : Moves(c, d)) \/ UNCHANGED <<fd, counter, conn>>
<1> USE DEF IndInv
<1>1. CASE Listen \/ Free \/ Quiet \/ UNCHANGED vars
  BY <1>1, QuietTable DEF Listen, Free, netVars, vars, serverVars
<1>2. CASE Accept
  BY <1>2, AcceptMoves
<1>3. CASE Serve /\ ~ServeDone
  BY <1>3, ServeMoves, ServedSlotTable
<1>4. CASE ReapSlot
  <2>1. UNCHANGED counter
    BY <1>4, ReapTable
  <2>2. CASE UNCHANGED <<fd, conns, pfds, conn>>
    BY <2>1, <2>2
  <2>3. CASE fd' = [fd EXCEPT ![f] = "closed"] /\ conn' = [conn EXCEPT ![f] = BlankConn]
    <3>1. Moves(f, BlankConn)
      BY <2>1, <2>3, BlankSound, BlankConnType DEF Moves
    <3> QED BY <1>4, <3>1, BlankConnType, ReapTable
  <2> QED BY <1>4, <2>2, <2>3, ReapTable
<1>5. CASE \E c \in Clients : NetStep(c) /\ UNCHANGED serverVars
  BY <1>5, WorldSockets DEF serverVars
<1> QED BY <1>1, <1>2, <1>3, <1>4, <1>5, NextCases

\* Every step keeps the connections sound and their ids apart.
LEMMA ConnNext ==
  ASSUME IndInv, [Next]_vars
  PROVE  WriteHasOutput' /\ ContinueSound' /\ FreshIds'
<1> USE DEF IndInv
<1>1. /\ conn \in [Clients -> Conn] /\ counter \in Nat
      /\ fd \in [Clients -> {"none", "open", "closed"}]
  BY DEF TypeOK, NetTypeOK
<1>2. CASE UNCHANGED <<fd, counter, conn>>
  BY <1>2 DEF WriteHasOutput, ContinueSound, FreshIds
<1>3. ASSUME NEW c \in Clients, NEW d \in Conn, Moves(c, d)
      PROVE  WriteHasOutput' /\ ContinueSound' /\ FreshIds'
  <2>1. conn'[c] = d /\ \A e \in Clients : e # c => conn'[e] = conn[e]
    BY <1>1, <1>3 DEF Moves
  <2>2. ConnSound(d)
    BY <1>3 DEF Moves
  <2>3. WriteHasOutput'
    BY <2>1, <2>2 DEF WriteHasOutput, ConnSound
  <2>4. ContinueSound'
    BY <2>1, <2>2 DEF ContinueSound, ConnSound
  <2>5. \A e \in Clients : e # c => fd'[e] = fd[e]
    BY <1>1, <1>3 DEF Moves
  <2>6. FreshIds'
    <3>1. CASE d.id = conn[c].id /\ UNCHANGED <<fd, counter>>
      <4>1. fd' = fd /\ counter' = counter /\ \A e \in Clients : conn'[e].id = conn[e].id
        BY <2>1, <3>1
      <4> QED BY <4>1 DEF FreshIds
    <3>2. CASE d.id = counter + 1 /\ counter' = counter + 1
      <4>1. /\ conn'[c].id = counter + 1
            /\ \A e \in Clients : e # c => fd'[e] = fd[e] /\ conn'[e].id = conn[e].id
        BY <2>1, <2>5, <3>2
      <4>2. \A e \in Clients : fd[e] = "open" => conn[e].id \in 1 .. counter
        BY DEF FreshIds
      <4>3. \A e \in Clients : fd'[e] = "open" => conn'[e].id \in 1 .. counter'
        BY <1>1, <3>2, <4>1, <4>2
      <4>4. \A e \in Clients : e # c /\ fd'[e] = "open" => conn'[e].id # conn'[c].id
        BY <1>1, <4>1, <4>2
      <4> QED BY <4>1, <4>3, <4>4 DEF FreshIds
    <3>3. CASE fd' = [fd EXCEPT ![c] = "closed"] /\ UNCHANGED counter
      <4>1. fd'[c] # "open"
        BY <1>1, <3>3
      <4>2. counter' = counter
            /\ \A e \in Clients : e # c => fd'[e] = fd[e] /\ conn'[e].id = conn[e].id
        BY <2>1, <2>5, <3>3
      <4> QED BY <4>1, <4>2 DEF FreshIds
    <3> QED BY <1>3, <3>1, <3>2, <3>3 DEF Moves
  <2> QED BY <2>3, <2>4, <2>6
<1> QED BY <1>2, <1>3, NextMoves

-----------------------------------------------------------------------------
(* What poll() has reported.                                               *)

\* A client that is reset stays so.
LEMMA ResetForGood ==
  ASSUME IndInv, [Next]_vars, NEW c \in Clients, peer[c] = "rst"
  PROVE  peer'[c] = "rst"
<1> USE DEF IndInv
<1>1. CASE Listen \/ Free \/ Quiet \/ Accept \/ UNCHANGED vars
  BY <1>1, QuietTable DEF Listen, Free, Accept, netVars, vars
<1>2. CASE (Serve /\ ~ServeDone) \/ ReapSlot
  BY <1>2, ServeTable, ReapTable
<1>3. ASSUME NEW d \in Clients, NetStep(d)
      PROVE  peer'[c] = "rst"
  <2>1. peer \in [Clients -> {"absent", "connected", "eof", "rst"}]
    BY DEF TypeOK, NetTypeOK
  <2> QED BY <1>3, <2>1
    DEF NetStep, Connect, Send, SkipBody, Receive, LeaveEof, LeaveRst, ResetAfterClose
<1> QED BY <1>1, <1>2, <1>3, NextCases

\* The report in slot k, which was in slot j before the step.
CarriedOver(k, j) ==
  LET p == pfds[j]
  IN  /\ pfds'[k].fd = p.fd
      /\ pfds'[k].revents = {} \/ (pfds'[k].revents = p.revents /\ conn'[p.fd] = conn[p.fd])
      /\ pc' = "poll" =>
           pc = "poll" /\ pfds'[k].events = p.events /\ conn'[p.fd] = conn[p.fd]

\* It is as true as before.
LEMMA ReportCarriedOver ==
  ASSUME ReportsSound, NEW j \in 2 .. Len(pfds), NEW k, CarriedOver(k, j),
         peer[pfds[j].fd] = "rst" => peer'[pfds[j].fd] = "rst"
  PROVE  ReportSound(pfds[k])'
<1>1. ReportSound(pfds[j])
  BY DEF ReportsSound
<1> QED BY <1>1 DEF CarriedOver, ReportSound

\* A slot holds the connection its poll entry is for, and no other slot does.
LEMMA SlotOwner ==
  ASSUME TypeOK, TableSound, NEW j \in 2 .. Len(pfds)
  PROVE  /\ j \in 1 .. Len(pfds) /\ pfds[j] \in PollFd
         /\ pfds[j].fd = conns[j] /\ conns[j] \in Clients
         /\ \A m \in 1 .. Len(conns) : m # j => conns[m] # pfds[j].fd
<1>1. Len(pfds) \in Nat /\ j \in 1 .. Len(pfds) /\ j \in 1 .. Len(conns) /\ j # 1
  BY DEF TypeOK, TableSound, Parallel
<1> QED BY <1>1 DEF TypeOK, TableSound, Parallel, SlotsDistinct, SlotsOpen

\* Clearing a slot leaves the other entries, and removing one of them too.
LEMMA ClearedSlots ==
  ASSUME TypeOK, TableSound, NEW k \in 2 .. Len(pfds), NEW j \in 2 .. Len(pfds)
  PROVE  /\ Cleared(k)[j].fd = pfds[j].fd
         /\ IF j = k THEN Cleared(k)[j].revents = {} ELSE Cleared(k)[j] = pfds[j]
<1>1. j \in 1 .. Len(pfds) /\ k \in 1 .. Len(pfds) /\ pfds[j] \in PollFd
  BY SlotOwner
<1> QED BY <1>1 DEF Cleared, PollFd

\* Every step of the loop that asks poll() or hears from it.
LEMMA PollReports ==
  ASSUME TypeOK, TableSound, ReportsSound, RenewInterest \/ PollReady \/ PollTimeout,
         NEW k \in 2 .. Len(pfds)
  PROVE  ReportSound(pfds[k])'
<1> DEFINE p == pfds[k]
           c == conns[k]
<1>1. p \in PollFd /\ p.fd = c /\ k \in 1 .. Len(pfds) /\ k # 1
  BY SlotOwner
<1>2. ReportSound(p)
  BY DEF ReportsSound
<1>3. UNCHANGED <<peer, conn>>
  BY DEF RenewInterest, PollReady, PollTimeout, netVars
<1>4. CASE RenewInterest
  <2>1. pfds'[k] = [p EXCEPT !.events = Interest(k)] /\ pc # "poll" /\ pc' = "poll"
    BY <1>1, <1>4 DEF RenewInterest
  <2>2. "OUT" \in Interest(k) => Pending(conn[c]) > 0
    BY DEF Interest
  <2> HIDE DEF p, c
  <2>3. /\ pfds'[k].fd = c /\ pfds'[k].revents = p.revents
        /\ pfds'[k].events = Interest(k)
    BY <1>1, <2>1 DEF PollFd
  <2> QED BY <1>1, <1>2, <1>3, <2>2, <2>3 DEF ReportSound
<1>5. CASE PollReady
  <2>1. pfds'[k] = [p EXCEPT !.revents = ReventsOf(k)] /\ pc = "poll" /\ pc' # "poll"
    BY <1>1, <1>5 DEF PollReady
  <2>2. ReventsOf(k) = Revents(c, p.events)
    BY <1>1 DEF ReventsOf
  <2>3. /\ "HUP" \in Revents(c, p.events) => peer[c] = "rst"
        /\ "OUT" \in Revents(c, p.events) => "OUT" \in p.events
    BY DEF Revents
  <2> HIDE DEF p, c
  <2>4. pfds'[k].fd = c /\ pfds'[k].revents = Revents(c, p.events)
    BY <1>1, <2>1, <2>2 DEF PollFd
  <2> QED BY <1>1, <1>2, <1>3, <2>1, <2>3, <2>4 DEF ReportSound
<1>6. CASE PollTimeout
  <2>1. pfds'[k] = [p EXCEPT !.revents = {}] /\ pc' # "poll"
    BY <1>1, <1>6 DEF PollTimeout
  <2>2. pfds'[k].revents = {}
    BY <1>1, <2>1 DEF PollFd
  <2> QED BY <2>1, <2>2 DEF ReportSound
<1> QED BY <1>4, <1>5, <1>6

\* Closing a slot moves the last report into it, with its connection.
LEMMA ReportsClosed ==
  ASSUME TypeOK, TableSound, ReportsSound, NEW m \in 2 .. Len(pfds), pc' # "poll",
         NEW table \in Seq(PollFd), Len(table) = Len(pfds),
         \A j \in 2 .. Len(pfds) : j # m => table[j] = pfds[j],
         conn' = [conn EXCEPT ![conns[m]] = BlankConn], pfds' = SwapRemove(table, m),
         NEW k \in 2 .. Len(pfds')
  PROVE  \E j \in 2 .. Len(pfds) : CarriedOver(k, j)
<1> DEFINE j == IF k = m THEN Len(pfds) ELSE k
<1>1. m \in 1 .. Len(table) /\ Len(table) \in Nat
  BY DEF TypeOK
<1>2. /\ Len(pfds') = Len(table) - 1
      /\ \A n \in 1 .. (Len(table) - 1) :
           SwapRemove(table, m)[n] = IF n = m THEN table[Len(table)] ELSE table[n]
  BY <1>1, SwapRemoveIsSeq
<1>3. k \in 1 .. (Len(table) - 1) /\ j \in 2 .. Len(pfds) /\ j # m
  BY <1>1, <1>2
<1>4. pfds'[k] = table[j]
  BY <1>1, <1>2, <1>3
<1> HIDE DEF j
<1>5. pfds'[k] = pfds[j]
  BY <1>3, <1>4
<1>6. pfds[j].fd \in Clients /\ conns[m] # pfds[j].fd /\ conn \in [Clients -> Conn]
  <2>1. m \in 1 .. Len(conns)
    BY <1>1 DEF TableSound, Parallel
  <2> QED BY <1>3, <2>1, SlotOwner DEF TypeOK
<1>7. conn'[pfds[j].fd] = conn[pfds[j].fd]
  BY <1>6
<1> QED BY <1>3, <1>5, <1>7 DEF CarriedOver

\* A connection whose body is being read has no output, before or after.
LEMMA HangReports ==
  ASSUME IndInv, IndInv', ReportsSound, [Next]_vars, Serve, ~ServeDone, pc' = "spin",
         UNCHANGED pfds, NEW k \in 2 .. Len(pfds), pfds[k].fd = f
  PROVE  ReportSound(pfds[k])'
<1>1. ReportSound(pfds[k]) /\ f \in Clients
  BY ServedSlotTable DEF ReportsSound, IndInv
<1>2. "HUP" \in pfds[k].revents => peer'[f] = "rst"
  BY <1>1, ResetForGood DEF ReportSound
<1>3. ServeReadHangs
  BY ServedSlotTable DEF IndInv, Serve, ServeIdle, ServeHangup, ServeReadEnd, ServeRead,
     ServeFlushFails, ServeFlushPart, ServeFlushContinue, ServeFlushKeepAlive,
     ServeFlushClose, Dropped, Handled
<1>4. "OUT" \in pfds[k].revents => Pending(conn'[f]) > 0
  <2>1. SUFFICES ASSUME Pending(conn[f]) > 0
                 PROVE  Pending(conn'[f]) > 0
    BY <1>1 DEF ReportSound
  <2>2. conn[f].state = "WRITE"
    BY <1>1, <2>1 DEF IndInv, WriteHasOutput
  <2>3. Received \in Conn /\ Received.state = "WRITE"
    BY <1>1, <2>2, ReceivedType DEF IndInv
  <2>4. ReadStep(Received) = Received
    BY <2>3, ReadStepEffect
  <2>5. ReadStep(Received).state = "READ_CHUNK"
    BY <1>3 DEF ServeReadHangs, MayHang, MidBody
  <2> QED BY <2>3, <2>4, <2>5
<1> QED BY <1>1, <1>2, <1>4 DEF ReportSound

\* Every step keeps ReportsSound.
LEMMA NextReports == IndInv /\ IndInv' /\ ReportsSound /\ [Next]_vars => ReportsSound'
<1> SUFFICES ASSUME IndInv, IndInv', ReportsSound, [Next]_vars, NEW k \in 2 .. Len(pfds')
             PROVE  ReportSound(pfds[k])'
  BY DEF ReportsSound
<1> USE DEF IndInv
<1>1. Len(pfds) \in Nat /\ Len(pfds') \in Nat /\ conn \in [Clients -> Conn]
  BY DEF TypeOK
<1>2. ASSUME NEW j \in 2 .. Len(pfds), CarriedOver(k, j)
      PROVE  ReportSound(pfds[k])'
  <2>1. pfds[j].fd \in Clients
    BY SlotOwner
  <2> QED BY <1>2, <2>1, ResetForGood, ReportCarriedOver
<1>3. CASE Listen
  <2>1. \/ pfds' = <<[fd |-> Listener, events |-> {"IN"}, revents |-> {}]>>
        \/ pfds' = pfds /\ pfds = <<>>
    BY <1>3 DEF Listen, LoopBounds
  <2>2. Len(pfds') = 1 \/ Len(pfds') = 0
    <3>1. Len(<<[fd |-> Listener, events |-> {"IN"}, revents |-> {}]>>) = 1
      OBVIOUS
    <3>2. CASE pfds' = <<[fd |-> Listener, events |-> {"IN"}, revents |-> {}]>>
      BY <3>1, <3>2
    <3>3. CASE pfds' = <<>>
      BY <3>3
    <3> QED BY <2>1, <3>2, <3>3
  <2> QED BY <1>1, <2>2
<1>4. CASE Free
  <2>1. Len(pfds') < 2
    BY <1>4 DEF Free
  <2> QED BY <1>1, <2>1
<1>5. CASE RenewInterest \/ PollReady \/ PollTimeout
  <2>1. Len(pfds') = Len(pfds)
    BY <1>1, <1>5 DEF RenewInterest, PollReady, PollTimeout
  <2> QED BY <1>5, <2>1, PollReports
<1>6. CASE UNCHANGED <<pfds, conn>> /\ (pc' = "poll" => pc = "poll")
  BY <1>2, <1>6 DEF CarriedOver
<1>7. CASE Quiet
  <2>1. CASE AcceptDone
    <3>1. 1 \in 1 .. Len(pfds) /\ pfds' = Cleared(1) /\ UNCHANGED conn /\ pc' # "poll"
      BY <1>1, <2>1 DEF AcceptDone, LoopBounds, TableSound, Parallel
    <3>2. Len(pfds') = Len(pfds) /\ k # 1 /\ k \in 2 .. Len(pfds)
      BY <3>1, ClearedIsTable DEF TypeOK
    <3>3. pfds'[k] = pfds[k]
      BY <3>1, <3>2 DEF Cleared
    <3> QED BY <1>2, <3>1, <3>2, <3>3 DEF CarriedOver
  <2> QED BY <1>5, <1>6, <1>7, <2>1
    DEF Quiet, Shutdown, PollInterrupted, PollFails, ServeDone, ReapDone, Signal, Tick
<1>8. CASE Accept
  <2> DEFINE c == Head(backlog)
             new == [fd |-> c, events |-> {"IN"}, revents |-> {}]
  <2>1. pfds' = Append(pfds, new) /\ pc' = "accept" /\ pfds \in Seq(PollFd)
    BY <1>8 DEF Accept, TypeOK
  <2>2. CASE k = Len(pfds) + 1
    <3>1. pfds'[k].revents = {}
      BY <2>1, <2>2
    <3> QED BY <2>1, <3>1 DEF ReportSound
  <2>3. CASE k # Len(pfds) + 1
    <3>1. k \in 2 .. Len(pfds) /\ pfds'[k] = pfds[k]
      BY <1>1, <2>1, <2>3
    <3>2. pfds[k].fd \in Clients /\ pfds[k].fd = conns[k] /\ fd[conns[k]] = "open"
      BY <3>1, SlotOwner DEF TableSound, Parallel, SlotsOpen
    <3>3. c \in Clients /\ fd[c] = "none"
      <4>1. backlog \in Seq(Clients) /\ backlog # <<>>
        BY <1>8 DEF Accept, TypeOK, NetTypeOK
      <4>2. 1 \in 1 .. Len(backlog) /\ c = backlog[1] /\ c \in Clients
        BY <4>1
      <4> QED BY <4>2 DEF BacklogSound
    <3>4. conn'[pfds[k].fd] = conn[pfds[k].fd]
      BY <1>1, <1>8, <3>2, <3>3 DEF Accept
    <3> QED BY <1>2, <2>1, <3>1, <3>4 DEF CarriedOver
  <2> QED BY <2>2, <2>3
<1>9. CASE Serve /\ ~ServeDone
  <2>1. /\ pc = "serve" /\ i \in 2 .. Len(pfds) /\ f = conns[i]
        /\ Cleared(i) \in Seq(PollFd) /\ Len(Cleared(i)) = Len(pfds)
    BY <1>9, ServedSlotTable DEF f, TableSound, Parallel
  <2>2. \A j \in 2 .. Len(pfds) : j # i => Cleared(i)[j] = pfds[j]
    BY <2>1, ClearedSlots
  <2>3. CASE /\ conn' = [conn EXCEPT ![f] = BlankConn] /\ pc' = pc
             /\ pfds' = SwapRemove(Cleared(i), i)
    BY <1>2, <2>1, <2>2, <2>3, ReportsClosed
  <2>4. CASE Handled /\ \A c \in Clients : c # f => conn'[c] = conn[c]
    <3>1. pfds' = Cleared(i) /\ pc' # "poll" /\ k \in 2 .. Len(pfds)
      BY <2>1, <2>4 DEF Handled
    <3>2. CASE k = i
      BY <1>2, <2>1, <3>1, <3>2, ClearedSlots DEF CarriedOver
    <3>3. CASE k # i
      <4>1. pfds[k].fd \in Clients /\ pfds[k].fd # f
        <5>1. i \in 1 .. Len(conns)
          BY <2>1 DEF TableSound, Parallel
        <5> QED BY <2>1, <3>1, <3>3, <5>1, SlotOwner
      <4>2. pfds'[k] = pfds[k] /\ conn'[pfds[k].fd] = conn[pfds[k].fd]
        <5>1. pfds'[k] = Cleared(i)[k]
          BY <3>1
        <5>2. Cleared(i)[k] = pfds[k]
          BY <2>2, <3>1, <3>3
        <5>3. conn'[pfds[k].fd] = conn[pfds[k].fd]
          BY <2>4, <4>1
        <5> QED BY <5>1, <5>2, <5>3
      <4>3. CarriedOver(k, k)
        BY <3>1, <4>2 DEF CarriedOver
      <4> QED BY <1>2, <3>1, <4>3
    <3> QED BY <3>2, <3>3
  <2>5. Handled => \A c \in Clients : c # f => conn'[c] = conn[c]
    <3>1. PICK d \in Conn : Moves(f, d)
      BY <1>9, ServeMoves
    <3> QED BY <1>1, <2>1, <3>1, SlotOwner DEF Moves
  <2>6. CASE pc' = "spin" /\ UNCHANGED pfds
    <3>1. k \in 2 .. Len(pfds) /\ pfds'[k] = pfds[k] /\ pfds[k].fd \in Clients
      BY <2>6, SlotOwner
    <3>2. PICK d \in Conn : Moves(f, d)
      BY <1>9, ServeMoves
    <3>3. pfds[k].fd # f => conn'[pfds[k].fd] = conn[pfds[k].fd]
      BY <1>1, <2>1, <3>1, <3>2, SlotOwner DEF Moves
    <3>4. CASE pfds[k].fd = f
      BY <1>9, <2>6, <3>1, <3>4, HangReports
    <3>5. CASE pfds[k].fd # f
      BY <1>2, <2>6, <3>1, <3>3, <3>5 DEF CarriedOver
    <3> QED BY <3>4, <3>5
  <2> QED BY <1>9, <2>3, <2>4, <2>5, <2>6, ServeTable
<1>10. CASE ReapSlot
  <2>1. /\ pc' = "reap" /\ i \in 2 .. Len(pfds) /\ f = conns[i]
        /\ pfds \in Seq(PollFd)
    BY <1>10, ReapTable DEF f, TableSound, Parallel, TypeOK
  <2>2. CASE conn' = [conn EXCEPT ![f] = BlankConn] /\ pfds' = SwapRemove(pfds, i)
    BY <1>2, <2>1, <2>2, ReportsClosed
  <2> QED BY <1>6, <1>10, <2>1, <2>2, ReapTable
<1>11. CASE (\E c \in Clients : NetStep(c) /\ UNCHANGED serverVars) \/ UNCHANGED vars
  BY <1>6, <1>11 DEF serverVars, vars
<1> QED BY <1>3, <1>4, <1>7, <1>8, <1>9, <1>10, <1>11, NextCases

-----------------------------------------------------------------------------
(* The theorems.                                                           *)

\* IndInv holds when the program starts.
LEMMA InitIndInv == Init => IndInv
<1> SUFFICES ASSUME Init
             PROVE  IndInv
  OBVIOUS
<1>1. NetTypeOK
  <2>1. script \in [Clients -> Seq(Request)]
    BY ScriptsAssumption DEF Init, NetInit
  <2>2. [req |-> 1, pos |-> 1] \in Cursor
    BY DEF Cursor
  <2> QED BY <2>1, <2>2, SndBufAssumption DEF Init, NetInit, NetTypeOK
<1>2. TypeOK
  <2>1. BlankConn.out_off <= Len(BlankConn.out)
    BY DEF BlankConn
  <2>2. /\ conn \in [Clients -> Conn]
        /\ \A c \in Clients : conn[c].out_off <= Len(conn[c].out)
    BY <2>1, BlankConnType DEF Init
  <2>3. pc \in Phase /\ i \in Nat /\ running \in BOOLEAN /\ cap \in Nat /\ counter \in Nat
    BY DEF Init, Phase
  <2>4. now \in 0 .. MaxTime
    BY TimeAssumption DEF Init
  <2>5. conns \in Seq(Clients \cup {Listener}) /\ pfds \in Seq(PollFd)
    BY DEF Init
  <2> QED BY <1>1, <2>2, <2>3, <2>4, <2>5 DEF TypeOK
<1>3. LoopBounds
  BY DEF Init, NetInit, LoopBounds
<1>4. TableSound
  BY DEF Init, NetInit, TableSound, Parallel, SlotsDistinct, SlotsOpen, NoneOutside
<1>5. BacklogSound
  BY DEF Init, NetInit, BacklogSound
<1>6. WriteHasOutput /\ ContinueSound
  BY BlankSound DEF Init, WriteHasOutput, ContinueSound, ConnSound
<1>7. FreshIds
  BY DEF Init, NetInit, FreshIds
<1> QED BY <1>2, <1>3, <1>4, <1>5, <1>6, <1>7 DEF IndInv

\* Every step keeps IndInv.
LEMMA NextIndInv == IndInv /\ [Next]_vars => IndInv'
<1> SUFFICES ASSUME IndInv, [Next]_vars
             PROVE  IndInv'
  OBVIOUS
<1>1. TypeOK'
  BY NextType DEF IndInv, TableSound
<1>2. LoopBounds'
  BY LoopBoundsNext
<1>3. TableSound'
  BY TableNext
<1>4. BacklogSound'
  BY BacklogNext
<1>5. WriteHasOutput' /\ ContinueSound' /\ FreshIds'
  BY ConnNext
<1> QED BY <1>1, <1>2, <1>3, <1>4, <1>5 DEF IndInv

\* The invariant of the event loop, on which all that follows rests.
THEOREM Invariance == Spec => []IndInv
BY InitIndInv, NextIndInv, PTL DEF Spec

\* The state of the server and of its clients is always well typed, and no
\* output cursor of a connection runs past its output (buf.c, flush_conn).
THEOREM TypeCorrect == Spec => []TypeOK
<1>1. IndInv => TypeOK
  BY DEF IndInv
<1> QED BY <1>1, Invariance, PTL

\* conns[] and pfds[] of server.c describe the same open sockets, whatever
\* is accepted, closed, reaped or freed in whatever order.
THEOREM TableIsSound == Spec => []TableSound
<1>1. IndInv => TableSound
  BY DEF IndInv
<1> QED BY <1>1, Invariance, PTL

\* CONN_WRITE and waiting output come and go together, for any input.
THEOREM WriteStateMatchesOutput == Spec => []WriteHasOutput
<1>1. IndInv => WriteHasOutput
  BY DEF IndInv
<1> QED BY <1>1, Invariance, PTL

\* No two open connections ever carry the same X-Request-Id.
THEOREM RequestIdsAreFresh == Spec => []FreshIds
<1>1. IndInv => FreshIds
  BY DEF IndInv
<1> QED BY <1>1, Invariance, PTL

=============================================================================
