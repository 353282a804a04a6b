# Verification of cttp

cttp (`src/`) is an HTTP/1.1 server library in C: one thread, one `poll()`
loop, no dependencies.  This directory holds TLA+ modules that model its event
loop, HTTP engine, router, static files, response builders, request accessors
and JSON builder, the TLC configurations that check them on small instances,
and TLAPS proofs for all values of their constants.

## 1. The system

`src/include/cttp.h` is the concatenation of `src/internals/*` that
`src/scripts/gen_lib.sh` writes, so everything below refers to the internals.

| component | code | state | operations | interacts with |
|---|---|---|---|---|
| event loop | `server.c` | parallel arrays `conns[]`/`pfds[]` with `nconns`, `cap`; `running`; `req_counter` | accept, poll, serve a slot, flush, reap, stop, free | kernel sockets; calls the engine; signal handler clears `running` |
| HTTP engine | `http.c` | one `struct conn` per socket: `state`, `in`, `out`, `out_off`, the request record, body counters, `keep_alive`, `streamed`, `want_continue` | parse headers, read a body (length or chunked), 100 Continue, finalize a response, error responses | called by the loop after a read; calls the router; fills `c->out` |
| SSE writer | `api.c` | `conn.streamed`, `c->out` | start, send | called by handlers, writes to the connection behind the engine's back |
| router and middleware | `router.c` | route table, `req.mw_cur`, `req.params/nparams`, `res.responded` | chain, `route_match`, fallbacks | called by `dispatch_request`; calls application code, which calls back through `next` |
| JSON builder | `api.c` | `res._jd`, `res._jf[8]`, `res.body` | begin, items, nested begin/end, end | called by handlers and by the default error answers |
| accessors | `api.c` | rotating static buffers of `cttp_query`/`cttp_form`, cookie cache of the request | query, form, cookie, param | called by handlers; the URL codec |
| response builders | `api.c`, `http.c` | `struct cttp_response` | send, redirect, no_content, headers, cookies; finalize | called by handlers and by `static_serve`; finalize fills `c->out` |
| URL codec | `http.c` | none | decode, encode | parser, router, accessors |
| static files | `static.c` | the file system | path check, stat, ETag, range, read | router fallback |
| growable buffer | `buf.c` | `data`, `len`, `cap` | reserve, append, printf, consume, free | everything above |
| logging, demo, single header | `log.c`, `main.c`, `examples/`, `include/` | none of their own | formatting | - |

What is hard here, and what would make each part correct:

* **Event loop.** Slots move (swap with the last) while three loops run over
  the arrays; an answer is written only if POLLOUT was asked for one round
  earlier; bytes kept in `c->in` are looked at only when something makes the
  loop look.  Correct means: the two arrays always describe the same open
  sockets; an interest set that agrees with the state; every reported event
  served; nobody who is alive and talking is closed; termination after a
  signal; and every request answered.
* **HTTP engine.** One buffer holds the tail of one request and the beginning
  of the next, one output buffer holds interim and final responses, and a dozen
  fields must be reset between requests.  Correct means: the stream of
  responses is whole, in order, one per request; a handler sees exactly the
  body; nothing follows the answer that ends the connection.
* **Router.** The middleware cursor is shared through the request record and
  `next` may be called at any time; captures are written while a route is being
  tried.  Correct means: each middleware at most once and in order; the first
  fitting route, or the right fallback; a handler sees its own captures.
* **Chunked decoder.** A chunk, its size line and its trailer may be cut at any
  byte.  Correct means: the result does not depend on the cuts, is the body
  that was encoded, and every call returns.
* **Static files.** The file is stat'ed and read in several system calls while
  others rewrite it or rename over it, and reads may fail.  Correct means:
  a 304 only for the current file, ranges as announced, no descriptor left.
* **Builders.** Handlers call them in any order and number.  Correct means:
  a client finds the end of each answer, and what it reads is what the last
  call put there.
* **Accessors.** Returned strings live in shared buffers, cookies in a cache of
  a request struct that is used again.  Correct means: what was encoded is
  found, what was returned stays, nothing comes from an earlier request.
* **JSON builder.** Eight comma flags serve any nesting depth.  Correct means:
  commas exactly between items.

## 2. Modules

| module | models | extends |
|---|---|---|
| `Http` | the engine as operators on a connection record | - |
| `Net` | kernel queues and clients (outside the code, from the calls made) | `Http` |
| `Server` | the event loop; composes the three | `Net` |
| `ServerProperties` | properties of the composition, fairness | `Server` |
| `OrderedService` | the abstract service a connection is to its client | - |
| `Refinement` | the mapping from `Server` to `OrderedService` | `ServerProperties` |
| `MCServer` | scripts of requests for TLC | `Refinement` |
| `ServerProofs` | proofs about one call of the engine, and about table, states and ids | `ServerProperties` |
| `StreamProofs` | proofs about the order of what a client receives | `ServerProofs` |
| `ServiceProofs` | proofs that the input is used up exactly, and what follows | `StreamProofs` |
| `Chunks`, `MCChunks` | `read_body_chunked` character by character, and its properties; messages for TLC | - |
| `ChunksProofs` | proofs | `Chunks` |
| `Router` | chain, matching, fallbacks, log hook for request after request | - |
| `RouterProperties`, `MCRouter` | properties; tables and paths for TLC | `Router` |
| `RouterProofs` | proofs | `RouterProperties` |
| `Response` | the response record, the builders, finalize, a client's reading | - |
| `StaticFile` | `static_serve` system call by system call; the file system | `Response` |
| `Exchange` | request after request, to a handler or to a web root | `StaticFile` |
| `ExchangeProperties`, `MCExchange` | properties; requests for TLC | `Exchange` |
| `ExchangeProofs` | proofs | `ExchangeProperties` |
| `Codec` | URL and JSON text, `next_pair` and its buffers | - |
| `Accessors`, `MCAccessors` | query, form, cookie, param over two requests, and their properties; texts for TLC | `Codec` |
| `AccessorsProofs` | proofs | `Accessors` |
| `Json`, `JsonProofs` | the builder, its properties and proofs | - |

In every module a definition commented `broken:` is a deliberately wrong
variant of the definition after it.  No specification uses one: substituting it
must make a property fail, which shows that the property depends on the code.

### Http, Net, Server

*Abstraction.* Bytes are tokens that carry the number of the request they
belong to.  A request is `line end data*` or `line end chunk* last`; a response
is `continue`, `head`, `body`, `chunk`, `fin`.  Where a line ends and where
`\r\n\r\n` stands is kept (`end`, `last`), because `parse_headers` searches for
it in whatever is in the buffer, left over body bytes included.  What a request
*is* (version, Connection, method, body kind and size, Expect, where it is
malformed, what its handler answers) is a record.  A chunk is one token, size
line and data; `huge` is one whose size is near 2^64.  Header text, dates and
header-size limits are left out: the two limits end in the same 400 as a
malformed header.

*State.* `conn[c]` is `struct conn`; `conns`, `pfds`, `cap`, `counter`,
`running` are the fields of `cttp_server`; `pc` and `i` say where `cttp_listen`
is.  C index k is position k + 1; the listener is position 1.

*Steps.* One action per outcome of a system call or of a branch of the loop:
`Listen`, `RenewInterest`, `PollReady/Timeout/Interrupted/Fails`, `Accept`,
`AcceptDone`, then for each slot `ServeIdle`, `ServeHangup`, `ServeReadEnd`,
`ServeRead`, `ServeReadHangs`, `ServeFlushFails/Part/Continue/KeepAlive/Close`, then `ReapSlot`,
`ReapDone`; `Signal` may come anywhere, and cuts `poll()` short only if it comes
while `poll()` sleeps (`PollInterrupted`); `Free` is `cttp_free`.  The whole of
`http_read_step`, dispatch and response included, is one step, as it is in the
code (`ReadStep`).  Clients, kernel and clock act between any two steps.

*Reads that do not come back.*  `read_body_chunked` goes round for ever when it
finds its input used up within a chunk's data (`http.c:409-415`).  Within a
token there is no place for the cut, so it is a choice: a read that has taken
in chunks of a body that goes on either ends between two chunks (`ServeRead`)
or within the last (`ServeReadHangs`), and then `pc` stays `"spin"`: the loop
and with it all connections stand still, while clients and the clock go on.  A
size that wraps in `body.len + sz` (`http.c:399`) passes the cap and asks for
more data than will ever come: `Wraps` lets the decoder take all there is, and
`MustHang` leaves the loop no other way.

*Faithful details worth knowing.*  `RecvCloses`: a read loop that stops on a
short read sees FIN only if the data is a multiple of `IO_CHUNK`, and then
closes before it parses.  `ServeFlushClose`: after a closing flush the loop
variable moves on past the slot just swapped in, whereas `Dropped` stays.
`ConnReset` keeps `c->in`, `last_activity` and `next_state`, nothing else.

### Router

The chain is modelled as a stack of middlewares that have been entered; each may
call `next` any number of times (also after the one it called has returned),
answer, and return.  `route_match` is one step per path segment.  A slot of
`params/pvalues` records the route and segment that filled it, and whether it
was wholly decoded, so an attempt that fails leaves its traces as it does in the
code.  The record is cleared by `http_init_request` between requests.
`on_log` is called as the code does it: by `req.responded`.

### OrderedService and Refinement

`OrderedService` says what a client may rely on without buffers, polls or
bytes: requests are put (`Ask`), the service commits to one answer after the
other (`Answer`), the client sees them in that order (`See`), and when the
connection ends from either side what was not seen may be lost (`Lose`).  A
careful client, whose requests are all well formed, is answered exactly once
per request.  `Refinement` maps a connection of `Server` to it: the answers
committed to are the final responses in everything written for the client
(read by it, in the kernel, in `c->out`), and a request is asked once the first
of its tokens has been sent.  `ImplementsService` is the property.

### Chunks

`Http` takes a chunk for one token.  `Chunks` opens it: the message is a
sequence of characters, `Receive` delivers any next piece of it, and each
`Decode` is one turn of the `for (;;)` of `read_body_chunked`, with
`chunk_stage`, `chunk_rem`, the body and the rest of `c->in`.  Sizes are
counted modulo `Modulus` (2^64) and wrap as `size_t` does; `Strtoull` knows the
minus sign and saturation.  Blanks, `+` and `0x` before a size are outside the
alphabet.  A well-formed message is made of its parts (`WellFormed`): chunks of
size, extension and data, the last size line, trailer lines, and what follows.

### Response, StaticFile, Exchange

A response is the record `struct cttp_response` with the bytes of its body and
of its header lines name and value.  Each builder is an operator on it;
`Finalize` is `http_finalize_response`, the early return for streams included,
and `ReadToItsEnd`, `ContentOf` and `Received` are what RFC 9112 and the
EventSource standard (for which LF, CR and CR LF end a line) make of the
result.  `AddLine` stands for the functions that add a header line with
harmless values: `cttp_set_cookie` and `cttp_etag` do not look for CR LF in
theirs, and a handler may write a Content-Length or Transfer-Encoding of its
own, which no model of this directory considers.

`StaticFile` has one action per system call and decision of `static_serve`:
refuse, open, the second open for a directory's `index.html`, `fstat` with
what follows from it (304, 416, seek, whole file), the second `fstat` of
`read_whole_file`, each `read`, its end and its failure.  Between any two of
them another process may rewrite the file in place, rename a new one over it,
or the clock may tick.  A byte of a file is the number of the write it comes
from, so equal contents are the same bytes of the same write.

`Exchange` puts one request after the other on a connection.  A server either
has routes, whose handlers make any sequence of builder calls (`alone` is what
the last of `cttp_send`, `cttp_json`, `cttp_redirect` and `cttp_no_content`
would have made of a fresh response, `emptied` whether the last was ever
called, `pushed` the texts given to `cttp_sse_send`), or a web root
with a client that keeps a copy of the page and revalidates it: the two would
only multiply each other's states.

### Codec and Accessors

Characters are byte values.  `Decode` has what `cttp_url_decode` writes and
whether it succeeds: a bad escape stops it without a NUL.  `Decoded` is what
`next_pair` then goes on with, as it ignores the result: bytes the buffer held
before, modelled as a choice.  `PairsOf` cuts keys and values to the scanner's
buffers before they are decoded.  `JsonRead`, the client, compares bytes: it
does not refuse text that is not UTF-8, which `json_quote` passes on as it is.
`Accessors` has the two rotating buffers of
`cttp_query` and of `cttp_form`, which outlive requests, and the cookie cache
with its sentinel, which does not; handlers call in any order.

### Json

Tokens `open`, `close`, `comma`, `item`.  The handler closes what it opens and
may start over at any time (`cttp_json_err` does).  `jf` and `jd` are `_jf` and
`_jd`; `Levels` is the length of `_jf`.

## 3. What the runs check

| run | instance | properties |
|---|---|---|
| `OneClient` | one pipelining client, 48 scripts of two requests (every reply kind, body kind, method and fault, sizes that wrap), FIN and RST at any time, idle timeout | `StreamInv`, `StreamWellFramed`, `OneAnswerEach`, `LeftoverIsNextRequest`, `BodyExact`, `NothingAfterClose`, `WriteHasOutput`, `CloseIsClean`, `ImplementsService` |
| `ManyKeep` | three persistent clients, FIN, idle timeout, failing listen/accept/poll, table growing from 1 | `FreshIds`, `IndInv`, `TableSound`, `RoundServesAll` |
| `Live` | two polite clients, one with an Expect body and a second request or one with a chunked Expect body, a send buffer of one token | `Served` |
| `LiveEnd` | two clients, signal, clock | `SignalEndsLoop`, `IdleIsReaped` |
| `Routing` | three middlewares, 324 tables of two routes, 16 paths, four methods, request after request | `IndInv`, `ChainInOrder`, `RoutedAsSpecified`, `OwnCaptures` |
| `ChunkSplits` | over a hundred messages (bodies of up to two chunks with data that look like framing, extensions, trailers, a following request; malformed ones; sizes near the word size), every way to cut each | `TypeOK`, `BodyAsEncoded`, `SplitIndependent`, `BodyWithinCap`, `SpinsOnlyInData` |
| `Answers` | handlers of up to three builder calls, request after request; a page rewritten or replaced up to twice, reads of any length, failing reads, eleven kinds of request | `TypeOK`, `AnswersDelimited`, `LastBuilderCounts`, `EventsRead`, `DescriptorsClosed`, `NotModifiedIsCurrent`, `FileAsAsked` |
| `Accessors` | two requests with every significant character, bad escapes and overlong values in queries, forms, cookies and path segments; two calls each | `PairsFound`, `TwoValuesHeld`, `CookiesOfThisRequest`, `ParamAsSent`, `QuotedReadsBack` |
| `JsonBuilder` | three flags, twelve tokens | `CommasSeparate`, `IndInv` |

*Why the bounds are enough.*  Two requests on a connection are what a reset
stands between; a third would repeat the second's situation.  `IOChunk = 3` and
bodies of up to two tokens let every boundary (line, end of headers, end of
body, start of the next request) fall on either side of a read, and a send
buffer of one or two tokens makes every response a partial send.  Bodies of
three tokens exceed `MaxBody = 2`.  Three connections are the least that let a
slot be swapped into the middle while another is still to be served; the
proofs cover any number.  `Timeout = 0` with one tick is an idle timeout that
can expire at any moment.  For the router, two routes suffice for one to shadow
or precede the other, and two capture slots for a pattern of three captures to
run out of them.  For the builder, three flags behave as eight do, and twelve
tokens nest three levels beyond them.

In `ChunkSplits` a second chunk is what the first one's end must lead to, and
words of four bits (`Modulus = 16`) wrap for the sizes `f`, `ff` and `-1` as 64 bits do for
sixteen digits; `LineCap = 8` and `BlockCap = 9` are exceeded by one message
each.  In `Answers` three calls are enough for one to undo what another did
between two others; a chunk of two bytes cuts a body of three; two writes let
one fall before and one behind `fstat`, or make two files that look alike; a
page of two bytes has a range that is inside, at the end, across it, and
outside, and `Modulus` = 16 stands for the 2^64 of `unsigned long long`.  In `Accessors` a returned string must survive exactly one more call
of the same function, so two calls, and two more behind a new request, are all
there is to it; buffers of 6 and 36 characters are overrun by one of the
values.

*Deadlock* is checked in `OneClient`, `Live`, `Routing`, `Answers` and
`JsonBuilder`.  `ManyKeep` and `LiveEnd` say `CHECK_DEADLOCK FALSE` because
there the server may stop for good (a failing call or a signal ends
`cttp_listen`), `ChunkSplits` because a decoder stops when its message is
over, and `Accessors` because the number of requests is bounded.

*Fairness* (`FairSpec` of `ServerProperties`).  `WF_vars(Loop)`: the loop is a
thread that keeps running, and `poll()` is called with `POLL_INTERVAL_MS`, so
it returns even if nothing happens.  `WF` on a client's sending and reading: a
peer that has asked goes on.  A loop that spins in the decoder runs too
(`Spin`), but gets nowhere: `Served` names this outcome (`HeldUp`) instead of
assuming it away.  Nothing is assumed of connects, departures,
signals or the clock, and there is no strong fairness.  `FairSpec` of `Chunks`
is `WF_vars(Decode)`: a function that has been called keeps executing.

### Where code and documents disagree

These runs each end in a counterexample.

* `PipelineStall`: README promises pipelining and `conn_reset_for_next` keeps
  the pipelined bytes, but nothing parses them until more bytes arrive.
* `ChunkSpin`: `read_body_chunked` is to return "0 need more"; when part of a
  chunk's data is still to come, its `for (;;)` takes zero bytes for ever, and
  the only thread of the server with it.  `SpinsOnlyInData` says that this is
  the only place where a turn changes nothing, and `Server` has it as the
  phase `"spin"`.
* `CookieLost`: for `Cookie: a=1; b=2`, the form the comment above
  `cttp_cookie` gives, the second cookie's name begins with a blank and is not
  found.

Met while modelling, without a run of their own.  In the event loop:

* A body that came together with its `Expect` header is not read after the
  100 Continue has been flushed, for the reason of `PipelineStall`.
* "The loop tolerates re-checking the replacement slot", but after a flush
  that closes (`ServeFlushClose`) the slot moved in is passed over, and the
  reaper may judge it by its old `last_activity` although `poll()` has reported
  input.  `RoundServesAll` says in its antecedent that connections persist
  (`Persistent`), so it does not cover this path.
* `CTTP_MAX_BODY_SZ` is the "request body cap" (`cttp.h:43`), but the sum `body.len + sz` wraps for a
  chunk size within `body.len` of 2^64, and the decoder then stores what comes
  beyond the cap without ever returning.  `BodyExact` names this case
  (`Overrun`), `BodyWithinCap` leaves it out.
* `last_activity` is set by `recv()` only, so a client that reads a long answer
  slowly is closed in the middle of it (`Idle` excuses it in `CloseIsClean`).
* A client that half-closes its connection behind a request loses an answer
  that has not been flushed (`Leaving`, `RecvCloses`); if its data are an exact
  multiple of `IO_CHUNK`, the request is not even parsed.
* `cttp_free` "releases sockets" but leaves those of connected clients open
  (`Free`).
* A block answered with 400 because its target does not decode stays in
  `c->in` and is parsed again if the connection is kept (`AfterBlock`).  So
  `OneAnswerEach` and the exact part of `OrderedService` speak of clients
  whose requests are well formed.
* The limits of the header block are tested only while its end is missing, so
  whether a block beyond them is served depends on how it is cut.

In the router:

* `on_log` tests `req.responded`, which nothing sets (`http.c:538`; `API.md:25`
  describes the hook): it never fires.
* A middleware that has answered and still calls `next` enters the next one
  (`CallNext` looks at `mw_cur` only, although `INTERNALS.md` says an answer
  short-circuits the chain); one that neither answers nor calls `next` skips
  the rest of the chain and the handler still runs.
* The path is decoded when it is parsed and each captured segment once more,
  although the comment at `http.c:137` has it once: `%2541` becomes `A`, and a
  segment that decodes to a bad escape makes its route fail.  `ParamAsSent`
  leaves out segments with a percent sign.

In answers and files:

* A HEAD request whose handler streams or sets `chunked` is answered with
  chunks (`ChunksForHead`); a stream ignores `Connection: close`, as
  `cttp_sse_start` decides by the version alone.
* A 416, any status set after `cttp_no_content`, and an answer whose status
  nobody set announce no length on a connection that goes on (`NoEnd`).
* "All set the status + Content-Type + body for you and clear previous ones"
  (`API.md:53`), but `no_body` stays set after `cttp_no_content`, so that the
  body of a later builder is not sent (`StaysSilent`); `cttp_redirect` keeps
  the content type of an earlier call (`KeepsType`), and its `Location` stays
  when a later call changes the status.
* `API.md:99` has 416 for "bad ranges", but a range whose end precedes its
  start gets a 206 with the rest of the file (`Reversed`).  `bytes=-N` gets a
  416 where RFC 9110 means the last N bytes, and `-0` the whole file, because
  the minus is read as a sign.  `Expected` says what a range asks for by the
  RFC, and `FileAsAsked` names these two.
* When nothing could be read of a range, the last position of
  `Content-Range` precedes the first or wraps.
* Two contents of equal size written in the same second have one ETag
  (`Lookalike`).
* An event loses a final newline, and an event without data is not seen by
  an EventSource (`AsRead`).  A text with a CR is read as other lines than were
  pushed, although "multi-line data becomes several data: lines, exactly as
  the SSE spec wants" (`api.c:335`): `cttp_sse_send` splits at LF only, and
  `EventsRead` leaves such texts out (`WithoutReturn`).

In accessors:

* After a bad escape `next_pair` returns what its buffers held before.
* Keys and values are cut to the scanner's buffers before they are decoded, so
  an encoded value may lose its end, or its last escape.

In the demo: `access_log` in `main.c:87` passes one argument less than its
format takes.

## 4. What is proved

Every theorem is for all values of the constants, from the named assumptions
beside them (buffer sizes positive, `Listener` not a client, scripts are
sequences of requests, tables are sequences of routes, at least two levels,
the largest file smaller than the `Modulus` of its size, `CTTP_MAX_BODY_SZ`
smaller than a word, the size line's buffer no larger than the block limit,
texts without NUL, segments without a slash).

* `ServerProofs!ReadStepEffect`: what one call of `http_read_step` does to any
  connection record: it answers (state WRITE, output grown), sends a 100
  Continue that will resume a body, or waits with the output untouched.
* `ServerProofs!Invariance`: `Spec => []IndInv`, and from it `TypeCorrect`
  (`TypeOK` of `Server`, a conjunct of `IndInv`), `TableIsSound`,
  `WriteStateMatchesOutput` and `RequestIdsAreFresh`.

  None of these is inductive alone.  `TableSound` needs where the loop variable
  may be (`LoopBounds`: a slot index is only used while it is inside the table,
  and never on the listener) and that a connection in the backlog has no slot
  yet (`BacklogSound`), or `Accept` could give it a second one.
  `WriteHasOutput` needs `ReadStepEffect` and `ContinueSound`: a flush of a 100
  Continue goes back to a state that is not WRITE.  The proof has one lemma per
  action; those that close a connection share the lemma about `SwapRemove` on
  both arrays.  `ManyKeep` checks `IndInv` itself.
* `JsonProofs!CommasAreRight`: `CommasSeparate` for any number of flags and any
  depth.  The invariant is `FlagIsFresh`: the one flag `json_key` will look at
  is set exactly if the last token is an opening bracket.  It does not matter
  that flags and levels get out of step beyond the cap, because every call
  writes the flag of the level it leaves current.
* `RouterProofs!RouterInvariance`: `Spec => []IndInv` for any table, paths,
  number of middlewares and of capture slots, and from it `ChainRunsInOrder`,
  `RoutedRight` and `CapturesAreOwn`.  `RoutedAsSpecified` and `OwnCaptures`
  speak of the end of the walk only; the invariant says what holds in its
  middle: the segments before `k` fit and each capture among them has its slot
  (`WalkSound`), no earlier route serves the request and `mismatch` says
  whether one fits (`PastSound`).  `FitsBeyond` is the heart of it: once the
  first segments fit, whether a pattern fits is decided by the next segment and
  by whether a slot is left, so that each way an iteration can end is right.
  `Routing` checks `IndInv` itself.

* `AccessorsProofs!ValuesAreHeld`: `TwoValuesHeld` for any texts, keys, buffer
  sizes and contents of memory.  The invariant (`BuffersInv`) says which buffer
  the last call of a function wrote and that the call before it wrote the
  other one; a miss uses up a buffer without writing it, so a miss too moves
  the older string out of reach of the next call only, not of this one.
* `AccessorsProofs!ParamsAreSent`: `ParamAsSent` for segments of any length and
  of any bytes but NUL, slash and percent sign.  The lemma it rests on,
  `EncodeDecodes`, says that `cttp_url_decode` gives back every C string that
  `cttp_url_encode` was given, percent signs included, in a buffer with room
  for it.  `FlattenLaid` finds the places where the encoded characters begin;
  at each of them the decoder reads exactly that character and goes on at the
  next place (`EncodedLaid`), and `ReadOff` puts that together from the end of
  the text to its start.  The second decoding changes nothing of a text
  without percent sign (`PlainDecodes`), and what is a C string is not cut
  short at a NUL (`NoNul`).
* `AccessorsProofs!SentIsFound`: `PairsFound` for any pairs that fit the
  scanner's buffers.  No encoded byte is a separator (`EncodedIsInner`), so the
  sections between the ampersands are the pairs as they were sent
  (`SentSections`) and the first equals sign of each ends its key; truncation
  and decoding then give the pair back whatever the buffers held
  (`SentIsRead`).  The invariant (`PairsInv`) ties the text of the request at
  hand to the pairs its client encoded.
* `AccessorsProofs!CookiesAreOwn`: `CookiesOfThisRequest` for any Cookie line
  without a bad escape.  The invariant (`CookieInv`) says that cookies, once
  they are counted, are those of this request's line with some contents of the
  buffers; the work is that these contents do not matter.  A decode that
  fails leaves old bytes behind its own, so every key and value of the line
  must decode: a part of a text without bad escapes that begins behind a
  separator has none either (`GoodPart`), because decoding the whole text stops
  at every separator (`GoodBehindSeparator`), and cutting it short at the
  buffer's end can only turn an escape into plain characters.
* `AccessorsProofs!AnswersQuoteWell`: `QuotedReadsBack` for any bytes.
  `QuotedCharReadsBack` has one case for each kind of escape; `TextInv` says
  that everything a handler is given is a text, or missing, through truncation,
  failed decodes and the scanner's buffers included.
* `ExchangeProofs!NoDescriptorLeaks`: `DescriptorsClosed` on every path through
  `static_serve`, whatever the file system does between its calls.
  `DescriptorInv` ties the descriptor to the place in the function.
* `ExchangeProofs!LastCallDecides`: `LastBuilderCounts` for any number of calls
  and any bodies.  `BuilderAgrees` and `OthersLeave` say what each builder sets
  and leaves, in any response and in a fresh one; `BuildersInv` carries that
  through a handler to its answer, and `SameOnWire` from the two records to
  the bytes a client reads.  What the builders do not clear is in the property:
  an answer that stays silent, and the content type a redirect finds.
* `ExchangeProofs!ExchangeTypes`, `RevalidationIsSound`, `FilesServedAsAsked`:
  `TypeOK`, `NotModifiedIsCurrent` and `FileAsAsked` for any files, ranges and
  size of a word, whatever is written between any two system calls.

  The difficulty is what static_serve may still believe after the file has
  changed under it.  A write is known by its number, so a file that was looked
  at is found again at its inode or nowhere (`Snapshot`), and a write by anybody
  keeps that (`WriteEffect`).  While nobody has written, the bytes read so far
  are a piece of the file that ends at the descriptor (`LoopInv`); after a
  write nothing is claimed of them.  The client's copy belongs to the file its
  tag was made of, as long as that is there (`CacheInv`), which is why a 304 is
  right except for look-alikes.  `SliceIsTaken` is the arithmetic of ranges with
  numbers that wrap: the positions that are read are those `static.c` takes
  the request for (`Taken`); it needs the size of a file to be less than the
  `Modulus`.  `TakenAsAsked` compares these with RFC 9110.
* `ExchangeProofs!EveryAnswerEnds`: `AnswersDelimited` for any calls of a
  handler, any bodies and any size of chunks.  `HandlerInv` says what a
  response can be after any calls, `PiecesJoin` that the chunks of a body are
  not empty and make up the body again, `StreamDelimited` the same of events.
  Concatenation is a recursive function over a sequence; that what is defined
  by recursion exists and is unique is shown for it, and for the lines of an
  event, by a least counterexample (`LeastNumber`, from the library's theorem
  that `<` is well founded), which needs no rule of induction.
* `ExchangeProofs!StreamsReadBack`: `EventsRead` for any texts without CR, of
  any number of lines, and any builder calls between them.  `PushedInv` says that the
  response holds one event for each text pushed, in order: of the builders only
  `cttp_sse_send` adds one, and none takes one away.  What an EventSource makes
  of the bytes is split in the same places as what wrote them: `FirstLine` says
  that the lines of a text with a newline are its first line and those of the
  rest, `ReadsLine` that the reader goes on behind a line from the state this
  leaves it in.  The data lines of a text leave it with the text and a final
  newline (`DataRead`, by the length of the text), the empty line behind them
  dispatches it (`EventRead`), and a stream is read event by event
  (`StreamRead`, by their number, from any events read before).  The final
  newline is what `Front` takes off, so a text with and one without it are
  read alike, and a text of nothing leaves nothing to dispatch.  A stream of
  texts without CR has none (`StreamWithoutReturn`), so that making its line
  ends alike changes nothing (`UnifiedSame`).
* `ServerProofs!ReadStepOutcome`: what a call of `http_read_step` appends and
  what it uses up, for any record: nothing, the 100 Continue of a body still to
  come, or one whole response to the request at the front of the input.
  `ReadStepCount` says how much of the input that is, token for token.
* `StreamProofs!FlowInvariance`: `Spec => []FlowInv`, for any number of
  clients, any scripts (faulty ones too), any buffer sizes and departures, and
  from it `StreamsAreWellFramed` and `LastAnswerIsLast`.

  Whether the next response may follow the stream so far depends on three
  things the two properties do not mention, and `StreamSound` states them of
  every open connection.  How its stream may end (`OutputEnds`): with a whole
  answer, or with a 100 Continue while the body it invites is being read.
  Which number comes next (`NumbersAhead`): `Floor` is the request at hand or
  the last one answered, and what waits in `c->in` and in the kernel is of this
  or of later ones; a refused block, which stays in `c->in`, makes this true
  only of the next block to be found (`Upcoming`).  And that an answer that
  ends the connection is still the one being flushed, with `keep_alive` clear
  (`CloseFollows`), so that no later read can append to it.  The proof has one
  lemma for each thing that moves tokens: the engine (from `ReadStepOutcome`),
  `recv`, `send` in part or whole, the three ends of a flush, `conn_close`, and
  a client's sending, reading and leaving.
* `ServiceProofs!StreamInvariance`: `Spec => []StreamInv`, and from it
  `EachAnsweredOnce`, `LeftoverIsOfLaterRequests` and `HandlersSeeTheBody`.

  The order of numbers (`FlowInv`) is not enough for these: the input must
  hold every token of a request, once.  So each token carries its place in its
  request, a history field `p` no operator of `Http` reads, and `WireInv`
  follows the places.  `Tracks` holds for every client: the tokens count up
  within a request (`Coherent`), the client goes on behind the last one
  (`GoesOn`), and while a body is read the input resumes behind the last token
  used, `2 + body` (`Resumes`), with `body` and `body_remaining` adding up to
  what was announced (`BodyCounted`).  For clients without mistakes more is
  true: the input has no gap (`Gapless`), it begins where the last answer or
  the body at hand ends (`Awaits`), and the answers given are to the first
  requests, one each (`Tallied`).  A gap is left only by a client that skips
  an announced body after a final answer, which only follows a refusal, and by
  one that is reset; after a reset and after a close what is left is a prefix,
  of which `Settled` remains true.  The argument needs that every wrong
  outcome is excluded by the place alone: `ReadStepCount` says how far the
  engine reads, `CountKept`, `CountResumed`, `CountReset` what a flush leaves.
  `HandlersSeeTheBody` has the exception of `BodyExact`, a decoder that hangs
  with a size that has wrapped: a call that returns has kept to the cap.
* `ServiceProofs!ClosingIsClean`: `CloseIsClean`, an action property.  Of the
  five places that close a connection the interesting one is
  `on_flush_complete`: it must have been reached with output.  That needs that
  what stands in the poll table is still true when its slot is served
  (`ReportsSound`): slots move between `poll()` and the call, clients go on,
  but a report moves with its connection, only serving a slot changes its
  record, and a reset is for good.

  `OneClient` checks `StreamInv`, the conjunction of `FlowInv`, `WireInv` and
  `ReportsSound`.

* `ServiceProofs!ServerImplementsService`: `Spec => ImplementsService`, the
  refinement of `OrderedService`, for any number of clients and slots.  Each
  step of `Server` concerns at most one client (`OneConcerned`), and does one
  of five things to it (`ServiceStep`): it asks (`SendAsks`), is given one
  answer (`ReadGives`), sees one (`ReceiveSees`), is lost (`CutLoses`,
  `GoneLoses`, `ResetLoses`), or nothing has changed for it.  The answers of
  the abstract service are the numbers of the final responses in everything
  written for the client, by their rank among its tokens: `Ranking` shows the
  ranks of a finite set of positions to be 1, 2, 3 and so on, `FinalsAppend`
  that a response appended at the end adds its number at the end, and
  `FinalsKept` that a token handed on from `c->out` to the kernel to the client
  changes nothing.  That the answer given is the one due is `WireInv`
  (`Tallied`) for clients without mistakes, and `FlowInv` (`GivenRises`) for
  all others.

* `ChunksProofs!ChunkedBody`: `BodyAsEncoded` for every body a client can put
  in chunks: any number of chunks of any length and content, extensions,
  trailers and following bytes, limited only by the two limits of the decoder
  (`WellFormed`), wherever TCP cuts it.  The invariant (`PlaceInv`) looks at
  what waits in `c->in` together with what is still to come: the two are, in
  each stage, exactly what the message has from some place on (`AtSize`,
  `AtData`, `AtTrailer`, `AtEnd`), and what has been stored is the body up to
  that place.  Receiving moves bytes from one to the other and cannot change
  it, so the cuts do not matter; a turn moves the place.  The lemmas per stage
  show that the decoder sees the line that the client wrote: the first line
  end in the buffer is the one of that line (`LineOf`), a line that has not
  all come yet is short enough to be waited for, and the digits are read back
  as the length they were written for.  What a message has from its k-th chunk
  on and the value of digits are recursive functions; that they exist and are
  unique is shown by a least counterexample.
* `ChunksProofs!ChunkedCap`: `BodyWithinCap` for well-formed and for broken
  messages.  The sum in `size_t` does not wrap (`Exact`): in a well-formed
  message because a size announces part of a body that fits in memory, which
  needs `PlaceInv`, in a broken one because no number in it comes near the word
  size (`SmallSizes`).  Without that assumption it is false, as the messages of
  kind huge in `ChunkSplits` show.
* `ChunksProofs!OnlyDataSpins`: `SpinsOnlyInData` for any message, and
  `ChunkTypes` with the type invariant it needs.

Only model-checked: `RoundServesAll`, which speaks of clients whose connections
persist (a flush that closes lets the loop pass over the slot moved in);
`SplitIndependent`, true only for lines that stay below the limits, as a line
longer than `BlockCap` is refused or not depending on the cuts; and all
liveness (temporal reasoning with fairness and ENABLED is out of the prover's
reach).  No module declares a RECURSIVE operator.

## 5. Not modelled

* The capacity of `buf_t`, `realloc` and the terminating NUL: each operation
  of `buf.c` establishes them on its own.
* Header text: names, MIME types, dates, status texts, cookie attributes,
  number formatting, log lines; header lines a handler writes that frame the
  answer themselves, or break out of their line; and the size limits of the header block, which
  end in the 400 of any malformed block.
* `cttp_listen`'s address set-up, and building file names from URLs.
* The capacity of `cttp_url_encode`'s output: nothing in `src/` calls it.
* Allocation failures: the code aborts or ignores them.
* `src/include/cttp.h` (generated from the internals), `main.c`, `examples/`:
  a copy, and applications of the library.

## 6. What would come next

1. The header block limits in `Http`, with tokens that have a size.
2. A web root and routes together in `Exchange`, and `StaticFile` inside
   `Server`.
