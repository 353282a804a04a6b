--------------------------- MODULE ExchangeProofs ---------------------------
(***************************************************************************)
(* What an exchange comes to: static_serve closes what it opens and serves *)
(* the file as asked, 304 is for those who have it, the last builder call  *)
(* decides the answer, every answer can be read to its end, and a stream   *)
(* is read back event by event: for any files, requests, handlers and      *)
(* bounds, and whatever happens to the files meanwhile.                    *)
(***************************************************************************)
EXTENDS ExchangeProperties, SequenceTheorems, WellFoundedInduction, TLAPS

\* A file is open exactly between open() and close().
Holding == pc \in {"stat", "size", "read"}

DescriptorInv ==
  IF Holding THEN opened = 1 /\ "ino" \in DOMAIN fd /\ fd.ino # 0
  ELSE opened = 0 /\ fd = None

(***************************************************************************)
(* No file is open at first.                                               *)
(***************************************************************************)
LEMMA DescriptorInit == Init => DescriptorInv
  BY DEF Init, DescriptorInv, Holding

(***************************************************************************)
(* Refusing a request and opening a file, or the index of a directory.     *)
(***************************************************************************)
LEMMA OpeningKeeps ==
  ASSUME DescriptorInv, RefusePath \/ OpenFails \/ OpenPath \/ StatDirectory
  PROVE  DescriptorInv'
<1>1. CASE RefusePath
  BY <1>1 DEF RefusePath, Fails, DescriptorInv, Holding, readVars
<1>2. CASE OpenFails
  BY <1>2 DEF OpenFails, Fails, DescriptorInv, Holding, readVars
<1>3. CASE OpenPath
  BY <1>3 DEF OpenPath, DescriptorInv, Holding, Missing
<1>4. CASE StatDirectory
  BY <1>4 DEF StatDirectory, Fails, Reopened, DescriptorInv, Holding, Missing
<1> QED
  BY <1>1, <1>2, <1>3, <1>4

(***************************************************************************)
(* What fstat decides: an answer at once, which closes the file, or a read *)
(* of it.                                                                  *)
(***************************************************************************)
LEMMA DecidingKeeps ==
  ASSUME DescriptorInv, NotModified \/ Unsatisfiable \/ SeekRange \/ WholeFile \/ SizeAgain
  PROVE  DescriptorInv'
<1>1. CASE NotModified
  BY <1>1 DEF NotModified, StatFile, Closed, DescriptorInv, Holding
<1>2. CASE Unsatisfiable
  BY <1>2 DEF Unsatisfiable, StatFile, Closed, DescriptorInv, Holding
<1>3. CASE SeekRange
  BY <1>3 DEF SeekRange, StatFile, DescriptorInv, Holding
<1>4. CASE WholeFile
  BY <1>4 DEF WholeFile, StatFile, DescriptorInv, Holding
<1>5. CASE SizeAgain
  BY <1>5 DEF SizeAgain, DescriptorInv, Holding
<1> QED
  BY <1>1, <1>2, <1>3, <1>4, <1>5

(***************************************************************************)
(* The read loops and their ends.                                          *)
(***************************************************************************)
LEMMA ReadingKeeps ==
  ASSUME DescriptorInv, Read \/ ReadDone \/ ReadFails
  PROVE  DescriptorInv'
<1>1. CASE Read
  <2>1. PICK n \in 1 .. Left : fd' = [fd EXCEPT !.pos = @ + n]
    BY <1>1 DEF Read
  <2> QED
    BY <1>1, <2>1 DEF Read, DescriptorInv, Holding
<1>2. CASE ReadDone
  BY <1>2 DEF ReadDone, Closed, DescriptorInv, Holding
<1>3. CASE ReadFails
  BY <1>3 DEF ReadFails, Closed, DescriptorInv, Holding
<1> QED
  BY <1>1, <1>2, <1>3

(***************************************************************************)
(* Every step; those outside static_serve are taken with no file open, or  *)
(* by another process.                                                     *)
(***************************************************************************)
LEMMA DescriptorStep == DescriptorInv /\ [Next]_vars => DescriptorInv'
<1> SUFFICES ASSUME DescriptorInv, [Next]_vars PROVE DescriptorInv'
  OBVIOUS
<1>1. ASSUME UNCHANGED <<pc, fd, opened>> PROVE DescriptorInv'
  BY <1>1 DEF DescriptorInv, Holding
<1>2. ASSUME NEW r, Begin(r) PROVE DescriptorInv'
  BY <1>2 DEF Begin, DescriptorInv, Holding
<1>3. CASE AskForFile
  BY <1>2, <1>3 DEF AskForFile
<1>4. CASE AskRoute
  BY <1>2, <1>4 DEF AskRoute
<1>5. CASE HandlerCalls
  BY <1>1, <1>5 DEF HandlerCalls, readVars
<1>6. CASE HandlerReturns
  BY <1>6 DEF HandlerReturns, readVars, DescriptorInv, Holding
<1>7. CASE StaticServe
  BY <1>7, OpeningKeeps, DecidingKeeps, ReadingKeeps DEF StaticServe
<1>8. CASE Respond
  BY <1>8 DEF Respond, readVars, DescriptorInv, Holding
<1>9. CASE World
  BY <1>1, <1>9 DEF World, readVars
<1>10. CASE UNCHANGED vars
  BY <1>1, <1>10 DEF vars, readVars
<1> QED
  BY <1>3, <1>4, <1>5, <1>6, <1>7, <1>8, <1>9, <1>10 DEF Next, Server

(***************************************************************************)
(* No path through static_serve leaks or closes twice a descriptor.        *)
(***************************************************************************)
THEOREM NoDescriptorLeaks == Spec => []DescriptorsClosed
<1>1. DescriptorInv => DescriptorsClosed
  BY DEF DescriptorInv, DescriptorsClosed, None
<1> QED
  BY <1>1, DescriptorInit, DescriptorStep, PTL DEF Spec

(***************************************************************************)
(* What is left of a handler's calls: responses keep their fields, those   *)
(* that the last builder sets are as it sets them, and no_body is set by   *)
(* none but cttp_no_content and cleared by none.                           *)
(***************************************************************************)
Fields(r) ==
  /\ "status" \in DOMAIN r /\ "ctype" \in DOMAIN r /\ "body" \in DOMAIN r
  /\ "no_body" \in DOMAIN r /\ "head_only" \in DOMAIN r /\ "chunked" \in DOMAIN r
  /\ "streamed" \in DOMAIN r /\ "responded" \in DOMAIN r
  /\ r.no_body \in BOOLEAN /\ r.streamed \in BOOLEAN

\* r is what the last builder alone, which leaves s, would have made of it,
\* but for what it does not clear.
Agrees(r, s) ==
  /\ r.status = s.status /\ r.head_only = s.head_only
  /\ s.no_body => r.no_body
  /\ ~s.no_body => r.body = s.body
  /\ s.ctype # "" => r.ctype = s.ctype

BuildersInv ==
  ~webroot =>
    /\ pc \in {"idle", "handler", "answer"}
    /\ Fields(res) /\ res.head_only = req.head
    /\ Fields(alone) /\ ~alone.streamed
    /\ res.no_body <=> emptied
    /\ alone.responded /\ ~res.streamed => Agrees(res, alone)

(***************************************************************************)
(* What dispatch_request begins with.                                      *)
(***************************************************************************)
Blank(r, head) ==
  /\ Fields(r) /\ r.head_only = head /\ r.ctype = ""
  /\ r.no_body = FALSE /\ r.responded = FALSE /\ r.streamed = FALSE

LEMMA BlankFields ==
  ASSUME NEW head
  PROVE  Blank(BlankResponse(head), head)
<1>1. DOMAIN BlankResponse(head) =
        {"status", "ctype", "body", "headers", "chunked", "head_only", "no_body",
         "responded", "streamed", "begun", "events"}
  BY DEF BlankResponse
<1>2. LET blank == BlankResponse(head)
      IN  /\ blank.no_body = FALSE /\ blank.responded = FALSE /\ blank.streamed = FALSE
          /\ blank.head_only = head /\ blank.ctype = ""
  BY DEF BlankResponse
<1> QED
  BY <1>1, <1>2 DEF Blank, Fields

(***************************************************************************)
(* At first nothing has been answered.                                     *)
(***************************************************************************)
LEMMA BuildersInit == Init => BuildersInv
<1> SUFFICES ASSUME Init PROVE BuildersInv
  OBVIOUS
<1>1. /\ pc = "idle" /\ res = BlankResponse(FALSE) /\ alone = BlankResponse(FALSE)
      /\ req.head = FALSE /\ emptied = FALSE
  BY DEF Init, NoRequest
<1> QED
  BY <1>1, BlankFields DEF Blank, BuildersInv

(***************************************************************************)
(* A builder does to any response what it does to a blank one.             *)
(***************************************************************************)
Built(r, call, a, b) ==
  /\ Fields(a) /\ Fields(b) /\ Agrees(a, b) /\ a.head_only = r.head_only
  /\ call.op = "no_content" => a.no_body
  /\ call.op # "no_content" => a.no_body = r.no_body
  /\ b.streamed = FALSE /\ a.streamed = r.streamed

LEMMA BuilderAgrees ==
  ASSUME NEW r, Fields(r), NEW s, Blank(s, r.head_only), NEW call \in Calls, Builds(call)
  PROVE  Built(r, call, Call(r, call), Call(s, call))
<1>0. PICK a, b : a = Call(r, call) /\ b = Call(s, call)
  OBVIOUS
<1> SUFFICES Built(r, call, a, b)
  BY <1>0
<1>1. CASE call.op = "send"
  <2>1. a = Send(r, call.status, "text", call.body) /\ b = Send(s, call.status, "text", call.body)
    BY <1>0, <1>1 DEF Call
  <2> QED
    BY <1>1, <2>1 DEF Send, Built, Fields, Agrees, Blank
<1>2. CASE call.op = "json"
  <2>1. PICK n, v : a = Send(r, n, "json", v) /\ b = Send(s, n, "json", v)
    BY <1>0, <1>2 DEF Call, JsonErr
  <2> QED
    BY <1>2, <2>1 DEF Send, Built, Fields, Agrees, Blank
<1>3. CASE call.op = "redirect"
  <2>1. PICK n : a = Redirect(r, n, "elsewhere") /\ b = Redirect(s, n, "elsewhere")
    BY <1>0, <1>3 DEF Call
  <2> QED
    BY <1>3, <2>1 DEF Redirect, SetHeader, AddLine, Built, Fields, Agrees, Blank
<1>4. CASE call.op = "no_content"
  <2>1. PICK n : /\ a = [r EXCEPT !.status = n, !.no_body = TRUE, !.responded = TRUE]
                 /\ b = [s EXCEPT !.status = n, !.no_body = TRUE, !.responded = TRUE]
    BY <1>0, <1>4 DEF Call, NoContent
  <2> QED
    BY <1>4, <2>1 DEF Built, Fields, Agrees, Blank
<1> QED
  BY <1>1, <1>2, <1>3, <1>4 DEF Builds

(***************************************************************************)
(* The other calls leave all of that alone, or begin a stream.             *)
(***************************************************************************)
Leaves(r, a) ==
  /\ Fields(a) /\ a.no_body = r.no_body /\ a.head_only = r.head_only
  /\ r.streamed => a.streamed
  /\ ~a.streamed => a.status = r.status /\ a.body = r.body /\ a.ctype = r.ctype

LEMMA OthersLeave ==
  ASSUME NEW r, Fields(r), NEW call \in Calls, ~Builds(call)
  PROVE  Leaves(r, Call(r, call))
<1>0. PICK a : a = Call(r, call)
  OBVIOUS
<1> SUFFICES Leaves(r, a)
  BY <1>0
<1>1. CASE call.op = "chunked"
  <2>1. a = StreamAsChunks(r)
    BY <1>0, <1>1 DEF Call
  <2> QED
    BY <2>1 DEF StreamAsChunks, Leaves, Fields
<1>2. CASE call.op = "header" \/ call.op = "no header"
  <2>1. a = SetHeader(r, "X", "1") \/ a = SetHeader(r, "not a token", "1")
    BY <1>0, <1>2 DEF Call
  <2> QED
    BY <2>1 DEF SetHeader, AddLine, Leaves, Fields
<1>3. CASE call.op = "cookie"
  <2>1. a = AddLine(r, "Set-Cookie", "s=1")
    BY <1>0, <1>3 DEF Call
  <2> QED
    BY <2>1 DEF AddLine, Leaves, Fields
<1>4. CASE call.op = "start"
  <2>1. a = SseStart(r)
    BY <1>0, <1>4 DEF Call
  <2> QED
    BY <2>1 DEF SseStart, Leaves, Fields
<1>5. CASE call.op = "event"
  <2>1. PICK q : q = SseStart(r)
    OBVIOUS
  <2>2. /\ Fields(q) /\ q.streamed
        /\ q.no_body = r.no_body /\ q.head_only = r.head_only
    BY <2>1 DEF SseStart, Fields
  <2>3. PICK es : a = [q EXCEPT !.events = es]
    BY <1>0, <1>5, <2>1 DEF Call, SseSend
  <2> QED
    BY <2>2, <2>3 DEF Leaves, Fields
<1>6. call.op = "send" \/ call.op \in Plain \/ call.op = "event"
  BY DEF Calls
<1>7. call.op \in Plain =>
        \/ call.op \in {"json", "redirect", "no_content", "chunked", "header"}
        \/ call.op \in {"no header", "cookie", "start"}
  BY DEF Plain
<1> QED
  BY <1>1, <1>2, <1>3, <1>4, <1>5, <1>6, <1>7 DEF Builds

(***************************************************************************)
(* One call of a handler keeps the invariant.                              *)
(***************************************************************************)
LEMMA BuilderCallKeeps ==
  ASSUME BuildersInv, HandlerCalls, ~webroot
  PROVE  BuildersInv'
<1>1. PICK call \in Calls :
        /\ res' = Call(res, call)
        /\ alone' = IF Builds(call) THEN Call(BlankResponse(req.head), call) ELSE alone
        /\ emptied' = (emptied \/ call.op = "no_content")
  BY DEF HandlerCalls
<1>2. /\ pc' = pc /\ webroot' = webroot /\ req' = req
      /\ Fields(res) /\ res.head_only = req.head
      /\ res.no_body <=> emptied
  BY DEF HandlerCalls, BuildersInv
<1>3. CASE Builds(call)
  <2>1. PICK blank : blank = BlankResponse(req.head) /\ Blank(blank, res.head_only)
    BY <1>2, BlankFields
  <2>2. alone' = Call(blank, call)
    BY <1>1, <1>3, <2>1, Zenon
  <2>3. Built(res, call, res', alone')
    <3>1. Built(res, call, Call(res, call), Call(blank, call))
      BY <1>2, <1>3, <2>1, BuilderAgrees, Zenon
    <3> QED
      BY <1>1, <2>2, <3>1, Zenon
  <2> QED
    BY <1>1, <1>2, <2>3 DEF BuildersInv, Built
<1>4. CASE ~Builds(call)
  <2>1. Leaves(res, res')
    <3>1. Leaves(res, Call(res, call))
      BY <1>2, <1>4, OthersLeave, Zenon
    <3> QED
      BY <1>1, <3>1, Zenon
  <2>2. alone' = alone /\ (emptied' <=> emptied)
    BY <1>1, <1>4 DEF Builds
  <2>3. Fields(alone) /\ ~alone.streamed /\ (alone.responded /\ ~res.streamed => Agrees(res, alone))
    BY DEF BuildersInv
  <2>4. alone.responded /\ ~res'.streamed => Agrees(res', alone)
    BY <2>1, <2>3 DEF Leaves, Agrees
  <2> QED
    BY <1>2, <2>1, <2>2, <2>3, <2>4, Zenon DEF BuildersInv, Leaves
<1> QED
  BY <1>3, <1>4

(***************************************************************************)
(* Every step keeps it: between a handler's calls and the answer nothing   *)
(* touches the response, and a server with routes never enters             *)
(* static_serve.                                                           *)
(***************************************************************************)
LEMMA BuildersStep == BuildersInv /\ [Next]_vars => BuildersInv'
<1> SUFFICES ASSUME BuildersInv, [Next]_vars PROVE BuildersInv'
  OBVIOUS
<1>1. webroot' = webroot
  BY DEF Next, Server, World, AskForFile, AskRoute, Begin, HandlerCalls, HandlerReturns,
         Respond, vars
<1>2. CASE webroot
  BY <1>1, <1>2 DEF BuildersInv
<1>3. ASSUME ~webroot, pc' \in {"idle", "handler", "answer"}, UNCHANGED <<res, req, alone, emptied>>
      PROVE  BuildersInv'
  <2>1. res' = res /\ req' = req /\ alone' = alone /\ emptied' = emptied
    BY <1>3
  <2>2. /\ Fields(res) /\ res.head_only = req.head /\ Fields(alone) /\ ~alone.streamed
        /\ res.no_body <=> emptied
        /\ alone.responded /\ ~res.streamed => Agrees(res, alone)
    BY <1>3 DEF BuildersInv
  <2>3. /\ Fields(res') /\ res'.head_only = req'.head /\ Fields(alone') /\ ~alone'.streamed
        /\ res'.no_body <=> emptied'
        /\ alone'.responded /\ ~res'.streamed => Agrees(res', alone')
    BY <2>1, <2>2, Zenon
  <2> QED
    BY <1>3, <2>3 DEF BuildersInv
<1>4. CASE ~webroot /\ AskRoute
  <2>1. PICK isHead \in BOOLEAN, keep \in BOOLEAN :
          Begin([NoRequest EXCEPT !.path = "route", !.head = isHead, !.keep = keep])
    BY <1>4 DEF AskRoute
  <2>2. PICK r : r = [NoRequest EXCEPT !.path = "route", !.head = isHead, !.keep = keep]
    OBVIOUS
  <2>3. /\ res' = BlankResponse(r.head) /\ alone' = BlankResponse(r.head)
        /\ req' = r /\ emptied' = FALSE /\ pc' = "handler"
    BY <1>4, <2>1, <2>2 DEF Begin, NewResponse
  <2>4. Blank(res', req'.head) /\ Blank(alone', req'.head)
    BY <2>3, BlankFields
  <2> QED
    BY <1>1, <2>3, <2>4 DEF BuildersInv, Blank
<1>5. CASE ~webroot /\ HandlerCalls
  BY <1>5, BuilderCallKeeps
<1>6. CASE ~webroot /\ (HandlerReturns \/ Respond)
  BY <1>3, <1>6 DEF HandlerReturns, Respond, handlerVars
<1>7. CASE ~webroot /\ StaticServe
  BY <1>7 DEF StaticServe, RefusePath, OpenFails, OpenPath, StatDirectory, NotModified,
              Unsatisfiable, SeekRange, WholeFile, StatFile, SizeAgain, Read, ReadDone,
              ReadFails, BuildersInv
<1>8. CASE ~webroot /\ World
  BY <1>3, <1>8 DEF World, handlerVars, BuildersInv
<1>9. CASE ~webroot /\ UNCHANGED vars
  BY <1>3, <1>9 DEF vars, handlerVars, BuildersInv
<1> QED
  BY <1>2, <1>4, <1>5, <1>6, <1>7, <1>8, <1>9 DEF Next, Server, AskForFile

-----------------------------------------------------------------------------
(***************************************************************************)
(* The invariant of static_serve.  What a write leaves in a file is known  *)
(* by its number, and a file that was looked at is where it was, or        *)
(* nowhere; the bytes read so far are a part of it as long as nobody       *)
(* writes; the copy of the client is the file its tag was made of, if that *)
(* is still there.                                                         *)
(***************************************************************************)

FileRec == [by : Nat, data : Seq(Nat), mtime : Nat]

\* f is what some write left in inode ino, and can only be found there.
Snapshot(f, ino) ==
  /\ f \in FileRec /\ Len(f.data) <= MaxLen
  /\ f.by # 0 /\ f.by <= writes
  /\ Known(f) \in history
  /\ \A i \in Inodes : files[i].by = f.by => i = ino /\ files[i] = f

FsInv ==
  /\ tree \in [Names -> Inodes \cup {Missing, Directory}]
  /\ files \in [Inodes -> FileRec]
  /\ writes \in Nat \ {0} /\ now \in Nat
  /\ \A i \in Inodes :
       /\ Len(files[i].data) <= MaxLen /\ files[i].mtime <= now
       /\ files[i].by # 0 => Snapshot(files[i], i)
  /\ \A name \in Names : tree[name] \in Inodes => files[tree[name]].by # 0

SeenInv ==
  IF seen.ino \in Inodes THEN Snapshot(seen.file, seen.ino) ELSE seen = Unseen

Untouched == files[seen.ino] = seen.file

Bytes == seen.file.data

RequestInv ==
  /\ req.head \in BOOLEAN
  /\ req.range.form \in RangeForm /\ req.range.a \in Nat /\ req.range.b \in Nat
  /\ pc = "handler" => ~webroot
  /\ Holding \/ pc = "static" =>
       /\ webroot
       /\ res = BlankResponse(req.head)
       /\ req.inm # NoTag => cache.path = req.path /\ cache.tag = req.inm

OpenInv ==
  /\ Holding => fd \in [ino : Inodes \cup {Directory}, pos : Nat]
  /\ Holding /\ fd.ino \in Inodes => files[fd.ino].by # 0
  /\ pc \in {"static", "stat"} => fd.pos = 0 /\ from = 0 /\ want = 0 /\ data = <<>> /\ seen = Unseen
  /\ pc \in {"size", "read"} => fd.ino = seen.ino /\ seen.ino \in Inodes /\ st = Stat(seen.file)
  /\ pc = "size" => data = <<>> /\ from = 0 /\ fd.pos = 0 /\ want = 0 /\ req.range.form = "none"

\* What static.c takes a range for: one whose end precedes its start is
\* open-ended, and that of "-n" begins at 2^64 - n.
Understood(range, total) ==
  CASE range.form = "both" /\ range.a <= range.b -> range.a .. range.b
    [] range.form = "both" /\ range.a > range.b  -> range.a .. total
    [] range.form \in {"open", "suffix"}          -> First(range) .. total
    [] OTHER                                     -> {}

Taken(range, total) == Understood(range, total) \cap 0 .. (total - 1)

\* Where that is what is asked for, and where not.
LEMMA TakenAsAsked ==
  ASSUME NEW r, r.a \in Nat, r.b \in Nat, NEW total \in Nat, r.form # "suffix"
  PROVE  Taken(r, total) = Expected(r, total)
<1> USE DEF Expected
<1>1. CASE r.form = "both"
  <2>1. CASE r.a <= r.b
    BY <1>1, <2>1 DEF Taken, Understood, Reversed, InFile, Asked
  <2>2. CASE r.b < r.a
    <3>1. Taken(r, total) = (r.a .. total) \cap (0 .. total - 1) /\ Reversed(r)
      BY <1>1, <2>2 DEF Taken, Understood, Reversed
    <3> QED
      BY <3>1
  <2> QED
    BY <2>1, <2>2
<1>2. CASE r.form = "open"
  BY <1>2 DEF Taken, Understood, Reversed, InFile, Asked, First
<1>3. CASE r.form # "both" /\ r.form # "open"
  BY <1>3 DEF Taken, Understood, Reversed, InFile, Asked
<1> QED
  BY <1>1, <1>2, <1>3

\* The part of the file that a range request reads.
RangeInv ==
  req.range.form # "none" =>
    /\ want > 0 /\ from + want <= Len(Bytes)
    /\ from .. from + want - 1 = Taken(req.range, Len(Bytes))

LoopInv ==
  pc = "read" =>
    /\ from \in Nat /\ want \in Nat /\ data \in Seq(Nat) /\ Len(data) <= want
    /\ fd.pos = from + Len(data)
    /\ req.range.form = "none" => from = 0
    /\ Untouched =>
         /\ fd.pos <= Len(Bytes) /\ data = SubSeq(Bytes, from + 1, from + Len(data))
         /\ req.range.form = "none" => want = Len(Bytes)
    /\ RangeInv

NumbersInv ==
  /\ want \in Nat /\ data \in Seq(Nat) /\ Len(data) <= want /\ from \in 0 .. Modulus - 1

\* What is in the answer before it is put on the wire.
WholeInv ==
  /\ seen.ino \in Inodes
  /\ res.headers = {<<"ETag", Tag(Stat(seen.file))>>}
  /\ Untouched => res.body = Bytes

PartInv ==
  /\ seen.ino \in Inodes /\ req.range.form # "none"
  /\ res.headers = {<<"Content-Range", <<from, (from + Len(data) - 1) % Modulus, Len(Bytes)>>>>}
  /\ res.body = data
  /\ RangeInv
  /\ Untouched =>
       /\ data = SubSeq(Bytes, from + 1, from + Len(data))
       /\ data = <<>> => ReadErrors

Current == cache.path = req.path /\ (cache.body = Bytes \/ Lookalike(seen.file))

\* A response that is neither streamed nor chunked, with or without a body.
Looks(r, status, head) ==
  /\ r.status = status /\ r.head_only = head /\ ~r.streamed /\ ~r.chunked
  /\ r.no_body <=> status \in {304, 416}

AnswerInv ==
  webroot /\ pc \in {"answer", "idle"} /\ req.path # "none" =>
    /\ Looks(res, res.status, req.head) /\ res.body \in Seq(Nat)
    /\ res.status \in {200, 206, 304, 403, 404, 416, 500}
    /\ res.status = 200 => WholeInv
    /\ res.status = 206 => PartInv
    /\ res.status = 304 => Current
    /\ res.status = 416 /\ seen.ino \in Inodes => Taken(req.range, Len(Bytes)) = {}

CacheInv ==
  cache.tag # NoTag =>
    \E ino \in Inodes, f \in FileRec :
      /\ Snapshot(f, ino) /\ cache.tag = Tag(Stat(f))
      /\ files[ino] = f => cache.body = f.data

WireInv == pc = "idle" /\ req.path # "none" => wire = Finalize(res, req.keep)

-----------------------------------------------------------------------------
(* The other process.                                                      *)

\* What a write leaves is a file, and its size is what fstat says of it.
LEMMA FileType ==
  ASSUME NEW w \in Nat, NEW n \in Nat, NEW t \in Nat
  PROVE  /\ File(w, n, t) \in FileRec /\ Len(File(w, n, t).data) = n
         /\ File(w, n, t).by = w /\ File(w, n, t).mtime = t
<1> DEFINE d == [k \in 1 .. n |-> w]
<1>1. d \in Seq(Nat) /\ Len(d) = n
  OBVIOUS
<1> HIDE DEF d
<1> QED BY <1>1 DEF File, FileRec, d

\* A write makes a file that has not been anywhere, and touches no other.
LEMMA WriteEffect ==
  ASSUME StaticAssumption, FsInv, NEW ino \in Inodes, NEW n \in 0 .. MaxLen, Writes(ino, n)
  PROVE  /\ files' \in [Inodes -> FileRec] /\ writes' \in Nat \ {0} /\ now' \in Nat
         /\ history \subseteq history'
         /\ \A f, i : Snapshot(f, i) => Snapshot(f, i)' /\ (files'[i] = f => files[i] = f)
         /\ \A i \in Inodes : /\ Len(files'[i].data) <= MaxLen /\ files'[i].mtime <= now'
                              /\ files'[i].by # 0 => Snapshot(files[i], i)'
                              /\ files[i].by # 0 => files'[i].by # 0
         /\ files'[ino].by # 0
<1>0. PICK g : g = File(writes + 1, n, now)
  OBVIOUS
<1>1. /\ writes' = writes + 1 /\ now' = now /\ files' = [files EXCEPT ![ino] = g]
      /\ history' = history \cup {Known(files'[ino])}
  BY <1>0 DEF Writes
<1>2. /\ files \in [Inodes -> FileRec] /\ writes \in Nat /\ now \in Nat /\ n \in Nat
      /\ MaxLen \in Nat
  BY DEF FsInv, StaticAssumption
<1>3. /\ g \in FileRec /\ Len(g.data) = n /\ g.by = writes + 1 /\ g.mtime = now
  BY <1>0, <1>2, FileType
<1>4. /\ files' \in [Inodes -> FileRec] /\ files'[ino] = g
      /\ \A i \in Inodes : i # ino => files'[i] = files[i]
  BY <1>1, <1>2, <1>3
<1>5. ASSUME NEW f, NEW i, Snapshot(f, i)
      PROVE  Snapshot(f, i)' /\ (files'[i] = f => files[i] = f)
  <2>1. f \in FileRec /\ f.by \in Nat /\ f.by <= writes /\ f.by # writes + 1
    BY <1>2, <1>5 DEF Snapshot, FileRec
  <2>2. ASSUME NEW j \in Inodes, files'[j].by = f.by
        PROVE  j = i /\ files'[j] = f
    <3>1. j # ino
      BY <1>3, <1>4, <2>1, <2>2
    <3> QED BY <1>4, <1>5, <2>2, <3>1 DEF Snapshot
  <2>3. Snapshot(f, i)'
    BY <1>1, <1>2, <1>5, <2>1, <2>2 DEF Snapshot
  <2>4. files'[i] = f => files[i] = f
    <3> SUFFICES ASSUME files'[i] = f PROVE files[i] = f
      OBVIOUS
    <3>1. CASE i \in Inodes
      <4>1. i # ino
        BY <1>3, <1>4, <2>1
      <4> QED BY <1>4, <3>1, <4>1
    <3>2. CASE i \notin Inodes
      <4>1. files'[i] = files[i]
        BY <1>1, <1>2, <3>2
      <4> QED BY <4>1
    <3> QED BY <3>1, <3>2
  <2> QED BY <2>3, <2>4
<1>6. Snapshot(g, ino)'
  <2>1. ASSUME NEW j \in Inodes, files'[j].by = g.by
        PROVE  j = ino /\ files'[j] = g
    <3>1. CASE j # ino
      <4>1. files[j].by = writes + 1 /\ files[j].by # 0
        BY <1>2, <1>3, <1>4, <2>1, <3>1
      <4>2. files[j].by <= writes
        BY <4>1 DEF FsInv, Snapshot
      <4> QED BY <1>2, <4>1, <4>2
    <3> QED BY <1>4, <3>1
  <2>2. Known(g) \in history'
    BY <1>1, <1>4
  <2>3. /\ g.by # 0 /\ g.by <= writes' /\ Len(g.data) <= MaxLen
    BY <1>1, <1>2, <1>3
  <2> QED BY <1>3, <2>1, <2>2, <2>3 DEF Snapshot
<1>7. ASSUME NEW i \in Inodes
      PROVE  /\ Len(files'[i].data) <= MaxLen /\ files'[i].mtime <= now'
             /\ files'[i].by # 0 => Snapshot(files[i], i)'
             /\ files[i].by # 0 => files'[i].by # 0
  <2>1. CASE i = ino
    <3>1. Snapshot(files[i], i)'
      BY <1>4, <1>6, <2>1 DEF Snapshot
    <3>2. Len(files'[i].data) <= MaxLen /\ files'[i].mtime <= now' /\ files'[i].by # 0
      BY <1>1, <1>2, <1>3, <1>4, <2>1
    <3> QED BY <3>1, <3>2
  <2>2. CASE i # ino
    <3>1. files'[i] = files[i]
      BY <1>4, <2>2
    <3>2. ASSUME files'[i].by # 0
          PROVE  Snapshot(files[i], i)'
      <4>1. PICK f : f = files[i]
        OBVIOUS
      <4>2. Snapshot(f, i)'
        BY <1>5, <3>1, <3>2, <4>1 DEF FsInv
      <4>3. f = files'[i]
        BY <3>1, <4>1
      <4> QED BY <4>2, <4>3 DEF Snapshot
    <3> QED BY <1>1, <3>1, <3>2 DEF FsInv
  <2> QED BY <2>1, <2>2
<1>8. files'[ino].by # 0 /\ history \subseteq history'
  BY <1>1, <1>2, <1>3, <1>4
<1>9. writes' \in Nat \ {0} /\ now' \in Nat
  BY <1>1, <1>2
<1> QED BY <1>4, <1>5, <1>7, <1>8, <1>9

\* What is left of the files by a step that does not write, or by one that
\* does.
FilesKept ==
  /\ FsInv' /\ history \subseteq history'
  /\ \A f, i : Snapshot(f, i) => Snapshot(f, i)' /\ (files'[i] = f => files[i] = f)
  /\ \A i \in Inodes : files[i].by # 0 => files'[i].by # 0

\* Whatever the other process does, a file that was stat'ed is found again
\* only where and as it was.
LEMMA OthersKeepFiles ==
  ASSUME StaticAssumption, FsInv, OtherProcess
  PROVE  FilesKept
<1>1. ASSUME NEW name \in Names, Rewrite(name)
      PROVE  FilesKept
  <2>1. PICK n \in 0 .. MaxLen : Writes(tree[name], n)
    BY <1>1 DEF Rewrite
  <2>2. tree[name] \in Inodes /\ tree' = tree
    BY <1>1 DEF Rewrite
  <2> QED BY <2>1, <2>2, WriteEffect DEF FsInv, FilesKept
<1>2. ASSUME NEW name \in Names, Replace(name)
      PROVE  FilesKept
  <2>1. PICK n \in 0 .. MaxLen : Writes(writes + 1, n)
    BY <1>2 DEF Replace
  <2>2. writes + 1 \in Inodes
    <3>1. writes \in Nat /\ writes <= MaxWrites /\ MaxWrites \in Nat
      BY <2>1 DEF Writes, FsInv, StaticAssumption
    <3> QED BY <3>1 DEF Inodes
  <2>3. /\ tree' \in [Names -> Inodes \cup {Missing, Directory}]
        /\ \A other \in Names : tree'[other] = tree[other] \/ tree'[other] = writes + 1
    BY <1>2, <2>2 DEF Replace, FsInv
  <2> HIDE DEF Names
  <2>4. \A other \in Names : tree'[other] \in Inodes => files'[tree'[other]].by # 0
    BY <2>1, <2>2, <2>3, WriteEffect DEF FsInv
  <2> QED BY <2>1, <2>2, <2>3, <2>4, WriteEffect DEF FsInv, FilesKept
<1>3. CASE Tick
  <2>1. UNCHANGED <<tree, files, writes, history>> /\ now \in Nat /\ now' = now + 1
    BY <1>3 DEF Tick, FsInv
  <2>2. \A f, i : Snapshot(f, i)' <=> Snapshot(f, i)
    BY <2>1 DEF Snapshot
  <2>3. ASSUME NEW i \in Inodes
        PROVE  files'[i].mtime <= now'
    <3>1. files[i].mtime \in Nat /\ files[i].mtime <= now
      BY DEF FsInv, FileRec
    <3> QED BY <2>1, <3>1
  <2>4. FsInv'
    BY <2>1, <2>2, <2>3 DEF FsInv
  <2> QED BY <2>1, <2>2, <2>4 DEF FilesKept
<1> QED BY <1>1, <1>2, <1>3 DEF OtherProcess

\* So it is when nobody writes.
LEMMA NobodyWrites ==
  ASSUME FsInv, UNCHANGED fsVars
  PROVE  FilesKept
<1>1. UNCHANGED <<tree, files, writes, now, history>>
  BY DEF fsVars
<1>2. \A f, i : Snapshot(f, i)' <=> Snapshot(f, i)
  BY <1>1 DEF Snapshot
<1>3. FsInv'
  BY <1>1, <1>2 DEF FsInv
<1> QED BY <1>1, <1>2, <1>3 DEF FilesKept

FileInv ==
  /\ FsInv /\ SeenInv /\ RequestInv /\ OpenInv /\ LoopInv /\ NumbersInv
  /\ AnswerInv /\ CacheInv /\ WireInv

\* The files stay what they are known to be when others write or nobody does.
LEMMA SnapshotsKept ==
  ASSUME FilesKept, SeenInv, CacheInv, UNCHANGED <<seen, cache>>
  PROVE  /\ FsInv' /\ SeenInv' /\ CacheInv'
         /\ seen.ino \in Inodes /\ Untouched' => Untouched
<1>1. \A f, i : Snapshot(f, i) => Snapshot(f, i)' /\ (files'[i] = f => files[i] = f)
  BY DEF FilesKept
<1>2. SeenInv'
  BY <1>1 DEF SeenInv
<1>3. CacheInv'
  <2> SUFFICES ASSUME cache.tag # NoTag
               PROVE  CacheInv'
    BY DEF CacheInv
  <2>1. PICK ino \in Inodes, f \in FileRec :
          /\ Snapshot(f, ino) /\ cache.tag = Tag(Stat(f))
          /\ files[ino] = f => cache.body = f.data
    BY DEF CacheInv
  <2>2. Snapshot(f, ino)' /\ (files'[ino] = f => files[ino] = f)
    BY <1>1, <2>1
  <2> QED BY <2>1, <2>2 DEF CacheInv
<1>4. seen.ino \in Inodes /\ Untouched' => Untouched
  BY <1>1 DEF SeenInv, Untouched
<1> QED BY <1>2, <1>3, <1>4 DEF FilesKept

\* Steps of the other process.
LEMMA WorldKeeps ==
  ASSUME StaticAssumption, FileInv, World
  PROVE  FileInv'
<1>1. FilesKept
  BY OthersKeepFiles DEF FileInv, World
<1>2. UNCHANGED <<pc, req, fd, opened, st, from, want, data, seen, res, webroot, wire, cache>>
  BY DEF World, readVars
<1>3. /\ FsInv' /\ SeenInv' /\ CacheInv'
      /\ seen.ino \in Inodes /\ Untouched' => Untouched
  BY <1>1, <1>2, SnapshotsKept DEF FileInv
<1>4. RequestInv' /\ NumbersInv' /\ WireInv'
  BY <1>2 DEF FileInv, RequestInv, NumbersInv, WireInv, Holding
<1>5. OpenInv'
  <2>1. Holding' <=> Holding
    BY <1>2 DEF Holding
  <2>2. Holding /\ fd.ino \in Inodes => files'[fd.ino].by # 0
    BY <1>1 DEF FileInv, OpenInv, FilesKept
  <2>3. Stat(seen.file)' = Stat(seen.file)
    BY <1>2 DEF Stat
  <2> QED BY <1>2, <2>1, <2>2, <2>3 DEF FileInv, OpenInv
<1>6. (RangeInv' <=> RangeInv) /\ Bytes' = Bytes
  BY <1>2 DEF RangeInv, Bytes
<1>7. LoopInv'
  BY <1>2, <1>3, <1>6 DEF FileInv, LoopInv, OpenInv
<1>8. AnswerInv'
  <2>1. WholeInv => WholeInv'
    BY <1>2, <1>3, <1>6 DEF WholeInv
  <2>2. PartInv => PartInv'
    BY <1>2, <1>3, <1>6 DEF PartInv
  <2>3. Current => Current'
    BY <1>1, <1>2, <1>6 DEF Current, Lookalike, FilesKept
  <2> QED BY <1>2, <1>6, <2>1, <2>2, <2>3 DEF FileInv, AnswerInv
<1> QED BY <1>3, <1>4, <1>5, <1>7, <1>8 DEF FileInv

-----------------------------------------------------------------------------
(* What the builders make of a blank response.                             *)

\* A failure is an answer of its own.
LEMMA Failed ==
  ASSUME NEW head, NEW status \in {403, 404, 500}
  PROVE  LET r == JsonErr(BlankResponse(head), status)
         IN  Looks(r, status, head) /\ r.body = <<101>>
  BY DEF JsonErr, Send, BlankResponse, Looks

\* An answer without a body.
Empty(head, status) == [BlankResponse(head) EXCEPT !.status = status, !.no_body = TRUE]

\* The 304 and the 416.
LEMMA Bare ==
  ASSUME NEW head, NEW status \in {304, 416}, NEW name, NEW v, ValidName(name)
  PROVE  LET r == SetHeader(Empty(head, status), name, v)
         IN  Looks(r, status, head) /\ r.body = <<>> /\ r.headers = {<<name, v>>}
  BY DEF SetHeader, AddLine, BlankResponse, Looks, Empty

\* The 200 and the 206.
LEMMA Filled ==
  ASSUME NEW head, NEW status \in {200, 206}, NEW name, NEW v, NEW bytes, ValidName(name)
  PROVE  LET r == SetHeader(Send(BlankResponse(head), status, "file", bytes), name, v)
         IN  Looks(r, status, head) /\ r.body = bytes /\ r.headers = {<<name, v>>}
  BY DEF SetHeader, AddLine, Send, BlankResponse, Looks

\* Before the first read there is nothing.
LEMMA NothingYet ==
  ASSUME NEW s \in Seq(Nat), NEW n \in Nat
  PROVE  SubSeq(s, n + 1, n) = <<>>
  OBVIOUS

\* The positions that static_serve reads are those asked for that exist.
LEMMA SliceIsTaken ==
  ASSUME StaticAssumption, NEW r, r.form \in RangeForm, r.form # "none",
         r.a \in Nat, r.b \in Nat, NEW total \in Nat
  PROVE  /\ Slice(r, total) = <<>> => Taken(r, total) = {}
         /\ Slice(r, total) # <<>> =>
              /\ Slice(r, total)[1] \in Nat /\ Slice(r, total)[2] \in Nat
              /\ Slice(r, total)[1] <= Slice(r, total)[2] /\ Slice(r, total)[2] < total
              /\ Slice(r, total)[1] .. Slice(r, total)[2] = Taken(r, total)
<1> DEFINE first == First(r)
           last == IF r.form = "both" /\ r.b >= first /\ r.b < total THEN r.b ELSE total - 1
<1>1. first \in Nat /\ (r.form # "suffix" => first = r.a)
  <2>1. Modulus \in Nat /\ Modulus > 0
    BY DEF StaticAssumption
  <2>2. (Modulus - r.a) % Modulus \in 0 .. Modulus - 1
    BY <2>1
  <2> QED BY <2>1, <2>2 DEF First
<1>2. Slice(r, total) = IF r.form # "junk" /\ first < total THEN <<first, last>> ELSE <<>>
  BY DEF Slice, WithinFile
<1>3. Understood(r, total) = IF r.form = "both" /\ r.a <= r.b THEN r.a .. r.b
                        ELSE IF r.form = "junk" THEN {} ELSE first .. total
  <2>1. r.form \in {"both", "open", "suffix", "junk"}
    BY DEF RangeForm
  <2>2. CASE r.form = "both"
    BY <1>1, <2>2 DEF Understood
  <2>3. CASE r.form = "open"
    BY <2>3 DEF Understood
  <2>4. CASE r.form = "suffix"
    BY <2>4 DEF Understood
  <2>5. CASE r.form = "junk"
    BY <2>5 DEF Understood
  <2> QED BY <2>1, <2>2, <2>3, <2>4, <2>5
<1> HIDE DEF first
<1>4. <<first, last>> # <<>>
  OBVIOUS
<1>5. ASSUME ~(r.form # "junk" /\ first < total)
      PROVE  Taken(r, total) = {}
  BY <1>1, <1>3, <1>5 DEF Taken
<1>6. ASSUME r.form # "junk", first < total
      PROVE  /\ last \in Nat /\ first <= last /\ last < total
             /\ first .. last = Taken(r, total)
  <2>1. last \in Nat /\ first <= last /\ last < total
    BY <1>1, <1>6
  <2>2. CASE r.form = "both" /\ r.a <= r.b
    BY <1>1, <1>3, <1>6, <2>2 DEF Taken
  <2>3. CASE ~(r.form = "both" /\ r.a <= r.b)
    <3>1. last = total - 1
      BY <1>1, <2>3
    <3> HIDE DEF last
    <3> QED BY <1>1, <1>3, <1>6, <2>3, <3>1 DEF Taken
  <2> QED BY <2>1, <2>2, <2>3
<1> HIDE DEF last
<1> QED BY <1>1, <1>2, <1>4, <1>5, <1>6

-----------------------------------------------------------------------------
(* The steps of static_serve.                                              *)

\* What no step of static_serve touches.
ElsewhereKept == UNCHANGED <<fsVars, req, webroot, wire, cache>>

\* So the files, what is known of them and the client's copy stay as they are.
LEMMA Steady ==
  ASSUME FileInv, ElsewhereKept
  PROVE  /\ FsInv' /\ CacheInv' /\ files' = files /\ history' = history
         /\ \A f, i : Snapshot(f, i)' <=> Snapshot(f, i)
<1>1. UNCHANGED <<tree, files, writes, now, history, cache>>
  BY DEF ElsewhereKept, fsVars
<1>2. \A f, i : Snapshot(f, i)' <=> Snapshot(f, i)
  BY <1>1 DEF Snapshot
<1>3. FsInv'
  BY <1>1, <1>2 DEF FileInv, FsInv
<1>4. CacheInv'
  BY <1>1, <1>2 DEF FileInv, CacheInv
<1> QED BY <1>1, <1>2, <1>3, <1>4

\* An answer is ready.
LEMMA AnswerReady ==
  ASSUME FileInv, ElsewhereKept, pc' = "answer", SeenInv', NumbersInv', AnswerInv'
  PROVE  FileInv'
<1>1. RequestInv' /\ OpenInv' /\ LoopInv' /\ WireInv'
  BY DEF FileInv, ElsewhereKept, RequestInv, OpenInv, LoopInv, WireInv, Holding
<1> QED BY <1>1, Steady DEF FileInv

\* static_serve goes on.
LEMMA ServingOn ==
  ASSUME FileInv, ElsewhereKept, Holding \/ pc = "static", Holding', res' = res,
         SeenInv', OpenInv', LoopInv', NumbersInv'
  PROVE  FileInv'
<1>1. RequestInv' /\ AnswerInv' /\ WireInv'
  BY DEF FileInv, ElsewhereKept, RequestInv, AnswerInv, WireInv, Holding
<1> QED BY <1>1, Steady DEF FileInv

\* A request refused or a file not found.
LEMMA FailureKeeps ==
  ASSUME FileInv, ElsewhereKept, pc \in {"static", "stat"},
         UNCHANGED <<from, want, data, seen>>, NEW status \in {403, 404}, Fails(status)
  PROVE  FileInv'
<1>1. res = BlankResponse(req.head) /\ seen = Unseen
  BY DEF FileInv, RequestInv, OpenInv, Holding
<1>2. Looks(res', status, req.head) /\ res'.body = <<101>>
  BY <1>1, Failed DEF Fails
<1>3. /\ pc' = "answer" /\ res'.body \in Seq(Nat)
      /\ res'.status = status /\ res'.status \notin {200, 206, 304, 416}
  BY <1>2 DEF Fails, Looks
<1>4. AnswerInv'
  BY <1>2, <1>3 DEF AnswerInv, ElsewhereKept
<1>5. SeenInv' /\ NumbersInv'
  BY Steady DEF FileInv, SeenInv, NumbersInv
<1> QED BY <1>3, <1>4, <1>5, AnswerReady

\* open(), of a file or of a directory and its index.
LEMMA OpenKeeps ==
  ASSUME FileInv, ElsewhereKept, RefusePath \/ OpenFails \/ OpenPath \/ StatDirectory
  PROVE  FileInv'
<1>1. CASE RefusePath
  <2>1. pc \in {"static", "stat"} /\ UNCHANGED <<from, want, data, seen>> /\ Fails(403)
    BY <1>1 DEF RefusePath, readVars
  <2> QED BY <2>1, FailureKeeps
<1>2. CASE OpenFails
  <2>1. pc \in {"static", "stat"} /\ UNCHANGED <<from, want, data, seen>> /\ Fails(404)
    BY <1>2 DEF OpenFails, readVars
  <2> QED BY <2>1, FailureKeeps
<1>3. ASSUME NEW name \in Names, tree[name] # Missing, pc \in {"static", "stat"}, pc' = "stat",
             fd' = [ino |-> tree[name], pos |-> 0], UNCHANGED <<res, st, from, want, data, seen>>
      PROVE  FileInv'
  <2>1. /\ fd' \in [ino : Inodes \cup {Directory}, pos : Nat] /\ fd'.pos = 0
        /\ fd'.ino \in Inodes => files[fd'.ino].by # 0
    BY <1>3 DEF FileInv, FsInv
  <2>2. from = 0 /\ want = 0 /\ data = <<>> /\ seen = Unseen
    BY <1>3 DEF FileInv, OpenInv
  <2>3. OpenInv'
    BY <1>3, <2>1, <2>2, Steady DEF OpenInv, Holding
  <2>4. SeenInv' /\ NumbersInv' /\ LoopInv'
    BY <1>3, Steady DEF FileInv, SeenInv, NumbersInv, LoopInv
  <2> QED BY <1>3, <2>3, <2>4, ServingOn DEF Holding
<1>4. CASE OpenPath
  <2>1. NameOf(req.path) \in Names
    BY DEF NameOf, Names
  <2> QED BY <1>3, <1>4, <2>1 DEF OpenPath
<1>5. CASE StatDirectory
  <2>1. CASE tree["index"] = Missing
    BY <1>5, <2>1, FailureKeeps DEF StatDirectory
  <2>2. CASE tree["index"] # Missing
    BY <1>3, <1>5, <2>2 DEF StatDirectory, Names
  <2> QED BY <2>1, <2>2
<1> QED BY <1>1, <1>2, <1>3, <1>4, <1>5

\* fstat: the file that is open is known.
LEMMA StatSees ==
  ASSUME FileInv, ElsewhereKept, pc = "stat", fd.ino \in Inodes,
         seen' = [ino |-> fd.ino, file |-> files[fd.ino]], st' = Stat(files[fd.ino])
  PROVE  /\ SeenInv' /\ st' = Stat(seen'.file) /\ st'.size = Len(seen'.file.data)
         /\ Snapshot(seen'.file, fd.ino) /\ Untouched'
         /\ seen'.ino = fd.ino /\ seen'.ino \in Inodes /\ seen'.file \in FileRec
         /\ st'.size \in Nat /\ st'.size <= MaxLen /\ Bytes' = files[fd.ino].data
<1>1. files[fd.ino].by # 0
  BY DEF FileInv, OpenInv, Holding
<1>2. Snapshot(files[fd.ino], fd.ino)
  BY <1>1 DEF FileInv, FsInv
<1>3. SeenInv'
  BY <1>2, Steady DEF SeenInv
<1>4. /\ files[fd.ino] \in FileRec /\ Len(files[fd.ino].data) \in Nat
      /\ Len(files[fd.ino].data) <= MaxLen
  BY <1>2 DEF Snapshot, FileRec
<1>5. Untouched' /\ Bytes' = files[fd.ino].data
  BY Steady DEF Untouched, Bytes
<1> QED BY <1>2, <1>3, <1>4, <1>5 DEF Stat

\* 304: the copy that the client has is the file at hand, or the file is
\* another one that looks alike.
LEMMA NotModifiedKeeps ==
  ASSUME FileInv, ElsewhereKept, NotModified
  PROVE  FileInv'
<1> DEFINE f == files[fd.ino]
<1>1. /\ pc = "stat" /\ fd.ino \in Inodes /\ st' = Stat(f)
      /\ seen' = [ino |-> fd.ino, file |-> f] /\ data' = <<>> /\ req.inm = Tag(st')
      /\ res' = SetHeader([res EXCEPT !.status = 304, !.no_body = TRUE], "ETag", Tag(st'))
      /\ pc' = "answer" /\ UNCHANGED <<from, want>>
  BY DEF NotModified, StatFile, Fresh
<1>2. res = BlankResponse(req.head) /\ (req.inm # NoTag => cache.path = req.path /\ cache.tag = req.inm)
  BY <1>1 DEF FileInv, RequestInv, Holding
<1>3. /\ SeenInv' /\ Snapshot(f, fd.ino) /\ f \in FileRec /\ Bytes' = f.data
  BY <1>1, StatSees
<1>4. ValidName("ETag")
  BY DEF ValidName
<1>5. Looks(res', 304, req.head) /\ res'.body = <<>>
  <2>1. res' = SetHeader(Empty(req.head, 304), "ETag", Tag(st'))
    BY <1>1, <1>2 DEF Empty
  <2> QED BY <1>4, <2>1, Bare
<1>6. Tag(Stat(f)) # NoTag
  BY DEF Tag, NoTag
<1>7. cache.path = req.path /\ cache.tag = Tag(Stat(f))
  BY <1>1, <1>2, <1>6
<1>8. cache.body = f.data \/ \E h \in history : h[1] = Stat(f) /\ h[2] # f.by
  <2>1. PICK ino \in Inodes, g \in FileRec :
          /\ Snapshot(g, ino) /\ cache.tag = Tag(Stat(g))
          /\ files[ino] = g => cache.body = g.data
    BY <1>6, <1>7 DEF FileInv, CacheInv
  <2>2. CASE g.by = f.by
    BY <1>1, <2>1, <2>2 DEF Snapshot
  <2>3. CASE g.by # f.by
    <3>1. Stat(g) = Stat(f)
      BY <1>7, <2>1 DEF Tag, Stat
    <3>2. Known(g) \in history /\ Known(g)[1] = Stat(g) /\ Known(g)[2] = g.by
      BY <2>1 DEF Snapshot, Known
    <3> QED BY <2>3, <3>1, <3>2
  <2> QED BY <2>2, <2>3
<1>9. Current'
  BY <1>1, <1>3, <1>7, <1>8, Steady DEF Current, Lookalike, ElsewhereKept
<1>10. AnswerInv'
  <2>1. res'.body \in Seq(Nat) /\ res'.status = 304
    BY <1>5 DEF Looks
  <2> QED BY <1>5, <1>9, <2>1 DEF AnswerInv, ElsewhereKept
<1>11. NumbersInv'
  BY <1>1 DEF FileInv, OpenInv, NumbersInv
<1> QED BY <1>1, <1>3, <1>10, <1>11, AnswerReady

\* 416: nothing of what is asked for is in the file.
LEMMA UnsatisfiableKeeps ==
  ASSUME StaticAssumption, FileInv, ElsewhereKept, Unsatisfiable
  PROVE  FileInv'
<1> DEFINE f == files[fd.ino]
<1>1. /\ pc = "stat" /\ fd.ino \in Inodes /\ st' = Stat(f)
      /\ seen' = [ino |-> fd.ino, file |-> f] /\ data' = <<>>
      /\ req.range.form # "none" /\ Slice(req.range, st'.size) = <<>>
      /\ res' = SetHeader([res EXCEPT !.status = 416, !.no_body = TRUE],
                          "Content-Range", <<"*", st'.size>>)
      /\ pc' = "answer" /\ UNCHANGED <<from, want>>
  BY DEF Unsatisfiable, StatFile
<1>2. /\ res = BlankResponse(req.head)
      /\ req.range.form \in RangeForm /\ req.range.a \in Nat /\ req.range.b \in Nat
  BY <1>1 DEF FileInv, RequestInv, Holding
<1>3. /\ SeenInv' /\ Bytes' = f.data /\ st'.size \in Nat /\ st'.size = Len(seen'.file.data)
  BY <1>1, StatSees
<1>4. ValidName("Content-Range")
  BY DEF ValidName
<1>5. Looks(res', 416, req.head) /\ res'.body = <<>>
  <2>1. res' = SetHeader(Empty(req.head, 416), "Content-Range", <<"*", st'.size>>)
    BY <1>1, <1>2 DEF Empty
  <2> QED BY <1>4, <2>1, Bare
<1>6. Taken(req.range, st'.size) = {}
  BY <1>1, <1>2, <1>3, SliceIsTaken
<1>7. AnswerInv'
  <2>1. res'.body \in Seq(Nat) /\ res'.status = 416
    BY <1>5 DEF Looks
  <2>2. Taken(req.range, Len(Bytes))' = {}
    BY <1>1, <1>3, <1>6 DEF Bytes, ElsewhereKept, Taken, Understood
  <2> QED BY <1>5, <2>1, <2>2 DEF AnswerInv, ElsewhereKept
<1>8. NumbersInv'
  BY <1>1 DEF FileInv, OpenInv, NumbersInv
<1> QED BY <1>1, <1>3, <1>7, <1>8, AnswerReady

\* The read loops are entered with nothing read and the range that exists.
LEMMA SeekRangeKeeps ==
  ASSUME StaticAssumption, FileInv, ElsewhereKept, SeekRange
  PROVE  FileInv'
<1> DEFINE f == files[fd.ino]
           slice == Slice(req.range, st'.size)
<1>1. /\ pc = "stat" /\ fd.ino \in Inodes /\ st' = Stat(f)
      /\ seen' = [ino |-> fd.ino, file |-> f] /\ data' = <<>>
      /\ req.range.form # "none" /\ slice # <<>>
      /\ from' = slice[1] /\ want' = slice[2] - slice[1] + 1
      /\ fd' = [fd EXCEPT !.pos = slice[1]]
      /\ pc' = "read" /\ res' = res /\ opened' = opened
  BY DEF SeekRange, StatFile
<1>2. /\ req.range.form \in RangeForm /\ req.range.a \in Nat /\ req.range.b \in Nat
      /\ req' = req
  BY DEF FileInv, RequestInv, ElsewhereKept
<1>3. /\ SeenInv' /\ Bytes' = f.data /\ st'.size \in Nat /\ st'.size = Len(Bytes')
      /\ st' = Stat(seen'.file) /\ seen'.ino = fd.ino /\ seen'.ino \in Inodes
      /\ st'.size <= MaxLen /\ Snapshot(seen'.file, fd.ino) /\ seen'.file = f
  BY <1>1, StatSees DEF Bytes
<1>4. /\ slice[1] \in Nat /\ slice[2] \in Nat /\ slice[1] <= slice[2] /\ slice[2] < st'.size
      /\ slice[1] .. slice[2] = Taken(req.range, st'.size)
  BY <1>1, <1>2, <1>3, SliceIsTaken
<1> HIDE DEF slice
<1>5. /\ from' \in Nat /\ want' \in Nat /\ want' > 0 /\ from' + want' <= st'.size
      /\ from' + want' - 1 = slice[2] /\ from' < Modulus /\ Modulus \in Nat
  <2>1. PICK a \in Nat, b \in Nat, t \in Nat : a = slice[1] /\ b = slice[2] /\ t = st'.size
    BY <1>3, <1>4
  <2>2. a <= b /\ b < t /\ t <= MaxLen
    BY <1>3, <1>4, <2>1
  <2>3. from' = a /\ want' = b - a + 1
    BY <1>1, <2>1
  <2>4. MaxLen \in Nat /\ Modulus \in Nat /\ MaxLen < Modulus
    BY DEF StaticAssumption
  <2> QED BY <2>1, <2>2, <2>3, <2>4
<1>6. data' = <<>> /\ Len(data') = 0 /\ data' \in Seq(Nat)
  BY <1>1
<1>7. /\ fd'.ino = fd.ino /\ fd'.pos = from'
      /\ fd' \in [ino : Inodes \cup {Directory}, pos : Nat]
  <2>1. fd \in [ino : Inodes \cup {Directory}, pos : Nat]
    BY <1>1 DEF FileInv, OpenInv, Holding
  <2> QED BY <1>1, <1>4, <2>1
<1>8. RangeInv'
  <2>1. Taken(req.range, Len(Bytes))' = Taken(req.range, st'.size)
    BY <1>2, <1>3 DEF Taken, Understood
  <2> QED BY <1>1, <1>3, <1>4, <1>5, <2>1 DEF RangeInv
<1>9. data' = SubSeq(Bytes', from' + 1, from' + Len(data'))
  <2>1. PICK n \in Nat : n = from'
    BY <1>5
  <2>2. Len(data') = 0 /\ data' = <<>>
    BY <1>6
  <2>3. n + Len(data') = n
    BY <2>2
  <2>4. Bytes' \in Seq(Nat)
    BY <1>3 DEF Bytes, Snapshot, FileRec
  <2>5. SubSeq(Bytes', n + 1, n) = <<>>
    BY <2>4, NothingYet
  <2> QED BY <2>1, <2>2, <2>3, <2>5
<1>10. LoopInv'
  <2>1. PICK n \in Nat, l \in Nat : n = from' /\ l = want'
    BY <1>5
  <2>2. n <= Len(Bytes')
    <3>1. n + l <= Len(Bytes')
      BY <1>3, <1>5, <2>1
    <3>2. Len(Bytes') \in Nat
      BY <1>3
    <3> QED BY <3>1, <3>2
  <2>3. Len(data') = 0 /\ data' \in Seq(Nat) /\ n + Len(data') = n
    BY <1>6
  <2>4. /\ from' \in Nat /\ want' \in Nat /\ Len(data') <= want'
        /\ fd'.pos = from' + Len(data') /\ fd'.pos <= Len(Bytes')
    <3>1. fd'.pos = n /\ from' = n /\ want' = l
      BY <1>7, <2>1
    <3>2. Len(data') <= l
      BY <2>3
    <3> QED BY <2>2, <2>3, <3>1, <3>2
  <2> QED BY <1>1, <1>2, <1>8, <1>9, <2>3, <2>4 DEF LoopInv
<1>11. NumbersInv'
  BY <1>5, <1>6 DEF NumbersInv
<1>12. OpenInv'
  <2>1. files'[fd'.ino].by # 0
    BY <1>1, <1>3, <1>7, Steady DEF Snapshot
  <2> QED BY <1>1, <1>3, <1>7, <2>1 DEF OpenInv, Holding
<1> QED BY <1>1, <1>3, <1>10, <1>11, <1>12, ServingOn DEF Holding

\* A request without a range goes on to read the size again.
LEMMA WholeFileKeeps ==
  ASSUME FileInv, ElsewhereKept, WholeFile
  PROVE  FileInv'
<1> DEFINE f == files[fd.ino]
<1>1. /\ pc = "stat" /\ fd.ino \in Inodes /\ st' = Stat(f)
      /\ seen' = [ino |-> fd.ino, file |-> f] /\ data' = <<>>
      /\ req.range.form = "none" /\ pc' = "size" /\ UNCHANGED <<res, fd, opened, from, want>>
  BY DEF WholeFile, StatFile
<1>2. /\ SeenInv' /\ st' = Stat(seen'.file) /\ seen'.ino = fd.ino /\ seen'.ino \in Inodes
      /\ Snapshot(seen'.file, fd.ino) /\ seen'.file = f
  BY <1>1, StatSees
<1>3. OpenInv'
  <2>1. files'[fd.ino].by # 0
    BY <1>2, Steady DEF Snapshot
  <2>2. fd.pos = 0 /\ from = 0 /\ want = 0
    BY <1>1 DEF FileInv, OpenInv
  <2>3. fd \in [ino : Inodes \cup {Directory}, pos : Nat]
    BY <1>1 DEF FileInv, OpenInv, Holding
  <2> QED BY <1>1, <1>2, <2>1, <2>2, <2>3 DEF OpenInv, Holding, ElsewhereKept
<1>4. NumbersInv' /\ LoopInv'
  BY <1>1 DEF FileInv, OpenInv, NumbersInv, LoopInv
<1> QED BY <1>1, <1>2, <1>3, <1>4, ServingOn DEF Holding

\* The buffer is as large as the file is now.
LEMMA SizeAgainKeeps ==
  ASSUME FileInv, ElsewhereKept, SizeAgain
  PROVE  FileInv'
<1>1. /\ pc = "size" /\ want' = Len(files[fd.ino].data) /\ pc' = "read"
      /\ UNCHANGED <<res, fd, opened, st, from, data, seen>>
  BY DEF SizeAgain
<1>2. /\ fd.ino = seen.ino /\ seen.ino \in Inodes /\ st = Stat(seen.file)
      /\ data = <<>> /\ from = 0 /\ fd.pos = 0 /\ req.range.form = "none"
      /\ files[fd.ino].by # 0
  BY <1>1 DEF FileInv, OpenInv, Holding
<1>3. want' \in Nat /\ Len(data) = 0 /\ data \in Seq(Nat)
  <2>1. files[fd.ino] \in FileRec
    BY <1>2 DEF FileInv, FsInv
  <2> QED BY <1>1, <1>2, <2>1 DEF FileRec
<1>4. seen.file.data \in Seq(Nat) /\ Len(seen.file.data) \in Nat
  BY <1>2 DEF FileInv, SeenInv, Snapshot, FileRec
<1>5. Untouched' => Bytes = files[fd.ino].data
  BY <1>1, <1>2, Steady DEF Untouched, Bytes
<1>6. SeenInv' /\ OpenInv' /\ NumbersInv'
  BY <1>1, <1>2, <1>3, Steady DEF FileInv, SeenInv, OpenInv, NumbersInv, Holding, ElsewhereKept
<1>7. LoopInv'
  <2>1. Bytes' = Bytes /\ req' = req /\ RangeInv'
    BY <1>1, <1>2 DEF Bytes, RangeInv, ElsewhereKept
  <2>2. data = SubSeq(Bytes, from + 1, from + Len(data))
    BY <1>2, <1>3, <1>4 DEF Bytes
  <2>3. fd.pos <= Len(Bytes) /\ fd.pos = from + Len(data) /\ Len(data) <= want' /\ from \in Nat
    BY <1>2, <1>3, <1>4 DEF Bytes
  <2> QED BY <1>1, <1>2, <1>3, <1>5, <2>1, <2>2, <2>3 DEF LoopInv
<1> QED BY <1>1, <1>6, <1>7, ServingOn DEF Holding

\* A read goes on where the last one ended.
LEMMA ReadOn ==
  ASSUME NEW b \in Seq(Nat), NEW p \in Nat, NEW k \in Nat, NEW n \in Nat, p + k + n <= Len(b)
  PROVE  SubSeq(b, p + 1, p + k) \o SubSeq(b, p + k + 1, p + k + n) = SubSeq(b, p + 1, p + k + n)
  OBVIOUS

\* And makes the answer as much longer as it got.
LEMMA ReadLength ==
  ASSUME NEW b \in Seq(Nat), NEW p \in Nat, NEW n \in Nat, p + n <= Len(b), NEW d \in Seq(Nat)
  PROVE  /\ d \o SubSeq(b, p + 1, p + n) \in Seq(Nat)
         /\ Len(d \o SubSeq(b, p + 1, p + n)) = Len(d) + n
  OBVIOUS

\* A read, whatever has become of the file.
LEMMA ReadKeeps ==
  ASSUME FileInv, ElsewhereKept, Read
  PROVE  FileInv'
<1> DEFINE c == files[fd.ino].data
<1>1. /\ pc = "read" /\ pc' = "read" /\ UNCHANGED <<res, opened, st, from, want, seen>>
      /\ UNCHANGED <<req, files>>
  BY Steady DEF Read, ElsewhereKept
<1>2. PICK n \in 1 .. Left :
        /\ n <= Available
        /\ data' = data \o SubSeq(c, fd.pos + 1, fd.pos + n)
        /\ fd' = [fd EXCEPT !.pos = @ + n]
  BY DEF Read
<1>3. /\ fd \in [ino : Inodes \cup {Directory}, pos : Nat] /\ fd.ino = seen.ino
      /\ seen.ino \in Inodes /\ st = Stat(seen.file) /\ files[fd.ino].by # 0
  BY <1>1 DEF FileInv, OpenInv, Holding
<1>4. c \in Seq(Nat)
  <2>1. files[fd.ino] \in FileRec
    BY <1>3 DEF FileInv, FsInv
  <2> QED BY <2>1 DEF FileRec
<1>5. /\ from \in Nat /\ want \in Nat /\ data \in Seq(Nat) /\ Len(data) <= want
      /\ fd.pos = from + Len(data) /\ RangeInv
      /\ req.range.form = "none" => from = 0
  BY <1>1 DEF FileInv, LoopInv
<1>6. Untouched =>
        /\ data = SubSeq(Bytes, from + 1, from + Len(data)) /\ c = Bytes
        /\ req.range.form = "none" => want = Len(Bytes)
  BY <1>1, <1>3 DEF FileInv, LoopInv, Untouched, Bytes
<1>7. PICK p \in Nat, k \in Nat, w \in Nat : p = from /\ k = Len(data) /\ w = want
  <2>1. Len(data) \in Nat
    BY <1>5
  <2> QED BY <1>5, <2>1
<1>8. n \in Nat /\ k + n <= w /\ p + k + n <= Len(c) /\ fd.pos = p + k
  <2>1. PICK l \in Nat : l = Len(c)
    BY <1>4
  <2>2. fd.pos = p + k
    BY <1>5, <1>7
  <2>3. Left = w - k /\ Available = l - (p + k)
    BY <1>7, <2>1, <2>2 DEF Left, Available
  <2>4. n \in 1 .. (w - k) /\ n <= l - (p + k)
    BY <1>2, <2>3
  <2> QED BY <2>1, <2>2, <2>4
<1> HIDE DEF c
<1>9. data' \in Seq(Nat) /\ Len(data') = k + n
  <2>1. PICK q \in Nat : q = p + k
    OBVIOUS
  <2>2. data' = data \o SubSeq(c, q + 1, q + n)
    BY <1>2, <1>8, <2>1
  <2>3. n \in Nat /\ q + n <= Len(c)
    BY <1>8, <2>1
  <2>4. data' \in Seq(Nat) /\ Len(data') = Len(data) + n
    BY <1>4, <1>5, <2>2, <2>3, ReadLength
  <2> QED BY <1>7, <2>4
<1>10. /\ fd' \in [ino : Inodes \cup {Directory}, pos : Nat] /\ fd'.ino = fd.ino
       /\ fd'.pos = p + (k + n)
  <2>1. fd.pos + n \in Nat /\ fd.pos + n = p + (k + n)
    BY <1>8
  <2> QED BY <1>2, <1>3, <2>1
<1>11. Untouched => data' = SubSeq(Bytes, p + 1, p + (k + n))
  <2> SUFFICES ASSUME Untouched
               PROVE  data' = SubSeq(Bytes, p + 1, p + (k + n))
    OBVIOUS
  <2>1. data' = SubSeq(c, p + 1, p + k) \o SubSeq(c, p + k + 1, p + k + n)
    BY <1>2, <1>6, <1>7, <1>8
  <2>2. data' = SubSeq(c, p + 1, p + k + n)
    BY <1>4, <1>8, <2>1, ReadOn
  <2>3. p + k + n = p + (k + n)
    BY <1>8
  <2> QED BY <1>6, <2>2, <2>3
<1>12. (Untouched' <=> Untouched) /\ Bytes' = Bytes /\ RangeInv'
  BY <1>1, <1>5 DEF Untouched, Bytes, RangeInv
<1>13. LoopInv'
  <2>1. Untouched => p + (k + n) <= Len(Bytes)
    BY <1>6, <1>8
  <2>2. from' = p /\ want' = want /\ Len(data') <= want'
    BY <1>1, <1>7, <1>8, <1>9
  <2>3. Untouched => fd'.pos <= Len(Bytes) /\ data' = SubSeq(Bytes, from' + 1, from' + Len(data'))
    BY <1>9, <1>10, <1>11, <2>1, <2>2
  <2>4. fd'.pos = from' + Len(data')
    BY <1>9, <1>10, <2>2
  <2> QED BY <1>1, <1>5, <1>6, <1>9, <1>12, <2>2, <2>3, <2>4 DEF LoopInv
<1>14. NumbersInv'
  <2>1. from \in 0 .. Modulus - 1
    BY DEF FileInv, NumbersInv
  <2> QED BY <1>1, <1>5, <1>7, <1>8, <1>9, <2>1 DEF NumbersInv
<1>15. SeenInv' /\ OpenInv'
  BY <1>1, <1>3, <1>10, Steady DEF FileInv, SeenInv, OpenInv, Holding
<1> QED BY <1>1, <1>13, <1>14, <1>15, ServingOn DEF Holding

\* The loops end: with everything, with the file, or with an error.
LEMMA EndKeeps ==
  ASSUME FileInv, ElsewhereKept, pc = "read", pc' = "answer",
         UNCHANGED <<st, from, want, data, seen>>,
         \/ res' = Served(data) /\ (Left = 0 \/ Available <= 0)
         \/ ReadErrors /\ Left > 0
            /\ res' = IF req.range.form = "none" THEN JsonErr(res, 500) ELSE Served(data)
  PROVE  FileInv'
<1>1. /\ res = BlankResponse(req.head) /\ fd.ino = seen.ino /\ seen.ino \in Inodes
      /\ st = Stat(seen.file) /\ st.size = Len(Bytes)
  BY DEF FileInv, RequestInv, OpenInv, Holding, Stat, Bytes
<1>2. /\ from \in Nat /\ want \in Nat /\ data \in Seq(Nat) /\ Len(data) <= want
      /\ fd.pos = from + Len(data) /\ RangeInv
      /\ req.range.form = "none" => from = 0
      /\ Untouched =>
           /\ fd.pos <= Len(Bytes) /\ data = SubSeq(Bytes, from + 1, from + Len(data))
           /\ req.range.form = "none" => want = Len(Bytes)
  BY DEF FileInv, LoopInv
<1>3. /\ UNCHANGED req /\ (Untouched' <=> Untouched) /\ Bytes' = Bytes /\ RangeInv'
      /\ seen.file' = seen.file
  BY <1>2, Steady DEF Untouched, Bytes, RangeInv, ElsewhereKept
<1>4. Bytes \in Seq(Nat)
  BY <1>1 DEF FileInv, SeenInv, Snapshot, FileRec, Bytes
<1>5. Untouched => Available = Len(Bytes) - (from + Len(data))
  BY <1>1, <1>2 DEF Untouched, Available, Bytes
<1>6. CASE req.range.form = "none" /\ res' = Served(data) /\ (Left = 0 \/ Available <= 0)
  <2>1. res' = SetHeader(Send(BlankResponse(req.head), 200, "file", data), "ETag", Tag(st))
    BY <1>1, <1>6 DEF Served, WithTag
  <2>2. Looks(res', 200, req.head) /\ res'.body = data /\ res'.headers = {<<"ETag", Tag(st)>>}
    <3>1. ValidName("ETag")
      BY DEF ValidName
    <3> QED BY <2>1, <3>1, Filled
  <2>3. ASSUME Untouched
        PROVE  data = Bytes
    <3>1. PICK k \in Nat, m \in Nat : k = Len(data) /\ m = Len(Bytes)
      <4>1. Len(data) \in Nat /\ Len(Bytes) \in Nat
        BY <1>2, <1>4
      <4> QED BY <4>1, Zenon
    <3>2. k <= m /\ (Left = 0 => k = m) /\ (Available <= 0 => k = m)
      <4>1. from = 0 /\ fd.pos = k /\ k <= m
        <5>1. from = 0 /\ fd.pos = from + Len(data) /\ fd.pos <= Len(Bytes)
          BY <1>2, <1>6, <2>3
        <5> QED BY <3>1, <5>1
      <4>2. want = m
        BY <1>2, <1>6, <2>3, <3>1
      <4>3. Left = m - k
        BY <3>1, <4>2 DEF Left
      <4>4. Available = m - k
        BY <1>5, <2>3, <3>1, <4>1
      <4> QED BY <3>1, <4>1, <4>3, <4>4
    <3>3. data = SubSeq(Bytes, 1, Len(Bytes))
      <4>1. from = 0 /\ data = SubSeq(Bytes, from + 1, from + Len(data))
        BY <1>2, <1>6, <2>3
      <4>2. Len(data) = Len(Bytes) \/ Left = 0 \/ Available <= 0
        BY <1>6
      <4>3. Len(data) = Len(Bytes)
        BY <3>1, <3>2, <4>2, Zenon
      <4>4. data = SubSeq(Bytes, 0 + 1, 0 + Len(Bytes))
        BY <4>1, <4>3, Zenon
      <4> QED BY <1>4, <3>1, <4>4
    <3> QED BY <1>4, <3>3
  <2>4. WholeInv'
    BY <1>1, <1>3, <2>2, <2>3 DEF WholeInv
  <2>5. res'.status = 200 /\ res'.body \in Seq(Nat)
    BY <1>2, <2>2 DEF Looks
  <2>6. AnswerInv'
    BY <1>3, <2>2, <2>4, <2>5 DEF AnswerInv
  <2>7. SeenInv' /\ NumbersInv'
    BY Steady DEF FileInv, SeenInv, NumbersInv
  <2> QED BY <2>6, <2>7, AnswerReady
<1>7. CASE /\ req.range.form # "none" /\ res' = Served(data)
           /\ Left = 0 \/ Available <= 0 \/ ReadErrors
  <2> DEFINE v == <<from, (from + Len(data) - 1) % Modulus, st.size>>
  <2>1. res' = SetHeader(Send(BlankResponse(req.head), 206, "file", data), "Content-Range", v)
    BY <1>1, <1>7 DEF Served
  <2> HIDE DEF v
  <2>2. Looks(res', 206, req.head) /\ res'.body = data /\ res'.headers = {<<"Content-Range", v>>}
    <3>1. ValidName("Content-Range")
      BY DEF ValidName
    <3> QED BY <2>1, <3>1, Filled
  <2>3. ASSUME Untouched, data = <<>>
        PROVE  ReadErrors
    <3>1. want > 0 /\ from + want <= Len(Bytes) /\ Len(Bytes) \in Nat
      BY <1>2, <1>4, <1>7 DEF RangeInv
    <3>2. Len(data) = 0
      BY <2>3
    <3>3. Left = want /\ Available = Len(Bytes) - from
      BY <1>2, <1>5, <2>3, <3>1, <3>2 DEF Left
    <3> QED BY <1>2, <1>7, <3>1, <3>3
  <2>4. PartInv'
    BY <1>1, <1>2, <1>3, <1>7, <2>2, <2>3 DEF PartInv, v
  <2>5. res'.status = 206 /\ res'.body \in Seq(Nat)
    BY <1>2, <2>2 DEF Looks
  <2>6. AnswerInv'
    BY <1>3, <2>2, <2>4, <2>5 DEF AnswerInv
  <2>7. SeenInv' /\ NumbersInv'
    BY Steady DEF FileInv, SeenInv, NumbersInv
  <2> QED BY <2>6, <2>7, AnswerReady
<1>8. CASE req.range.form = "none" /\ res' = JsonErr(res, 500)
  <2>1. Looks(res', 500, req.head) /\ res'.body = <<101>>
    BY <1>1, <1>8, Failed
  <2>2. /\ res'.body \in Seq(Nat) /\ res'.status = 500
    BY <2>1 DEF Looks
  <2>3. AnswerInv'
    BY <1>3, <2>1, <2>2 DEF AnswerInv
  <2>4. SeenInv' /\ NumbersInv'
    BY Steady DEF FileInv, SeenInv, NumbersInv
  <2> QED BY <2>3, <2>4, AnswerReady
<1> QED BY <1>6, <1>7, <1>8

(***************************************************************************)
(* Every step of static_serve keeps it.                                    *)
(***************************************************************************)
LEMMA ServingKeeps ==
  ASSUME StaticAssumption, FileInv, StaticServe,
         UNCHANGED <<fsVars, webroot, handlerVars, wire, cache>>
  PROVE  FileInv'
<1>1. UNCHANGED req
  BY DEF StaticServe, RefusePath, OpenFails, OpenPath, StatDirectory, NotModified,
         Unsatisfiable, SeekRange, WholeFile, StatFile, SizeAgain, Read, ReadDone, ReadFails
<1>2. ElsewhereKept
  BY <1>1 DEF ElsewhereKept
<1>3. CASE ReadDone \/ ReadFails
  <2>1. pc = "read" /\ pc' = "answer" /\ UNCHANGED <<st, from, want, data, seen>>
    BY <1>3 DEF ReadDone, ReadFails
  <2>2. \/ res' = Served(data) /\ (Left = 0 \/ Available <= 0)
        \/ ReadErrors /\ Left > 0
           /\ res' = IF req.range.form = "none" THEN JsonErr(res, 500) ELSE Served(data)
    BY <1>3 DEF ReadDone, ReadFails
  <2> QED BY <1>2, <2>1, <2>2, EndKeeps
<1> QED
  BY <1>2, <1>3, OpenKeeps, NotModifiedKeeps, UnsatisfiableKeeps, SeekRangeKeeps,
     WholeFileKeeps, SizeAgainKeeps, ReadKeeps
     DEF StaticServe

-----------------------------------------------------------------------------
(* The steps of the server around static_serve.                            *)

\* A server of routes is concerned with no file.
LEMMA RoutesKeep ==
  ASSUME FileInv, UNCHANGED <<fsVars, req, readVars, webroot, cache>>, ~webroot,
         pc \in {"handler", "answer"},
         pc' \in {"handler", "answer"} \/ (pc' = "idle" /\ wire' = Finalize(res, req.keep) /\ res' = res)
  PROVE  FileInv'
<1>1. UNCHANGED <<fd, opened, st, from, want, data, seen>>
  BY DEF readVars
<1>2. FilesKept
  BY NobodyWrites DEF FileInv
<1>3. FsInv' /\ SeenInv' /\ CacheInv'
  BY <1>1, <1>2, SnapshotsKept DEF FileInv
<1>4. RequestInv' /\ OpenInv' /\ LoopInv' /\ NumbersInv' /\ AnswerInv' /\ WireInv'
  BY <1>1 DEF FileInv, RequestInv, OpenInv, LoopInv, NumbersInv, AnswerInv, WireInv, Holding
<1> QED BY <1>3, <1>4 DEF FileInv

\* A request begins with a blank response and nothing open.
LEMMA BeginKeeps ==
  ASSUME StaticAssumption, FileInv, NEW r, Begin(r), r.path # "none",
         r.head \in BOOLEAN, r.range.form \in RangeForm, r.range.a \in Nat, r.range.b \in Nat,
         r.inm # NoTag => cache.path = r.path /\ cache.tag = r.inm
  PROVE  FileInv'
<1>1. /\ req' = r /\ res' = BlankResponse(r.head) /\ UNCHANGED <<fsVars, webroot, cache>>
      /\ pc' = IF webroot THEN "static" ELSE "handler"
      /\ fd' = None /\ from' = 0 /\ want' = 0 /\ data' = <<>> /\ seen' = Unseen
  BY DEF Begin, NewResponse
<1>2. FilesKept
  BY <1>1, NobodyWrites DEF FileInv
<1>3. FsInv' /\ CacheInv'
  <2>1. \A f, i : Snapshot(f, i) => Snapshot(f, i)' /\ (files'[i] = f => files[i] = f)
    BY <1>2 DEF FilesKept
  <2>2. CASE cache.tag = NoTag
    BY <1>1, <1>2, <2>2 DEF FilesKept, CacheInv
  <2>3. CASE cache.tag # NoTag
    <3>1. PICK ino \in Inodes, f \in FileRec :
            /\ Snapshot(f, ino) /\ cache.tag = Tag(Stat(f))
            /\ files[ino] = f => cache.body = f.data
      BY <2>3 DEF FileInv, CacheInv
    <3>2. Snapshot(f, ino)' /\ (files'[ino] = f => files[ino] = f)
      BY <2>1, <3>1
    <3> QED BY <1>1, <1>2, <3>1, <3>2 DEF CacheInv, FilesKept
  <2> QED BY <2>2, <2>3
<1>4. SeenInv'
  BY <1>1 DEF SeenInv, Unseen, Inodes
<1>5. NumbersInv'
  <2>2. 0 \in 0 .. Modulus - 1
    BY DEF StaticAssumption
  <2>3. data' \in Seq(Nat) /\ Len(data') = 0
    BY <1>1
  <2> QED BY <1>1, <2>2, <2>3 DEF NumbersInv
<1>6. RequestInv'
  BY <1>1 DEF RequestInv, Holding
<1>7. OpenInv'
  <2>1. fd'.pos = 0
    BY <1>1 DEF None
  <2> QED BY <1>1, <2>1 DEF OpenInv, Holding
<1>8. LoopInv' /\ AnswerInv' /\ WireInv'
  BY <1>1 DEF LoopInv, AnswerInv, WireInv
<1> QED BY <1>3, <1>4, <1>5, <1>6, <1>7, <1>8 DEF FileInv

\* What a client may ask for.
LEMMA AskingKeeps ==
  ASSUME StaticAssumption, RequestsAssumption, FileInv, AskForFile \/ AskRoute
  PROVE  FileInv'
<1>1. CASE AskForFile
  <2>0. PICK r \in Requests : \E inm \in Conditional(r.path) :
          Begin([path |-> r.path, inm |-> inm, range |-> r.range, head |-> r.head, keep |-> TRUE])
    BY <1>1 DEF AskForFile
  <2>1. PICK inm \in Conditional(r.path) :
          Begin([path |-> r.path, inm |-> inm, range |-> r.range, head |-> r.head, keep |-> TRUE])
    BY <2>0
  <2> DEFINE q == [path |-> r.path, inm |-> inm, range |-> r.range, head |-> r.head, keep |-> TRUE]
  <2>2. /\ q.path # "none" /\ q.head \in BOOLEAN /\ q.range.form \in RangeForm
        /\ q.range.a \in Nat /\ q.range.b \in Nat
    BY DEF RequestsAssumption, StaticAssumption
  <2>3. q.inm # NoTag => cache.path = q.path /\ cache.tag = q.inm
    BY DEF Conditional
  <2> HIDE DEF q
  <2>4. Begin(q)
    BY <2>1 DEF q
  <2> QED BY <2>2, <2>3, <2>4, BeginKeeps
<1>2. CASE AskRoute
  <2>1. PICK isHead \in BOOLEAN, keep \in BOOLEAN :
          Begin([NoRequest EXCEPT !.path = "route", !.head = isHead, !.keep = keep])
    BY <1>2 DEF AskRoute
  <2> DEFINE q == [NoRequest EXCEPT !.path = "route", !.head = isHead, !.keep = keep]
  <2>2. /\ q.path # "none" /\ q.head \in BOOLEAN /\ q.range.form \in RangeForm
        /\ q.range.a \in Nat /\ q.range.b \in Nat /\ q.inm = NoTag
    BY DEF NoRequest, NoRange, RangeForm
  <2> HIDE DEF q
  <2>3. Begin(q)
    BY <2>1 DEF q
  <2> QED BY <2>2, <2>3, BeginKeeps
<1> QED BY <1>1, <1>2

-----------------------------------------------------------------------------
(* Least and greatest.                                                     *)

\* Every set of numbers that is not empty has its least.
LEMMA LeastNumber ==
  ASSUME NEW S \in SUBSET Nat, S # {}
  PROVE  \E m \in S : \A n \in S : m <= n
<1> DEFINE R == OpToRel(<, Nat)
<1>1. IsWellFoundedOn(R, Nat)
  BY NatLessThanWellFounded, Zenon
<1> HIDE DEF R
<1>2. PICK m \in S : \A n \in S : ~ (<<n, m>> \in R)
  BY <1>1, WFMin
<1>3. ASSUME NEW n \in S
      PROVE  m <= n
  <2>1. ~(n < m)
    BY <1>2 DEF R, OpToRel
  <2> QED BY <2>1
<1> QED BY <1>3

\* So has every set of numbers with a bound its greatest.
LEMMA GreatestNumber ==
  ASSUME NEW n \in Nat, NEW S \in SUBSET (1 .. n), S # {}
  PROVE  \E m \in S : \A k \in S : k <= m
<1> DEFINE T == {k \in 1 .. n : n + 1 - k \in S}
<1>1. T \in SUBSET Nat /\ T # {}
  <2>1. PICK k \in S : TRUE
    OBVIOUS
  <2>2. k \in 1 .. n /\ n + 1 - k \in 1 .. n /\ n + 1 - (n + 1 - k) = k
    OBVIOUS
  <2>3. n + 1 - k \in T
    BY <2>1, <2>2
  <2>4. T \in SUBSET Nat
    OBVIOUS
  <2> HIDE DEF T
  <2> QED BY <2>3, <2>4
<1>2. PICK t \in T : \A k \in T : t <= k
  <2> HIDE DEF T
  <2> QED BY <1>1, LeastNumber
<1>3. t \in 1 .. n /\ n + 1 - t \in S
  BY <1>2
<1>4. ASSUME NEW k \in S
      PROVE  k <= n + 1 - t
  <2>1. k \in 1 .. n /\ n + 1 - k \in 1 .. n /\ n + 1 - (n + 1 - k) = k
    OBVIOUS
  <2>2. t <= n + 1 - k
    BY <1>2, <2>1
  <2> QED BY <1>3, <2>1, <2>2
<1> QED BY <1>3, <1>4

\* g holds what the first pieces of s make, the first i at i.
Joins(g, s, n) ==
  /\ g = [i \in 1 .. n |-> g[i]]
  /\ \A i \in 1 .. n : g[i] = IF i = 1 THEN s[i] ELSE g[i - 1] \o s[i]

\* Two that are built the same way, piece by piece, are the same.
LEMMA BuiltAlike ==
  ASSUME NEW s, NEW n \in Nat \ {0}, NEW g, NEW h, Joins(g, s, n), Joins(h, s, n)
  PROVE  h[n] = g[n]
<1>0. /\ \A i \in 1 .. n : g[i] = IF i = 1 THEN s[i] ELSE g[i - 1] \o s[i]
      /\ \A i \in 1 .. n : h[i] = IF i = 1 THEN s[i] ELSE h[i - 1] \o s[i]
  BY DEF Joins
<1> DEFINE Bad == {i \in 1 .. n : h[i] # g[i]}
<1>1. CASE Bad = {}
  <2>1. n \in 1 .. n
    OBVIOUS
  <2> QED BY <1>1, <2>1, Zenon
<1>2. CASE Bad # {}
  <2>1. PICK m \in Bad : \A i \in Bad : m <= i
    <3>1. Bad \in SUBSET Nat
      OBVIOUS
    <3> HIDE DEF Bad
    <3> QED BY <1>2, <3>1, LeastNumber
  <2>2. m \in 1 .. n /\ h[m] # g[m]
    BY <2>1, Zenon
  <2>3. m # 1
    BY <1>0, <2>2, Zenon
  <2>4. m - 1 \in 1 .. n /\ ~(m <= m - 1)
    BY <2>2, <2>3
  <2>5. h[m - 1] = g[m - 1]
    BY <2>1, <2>4, Zenon
  <2>6. g[m] = g[m - 1] \o s[m] /\ h[m] = h[m - 1] \o s[m]
    BY <1>0, <2>2, <2>3, Zenon
  <2> QED BY <2>2, <2>5, <2>6, Zenon
<1> QED BY <1>1, <1>2

\* What FlattenSeq makes, given what it makes of every beginning.
LEMMA FlattenIs ==
  ASSUME NEW s, NEW n \in Nat \ {0}, Len(s) = n,
         NEW g, Joins(g, s, n)
  PROVE  FlattenSeq(s) = g[n]
<1> DEFINE P(f) == f = [i \in 1 .. n |-> IF i = 1 THEN s[i] ELSE f[i - 1] \o s[i]]
           h == CHOOSE f : P(f)
<1>1. P(g)
  <2> DEFINE G(i) == IF i = 1 THEN s[i] ELSE g[i - 1] \o s[i]
  <2>1. g = [i \in 1 .. n |-> g[i]] /\ \A i \in 1 .. n : g[i] = G(i)
    BY Zenon DEF Joins
  <2> HIDE DEF G
  <2>2. g = [i \in 1 .. n |-> G(i)]
    BY <2>1
  <2> QED BY <2>2 DEF G
<1>2. P(h)
  <2> HIDE DEF P
  <2> QED BY <1>1, Zenon
<1>3. FlattenSeq(s) = h[n]
  BY DEF FlattenSeq
<1> HIDE DEF h
<1>4. Joins(h, s, n)
  <2> DEFINE H(i) == IF i = 1 THEN s[i] ELSE h[i - 1] \o s[i]
  <2>1. h = [i \in 1 .. n |-> H(i)]
    BY <1>2
  <2> HIDE DEF H
  <2>2. h = [i \in 1 .. n |-> h[i]] /\ \A i \in 1 .. n : h[i] = H(i)
    BY <2>1
  <2> QED BY <2>2, Zenon DEF H, Joins
<1> HIDE DEF P
<1> QED BY <1>3, <1>4, BuiltAlike

\* The concatenation of one piece.
LEMMA OnePiece ==
  ASSUME NEW b
  PROVE  FlattenSeq(<<b>>) = b
<1> DEFINE g == [i \in 1 .. 1 |-> b]
           s == <<b>>
<1>1. Len(s) = 1 /\ s[1] = b
  OBVIOUS
<1>2. ASSUME NEW i \in 1 .. 1 PROVE i = 1
  OBVIOUS
<1> HIDE DEF s
<1>3. Joins(g, s, 1)
  BY <1>1, <1>2 DEF Joins
<1>4. g[1] = b /\ 1 \in Nat \ {0}
  OBVIOUS
<1> HIDE DEF g
<1>5. FlattenSeq(s) = g[1]
  BY <1>1, <1>3, <1>4, FlattenIs
<1> QED BY <1>4, <1>5 DEF s

\* What a client of a whole page reads.
LEMMA WholePage ==
  ASSUME NEW r, NEW keep, NEW head, ~head, Looks(r, 200, head)
  PROVE  ContentOf(Finalize(r, keep), head) = r.body
<1> DEFINE w == Finalize(r, keep)
<1>1. r.status = 200 /\ r.head_only = head /\ ~r.streamed /\ ~r.chunked /\ ~r.no_body
  BY DEF Looks
<1>2. ~Silent(r)
  BY <1>1 DEF Silent
<1>3. w.status = 200 /\ w.pieces = <<r.body>>
  BY <1>1, <1>2 DEF Finalize
<1> HIDE DEF w
<1>4. ~Contentless(w, head)
  BY <1>3 DEF Contentless
<1>5. ContentOf(w, head) = r.body
  BY <1>3, <1>4, OnePiece DEF ContentOf
<1> QED BY <1>5 DEF w

\* Any other answer of static_serve keeps its status.
LEMMA StatusOnWire ==
  ASSUME NEW r, NEW keep, ~r.streamed
  PROVE  Finalize(r, keep).status = r.status /\ Finalize(r, keep).headers = r.headers
  BY DEF Finalize

\* The client's copy is the file as it was stat'ed, if that is still there.
LEMMA RespondKeeps ==
  ASSUME FileInv, Respond, webroot, req.path # "none"
  PROVE  FileInv'
<1>1. /\ pc = "answer" /\ pc' = "idle" /\ wire' = Finalize(res, req.keep)
      /\ cache' = IF webroot /\ wire'.status = 200 /\ ~req.head THEN Stored(wire') ELSE cache
      /\ UNCHANGED <<fsVars, req, readVars, res, webroot>>
  BY DEF Respond
<1>2. UNCHANGED <<fd, opened, st, from, want, data, seen>> /\ FilesKept
  BY <1>1, NobodyWrites DEF FileInv, readVars
<1>3. UNCHANGED <<tree, files, writes, now, history>>
  BY <1>1 DEF fsVars
<1>4. (\A f, i : Snapshot(f, i)' <=> Snapshot(f, i)) /\ FsInv' /\ SeenInv'
  <2>1. \A f, i : Snapshot(f, i)' <=> Snapshot(f, i)
    BY <1>3 DEF Snapshot
  <2>2. SeenInv'
    BY <1>2, <2>1 DEF FileInv, SeenInv
  <2> QED BY <1>2, <2>1, <2>2 DEF FilesKept
<1>5. RequestInv' /\ OpenInv' /\ LoopInv' /\ NumbersInv'
  BY <1>1, <1>2 DEF FileInv, RequestInv, OpenInv, LoopInv, NumbersInv, Holding
<1>6. WireInv'
  BY <1>1 DEF WireInv
<1>7. /\ Looks(res, res.status, req.head) /\ res.body \in Seq(Nat)
      /\ res.status \in {200, 206, 304, 403, 404, 416, 500}
      /\ res.status = 200 => WholeInv
      /\ res.status = 206 => PartInv
      /\ res.status = 304 => Current
      /\ res.status = 416 /\ seen.ino \in Inodes => Taken(req.range, Len(Bytes)) = {}
  BY <1>1 DEF FileInv, AnswerInv
<1>8. wire'.status = res.status /\ wire'.headers = res.headers
  BY <1>1, <1>7, StatusOnWire DEF Looks
<1>9. Bytes' = Bytes /\ (Untouched' <=> Untouched)
  BY <1>2, <1>3 DEF Bytes, Untouched
<1>10. (WholeInv => WholeInv') /\ (PartInv => PartInv')
  BY <1>1, <1>2, <1>9 DEF WholeInv, PartInv, RangeInv
<1>11. CASE ~(res.status = 200 /\ ~req.head)
  <2>1. cache' = cache
    BY <1>1, <1>8, <1>11
  <2>2. CacheInv'
    BY <1>3, <1>4, <2>1 DEF FileInv, CacheInv
  <2>3. Current => Current'
    BY <1>1, <1>2, <1>3, <1>9, <2>1 DEF Current, Lookalike
  <2>4. AnswerInv'
    BY <1>1, <1>2, <1>7, <1>9, <1>10, <2>3 DEF AnswerInv
  <2> QED BY <1>4, <1>5, <1>6, <2>2, <2>4 DEF FileInv
<1>12. CASE res.status = 200 /\ ~req.head
  <2>1. AnswerInv'
    BY <1>1, <1>2, <1>7, <1>10, <1>12 DEF AnswerInv
  <2>3. ContentOf(wire', req.head) = res.body
    <3>1. Looks(res, 200, req.head)
      BY <1>7, <1>12
    <3>2. ContentOf(Finalize(res, req.keep), req.head) = res.body
      BY <1>12, <3>1, WholePage
    <3> QED BY <1>1, <3>2
  <2>4. wire'.headers = {<<"ETag", Tag(Stat(seen.file))>>} /\ WholeInv
    BY <1>7, <1>8, <1>12 DEF WholeInv
  <2> DEFINE t == Tag(Stat(seen.file))
  <2>0. PICK w : w = wire'
    OBVIOUS
  <2>5. TagOf(w) = <<"ETag", t>>
    <3> DEFINE P(h) == h \in w.headers /\ h[1] = "ETag"
    <3>1. P(<<"ETag", t>>) /\ \A h : P(h) => h = <<"ETag", t>>
      BY <2>0, <2>4
    <3>2. TagOf(w) = CHOOSE h : P(h)
      BY DEF TagOf
    <3> HIDE DEF P
    <3> QED BY <3>1, <3>2
  <2>6. cache' = Stored(w)
    BY <1>1, <1>8, <1>12, <2>0
  <2> HIDE DEF t
  <2>7. cache'.tag = t /\ cache'.body = res.body
    <3>1. TagOf(w)[2] = t
      BY <2>5
    <3>2. ContentOf(w, req.head) = res.body
      BY <2>0, <2>3
    <3> QED BY <2>6, <3>1, <3>2 DEF Stored
  <2>8. Snapshot(seen.file, seen.ino) /\ seen.ino \in Inodes
    BY <2>4 DEF FileInv, SeenInv, WholeInv
  <2>9. files'[seen.ino] = seen.file => cache'.body = seen.file.data
    BY <1>3, <2>4, <2>7 DEF WholeInv, Untouched, Bytes
  <2>10. seen.file \in FileRec
    BY <2>8 DEF Snapshot
  <2>11. CacheInv'
    BY <1>4, <2>7, <2>8, <2>9, <2>10 DEF CacheInv, t
  <2> QED BY <1>4, <1>5, <1>6, <2>1, <2>11 DEF FileInv
<1> QED BY <1>11, <1>12

-----------------------------------------------------------------------------
(* The invariants hold.                                                    *)

\* What there is before anybody has asked.
NamedInv ==
  /\ pc \in {"idle", "handler", "static", "stat", "size", "read", "answer"}
  /\ pc # "idle" => req.path # "none"
  /\ req.path = "none" => res = BlankResponse(FALSE)

\* Nobody has asked at first.
LEMMA NamedInit == Init => NamedInv
  BY DEF Init, NamedInv

\* A step belongs to a request that was asked.
LEMMA NamedStep == RequestsAssumption /\ NamedInv /\ [Next]_vars => NamedInv'
<1> SUFFICES ASSUME RequestsAssumption, NamedInv, [Next]_vars
             PROVE  NamedInv'
  OBVIOUS
<1>1. CASE AskForFile \/ AskRoute
  <2>1. ASSUME NEW r, Begin(r), r.path # "none"
        PROVE  NamedInv'
    BY <2>1 DEF Begin, NamedInv
  <2>2. CASE AskForFile
    <3>1. PICK r \in Requests : \E inm \in Conditional(r.path) :
            Begin([path |-> r.path, inm |-> inm, range |-> r.range, head |-> r.head, keep |-> TRUE])
      BY <2>2 DEF AskForFile
    <3>2. r.path # "none"
      BY DEF RequestsAssumption
    <3> QED BY <2>1, <3>1, <3>2
  <2>3. CASE AskRoute
    <3>1. PICK isHead \in BOOLEAN, keep \in BOOLEAN :
            Begin([NoRequest EXCEPT !.path = "route", !.head = isHead, !.keep = keep])
      BY <2>3 DEF AskRoute
    <3>2. [NoRequest EXCEPT !.path = "route", !.head = isHead, !.keep = keep].path = "route"
      BY DEF NoRequest
    <3> QED BY <2>1, <3>1, <3>2
  <2> QED BY <1>1, <2>2, <2>3
<1>2. CASE HandlerCalls \/ HandlerReturns \/ Respond
  BY <1>2 DEF HandlerCalls, HandlerReturns, Respond, NamedInv
<1>3. CASE StaticServe
  BY <1>3 DEF StaticServe, RefusePath, OpenFails, OpenPath, StatDirectory, NotModified, Fails,
         Unsatisfiable, SeekRange, WholeFile, StatFile, SizeAgain, Read, ReadDone, ReadFails,
         NamedInv
<1>4. CASE World \/ UNCHANGED vars
  BY <1>4 DEF World, vars, NamedInv
<1> QED BY <1>1, <1>2, <1>3, <1>4 DEF Next, Server

\* Before the first request.
LEMMA FileInit == StaticAssumption /\ Init => FileInv
<1> SUFFICES ASSUME StaticAssumption, Init
             PROVE  FileInv
  OBVIOUS
<1>1. /\ FsInit(webroot) /\ pc = "idle" /\ req = NoRequest /\ fd = None /\ from = 0 /\ want = 0
      /\ data = <<>> /\ seen = Unseen /\ res = BlankResponse(FALSE) /\ cache = EmptyCache
  BY DEF Init
<1>2. PICK n \in 0 .. MaxLen :
        files = [ino \in Inodes |-> IF ino = 1 THEN File(1, n, 0) ELSE File(0, 0, 0)]
  BY <1>1 DEF FsInit
<1>3. /\ MaxWrites \in Nat /\ n \in Nat /\ n <= MaxLen /\ MaxLen \in Nat /\ 0 \in 0 .. Modulus - 1
      /\ 1 \in Inodes
  BY DEF StaticAssumption, Inodes
<1>4. PICK g, e : g = File(1, n, 0) /\ e = File(0, 0, 0)
  OBVIOUS
<1>5. /\ g \in FileRec /\ Len(g.data) = n /\ g.by = 1 /\ g.mtime = 0
      /\ e \in FileRec /\ Len(e.data) = 0 /\ e.by = 0 /\ e.mtime = 0
  BY <1>3, <1>4, FileType
<1>6. /\ files \in [Inodes -> FileRec] /\ files[1] = g
      /\ \A i \in Inodes : i # 1 => files[i] = e
  BY <1>2, <1>3, <1>4, <1>5
<1>7. writes = 1 /\ now = 0 /\ Known(g) \in history
  BY <1>1, <1>6 DEF FsInit
<1>8. Snapshot(g, 1)
  BY <1>3, <1>5, <1>6, <1>7 DEF Snapshot
<1>9. /\ tree \in [Names -> Inodes \cup {Missing, Directory}]
      /\ \A name \in Names : tree[name] \in Inodes => tree[name] = 1
  <2>1. tree \in {[page |-> 1, index |-> Missing], [page |-> Directory, index |-> 1],
                  [page |-> Directory, index |-> Missing], [page |-> Missing, index |-> Missing]}
    BY <1>1 DEF FsInit
  <2>2. Missing \notin Inodes /\ Directory \notin Inodes
    BY <1>3 DEF Inodes, Missing, Directory
  <2> QED BY <1>3, <2>1, <2>2 DEF Names
<1>10. ASSUME NEW i \in Inodes
       PROVE  /\ Len(files[i].data) <= MaxLen /\ files[i].mtime <= now
              /\ files[i].by # 0 => Snapshot(files[i], i)
  <2>1. CASE i = 1
    BY <1>3, <1>5, <1>6, <1>7, <1>8, <2>1
  <2>2. CASE i # 1
    BY <1>3, <1>5, <1>6, <1>7, <2>2
  <2> QED BY <2>1, <2>2
<1>11. FsInv
  BY <1>5, <1>6, <1>7, <1>9, <1>10 DEF FsInv
<1>12. SeenInv /\ CacheInv
  BY <1>1, <1>3 DEF SeenInv, CacheInv, Unseen, Inodes, EmptyCache
<1>13. NumbersInv
  BY <1>1, <1>3 DEF NumbersInv
<1>14. RequestInv /\ OpenInv /\ LoopInv /\ AnswerInv /\ WireInv
  BY <1>1 DEF NoRequest, NoRange, RangeForm, RequestInv, OpenInv, LoopInv, AnswerInv, WireInv, Holding
<1> QED BY <1>11, <1>12, <1>13, <1>14 DEF FileInv

\* Every step.
LEMMA FileStep ==
  StaticAssumption /\ RequestsAssumption /\ NamedInv /\ FileInv /\ [Next]_vars => FileInv'
<1> SUFFICES ASSUME StaticAssumption, RequestsAssumption, NamedInv, FileInv, [Next]_vars
             PROVE  FileInv'
  OBVIOUS
<1>1. CASE AskForFile \/ AskRoute
  BY <1>1, AskingKeeps
<1>2. CASE HandlerCalls
  <2>1. /\ UNCHANGED <<fsVars, req, readVars, webroot, cache>>
        /\ pc = "handler" /\ pc' = "handler"
    BY <1>2 DEF HandlerCalls
  <2>2. ~webroot
    BY <2>1 DEF FileInv, RequestInv
  <2> QED BY <2>1, <2>2, RoutesKeep
<1>3. CASE HandlerReturns
  <2>1. /\ UNCHANGED <<fsVars, req, readVars, webroot, cache>>
        /\ pc = "handler" /\ pc' = "answer"
    BY <1>3 DEF HandlerReturns
  <2>2. ~webroot
    BY <2>1 DEF FileInv, RequestInv
  <2> QED BY <2>1, <2>2, RoutesKeep
<1>4. CASE StaticServe /\ UNCHANGED <<fsVars, webroot, handlerVars, wire, cache>>
  BY <1>4, ServingKeeps
<1>5. CASE Respond
  <2>1. CASE webroot
    BY <1>5, <2>1, RespondKeeps DEF NamedInv, Respond
  <2>2. CASE ~webroot
    <3>1. /\ UNCHANGED <<fsVars, req, readVars, webroot, cache>> /\ pc = "answer"
          /\ pc' = "idle" /\ wire' = Finalize(res, req.keep) /\ res' = res
      BY <1>5, <2>2 DEF Respond
    <3> QED BY <2>2, <3>1, RoutesKeep
  <2> QED BY <2>1, <2>2
<1>6. CASE World
  BY <1>6, WorldKeeps
<1>7. CASE UNCHANGED vars
  <2>1. UNCHANGED <<fsVars, pc, req, fd, opened, st, from, want, data, seen, res, webroot, wire, cache>>
    BY <1>7 DEF vars, readVars
  <2>2. UNCHANGED <<tree, files, writes, now, history>>
    BY <2>1 DEF fsVars
  <2>3. \A f, i : Snapshot(f, i)' <=> Snapshot(f, i)
    BY <2>2 DEF Snapshot
  <2>4. FsInv' /\ SeenInv' /\ CacheInv'
    BY <2>1, <2>2, <2>3 DEF FileInv, FsInv, SeenInv, CacheInv
  <2>5. Bytes' = Bytes /\ (Untouched' <=> Untouched) /\ (RangeInv' <=> RangeInv)
    BY <2>1, <2>2 DEF Bytes, Untouched, RangeInv
  <2>6. RequestInv' /\ OpenInv' /\ LoopInv' /\ NumbersInv' /\ WireInv'
    BY <2>1, <2>2, <2>5 DEF FileInv, RequestInv, OpenInv, LoopInv, NumbersInv, WireInv, Holding
  <2>7. (WholeInv' <=> WholeInv) /\ (PartInv' <=> PartInv) /\ (Current' <=> Current)
    BY <2>1, <2>2, <2>5 DEF WholeInv, PartInv, Current, Lookalike
  <2>8. AnswerInv'
    BY <2>1, <2>5, <2>7 DEF FileInv, AnswerInv
  <2> QED BY <2>4, <2>6, <2>8 DEF FileInv
<1> QED BY <1>1, <1>2, <1>3, <1>4, <1>5, <1>6, <1>7 DEF Next, Server

\* Something is built from the pieces of every sequence, and it is a sequence
\* if they are.
LEMMA JoinsExists ==
  ASSUME NEW s, NEW n \in Nat \ {0}
  PROVE  \E g : Joins(g, s, n)
<1> DEFINE Has(k) == \E g : Joins(g, s, k)
           Bad == {k \in 1 .. n : ~Has(k)}
<1>1. CASE Bad = {}
  <2>1. n \in 1 .. n
    OBVIOUS
  <2> QED BY <1>1, <2>1, Zenon
<1>2. CASE Bad # {}
  <2>1. PICK m \in Bad : \A i \in Bad : m <= i
    <3>1. Bad \in SUBSET Nat
      OBVIOUS
    <3> HIDE DEF Bad
    <3> QED BY <1>2, <3>1, LeastNumber
  <2>2. m \in 1 .. n /\ ~Has(m)
    BY <2>1, Zenon
  <2>3. CASE m = 1
    <3> DEFINE g == [i \in 1 .. 1 |-> s[1]]
    <3>1. ASSUME NEW i \in 1 .. 1 PROVE i = 1
      OBVIOUS
    <3>2. Joins(g, s, 1)
      BY <3>1 DEF Joins
    <3> HIDE DEF g
    <3> QED BY <2>2, <2>3, <3>2
  <2>4. CASE m # 1
    <3>1. m - 1 \in 1 .. n /\ ~(m <= m - 1) /\ m \in Nat
      BY <2>2, <2>4
    <3>2. Has(m - 1)
      <4>1. m - 1 \notin Bad
        BY <2>1, <3>1, Zenon
      <4> QED BY <3>1, <4>1, Zenon
    <3>3. PICK g : Joins(g, s, m - 1)
      BY <3>2, Zenon
    <3> DEFINE h == [i \in 1 .. m |-> IF i = m THEN g[m - 1] \o s[m] ELSE g[i]]
    <3>4. h[m] = g[m - 1] \o s[m] /\ \A i \in 1 .. (m - 1) : h[i] = g[i]
      <4>1. m \in 1 .. m /\ \A i \in 1 .. (m - 1) : i \in 1 .. m /\ i # m
        BY <3>1
      <4> QED BY <4>1
    <3>5. h = [i \in 1 .. m |-> h[i]]
      OBVIOUS
    <3> HIDE DEF h
    <3>6. ASSUME NEW i \in 1 .. m
          PROVE  h[i] = IF i = 1 THEN s[i] ELSE h[i - 1] \o s[i]
      <4>1. CASE i = m
        <5>1. m - 1 \in 1 .. (m - 1)
          BY <3>1
        <5> QED BY <2>4, <3>4, <4>1, <5>1
      <4>2. CASE i # m
        <5>1. i \in 1 .. (m - 1) /\ (i # 1 => i - 1 \in 1 .. (m - 1))
          BY <3>1, <4>2
        <5>2. g[i] = IF i = 1 THEN s[i] ELSE g[i - 1] \o s[i]
          BY <3>3, <5>1, Zenon DEF Joins
        <5> QED BY <3>4, <5>1, <5>2, Zenon
      <4> QED BY <4>1, <4>2
    <3>7. Joins(h, s, m)
      BY <3>5, <3>6, Zenon DEF Joins
    <3> QED BY <2>2, <3>7, Zenon
  <2> QED BY <2>3, <2>4
<1> QED BY <1>1, <1>2

\* Sequences are joined into a sequence.
LEMMA FlattenType ==
  ASSUME NEW S, NEW s \in Seq(Seq(S))
  PROVE  FlattenSeq(s) \in Seq(S)
<1>1. PICK n \in Nat : n = Len(s)
  OBVIOUS
<1>2. CASE n = 0
  <2>1. s = <<>> /\ Len(s) = 0
    BY <1>1, <1>2, EmptySeq
  <2>2. FlattenSeq(s) = s
    BY <2>1, Zenon DEF FlattenSeq
  <2>3. <<>> \in Seq(S)
    OBVIOUS
  <2> QED BY <2>1, <2>2, <2>3, Zenon
<1>3. CASE n # 0
  <2>1. PICK g : Joins(g, s, n)
    BY <1>3, JoinsExists
  <2>2. FlattenSeq(s) = g[n]
    BY <1>1, <1>3, <2>1, FlattenIs
  <2> DEFINE Bad == {k \in 1 .. n : g[k] \notin Seq(S)}
  <2>3. CASE Bad = {}
    <3>1. n \in 1 .. n
      BY <1>3
    <3> QED BY <2>2, <2>3, <3>1, Zenon
  <2>4. CASE Bad # {}
    <3>1. PICK m \in Bad : \A i \in Bad : m <= i
      <4>1. Bad \in SUBSET Nat
        OBVIOUS
      <4> HIDE DEF Bad
      <4> QED BY <2>4, <4>1, LeastNumber
    <3>2. m \in 1 .. n /\ g[m] \notin Seq(S)
      BY <3>1, Zenon
    <3>3. s[m] \in Seq(S)
      BY <1>1, <3>2
    <3>4. g[m] = IF m = 1 THEN s[m] ELSE g[m - 1] \o s[m]
      BY <2>1, <3>2, Zenon DEF Joins
    <3>5. m # 1
      BY <3>2, <3>3, <3>4, Zenon
    <3>6. m - 1 \in 1 .. n /\ ~(m <= m - 1)
      BY <3>2, <3>5
    <3>7. g[m - 1] \in Seq(S)
      BY <3>1, <3>6, Zenon
    <3>8. g[m - 1] \o s[m] \in Seq(S)
      BY <3>3, <3>7
    <3> QED BY <3>2, <3>4, <3>5, <3>8, Zenon
  <2> QED BY <2>3, <2>4
<1> QED BY <1>2, <1>3

-----------------------------------------------------------------------------
(* Lines.                                                                  *)

\* Where the line that begins at i ends: at a newline or behind the text.
LineEnds(text, i) == {e \in i .. Len(text) : text[e] = Newline} \cup {Len(text) + 1}

LineEnd(text, i) == CHOOSE e \in LineEnds(text, i) : \A f \in LineEnds(text, i) : e <= f

\* It is the first newline from i on, if there is one.
LEMMA LineEndIs ==
  ASSUME NEW text \in Seq(Nat), NEW i \in 1 .. Len(text) + 1
  PROVE  /\ LineEnd(text, i) \in i .. Len(text) + 1
         /\ LineEnd(text, i) <= Len(text) => text[LineEnd(text, i)] = Newline
         /\ \A k \in i .. LineEnd(text, i) - 1 : text[k] # Newline
<1> DEFINE E == LineEnds(text, i)
<1>1. PICK n \in Nat : n = Len(text)
  OBVIOUS
<1>2. E \in SUBSET Nat /\ E # {} /\ E \subseteq i .. n + 1
  BY <1>1 DEF LineEnds
<1>3. \E e \in E : \A f \in E : e <= f
  <2> HIDE DEF E
  <2> QED BY <1>2, LeastNumber
<1>4. LineEnd(text, i) \in E /\ \A f \in E : LineEnd(text, i) <= f
  <2> HIDE DEF E
  <2>1. LineEnd(text, i) = CHOOSE e \in E : \A f \in E : e <= f
    BY DEF LineEnd, E
  <2> QED BY <1>3, <2>1, Zenon
<1>5. PICK e : e = LineEnd(text, i)
  OBVIOUS
<1>6. e \in i .. n + 1 /\ e \in E /\ (\A f \in E : e <= f) /\ e \in Nat
  BY <1>2, <1>4, <1>5
<1>7. e <= n => text[e] = Newline
  BY <1>1, <1>6 DEF LineEnds
<1>8. ASSUME NEW k \in i .. e - 1
      PROVE  text[k] # Newline
  <2>1. k \in i .. n /\ ~(e <= k)
    BY <1>6
  <2>2. k \notin E
    BY <1>6, <2>1
  <2> QED BY <1>1, <2>1, <2>2 DEF LineEnds
<1> HIDE DEF E
<1> QED BY <1>1, <1>5, <1>6, <1>7, <1>8

\* ls holds at i the lines of a text from position i on.
Splits(ls, text, i, n) ==
  /\ ls = [k \in i .. n + 2 |-> ls[k]]
  /\ \A k \in i .. n + 2 :
       ls[k] = IF k > n THEN <<>>
               ELSE <<SubSeq(text, k, LineEnd(text, k) - 1)>> \o ls[LineEnd(text, k) + 1]

\* A text can be taken line by line from any position.
LEMMA SplitsExists ==
  ASSUME NEW text \in Seq(Nat), NEW n \in Nat, n = Len(text)
  PROVE  \A i \in 1 .. n + 2 : \E ls : Splits(ls, text, i, n)
<1> DEFINE Has(i) == \E ls : Splits(ls, text, i, n)
           Bad == {i \in 1 .. n + 2 : ~Has(i)}
<1>1. CASE Bad = {}
  BY <1>1, Zenon
<1>2. CASE Bad # {}
  <2>1. PICK j \in Bad : \A i \in Bad : i <= j
    <3>1. Bad \in SUBSET (1 .. n + 2) /\ n + 2 \in Nat
      OBVIOUS
    <3> HIDE DEF Bad
    <3> QED BY <1>2, <3>1, GreatestNumber
  <2>2. j \in 1 .. n + 2 /\ ~Has(j)
    BY <2>1, Zenon
  <2>4. CASE j = n + 2
    <3> DEFINE ls == [k \in j .. n + 2 |-> <<>>]
    <3>1. ls = [k \in j .. n + 2 |-> ls[k]]
      OBVIOUS
    <3>2. \A k \in j .. n + 2 : k > n /\ ls[k] = <<>>
      BY <2>4
    <3> HIDE DEF ls
    <3>3. Splits(ls, text, j, n)
      BY <3>1, <3>2 DEF Splits
    <3> QED BY <2>2, <3>3, Zenon
  <2>5. CASE j # n + 2
    <3>1. j + 1 \in 1 .. n + 2 /\ ~(j + 1 <= j)
      BY <2>2, <2>5
    <3>2. j + 1 \notin Bad
      BY <2>1, <3>1, Zenon
    <3>3. PICK g : Splits(g, text, j + 1, n)
      BY <3>1, <3>2, Zenon
    <3> DEFINE first == IF j > n THEN <<>>
                        ELSE <<SubSeq(text, j, LineEnd(text, j) - 1)>> \o g[LineEnd(text, j) + 1]
               h == [k \in j .. n + 2 |-> IF k = j THEN first ELSE g[k]]
    <3>4. /\ h[j] = first /\ \A k \in j + 1 .. n + 2 : h[k] = g[k]
          /\ h = [k \in j .. n + 2 |-> h[k]]
      <4> HIDE DEF first
      <4>1. j \in j .. n + 2 /\ \A k \in j + 1 .. n + 2 : k \in j .. n + 2 /\ k # j
        OBVIOUS
      <4> QED BY <4>1
    <3> HIDE DEF h
    <3>5. ASSUME NEW k \in j .. n + 2, k <= n
          PROVE  LineEnd(text, k) + 1 \in k + 1 .. n + 2
      <4>1. k \in 1 .. Len(text) + 1
        BY <3>5
      <4> QED BY <4>1, LineEndIs
    <3>6. ASSUME NEW k \in j .. n + 2
          PROVE  h[k] = IF k > n THEN <<>>
                        ELSE <<SubSeq(text, k, LineEnd(text, k) - 1)>> \o h[LineEnd(text, k) + 1]
      <4>1. CASE k > n
        <5>1. CASE k = j
          BY <3>4, <4>1, <5>1
        <5>2. CASE k # j
          <6>1. k \in j + 1 .. n + 2
            BY <5>2
          <6> QED BY <3>3, <3>4, <4>1, <6>1 DEF Splits
        <5> QED BY <5>1, <5>2
      <4>2. CASE ~(k > n)
        <5>1. LineEnd(text, k) + 1 \in k + 1 .. n + 2
          BY <3>5, <4>2
        <5>2. PICK e : e = LineEnd(text, k) + 1
          OBVIOUS
        <5>3. e \in j + 1 .. n + 2
          BY <5>1, <5>2
        <5>4. h[e] = g[e]
          BY <3>4, <5>3
        <5>5. CASE k = j
          BY <3>4, <4>2, <5>2, <5>4, <5>5
        <5>6. CASE k # j
          <6>1. k \in j + 1 .. n + 2
            BY <5>6
          <6>2. g[k] = <<SubSeq(text, k, LineEnd(text, k) - 1)>> \o g[LineEnd(text, k) + 1]
            BY <3>3, <4>2, <6>1 DEF Splits
          <6> QED BY <3>4, <4>2, <5>2, <5>4, <6>1, <6>2
        <5> QED BY <5>5, <5>6
      <4> QED BY <4>1, <4>2
    <3>7. Splits(h, text, j, n)
      BY <3>4, <3>6, Zenon DEF Splits
    <3> QED BY <2>2, <3>7, Zenon
  <2> QED BY <2>4, <2>5
<1> QED BY <1>1, <1>2

\* What Lines does.
LEMMA LinesIs ==
  ASSUME NEW text \in Seq(Nat), NEW n \in Nat, n = Len(text)
  PROVE  \E ls : Splits(ls, text, 1, n) /\ Lines(text) = ls[1]
<1> DEFINE P(f) == f = [i \in 1 .. n + 2 |->
                          LET ends == {e \in i .. n : text[e] = Newline} \cup {n + 1}
                              end  == CHOOSE e \in ends : \A k \in ends : e <= k
                          IN  IF i > n THEN <<>>
                              ELSE <<SubSeq(text, i, end - 1)>> \o f[end + 1]]
           Q(f) == f = [i \in 1 .. n + 2 |->
                          IF i > n THEN <<>>
                          ELSE <<SubSeq(text, i, LineEnd(text, i) - 1)>> \o f[LineEnd(text, i) + 1]]
<1>1. \A f : P(f) <=> Q(f)
  BY Zenon DEF LineEnd, LineEnds
<1>2. PICK g : Splits(g, text, 1, n)
  <2>1. 1 \in 1 .. n + 2
    OBVIOUS
  <2> QED BY <2>1, SplitsExists
<1>3. Q(g)
  <2> DEFINE G(i) == IF i > n THEN <<>>
                     ELSE <<SubSeq(text, i, LineEnd(text, i) - 1)>> \o g[LineEnd(text, i) + 1]
  <2>1. g = [i \in 1 .. n + 2 |-> g[i]] /\ \A i \in 1 .. n + 2 : g[i] = G(i)
    BY <1>2, Zenon DEF Splits
  <2> HIDE DEF G
  <2>2. g = [i \in 1 .. n + 2 |-> G(i)]
    BY <2>1
  <2> QED BY <2>2 DEF G
<1> DEFINE h == CHOOSE f : P(f)
<1>4. Lines(text) = h[1]
  BY DEF Lines
<1>5. Q(h)
  <2> HIDE DEF P, Q
  <2>1. P(g)
    BY <1>1, <1>3, Zenon
  <2>2. P(h)
    BY <2>1, Zenon
  <2> QED BY <1>1, <2>2, Zenon
<1> HIDE DEF h
<1>6. Splits(h, text, 1, n)
  <2> DEFINE H(i) == IF i > n THEN <<>>
                     ELSE <<SubSeq(text, i, LineEnd(text, i) - 1)>> \o h[LineEnd(text, i) + 1]
  <2>1. h = [i \in 1 .. n + 2 |-> H(i)]
    BY <1>5
  <2> HIDE DEF H
  <2>2. h = [i \in 1 .. n + 2 |-> h[i]] /\ \A i \in 1 .. n + 2 : h[i] = H(i)
    BY <2>1
  <2> QED BY <2>2, Zenon DEF H, Splits
<1> HIDE DEF P, Q
<1> QED BY <1>4, <1>6, Zenon

\* The lines of a text consist of its bytes.
LEMMA LinesOver ==
  ASSUME NEW S \in SUBSET Nat, NEW text \in Seq(S)
  PROVE  Lines(text) \in Seq(Seq(S))
<1>0. text \in Seq(Nat)
  BY SeqMonotonic
<1>1. PICK n \in Nat : n = Len(text)
  OBVIOUS
<1>2. PICK ls : Splits(ls, text, 1, n) /\ Lines(text) = ls[1]
  BY <1>0, <1>1, LinesIs
<1> DEFINE Bad == {i \in 1 .. n + 2 : ls[i] \notin Seq(Seq(S))}
<1>3. CASE Bad = {}
  <2>1. 1 \in 1 .. n + 2
    OBVIOUS
  <2> QED BY <1>2, <1>3, <2>1, Zenon
<1>4. CASE Bad # {}
  <2>1. PICK j \in Bad : \A i \in Bad : i <= j
    <3>1. Bad \in SUBSET (1 .. n + 2) /\ n + 2 \in Nat
      OBVIOUS
    <3> HIDE DEF Bad
    <3> QED BY <1>4, <3>1, GreatestNumber
  <2>2. j \in 1 .. n + 2 /\ ls[j] \notin Seq(Seq(S))
    BY <2>1, Zenon
  <2>3. ls[j] = IF j > n THEN <<>>
                ELSE <<SubSeq(text, j, LineEnd(text, j) - 1)>> \o ls[LineEnd(text, j) + 1]
    BY <1>2, <2>2, Zenon DEF Splits
  <2>4. CASE j > n
    BY <2>2, <2>3, <2>4
  <2>5. CASE ~(j > n)
    <3>1. j \in 1 .. Len(text) + 1 /\ j \in Nat
      BY <1>1, <2>2, <2>5
    <3>2. PICK e \in j .. n + 1 : e = LineEnd(text, j)
      BY <1>0, <1>1, <3>1, LineEndIs
    <3>3. e + 1 \in 1 .. n + 2 /\ ~(e + 1 <= j)
      BY <2>2, <2>5, <3>2
    <3>4. ls[e + 1] \in Seq(Seq(S))
      BY <2>1, <3>3, Zenon
    <3>5. SubSeq(text, j, e - 1) \in Seq(S)
      BY <1>1, <2>2, <2>5, <3>2
    <3>6. <<SubSeq(text, j, e - 1)>> \o ls[e + 1] \in Seq(Seq(S))
      BY <3>4, <3>5
    <3> QED BY <2>2, <2>3, <2>5, <3>2, <3>6
  <2> QED BY <2>4, <2>5
<1> QED BY <1>3, <1>4

LEMMA LinesType ==
  ASSUME NEW text \in Seq(Nat)
  PROVE  Lines(text) \in Seq(Seq(Nat))
  BY LinesOver

\* An event consists of the bytes of its text and those that mark its lines,
\* and is never empty.
LEMMA EventOver ==
  ASSUME NEW S \in SUBSET Nat, DataField \in S, Newline \in S, NEW text \in Seq(S)
  PROVE  Event(text) \in Seq(S) /\ Event(text) # <<>>
<1>1. PICK ls : ls = Lines(text)
  OBVIOUS
<1>2. ls \in Seq(Seq(S))
  BY <1>1, LinesOver
<1> DEFINE fs == [k \in DOMAIN ls |-> <<DataField>> \o ls[k] \o <<Newline>>]
<1>3. fs \in Seq(Seq(S))
  <2>1. \A k \in 1 .. Len(ls) : <<DataField>> \o ls[k] \o <<Newline>> \in Seq(S)
    <3>1. <<DataField>> \in Seq(S) /\ <<Newline>> \in Seq(S)
      OBVIOUS
    <3> QED BY <1>2, <3>1
  <2>2. DOMAIN ls = 1 .. Len(ls) /\ Len(ls) \in Nat
    BY <1>2
  <2> QED BY <2>1, <2>2
<1> HIDE DEF fs
<1>4. PICK x : x = FlattenSeq(fs)
  OBVIOUS
<1>5. x \in Seq(S) /\ Event(text) = x \o <<Newline>>
  BY <1>1, <1>3, <1>4, FlattenType DEF Event, fs
<1>6. x \o <<Newline>> \in Seq(S) /\ Len(x \o <<Newline>>) = Len(x) + 1 /\ Len(x) \in Nat
  BY <1>5
<1>7. x \o <<Newline>> # <<>>
  <2>1. PICK y \in Seq(S) : y = x \o <<Newline>>
    BY <1>6
  <2>2. Len(y) # 0
    BY <1>6, <2>1
  <2>3. y # <<>>
    BY <2>2, EmptySeq
  <2> QED BY <2>1, <2>3
<1> QED BY <1>5, <1>6, <1>7

LEMMA EventType ==
  ASSUME NEW text \in Seq(Nat)
  PROVE  Event(text) \in Seq(Nat) /\ Event(text) # <<>>
<1>1. DataField \in Nat /\ Newline \in Nat
  BY DEF DataField, Newline
<1> QED BY <1>1, EventOver

\* How many pieces there are.
LEMMA PieceCount ==
  ASSUME NEW a \in Nat, NEW c \in Nat \ {0}
  PROVE  /\ (a + c - 1) \div c \in Nat
         /\ a <= ((a + c - 1) \div c) * c
         /\ ((a + c - 1) \div c) * c < a + c
<1> DEFINE q == (a + c - 1) \div c
           r == (a + c - 1) % c
<1>1. a + c - 1 \in Nat
  OBVIOUS
<1>2. q \in Int /\ r \in 0 .. c - 1 /\ a + c - 1 = c * q + r
  BY <1>1
<1> HIDE DEF q, r
<1>3. q >= 0
  BY <1>2
<1>4. c * q = q * c
  BY <1>2
<1> QED BY <1>2, <1>3, <1>4 DEF q

\* The length of a part of a sequence.
LEMMA SliceLength ==
  ASSUME NEW b \in Seq(Nat), NEW x \in Nat, NEW y \in Nat, x <= y, y <= Len(b)
  PROVE  Len(SubSeq(b, x + 1, y)) = y - x
  OBVIOUS

\* A sequence is a beginning and what follows it.
LEMMA FrontAndRest ==
  ASSUME NEW b \in Seq(Nat), NEW x \in Nat, NEW z \in Nat, x <= z, z <= Len(b)
  PROVE  SubSeq(b, 1, x) \o SubSeq(b, x + 1, z) = SubSeq(b, 1, z)
  OBVIOUS

\* The chunks of an answer are its body, and none of them is the last chunk.
LEMMA PiecesJoin ==
  ASSUME ChunkSizeAssumption, NEW body \in Seq(Nat)
  PROVE  /\ FlattenSeq(Pieces(body)) = body
         /\ \A k \in 1 .. Len(Pieces(body)) : Pieces(body)[k] # <<>>
<1>1. PICK c \in Nat \ {0}, l \in Nat : c = ChunkSize /\ l = Len(body)
  BY DEF ChunkSizeAssumption
<1>2. PICK n \in Nat : n = (l + c - 1) \div c /\ l <= n * c /\ n * c < l + c
  BY PieceCount
<1> DEFINE Upto(k) == IF k * c < l THEN k * c ELSE l
           Start(k) == (k - 1) * c
           Piece(k) == SubSeq(body, Start(k) + 1, Upto(k))
<1>3. Pieces(body) = [k \in 1 .. n |-> Piece(k)]
  BY <1>1, <1>2 DEF Pieces
<1>4. ASSUME NEW k \in 1 .. n
      PROVE  /\ Start(k) \in Nat /\ Upto(k) \in 1 .. l /\ Start(k) < Upto(k)
             /\ k # 1 => Upto(k - 1) = Start(k)
             /\ k = n => Upto(k) = l
             /\ k = 1 => Start(k) = 0
  <2>1. PICK j \in Nat : j = k - 1 /\ j <= n - 1
    OBVIOUS
  <2>2. j * c \in Nat /\ j * c <= (n - 1) * c
    BY <2>1
  <2>3. (n - 1) * c = n * c - c /\ n * c \in Nat
    OBVIOUS
  <2>4. j * c < l
    BY <1>2, <2>2, <2>3
  <2>5. k * c = j * c + c
    BY <2>1
  <2>6. PICK x \in Nat, y \in Nat : x = j * c /\ y = k * c /\ y = x + c /\ x < l
    BY <2>2, <2>4, <2>5
  <2>7. Upto(k) = IF y < l THEN y ELSE l
    BY <2>6
  <2>8. Upto(k) \in 1 .. l /\ x < Upto(k)
    <3> HIDE DEF Upto
    <3> QED BY <2>6, <2>7
  <2>9. Start(k) = x /\ (k # 1 => Upto(k - 1) = x)
    BY <2>1, <2>6
  <2>10. k = n => Upto(k) = l
    BY <1>2
  <2>11. k = 1 => x = 0
    BY <2>1, <2>6
  <2> HIDE DEF Upto, Start
  <2> QED BY <2>6, <2>8, <2>9, <2>10, <2>11
<1> HIDE DEF Upto, Start
<1>5. CASE n = 0
  <2>1. l = 0
    BY <1>2, <1>5
  <2>2. body = <<>>
    BY <1>1, <2>1, EmptySeq
  <2> HIDE DEF Piece
  <2>4. Pieces(body) = <<>>
    BY <1>3, <1>5
  <2>3. FlattenSeq(<<>>) = <<>> /\ Len(<<>>) = 0
    BY DEF FlattenSeq
  <2> QED BY <2>2, <2>3, <2>4
<1>6. CASE n # 0
  <2> DEFINE s == [k \in 1 .. n |-> Piece(k)]
             g == [k \in 1 .. n |-> SubSeq(body, 1, Upto(k))]
  <2>1. Len(s) = n /\ \A k \in 1 .. n : s[k] = Piece(k)
    <3> HIDE DEF Piece
    <3> QED BY <1>6
  <2>2. g = [k \in 1 .. n |-> g[k]] /\ \A k \in 1 .. n : g[k] = SubSeq(body, 1, Upto(k))
    OBVIOUS
  <2> HIDE DEF s, g
  <2>3. ASSUME NEW k \in 1 .. n
        PROVE  g[k] = IF k = 1 THEN s[k] ELSE g[k - 1] \o s[k]
    <3>1. PICK x \in Nat, z \in 1 .. l : x = Start(k) /\ z = Upto(k) /\ x < z
      BY <1>4
    <3>2. s[k] = SubSeq(body, x + 1, z) /\ g[k] = SubSeq(body, 1, z)
      BY <2>1, <2>2, <3>1
    <3>3. CASE k = 1
      <4>1. x = 0
        BY <1>4, <3>1, <3>3
      <4>2. g[k] = s[k]
        BY <3>2, <4>1
      <4> QED BY <3>3, <4>2, Zenon
    <3>4. CASE k # 1
      <4>1. k - 1 \in 1 .. n /\ Upto(k - 1) = x
        BY <1>4, <3>1, <3>4
      <4>2. g[k - 1] = SubSeq(body, 1, x)
        BY <2>2, <4>1
      <4>3. SubSeq(body, 1, x) \o SubSeq(body, x + 1, z) = SubSeq(body, 1, z)
        <5>1. z \in Nat /\ x <= z /\ z <= Len(body)
          BY <1>1, <3>1
        <5> QED BY <5>1, FrontAndRest
      <4>4. g[k] = g[k - 1] \o s[k]
        BY <3>2, <4>2, <4>3, Zenon
      <4> QED BY <3>4, <4>4, Zenon
    <3> QED BY <3>3, <3>4
  <2>4. Joins(g, s, n)
    BY <2>2, <2>3, Zenon DEF Joins
  <2>5. FlattenSeq(s) = g[n]
    BY <1>6, <2>1, <2>4, FlattenIs
  <2>6. g[n] = body
    <3>1. n \in 1 .. n
      BY <1>6
    <3>2. Upto(n) = l
      BY <1>4, <3>1
    <3> QED BY <1>1, <2>2, <3>1, <3>2
  <2>7. ASSUME NEW k \in 1 .. n
        PROVE  s[k] # <<>>
    <3>1. PICK x \in Nat, y \in 1 .. l : x = Start(k) /\ y = Upto(k) /\ x < y
      BY <1>4
    <3>2. s[k] = SubSeq(body, x + 1, y)
      BY <2>1, <3>1
    <3>3. y \in Nat /\ y <= Len(body)
      BY <1>1, <3>1
    <3>4. Len(SubSeq(body, x + 1, y)) = y - x
      <4>1. x \in Nat /\ x <= y
        BY <1>4, <3>1
      <4> HIDE DEF Start, Upto
      <4> QED BY <3>3, <4>1, SliceLength
    <3>5. y - x # 0
      BY <3>1
    <3>6. Len(s[k]) # 0
      BY <3>2, <3>4, <3>5, Zenon
    <3>7. Len(<<>>) = 0
      OBVIOUS
    <3> QED BY <3>6, <3>7
  <2>8. Pieces(body) = s
    BY <1>3 DEF s
  <2> QED BY <2>1, <2>5, <2>6, <2>7, <2>8
<1> QED BY <1>5, <1>6

-----------------------------------------------------------------------------
(* Answers that end.                                                       *)

Statuses == {0, 200, 204, 206, 302, 304, 403, 404, 416, 500}

\* The fields that say how an answer is put on the wire.
Framed(r) ==
  /\ "status" \in DOMAIN r /\ "body" \in DOMAIN r /\ "events" \in DOMAIN r
  /\ "head_only" \in DOMAIN r /\ "chunked" \in DOMAIN r /\ "streamed" \in DOMAIN r
  /\ "no_body" \in DOMAIN r

\* A handler's response: nothing but the builders touches it.
Composed(r, head) ==
  /\ Framed(r) /\ r.head_only = head
  /\ r.status \in {0, 200, 204, 302, 404}
  /\ r.body \in Seq(Nat)
  /\ r.events \in Seq(Seq(Nat)) /\ \A k \in 1 .. Len(r.events) : r.events[k] # <<>>

HandlerInv == ~webroot => Composed(res, req.head) /\ seen = Unseen

\* What dispatch_request begins with.
LEMMA BlankFramed ==
  ASSUME NEW head
  PROVE  Composed(BlankResponse(head), head)
<1>1. DOMAIN BlankResponse(head) =
        {"status", "ctype", "body", "headers", "chunked", "head_only", "no_body",
         "responded", "streamed", "begun", "events"}
  BY DEF BlankResponse
<1>2. LET blank == BlankResponse(head)
      IN  blank.head_only = head /\ blank.status = 0 /\ blank.body = <<>> /\ blank.events = <<>>
  BY DEF BlankResponse
<1> QED BY <1>1, <1>2 DEF Framed, Composed

\* One call.
LEMMA CallFramed ==
  ASSUME BodiesAssumption, NEW r, NEW head, Composed(r, head), NEW call \in Calls
  PROVE  Composed(Call(r, call), head)
<1>0. /\ Framed(r) /\ r.head_only = head
      /\ r.status \in {0, 200, 204, 302, 404} /\ r.body \in Seq(Nat)
      /\ r.events \in Seq(Seq(Nat)) /\ \A k \in 1 .. Len(r.events) : r.events[k] # <<>>
  BY DEF Composed
<1>1. CASE call.op = "send"
  <2>1. call.body \in Bodies /\ call.status \in {200, 204, 404}
    BY <1>1 DEF Calls, Plain
  <2>2. call.body \in Seq(Nat)
    BY <2>1 DEF BodiesAssumption
  <2>3. Call(r, call) = Send(r, call.status, "text", call.body)
    BY <1>1 DEF Call
  <2> QED BY <1>0, <2>1, <2>2, <2>3 DEF Send, Framed, Composed
<1>11. CASE call.op = "json"
  <2>1. Call(r, call) = Send(r, 404, "json", <<101>>)
    BY <1>11 DEF Call, JsonErr
  <2>2. <<101>> \in Seq(Nat)
    OBVIOUS
  <2> QED BY <1>0, <2>1, <2>2 DEF Send, Framed, Composed
<1>2. CASE call.op = "redirect"
  <2>1. Call(r, call) = Redirect(r, 302, "elsewhere")
    BY <1>2 DEF Call
  <2> QED BY <1>0, <2>1 DEF Redirect, SetHeader, AddLine, Framed, Composed
<1>3. CASE call.op = "no_content"
  <2>1. Call(r, call) = NoContent(r)
    BY <1>3 DEF Call
  <2> QED BY <1>0, <2>1 DEF NoContent, Framed, Composed
<1>4. CASE call.op = "chunked"
  <2>1. Call(r, call) = StreamAsChunks(r)
    BY <1>4 DEF Call
  <2> QED BY <1>0, <2>1 DEF StreamAsChunks, Framed, Composed
<1>5. CASE call.op = "header" \/ call.op = "no header"
  <2>1. Call(r, call) = AddLine(r, "X", "1") \/ Call(r, call) = r
    BY <1>5 DEF Call, SetHeader, ValidName
  <2>2. CASE Call(r, call) = AddLine(r, "X", "1")
    BY <1>0, <2>2 DEF AddLine, Framed, Composed
  <2> QED BY <2>1, <2>2
<1>6. CASE call.op = "cookie"
  <2>1. Call(r, call) = AddLine(r, "Set-Cookie", "s=1")
    BY <1>6 DEF Call
  <2> QED BY <1>0, <2>1 DEF AddLine, Framed, Composed
<1>7. CASE call.op = "start"
  <2>1. Call(r, call) = SseStart(r)
    BY <1>7 DEF Call
  <2> QED BY <1>0, <2>1 DEF SseStart, Framed, Composed
<1>8. CASE call.op = "event"
  <2>1. call.body \in Events
    BY <1>8 DEF Calls, Plain
  <2>2. call.body \in Seq(Nat)
    BY <2>1 DEF BodiesAssumption
  <2>3. PICK e \in Seq(Nat) : e = Event(call.body) /\ e # <<>>
    BY <2>2, EventType
  <2>4. PICK q : q = SseStart(r)
    OBVIOUS
  <2>5. /\ Framed(q) /\ q.head_only = head /\ q.status \in {0, 200, 204, 302, 404}
        /\ q.body = r.body /\ q.events = r.events
    BY <1>0, <2>4 DEF SseStart, Framed
  <2>6. /\ Append(r.events, e) \in Seq(Seq(Nat))
        /\ \A k \in 1 .. Len(Append(r.events, e)) : Append(r.events, e)[k] # <<>>
    <3>1. PICK es \in Seq(Seq(Nat)) : es = r.events
      BY <1>0
    <3>2. \A k \in 1 .. Len(Append(es, e)) : k = Len(es) + 1 \/ k \in 1 .. Len(es)
      BY <3>1
    <3> QED BY <1>0, <2>3, <3>1, <3>2
  <2>7. Call(r, call) = [q EXCEPT !.events = Append(r.events, e)]
    BY <1>8, <2>3, <2>4, <2>5 DEF Call, SseSend
  <2> DEFINE t == Append(r.events, e)
  <2> HIDE DEF t
  <2>8. Call(r, call) = [q EXCEPT !.events = t]
    BY <2>7 DEF t
  <2>9. t \in Seq(Seq(Nat)) /\ \A k \in 1 .. Len(t) : t[k] # <<>>
    BY <2>6 DEF t
  <2> QED BY <1>0, <2>5, <2>8, <2>9 DEF Framed, Composed
<1>9. call.op = "send" \/ call.op \in Plain \/ call.op = "event"
  BY DEF Calls
<1>10. call.op \in Plain =>
        \/ call.op \in {"json", "redirect", "no_content", "chunked", "header"}
        \/ call.op \in {"no header", "cookie", "start"}
  BY DEF Plain
<1> QED
  BY <1>1, <1>2, <1>3, <1>4, <1>5, <1>6, <1>7, <1>8, <1>9, <1>10, <1>11

\* A handler's response is empty at first.
LEMMA HandlerInit == Init => HandlerInv
<1> SUFFICES ASSUME Init
             PROVE  HandlerInv
  OBVIOUS
<1>1. res = BlankResponse(FALSE) /\ req.head = FALSE /\ seen = Unseen
  BY DEF Init, NoRequest
<1> QED BY <1>1, BlankFramed DEF HandlerInv

\* Every step leaves a response that the builders could have left.
LEMMA HandlerStep == BodiesAssumption /\ HandlerInv /\ BuildersInv /\ [Next]_vars => HandlerInv'
<1> SUFFICES ASSUME BodiesAssumption, HandlerInv, BuildersInv, [Next]_vars
             PROVE  HandlerInv'
  OBVIOUS
<1>1. webroot' = webroot
  BY DEF Next, Server, World, AskForFile, AskRoute, Begin, HandlerCalls, HandlerReturns,
         Respond, vars
<1>2. CASE webroot
  BY <1>1, <1>2 DEF HandlerInv
<1>3. ASSUME ~webroot, UNCHANGED <<res, req, seen>>
      PROVE  HandlerInv'
  BY <1>1, <1>3 DEF HandlerInv, Composed, Framed
<1>4. CASE ~webroot /\ AskRoute
  <2>1. PICK isHead \in BOOLEAN, keep \in BOOLEAN :
          Begin([NoRequest EXCEPT !.path = "route", !.head = isHead, !.keep = keep])
    BY <1>4 DEF AskRoute
  <2>2. PICK r : r = [NoRequest EXCEPT !.path = "route", !.head = isHead, !.keep = keep]
    OBVIOUS
  <2>3. req' = r /\ res' = BlankResponse(r.head) /\ seen' = Unseen
    BY <2>1, <2>2 DEF Begin, NewResponse
  <2> QED BY <1>1, <2>3, BlankFramed DEF HandlerInv
<1>5. CASE ~webroot /\ HandlerCalls
  <2>1. PICK call \in Calls : res' = Call(res, call)
    BY <1>5 DEF HandlerCalls
  <2>2. req' = req /\ seen' = seen
    BY <1>5 DEF HandlerCalls, readVars
  <2>3. Composed(res, req.head) /\ seen = Unseen
    BY <1>5 DEF HandlerInv
  <2> QED BY <1>1, <2>1, <2>2, <2>3, CallFramed DEF HandlerInv
<1>6. CASE ~webroot /\ (HandlerReturns \/ Respond)
  BY <1>3, <1>6 DEF HandlerReturns, Respond, readVars
<1>7. CASE ~webroot /\ StaticServe
  BY <1>7 DEF StaticServe, RefusePath, OpenFails, OpenPath, StatDirectory, NotModified,
              Unsatisfiable, SeekRange, WholeFile, StatFile, SizeAgain, Read, ReadDone,
              ReadFails, BuildersInv
<1>8. CASE ~webroot /\ World
  BY <1>3, <1>8 DEF World, readVars
<1>9. CASE ~webroot /\ UNCHANGED vars
  BY <1>3, <1>9 DEF vars, readVars
<1> QED BY <1>2, <1>4, <1>5, <1>6, <1>7, <1>8, <1>9 DEF Next, Server, AskForFile

\* What a client reads of a response that is neither streamed nor silent
\* against the rules is its body.
LEMMA Delimited ==
  ASSUME ChunkSizeAssumption, NEW r, NEW keep, NEW head \in BOOLEAN,
         r.head_only = head, r.body \in Seq(Nat), r.status \in Statuses \ {0}, ~r.streamed,
         r.no_body => r.status \in {204, 304}, ~(r.chunked /\ head)
  PROVE  LET w == Finalize(r, keep)
         IN  /\ ReadToItsEnd(w, head)
             /\ ContentOf(w, head) = IF Contentless(w, head) THEN <<>> ELSE r.body
<1>1. PICK w : w = Finalize(r, keep)
  OBVIOUS
<1>2. w.status = r.status
  BY <1>1 DEF Finalize
<1>3. FlattenSeq(<<>>) = <<>>
  BY DEF FlattenSeq
<1>6. ~(r.status \in 100 .. 199) /\ ~(r.status < 200)
  <2>1. \A n \in Statuses \ {0} : ~(n \in 100 .. 199) /\ ~(n < 200)
    BY DEF Statuses
  <2> QED BY <2>1, Zenon
<1>7. Contentless(w, head) <=> head \/ r.status \in {204, 304}
  <2>1. Contentless(w, head) <=>
          head \/ w.status \in {204, 304} \/ w.status \in 100 .. 199
    BY Zenon DEF Contentless
  <2>2. ~(w.status \in 100 .. 199)
    BY <1>2, <1>6, Zenon
  <2> QED BY <1>2, <2>1, <2>2
<1>8. Silent(r) <=> r.status \in {204, 304}
  BY <1>6, Zenon DEF Silent
<1>4. CASE Contentless(w, head)
  <2>1. w.framing # "chunked" /\ w.pieces = <<>>
    <3>1. CASE Silent(r)
      BY <1>1, <3>1 DEF Finalize
    <3>2. CASE ~Silent(r)
      <4>1. head
        BY <1>4, <1>7, <1>8, <3>2
      <4> QED BY <1>1, <3>2, <4>1 DEF Finalize
    <3> QED BY <3>1, <3>2
  <2> QED BY <1>1, <1>3, <1>4, <2>1 DEF ReadToItsEnd, ContentOf
<1>5. CASE ~Contentless(w, head)
  <2>1. ~head /\ ~Silent(r)
    BY <1>5, <1>7, <1>8
  <2>2. CASE r.chunked
    <3>1. w.framing = "chunked" /\ w.pieces = Pieces(r.body)
      BY <1>1, <2>1, <2>2 DEF Finalize
    <3>2. /\ FlattenSeq(w.pieces) = r.body
          /\ \A k \in 1 .. Len(w.pieces) : w.pieces[k] # <<>>
      BY <3>1, PiecesJoin
    <3>3. ReadToItsEnd(w, head)
      BY <1>5, <3>1, <3>2 DEF ReadToItsEnd
    <3> QED BY <1>1, <1>5, <3>2, <3>3 DEF ContentOf
  <2>3. CASE ~r.chunked
    <3>1. w.framing = "length" /\ w.pieces = <<r.body>> /\ w.length = Len(r.body)
      BY <1>1, <2>1, <2>3 DEF Finalize
    <3>2. FlattenSeq(w.pieces) = r.body
      BY <3>1, OnePiece
    <3>3. ReadToItsEnd(w, head)
      BY <1>5, <3>1, <3>2 DEF ReadToItsEnd
    <3> QED BY <1>1, <1>5, <3>2, <3>3 DEF ContentOf
  <2> QED BY <2>2, <2>3
<1> QED BY <1>4, <1>5

\* What a client reads of a stream.
LEMMA StreamDelimited ==
  ASSUME NEW r, NEW keep, NEW head, ~head, r.streamed,
         \A k \in 1 .. Len(r.events) : r.events[k] # <<>>
  PROVE  LET w == Finalize(r, keep)
         IN  /\ ReadToItsEnd(w, head)
             /\ ~Contentless(w, head) /\ ContentOf(w, head) = FlattenSeq(r.events)
<1>1. PICK w : w = Finalize(r, keep)
  OBVIOUS
<1>2. w.status = 200 /\ w.framing = "chunked" /\ w.pieces = r.events
  BY <1>1 DEF Finalize
<1>3. ~Contentless(w, head)
  BY <1>2 DEF Contentless
<1>4. ReadToItsEnd(w, head)
  BY <1>2, <1>3 DEF ReadToItsEnd
<1>5. ContentOf(w, head) = FlattenSeq(r.events)
  BY <1>2, <1>3 DEF ContentOf
<1> QED BY <1>1, <1>3, <1>4, <1>5

\* All that is known of a reachable state.
AllInv == NamedInv /\ FileInv /\ DescriptorInv /\ BuildersInv /\ HandlerInv

\* The invariants hold.
LEMMA AllInvariance == Spec => []AllInv
<1> USE RequestsAssumption, BodiesAssumption, StaticAssumption
<1>1. Init => AllInv
  BY NamedInit, FileInit, DescriptorInit, BuildersInit, HandlerInit DEF AllInv
<1>2. AllInv /\ [Next]_vars => AllInv'
  BY NamedStep, FileStep, DescriptorStep, BuildersStep, HandlerStep DEF AllInv
<1> QED BY <1>1, <1>2, PTL DEF Spec

\* Any answer of static_serve, and of a handler.
LEMMA AnswerKnown ==
  ASSUME AllInv, Answered
  PROVE  /\ wire = Finalize(res, req.keep) /\ res.head_only = req.head
         /\ res.body \in Seq(Nat) /\ req.head \in BOOLEAN
         /\ webroot => ~res.streamed /\ ~res.chunked
         /\ ~webroot => Composed(res, req.head)
<1>1. wire = Finalize(res, req.keep) /\ req.head \in BOOLEAN
  BY DEF AllInv, FileInv, WireInv, RequestInv, Answered
<1>2. CASE webroot
  BY <1>1, <1>2 DEF AllInv, FileInv, AnswerInv, Looks, Answered
<1>3. CASE ~webroot
  BY <1>1, <1>3 DEF AllInv, HandlerInv, Composed
<1> QED BY <1>2, <1>3

\* The status of a response, before and after it is answered.
LEMMA StatusKnown ==
  ASSUME AllInv
  PROVE  res.status \in Statuses
<1>1. CASE ~webroot
  BY <1>1 DEF AllInv, HandlerInv, Composed, Statuses
<1>2. CASE webroot /\ pc \in {"answer", "idle"} /\ req.path # "none"
  BY <1>2 DEF AllInv, FileInv, AnswerInv, Statuses
<1>3. CASE webroot /\ ~(pc \in {"answer", "idle"} /\ req.path # "none")
  <2>1. PICK head : res = BlankResponse(head)
    BY <1>3 DEF AllInv, NamedInv, FileInv, RequestInv, Holding
  <2> QED BY <2>1 DEF BlankResponse, Statuses
<1> QED BY <1>1, <1>2, <1>3

(***************************************************************************)
(* Every reachable state is one of the program's: the steps come in the    *)
(* order of their labels, a status is one that some builder sets, no read  *)
(* gets past what was allocated for it, the offset fits its width, and no  *)
(* file is larger or newer than the bounds say.                            *)
(***************************************************************************)
THEOREM ExchangeTypes == Spec => []TypeOK
<1>1. AllInv => TypeOK
  <2> SUFFICES ASSUME AllInv PROVE TypeOK
    OBVIOUS
  <2>1. pc \in {"idle", "handler", "static", "stat", "size", "read", "answer"}
    BY DEF AllInv, NamedInv
  <2>2. opened \in {0, 1}
    BY DEF AllInv, DescriptorInv
  <2>3. want \in Nat /\ Len(data) <= want /\ from \in 0 .. Modulus - 1
    BY DEF AllInv, FileInv, NumbersInv
  <2>4. \A ino \in Inodes : Len(files[ino].data) <= MaxLen /\ files[ino].mtime <= now
    BY DEF AllInv, FileInv, FsInv
  <2> QED BY <2>1, <2>2, <2>3, <2>4, StatusKnown DEF TypeOK, Statuses
<1> QED BY <1>1, AllInvariance, PTL

(***************************************************************************)
(* A client that takes the status line and the header fields at their word *)
(* reads exactly the content that the handler or static_serve put          *)
(* together, no byte less and none of the next answer: the Content-Length  *)
(* is that of the body, the chunks that cttp_chunked and the event stream  *)
(* make end where they should and add up to the body, and a 204, a 304 and *)
(* the answer to a HEAD request carry none.                                *)
(***************************************************************************)
THEOREM EveryAnswerEnds == Spec => []AnswersDelimited
<1>1. AllInv => AnswersDelimited
  <2> SUFFICES ASSUME AllInv, Answered, ~NoEnd, ~ChunksForHead
               PROVE  /\ ReadToItsEnd(wire, req.head)
                      /\ ContentOf(wire, req.head) =
                           IF Contentless(wire, req.head) THEN <<>>
                           ELSE IF res.streamed THEN FlattenSeq(res.events) ELSE res.body
    BY DEF AnswersDelimited
  <2>1. /\ wire = Finalize(res, req.keep) /\ res.head_only = req.head
        /\ res.body \in Seq(Nat) /\ req.head \in BOOLEAN
        /\ webroot => ~res.streamed /\ ~res.chunked
        /\ ~webroot => Composed(res, req.head)
    BY AnswerKnown
  <2>2. CASE res.streamed
    <3>1. ~req.head /\ \A k \in 1 .. Len(res.events) : res.events[k] # <<>>
      BY <2>1, <2>2 DEF ChunksForHead, Composed
    <3> QED BY <2>1, <2>2, <3>1, StreamDelimited
  <2>3. CASE ~res.streamed
    <3>1. /\ res.status \in Statuses \ {0} /\ (res.no_body => res.status \in {204, 304})
          /\ ~(res.chunked /\ req.head)
      BY <2>3, StatusKnown DEF NoEnd, ChunksForHead
    <3> QED BY <2>1, <2>3, <3>1, ChunkSizeAssumption, Delimited
  <2> QED BY <2>2, <2>3
<1> QED BY <1>1, AllInvariance, PTL

\* What goes out of a response that is not a stream.
SentType(r) ==
  IF Silent(r) \/ r.chunked THEN "" ELSE IF r.ctype = "" THEN "text/plain" ELSE r.ctype

SentPieces(r) ==
  IF Silent(r) THEN <<>>
  ELSE IF r.chunked THEN Pieces(r.body)
  ELSE IF r.head_only THEN <<>> ELSE <<r.body>>

LEMMA StreamStatus ==
  ASSUME NEW r, r.streamed, NEW keep
  PROVE  Finalize(r, keep).status = 200
<1>1. PICK length, type :
        Finalize(r, keep) = [status |-> 200, close |-> FALSE, ctype |-> type,
                             headers |-> r.begun, framing |-> "chunked",
                             length |-> length, pieces |-> r.events]
  BY Zenon DEF Finalize
<1> QED
  BY <1>1

LEMMA OnWire ==
  ASSUME NEW r, ~r.streamed, NEW keep
  PROVE  LET w == Finalize(r, keep)
         IN  w.status = r.status /\ w.ctype = SentType(r) /\ w.pieces = SentPieces(r)
<1>1. PICK close, framing, length, type, pieces :
        /\ type = SentType(r) /\ pieces = SentPieces(r)
        /\ Finalize(r, keep) = [status |-> r.status, close |-> close, ctype |-> type,
                                headers |-> r.headers, framing |-> framing,
                                length |-> length, pieces |-> pieces]
  BY Zenon DEF Finalize, SentType, SentPieces
<1> QED
  BY <1>1

(***************************************************************************)
(* On the wire two responses that agree differ at most where the last      *)
(* builder clears nothing.                                                 *)
(***************************************************************************)
Alike(r, s, w, m, head) ==
  /\ w.status = m.status
  /\ r.no_body => w.pieces = <<>>
  /\ (r.no_body => s.no_body) =>
       /\ ContentOf(w, head) = ContentOf(m, head)
       /\ w.ctype = m.ctype \/ (s.ctype = "" /\ r.ctype # "")

LEMMA SameOnWire ==
  ASSUME NEW r, Fields(r), ~r.streamed, NEW s, Fields(s), ~s.streamed, Agrees(r, s),
         NEW keep, NEW head
  PROVE  Alike(r, s, Finalize(r, keep), Finalize([s EXCEPT !.chunked = r.chunked], keep), head)
<1>1. PICK q : q = [s EXCEPT !.chunked = r.chunked]
  OBVIOUS
<1>2. /\ q.status = s.status /\ q.no_body = s.no_body /\ q.body = s.body /\ q.ctype = s.ctype
      /\ q.head_only = s.head_only /\ q.chunked = r.chunked /\ q.streamed = s.streamed
  BY <1>1 DEF Fields
<1>3. PICK w, m : w = Finalize(r, keep) /\ m = Finalize(q, keep)
  OBVIOUS
<1>4. /\ w.status = r.status /\ w.ctype = SentType(r) /\ w.pieces = SentPieces(r)
      /\ m.status = q.status /\ m.ctype = SentType(q) /\ m.pieces = SentPieces(q)
  <2>1. ~q.streamed
    BY <1>2, Zenon
  <2> QED
    BY <1>3, <2>1, OnWire, Zenon
<1>5. w.status = m.status
  BY <1>2, <1>4 DEF Agrees
<1>6. ASSUME r.no_body PROVE w.pieces = <<>>
  BY <1>4, <1>6, Zenon DEF SentPieces, Silent
<1>7. ASSUME r.no_body => s.no_body
      PROVE  w.pieces = m.pieces /\ (w.ctype = m.ctype \/ (s.ctype = "" /\ r.ctype # ""))
  <2>1. r.status = q.status /\ (r.no_body <=> q.no_body) /\ r.head_only = q.head_only
    BY <1>2, <1>7, Zenon DEF Agrees
  <2>2. Silent(r) <=> Silent(q)
    BY <2>1, Zenon DEF Silent
  <2>3. ~Silent(r) => r.body = q.body
    BY <1>2, <2>1, Zenon DEF Agrees, Silent
  <2>4. SentPieces(r) = SentPieces(q)
    BY <1>2, <2>1, <2>2, <2>3, Zenon DEF SentPieces
  <2>5. SentType(r) = SentType(q) \/ (s.ctype = "" /\ r.ctype # "")
    BY <1>2, <2>2, Zenon DEF SentType, Agrees
  <2> QED
    BY <1>4, <2>4, <2>5, Zenon
<1>8. ASSUME w.pieces = m.pieces PROVE ContentOf(w, head) = ContentOf(m, head)
  BY <1>5, <1>8, Zenon DEF ContentOf, Contentless
<1> QED
  BY <1>1, <1>3, <1>5, <1>6, <1>7, <1>8, Zenon DEF Alike

(***************************************************************************)
(* Of an answer that is not a stream the last builder called, and none     *)
(* before it, decides status, content and Content-Type, but that nothing   *)
(* brings back the body that cttp_no_content has silenced, and that        *)
(* cttp_redirect leaves a Content-Type where it finds one.                 *)
(***************************************************************************)
THEOREM LastCallDecides == Spec => []LastBuilderCounts
<1>1. AllInv => LastBuilderCounts
  <2> SUFFICES ASSUME AllInv, Answered, ~webroot, alone.responded, ~res.streamed
               PROVE  /\ wire.status = Meant.status
                      /\ StaysSilent => wire.pieces = <<>>
                      /\ ~StaysSilent =>
                           /\ ContentOf(wire, req.head) = ContentOf(Meant, req.head)
                           /\ wire.ctype = Meant.ctype \/ KeepsType
    BY DEF LastBuilderCounts
  <2>1. wire = Finalize(res, req.keep)
    BY AnswerKnown
  <2>2. /\ Fields(res) /\ Fields(alone) /\ ~alone.streamed /\ Agrees(res, alone)
        /\ res.no_body <=> emptied
    BY DEF AllInv, BuildersInv
  <2>3. Alike(res, alone, wire, Meant, req.head)
    BY <2>1, <2>2, SameOnWire, Zenon DEF Meant
  <2> QED
    BY <2>2, <2>3, Zenon DEF Alike, StaysSilent, KeepsType
<1> QED
  BY <1>1, AllInvariance, PTL

(***************************************************************************)
(* Whoever is told "304 Not Modified" holds the bytes of the file that     *)
(* static_serve looked at, or those of an earlier write of the same size   *)
(* within the same second: the one case that the tag of size and           *)
(* modification time cannot tell apart.                                    *)
(***************************************************************************)
THEOREM RevalidationIsSound == Spec => []NotModifiedIsCurrent
<1>1. AllInv => NotModifiedIsCurrent
  <2> SUFFICES ASSUME AllInv, Answered, wire.status = 304
               PROVE  cache.path = req.path /\ (cache.body = seen.file.data \/ Lookalike(seen.file))
    BY DEF NotModifiedIsCurrent
  <2>1. ~res.streamed /\ res.status = 304
    <3>1. wire = Finalize(res, req.keep)
      BY AnswerKnown
    <3>2. res.streamed => Finalize(res, req.keep).status = 200
      BY StreamStatus
    <3>3. ~res.streamed => Finalize(res, req.keep).status = res.status
      BY OnWire
    <3> QED BY <3>1, <3>2, <3>3
  <2>2. webroot
    BY <2>1 DEF AllInv, HandlerInv, Composed
  <2> QED BY <2>1, <2>2 DEF AllInv, FileInv, AnswerInv, Answered, Current, Bytes
<1> QED BY <1>1, AllInvariance, PTL

\* The range that is announced is the one that was read.
LEMMA AnnouncedIs ==
  ASSUME NEW a, NEW b, NEW c, wire.headers = {<<"Content-Range", <<a, b, c>>>>}
  PROVE  Announced = a .. b
<1> DEFINE P(h) == h \in wire.headers /\ h[1] = "Content-Range"
           line == <<"Content-Range", <<a, b, c>>>>
<1>1. P(line) /\ \A h : P(h) => h = line
  OBVIOUS
<1>2. (CHOOSE h : P(h)) = line
  <2> HIDE DEF P, line
  <2> QED BY <1>1
<1>3. (CHOOSE h \in wire.headers : h[1] = "Content-Range") = line
  <2>1. (CHOOSE h \in wire.headers : h[1] = "Content-Range") = CHOOSE h : P(h)
    OBVIOUS
  <2> HIDE DEF P, line
  <2> QED BY <1>2, <2>1
<1>4. line[2][1] = a /\ line[2][2] = b
  OBVIOUS
<1> HIDE DEF line
<1> QED BY <1>3, <1>4 DEF Announced

\* A 206 says which part of the file it is.
LEMMA PartAsAsked ==
  ASSUME StaticAssumption, AllInv, PartInv, Untouched,
         wire.headers = res.headers, res.body # <<>>
  PROVE  /\ Announced \subseteq Taken(req.range, Len(Bytes))
         /\ res.body = SubSeq(Bytes, from + 1, from + Len(res.body))
         /\ Announced = from .. from + Len(res.body) - 1
         /\ Len(data) = want => Announced = Taken(req.range, Len(Bytes))
<1>1. /\ seen.ino \in Inodes
      /\ res.headers = {<<"Content-Range", <<from, (from + Len(data) - 1) % Modulus, Len(Bytes)>>>>}
      /\ res.body = data /\ data = SubSeq(Bytes, from + 1, from + Len(data))
      /\ RangeInv
  BY DEF PartInv
<1>2. Announced = from .. (from + Len(data) - 1) % Modulus
  BY <1>1, AnnouncedIs
<1>3. /\ want \in Nat /\ data \in Seq(Nat) /\ Len(data) <= want /\ from \in Nat
      /\ Bytes \in Seq(Nat) /\ Len(Bytes) <= MaxLen
  BY <1>1 DEF AllInv, FileInv, NumbersInv, SeenInv, Snapshot, FileRec, Bytes
<1>4. PICK p \in Nat, k \in Nat, w \in Nat, t \in Nat :
        p = from /\ k = Len(data) /\ w = want /\ t = Len(Bytes) /\ k <= w /\ t <= MaxLen
  <2>1. Len(data) \in Nat /\ Len(Bytes) \in Nat
    BY <1>3
  <2> QED BY <1>3, <2>1, Zenon
<1>5. k # 0
  BY <1>1, <1>3, <1>4, EmptySeq
<1>6. want > 0 /\ p + w <= t /\ p .. p + w - 1 = Taken(req.range, Len(Bytes))
  BY <1>1, <1>4 DEF RangeInv, PartInv
<1>7. (p + k - 1) % Modulus = p + k - 1
  <2>1. Modulus \in Nat /\ MaxLen \in Nat /\ MaxLen < Modulus
    BY DEF StaticAssumption
  <2>2. p + k - 1 \in 0 .. Modulus - 1
    BY <1>4, <1>5, <1>6, <2>1
  <2> QED BY <2>1, <2>2
<1>8. Announced = p .. p + k - 1
  BY <1>2, <1>4, <1>7
<1>9. p .. p + k - 1 \subseteq p .. p + w - 1
  BY <1>4
<1> QED BY <1>1, <1>4, <1>6, <1>8, <1>9

(***************************************************************************)
(* When nobody writes the file while it is being served, a 200 carries all *)
(* of it; a 206 carries exactly the positions of it that its Content-Range *)
(* names, and is empty only if a read failed.  Those positions are such as *)
(* the request asked for by RFC 9110, and all of them when no read fell    *)
(* short, and a 416 means that none of them exists; but for "-n", which    *)
(* static.c misreads, and for a range whose end precedes its start, which  *)
(* it serves from the start on.                                            *)
(***************************************************************************)
THEOREM FilesServedAsAsked == Spec => []FileAsAsked
<1>1. AllInv => FileAsAsked
  <2> SUFFICES ASSUME AllInv, Answered, seen.ino \in Inodes, Untouched,
                      NEW expected, expected = Expected(req.range, Len(Bytes))
               PROVE  /\ wire.status = 200 => res.body = Bytes
                      /\ wire.status = 206 /\ res.body # <<>> =>
                           /\ res.body = SubSeq(Bytes, from + 1, from + Len(res.body))
                           /\ Announced = from .. from + Len(res.body) - 1
                           /\ req.range.form = "suffix" \/ Announced \subseteq expected
                           /\ req.range.form = "suffix" \/ (Len(data) = want => Announced = expected)
                      /\ wire.status = 206 /\ res.body = <<>> => ReadErrors /\ want > 0
                      /\ wire.status = 416 => expected = {} \/ req.range.form = "suffix"
    BY DEF FileAsAsked, Untouched, Bytes
  <2>1. webroot
    BY DEF AllInv, HandlerInv, Unseen, Inodes
  <2>2. wire.status = res.status /\ wire.headers = res.headers
    BY <2>1, AnswerKnown, StatusOnWire
  <2>3. /\ res.status = 200 => WholeInv
        /\ res.status = 206 => PartInv
        /\ res.status = 416 => Taken(req.range, Len(Bytes)) = {}
    BY <2>1 DEF AllInv, FileInv, AnswerInv, Answered
  <2>4. req.range.form # "suffix" => Taken(req.range, Len(Bytes)) = expected
    <3>1. req.range.a \in Nat /\ req.range.b \in Nat
      BY DEF AllInv, FileInv, RequestInv
    <3>2. Len(Bytes) \in Nat
      BY DEF AllInv, FileInv, SeenInv, Snapshot, FileRec, Bytes
    <3> QED BY <3>1, <3>2, TakenAsAsked
  <2>5. ASSUME wire.status = 206, res.body = <<>>
        PROVE  ReadErrors /\ want > 0
    BY <2>2, <2>3, <2>5 DEF PartInv, RangeInv
  <2>6. ASSUME wire.status = 206, res.body # <<>>
        PROVE  /\ Announced \subseteq Taken(req.range, Len(Bytes))
               /\ res.body = SubSeq(Bytes, from + 1, from + Len(res.body))
               /\ Announced = from .. from + Len(res.body) - 1
               /\ Len(data) = want => Announced = Taken(req.range, Len(Bytes))
    BY <2>2, <2>3, <2>6, StaticAssumption, PartAsAsked
  <2>7. wire.status = 200 => res.body = Bytes
    BY <2>2, <2>3 DEF WholeInv
  <2> QED BY <2>2, <2>3, <2>4, <2>5, <2>6, <2>7, Zenon
<1> QED BY <1>1, AllInvariance, PTL

-----------------------------------------------------------------------------
(* What a stream is read as.                                               *)

\* A line, and a text that is one.
OneLine(a) == \A k \in 1 .. Len(a) : a[k] # Newline

\* A text without lines.
LEMMA LinesOfNothing == Lines(<<>>) = <<>>
<1>1. <<>> \in Seq(Nat) /\ Len(<<>>) = 0 /\ 0 \in Nat
  BY EmptySeq
<1>2. PICK ls : Splits(ls, <<>>, 1, 0) /\ Lines(<<>>) = ls[1]
  BY <1>1, LinesIs
<1>3. 1 \in 1 .. 0 + 2 /\ 1 > 0
  OBVIOUS
<1>4. ls[1] = <<>>
  BY <1>2, <1>3, Zenon DEF Splits
<1> QED BY <1>2, <1>4

\* A text of m + r bytes ends in another of r bytes.
Ending(text, rest, m, r) ==
  Len(rest) = r /\ Len(text) = m + r /\ \A k \in 1 .. r : text[m + k] = rest[k]

\* e is the first newline from i on of a text of n bytes, or its end.
FirstBreak(text, n, i, e) ==
  /\ e \in Nat /\ i <= e /\ e <= n + 1
  /\ e <= n => text[e] = Newline
  /\ \A k \in Nat : i <= k /\ k < e => text[k] # Newline

\* There a line ends.
LEMMA LineEndFrom ==
  ASSUME NEW text \in Seq(Nat), NEW n \in Nat, Len(text) = n, NEW i \in Nat, 1 <= i, i <= n + 1
  PROVE  FirstBreak(text, n, i, LineEnd(text, i))
<1>1. i \in 1 .. Len(text) + 1
  OBVIOUS
<1>2. PICK e : e = LineEnd(text, i)
  OBVIOUS
<1>3. /\ e \in i .. n + 1
      /\ e <= n => text[e] = Newline
      /\ \A k \in i .. e - 1 : text[k] # Newline
  BY <1>1, <1>2, LineEndIs
<1>4. e \in Nat /\ i <= e /\ e <= n + 1
  BY <1>3
<1>5. ASSUME NEW k \in Nat, i <= k, k < e PROVE text[k] # Newline
  <2>1. k \in i .. e - 1
    BY <1>4, <1>5
  <2> QED BY <1>3, <2>1
<1>6. FirstBreak(text, n, i, e)
  BY <1>3, <1>4, <1>5 DEF FirstBreak
<1> QED BY <1>2, <1>6

\* A line ends where it ends in the rest of the text that it stands in.
LEMMA SameLineEnd ==
  ASSUME NEW text \in Seq(Nat), NEW rest \in Seq(Nat), NEW m \in Nat, NEW r \in Nat,
         Ending(text, rest, m, r), NEW j \in Nat, 1 <= j, j <= r
  PROVE  LineEnd(text, m + j) = m + LineEnd(rest, j)
<1>1. PICK i \in Nat, n \in Nat :
        i = m + j /\ n = m + r /\ 1 <= i /\ i <= n + 1 /\ j <= r + 1
  OBVIOUS
<1>2. Len(rest) = r /\ Len(text) = n
  BY <1>1 DEF Ending
<1>3. PICK e : e = LineEnd(text, i) /\ FirstBreak(text, n, i, e)
  BY <1>1, <1>2, LineEndFrom
<1>4. PICK f : f = LineEnd(rest, j) /\ FirstBreak(rest, r, j, f)
  BY <1>1, <1>2, LineEndFrom
<1>5. e \in Nat /\ i <= e /\ e <= n + 1 /\ f \in Nat /\ j <= f /\ f <= r + 1
  BY <1>3, <1>4 DEF FirstBreak
<1>6. ASSUME NEW k \in Nat, 1 <= k, k <= r PROVE text[m + k] = rest[k]
  <2>1. k \in 1 .. r
    BY <1>6
  <2> QED BY <2>1 DEF Ending
<1>7. CASE e < m + f
  <2>1. PICK k \in Nat : m + k = e /\ j <= k /\ k < f /\ 1 <= k /\ k <= r /\ e <= n
    <3>1. e - m \in Nat
      BY <1>1, <1>5
    <3>2. m + (e - m) = e /\ j <= e - m /\ e - m < f /\ 1 <= e - m /\ e - m <= r /\ e <= n
      BY <1>1, <1>5, <1>7
    <3> QED BY <3>1, <3>2
  <2>2. text[e] = Newline
    BY <1>3, <2>1 DEF FirstBreak
  <2>3. rest[k] # Newline
    BY <1>4, <2>1 DEF FirstBreak
  <2>4. text[m + k] = rest[k]
    BY <1>6, <2>1
  <2> QED BY <2>1, <2>2, <2>3, <2>4
<1>8. CASE m + f < e
  <2>1. PICK k \in Nat : m + f = k /\ i <= k /\ k < e /\ 1 <= f /\ f <= r
    BY <1>1, <1>5, <1>8
  <2>2. text[k] # Newline
    BY <1>3, <2>1 DEF FirstBreak
  <2>3. rest[f] = Newline
    BY <1>4, <2>1 DEF FirstBreak
  <2>4. text[m + f] = rest[f]
    BY <1>5, <1>6, <2>1
  <2> QED BY <2>1, <2>2, <2>3, <2>4
<1>9. e = m + f \/ e < m + f \/ m + f < e
  BY <1>5
<1>10. CASE e = m + f
  BY <1>1, <1>3, <1>4, <1>10
<1> QED BY <1>7, <1>8, <1>9, <1>10

\* The line that begins at i and ends before e, and that from j to f.
SameBytes(text, i, e, other, j, f) == SubSeq(text, i, e - 1) = SubSeq(other, j, f - 1)

\* The line itself is the same.
LEMMA SameLine ==
  ASSUME NEW text \in Seq(Nat), NEW rest \in Seq(Nat), NEW m \in Nat, NEW r \in Nat,
         Ending(text, rest, m, r), NEW j \in Nat, 1 <= j, NEW e \in Nat, j <= e, e <= r + 1,
         NEW lo \in Nat, lo = m + j, NEW f \in Nat, f = m + e
  PROVE  SameBytes(text, lo, f, rest, j, e)
<1> DEFINE hi   == f - 1
           last == e - 1
           n    == e - j
           x    == SubSeq(text, lo, hi)
           y    == SubSeq(rest, j, last)
<1>1. /\ lo \in Int /\ hi \in Int /\ last \in Int /\ j \in Int /\ n \in Nat
      /\ n = 0 => hi < lo /\ last < j
      /\ n # 0 => lo <= hi /\ j <= last
      /\ hi - lo + 1 = n /\ last - j + 1 = n /\ last <= r /\ hi <= m + r /\ 1 <= lo
  OBVIOUS
<1>2. CASE n = 0
  <2> HIDE DEF hi, last, n
  <2>1. x = <<>> /\ y = <<>>
    BY <1>1, <1>2, SubSeqEmpty
  <2> QED BY <2>1 DEF hi, last, SameBytes
<1>3. CASE n # 0
  <2>1. ASSUME NEW k \in lo .. hi PROVE text[k] \in Nat
    <3>1. k \in 1 .. Len(text)
      BY <1>1, <2>1 DEF Ending
    <3> QED BY <3>1
  <2>2. ASSUME NEW k \in j .. last PROVE rest[k] \in Nat
    <3>1. k \in 1 .. Len(rest)
      BY <1>1, <2>2 DEF Ending
    <3> QED BY <3>1
  <2>3. ASSUME NEW k \in 1 .. n PROVE text[lo + k - 1] = rest[j + k - 1]
    <3>1. j + k - 1 \in 1 .. r /\ m + (j + k - 1) = lo + k - 1
      BY <1>1, <2>3
    <3> QED BY <3>1 DEF Ending
  <2> HIDE DEF hi, last, n
  <2>4. x \in Seq(Nat) /\ Len(x) = n /\ \A k \in 1 .. n : x[k] = text[lo + k - 1]
    <3>1. /\ x \in Seq(Nat) /\ Len(x) = IF lo <= hi THEN hi - lo + 1 ELSE 0
          /\ \A k \in 1 .. hi - lo + 1 : x[k] = text[lo + k - 1]
      BY <1>1, <2>1, SubSeqProperties
    <3> QED BY <1>1, <1>3, <3>1
  <2>5. y \in Seq(Nat) /\ Len(y) = n /\ \A k \in 1 .. n : y[k] = rest[j + k - 1]
    <3>1. /\ y \in Seq(Nat) /\ Len(y) = IF j <= last THEN last - j + 1 ELSE 0
          /\ \A k \in 1 .. last - j + 1 : y[k] = rest[j + k - 1]
      BY <1>1, <2>2, SubSeqProperties
    <3> QED BY <1>1, <1>3, <3>1
  <2> HIDE DEF x, y
  <2>6. Len(x) = Len(y) /\ \A k \in 1 .. Len(x) : x[k] = y[k]
    BY <2>3, <2>4, <2>5
  <2>7. x = y
    BY <2>4, <2>5, <2>6, SeqEqual
  <2> QED BY <2>7 DEF x, y, hi, last, SameBytes
<1> QED BY <1>2, <1>3

\* The lines of a text from some position on are those of the rest.
LEMMA LinesAlike ==
  ASSUME NEW text \in Seq(Nat), NEW rest \in Seq(Nat), NEW m \in Nat, NEW r \in Nat,
         Ending(text, rest, m, r),
         NEW ls, Splits(ls, text, 1, m + r), NEW lr, Splits(lr, rest, 1, r)
  PROVE  ls[m + 1] = lr[1]
<1>0. /\ \A k \in 1 .. m + r + 2 :
           ls[k] = IF k > m + r THEN <<>>
                   ELSE <<SubSeq(text, k, LineEnd(text, k) - 1)>> \o ls[LineEnd(text, k) + 1]
      /\ \A k \in 1 .. r + 2 :
           lr[k] = IF k > r THEN <<>>
                   ELSE <<SubSeq(rest, k, LineEnd(rest, k) - 1)>> \o lr[LineEnd(rest, k) + 1]
  BY Zenon DEF Splits
<1> DEFINE Bad == {k \in 1 .. r + 2 : ls[m + k] # lr[k]}
<1>1. CASE Bad = {}
  <2>1. 1 \in 1 .. r + 2
    OBVIOUS
  <2> QED BY <1>1, <2>1, Zenon
<1>2. CASE Bad # {}
  <2>1. \E j \in Bad : \A k \in Bad : k <= j
    <3>1. Bad \in SUBSET (1 .. r + 2) /\ r + 2 \in Nat
      OBVIOUS
    <3> HIDE DEF Bad
    <3> QED BY <1>2, <3>1, GreatestNumber
  <2>2. PICK j \in 1 .. r + 2 : ls[m + j] # lr[j] /\ \A k \in Bad : k <= j
    BY <2>1, Zenon
  <2>3. j \in Nat /\ 1 <= j /\ j <= r + 2 /\ m + j \in 1 .. m + r + 2 /\ (m + j > m + r <=> j > r)
    BY <2>2
  <2>4. CASE j > r
    BY <1>0, <2>2, <2>3, <2>4, Zenon
  <2>5. CASE ~(j > r)
    <3>1. j <= r /\ j <= r + 1
      BY <2>3, <2>5
    <3>2. PICK e \in Nat : e = LineEnd(rest, j) /\ j <= e /\ e <= r + 1
      <4>1. Len(rest) = r
        BY DEF Ending
      <4>2. FirstBreak(rest, r, j, LineEnd(rest, j))
        BY <2>3, <3>1, <4>1, LineEndFrom
      <4> QED BY <4>2 DEF FirstBreak
    <3>3. PICK i \in Nat, f \in Nat : i = m + j /\ f = m + e
      BY <2>3
    <3>4. LineEnd(text, i) = f
      BY <2>3, <3>1, <3>2, <3>3, SameLineEnd
    <3>5. i \in 1 .. m + r + 2 /\ ~(i > m + r) /\ e + 1 \in 1 .. r + 2 /\ ~(e + 1 <= j)
          /\ m + (e + 1) = f + 1
      BY <2>3, <2>5, <3>2, <3>3
    <3>6. lr[j] = <<SubSeq(rest, j, e - 1)>> \o lr[e + 1]
      BY <1>0, <2>2, <2>5, <3>2, Zenon
    <3>7. ls[i] = <<SubSeq(text, i, f - 1)>> \o ls[f + 1]
      BY <1>0, <3>4, <3>5, Zenon
    <3>8. ls[f + 1] = lr[e + 1]
      <4>1. e + 1 \notin Bad
        BY <2>2, <3>5, Zenon
      <4>2. ls[m + (e + 1)] = lr[e + 1]
        BY <3>5, <4>1, Zenon
      <4> QED BY <3>5, <4>2, Zenon
    <3>9. SubSeq(text, i, f - 1) = SubSeq(rest, j, e - 1)
      <4>1. j \in Nat /\ 1 <= j /\ j <= e /\ e <= r + 1
        BY <2>3, <3>2
      <4>2. SameBytes(text, i, f, rest, j, e)
        BY <3>3, <4>1, SameLine
      <4> QED BY <4>2, Zenon DEF SameBytes
    <3>10. ls[i] = lr[j]
      BY <3>6, <3>7, <3>8, <3>9, Zenon
    <3> QED BY <2>2, <3>3, <3>10
  <2> QED BY <2>4, <2>5
<1> QED BY <1>1, <1>2

\* One that stands in front of another in a text.
InFront(pre, m, rest, r, text) ==
  /\ text \in Seq(Nat) /\ Ending(text, rest, m, r)
  /\ \A k \in Nat : 1 <= k /\ k <= m => text[k] = pre[k]

\* A text and another behind it.
LEMMA Behind ==
  ASSUME NEW pre \in Seq(Nat), NEW rest \in Seq(Nat), NEW m \in Nat, m = Len(pre),
         NEW r \in Nat, r = Len(rest), NEW text, text = pre \o rest
  PROVE  InFront(pre, m, rest, r, text)
<1>1. /\ text \in Seq(Nat) /\ Len(text) = m + r
      /\ \A k \in 1 .. m + r : text[k] = IF k <= m THEN pre[k] ELSE rest[k - m]
  BY ConcatProperties
<1>2. ASSUME NEW k \in 1 .. r PROVE text[m + k] = rest[k]
  <2>1. m + k \in 1 .. m + r /\ ~(m + k <= m) /\ (m + k) - m = k
    OBVIOUS
  <2> QED BY <1>1, <2>1
<1>3. ASSUME NEW k \in Nat, 1 <= k, k <= m PROVE text[k] = pre[k]
  <2>1. k \in 1 .. m + r
    BY <1>3
  <2> QED BY <1>1, <1>3, <2>1
<1> QED BY <1>1, <1>2, <1>3 DEF Ending, InFront

\* A newline, as a text.
LEMMA Break == <<Newline>> \in Seq(Nat) /\ Len(<<Newline>>) = 1 /\ <<Newline>>[1] = Newline
<1>1. Newline \in Nat
  BY DEF Newline
<1> QED BY <1>1

\* The first line of a text that has a newline, and the lines behind it.
LEMMA FirstLine ==
  ASSUME NEW a \in Seq(Nat), OneLine(a), NEW rest \in Seq(Nat)
  PROVE  /\ a \o (<<Newline>> \o rest) \in Seq(Nat)
         /\ Lines(a \o (<<Newline>> \o rest)) = <<a>> \o Lines(rest)
<1>1. PICK m \in Nat, r \in Nat : m = Len(a) /\ r = Len(rest)
  OBVIOUS
<1>2. PICK nl \in Seq(Nat) : nl = <<Newline>> /\ Len(nl) = 1 /\ nl[1] = Newline
  BY Break, Zenon
<1>3. PICK pre, behind, text :
        pre = a \o nl /\ behind = nl \o rest /\ text = a \o behind
  OBVIOUS
<1>4. text = pre \o rest
  <2>1. (a \o nl) \o rest = a \o (nl \o rest)
    BY ConcatAssociative, SMTT(30)
  <2> QED BY <1>3, <2>1, Zenon
<1>5. PICK q \in Nat, n \in Nat : q = m + 1 /\ n = q + r
  OBVIOUS
<1>6. /\ pre \in Seq(Nat) /\ Len(pre) = q /\ pre[q] = Newline
      /\ \A k \in Nat : 1 <= k /\ k <= m => pre[k] = a[k]
  <2>1. InFront(a, m, nl, 1, pre)
    BY <1>1, <1>2, <1>3, Behind
  <2>2. 1 \in 1 .. 1
    OBVIOUS
  <2> QED BY <1>2, <1>5, <2>1, <2>2 DEF Ending, InFront
<1>7. /\ text \in Seq(Nat) /\ Ending(text, rest, q, r)
      /\ \A k \in Nat : 1 <= k /\ k <= q => text[k] = pre[k]
  <2>1. InFront(pre, q, rest, r, text)
    BY <1>1, <1>4, <1>5, <1>6, Behind
  <2> QED BY <2>1 DEF InFront
<1>8. Len(text) = n
  BY <1>5, <1>7 DEF Ending
<1>9. 1 <= q /\ q <= n /\ q - 1 = m /\ 1 \in 1 .. n + 2 /\ ~(1 > n)
  BY <1>5
<1>10. LineEnd(text, 1) = q
  <2>1. FirstBreak(text, n, 1, LineEnd(text, 1))
    <3>1. 1 \in Nat /\ 1 <= 1 /\ 1 <= n + 1
      OBVIOUS
    <3> QED BY <1>7, <1>8, <3>1, LineEndFrom
  <2>2. PICK e : e = LineEnd(text, 1) /\ FirstBreak(text, n, 1, e)
    BY <2>1
  <2>3. e \in Nat /\ 1 <= e /\ e <= n + 1
    BY <2>2 DEF FirstBreak
  <2>4. CASE q < e
    <3>1. text[q] = Newline
      BY <1>6, <1>7, <1>9
    <3> QED BY <1>9, <2>2, <2>4, <3>1 DEF FirstBreak
  <2>5. CASE e < q
    <3>1. e <= m /\ e <= n /\ e \in 1 .. m
      BY <1>5, <2>3, <2>5
    <3>2. a[e] # Newline
      BY <1>1, <3>1 DEF OneLine
    <3>3. text[e] = a[e]
      BY <1>6, <1>7, <2>3, <2>5, <3>1
    <3>4. text[e] = Newline
      BY <2>2, <3>1 DEF FirstBreak
    <3> QED BY <3>2, <3>3, <3>4
  <2> QED BY <2>2, <2>3, <2>4, <2>5
<1>11. SubSeq(text, 1, m) = a
  <2>1. CASE m = 0
    <3>1. a = <<>>
      BY <1>1, <2>1, EmptySeq
    <3>2. SubSeq(text, 1, m) = <<>>
      BY <2>1, SubSeqEmpty
    <3> QED BY <3>1, <3>2
  <2>2. CASE m # 0
    <3>1. 1 \in 1 .. Len(a) /\ m \in 1 .. Len(a)
      BY <1>1, <2>2
    <3>2. behind \in Seq(Nat)
      BY <1>2, <1>3, ConcatProperties
    <3>3. SubSeq(a \o behind, 1, m) = SubSeq(a, 1, m)
      BY <3>1, <3>2, SubSeqOfConcat1
    <3>4. SubSeq(a, 1, m) = a
      BY <1>1, SubSeqFull
    <3> QED BY <1>3, <3>3, <3>4, Zenon
  <2> QED BY <2>1, <2>2
<1>12. PICK ls : Splits(ls, text, 1, n) /\ Lines(text) = ls[1]
  BY <1>7, <1>8, LinesIs
<1>13. PICK lr : Splits(lr, rest, 1, r) /\ Lines(rest) = lr[1]
  BY <1>1, LinesIs
<1>14. ls[q + 1] = Lines(rest)
  BY <1>5, <1>7, <1>12, <1>13, LinesAlike
<1>15. ls[1] = <<SubSeq(text, 1, q - 1)>> \o ls[q + 1]
  <2>1. ls[1] = <<SubSeq(text, 1, LineEnd(text, 1) - 1)>> \o ls[LineEnd(text, 1) + 1]
    BY <1>9, <1>12, Zenon DEF Splits
  <2> QED BY <1>10, <2>1, Zenon
<1>16. Lines(text) = <<a>> \o Lines(rest)
  <2>1. SubSeq(text, 1, q - 1) = a
    BY <1>9, <1>11, Zenon
  <2> QED BY <1>12, <1>14, <1>15, <2>1, Zenon
<1>17. text = a \o (<<Newline>> \o rest)
  BY <1>2, <1>3, Zenon
<1> QED BY <1>7, <1>16, <1>17, Zenon

\* A text without newlines is a line, if it is not empty.
LEMMA OnlyLine ==
  ASSUME NEW d \in Seq(Nat), d # <<>>, OneLine(d)
  PROVE  Lines(d) = <<d>>
<1>1. PICK n \in Nat \ {0} : n = Len(d)
  BY EmptySeq
<1>2. 1 \in Nat /\ 1 <= 1 /\ 1 <= n + 1 /\ 1 \in 1 .. n + 2 /\ ~(1 > n)
  OBVIOUS
<1>3. PICK e : e = LineEnd(d, 1) /\ FirstBreak(d, n, 1, e)
  <2>1. FirstBreak(d, n, 1, LineEnd(d, 1))
    BY <1>1, <1>2, LineEndFrom
  <2> QED BY <2>1
<1>4. e \in Nat /\ 1 <= e /\ e <= n + 1
  BY <1>3 DEF FirstBreak
<1>5. e = n + 1
  <2>1. CASE e <= n
    <3>1. e \in 1 .. Len(d)
      BY <1>1, <1>4, <2>1
    <3>2. d[e] # Newline
      BY <3>1 DEF OneLine
    <3> QED BY <1>3, <2>1, <3>2 DEF FirstBreak
  <2> QED BY <1>4, <2>1
<1>6. e - 1 = n /\ e + 1 \in 1 .. n + 2 /\ e + 1 > n
  BY <1>5
<1>7. PICK ls : Splits(ls, d, 1, n) /\ Lines(d) = ls[1]
  BY <1>1, LinesIs
<1>8. ls[e + 1] = <<>>
  BY <1>6, <1>7, Zenon DEF Splits
<1>9. ls[1] = <<SubSeq(d, 1, LineEnd(d, 1) - 1)>> \o ls[LineEnd(d, 1) + 1]
  BY <1>2, <1>7, Zenon DEF Splits
<1>10. ls[1] = <<SubSeq(d, 1, n)>> \o <<>>
  BY <1>3, <1>6, <1>8, <1>9, Zenon
<1>11. SubSeq(d, 1, n) = d
  BY <1>1, SubSeqFull
<1>12. <<d>> \o <<>> = <<d>>
  OBVIOUS
<1> QED BY <1>7, <1>10, <1>11, <1>12

\* A text with a newline is a line, the newline and more.
LEMMA CutLine ==
  ASSUME NEW d \in Seq(Nat), ~OneLine(d)
  PROVE  \E a \in Seq(Nat), rest \in Seq(Nat) :
           OneLine(a) /\ Len(rest) < Len(d) /\ d = a \o (<<Newline>> \o rest)
<1>1. PICK n \in Nat : n = Len(d)
  OBVIOUS
<1>2. PICK e : e = LineEnd(d, 1) /\ FirstBreak(d, n, 1, e)
  <2>1. 1 \in Nat /\ 1 <= 1 /\ 1 <= n + 1
    OBVIOUS
  <2>2. FirstBreak(d, n, 1, LineEnd(d, 1))
    BY <1>1, <2>1, LineEndFrom
  <2> QED BY <2>2
<1>3. e \in 1 .. n /\ d[e] = Newline
  <2>1. PICK k \in 1 .. n : d[k] = Newline
    BY <1>1 DEF OneLine
  <2>2. e \in Nat /\ 1 <= e /\ e <= n + 1
    BY <1>2 DEF FirstBreak
  <2>3. ~(k < e)
    BY <1>2, <2>1 DEF FirstBreak
  <2>4. e <= n
    BY <2>1, <2>2, <2>3
  <2> QED BY <1>2, <2>2, <2>4 DEF FirstBreak
<1> DEFINE m == e - 1
           a == SubSeq(d, 1, m)
           rest == SubSeq(d, e + 1, n)
<1>4. m = e - 1 /\ m \in Nat /\ m <= n /\ a = SubSeq(d, 1, m) /\ rest = SubSeq(d, e + 1, n)
  BY <1>3
<1> HIDE DEF m, a, rest
<1>5. a \in Seq(Nat) /\ Len(a) = m /\ \A k \in 1 .. m : a[k] = d[k]
  <2>1. ASSUME NEW k \in 1 .. m PROVE d[k] \in Nat
    <3>1. k \in 1 .. Len(d)
      BY <1>1, <1>3, <1>4
    <3> QED BY <3>1
  <2>2. 1 \in Int /\ m \in Int
    BY <1>4
  <2>3. /\ a \in Seq(Nat) /\ Len(a) = IF 1 <= m THEN m - 1 + 1 ELSE 0
        /\ \A k \in 1 .. m - 1 + 1 : a[k] = d[1 + k - 1]
    BY <1>4, <2>1, <2>2, SubSeqProperties
  <2> QED BY <1>4, <2>3
<1>6. rest \in Seq(Nat) /\ Len(rest) = n - e
  <2>1. ASSUME NEW k \in e + 1 .. n PROVE d[k] \in Nat
    <3>1. k \in 1 .. Len(d)
      BY <1>1, <1>3
    <3> QED BY <3>1
  <2>2. e + 1 \in Int /\ n \in Int
    BY <1>3
  <2>3. rest \in Seq(Nat) /\ Len(rest) = IF e + 1 <= n THEN n - (e + 1) + 1 ELSE 0
    BY <1>4, <2>1, <2>2, SubSeqProperties
  <2> QED BY <1>3, <2>3
<1>7. OneLine(a)
  <2>1. ASSUME NEW k \in 1 .. m PROVE a[k] # Newline
    <3>1. k \in Nat /\ 1 <= k /\ k < e
      BY <1>3, <1>4
    <3>2. d[k] # Newline
      BY <1>2, <3>1 DEF FirstBreak
    <3> QED BY <1>5, <3>2
  <2> QED BY <1>5, <2>1 DEF OneLine
<1>8. Len(rest) < Len(d)
  BY <1>1, <1>3, <1>6
<1>9. d = a \o (<<Newline>> \o rest)
  <2>1. SubSeq(d, e, n) = <<d[e]>> \o rest
    <3>1. e \in 1 .. Len(d) /\ n \in e .. Len(d)
      BY <1>1, <1>3
    <3> QED BY <1>4, <3>1, SubSeqRecursiveFirst
  <2>2. a \o SubSeq(d, e, n) = SubSeq(d, 1, n)
    <3>1. /\ 1 \in 1 .. Len(d) + 1 /\ m \in 1 - 1 .. Len(d) /\ n \in m .. Len(d) /\ m + 1 = e
      BY <1>1, <1>3, <1>4
    <3>2. SubSeq(d, 1, m) \o SubSeq(d, m + 1, n) = SubSeq(d, 1, n)
      BY <3>1, ConcatAdjacentSubSeq
    <3> QED BY <1>4, <3>1, <3>2, Zenon
  <2>3. SubSeq(d, 1, n) = d
    BY <1>1, SubSeqFull
  <2> QED BY <1>3, <2>1, <2>2, <2>3, Zenon
<1> QED BY <1>5, <1>6, <1>7, <1>8, <1>9

\* It does not matter which of three sequences are put together first.
AnyJoin(S) == \A x, y, z \in Seq(S) : (x \o y) \o z = x \o (y \o z)

LEMMA SeqsJoin ==
  ASSUME NEW S
  PROVE  AnyJoin(S)
<1> SUFFICES ASSUME NEW x \in Seq(S), NEW y \in Seq(S), NEW z \in Seq(S)
             PROVE  (x \o y) \o z = x \o (y \o z)
  BY Zenon DEF AnyJoin
<1> QED BY ConcatAssociative, SMTT(60)

\* What is joined of sequences is one.
LEMMA JoinsType ==
  ASSUME NEW S, NEW n \in Nat, NEW s, \A k \in 1 .. n : s[k] \in Seq(S),
         NEW g, Joins(g, s, n)
  PROVE  \A k \in 1 .. n : g[k] \in Seq(S)
<1> DEFINE Bad == {k \in 1 .. n : g[k] \notin Seq(S)}
<1>1. CASE Bad = {}
  BY <1>1, Zenon
<1>2. CASE Bad # {}
  <2>1. PICK m \in Bad : \A i \in Bad : m <= i
    <3>1. Bad \in SUBSET Nat
      OBVIOUS
    <3> HIDE DEF Bad
    <3> QED BY <1>2, <3>1, LeastNumber
  <2>2. m \in 1 .. n /\ g[m] \notin Seq(S) /\ s[m] \in Seq(S)
    BY <2>1, Zenon
  <2>3. g[m] = IF m = 1 THEN s[m] ELSE g[m - 1] \o s[m]
    BY <2>2, Zenon DEF Joins
  <2>4. m # 1
    BY <2>2, <2>3, Zenon
  <2>5. m - 1 \in 1 .. n /\ ~(m <= m - 1)
    BY <2>2, <2>4
  <2>6. g[m - 1] \in Seq(S)
    BY <2>1, <2>5, Zenon
  <2>7. g[m - 1] \o s[m] \in Seq(S)
    BY <2>2, <2>6, ConcatProperties
  <2> QED BY <2>2, <2>3, <2>4, <2>7, Zenon
<1> QED BY <1>1, <1>2

\* t holds what s holds behind its first element.
RestOf(t, s, n) == Len(s) = n + 1 /\ Len(t) = n /\ \A k \in 1 .. n : t[k] = s[k + 1]

\* The first sequence, and the rest of them joined.
LEMMA FlattenFirst ==
  ASSUME NEW S, NEW n \in Nat, NEW s \in Seq(Seq(S)), NEW t \in Seq(Seq(S)),
         RestOf(t, s, n)
  PROVE  FlattenSeq(s) = s[1] \o FlattenSeq(t)
<1>0. /\ n + 1 \in Nat \ {0} /\ 1 \in 1 .. n + 1
      /\ \A k \in 1 .. n + 1 : s[k] \in Seq(S)
      /\ \A k \in 1 .. n : t[k] \in Seq(S)
      /\ Len(s) = n + 1 /\ Len(t) = n
  <2>1. Len(s) = n + 1 /\ Len(t) = n
    BY DEF RestOf
  <2> QED BY <2>1
<1>1. CASE n = 0
  <2>1. t = <<>> /\ Len(<<>>) = 0
    BY <1>0, <1>1, EmptySeq
  <2>2. FlattenSeq(t) = <<>>
    BY <2>1, Zenon DEF FlattenSeq
  <2>3. PICK g : Joins(g, s, n + 1)
    BY <1>0, JoinsExists
  <2>4. FlattenSeq(s) = g[n + 1]
    BY <1>0, <2>3, FlattenIs
  <2>5. g[n + 1] = s[1] /\ s[1] \in Seq(S)
    <3>1. g[1] = s[1]
      BY <1>0, <2>3, Zenon DEF Joins
    <3> QED BY <1>0, <1>1, <3>1
  <2>6. s[1] \o <<>> = s[1]
    BY <2>5, ConcatEmptySeq
  <2> QED BY <2>2, <2>4, <2>5, <2>6, Zenon
<1>2. CASE n # 0
  <2>1. PICK h : Joins(h, t, n)
    BY <1>2, JoinsExists
  <2>2. FlattenSeq(t) = h[n]
    BY <1>0, <1>2, <2>1, FlattenIs
  <2>3. \A k \in 1 .. n : h[k] \in Seq(S)
    BY <1>0, <2>1, JoinsType
  <2>4. \A k \in 1 .. n : h[k] = IF k = 1 THEN t[k] ELSE h[k - 1] \o t[k]
    BY <2>1, Zenon DEF Joins
  <2> DEFINE G(k) == IF k = 1 THEN s[1] ELSE s[1] \o h[k - 1]
             g == [k \in 1 .. n + 1 |-> G(k)]
  <2>5. g = [k \in 1 .. n + 1 |-> g[k]] /\ \A k \in 1 .. n + 1 : g[k] = G(k)
    <3> HIDE DEF G
    <3> QED OBVIOUS
  <2> HIDE DEF g
  <2>6. ASSUME NEW k \in 1 .. n + 1
        PROVE  g[k] = IF k = 1 THEN s[k] ELSE g[k - 1] \o s[k]
    <3>1. CASE k = 1
      BY <2>5, <3>1, Zenon
    <3>2. CASE k # 1
      <4> DEFINE j == k - 1
      <4>1. j \in 1 .. n /\ j \in 1 .. n + 1 /\ k = j + 1 /\ j = k - 1
        BY <3>2
      <4> HIDE DEF j
      <4>2. g[k] = s[1] \o h[j] /\ t[j] = s[k] /\ j \in 1 .. n + 1
        <5>1. g[k] = s[1] \o h[j]
          BY <2>5, <3>2, <4>1, Zenon
        <5>2. t[j] = s[k]
          BY <4>1, Zenon DEF RestOf
        <5> QED BY <4>1, <5>1, <5>2
      <4>3. CASE j = 1
        <5>1. h[j] = t[j] /\ g[j] = s[1]
          BY <2>4, <2>5, <4>1, <4>2, <4>3, Zenon
        <5> QED BY <3>2, <4>1, <4>2, <5>1, Zenon
      <4>4. CASE j # 1
        <5>1. j - 1 \in 1 .. n
          BY <4>1, <4>4
        <5>2. h[j] = h[j - 1] \o t[j] /\ g[j] = s[1] \o h[j - 1]
          BY <2>4, <2>5, <4>1, <4>2, <4>4, Zenon
        <5>3. s[1] \in Seq(S) /\ h[j - 1] \in Seq(S) /\ t[j] \in Seq(S)
          BY <1>0, <2>3, <4>1, <5>1, Zenon
        <5>4. AnyJoin(S)
          BY SeqsJoin, Zenon
        <5>5. (s[1] \o h[j - 1]) \o t[j] = s[1] \o (h[j - 1] \o t[j])
          BY <5>3, <5>4, Zenon DEF AnyJoin
        <5> QED BY <3>2, <4>1, <4>2, <5>2, <5>5, Zenon
      <4> QED BY <4>3, <4>4
    <3> QED BY <3>1, <3>2
  <2>7. Joins(g, s, n + 1)
    BY <2>5, <2>6, Zenon DEF Joins
  <2>8. FlattenSeq(s) = g[n + 1]
    BY <1>0, <2>7, FlattenIs
  <2>9. g[n + 1] = s[1] \o h[n]
    <3>1. PICK q \in 1 .. n + 1 : q = n + 1 /\ q # 1 /\ q - 1 = n
      BY <1>2
    <3>2. g[q] = s[1] \o h[q - 1]
      BY <2>5, <3>1, Zenon
    <3>3. g[q] = s[1] \o h[n]
      BY <3>1, <3>2, Zenon
    <3> QED BY <3>1, <3>3, Zenon
  <2> QED BY <2>2, <2>8, <2>9, Zenon
<1> QED BY <1>1, <1>2

\* Joining nothing.
LEMMA FlattenNone == FlattenSeq(<<>>) = <<>>
<1>1. Len(<<>>) = 0
  BY EmptySeq
<1> QED BY <1>1, Zenon DEF FlattenSeq

-----------------------------------------------------------------------------
(* The lines of an event.                                                  *)

\* Lines as cttp_sse_send writes them.
Marked(ls) == [k \in DOMAIN ls |-> <<DataField>> \o ls[k] \o <<Newline>>]

\* An event but for the empty line that ends it.
Block(text) == FlattenSeq(Marked(Lines(text)))

\* A line, marked.
LEMMA MarkedLine ==
  ASSUME NEW a \in Seq(Nat)
  PROVE  /\ <<DataField>> \o a \in Seq(Nat) /\ <<DataField>> \o a # <<>>
         /\ Tail(<<DataField>> \o a) = a /\ (<<DataField>> \o a)[1] = DataField
         /\ OneLine(a) => OneLine(<<DataField>> \o a)
         /\ <<DataField>> \o a \o <<Newline>> \in Seq(Nat)
<1>1. PICK f \in Seq(Nat) : f = <<DataField>> /\ Len(f) = 1 /\ f[1] = DataField
  <2>1. DataField \in Nat
    BY DEF DataField
  <2>2. <<DataField>> \in Seq(Nat) /\ Len(<<DataField>>) = 1 /\ <<DataField>>[1] = DataField
    BY <2>1
  <2> QED BY <2>2
<1>2. PICK n \in Nat, l \in Seq(Nat) : n = Len(a) /\ l = f \o a
  <2>1. f \o a \in Seq(Nat) /\ Len(a) \in Nat
    BY ConcatProperties
  <2> QED BY <2>1
<1>3. InFront(f, 1, a, n, l)
  BY <1>1, <1>2, Behind
<1>4. Len(l) = n + 1 /\ (\A k \in 1 .. n : l[1 + k] = a[k]) /\ l[1] = DataField
  BY <1>1, <1>3 DEF InFront, Ending
<1>5. l # <<>>
  <2>1. Len(l) # 0
    BY <1>4
  <2> QED BY <2>1, EmptySeq
<1>6. Tail(l) = a
  <2>1. PICK t : t = Tail(l)
    OBVIOUS
  <2>4. t \in Seq(Nat) /\ Len(t) = Len(l) - 1 /\ \A k \in 1 .. Len(t) : t[k] = l[k + 1]
    BY <1>5, <2>1, HeadTailProperties
  <2>2. Len(t) = Len(a) /\ \A k \in 1 .. Len(t) : t[k] = a[k]
    <3>1. Len(t) = n
      BY <1>4, <2>4
    <3>2. ASSUME NEW k \in 1 .. n PROVE t[k] = a[k]
      BY <1>4, <2>4, <3>1
    <3> QED BY <1>2, <3>1, <3>2
  <2>3. t = a
    BY <2>2, <2>4, SeqEqual
  <2> QED BY <2>1, <2>3
<1>7. ASSUME OneLine(a) PROVE OneLine(l)
  <2>1. ASSUME NEW k \in 1 .. n + 1 PROVE l[k] # Newline
    <3>1. CASE k = 1
      BY <1>4, <3>1 DEF DataField, Newline
    <3>2. CASE k # 1
      <4>1. k - 1 \in 1 .. n /\ 1 + (k - 1) = k
        BY <3>2
      <4>2. l[k] = a[k - 1] /\ a[k - 1] # Newline
        BY <1>2, <1>4, <1>7, <4>1 DEF OneLine
      <4> QED BY <4>2
    <3> QED BY <3>1, <3>2
  <2> QED BY <1>4, <2>1 DEF OneLine
<1>8. l \o <<Newline>> \in Seq(Nat)
  BY Break, ConcatProperties
<1> QED BY <1>1, <1>2, <1>4, <1>5, <1>6, <1>7, <1>8

\* Marked lines.
LEMMA MarkedIs ==
  ASSUME NEW ls \in Seq(Seq(Nat)), NEW n \in Nat, n = Len(ls)
  PROVE  /\ Marked(ls) \in Seq(Seq(Nat)) /\ Len(Marked(ls)) = n
         /\ \A k \in 1 .. n : Marked(ls)[k] = <<DataField>> \o ls[k] \o <<Newline>>
<1> DEFINE M(k) == <<DataField>> \o ls[k] \o <<Newline>>
<1>1. \A k \in 1 .. n : M(k) \in Seq(Nat)
  BY MarkedLine
<1>2. Marked(ls) = [k \in 1 .. n |-> M(k)]
  BY DEF Marked
<1> HIDE DEF M
<1>3. /\ Marked(ls) \in Seq(Seq(Nat)) /\ Len(Marked(ls)) = n
      /\ \A k \in 1 .. n : Marked(ls)[k] = M(k)
  BY <1>1, <1>2
<1> QED BY <1>3 DEF M

\* A marked line and the others.
LEMMA MarkedFirst ==
  ASSUME NEW ls \in Seq(Seq(Nat)), NEW a \in Seq(Nat)
  PROVE  FlattenSeq(Marked(<<a>> \o ls))
           = (<<DataField>> \o a \o <<Newline>>) \o FlattenSeq(Marked(ls))
<1>1. PICK n \in Nat : n = Len(ls)
  OBVIOUS
<1>2. PICK one \in Seq(Seq(Nat)) : one = <<a>> /\ Len(one) = 1 /\ one[1] = a
  <2>1. <<a>> \in Seq(Seq(Nat)) /\ Len(<<a>>) = 1 /\ <<a>>[1] = a
    OBVIOUS
  <2> QED BY <2>1
<1>3. PICK all : all = one \o ls
  OBVIOUS
<1>4. /\ all \in Seq(Seq(Nat)) /\ Len(all) = 1 + n
      /\ \A k \in 1 .. 1 + n : all[k] = IF k <= 1 THEN one[k] ELSE ls[k - 1]
  BY <1>1, <1>2, <1>3, ConcatProperties
<1>5. PICK m, rest : m = Marked(all) /\ rest = Marked(ls)
  OBVIOUS
<1>6. /\ m \in Seq(Seq(Nat)) /\ Len(m) = 1 + n
      /\ \A k \in 1 .. 1 + n : m[k] = <<DataField>> \o all[k] \o <<Newline>>
  <2>1. PICK q \in Nat : q = 1 + n
    OBVIOUS
  <2>2. all \in Seq(Seq(Nat)) /\ q = Len(all)
    BY <1>4, <2>1
  <2>3. /\ Marked(all) \in Seq(Seq(Nat)) /\ Len(Marked(all)) = q
        /\ \A k \in 1 .. q : Marked(all)[k] = <<DataField>> \o all[k] \o <<Newline>>
    BY <2>2, MarkedIs
  <2> QED BY <1>5, <2>1, <2>3, Zenon
<1>7. /\ rest \in Seq(Seq(Nat)) /\ Len(rest) = n
      /\ \A k \in 1 .. n : rest[k] = <<DataField>> \o ls[k] \o <<Newline>>
  BY <1>1, <1>5, MarkedIs
<1>8. RestOf(rest, m, n)
  <2>1. ASSUME NEW k \in 1 .. n PROVE rest[k] = m[k + 1]
    <3>1. k + 1 \in 1 .. 1 + n /\ ~(k + 1 <= 1) /\ (k + 1) - 1 = k
      OBVIOUS
    <3>2. all[k + 1] = ls[k]
      BY <1>4, <3>1
    <3>3. m[k + 1] = <<DataField>> \o ls[k] \o <<Newline>>
      BY <1>6, <3>1, <3>2, Zenon
    <3> QED BY <1>7, <3>3, Zenon
  <2> QED BY <1>6, <1>7, <2>1 DEF RestOf
<1>9. FlattenSeq(m) = m[1] \o FlattenSeq(rest)
  BY <1>6, <1>7, <1>8, FlattenFirst
<1>10. m[1] = <<DataField>> \o a \o <<Newline>>
  <2>1. 1 \in 1 .. 1 + n /\ 1 <= 1
    OBVIOUS
  <2>2. all[1] = a
    BY <1>2, <1>4, <2>1, Zenon
  <2> QED BY <1>6, <2>1, <2>2, Zenon
<1> QED BY <1>2, <1>3, <1>5, <1>9, <1>10, Zenon

\* No lines, marked.
LEMMA MarkedNone == FlattenSeq(Marked(<<>>)) = <<>>
<1>1. Marked(<<>>) = <<>>
  <2>1. <<>> \in Seq(Seq(Nat)) /\ Len(<<>>) = 0 /\ 0 \in Nat
    BY EmptySeq
  <2>2. Marked(<<>>) \in Seq(Seq(Nat)) /\ Len(Marked(<<>>)) = 0
    BY <2>1, MarkedIs
  <2> QED BY <2>2, EmptySeq
<1> QED BY <1>1, FlattenNone

\* What an event begins with.
LEMMA BlockType ==
  ASSUME NEW d \in Seq(Nat)
  PROVE  Block(d) \in Seq(Nat) /\ Event(d) = Block(d) \o <<Newline>>
<1>1. Lines(d) \in Seq(Seq(Nat))
  BY LinesType
<1>2. Marked(Lines(d)) \in Seq(Seq(Nat))
  BY <1>1, MarkedIs
<1>3. Block(d) \in Seq(Nat)
  BY <1>2, FlattenType DEF Block
<1>4. Event(d) = Block(d) \o <<Newline>>
  BY Zenon DEF Event, Block, Marked
<1> QED BY <1>3, <1>4

\* No line, one, and more.
LEMMA BlockNone == Block(<<>>) = <<>>
  BY LinesOfNothing, MarkedNone, Zenon DEF Block

LEMMA BlockOne ==
  ASSUME NEW d \in Seq(Nat), d # <<>>, OneLine(d)
  PROVE  Block(d) = <<DataField>> \o d \o <<Newline>>
<1>1. Lines(d) = <<d>>
  BY OnlyLine
<1>2. <<>> \in Seq(Seq(Nat)) /\ <<d>> \o <<>> = <<d>>
  OBVIOUS
<1>3. Block(d) = (<<DataField>> \o d \o <<Newline>>) \o FlattenSeq(Marked(<<>>))
  <2>1. FlattenSeq(Marked(<<d>> \o <<>>))
          = (<<DataField>> \o d \o <<Newline>>) \o FlattenSeq(Marked(<<>>))
    BY <1>2, MarkedFirst
  <2> QED BY <1>1, <1>2, <2>1, Zenon DEF Block
<1>4. (<<DataField>> \o d \o <<Newline>>) \o <<>> = <<DataField>> \o d \o <<Newline>>
  BY MarkedLine, ConcatEmptySeq
<1> QED BY <1>3, <1>4, MarkedNone, Zenon

LEMMA BlockMore ==
  ASSUME NEW a \in Seq(Nat), OneLine(a), NEW r \in Seq(Nat)
  PROVE  Block(a \o (<<Newline>> \o r)) = (<<DataField>> \o a \o <<Newline>>) \o Block(r)
<1>1. Lines(a \o (<<Newline>> \o r)) = <<a>> \o Lines(r)
  BY FirstLine
<1>2. Lines(r) \in Seq(Seq(Nat))
  BY LinesType
<1>3. FlattenSeq(Marked(<<a>> \o Lines(r)))
        = (<<DataField>> \o a \o <<Newline>>) \o FlattenSeq(Marked(Lines(r)))
  BY <1>2, MarkedFirst
<1> QED BY <1>1, <1>3, Zenon DEF Block

-----------------------------------------------------------------------------
(* What an EventSource reads.                                              *)

\* Its state: the data of the events dispatched, and that of the next.
ReaderAt(events, sofar) == [events |-> events, data |-> sofar]

\* What it makes of a line.
AfterLine(s, line) ==
  IF line # <<>>
    THEN IF line[1] = DataField THEN [s EXCEPT !.data = @ \o Tail(line) \o <<Newline>>] ELSE s
  ELSE IF s.data # <<>> THEN ReaderAt(Append(s.events, Front(s.data)), <<>>)
  ELSE s

\* f holds at k the state behind the first k of n lines.
ReadsOff(f, lines, n, s) ==
  /\ f = [k \in 0 .. n |-> f[k]]
  /\ f[0] = s
  /\ \A k \in 1 .. n : f[k] = AfterLine(f[k - 1], lines[k])

\* From s the lines lead to t.
Leads(lines, n, s, t) == \E f : ReadsOff(f, lines, n, s) /\ f[n] = t

\* No line leads nowhere.
LEMMA LeadsNone ==
  ASSUME NEW lines, NEW s
  PROVE  Leads(lines, 0, s, s)
<1> DEFINE f == [k \in 0 .. 0 |-> s]
<1>1. 0 \in 0 .. 0 /\ \A k \in 1 .. 0 : FALSE
  OBVIOUS
<1>2. f = [k \in 0 .. 0 |-> f[k]] /\ f[0] = s
  BY <1>1
<1> HIDE DEF f
<1>3. ReadsOff(f, lines, 0, s)
  BY <1>1, <1>2, Zenon DEF ReadsOff
<1> QED BY <1>2, <1>3, Zenon DEF Leads

\* A line, and from there the others.
LEMMA LeadsFirst ==
  ASSUME NEW n \in Nat, NEW lines, NEW rest, \A k \in 1 .. n : rest[k] = lines[k + 1],
         NEW s, NEW t, Leads(rest, n, AfterLine(s, lines[1]), t)
  PROVE  Leads(lines, n + 1, s, t)
<1>1. PICK f : ReadsOff(f, rest, n, AfterLine(s, lines[1])) /\ f[n] = t
  BY Zenon DEF Leads
<1>2. f[0] = AfterLine(s, lines[1]) /\ \A k \in 1 .. n : f[k] = AfterLine(f[k - 1], rest[k])
  BY <1>1, Zenon DEF ReadsOff
<1> DEFINE G(k) == IF k = 0 THEN s ELSE f[k - 1]
           g == [k \in 0 .. n + 1 |-> G(k)]
<1>3. g = [k \in 0 .. n + 1 |-> g[k]] /\ \A k \in 0 .. n + 1 : g[k] = G(k)
  <2> HIDE DEF G
  <2> QED OBVIOUS
<1> HIDE DEF g
<1>4. g[0] = s
  <2>1. 0 \in 0 .. n + 1
    OBVIOUS
  <2> QED BY <1>3, <2>1, Zenon
<1>5. ASSUME NEW k \in 1 .. n + 1 PROVE g[k] = AfterLine(g[k - 1], lines[k])
  <2>1. k \in 0 .. n + 1 /\ k # 0 /\ k - 1 \in 0 .. n + 1 /\ (k = 1 => k - 1 = 0)
        /\ (k # 1 => k - 1 # 0)
    OBVIOUS
  <2>2. g[k] = f[k - 1]
    BY <1>3, <2>1, Zenon
  <2>3. CASE k = 1
    <3>1. g[k] = AfterLine(s, lines[1])
      BY <1>2, <2>1, <2>2, <2>3, Zenon
    <3> QED BY <1>4, <2>1, <2>3, <3>1, Zenon
  <2>4. CASE k # 1
    <3>1. PICK j \in 1 .. n : j = k - 1
      <4>1. k - 1 \in 1 .. n
        BY <2>4
      <4> QED BY <4>1
    <3>2. j + 1 = k
      BY <3>1
    <3>3. f[j] = AfterLine(f[j - 1], rest[j]) /\ rest[j] = lines[k]
      BY <1>2, <3>2, Zenon
    <3>4. g[k - 1] = f[j - 1]
      BY <1>3, <2>1, <2>4, <3>1, Zenon
    <3> QED BY <2>2, <3>1, <3>3, <3>4, Zenon
  <2> QED BY <2>3, <2>4
<1>6. ReadsOff(g, lines, n + 1, s)
  BY <1>3, <1>4, <1>5, Zenon DEF ReadsOff
<1>7. g[n + 1] = t
  <2>1. PICK q \in 0 .. n + 1 : q = n + 1 /\ q # 0 /\ q - 1 = n
    <3>1. n + 1 \in 0 .. n + 1 /\ n + 1 # 0 /\ n + 1 - 1 = n
      OBVIOUS
    <3> QED BY <3>1
  <2>2. g[q] = f[q - 1]
    BY <1>3, <2>1, Zenon
  <2> QED BY <1>1, <2>1, <2>2, Zenon
<1> QED BY <1>6, <1>7, Zenon DEF Leads

\* Two that read the same lines from the same state agree.
LEMMA ReadAlike ==
  ASSUME NEW n \in Nat, NEW lines, NEW s, NEW f, ReadsOff(f, lines, n, s),
         NEW g, ReadsOff(g, lines, n, s)
  PROVE  f[n] = g[n]
<1>0. /\ f[0] = s /\ \A k \in 1 .. n : f[k] = AfterLine(f[k - 1], lines[k])
      /\ g[0] = s /\ \A k \in 1 .. n : g[k] = AfterLine(g[k - 1], lines[k])
  BY Zenon DEF ReadsOff
<1> DEFINE Bad == {k \in 0 .. n : f[k] # g[k]}
<1>1. CASE Bad = {}
  <2>1. n \in 0 .. n
    OBVIOUS
  <2> QED BY <1>1, <2>1, Zenon
<1>2. CASE Bad # {}
  <2>1. PICK m \in Bad : \A i \in Bad : m <= i
    <3>1. Bad \in SUBSET Nat
      OBVIOUS
    <3> HIDE DEF Bad
    <3> QED BY <1>2, <3>1, LeastNumber
  <2>2. m \in 0 .. n /\ f[m] # g[m]
    BY <2>1, Zenon
  <2>3. m # 0
    BY <1>0, <2>2, Zenon
  <2>4. m \in 1 .. n /\ m - 1 \in 0 .. n /\ ~(m <= m - 1)
    BY <2>2, <2>3
  <2>5. f[m - 1] = g[m - 1]
    BY <2>1, <2>4, Zenon
  <2>6. f[m] = g[m]
    BY <1>0, <2>4, <2>5, Zenon
  <2> QED BY <2>2, <2>6
<1> QED BY <1>1, <1>2

\* What Received is.
LEMMA ReceivedIs ==
  ASSUME NEW content, NEW lines, lines = Lines(Unified(content)), NEW n \in Nat, n = Len(lines),
         NEW t, Leads(lines, n, ReaderAt(<<>>, <<>>), t)
  PROVE  Received(content) = t.events
<1> DEFINE start == ReaderAt(<<>>, <<>>)
           P(f) == f = [k \in 0 .. n |->
                          IF k = 0 THEN [events |-> <<>>, data |-> <<>>]
                          ELSE LET before == f[k - 1]
                               IN  IF lines[k] # <<>>
                                     THEN IF lines[k][1] = DataField
                                            THEN [before EXCEPT !.data = @ \o Tail(lines[k]) \o <<Newline>>]
                                            ELSE before
                                   ELSE IF before.data # <<>>
                                     THEN [events |-> Append(before.events, Front(before.data)),
                                           data |-> <<>>]
                                   ELSE before]
           Q(f) == f = [k \in 0 .. n |-> IF k = 0 THEN start ELSE AfterLine(f[k - 1], lines[k])]
<1>1. \A f : P(f) <=> Q(f)
  BY Zenon DEF AfterLine, ReaderAt
<1> HIDE DEF start
<1>2. \A f : Q(f) <=> ReadsOff(f, lines, n, start)
  <2> TAKE f
  <2> DEFINE F(k) == IF k = 0 THEN start ELSE AfterLine(f[k - 1], lines[k])
  <2>1. 0 \in 0 .. n /\ \A k \in 1 .. n : k \in 0 .. n /\ k # 0
    OBVIOUS
  <2>2. ASSUME NEW k \in 0 .. n, k # 0 PROVE k \in 1 .. n
    BY <2>2
  <2>3. ASSUME Q(f) PROVE ReadsOff(f, lines, n, start)
    <3>1. f = [k \in 0 .. n |-> F(k)]
      BY <2>3
    <3> HIDE DEF F
    <3>2. f = [k \in 0 .. n |-> f[k]] /\ \A k \in 0 .. n : f[k] = F(k)
      BY <3>1
    <3> QED BY <2>1, <3>2, Zenon DEF ReadsOff, F
  <2>4. ASSUME ReadsOff(f, lines, n, start) PROVE Q(f)
    <3>1. f = [k \in 0 .. n |-> f[k]] /\ \A k \in 0 .. n : f[k] = F(k)
      BY <2>2, <2>4, Zenon DEF ReadsOff
    <3> HIDE DEF F
    <3>2. f = [k \in 0 .. n |-> F(k)]
      BY <3>1
    <3> QED BY <3>2 DEF F
  <2> QED BY <2>3, <2>4
<1>3. PICK g : ReadsOff(g, lines, n, start) /\ g[n] = t
  BY Zenon DEF Leads, start
<1> DEFINE h == CHOOSE f : P(f)
<1>4. Received(content) = h[n].events
  BY DEF Received
<1>5. ReadsOff(h, lines, n, start)
  <2> HIDE DEF P, Q
  <2>1. P(g)
    BY <1>1, <1>2, <1>3, Zenon
  <2>2. P(h)
    BY <2>1, Zenon
  <2> QED BY <1>1, <1>2, <2>2, Zenon
<1> HIDE DEF h, P, Q
<1>6. h[n] = t
  <2>1. h[n] = g[n]
    BY <1>3, <1>5, ReadAlike
  <2> QED BY <1>3, <2>1
<1> QED BY <1>4, <1>6, Zenon

\* What the data lines of an event come to: a text whose last line ends.
Ended(d) == IF d = <<>> \/ d[Len(d)] = Newline THEN d ELSE d \o <<Newline>>

\* Putting three texts together.
LEMMA TextsJoin ==
  ASSUME NEW x \in Seq(Nat), NEW y \in Seq(Nat), NEW z \in Seq(Nat)
  PROVE  (x \o y) \o z = x \o (y \o z)
<1>1. AnyJoin(Nat)
  BY SeqsJoin, Zenon
<1> QED BY <1>1, Zenon DEF AnyJoin

\* The ways of putting three and four together.
Join3(x, y, z) == (x \o y) \o z = x \o (y \o z)

Join4(w, x, y, z) ==
  /\ ((w \o x) \o y) \o z = w \o (x \o (y \o z))
  /\ ((w \o x) \o y) \o z = w \o ((x \o y) \o z)

LEMMA AnyThree ==
  ASSUME NEW x \in Seq(Nat), NEW y \in Seq(Nat), NEW z \in Seq(Nat)
  PROVE  Join3(x, y, z)
  BY TextsJoin DEF Join3

LEMMA FourTexts ==
  ASSUME NEW w \in Seq(Nat), NEW x \in Seq(Nat), NEW y \in Seq(Nat), NEW z \in Seq(Nat)
  PROVE  Join4(w, x, y, z)
<1>1. w \o x \in Seq(Nat) /\ x \o y \in Seq(Nat) /\ y \o z \in Seq(Nat)
  BY ConcatProperties
<1>2. Join3(w \o x, y, z) /\ Join3(w, x, y \o z) /\ Join3(w, x, y) /\ Join3(w, x \o y, z)
  BY <1>1, AnyThree
<1> QED BY <1>2, Zenon DEF Join3, Join4

\* A text, a newline and another text.
LEMMA AroundBreak ==
  ASSUME NEW a \in Seq(Nat), NEW r \in Seq(Nat), NEW d, d = a \o (<<Newline>> \o r)
  PROVE  /\ d \in Seq(Nat) /\ d # <<>>
         /\ d[Len(d)] = IF r = <<>> THEN Newline ELSE r[Len(r)]
<1>1. PICK m \in Nat, n \in Nat : m = Len(a) /\ n = Len(r)
  OBVIOUS
<1>2. PICK nl \in Seq(Nat) : nl = <<Newline>> /\ Len(nl) = 1 /\ nl[1] = Newline
  BY Break, Zenon
<1>3. PICK b : b = nl \o r
  OBVIOUS
<1>4. PICK q \in Nat, p \in Nat : q = 1 + n /\ p = m + q
  OBVIOUS
<1>5. InFront(nl, 1, r, n, b)
  BY <1>1, <1>2, <1>3, Behind
<1>6. b \in Seq(Nat) /\ Len(b) = q /\ b[1] = Newline /\ \A k \in 1 .. n : b[1 + k] = r[k]
  BY <1>2, <1>4, <1>5 DEF InFront, Ending
<1>7. d = a \o b
  BY <1>2, <1>3, Zenon
<1>8. InFront(a, m, b, q, d)
  BY <1>1, <1>4, <1>6, <1>7, Behind
<1>9. d \in Seq(Nat) /\ Len(d) = p /\ \A k \in 1 .. q : d[m + k] = b[k]
  BY <1>4, <1>8 DEF InFront, Ending
<1>10. d[p] = b[q]
  <2>1. q \in 1 .. q
    BY <1>4
  <2> QED BY <1>4, <1>9, <2>1
<1>11. d # <<>>
  <2>1. Len(d) # 0
    BY <1>4, <1>9
  <2> QED BY <2>1, EmptySeq
<1>12. b[q] = IF r = <<>> THEN Newline ELSE r[Len(r)]
  <2>1. CASE r = <<>>
    <3>1. n = 0
      BY <1>1, <2>1, EmptySeq
    <3> QED BY <1>4, <1>6, <2>1, <3>1
  <2>2. CASE r # <<>>
    <3>1. n \in 1 .. n
      BY <1>1, <2>2, EmptySeq
    <3>2. b[1 + n] = r[n]
      BY <1>6, <3>1
    <3> QED BY <1>1, <1>4, <2>2, <3>2
  <2> QED BY <2>1, <2>2
<1> QED BY <1>9, <1>10, <1>11, <1>12

\* What an ended text is, line by line.
LEMMA EndedType ==
  ASSUME NEW d \in Seq(Nat)
  PROVE  Ended(d) \in Seq(Nat)
<1>1. d \o <<Newline>> \in Seq(Nat)
  BY Break, ConcatProperties
<1> QED BY <1>1, Zenon DEF Ended

LEMMA EndedOne ==
  ASSUME NEW d \in Seq(Nat), d # <<>>, OneLine(d)
  PROVE  Ended(d) = d \o <<Newline>>
<1>1. PICK n \in Nat : n = Len(d) /\ n \in 1 .. n
  BY EmptySeq
<1>2. d[n] # Newline
  BY <1>1 DEF OneLine
<1> QED BY <1>1, <1>2, Zenon DEF Ended

LEMMA EndedMore ==
  ASSUME NEW a \in Seq(Nat), NEW r \in Seq(Nat), NEW d, d = a \o (<<Newline>> \o r)
  PROVE  Ended(d) = (a \o <<Newline>>) \o Ended(r)
<1>1. /\ d \in Seq(Nat) /\ d # <<>>
      /\ d[Len(d)] = IF r = <<>> THEN Newline ELSE r[Len(r)]
  BY AroundBreak
<1>2. PICK nl \in Seq(Nat) : nl = <<Newline>>
  BY Break, Zenon
<1>3. d = (a \o nl) \o r
  BY <1>2, TextsJoin
<1>4. CASE r = <<>> \/ r[Len(r)] = Newline
  <2>1. Ended(d) = d /\ Ended(r) = r
    BY <1>1, <1>4, Zenon DEF Ended
  <2> QED BY <1>2, <1>3, <2>1, Zenon
<1>5. CASE ~(r = <<>> \/ r[Len(r)] = Newline)
  <2>1. Ended(d) = d \o nl /\ Ended(r) = r \o nl
    BY <1>1, <1>2, <1>5, Zenon DEF Ended
  <2>2. a \o nl \in Seq(Nat)
    BY ConcatProperties
  <2>3. ((a \o nl) \o r) \o nl = (a \o nl) \o (r \o nl)
    BY <2>2, TextsJoin
  <2> QED BY <1>2, <1>3, <2>1, <2>3, Zenon
<1> QED BY <1>4, <1>5

\* It is read as the text, but for a final newline.
LEMMA EndedRead ==
  ASSUME NEW d \in Seq(Nat), d # <<>>
  PROVE  Ended(d) # <<>> /\ Front(Ended(d)) = AsRead(d) /\ AsRead(d) \in Seq(Nat)
<1>1. PICK n \in Nat : n = Len(d) /\ n # 0
  BY EmptySeq
<1>2. PICK nl \in Seq(Nat) : nl = <<Newline>> /\ Len(nl) = 1
  BY Break, Zenon
<1>3. CASE d[n] = Newline
  <2>1. Ended(d) = d
    BY <1>1, <1>3, Zenon DEF Ended
  <2>2. AsRead(d) = Front(d)
    BY <1>1, <1>3, Zenon DEF AsRead
  <2>3. Front(d) \in Seq(Nat)
    <3>1. \A k \in 1 .. n - 1 : d[k] \in Nat
      BY <1>1
    <3>2. n - 1 \in Int /\ 1 \in Int
      OBVIOUS
    <3>3. SubSeq(d, 1, n - 1) \in Seq(Nat)
      BY <3>1, <3>2, SubSeqProperties
    <3> QED BY <1>1, <3>3, Zenon DEF Front
  <2> QED BY <2>1, <2>2, <2>3, Zenon
<1>4. CASE d[n] # Newline
  <2>1. Ended(d) = d \o nl
    BY <1>1, <1>2, <1>4, Zenon DEF Ended
  <2>2. AsRead(d) = d
    BY <1>1, <1>4, Zenon DEF AsRead
  <2>3. PICK e : e = d \o nl
    OBVIOUS
  <2>4. e \in Seq(Nat) /\ Len(e) = n + 1
    BY <1>1, <1>2, <2>3, ConcatProperties
  <2>5. e # <<>>
    <3>1. Len(e) # 0
      BY <2>4
    <3> QED BY <3>1, EmptySeq
  <2>6. SubSeq(e, 1, n) = d
    <3>1. 1 \in 1 .. Len(d) /\ n \in 1 .. Len(d)
      BY <1>1
    <3>2. SubSeq(d \o nl, 1, n) = SubSeq(d, 1, n)
      BY <3>1, SubSeqOfConcat1
    <3>3. SubSeq(d, 1, n) = d
      BY <1>1, SubSeqFull
    <3> QED BY <2>3, <3>2, <3>3, Zenon
  <2>7. Front(e) = d
    <3>1. Len(e) - 1 = n
      BY <2>4
    <3> QED BY <2>6, <3>1, Zenon DEF Front
  <2> QED BY <2>1, <2>2, <2>3, <2>5, <2>7, Zenon
<1> QED BY <1>3, <1>4

-----------------------------------------------------------------------------
(* An event read.                                                          *)

\* From the state s the reader of the text comes to t.
Reads(text, s, t) == Leads(Lines(text), Len(Lines(text)), s, t)

\* A line, and from there the rest of the text.
LEMMA ReadsLine ==
  ASSUME NEW l \in Seq(Nat), OneLine(l), NEW rest \in Seq(Nat), NEW s, NEW t,
         Reads(rest, AfterLine(s, l), t)
  PROVE  Reads(l \o (<<Newline>> \o rest), s, t)
<1>1. PICK ls, all : ls = Lines(rest) /\ all = Lines(l \o (<<Newline>> \o rest))
  OBVIOUS
<1>2. ls \in Seq(Seq(Nat)) /\ all = <<l>> \o ls
  BY <1>1, LinesType, FirstLine
<1>3. PICK n \in Nat : n = Len(ls)
  BY <1>2
<1>4. PICK one \in Seq(Seq(Nat)) : one = <<l>> /\ Len(one) = 1 /\ one[1] = l
  <2>1. <<l>> \in Seq(Seq(Nat)) /\ Len(<<l>>) = 1 /\ <<l>>[1] = l
    OBVIOUS
  <2> QED BY <2>1
<1>5. all = one \o ls
  BY <1>2, <1>4, Zenon
<1>6. /\ Len(all) = 1 + n
      /\ \A k \in 1 .. 1 + n : all[k] = IF k <= 1 THEN one[k] ELSE ls[k - 1]
  BY <1>2, <1>3, <1>4, <1>5, ConcatProperties
<1>7. all[1] = l /\ Len(all) = n + 1 /\ \A k \in 1 .. n : ls[k] = all[k + 1]
  <2>1. 1 \in 1 .. 1 + n /\ 1 <= 1 /\ 1 + n = n + 1
    OBVIOUS
  <2>2. ASSUME NEW k \in 1 .. n PROVE ls[k] = all[k + 1]
    <3>1. k + 1 \in 1 .. 1 + n /\ ~(k + 1 <= 1) /\ (k + 1) - 1 = k
      OBVIOUS
    <3> QED BY <1>6, <3>1
  <2> QED BY <1>4, <1>6, <2>1, <2>2
<1>8. Leads(ls, n, AfterLine(s, all[1]), t)
  BY <1>1, <1>3, <1>7, Zenon DEF Reads
<1>9. Leads(all, n + 1, s, t)
  BY <1>7, <1>8, LeadsFirst
<1> QED BY <1>1, <1>7, <1>9, Zenon DEF Reads

\* What a data line adds.
LEMMA AfterData ==
  ASSUME NEW a \in Seq(Nat), NEW events, NEW sofar
  PROVE  AfterLine(ReaderAt(events, sofar), <<DataField>> \o a)
           = ReaderAt(events, sofar \o a \o <<Newline>>)
<1>1. PICK l : l = <<DataField>> \o a /\ l # <<>> /\ Tail(l) = a /\ l[1] = DataField
  BY MarkedLine
<1>2. AfterLine(ReaderAt(events, sofar), l)
        = [ReaderAt(events, sofar) EXCEPT !.data = @ \o a \o <<Newline>>]
  BY <1>1, Zenon DEF AfterLine
<1>3. \A v : [ReaderAt(events, sofar) EXCEPT !.data = v] = ReaderAt(events, v)
  BY DEF ReaderAt
<1>4. ReaderAt(events, sofar).data = sofar
  BY DEF ReaderAt
<1> QED BY <1>1, <1>2, <1>3, <1>4, Zenon

\* The data lines of an event are read as its text, ended.
DataRead(d) ==
  \A events, sofar, t : \A rest \in Seq(Nat) :
    sofar \in Seq(Nat) /\ Reads(rest, ReaderAt(events, sofar \o Ended(d)), t)
      => Reads(Block(d) \o rest, ReaderAt(events, sofar), t)

LEMMA DataReadNone == DataRead(<<>>)
<1>1. Ended(<<>>) = <<>>
  BY Zenon DEF Ended
<1>2. \A rest \in Seq(Nat) : rest \o <<>> = rest /\ <<>> \o rest = rest
  BY ConcatEmptySeq
<1> QED BY <1>1, <1>2, BlockNone, Zenon DEF DataRead

LEMMA DataReadOne ==
  ASSUME NEW d \in Seq(Nat), d # <<>>, OneLine(d)
  PROVE  DataRead(d)
<1> SUFFICES ASSUME NEW rest \in Seq(Nat), NEW events, NEW sofar, NEW t, sofar \in Seq(Nat),
                    Reads(rest, ReaderAt(events, sofar \o Ended(d)), t)
             PROVE  Reads(Block(d) \o rest, ReaderAt(events, sofar), t)
  BY DEF DataRead
<1>1. PICK nl \in Seq(Nat) : nl = <<Newline>>
  BY Break, Zenon
<1>2. PICK l \in Seq(Nat) : l = <<DataField>> \o d /\ OneLine(l)
  BY MarkedLine
<1>3. Block(d) \o rest = l \o (nl \o rest)
  <2>1. Block(d) = l \o nl
    BY <1>1, <1>2, BlockOne, Zenon
  <2>2. (l \o nl) \o rest = l \o (nl \o rest)
    BY TextsJoin
  <2> QED BY <2>1, <2>2, Zenon
<1>4. sofar \o Ended(d) = (sofar \o d) \o nl
  <2>1. Ended(d) = d \o nl
    BY <1>1, EndedOne, Zenon
  <2>2. (sofar \o d) \o nl = sofar \o (d \o nl)
    BY TextsJoin
  <2> QED BY <2>1, <2>2, Zenon
<1>5. AfterLine(ReaderAt(events, sofar), l) = ReaderAt(events, sofar \o Ended(d))
  <2>1. AfterLine(ReaderAt(events, sofar), <<DataField>> \o d)
          = ReaderAt(events, sofar \o d \o <<Newline>>)
    BY AfterData
  <2> QED BY <1>1, <1>2, <1>4, <2>1, Zenon
<1>6. Reads(rest, AfterLine(ReaderAt(events, sofar), l), t)
  BY <1>5, Zenon
<1>7. Reads(l \o (<<Newline>> \o rest), ReaderAt(events, sofar), t)
  BY <1>2, <1>6, ReadsLine
<1> QED BY <1>1, <1>3, <1>7, Zenon

LEMMA DataReadMore ==
  ASSUME NEW a \in Seq(Nat), OneLine(a), NEW r \in Seq(Nat), DataRead(r),
         NEW d, d = a \o (<<Newline>> \o r)
  PROVE  DataRead(d)
<1> SUFFICES ASSUME NEW rest \in Seq(Nat), NEW events, NEW sofar, NEW t, sofar \in Seq(Nat),
                    Reads(rest, ReaderAt(events, sofar \o Ended(d)), t)
             PROVE  Reads(Block(d) \o rest, ReaderAt(events, sofar), t)
  BY DEF DataRead
<1>1. PICK nl \in Seq(Nat) : nl = <<Newline>>
  BY Break, Zenon
<1>2. PICK l \in Seq(Nat) : l = <<DataField>> \o a /\ OneLine(l)
  BY MarkedLine
<1>3. PICK b \in Seq(Nat) : b = Block(r)
  BY BlockType
<1>4. PICK x \in Seq(Nat) : x = b \o rest
  BY ConcatProperties
<1>5. Block(d) \o rest = l \o (nl \o x)
  <2>1. Block(d) = (l \o nl) \o b
    <3>1. Block(d) = (<<DataField>> \o a \o <<Newline>>) \o Block(r)
      BY BlockMore
    <3> QED BY <1>1, <1>2, <1>3, <3>1, Zenon
  <2>2. Join4(l, nl, b, rest)
    BY FourTexts
  <2> QED BY <1>4, <2>1, <2>2, Zenon DEF Join4
<1>6. PICK c \in Seq(Nat) : c = (sofar \o a) \o nl
  BY ConcatProperties
<1>7. sofar \o Ended(d) = c \o Ended(r)
  <2>1. PICK e \in Seq(Nat) : e = Ended(r)
    <3>1. Ended(r) \in Seq(Nat)
      BY EndedType
    <3> QED BY <3>1
  <2>2. Ended(d) = (a \o nl) \o e
    <3>1. Ended(d) = (a \o <<Newline>>) \o Ended(r)
      BY EndedMore
    <3> QED BY <1>1, <2>1, <3>1, Zenon
  <2>3. Join4(sofar, a, nl, e)
    BY FourTexts
  <2> QED BY <1>6, <2>1, <2>2, <2>3, Zenon DEF Join4
<1>8. Reads(x, ReaderAt(events, c), t)
  <2>1. Reads(rest, ReaderAt(events, c \o Ended(r)), t)
    BY <1>7, Zenon
  <2>2. Reads(Block(r) \o rest, ReaderAt(events, c), t)
    BY <2>1, Zenon DEF DataRead
  <2> QED BY <1>3, <1>4, <2>2, Zenon
<1>9. AfterLine(ReaderAt(events, sofar), l) = ReaderAt(events, c)
  <2>1. AfterLine(ReaderAt(events, sofar), <<DataField>> \o a)
          = ReaderAt(events, sofar \o a \o <<Newline>>)
    BY AfterData
  <2> QED BY <1>1, <1>2, <1>6, <2>1, Zenon
<1>10. Reads(l \o (<<Newline>> \o x), ReaderAt(events, sofar), t)
  <2>1. Reads(x, AfterLine(ReaderAt(events, sofar), l), t)
    BY <1>8, <1>9, Zenon
  <2> QED BY <1>2, <2>1, ReadsLine
<1> QED BY <1>1, <1>5, <1>10, Zenon

\* Those of every event are, however many lines it has.
LEMMA DataReads ==
  ASSUME NEW d \in Seq(Nat)
  PROVE  DataRead(d)
<1> DEFINE Bad == {n \in Nat : \E e \in Seq(Nat) : Len(e) = n /\ ~DataRead(e)}
<1>1. CASE Bad = {}
  <2>1. Len(d) \in Nat
    OBVIOUS
  <2> QED BY <1>1, <2>1, Zenon
<1>2. CASE Bad # {}
  <2>1. PICK m \in Bad : \A i \in Bad : m <= i
    <3>1. Bad \in SUBSET Nat
      OBVIOUS
    <3> HIDE DEF Bad
    <3> QED BY <1>2, <3>1, LeastNumber
  <2>2. PICK e \in Seq(Nat) : Len(e) = m /\ ~DataRead(e)
    BY <2>1, Zenon
  <2>3. e # <<>>
    BY <2>2, DataReadNone, Zenon
  <2>4. ~OneLine(e)
    BY <2>2, <2>3, DataReadOne, Zenon
  <2>5. PICK a \in Seq(Nat), r \in Seq(Nat) :
          OneLine(a) /\ Len(r) < Len(e) /\ e = a \o (<<Newline>> \o r)
    BY <2>4, CutLine
  <2>6. Len(r) \in Nat /\ m \in Nat /\ ~(m <= Len(r))
    BY <2>2, <2>5
  <2>7. DataRead(r)
    BY <2>1, <2>6, Zenon
  <2> QED BY <2>2, <2>5, <2>7, DataReadMore
<1> QED BY <1>1, <1>2

LEMMA ReaderFields ==
  ASSUME NEW events, NEW sofar
  PROVE  ReaderAt(events, sofar).events = events /\ ReaderAt(events, sofar).data = sofar
  BY DEF ReaderAt

LEMMA EventsJoin ==
  ASSUME NEW x \in Seq(Seq(Nat)), NEW y \in Seq(Seq(Nat)), NEW z \in Seq(Seq(Nat))
  PROVE  (x \o y) \o z = x \o (y \o z)
<1>1. AnyJoin(Seq(Nat))
  BY SeqsJoin, Zenon
<1> QED BY <1>1, Zenon DEF AnyJoin

\* An event is read as one, if there is anything in it.
SeenOf(d) == IF d = <<>> THEN <<>> ELSE <<AsRead(d)>>

LEMMA EventRead ==
  ASSUME NEW d \in Seq(Nat), NEW rest \in Seq(Nat), NEW E \in Seq(Seq(Nat)), NEW t,
         Reads(rest, ReaderAt(E \o SeenOf(d), <<>>), t)
  PROVE  Reads(Event(d) \o rest, ReaderAt(E, <<>>), t)
<1>1. PICK nl \in Seq(Nat) : nl = <<Newline>>
  BY Break, Zenon
<1>2. PICK b \in Seq(Nat) : b = Block(d)
  BY BlockType
<1>3. PICK none \in Seq(Nat) : none = <<>> /\ OneLine(none)
  <2>1. <<>> \in Seq(Nat) /\ OneLine(<<>>)
    BY DEF OneLine
  <2> QED BY <2>1
<1>4. PICK x \in Seq(Nat) : x = nl \o rest
  BY ConcatProperties
<1>5. none \o x = x
  BY <1>3, ConcatEmptySeq
<1>6. Event(d) \o rest = b \o x
  <2>1. Event(d) = b \o nl
    BY <1>1, <1>2, BlockType, Zenon
  <2>2. (b \o nl) \o rest = b \o (nl \o rest)
    BY TextsJoin
  <2> QED BY <1>4, <2>1, <2>2, Zenon
<1>7. AfterLine(ReaderAt(E, Ended(d)), none) = ReaderAt(E \o SeenOf(d), <<>>)
  <2>1. PICK s : s = ReaderAt(E, Ended(d)) /\ s.data = Ended(d) /\ s.events = E
    BY ReaderFields, Zenon
  <2>2. CASE d = <<>>
    <3>1. Ended(d) = <<>> /\ SeenOf(d) = <<>>
      BY <2>2, Zenon DEF Ended, SeenOf
    <3>2. E \o <<>> = E
      BY ConcatEmptySeq
    <3>3. AfterLine(s, none) = s
      BY <1>3, <2>1, <3>1, Zenon DEF AfterLine
    <3> QED BY <2>1, <3>1, <3>2, <3>3, Zenon
  <2>3. CASE d # <<>>
    <3>1. Ended(d) # <<>> /\ Front(Ended(d)) = AsRead(d) /\ AsRead(d) \in Seq(Nat)
      BY <2>3, EndedRead
    <3>2. AfterLine(s, none) = ReaderAt(Append(E, AsRead(d)), <<>>)
      BY <1>3, <2>1, <3>1, Zenon DEF AfterLine
    <3>3. Append(E, AsRead(d)) = E \o <<AsRead(d)>>
      BY <3>1, AppendIsConcat
    <3>4. SeenOf(d) = <<AsRead(d)>>
      BY <2>3, Zenon DEF SeenOf
    <3> QED BY <2>1, <3>2, <3>3, <3>4, Zenon
  <2> QED BY <2>2, <2>3
<1>8. Reads(x, ReaderAt(E, Ended(d)), t)
  <2>1. Reads(rest, AfterLine(ReaderAt(E, Ended(d)), none), t)
    BY <1>7, Zenon
  <2>2. Reads(none \o (<<Newline>> \o rest), ReaderAt(E, Ended(d)), t)
    BY <1>3, <2>1, ReadsLine
  <2> QED BY <1>1, <1>4, <1>5, <2>2, Zenon
<1>9. none \o Ended(d) = Ended(d)
  <2>1. Ended(d) \in Seq(Nat)
    BY EndedType
  <2> QED BY <1>3, <2>1, ConcatEmptySeq
<1>10. DataRead(d)
  BY DataReads
<1>11. Reads(x, ReaderAt(E, none \o Ended(d)), t)
  BY <1>8, <1>9, Zenon
<1>12. Reads(Block(d) \o x, ReaderAt(E, none), t)
  BY <1>10, <1>11, Zenon DEF DataRead
<1> QED BY <1>2, <1>3, <1>6, <1>12, Zenon

-----------------------------------------------------------------------------
(* A stream read.                                                          *)

\* The events of the texts, and what an EventSource sees of them.
Streamed(texts) == [k \in DOMAIN texts |-> Event(texts[k])]

Seen(texts) == [k \in DOMAIN texts |-> SeenOf(texts[k])]

LEMMA StreamTypes ==
  ASSUME NEW texts \in Seq(Seq(Nat)), NEW n \in Nat, n = Len(texts)
  PROVE  /\ Streamed(texts) \in Seq(Seq(Nat)) /\ Len(Streamed(texts)) = n
         /\ \A k \in 1 .. n : Streamed(texts)[k] = Event(texts[k])
         /\ Seen(texts) \in Seq(Seq(Seq(Nat))) /\ Len(Seen(texts)) = n
         /\ \A k \in 1 .. n : Seen(texts)[k] = SeenOf(texts[k])
<1>1. DOMAIN texts = 1 .. n /\ \A k \in 1 .. n : texts[k] \in Seq(Nat)
  OBVIOUS
<1>2. ASSUME NEW k \in 1 .. n PROVE Event(texts[k]) \in Seq(Nat)
  <2>1. PICK d \in Seq(Nat) : d = texts[k]
    BY <1>1
  <2>2. Block(d) \in Seq(Nat) /\ Event(d) = Block(d) \o <<Newline>>
    BY BlockType
  <2>3. Block(d) \o <<Newline>> \in Seq(Nat)
    BY <2>2, Break, ConcatProperties
  <2> QED BY <2>1, <2>2, <2>3, Zenon
<1>3. ASSUME NEW k \in 1 .. n PROVE SeenOf(texts[k]) \in Seq(Seq(Nat))
  <2>1. PICK d \in Seq(Nat) : d = texts[k]
    BY <1>1
  <2>2. CASE d = <<>>
    <3>1. SeenOf(d) = <<>> /\ <<>> \in Seq(Seq(Nat))
      BY <2>2 DEF SeenOf
    <3> QED BY <2>1, <3>1, Zenon
  <2>3. CASE d # <<>>
    <3>1. AsRead(d) \in Seq(Nat)
      BY <2>3, EndedRead
    <3>2. <<AsRead(d)>> \in Seq(Seq(Nat))
      BY <3>1
    <3> QED BY <2>1, <2>3, <3>2, Zenon DEF SeenOf
  <2> QED BY <2>2, <2>3
<1>4. PICK s : s = Streamed(texts)
  OBVIOUS
<1>5. s = [k \in 1 .. n |-> Event(texts[k])]
  BY <1>1, <1>4, Zenon DEF Streamed
<1>6. PICK r : r = Seen(texts)
  OBVIOUS
<1>7. r = [k \in 1 .. n |-> SeenOf(texts[k])]
  BY <1>1, <1>6, Zenon DEF Seen
<1>8. s \in Seq(Seq(Nat)) /\ Len(s) = n /\ \A k \in 1 .. n : s[k] = Event(texts[k])
  BY <1>2, <1>5
<1>9. r \in Seq(Seq(Seq(Nat))) /\ Len(r) = n /\ \A k \in 1 .. n : r[k] = SeenOf(texts[k])
  BY <1>3, <1>7
<1> QED BY <1>4, <1>6, <1>8, <1>9, Zenon

\* Whatever was read before, the events of the texts are read behind it.
StreamRead(texts) ==
  \A E \in Seq(Seq(Nat)) :
    Reads(FlattenSeq(Streamed(texts)), ReaderAt(E, <<>>),
          ReaderAt(E \o FlattenSeq(Seen(texts)), <<>>))

LEMMA StreamReadNone == StreamRead(<<>>)
<1>1. DOMAIN <<>> = {} /\ Len(<<>>) = 0 /\ <<>> \in Seq(Seq(Nat))
  OBVIOUS
<1>2. Streamed(<<>>) = <<>>
  <2>1. PICK s : s = Streamed(<<>>)
    OBVIOUS
  <2>2. s \in Seq(Seq(Nat)) /\ Len(s) = 0
    BY <1>1, <2>1, StreamTypes
  <2> QED BY <2>1, <2>2, EmptySeq
<1>3. Seen(<<>>) = <<>>
  <2>1. PICK s : s = Seen(<<>>)
    OBVIOUS
  <2>2. s \in Seq(Seq(Seq(Nat))) /\ Len(s) = 0
    BY <1>1, <2>1, StreamTypes
  <2> QED BY <2>1, <2>2, EmptySeq
<1> SUFFICES ASSUME NEW E \in Seq(Seq(Nat))
             PROVE  Reads(<<>>, ReaderAt(E, <<>>), ReaderAt(E \o <<>>, <<>>))
  BY <1>2, <1>3, FlattenNone, Zenon DEF StreamRead
<1>4. E \o <<>> = E
  BY ConcatEmptySeq
<1>5. Leads(<<>>, 0, ReaderAt(E, <<>>), ReaderAt(E, <<>>))
  BY LeadsNone
<1> QED BY <1>1, <1>4, <1>5, LinesOfNothing, Zenon DEF Reads

LEMMA StreamReadMore ==
  ASSUME NEW texts \in Seq(Seq(Nat)), NEW more \in Seq(Seq(Nat)), NEW n \in Nat,
         RestOf(more, texts, n), StreamRead(more)
  PROVE  StreamRead(texts)
<1>1. /\ Len(texts) = n + 1 /\ Len(more) = n /\ n + 1 \in Nat /\ 1 \in 1 .. n + 1
      /\ \A k \in 1 .. n : more[k] = texts[k + 1]
  BY DEF RestOf
<1>2. PICK d \in Seq(Nat) : d = texts[1]
  BY <1>1
<1>3. PICK s \in Seq(Seq(Nat)), sm \in Seq(Seq(Nat)) :
        s = Streamed(texts) /\ sm = Streamed(more)
  BY <1>1, StreamTypes
<1>4. PICK r \in Seq(Seq(Seq(Nat))), rm \in Seq(Seq(Seq(Nat))) :
        r = Seen(texts) /\ rm = Seen(more)
  BY <1>1, StreamTypes
<1>5. /\ Len(s) = n + 1 /\ Len(sm) = n /\ Len(r) = n + 1 /\ Len(rm) = n
      /\ \A k \in 1 .. n + 1 : s[k] = Event(texts[k]) /\ r[k] = SeenOf(texts[k])
      /\ \A k \in 1 .. n : sm[k] = Event(more[k]) /\ rm[k] = SeenOf(more[k])
  <2>1. /\ Len(Streamed(texts)) = n + 1 /\ Len(Seen(texts)) = n + 1
        /\ \A k \in 1 .. n + 1 : Streamed(texts)[k] = Event(texts[k])
        /\ \A k \in 1 .. n + 1 : Seen(texts)[k] = SeenOf(texts[k])
    BY <1>1, StreamTypes
  <2>2. /\ Len(Streamed(more)) = n /\ Len(Seen(more)) = n
        /\ \A k \in 1 .. n : Streamed(more)[k] = Event(more[k])
        /\ \A k \in 1 .. n : Seen(more)[k] = SeenOf(more[k])
    BY <1>1, StreamTypes
  <2> QED BY <1>3, <1>4, <2>1, <2>2, Zenon
<1>6. s[1] = Event(d) /\ r[1] = SeenOf(d)
  BY <1>1, <1>2, <1>5, Zenon
<1>7. RestOf(sm, s, n) /\ RestOf(rm, r, n)
  <2>1. ASSUME NEW k \in 1 .. n PROVE k + 1 \in 1 .. n + 1
    OBVIOUS
  <2> QED BY <1>1, <1>5, <2>1, Zenon DEF RestOf
<1>8. FlattenSeq(s) = Event(d) \o FlattenSeq(sm)
  BY <1>6, <1>7, FlattenFirst
<1>9. FlattenSeq(r) = SeenOf(d) \o FlattenSeq(rm)
  BY <1>6, <1>7, FlattenFirst
<1>10. PICK rest \in Seq(Nat) : rest = FlattenSeq(sm)
  BY FlattenType
<1>11. PICK tail \in Seq(Seq(Nat)) : tail = FlattenSeq(rm)
  BY FlattenType
<1>12. PICK first \in Seq(Seq(Nat)) : first = SeenOf(d)
  <2>1. r[1] \in Seq(Seq(Nat))
    BY <1>1, <1>5
  <2> QED BY <1>6, <2>1
<1> SUFFICES ASSUME NEW E \in Seq(Seq(Nat))
             PROVE  Reads(Event(d) \o rest, ReaderAt(E, <<>>),
                          ReaderAt(E \o (first \o tail), <<>>))
  BY <1>3, <1>4, <1>8, <1>9, <1>10, <1>11, <1>12, Zenon DEF StreamRead
<1>13. E \o first \in Seq(Seq(Nat))
  BY ConcatProperties
<1>14. (E \o first) \o tail = E \o (first \o tail)
  BY EventsJoin
<1>15. Reads(rest, ReaderAt(E \o first, <<>>), ReaderAt((E \o first) \o tail, <<>>))
  BY <1>3, <1>4, <1>10, <1>11, <1>13, Zenon DEF StreamRead
<1>16. Reads(rest, ReaderAt(E \o SeenOf(d), <<>>), ReaderAt(E \o (first \o tail), <<>>))
  BY <1>12, <1>14, <1>15, Zenon
<1> QED BY <1>16, EventRead

LEMMA StreamReads ==
  ASSUME NEW texts \in Seq(Seq(Nat))
  PROVE  StreamRead(texts)
<1> DEFINE Bad == {n \in Nat : \E e \in Seq(Seq(Nat)) : Len(e) = n /\ ~StreamRead(e)}
<1>1. CASE Bad = {}
  <2>1. Len(texts) \in Nat
    OBVIOUS
  <2> QED BY <1>1, <2>1, Zenon
<1>2. CASE Bad # {}
  <2>1. PICK m \in Bad : \A i \in Bad : m <= i
    <3>1. Bad \in SUBSET Nat
      OBVIOUS
    <3> HIDE DEF Bad
    <3> QED BY <1>2, <3>1, LeastNumber
  <2>2. PICK e \in Seq(Seq(Nat)) : Len(e) = m /\ ~StreamRead(e)
    BY <2>1, Zenon
  <2>3. e # <<>>
    BY <2>2, StreamReadNone, Zenon
  <2>4. PICK n \in Nat : m = n + 1 /\ ~(m <= n)
    <3>1. m \in Nat /\ m # 0
      BY <2>2, <2>3, EmptySeq
    <3>2. m - 1 \in Nat /\ m = (m - 1) + 1 /\ ~(m <= m - 1)
      BY <3>1
    <3> QED BY <3>2
  <2>5. PICK more \in Seq(Seq(Nat)) : RestOf(more, e, n)
    <3>1. Tail(e) \in Seq(Seq(Nat)) /\ Len(Tail(e)) = n
          /\ \A k \in 1 .. n : Tail(e)[k] = e[k + 1]
      BY <2>2, <2>3, <2>4
    <3>2. RestOf(Tail(e), e, n)
      BY <2>2, <2>4, <3>1, Zenon DEF RestOf
    <3> QED BY <3>1, <3>2, Zenon
  <2>6. StreamRead(more)
    <3>1. Len(more) = n
      BY <2>5 DEF RestOf
    <3> QED BY <2>1, <2>4, <3>1, Zenon
  <2> QED BY <2>2, <2>5, <2>6, StreamReadMore
<1> QED BY <1>1, <1>2

-----------------------------------------------------------------------------
(* What a handler streams.                                                 *)

\* Of the builders only cttp_sse_send adds to what is streamed.
LEMMA CallEvents ==
  ASSUME NEW r, NEW head, Composed(r, head), NEW call \in Calls
  PROVE  Call(r, call).events =
           IF call.op = "event" THEN Append(r.events, Event(call.body)) ELSE r.events
<1>0. Framed(r)
  BY DEF Composed
<1>1. CASE call.op = "send"
  BY <1>0, <1>1 DEF Call, Send, Framed
<1>11. CASE call.op = "json"
  BY <1>0, <1>11 DEF Call, JsonErr, Send, Framed
<1>2. CASE call.op = "redirect"
  BY <1>0, <1>2 DEF Call, Redirect, SetHeader, AddLine, Framed
<1>3. CASE call.op = "no_content"
  BY <1>0, <1>3 DEF Call, NoContent, Framed
<1>4. CASE call.op = "chunked"
  BY <1>0, <1>4 DEF Call, StreamAsChunks, Framed
<1>5. CASE call.op = "header" \/ call.op = "no header"
  BY <1>0, <1>5 DEF Call, SetHeader, AddLine, Framed
<1>6. CASE call.op = "cookie"
  BY <1>0, <1>6 DEF Call, AddLine, Framed
<1>7. CASE call.op = "start"
  BY <1>0, <1>7 DEF Call, SseStart, Framed
<1>8. CASE call.op = "event"
  <2>1. PICK q, e : q = SseStart(r) /\ e = Event(call.body)
    OBVIOUS
  <2>2. "events" \in DOMAIN q /\ q.events = r.events
    BY <1>0, <2>1 DEF SseStart, Framed
  <2>3. Call(r, call) = [q EXCEPT !.events = Append(@, e)]
    BY <1>8, <2>1, Zenon DEF Call, SseSend
  <2>4. Call(r, call).events = Append(r.events, e)
    BY <2>2, <2>3
  <2> QED BY <1>8, <2>1, <2>4
<1>9. call.op = "send" \/ call.op \in Plain \/ call.op = "event"
  BY DEF Calls
<1>10. call.op \in Plain =>
        \/ call.op \in {"json", "redirect", "no_content", "chunked", "header"}
        \/ call.op \in {"no header", "cookie", "start"}
  BY DEF Plain
<1> QED
  BY <1>1, <1>2, <1>3, <1>4, <1>5, <1>6, <1>7, <1>8, <1>9, <1>10, <1>11

\* One more text, one more event.
LEMMA StreamedMore ==
  ASSUME NEW texts \in Seq(Seq(Nat)), NEW d \in Seq(Nat)
  PROVE  Streamed(Append(texts, d)) = Append(Streamed(texts), Event(d))
<1>1. PICK n \in Nat : n = Len(texts)
  OBVIOUS
<1>2. PICK all : all = Append(texts, d)
  OBVIOUS
<1>3. /\ all \in Seq(Seq(Nat)) /\ Len(all) = n + 1 /\ all[n + 1] = d
      /\ \A k \in 1 .. n : all[k] = texts[k]
  BY <1>1, <1>2
<1>4. PICK s \in Seq(Seq(Nat)) : s = Streamed(texts) /\ Len(s) = n
                                 /\ \A k \in 1 .. n : s[k] = Event(texts[k])
  BY <1>1, StreamTypes
<1>5. PICK more \in Seq(Seq(Nat)) : more = Streamed(all) /\ Len(more) = n + 1
                                 /\ \A k \in 1 .. n + 1 : more[k] = Event(all[k])
  <2>1. n + 1 \in Nat /\ n + 1 = Len(all)
    BY <1>3
  <2>2. /\ Streamed(all) \in Seq(Seq(Nat)) /\ Len(Streamed(all)) = n + 1
        /\ \A k \in 1 .. n + 1 : Streamed(all)[k] = Event(all[k])
    BY <1>3, <2>1, StreamTypes
  <2> QED BY <2>2
<1>6. PICK e \in Seq(Nat) : e = Event(d) /\ e = more[n + 1]
  <2>1. n + 1 \in 1 .. n + 1
    OBVIOUS
  <2>2. more[n + 1] = Event(d) /\ more[n + 1] \in Seq(Nat)
    BY <1>3, <1>5, <2>1
  <2> QED BY <2>2
<1>7. /\ Append(s, e) \in Seq(Seq(Nat)) /\ Len(Append(s, e)) = n + 1
      /\ Append(s, e)[n + 1] = e /\ \A k \in 1 .. n : Append(s, e)[k] = s[k]
  BY <1>4
<1>8. ASSUME NEW k \in 1 .. n + 1 PROVE more[k] = Append(s, e)[k]
  <2>1. CASE k = n + 1
    BY <1>6, <1>7, <2>1
  <2>2. CASE k # n + 1
    <3>1. k \in 1 .. n
      BY <2>2
    <3> QED BY <1>3, <1>4, <1>5, <1>7, <3>1
  <2> QED BY <2>1, <2>2
<1>9. more = Append(s, e)
  BY <1>5, <1>7, <1>8, SeqEqual
<1> QED BY <1>2, <1>4, <1>5, <1>6, <1>9, Zenon

\* Events of texts without CR are without CR.
LEMMA StreamWithoutReturn ==
  ASSUME NEW texts \in Seq(Seq(Nat)), \A k \in DOMAIN texts : WithoutReturn(texts[k])
  PROVE  WithoutReturn(FlattenSeq(Streamed(texts)))
<1>1. PICK S \in SUBSET Nat : S = Nat \ {Return} /\ DataField \in S /\ Newline \in S
  <2>1. DataField \in Nat \ {Return} /\ Newline \in Nat \ {Return}
    BY DEF DataField, Newline, Return
  <2>2. Nat \ {Return} \in SUBSET Nat
    OBVIOUS
  <2> QED BY <2>1, <2>2, Zenon
<1>2. PICK n \in Nat : n = Len(texts) /\ DOMAIN texts = 1 .. n
  OBVIOUS
<1>3. ASSUME NEW k \in 1 .. n PROVE Event(texts[k]) \in Seq(S)
  <2>1. PICK d \in Seq(Nat) : d = texts[k] /\ WithoutReturn(d)
    <3>1. k \in DOMAIN texts /\ texts[k] \in Seq(Nat)
      BY <1>2
    <3> QED BY <3>1
  <2>2. d \in Seq(S)
    <3>1. ASSUME NEW i \in 1 .. Len(d) PROVE d[i] \in S
      BY <1>1, <2>1 DEF WithoutReturn
    <3>2. Len(d) \in Nat /\ d = [i \in 1 .. Len(d) |-> d[i]]
      BY <2>1
    <3>3. [i \in 1 .. Len(d) |-> d[i]] \in Seq(S)
      BY <3>1, <3>2
    <3> QED BY <3>2, <3>3
  <2>3. Event(d) \in Seq(S)
    BY <1>1, <2>2, EventOver
  <2> QED BY <2>1, <2>3, Zenon
<1>4. PICK es : es = Streamed(texts)
  OBVIOUS
<1>5. es = [k \in 1 .. n |-> Event(texts[k])]
  BY <1>2, <1>4, Zenon DEF Streamed
<1>6. es \in Seq(Seq(S))
  BY <1>3, <1>5
<1>7. PICK content : content = FlattenSeq(es) /\ content \in Seq(S)
  BY <1>6, FlattenType
<1>8. WithoutReturn(content)
  BY <1>1, <1>7 DEF WithoutReturn
<1> QED BY <1>4, <1>7, <1>8, Zenon

\* In a text without CR the line ends are alike already.
LEMMA UnifiedSame ==
  ASSUME NEW text \in Seq(Nat), WithoutReturn(text)
  PROVE  Unified(text) = text
<1>1. PICK n \in Nat : n = Len(text) /\ DOMAIN text = 1 .. n
  OBVIOUS
<1>2. PICK s : s = [k \in DOMAIN text |->
                     IF text[k] = Return THEN <<Newline>>
                     ELSE IF text[k] = Newline /\ k > 1 /\ text[k - 1] = Return THEN <<>>
                     ELSE <<text[k]>>]
  OBVIOUS
<1>3. Unified(text) = FlattenSeq(s)
  BY <1>2, Zenon DEF Unified
<1>4. ASSUME NEW k \in 1 .. n PROVE s[k] = <<text[k]>>
  <2>1. text[k] # Return
    BY <1>1 DEF WithoutReturn
  <2>2. k > 1 => text[k - 1] # Return
    <3>1. k > 1 => k - 1 \in 1 .. Len(text)
      BY <1>1
    <3> QED BY <3>1 DEF WithoutReturn
  <2> QED BY <1>1, <1>2, <2>1, <2>2, Zenon
<1>5. s = [k \in 1 .. n |-> <<text[k]>>]
  <2>1. s = [k \in 1 .. n |-> s[k]]
    BY <1>1, <1>2
  <2> QED BY <1>4, <2>1
<1>6. s \in Seq(Seq(Nat)) /\ Len(s) = n
  <2>1. \A k \in 1 .. n : <<text[k]>> \in Seq(Nat)
    BY <1>1
  <2> QED BY <1>5, <2>1
<1>7. CASE n = 0
  <2>1. s = <<>> /\ text = <<>>
    BY <1>1, <1>6, <1>7, EmptySeq
  <2> QED BY <1>3, <2>1, FlattenNone, Zenon
<1>8. CASE n # 0
  <2> DEFINE g == [i \in 1 .. n |-> SubSeq(text, 1, i)]
  <2>1. g = [i \in 1 .. n |-> g[i]] /\ \A i \in 1 .. n : g[i] = SubSeq(text, 1, i)
    OBVIOUS
  <2> HIDE DEF g
  <2>2. ASSUME NEW i \in 1 .. n
        PROVE  g[i] = IF i = 1 THEN s[i] ELSE g[i - 1] \o s[i]
    <3>1. CASE i = 1
      <4>1. 1 \in 1 .. n
        BY <1>8
      <4>2. SubSeq(text, 1, 1) = <<text[1]>>
        <5>1. /\ SubSeq(text, 1, 1) \in Seq(Nat) /\ Len(SubSeq(text, 1, 1)) = 1
              /\ SubSeq(text, 1, 1)[1] = text[1]
          BY <1>1, <4>1, SubSeqProperties
        <5>2. <<text[1]>> \in Seq(Nat) /\ Len(<<text[1]>>) = 1
          BY <1>1, <4>1
        <5>3. PICK a \in Seq(Nat) : /\ a = SubSeq(text, 1, 1) /\ Len(a) = 1 /\ a[1] = text[1]
          BY <5>1, Zenon
        <5>4. PICK c \in Seq(Nat) : /\ c = <<text[1]>> /\ Len(c) = 1 /\ c[1] = text[1]
          BY <5>2
        <5>5. \A j \in 1 .. Len(a) : a[j] = c[j]
          BY <5>3, <5>4
        <5>6. a = c
          BY <5>3, <5>4, <5>5, SeqEqual
        <5> QED BY <5>3, <5>4, <5>6, Zenon
      <4> QED BY <1>4, <2>1, <3>1, <4>1, <4>2, Zenon
    <3>2. CASE i # 1
      <4>1. i - 1 \in 1 .. n
        BY <3>2
      <4>2. SubSeq(text, 1, i) = SubSeq(text, 1, i - 1) \o <<text[i]>>
        BY <1>1, <3>2
      <4> QED BY <1>4, <2>1, <3>2, <4>1, <4>2, Zenon
    <3> QED BY <3>1, <3>2
  <2>3. Joins(g, s, n)
    BY <2>1, <2>2, Zenon DEF Joins
  <2>4. FlattenSeq(s) = g[n]
    BY <1>6, <1>8, <2>3, FlattenIs
  <2>5. g[n] = text
    <3>1. n \in 1 .. n
      BY <1>8
    <3>2. SubSeq(text, 1, n) = text
      BY <1>1
    <3> QED BY <2>1, <3>1, <3>2, Zenon
  <2> QED BY <1>3, <2>4, <2>5, Zenon
<1> QED BY <1>7, <1>8

\* What a handler has streamed so far is what it has pushed, as events.
PushedInv == ~webroot => pushed \in Seq(Seq(Nat)) /\ res.events = Streamed(pushed)

LEMMA NothingPushed == ASSUME NEW head PROVE BlankResponse(head).events = Streamed(<<>>)
<1>1. <<>> \in Seq(Seq(Nat)) /\ Len(<<>>) = 0
  OBVIOUS
<1>2. PICK s : s = Streamed(<<>>)
  OBVIOUS
<1>3. s \in Seq(Seq(Nat)) /\ Len(s) = 0
  BY <1>1, <1>2, StreamTypes
<1>4. s = <<>>
  BY <1>3, EmptySeq
<1>5. BlankResponse(head).events = <<>>
  BY DEF BlankResponse
<1> QED BY <1>2, <1>4, <1>5, Zenon

LEMMA PushedInit == Init => PushedInv
<1> SUFFICES ASSUME Init PROVE PushedInv
  OBVIOUS
<1>1. res = BlankResponse(FALSE) /\ pushed = <<>> /\ <<>> \in Seq(Seq(Nat))
  BY DEF Init
<1> QED BY <1>1, NothingPushed, Zenon DEF PushedInv

LEMMA PushedStep ==
  BodiesAssumption /\ PushedInv /\ HandlerInv /\ BuildersInv /\ [Next]_vars => PushedInv'
<1> SUFFICES ASSUME BodiesAssumption, PushedInv, HandlerInv, BuildersInv, [Next]_vars
             PROVE  PushedInv'
  OBVIOUS
<1>1. webroot' = webroot
  BY DEF Next, Server, World, AskForFile, AskRoute, Begin, HandlerCalls, HandlerReturns,
         Respond, vars
<1>2. CASE webroot
  BY <1>1, <1>2 DEF PushedInv
<1>3. ASSUME ~webroot, UNCHANGED <<res, pushed>>
      PROVE  PushedInv'
  <2>1. res' = res /\ pushed' = pushed
    BY <1>3
  <2> QED BY <1>1, <1>3, <2>1 DEF PushedInv, Streamed
<1>4. CASE ~webroot /\ AskRoute
  <2>1. PICK isHead \in BOOLEAN, keep \in BOOLEAN :
          Begin([NoRequest EXCEPT !.path = "route", !.head = isHead, !.keep = keep])
    BY <1>4 DEF AskRoute
  <2>2. PICK r : r = [NoRequest EXCEPT !.path = "route", !.head = isHead, !.keep = keep]
    OBVIOUS
  <2>3. res' = BlankResponse(r.head) /\ pushed' = <<>>
    BY <2>1, <2>2 DEF Begin, NewResponse
  <2>4. <<>> \in Seq(Seq(Nat))
    OBVIOUS
  <2>5. res'.events = Streamed(pushed')
    BY <2>3, NothingPushed, Zenon
  <2>6. pushed' \in Seq(Seq(Nat))
    BY <2>3, <2>4, Zenon
  <2> QED BY <2>5, <2>6 DEF PushedInv, Streamed
<1>5. CASE ~webroot /\ HandlerCalls
  <2>1. PICK call \in Calls :
          /\ res' = Call(res, call)
          /\ pushed' = IF call.op = "event" THEN Append(pushed, call.body) ELSE pushed
    BY <1>5 DEF HandlerCalls
  <2>2. PICK p \in Seq(Seq(Nat)) : p = pushed /\ res.events = Streamed(p)
    BY <1>5 DEF PushedInv
  <2>3. res'.events =
          IF call.op = "event" THEN Append(res.events, Event(call.body)) ELSE res.events
    <3>1. Composed(res, req.head)
      BY <1>5 DEF HandlerInv
    <3> QED BY <2>1, <3>1, CallEvents
  <2>4. pushed' \in Seq(Seq(Nat)) /\ res'.events = Streamed(pushed')
    <3>1. CASE call.op = "event"
      <4>1. PICK d \in Seq(Nat) : d = call.body
        <5>1. call.body \in Events
          BY <3>1 DEF Calls, Plain
        <5>2. call.body \in Seq(Nat)
          BY <5>1 DEF BodiesAssumption
        <5> QED BY <5>2
      <4>2. Append(p, d) \in Seq(Seq(Nat))
        OBVIOUS
      <4>3. Streamed(Append(p, d)) = Append(Streamed(p), Event(d))
        BY StreamedMore
      <4> QED BY <2>1, <2>2, <2>3, <3>1, <4>1, <4>2, <4>3, Zenon
    <3>2. CASE call.op # "event"
      BY <2>1, <2>2, <2>3, <3>2, Zenon
    <3> QED BY <3>1, <3>2
  <2> QED BY <2>4 DEF PushedInv, Streamed
<1>6. CASE ~webroot /\ (HandlerReturns \/ Respond)
  BY <1>3, <1>6 DEF HandlerReturns, Respond, handlerVars
<1>7. CASE ~webroot /\ StaticServe
  BY <1>7 DEF StaticServe, RefusePath, OpenFails, OpenPath, StatDirectory, NotModified,
              Unsatisfiable, SeekRange, WholeFile, StatFile, SizeAgain, Read, ReadDone,
              ReadFails, BuildersInv
<1>8. CASE ~webroot /\ World
  BY <1>3, <1>8 DEF World, handlerVars
<1>9. CASE ~webroot /\ UNCHANGED vars
  BY <1>3, <1>9 DEF vars, handlerVars
<1> QED BY <1>2, <1>4, <1>5, <1>6, <1>7, <1>8, <1>9 DEF Next, Server, AskForFile

LEMMA PushedInvariance == Spec => [](AllInv /\ PushedInv)
<1> USE RequestsAssumption, BodiesAssumption, StaticAssumption
<1>1. Init => AllInv /\ PushedInv
  BY NamedInit, FileInit, DescriptorInit, BuildersInit, HandlerInit, PushedInit DEF AllInv
<1>2. AllInv /\ PushedInv /\ [Next]_vars => (AllInv /\ PushedInv)'
  BY NamedStep, FileStep, DescriptorStep, BuildersStep, HandlerStep, PushedStep DEF AllInv
<1> QED BY <1>1, <1>2, PTL DEF Spec

(***************************************************************************)
(* Whatever texts without CR a handler streams, of however many lines and  *)
(* with whatever builder calls between them, an EventSource, for which CR  *)
(* and CR LF end lines too, reads them back in order, each as it was       *)
(* pushed but for a final newline; one without data is not seen.           *)
(***************************************************************************)
THEOREM StreamsReadBack == Spec => []EventsRead
<1>1. AllInv /\ PushedInv => EventsRead
  <2> SUFFICES ASSUME AllInv, PushedInv, Answered, res.streamed, ~req.head,
                      \A k \in DOMAIN pushed : WithoutReturn(pushed[k])
               PROVE  Received(ContentOf(wire, FALSE)) = FlattenSeq(Seen(pushed))
    BY Zenon DEF EventsRead, Seen, SeenOf
  <2>1. /\ wire = Finalize(res, req.keep) /\ ~webroot /\ Composed(res, req.head)
    BY AnswerKnown
  <2>2. PICK p \in Seq(Seq(Nat)) : p = pushed /\ res.events = Streamed(p)
    BY <2>1 DEF PushedInv
  <2>3. ContentOf(wire, FALSE) = FlattenSeq(Streamed(p))
    <3>1. \A k \in 1 .. Len(res.events) : res.events[k] # <<>>
      BY <2>1, Zenon DEF Composed
    <3>2. ContentOf(Finalize(res, req.keep), FALSE) = FlattenSeq(res.events)
      BY <3>1, StreamDelimited
    <3> QED BY <2>1, <2>2, <3>2, Zenon
  <2>4. PICK content : content = FlattenSeq(Streamed(p)) /\ content \in Seq(Nat)
    <3>1. Streamed(p) \in Seq(Seq(Nat))
      BY StreamTypes
    <3>2. FlattenSeq(Streamed(p)) \in Seq(Nat)
      BY <3>1, FlattenType
    <3> QED BY <3>2
  <2>5. PICK shown \in Seq(Seq(Nat)) : shown = FlattenSeq(Seen(p))
    <3>1. Seen(p) \in Seq(Seq(Seq(Nat)))
      BY StreamTypes
    <3>2. FlattenSeq(Seen(p)) \in Seq(Seq(Nat))
      BY <3>1, FlattenType
    <3> QED BY <3>2
  <2>6. Reads(content, ReaderAt(<<>>, <<>>), ReaderAt(shown, <<>>))
    <3>1. <<>> \in Seq(Seq(Nat)) /\ <<>> \o shown = shown
      BY ConcatEmptySeq
    <3>2. StreamRead(p)
      BY StreamReads
    <3>3. Reads(content, ReaderAt(<<>>, <<>>), ReaderAt(<<>> \o shown, <<>>))
      BY <2>4, <2>5, <3>1, <3>2, Zenon DEF StreamRead
    <3> QED BY <3>1, <3>3, Zenon
  <2>8. Unified(content) = content
    <3>1. WithoutReturn(FlattenSeq(Streamed(p)))
      BY <2>2, StreamWithoutReturn
    <3>2. WithoutReturn(content)
      BY <2>4, <3>1, Zenon
    <3> QED BY <2>4, <3>2, UnifiedSame
  <2>7. Received(content) = shown
    <3>1. PICK t : t = ReaderAt(shown, <<>>)
      OBVIOUS
    <3>2. Leads(Lines(content), Len(Lines(content)), ReaderAt(<<>>, <<>>), t)
      BY <2>6, <3>1, Zenon DEF Reads
    <3>3. Lines(content) \in Seq(Seq(Nat))
      BY <2>4, LinesType
    <3>4. Len(Lines(content)) \in Nat
      BY <3>3
    <3>7. PICK lines : lines = Lines(content)
      OBVIOUS
    <3>8. PICK n \in Nat : n = Len(lines)
      BY <3>4, <3>7
    <3>9. lines = Lines(Unified(content)) /\ Leads(lines, n, ReaderAt(<<>>, <<>>), t)
      BY <2>8, <3>2, <3>7, <3>8, Zenon
    <3>5. Received(content) = t.events
      BY <3>8, <3>9, ReceivedIs
    <3>6. t.events = shown
      BY <3>1, ReaderFields, Zenon
    <3> QED BY <3>5, <3>6, Zenon
  <2> QED BY <2>2, <2>3, <2>4, <2>5, <2>7, Zenon
<1> QED BY <1>1, PushedInvariance, PTL

=============================================================================
