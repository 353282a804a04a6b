----------------------------- MODULE StaticFile -----------------------------
(***************************************************************************)
(* static_serve of internals/static.c, system call by system call, while   *)
(* another process rewrites the file in place or renames a new one over it.*)
(* The web root holds one page: a file, or a directory with an index.html. *)
(*                                                                         *)
(* A byte of a file is the number of the write it comes from, so that two  *)
(* contents are equal only if they are the same bytes of the same write.   *)
(***************************************************************************)
EXTENDS Response

CONSTANTS
  MaxLen,      \* bound: the length of a file
  MaxWrites,   \* bound: how often the other process writes
  MaxTime,     \* bound: the clock, in the seconds of st_mtime, stops here
  Modulus,     \* 2^64: unsigned long long counts modulo it
  ReadErrors   \* whether read() may fail

ASSUME StaticAssumption ==
  /\ MaxWrites \in Nat /\ MaxTime \in Nat /\ ReadErrors \in BOOLEAN
  /\ Modulus \in Nat /\ MaxLen \in 0 .. Modulus - 1

VARIABLES
  tree,     \* what a name is: an inode, Directory or Missing
  files,    \* files[ino]: content and st_mtime
  writes,   \* how many writes there have been
  now,      \* the clock
  history   \* size and time of every write there has been (no file system variable)

fsVars == <<tree, files, writes, now, history>>

VARIABLES
  pc,       \* what static_serve does next
  req,      \* the request: path, If-None-Match, Range
  fd,       \* the file open as fd, and the file position
  opened,   \* how many descriptors are open
  st,       \* the result of fstat(fd, &st)
  from,     \* start of the range
  want,     \* how many bytes are to be read
  data,     \* what has been read
  res,      \* the response
  seen      \* the file that was stat'ed, as it was then (no C variable)

readVars == <<fd, opened, st, from, want, data, seen>>

Names == {"page", "index"}
Inodes == 1 .. MaxWrites + 1
Missing == 0
Directory == -1
Unseen == [ino |-> 0, file |-> [by |-> 0, data |-> <<>>, mtime |-> 0]]
None == [ino |-> 0, pos |-> 0]

\* A file of n bytes as the given write leaves it.
File(write, n, time) == [by |-> write, data |-> [k \in 1 .. n |-> write], mtime |-> time]

\* snprintf(etag, "%zx-%zx", st_size, st_mtime)
TagBySize(s) == <<s.size, 0>>       \* broken: only the size
Tag(s) == <<s.size, s.mtime>>

Stat(f) == [size |-> Len(f.data), mtime |-> f.mtime]

Known(f) == <<Stat(f), f.by>>

FsInit(withPage) ==
  /\ \E n \in 0 .. MaxLen :
       files = [ino \in Inodes |-> IF ino = 1 THEN File(1, n, 0) ELSE File(0, 0, 0)]
  /\ tree \in IF withPage
                THEN {[page |-> 1, index |-> Missing], [page |-> Directory, index |-> 1],
                      [page |-> Directory, index |-> Missing]}
                ELSE {[page |-> Missing, index |-> Missing]}
  /\ writes = 1
  /\ now = 0
  /\ history = {Known(files[1])}

-----------------------------------------------------------------------------
(* The other process.                                                      *)

Writes(ino, n) ==
  /\ writes <= MaxWrites
  /\ writes' = writes + 1
  /\ files' = [files EXCEPT ![ino] = File(writes + 1, n, now)]
  /\ history' = history \cup {Known(files'[ino])}
  /\ UNCHANGED now

\* open(O_TRUNC) and write: those who have the file open see it change.
Rewrite(name) ==
  /\ tree[name] \in Inodes
  /\ \E n \in 0 .. MaxLen : Writes(tree[name], n)
  /\ UNCHANGED tree

\* rename(2) of a new file: those who have the old one open keep it.
Replace(name) ==
  /\ tree[name] \in Inodes
  /\ \E n \in 0 .. MaxLen : Writes(writes + 1, n)
  /\ tree' = [tree EXCEPT ![name] = writes + 1]

Tick == now < MaxTime /\ now' = now + 1 /\ UNCHANGED <<tree, files, writes, history>>

-----------------------------------------------------------------------------
(* Opening.                                                                *)

Fails(status) == res' = JsonErr(res, status) /\ pc' = "answer"

\* is_unsafe_path.
RefusePath ==
  /\ pc = "static"
  /\ req.path = "dotted"
  /\ Fails(403)
  /\ UNCHANGED <<req, readVars>>

NameOf(path) == IF path = "slash" THEN "index" ELSE "page"

OpenFails ==
  /\ pc = "static"
  /\ req.path # "dotted"
  /\ tree[NameOf(req.path)] = Missing
  /\ Fails(404)
  /\ UNCHANGED <<req, readVars>>

OpenPath ==
  /\ pc = "static"
  /\ req.path # "dotted"
  /\ tree[NameOf(req.path)] # Missing
  /\ fd' = [ino |-> tree[NameOf(req.path)], pos |-> 0]
  /\ opened' = opened + 1
  /\ pc' = "stat"
  /\ UNCHANGED <<req, res, st, from, want, data, seen>>

LeftOpen == opened + 1      \* broken: the directory is not closed
Reopened == opened          \* close(fd), then open() again

\* "/dir" without the slash: its index.html is opened instead.
StatDirectory ==
  /\ pc = "stat"
  /\ fd.ino = Directory
  /\ \/ /\ tree["index"] = Missing
        /\ opened' = Reopened - 1
        /\ fd' = None
        /\ Fails(404)
     \/ /\ tree["index"] # Missing
        /\ opened' = Reopened
        /\ fd' = [ino |-> tree["index"], pos |-> 0]
        /\ UNCHANGED <<pc, res>>
  /\ UNCHANGED <<req, st, from, want, data, seen>>

-----------------------------------------------------------------------------
(* fstat, and what is decided from it.                                     *)

UpToTheEnd(first, total) == first <= total      \* broken: off by one
WithinFile(first, total) == first < total

\* %llu reads "-n" as 2^64 - n.
First(r) == IF r.form = "suffix" THEN (Modulus - r.a) % Modulus ELSE r.a

\* sscanf("bytes=%llu-%llu"), then sscanf("bytes=%llu-"): the first and last
\* position to be sent, or none.
Slice(r, total) ==
  LET first == First(r)
      last  == IF r.form = "both" /\ r.b >= first /\ r.b < total THEN r.b ELSE total - 1
  IN  IF r.form # "junk" /\ WithinFile(first, total) THEN <<first, last>> ELSE <<>>

Closed == fd' = None /\ opened' = opened - 1

StatFile(next) ==
  /\ pc = "stat"
  /\ fd.ino \in Inodes
  /\ st' = Stat(files[fd.ino])
  /\ seen' = [ino |-> fd.ino, file |-> files[fd.ino]]
  /\ data' = <<>>
  /\ next
  /\ UNCHANGED req

Fresh == req.inm = Tag(st')
WithTag(r) == SetHeader(r, "ETag", Tag(st))

NotModified ==
  StatFile(/\ Fresh
           /\ res' = SetHeader([res EXCEPT !.status = 304, !.no_body = TRUE],
                               "ETag", Tag(st'))
           /\ Closed
           /\ pc' = "answer"
           /\ UNCHANGED <<from, want>>)

Unsatisfiable ==
  StatFile(/\ ~Fresh
           /\ req.range.form # "none"
           /\ Slice(req.range, st'.size) = <<>>
           /\ res' = SetHeader([res EXCEPT !.status = 416, !.no_body = TRUE],
                               "Content-Range", <<"*", st'.size>>)
           /\ Closed
           /\ pc' = "answer"
           /\ UNCHANGED <<from, want>>)

SeekRange ==
  StatFile(LET slice == Slice(req.range, st'.size)
           IN  /\ ~Fresh
               /\ req.range.form # "none"
               /\ slice # <<>>
               /\ from' = slice[1]
               /\ want' = slice[2] - slice[1] + 1
               /\ fd' = [fd EXCEPT !.pos = slice[1]]
               /\ pc' = "read"
               /\ UNCHANGED <<res, opened>>)

WholeFile ==
  StatFile(/\ ~Fresh
           /\ req.range.form = "none"
           /\ pc' = "size"
           /\ UNCHANGED <<res, fd, opened, from, want>>)

\* read_whole_file asks for the size once more.
SizeAgain ==
  /\ pc = "size"
  /\ want' = Len(files[fd.ino].data)
  /\ pc' = "read"
  /\ UNCHANGED <<req, res, fd, opened, st, from, data, seen>>

-----------------------------------------------------------------------------
(* The read loops.                                                         *)

Left == want - Len(data)
Available == Len(files[fd.ino].data) - fd.pos

Read ==
  /\ pc = "read"
  /\ \E n \in 1 .. Left :
       /\ n <= Available
       /\ data' = data \o SubSeq(files[fd.ino].data, fd.pos + 1, fd.pos + n)
       /\ fd' = [fd EXCEPT !.pos = @ + n]
  /\ UNCHANGED <<pc, req, res, opened, st, from, want, seen>>

\* The 200 and the 206.
Served(bytes) ==
  IF req.range.form = "none"
    THEN WithTag(Send(res, 200, "file", bytes))
    ELSE SetHeader(Send(res, 206, "file", bytes), "Content-Range",
                   <<from, (from + Len(bytes) - 1) % Modulus, st.size>>)

\* All has been read, or the file ends before it should.
ReadDone ==
  /\ pc = "read"
  /\ Left = 0 \/ Available <= 0
  /\ res' = Served(data)
  /\ Closed
  /\ pc' = "answer"
  /\ UNCHANGED <<req, st, from, want, data, seen>>

\* read() fails: the whole file is given up, a range is sent as far as it came.
ReadFails ==
  /\ ReadErrors
  /\ pc = "read"
  /\ Left > 0
  /\ res' = IF req.range.form = "none" THEN JsonErr(res, 500) ELSE Served(data)
  /\ Closed
  /\ pc' = "answer"
  /\ UNCHANGED <<req, st, from, want, data, seen>>

StaticServe ==
  \/ RefusePath
  \/ OpenFails
  \/ OpenPath
  \/ StatDirectory
  \/ NotModified
  \/ Unsatisfiable
  \/ SeekRange
  \/ WholeFile
  \/ SizeAgain
  \/ Read
  \/ ReadDone
  \/ ReadFails

OtherProcess ==
  \/ \E name \in Names : Rewrite(name) \/ Replace(name)
  \/ Tick

=============================================================================
