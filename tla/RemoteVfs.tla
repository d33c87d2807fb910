----------------------------- MODULE RemoteVfs ------------------------------
(***************************************************************************)
(* The daemon's view of the host file system (remote_vfs.rs) and the       *)
(* supervisor code that serves it (lib.rs, invoke_vfs_handler): guests     *)
(* issue requests, hits are answered from a cache shared by all workers,   *)
(* misses travel to the host, and an answer is cached when the generation  *)
(* has not moved since the request was issued.  Every lock, send and       *)
(* receive is an await: between two of them other requests run.            *)
(*                                                                         *)
(* The component-indexed tree of cached nodes is the function from slot    *)
(* and path to answer that it represents; a subtree is a set of paths with *)
(* a common prefix.  File contents and metadata are one version number.    *)
(***************************************************************************)
EXTENDS Naturals, Sequences, FiniteSets

CONSTANTS
  Procs,         \* guest tasks with a file-system request of their own
  Paths,         \* normalized paths, as sequences of components
  Versions,      \* contents a file may have; 0 is what is no file
  Negative,      \* cache_vfs_negative
  ReadOnly,      \* contents whose metadata denies writing
  Unreadable,    \* contents whose metadata denies reading
  Methods,       \* the optional methods the host implements: rename, truncate
  Ops,           \* bound: the operations the guests use
  Drops,         \* bound: the operations in the middle of which executions end
  Outside        \* whether the application changes files behind the cache

Root == <<>>
Under(p, q) == Len(p) <= Len(q) /\ SubSeq(q, 1, Len(p)) = p
Parent(p) == IF p = Root THEN Root ELSE SubSeq(p, 1, Len(p) - 1)
Moved(q, from, to) == to \o SubSeq(q, Len(from) + 1, Len(q))
Name(p) == p[Len(p)]

Reads == {"stat", "read", "list"}
AllOps == Reads \cup {"write", "append", "truncate", "unlink", "rmdir", "mkdir",
                    "rename"}
ErrorCodes == {"NotFound", "IsDirectory", "NotDirectory", "AlreadyExists",
               "DirectoryNotEmpty", "PermissionDenied", "Io"}

ASSUME VfsAssumption ==
  /\ Root \in Paths /\ \A p \in Paths : Parent(p) \in Paths
  /\ Paths \subseteq Seq(STRING) /\ 0 \notin Versions
  /\ Negative \in BOOLEAN /\ Methods \subseteq {"rename", "truncate"}
  /\ ReadOnly \subseteq Versions /\ Unreadable \subseteq Versions
  /\ Outside \in BOOLEAN
  /\ Ops \subseteq AllOps /\ Drops \subseteq Ops

VARIABLES
  node,        \* the host's file system
  cache,       \* slot and path to answer
  pc, req,     \* per task: where its request is, and what it asks
  resp,        \* the host's response
  current,     \* whether the generation still is the one the task loaded
  gone,        \* whether the execution that asked is over
  out          \* an application change whose InvalidateVfs is on its way

vars == <<node, cache, pc, req, resp, current, gone, out>>

Absent == [kind |-> "absent", version |-> 0]
Dir == [kind |-> "dir", version |-> 0]
File(v) == [kind |-> "file", version |-> v]
Nodes == {Absent, Dir} \cup {File(v) : v \in Versions}

Answer(err, value) == [err |-> err, value |-> value]
NoAnswer == Answer("unknown", {})
Err(code) == Answer(code, {})
Found(n) == Answer("none", {<<"", n>>})
Keys == Reads \X Paths

\* What the host's stat, read and list return now.
HostStat(p) == IF node[p] = Absent THEN Err("NotFound") ELSE Found(node[p])
Children(p) == {q \in Paths : q # Root /\ Parent(q) = p /\ node[q] # Absent}
HostAnswer(k) ==
  LET p == k[2] IN
  IF node[p] = Absent \/ k[1] = "stat" THEN HostStat(p)
  ELSE IF node[p].version \in Unreadable THEN Err("PermissionDenied")
  ELSE IF k[1] = "read"
    THEN IF node[p] = Dir THEN Err("IsDirectory") ELSE Found(node[p])
  ELSE IF node[p] # Dir THEN Err("NotDirectory")
    ELSE Answer("none", {<<Name(q), node[q]>> : q \in Children(p)})

Answers == [err : ErrorCodes \cup {"none", "unknown"}, 
            value : SUBSET (({""} \cup {Name(p) : p \in Paths \ {Root}}) \X Nodes)]

TypeOK ==
  /\ node \in [Paths -> Nodes]
  /\ cache \in [Keys -> Answers]
  /\ pc \in [Procs -> {"idle", "looked", "sent", "resolved", "served", "insert", "inval"}]
  /\ req \in [Procs -> [op : AllOps, path : Paths, to : Paths,
                      hint : Answers, toHint : Answers]]
  /\ resp \in [Procs -> [answer : Answers, stat : Answers, invalidate : BOOLEAN]]
  /\ current \in [Procs -> BOOLEAN] /\ gone \in [Procs -> BOOLEAN]
  /\ out \in [step : {"idle", "changed", "bumped"}, path : Paths]

NoResponse == [answer |-> NoAnswer, stat |-> NoAnswer, invalidate |-> FALSE]
NoRequest == [op |-> "stat", path |-> Root, to |-> Root, hint |-> NoAnswer,
              toHint |-> NoAnswer]

Init ==
  /\ node \in [Paths -> Nodes]
  /\ node[Root] = Dir
  /\ \A p \in Paths \ {Root} : node[p] # Absent => node[Parent(p)] = Dir
  /\ cache = [k \in Keys |-> NoAnswer]
  /\ pc = [t \in Procs |-> "idle"]
  /\ req = [t \in Procs |-> NoRequest]
  /\ resp = [t \in Procs |-> NoResponse]
  /\ current = [t \in Procs |-> FALSE]
  /\ gone = [t \in Procs |-> FALSE]
  /\ out = [step |-> "idle", path |-> Root]

-----------------------------------------------------------------------------
(* The cache. *)

Known(a) == a # NoAnswer

\* response_is_cacheable under CachePolicy::Invalidated.
Cacheable(a) == a.err = "none" \/ (Negative /\ a.err \notin {"Io", "unknown"})

\* Mutant of Covers: the parent's listing is forgotten.
CoversSubtree(p, k) == Under(p, k[2])

\* What VfsCache::invalidate(p) drops: the subtree and the parent's listing.
Covers(p, k) == Under(p, k[2]) \/ k = <<"list", Parent(p)>>

\* VfsCache::invalidate.
Invalidated(c, p) == [k \in Keys |-> IF Covers(p, k) THEN NoAnswer ELSE c[k]]

\* Mutant of RenamedCache: the answers of the old place are copied and stay.
RenamedCacheKeepingOld(c, from, to) ==
  [k \in Keys |->
     IF k \in {<<"list", Parent(from)>>, <<"list", Parent(to)>>} THEN NoAnswer
     ELSE IF Under(to, k[2]) /\ Moved(k[2], to, from) \in Paths
       THEN c[<<k[1], Moved(k[2], to, from)>>]
     ELSE c[k]]

\* VfsCache::rename: the subtree of from moves to to, both listings go.
RenamedCache(c, from, to) ==
  [k \in Keys |->
     IF k \in {<<"list", Parent(from)>>, <<"list", Parent(to)>>} THEN NoAnswer
     ELSE IF Under(to, k[2])
       THEN IF Moved(k[2], to, from) \in Paths
              THEN c[<<k[1], Moved(k[2], to, from)>>]
              ELSE NoAnswer
     ELSE IF Under(from, k[2]) THEN NoAnswer
     ELSE c[k]]

\* The slot an operation may be answered from; mutations have none.
KeyOf(r) == <<r.op, r.path>>
IsRead(r) == r.op \in Reads

\* request_with_rename with an unchanged generation: the stat that came along,
\* the stats of listed entries, then the answer itself.
Inserted(c, r, s) ==
  [k \in Keys |->
     IF IsRead(r) /\ k = KeyOf(r) /\ Cacheable(s.answer) THEN s.answer
     ELSE IF r.op = "list" /\ k[1] = "stat" /\ k[2] # Root /\ Parent(k[2]) = r.path
             /\ \E x \in s.answer.value : x[1] = Name(k[2])
       THEN Found((CHOOSE x \in s.answer.value : x[1] = Name(k[2]))[2])
     ELSE IF k = <<"stat", r.path>> /\ Known(s.stat) /\ Cacheable(s.stat) THEN s.stat
     ELSE c[k]]

-----------------------------------------------------------------------------
(* A guest task. *)

\* cached_stat: every operation but stat takes the cached stat along.
Look(t, op, p, q) ==
  /\ pc[t] = "idle"
  /\ op # "rename" => q = p
  /\ pc' = [pc EXCEPT ![t] = "looked"]
  /\ req' = [req EXCEPT ![t] =
       [op |-> op, path |-> p, to |-> q,
        hint |-> IF op = "stat" THEN NoAnswer ELSE cache[<<"stat", p>>],
        toHint |-> IF op = "rename" THEN cache[<<"stat", q>>] ELSE NoAnswer]]
  /\ UNCHANGED <<node, cache, resp, current, gone, out>>

\* The request is over and its locals are gone.
Return(t) ==
  /\ pc' = [pc EXCEPT ![t] = "idle"]
  /\ req' = [req EXCEPT ![t] = NoRequest]
  /\ resp' = [resp EXCEPT ![t] = NoResponse]
  /\ current' = [current EXCEPT ![t] = FALSE]
  /\ gone' = [gone EXCEPT ![t] = FALSE]

\* The cache answers.
Hit(t) ==
  /\ pc[t] = "looked" /\ IsRead(req[t]) /\ Known(cache[KeyOf(req[t])])
  /\ Return(t)
  /\ UNCHANGED <<node, cache, out>>

\* A miss: load the generation, register the waiter, send VfsRequest.
Send(t) ==
  /\ pc[t] = "looked" /\ ~(IsRead(req[t]) /\ Known(cache[KeyOf(req[t])]))
  /\ pc' = [pc EXCEPT ![t] = "sent"]
  /\ current' = [current EXCEPT ![t] = TRUE]
  /\ UNCHANGED <<node, cache, req, resp, gone, out>>

\* Mutant of MoveGeneration: invalidations leave the generation alone.
KeepGeneration == UNCHANGED current

\* generation.fetch_add: no generation loaded before is current any more.
MoveGeneration == current' = [t \in Procs |-> FALSE]

\* The response arrives: a successful mutation moves the generation, any other
\* answer is kept only if the generation stands still.
Receive(t) ==
  /\ pc[t] = "served"
  /\ \/ /\ resp[t].invalidate
        /\ pc' = [pc EXCEPT ![t] = "inval"]
        /\ MoveGeneration
        /\ UNCHANGED <<req, resp, gone>>
     \/ /\ ~resp[t].invalidate /\ current[t]
        /\ pc' = [pc EXCEPT ![t] = "insert"]
        /\ UNCHANGED <<req, resp, current, gone>>
     \/ ~resp[t].invalidate /\ ~current[t] /\ Return(t)
  /\ UNCHANGED <<node, cache, out>>

\* cache.lock() after the generation check.
Insert(t) ==
  /\ pc[t] = "insert"
  /\ Return(t)
  /\ cache' = Inserted(cache, req[t], resp[t])
  /\ UNCHANGED <<node, out>>

\* invalidate or rename_cached_path, with the lock.
Invalidate(t) ==
  /\ pc[t] = "inval"
  /\ Return(t)
  /\ cache' = IF req[t].op = "rename" THEN RenamedCache(cache, req[t].path, req[t].to)
              ELSE Invalidated(cache, req[t].path)
  /\ UNCHANGED <<node, out>>

\* run's select! ends the execution: its futures are dropped where they wait.
\* The host still serves a request that was sent.
Drop(t) ==
  /\ req[t].op \in Drops
  /\ \/ pc[t] \in {"looked", "served", "insert", "inval"} /\ Return(t)
     \/ /\ pc[t] \in {"sent", "resolved"} /\ ~gone[t]
        /\ gone' = [gone EXCEPT ![t] = TRUE]
        /\ UNCHANGED <<pc, req, resp, current>>
  /\ UNCHANGED <<node, cache, out>>

-----------------------------------------------------------------------------
(* The host: invoke_vfs_handler and the file system behind it.  Each operator *)
(* gives the outcomes a request may have.                                      *)

Outcome(n, answer, st, invalidate) ==
  [node |-> n, response |-> [answer |-> answer, stat |-> st, invalidate |-> invalidate]]

\* vfs_failure, and vfs_success of a mutation.
Failure(code, st) == Outcome(node, Err(code), st, FALSE)

\* Mutant of Changed: the file is written without its contents.
ChangedEmpty(p, n) ==
  Outcome([node EXCEPT ![p] = [n EXCEPT !.version = 0]], Answer("none", {}), NoAnswer, TRUE)

Changed(p, n) == Outcome([node EXCEPT ![p] = n], Answer("none", {}), NoAnswer, TRUE)

\* resolve_vfs_stat: a cached stat is believed.
Resolved(p, hint) == IF Known(hint) THEN hint ELSE HostStat(p)
IsDir(st) == st.value = {<<"", Dir>>}
Denied(st, versions) == \E v \in versions : st = Found(File(v))

\* require_writable_parent: "none", or why p's parent will not do.
ParentError(p) ==
  IF node[Parent(p)] = Absent THEN "NotFound"
  ELSE IF node[Parent(p)] # Dir THEN "NotDirectory" ELSE "none"

\* Stat, Read and List, given the resolved stat.
ReadOutcomes(r, st) ==
  LET answer == HostAnswer(KeyOf(r))
  IN {IF r.op = "stat" THEN Outcome(node, answer, NoAnswer, FALSE)
      ELSE IF st.err # "none" THEN Failure(st.err, st)
      ELSE IF Denied(st, Unreadable) THEN Failure("PermissionDenied", st)
      ELSE IF r.op = "read" /\ IsDir(st) THEN Failure("IsDirectory", st)
      ELSE IF r.op = "list" /\ ~IsDir(st) THEN Failure("NotDirectory", st)
      ELSE Outcome(node, answer, st, FALSE)}

\* Write may create a file, Append and Truncate need one; a truncate without
\* its method reads the file first.
WriteOutcomes(r, st) ==
  LET creates == r.op = "write" /\ st.err = "NotFound"
      rereads == r.op = "truncate" /\ "truncate" \notin Methods
      parent == ParentError(r.path)
  IN IF ~creates /\ st.err # "none" THEN {Failure(st.err, st)}
     ELSE IF ~creates /\ IsDir(st) THEN {Failure("IsDirectory", st)}
     ELSE IF Denied(st, ReadOnly) \/ (rereads /\ Denied(st, Unreadable))
       THEN {Failure("PermissionDenied", st)}
     ELSE IF parent # "none" THEN {Failure(IF creates THEN parent ELSE "NotFound", st)}
     ELSE IF node[r.path] = Dir THEN {Failure("IsDirectory", st)}
     ELSE IF r.op # "write" /\ node[r.path] = Absent THEN {Failure("NotFound", st)}
     ELSE {Changed(r.path, File(v)) : v \in Versions \ (ReadOnly \cup Unreadable)}

\* Delete of a file or of a directory, which the host keeps unless empty.
DeleteOutcomes(r, st) ==
  {IF st.err # "none" THEN Failure(st.err, st)
   ELSE IF IsDir(st) # (r.op = "rmdir")
     THEN Failure(IF IsDir(st) THEN "IsDirectory" ELSE "NotDirectory", st)
   ELSE IF ParentError(r.path) # "none" THEN Failure(ParentError(r.path), st)
   ELSE IF node[r.path] = Absent THEN Failure("NotFound", st)
   ELSE IF Children(r.path) # {} THEN Failure("DirectoryNotEmpty", st)
   ELSE Changed(r.path, Absent)}

MkdirOutcomes(r, st) ==
  {IF st.err = "none" THEN Failure("AlreadyExists", st)
   ELSE IF st.err # "NotFound" THEN Failure(st.err, st)
   ELSE IF ParentError(r.path) # "none" THEN Failure(ParentError(r.path), st)
   ELSE IF node[r.path] # Absent THEN Failure("AlreadyExists", st)
   ELSE Changed(r.path, Dir)}

\* The file system after a rename of the whole subtree.
RenamedNodes(from, to) ==
  [p \in Paths |-> IF Under(to, p)
                     THEN IF Moved(p, to, from) \in Paths THEN node[Moved(p, to, from)] ELSE Absent
                   ELSE IF Under(from, p) THEN Absent ELSE node[p]]

\* The host's own rename replaces a file, never a directory.
MethodOutcomes(r, st) ==
  {IF node[r.path] = Absent THEN Failure("NotFound", st)
   ELSE IF node[r.to] = Dir \/ (node[r.to] # Absent /\ node[r.path] = Dir)
     THEN Failure("AlreadyExists", st)
   ELSE IF \E p \in Paths : Under(r.path, p) /\ node[p] # Absent /\ Moved(p, r.path, r.to) \notin Paths
     THEN Failure("Io", st)
   ELSE Outcome(RenamedNodes(r.path, r.to), Answer("none", {}), NoAnswer, TRUE)}

\* Without a rename method: read, write, delete; the delete may fail after
\* the write was done.
FallbackOutcomes(r, st) ==
  LET to == Resolved(r.to, r.toHint)
      copied == [node EXCEPT ![r.to] = node[r.path]]
  IN IF IsDir(st) \/ Denied(st, Unreadable) THEN {Failure("PermissionDenied", st)}
     ELSE IF IsDir(to) THEN {Failure("IsDirectory", st)}
     ELSE IF Denied(to, ReadOnly) THEN {Failure("PermissionDenied", st)}
     ELSE IF to.err \notin {"none", "NotFound"} THEN {Failure(to.err, st)}
     ELSE IF node[r.path].kind # "file" \/ node[r.to] = Dir THEN {Failure("NotFound", st)}
     ELSE {Outcome(copied, Err("Io"), st, FALSE),
           Outcome([copied EXCEPT ![r.path] = Absent], Answer("none", {}), NoAnswer, TRUE)}

\* invoke_vfs_rename.
RenameOutcomes(r, st) ==
  IF st.err # "none" THEN {Failure(st.err, st)}
  ELSE IF r.path = r.to THEN {Outcome(node, Answer("none", {}), NoAnswer, FALSE)}
  ELSE IF ParentError(r.path) # "none" THEN {Failure(ParentError(r.path), st)}
  ELSE IF ParentError(r.to) # "none" THEN {Failure(ParentError(r.to), st)}
  ELSE IF Under(r.path, r.to) THEN {Failure("Io", st)}
  ELSE IF "rename" \in Methods THEN MethodOutcomes(r, st) ELSE FallbackOutcomes(r, st)

Outcomes(r, st) ==
  CASE IsRead(r) -> ReadOutcomes(r, st)
    [] r.op \in {"write", "append", "truncate"} -> WriteOutcomes(r, st)
    [] r.op \in {"unlink", "rmdir"} -> DeleteOutcomes(r, st)
    [] r.op = "mkdir" -> MkdirOutcomes(r, st)
    [] r.op = "rename" -> RenameOutcomes(r, st)

\* The first call of every operation but Stat: the handler's stat, unless the
\* request brought one along.
Resolve(t) ==
  /\ pc[t] = "sent"
  /\ pc' = [pc EXCEPT ![t] = "resolved"]
  /\ resp' = [resp EXCEPT ![t].stat =
       IF req[t].op = "stat" THEN NoAnswer ELSE Resolved(req[t].path, req[t].hint)]
  /\ UNCHANGED <<node, cache, req, current, gone, out>>

\* The handler answers or raises.  Nobody waits for the answer to a request
\* whose execution is gone.
Serve(t) ==
  /\ pc[t] = "resolved"
  /\ \E o \in Outcomes(req[t], resp[t].stat) \cup {Failure("Io", resp[t].stat)} :
       /\ node' = o.node
       /\ \/ /\ ~gone[t]
             /\ pc' = [pc EXCEPT ![t] = "served"]
             /\ resp' = [resp EXCEPT ![t] = o.response]
             /\ UNCHANGED <<req, current, gone>>
          \/ gone[t] /\ Return(t)
  /\ UNCHANGED <<cache, out>>

-----------------------------------------------------------------------------
(* The application changes a file itself and says so: invalidate_vfs. *)

OutsideChange(p, v) ==
  /\ Outside /\ out.step = "idle" /\ node[p].kind = "file" /\ node[p] # File(v)
  /\ node' = [node EXCEPT ![p] = File(v)]
  /\ out' = [step |-> "changed", path |-> p]
  /\ UNCHANGED <<cache, pc, req, resp, current, gone>>

\* RemoteVfs::invalidate for an InvalidateVfs frame: the generation first,
InvalidateBegins ==
  /\ out.step = "changed"
  /\ out' = [out EXCEPT !.step = "bumped"]
  /\ MoveGeneration
  /\ UNCHANGED <<node, cache, pc, req, resp, gone>>

\* then the cache, under its lock.
InvalidateEnds ==
  /\ out.step = "bumped"
  /\ out' = [out EXCEPT !.step = "idle"]
  /\ cache' = Invalidated(cache, out.path)
  /\ UNCHANGED <<node, pc, req, resp, current, gone>>

Task(t) ==
  \/ \E op \in Ops, p \in Paths, q \in Paths : Look(t, op, p, q)
  \/ Hit(t) \/ Send(t) \/ Resolve(t) \/ Serve(t) \/ Receive(t) \/ Insert(t) \/ Invalidate(t) \/ Drop(t)

Next ==
  \/ \E t \in Procs : Task(t)
  \/ \E p \in Paths, v \in Versions : OutsideChange(p, v)
  \/ InvalidateBegins \/ InvalidateEnds

Spec == Init /\ [][Next]_vars

-----------------------------------------------------------------------------
(* Properties *)

\* An invalidation that is still to come for key k: of a mutation that has been
\* served and not yet applied to the cache, or of an application's change.
Owed(k) ==
  \/ out.step # "idle" /\ Covers(out.path, k)
  \/ \E t \in Procs :
       /\ pc[t] \in {"served", "inval"} /\ resp[t].invalidate
       /\ Covers(req[t].path, k) \/ Covers(req[t].to, k)

\* A cached answer is what the host would answer now, unless an invalidation
\* that removes it is on its way: writes, deletes, renames and listings leave
\* nothing stale behind (README.md, "Successful mutations invalidate the
\* affected cached paths").
Coherent ==
  \A k \in Keys : Known(cache[k]) => cache[k] = HostAnswer(k) \/ Owed(k)

\* What the generation check relies on: as long as the generation a request
\* loaded still stands, whatever the host found out for it is what the host would
\* say now, unless an invalidation of it is on its way: the answer to a read, and
\* the stat that comes along with any answer and is cached with it.  Requests
\* overlap with other tasks' writes, the application's changes and executions that
\* end in the middle of a read.  A stat that the request brought along, and an
\* error drawn from it, are not the host's findings: see NothingStaleInserted.
FreshWhileCurrent ==
  \A t \in Procs :
    LET stat == <<"stat", req[t].path>>
    IN pc[t] \in {"served", "insert"} /\ current[t] =>
       /\ /\ IsRead(req[t]) /\ Cacheable(resp[t].answer)
          /\ resp[t].answer.err = "none" \/ ~Known(req[t].hint)
          => resp[t].answer = HostAnswer(KeyOf(req[t])) \/ Owed(KeyOf(req[t]))
       /\ Cacheable(resp[t].stat) /\ ~Known(req[t].hint)
          => resp[t].stat = HostAnswer(stat) \/ Owed(stat)

\* The stat that is inserted under a generation that stands is never stale, also one
\* that the request took out of the cache and the host sent back (DOCS.md, "Generation
\* checks prevent an in-flight stale response from repopulating an invalidated node").
\* So it is for one task.  With two it is not: the code takes the cached stat before it
\* loads the generation.
NothingStaleInserted ==
  \A t \in Procs :
    LET stat == <<"stat", req[t].path>>
    IN pc[t] = "insert" /\ current[t] /\ Cacheable(resp[t].stat)
       => resp[t].stat = HostAnswer(stat) \/ Owed(stat)
=============================================================================
