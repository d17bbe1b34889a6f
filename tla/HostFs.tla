------------------------------- MODULE HostFs -------------------------------
(***************************************************************************)
(* One host-backed mount at work: the FUSE filesystem in the enclave       *)
(* (fs_mount.rs), the client it opens anew for every request               *)
(* (hostfs_client.rs, fs_protocol.rs) and the service on the host that     *)
(* carries the requests out, every connection in a task of its own         *)
(* (fs_host.rs, hostfs_service.rs).                                        *)
(*                                                                         *)
(* A FUSE call is a short program of requests; the first request that      *)
(* fails ends it.  The service names files by path, opens them for every   *)
(* request and, for what changes their content, synchronises them before   *)
(* it answers.  The host's filesystem is external: what it holds in memory *)
(* (dir, data) and on disk (ddir, ddata), written back at any time, and    *)
(* all that is left after the host has crashed.                            *)
(***************************************************************************)
EXTENDS Naturals, Sequences

CONSTANTS
  Names,    \* names in the mounted directory
  Inodes,   \* bound: files and directories ever created
  Blocks,   \* contents that the application writes
  Session,  \* the FUSE session thread: names, attributes, open
  Pool,     \* the FUSE worker threads: read, write, flush, fsync
  None

Threads == Pool \cup {Session}

\* What an inode holds: nothing yet, a directory, or a file's content.
Contents == {"free", "dir", "empty"} \cup Blocks

ASSUME HostFsAssumption ==
  /\ None \notin Inodes \cup Contents \cup Threads
  /\ Blocks \cap {"free", "dir", "empty"} = {}

VARIABLES
  mounted,  \* the mount is in use: "no", "yes", or "failed" to start
  th,       \* the FUSE calls under way
  dir,      \* names in the page cache
  data,     \* contents in the page cache
  ddir,     \* names on disk
  ddata     \* contents on disk

\* History, for every file
VARIABLES
  acked,    \* the content last acknowledged to the application, None once it is
            \* being changed
  writer,   \* the thread that changed the file last, until it is answered
  refused   \* the files of which the host refused the last write, or part of it

acks == <<acked, writer, refused>>
host == <<dir, data, ddir, ddata, acks>>
vars == <<mounted, th, host>>

LookOps == {"getattr", "readdir"}
NameOps == {"truncate", "mkdir", "unlink", "rmdir", "rename", "open_trunc"}
DataOps == {"read", "write", "fsync"}
CreateOps == {"create", "create_trunc"}
SessionOps == LookOps \cup NameOps \cup CreateOps

NoCall == [creating |-> FALSE, todo |-> <<>>, pc |-> "idle", ino |-> None, made |-> None]

Init ==
  /\ mounted = "no"
  /\ th = [t \in Threads |-> NoCall]
  /\ dir = [n \in Names |-> None]
  /\ data = [i \in Inodes |-> "free"]
  /\ ddir = dir
  /\ ddata = data
  /\ acked = [i \in Inodes |-> None]
  /\ writer = [i \in Inodes |-> None]
  /\ refused = {}

-----------------------------------------------------------------------------
(* The FUSE side *)

\* MountedHostFs::start: the mount path is a directory, the proxy is there, knows
\* the mount by this name, is writable and answers a ping, and FUSE takes the
\* mount.  A mount that does not start is skipped or ends the runtime
\* (HostFsMountService::start); there is no second attempt.
Mount ==
  /\ mounted = "no"
  /\ mounted' \in {"yes", "failed"}
  /\ UNCHANGED <<th, host>>

Request(kind, n) == [kind |-> kind, name |-> n, to |-> n, content |-> "empty", create |-> FALSE]

\* FilesystemMT for HostFsFilesystem: the requests of every call.  getattr and
\* readdir only look; so does statfs, which names no file and is left out.
LookProgram(op, n) ==
  CASE op = "getattr" -> <<Request("metadata", n)>>
    [] op = "readdir" -> <<Request("read_dir", n)>>

NameProgram(op, n, m) ==
  CASE op \in {"truncate", "open_trunc"} -> <<Request("set_len", n)>>
    [] op = "mkdir"  -> <<Request("mkdir", n), Request("metadata", n)>>
    [] op = "unlink" -> <<Request("remove_file", n)>>
    [] op = "rmdir"  -> <<Request("remove_dir", n)>>
    [] op = "rename" -> <<[Request("rename", n) EXCEPT !.to = m]>>

DataProgram(op, n, c) ==
  CASE op = "read"  -> <<Request("read", n)>>
    [] op = "write" -> <<[Request("write", n) EXCEPT !.content = c]>>
    [] op = "fsync" -> <<Request("fsync", n)>>

CreateProgram(op, n) ==
  <<Request("absent", n), [Request("write", n) EXCEPT !.create = TRUE]>>
    \o (IF op = "create_trunc" THEN <<Request("set_len", n)>> ELSE <<>>)
    \o <<Request("metadata", n)>>

Program(op, n, m, c) ==
  CASE op \in LookOps -> LookProgram(op, n)
    [] op \in NameOps -> NameProgram(op, n, m)
    [] op \in DataOps -> DataProgram(op, n, c)
    [] op \in CreateOps -> CreateProgram(op, n)

Call(t) ==
  /\ mounted = "yes"
  /\ th[t].pc = "idle"
  /\ \E op \in IF t = Session THEN SessionOps ELSE DataOps,
        n \in Names, m \in Names, c \in Blocks :
       /\ op = "rename" \/ m = n
       /\ th' = [th EXCEPT ![t] = [creating |-> op \in CreateOps,
                                    todo |-> Program(op, n, m, c), pc |-> "serve",
                                    ino |-> None, made |-> None]]
  /\ UNCHANGED <<mounted, host>>

Set(t, call) == th' = [th EXCEPT ![t] = call]

\* The request has succeeded: the next one, on a connection of its own, or the
\* call returns.
Done(t) ==
  Set(t, IF Len(th[t].todo) = 1 THEN NoCall
         ELSE [th[t] EXCEPT !.todo = Tail(@), !.pc = "serve", !.ino = None])

\* The call returns an errno.
Fail(t) == Set(t, NoCall)

\* with_client_async: no connection, or no hello from the other end.  Where there is
\* one the service takes the request up, whenever it does.
ConnectFails(t) ==
  /\ th[t].pc = "serve"
  /\ Fail(t)
  /\ UNCHANGED <<mounted, host>>

-----------------------------------------------------------------------------
(* The service: handle_request *)

Req(t) == Head(th[t].todo)
Serving(t, kinds) == th[t].pc = "serve" /\ Req(t).kind \in kinds

\* Fault: create does not look at the answer.
MetadataUnchecked(t) ==
  /\ Serving(t, {"metadata", "absent"})
  /\ Done(t)
  /\ UNCHANGED <<mounted, host>>

\* resolve_existing_path, resolve_path_for_create: what a name stands for now.  Every
\* request starts from the path; names that lead out of the mount are refused.
Resolve(n) == dir[n]

\* handle_metadata.  FUSE's create asks first and goes on only if the name is not
\* there.
Metadata(t) ==
  /\ Serving(t, {"metadata", "absent"})
  /\ IF (Resolve(Req(t).name) = None) = (Req(t).kind = "absent") THEN Done(t) ELSE Fail(t)
  /\ UNCHANGED <<mounted, host>>

Free == {i \in Inodes : data[i] = "free"}

\* A new inode under the name
Enter(i, n, content) ==
  /\ dir' = [dir EXCEPT ![n] = i]
  /\ data' = [data EXCEPT ![i] = content]

\* resolve_path_for_create, then open: handle_write_file and handle_set_len
OpenForWrite(t) ==
  /\ Serving(t, {"write", "set_len"})
  /\ LET i == Resolve(Req(t).name)
     IN  \/ /\ i # None /\ data[i] # "dir"
            /\ Set(t, [th[t] EXCEPT !.pc = "apply", !.ino = i])
            /\ UNCHANGED host
         \/ /\ i = None /\ Req(t).create
            /\ \E j \in Free :
                 /\ Enter(j, Req(t).name, "empty")
                 /\ Set(t, [th[t] EXCEPT !.pc = "apply", !.ino = j, !.made = j])
            /\ UNCHANGED <<ddir, ddata, acks>>
         \/ /\ IF i = None THEN ~Req(t).create ELSE data[i] = "dir"
            /\ Fail(t)
            /\ UNCHANGED host
  /\ UNCHANGED mounted

\* The request has a content of its own: not so fsync, nor create's write of nothing.
Carries(t) == Req(t).kind \in {"write", "set_len"} /\ ~Req(t).create

ToSync(t) == Set(t, [th[t] EXCEPT !.pc = "sync"])

\* The content of the file in the page cache
Change(t, content) ==
  /\ data' = [data EXCEPT ![th[t].ino] = content]
  /\ acked' = [acked EXCEPT ![th[t].ino] = None]
  /\ writer' = [writer EXCEPT ![th[t].ino] = t]
  /\ UNCHANGED <<mounted, dir, ddir, ddata>>

\* write_all or set_len
Apply(t) ==
  /\ th[t].pc = "apply"
  /\ \/ Carries(t) /\ Change(t, Req(t).content) /\ refused' = refused \ {th[t].ino}
     \/ ~Carries(t) /\ UNCHANGED <<mounted, host>>
  /\ ToSync(t)

\* ENOSPC or an I/O error, after all or nothing of a write.  Tokio's write_all only
\* hands the bytes to another thread; sync_data waits for that thread and keeps its
\* error for the next operation on the file, of which there is none: the handler
\* goes on.
WriteRefused(t) ==
  /\ th[t].pc = "apply" /\ Req(t).kind = "write" /\ Carries(t)
  /\ \E content \in {data[th[t].ino], Req(t).content} : Change(t, content)
  /\ refused' = refused \cup {th[t].ino}
  /\ ToSync(t)

\* set_len reports its error itself.
SetLenFails(t) ==
  /\ th[t].pc = "apply" /\ Req(t).kind = "set_len"
  /\ Fail(t)
  /\ UNCHANGED <<mounted, host>>

\* What the answer tells the application of the file: that it has the content of the
\* request, unless another has changed it since, or else what is in it.
Acknowledged(t) ==
  LET i == th[t].ino
  IN  IF Carries(t) /\ writer[i] = t THEN Req(t).content
      ELSE IF ~Carries(t) /\ acked[i] = None THEN data[i]
      ELSE acked[i]

\* Fault: the answer does not wait for the disk.
AnswerAtOnce(t) ==
  /\ th[t].pc = "sync"
  /\ acked' = [acked EXCEPT ![th[t].ino] = Acknowledged(t)]
  /\ Done(t)
  /\ UNCHANGED <<mounted, dir, data, ddir, ddata, writer, refused>>

\* The change of t is answered.
Settled(t) == [writer EXCEPT ![th[t].ino] = IF @ = t THEN None ELSE @]

Synced(t) == [ddata EXCEPT ![th[t].ino] = data[th[t].ino]]

\* sync_data or sync_all, then the answer
SyncFile(t) ==
  /\ th[t].pc = "sync"
  /\ ddata' = Synced(t)
  /\ acked' = [acked EXCEPT ![th[t].ino] = Acknowledged(t)]
  /\ writer' = Settled(t)
  /\ Done(t)
  /\ UNCHANGED <<mounted, dir, data, ddir, refused>>

\* Its error is answered, whatever has reached the disk.
SyncFails(t) ==
  /\ th[t].pc = "sync"
  /\ ddata' \in {ddata, Synced(t)}
  /\ writer' = Settled(t)
  /\ Fail(t)
  /\ UNCHANGED <<mounted, dir, data, ddir, acked, refused>>

\* handle_read_dir
ReadDir(t) ==
  /\ Serving(t, {"read_dir"})
  /\ LET i == Resolve(Req(t).name)
     IN  IF i # None /\ data[i] = "dir" THEN Done(t) ELSE Fail(t)
  /\ UNCHANGED <<mounted, host>>

\* handle_fsync and handle_read_file
OpenToRead(t) ==
  /\ Serving(t, {"fsync", "read"})
  /\ LET i == Resolve(Req(t).name)
     IN  \/ i # None /\ Req(t).kind = "fsync" /\ Set(t, [th[t] EXCEPT !.pc = "sync", !.ino = i])
         \/ i # None /\ Req(t).kind = "read" /\ Done(t)
         \/ i = None /\ Fail(t)
  /\ UNCHANGED <<mounted, host>>

\* handle_mkdir
Mkdir(t) ==
  /\ Serving(t, {"mkdir"})
  /\ \/ /\ Resolve(Req(t).name) = None
        /\ \E j \in Free : Enter(j, Req(t).name, "dir")
        /\ Done(t)
        /\ UNCHANGED <<ddir, ddata, acks>>
     \/ Resolve(Req(t).name) # None /\ Fail(t) /\ UNCHANGED host
  /\ UNCHANGED mounted

IsDir(n) == dir[n] # None /\ data[dir[n]] = "dir"
IsFile(n) == dir[n] # None /\ data[dir[n]] # "dir"

\* handle_remove_file, handle_remove_dir
Remove(t) ==
  /\ Serving(t, {"remove_file", "remove_dir"})
  /\ LET n == Req(t).name
         ok == IF Req(t).kind = "remove_dir" THEN IsDir(n) ELSE IsFile(n)
     IN  \/ ok /\ dir' = [dir EXCEPT ![n] = None] /\ Done(t) /\ UNCHANGED <<data, ddir, ddata, acks>>
         \/ ~ok /\ Fail(t) /\ UNCHANGED host
  /\ UNCHANGED mounted

\* handle_rename: a file may take the place of a file, a directory that of an
\* (empty) directory.
Rename(t) ==
  /\ Serving(t, {"rename"})
  /\ LET n == Req(t).name
         m == Req(t).to
         ok == dir[n] # None /\ (dir[m] = None \/ (IsDir(n) <=> IsDir(m)))
     IN  \/ /\ ok
            /\ dir' = [dir EXCEPT ![n] = None, ![m] = dir[n]]
            /\ Done(t)
            /\ UNCHANGED <<data, ddir, ddata, acks>>
         \/ ~ok /\ Fail(t) /\ UNCHANGED host
  /\ UNCHANGED mounted

Serve(t) == Metadata(t) \/ OpenForWrite(t) \/ Apply(t) \/ WriteRefused(t) \/ SetLenFails(t)
            \/ SyncFile(t) \/ SyncFails(t) \/ ReadDir(t) \/ OpenToRead(t) \/ Mkdir(t) \/ Remove(t) \/ Rename(t)

-----------------------------------------------------------------------------
(* The host's filesystem *)

\* The journal and the page cache reach the disk.
Writeback ==
  /\ <<ddir, ddata>> # <<dir, data>>
  /\ \/ ddir' = dir /\ ddata' = [i \in Inodes |-> IF ddata[i] = "free" THEN data[i] ELSE ddata[i]]
     \/ \E i \in Inodes : ddata' = [ddata EXCEPT ![i] = data[i]] /\ UNCHANGED ddir
  /\ UNCHANGED <<mounted, th, dir, data, acks>>

\* The host crashes, and the enclave and its calls with it; the next run mounts
\* what is on disk.
Crash ==
  /\ mounted = "yes"
  /\ mounted' = "no"
  /\ th' = [t \in Threads |-> NoCall]
  /\ dir' = ddir
  /\ data' = ddata
  /\ writer' = [i \in Inodes |-> None]
  /\ UNCHANGED <<ddir, ddata, acked, refused>>

Next ==
  \/ Mount
  \/ \E t \in Threads : Call(t) \/ ConnectFails(t) \/ Serve(t)
  \/ Writeback
  \/ Crash

Spec == Init /\ [][Next]_vars

-----------------------------------------------------------------------------
(* Properties *)

TypeOK ==
  /\ mounted \in {"no", "yes", "failed"}
  /\ dir \in [Names -> Inodes \cup {None}]
  /\ ddir \in [Names -> Inodes \cup {None}]
  /\ data \in [Inodes -> Contents]
  /\ ddata \in [Inodes -> Contents]
  /\ acked \in [Inodes -> Contents \cup {None}]
  /\ writer \in [Inodes -> Threads \cup {None}]
  /\ refused \subseteq Inodes
  /\ \A t \in Threads :
       /\ th[t].pc \in {"idle", "serve", "apply", "sync"}
       /\ th[t].pc \in {"apply", "sync"} => th[t].ino \in Inodes
       /\ th[t].pc = "idle" <=> th[t].todo = <<>>

\* What was last acknowledged to the application of a file's content, that is what
\* the request carried, is on disk (sync_data and sync_all before the answer), where
\* a crash leaves it.  The exception: a write the host had no room for, or could not
\* carry out, is acknowledged like any other, and the next write that succeeds ends
\* it.
AckedContentOnDisk ==
  \A i \in Inodes : acked[i] # None => ddata[i] = acked[i] \/ i \in refused

\* FUSE's create, four requests with other calls between them, never changes a
\* file that it has not made: it neither empties nor replaces what was there.
CreateLosesNothing ==
  [][\A t \in Threads : \A i \in Inodes :
       (th[t].creating /\ th'[t] # th[t] /\ mounted' = "yes" /\ data'[i] # data[i])
         => i \in {th[t].made, th'[t].made}]_vars
=============================================================================
