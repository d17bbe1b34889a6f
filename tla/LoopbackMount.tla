--------------------------- MODULE LoopbackMount ---------------------------
(***************************************************************************)
(* Host-backed mounts on the host (hostfs.rs, run_container.rs and the run *)
(* command of capsule-cli): every capsule-cli process locks the state      *)
(* directories it was given, creates or reuses the disk image in each,     *)
(* mounts the images, runs the capsule-shell container on them and takes   *)
(* everything down again.  Images outlive the processes; so do mounts and  *)
(* containers when a process is killed.                                    *)
(***************************************************************************)
EXTENDS Naturals, Sequences

CONSTANTS
  Procs,          \* capsule-cli processes
  Dirs,           \* host state directories
  Requests,       \* the directories a process binds, in manifest order
  SizeMb,         \* the size_mb its manifest gives each of them
  EarlierMb,      \* sizes of the images that earlier runs have left
  NoProc,         \* a lock nobody holds
  MaxWrites       \* bound: files the applications write to a directory

ASSUME LoopbackAssumption ==
  /\ Requests \in [Procs -> Seq(Dirs)]
  /\ \A p \in Procs : SizeMb[p] \in Seq(Nat \ {0}) /\ Len(SizeMb[p]) = Len(Requests[p])
  /\ EarlierMb \subseteq Nat \ {0}
  /\ NoProc \notin Procs
  /\ MaxWrites \in Nat

VARIABLES
  pc,         \* where the process is
  k,          \* index of the request or prepared mount it is working on
  prepared,   \* the directories of its PreparedLoopbackMounts
  cancelled,  \* a shutdown signal was received
  failed,     \* what its teardown could not undo: an error that is only
              \*   logged, or the one that cleanup() returns
  container,  \* its container: what Docker has
  known,      \* container_id is Some
  stream,     \* its log stream task is running
  lock,       \* the process whose flock is on a directory
  image,      \* disk.img: absent, without a filesystem, or formatted
  size,       \* its length
  files,      \* number of files the image holds
  mnt         \* <<process, directory>>: the loopback mounts in the kernel

vars == <<pc, k, prepared, cancelled, failed, container, known, stream, lock,
          image, size, files, mnt>>
disk       == <<image, size, files>>
dockerVars == <<container, known, stream>>

Preparing == {"lock", "image", "size", "format", "mount"}
Waiting   == {"create", "start", "wait"}
Teardown  == {"stop", "remove", "stream", "unmount"}
Finished  == {"done", "crashed"}
PCs       == {"check", "undo", "drop"} \cup Preparing \cup Waiting \cup Teardown \cup Finished

TypeOK ==
  /\ pc \in [Procs -> PCs]
  /\ k \in [Procs -> Nat]
  /\ prepared \in [Procs -> Seq(Dirs)]
  /\ \A p \in Procs : /\ Len(prepared[p]) <= Len(Requests[p])
                      /\ \A i \in 1 .. Len(prepared[p]) : prepared[p][i] = Requests[p][i]
  /\ cancelled \in [Procs -> BOOLEAN]
  /\ failed \in [Procs -> {"no", "logged", "returned"}]
  /\ container \in [Procs -> {"none", "created", "running", "stopped"}]
  /\ known \in [Procs -> BOOLEAN]
  /\ stream \in [Procs -> BOOLEAN]
  /\ lock \in [Dirs -> Procs \cup {NoProc}]
  /\ image \in [Dirs -> {"none", "raw", "ext4"}]
  /\ size \in [Dirs -> Nat]
  /\ files \in [Dirs -> 0 .. MaxWrites]
  /\ mnt \subseteq Procs \X Dirs

Init ==
  /\ pc = [p \in Procs |-> "check"]
  /\ k = [p \in Procs |-> 1]
  /\ prepared = [p \in Procs |-> <<>>]
  /\ cancelled = [p \in Procs |-> FALSE]
  /\ failed = [p \in Procs |-> "no"]
  /\ container = [p \in Procs |-> "none"]
  /\ known = [p \in Procs |-> FALSE]
  /\ stream = [p \in Procs |-> FALSE]
  /\ lock = [d \in Dirs |-> NoProc]
  /\ image \in [Dirs -> {"none", "ext4"}]
  /\ size \in [Dirs -> EarlierMb \cup {0}]
  /\ files \in [Dirs -> 0 .. MaxWrites]
  /\ \A d \in Dirs : /\ size[d] = 0 <=> image[d] = "none"
                     /\ image[d] = "none" => files[d] = 0
  /\ mnt = {}

Goto(p, label) == pc' = [pc EXCEPT ![p] = label]
Restart(p, label) == Goto(p, label) /\ k' = [k EXCEPT ![p] = 1]

-----------------------------------------------------------------------------
(* prepare_loopback_mounts *)

\* The directory of the request in hand.
Dir(p) == Requests[p][k[p]]

Release(p, d) == lock' = [lock EXCEPT ![d] = IF @ = p THEN NoProc ELSE @]

\* No directory is asked for twice.
Distinct(p) == \A i, j \in 1 .. Len(Requests[p]) : Requests[p][i] = Requests[p][j] => i = j

\* Two mounts on one directory are refused before anything is touched.
CheckRequests(p) ==
  /\ pc[p] = "check"
  /\ Restart(p, IF Distinct(p) THEN "lock" ELSE "stop")
  /\ UNCHANGED <<prepared, cancelled, failed, dockerVars, lock, disk, mnt>>

\* A request fails: its lock file is closed, the mounts before it undone.
Bail(p) ==
  /\ Release(p, Dir(p))
  /\ Restart(p, "undo")
  /\ UNCHANGED prepared

\* Fault: flock is shared, so that everybody gets it.
TakeSharedLock(p) ==
  /\ pc[p] = "lock"
  /\ k[p] <= Len(Requests[p])
  /\ lock' = [lock EXCEPT ![Dir(p)] = p]
  /\ Goto(p, "image")
  /\ UNCHANGED <<k, prepared, cancelled, failed, dockerVars, disk, mnt>>

\* The state and metadata directories, the lock file and flock, which does
\* not wait.
TakeLock(p) ==
  /\ pc[p] = "lock"
  /\ k[p] <= Len(Requests[p])
  /\ \/ /\ lock[Dir(p)] = NoProc
        /\ lock' = [lock EXCEPT ![Dir(p)] = p]
        /\ Goto(p, "image")
        /\ UNCHANGED <<k, prepared>>
     \/ Bail(p)
  /\ UNCHANGED <<cancelled, failed, dockerVars, disk, mnt>>

\* Fault: an image of any size is reused.
AnySize(p) == TRUE

\* An image that exists is reused if it has the requested size.
SizeMatches(p) == size[Dir(p)] = SizeMb[p][k[p]]

\* Fault: an image that is there already is formatted again.
AlwaysCreate(p) == TRUE

MustCreate(p) == image[Dir(p)] = "none"

FindImage(p) ==
  /\ pc[p] = "image"
  /\ \/ /\ MustCreate(p)
        /\ image' = [image EXCEPT ![Dir(p)] = "raw"]
        /\ size' = [size EXCEPT ![Dir(p)] = 0]
        /\ files' = [files EXCEPT ![Dir(p)] = 0]
        /\ Goto(p, "size")
        /\ UNCHANGED <<k, prepared, lock>>
     \/ /\ ~MustCreate(p) /\ SizeMatches(p)
        /\ Goto(p, "mount")
        /\ UNCHANGED <<k, prepared, lock, disk>>
     \/ Bail(p) /\ UNCHANGED disk
  /\ UNCHANGED <<cancelled, failed, dockerVars, mnt>>

\* set_len
SizeImage(p) ==
  /\ pc[p] = "size"
  /\ \/ /\ size' = [size EXCEPT ![Dir(p)] = SizeMb[p][k[p]]]
        /\ Goto(p, "format")
        /\ UNCHANGED <<k, prepared, lock>>
     \/ Bail(p) /\ UNCHANGED size
  /\ UNCHANGED <<cancelled, failed, dockerVars, image, files, mnt>>

\* mkfs.ext4
FormatImage(p) ==
  /\ pc[p] = "format"
  /\ \/ /\ image' = [image EXCEPT ![Dir(p)] = "ext4"]
        /\ Goto(p, "mount")
        /\ UNCHANGED <<k, prepared, lock>>
     \/ Bail(p) /\ UNCHANGED image
  /\ UNCHANGED <<cancelled, failed, dockerVars, size, files, mnt>>

\* mount -o loop -t ext4 on a directory made for this run.
MountImage(p) ==
  /\ pc[p] = "mount"
  /\ \/ /\ image[Dir(p)] = "ext4"
        /\ mnt' = mnt \cup {<<p, Dir(p)>>}
        /\ prepared' = [prepared EXCEPT ![p] = Append(@, Dir(p))]
        /\ k' = [k EXCEPT ![p] = @ + 1]
        /\ Goto(p, "lock")
        /\ UNCHANGED lock
     \/ Bail(p) /\ UNCHANGED mnt
  /\ UNCHANGED <<cancelled, failed, dockerVars, disk>>

\* All requests are prepared.  After a signal nobody waits for the blocking
\* task any more, and its result is dropped when it ends.
Prepared(p) ==
  /\ pc[p] = "lock"
  /\ k[p] > Len(Requests[p])
  /\ Restart(p, IF cancelled[p] THEN "drop" ELSE "create")
  /\ UNCHANGED <<prepared, cancelled, failed, dockerVars, lock, disk, mnt>>

-----------------------------------------------------------------------------
(* run_capsule_image *)

CreateContainer(p) ==
  /\ pc[p] = "create"
  /\ \/ /\ container' = [container EXCEPT ![p] = "created"]
        /\ known' = [known EXCEPT ![p] = TRUE]
        /\ Goto(p, "start")
     \/ Goto(p, "stop") /\ UNCHANGED <<container, known>>
  /\ UNCHANGED <<k, prepared, cancelled, failed, stream, lock, disk, mnt>>

StartContainer(p) ==
  /\ pc[p] = "start"
  /\ \/ /\ container' = [container EXCEPT ![p] = "running"]
        /\ stream' = [stream EXCEPT ![p] = TRUE]
        /\ Goto(p, "wait")
     \/ Goto(p, "stop") /\ UNCHANGED <<container, stream>>
  /\ UNCHANGED <<k, prepared, cancelled, failed, known, lock, disk, mnt>>

\* Fault: container_id is taken before wait_container.
AwaitForgetsContainer(p) ==
  /\ pc[p] = "wait"
  /\ Restart(p, "stop")
  /\ known' = [known EXCEPT ![p] = FALSE]
  /\ container' = [container EXCEPT ![p] = IF @ = "stopped" THEN "none" ELSE @]
  /\ UNCHANGED <<prepared, cancelled, failed, stream, lock, disk, mnt>>

\* wait_container returns when the container has stopped, or fails; after a
\* zero exit code the container is removed.
AwaitContainer(p) ==
  /\ pc[p] = "wait"
  /\ Restart(p, "stop")
  /\ \/ /\ container[p] = "stopped"
        /\ container' = [container EXCEPT ![p] = "none"]
        /\ known' = [known EXCEPT ![p] = FALSE]
     \/ UNCHANGED <<container, known>>
  /\ UNCHANGED <<prepared, cancelled, failed, stream, lock, disk, mnt>>

\* Fault: the run command does not select on the signal.
IgnoreSignal(p) == FALSE

\* The select! of the run command drops the future.  A request to Docker that
\* is under way may still be carried out.
ObserveSignal(p) ==
  /\ pc[p] \in Waiting
  /\ cancelled[p]
  /\ Restart(p, "stop")
  /\ \/ pc[p] = "create" /\ container' = [container EXCEPT ![p] = "created"]
     \/ pc[p] = "start" /\ container' = [container EXCEPT ![p] = "running"]
     \/ UNCHANGED container
  /\ UNCHANGED <<prepared, cancelled, failed, known, stream, lock, disk, mnt>>

-----------------------------------------------------------------------------
(* CapsuleShell::cleanup and PreparedLoopbackMount::cleanup *)

StopContainer(p) ==
  /\ pc[p] = "stop"
  /\ Goto(p, "remove")
  /\ \/ ~known[p] /\ UNCHANGED <<container, failed>>
     \/ /\ known[p]
        /\ container' = [container EXCEPT ![p] = "stopped"]
        /\ UNCHANGED failed
     \/ /\ known[p]
        /\ failed' = [failed EXCEPT ![p] = "returned"]
        /\ UNCHANGED container
  /\ UNCHANGED <<k, prepared, cancelled, known, stream, lock, disk, mnt>>

\* Docker does not remove a container that runs.
RemoveContainer(p) ==
  /\ pc[p] = "remove"
  /\ Goto(p, "stream")
  /\ known' = [known EXCEPT ![p] = FALSE]
  /\ \/ ~known[p] /\ UNCHANGED <<container, failed>>
     \/ /\ known[p] /\ container[p] # "running"
        /\ container' = [container EXCEPT ![p] = "none"]
        /\ UNCHANGED failed
     \/ /\ known[p]
        /\ failed' = [failed EXCEPT ![p] = "returned"]
        /\ UNCHANGED container
  /\ UNCHANGED <<k, prepared, cancelled, stream, lock, disk, mnt>>

AwaitStream(p) ==
  /\ pc[p] = "stream"
  /\ ~stream[p]
  /\ Restart(p, "unmount")
  /\ UNCHANGED <<prepared, cancelled, failed, dockerVars, lock, disk, mnt>>

\* The mount in hand: cleanup() goes backwards, the others forward.
Turn(p) ==
  IF pc[p] = "unmount" THEN prepared[p][Len(prepared[p]) - k[p] + 1]
                       ELSE prepared[p][k[p]]

\* umount.  Whatever it does, remove_dir_all follows: when the image is still
\* mounted there, that removes the files in it.
Unmount(p) ==
  LET d == Turn(p) IN
  /\ \/ mnt' = mnt \ {<<p, d>>} /\ UNCHANGED <<files, failed>>
     \/ /\ <<p, d>> \in mnt
        /\ files' = [files EXCEPT ![d] = 0]
        /\ failed' = [failed EXCEPT ![p] = IF pc[p] = "unmount" THEN "returned"
                                           ELSE IF @ = "no" THEN "logged" ELSE @]
        /\ UNCHANGED mnt
  /\ k' = [k EXCEPT ![p] = @ + 1]

CleanupMount(p) ==
  /\ pc[p] \in {"unmount", "undo"}
  /\ k[p] <= Len(prepared[p])
  /\ Unmount(p)
  /\ UNCHANGED <<pc, prepared, cancelled, dockerVars, lock, image, size>>

MountsCleaned(p) ==
  /\ pc[p] \in {"unmount", "undo"}
  /\ k[p] > Len(prepared[p])
  /\ Restart(p, "drop")
  /\ UNCHANGED <<prepared, cancelled, failed, dockerVars, lock, disk, mnt>>

\* Fault: the lock file is closed before the image is unmounted.
DropKeepsMount(p) ==
  /\ pc[p] = "drop"
  /\ k[p] <= Len(prepared[p])
  /\ Release(p, Turn(p))
  /\ k' = [k EXCEPT ![p] = @ + 1]
  /\ UNCHANGED <<pc, prepared, cancelled, failed, dockerVars, disk, mnt>>

\* Drop: cleanup() once more, then the lock file is closed.
DropMount(p) ==
  /\ pc[p] = "drop"
  /\ k[p] <= Len(prepared[p])
  /\ Unmount(p)
  /\ Release(p, Turn(p))
  /\ UNCHANGED <<pc, prepared, cancelled, dockerVars, image, size>>

\* A failed preparation is only logged; a failed cleanup is the result.
Exit(p) ==
  /\ pc[p] = "drop"
  /\ k[p] > Len(prepared[p])
  /\ Restart(p, "done")
  /\ prepared' = [prepared EXCEPT ![p] = <<>>]
  /\ UNCHANGED <<cancelled, failed, dockerVars, lock, disk, mnt>>

-----------------------------------------------------------------------------
(* The environment *)

Signal(p) ==
  /\ pc[p] \in {"check"} \cup Preparing \cup Waiting
  /\ ~cancelled[p]
  /\ cancelled' = [cancelled EXCEPT ![p] = TRUE]
  /\ UNCHANGED <<pc, k, prepared, failed, dockerVars, lock, disk, mnt>>

\* The process is killed: the kernel drops its locks, not its mounts, and
\* Docker keeps the container.
Crash(p) ==
  /\ pc[p] \notin Finished
  /\ Restart(p, "crashed")
  /\ prepared' = [prepared EXCEPT ![p] = <<>>]
  /\ known' = [known EXCEPT ![p] = FALSE]
  /\ stream' = [stream EXCEPT ![p] = FALSE]
  /\ lock' = [d \in Dirs |-> IF lock[d] = p THEN NoProc ELSE lock[d]]
  /\ UNCHANGED <<cancelled, failed, container, disk, mnt>>

ContainerEnds(p) ==
  /\ container[p] = "running"
  /\ container' = [container EXCEPT ![p] = "stopped"]
  /\ UNCHANGED <<pc, k, prepared, cancelled, failed, known, stream, lock, disk,
                 mnt>>

\* The log stream task: a container that has ended ends its log; the task
\* also ends when it cannot write the log to its own output.
LogEnds(p) ==
  /\ stream[p]
  /\ stream' = [stream EXCEPT ![p] = FALSE]
  /\ UNCHANGED <<pc, k, prepared, cancelled, failed, container, known, lock,
                 disk, mnt>>

LogFollowed(p) == container[p] # "running" /\ LogEnds(p)

\* The application in the enclave writes a file.
AppWrites(p, d) ==
  /\ container[p] = "running"
  /\ <<p, d>> \in mnt
  /\ files[d] < MaxWrites
  /\ files' = [files EXCEPT ![d] = @ + 1]
  /\ UNCHANGED <<pc, k, prepared, cancelled, failed, dockerVars, lock, image,
                 size, mnt>>

Progress(p) ==
  \/ CheckRequests(p) \/ TakeLock(p) \/ FindImage(p) \/ SizeImage(p)
  \/ FormatImage(p) \/ MountImage(p) \/ Prepared(p)
  \/ CreateContainer(p) \/ StartContainer(p) \/ ObserveSignal(p)
  \/ StopContainer(p) \/ RemoveContainer(p) \/ AwaitStream(p)
  \/ CleanupMount(p) \/ MountsCleaned(p) \/ DropMount(p) \/ Exit(p)

Next ==
  \E p \in Procs :
    \/ Progress(p) \/ AwaitContainer(p)
    \/ Signal(p) \/ Crash(p) \/ ContainerEnds(p) \/ LogEnds(p)
    \/ \E d \in Dirs : AppWrites(p, d)

Spec == Init /\ [][Next]_vars

\* The process takes its steps, and the commands and requests it issues
\* return; nothing makes a container end by itself.
FairSpec ==
  Spec /\ \A p \in Procs : WF_vars(Progress(p)) /\ WF_vars(LogFollowed(p))

-----------------------------------------------------------------------------
(* Properties *)

\* Until it drops its mounts for good, a process has an image mounted only
\* under its own lock: two processes at work never share an image, even when
\* an umount of one of them has failed.
MountedUnderLock ==
  \A p \in Procs : pc[p] \notin Finished \cup {"drop"} =>
    \A d \in Dirs : <<p, d>> \in mnt => lock[d] = p

\* For as long as a process holds a directory it has mounted, the image there
\* is a filesystem of the size its own manifest asks for, whatever processes
\* with other manifests did to the directory before it or were killed doing.
QuotaHolds ==
  \A p \in Procs : \A j \in DOMAIN Requests[p] :
    LET d == Requests[p][j] IN
    <<p, d>> \in mnt /\ lock[d] = p => size[d] = SizeMb[p][j] /\ image[d] = "ext4"

\* A running container has all its directories mounted: they are there before
\* it starts and go only after it has ended, unless Docker refused to stop or
\* remove it, which cleanup() reports.
ContainerHasMounts ==
  \A p \in Procs :
    container[p] = "running" /\ pc[p] # "crashed" /\ failed[p] # "returned" =>
    \A j \in DOMAIN Requests[p] : <<p, Requests[p][j]>> \in mnt

\* A process that ends without an error leaves no lock and no running container
\* behind, and no mount unless undoing a failed or abandoned preparation has
\* failed too, which is only logged.
ExitsClean ==
  \A p \in Procs : pc[p] = "done" /\ failed[p] # "returned" =>
    /\ \A d \in Dirs : lock[d] # p
    /\ container[p] # "running"
    /\ failed[p] = "no" => \A d \in Dirs : <<p, d>> \notin mnt

\* docs/host_backed_mounts.md: "reusing the same host_state_dir preserves
\* files across runs".  No step takes files from an image, save the
\* remove_dir_all that follows an umount that failed.
FilesPreserved ==
  [][\A d \in Dirs : files'[d] < files[d] =>
       \E p \in Procs : <<p, d>> \in mnt \cap mnt' /\ pc[p] \in {"undo", "unmount", "drop"}]_vars

\* A signal is honoured: the process ends, unless stopping or removing the
\* container failed, after which it waits for as long as the container runs.
SignalEnds ==
  \A p \in Procs : cancelled[p] ~> (pc[p] \in Finished \/ failed[p] = "returned")
=============================================================================
