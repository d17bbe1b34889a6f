------------------------ MODULE LoopbackMountProofs ------------------------
(***************************************************************************)
(* Proofs about LoopbackMount, for any number of processes, directories    *)
(* and requests.  The invariant says of every process which locks, mounts  *)
(* and images it accounts for at each point of its run; what the others do *)
(* concerns it only through the locks (lemma Bystander), so that every     *)
(* step is looked at for the process that takes it alone.                  *)
(***************************************************************************)
EXTENDS LoopbackMount, TLAPS

-----------------------------------------------------------------------------
(* The inductive invariant *)

\* Labels with a request in hand, and labels at which mounts are undone
Working == {"image", "size", "format", "mount"}
Undoing == {"undo", "unmount", "drop"}

\* The mounts of a process whose lock file is still open.
Held(p) == {i \in 1 .. Len(prepared[p]) : pc[p] = "drop" => k[p] <= i}

\* Where a process is, and how far it has come with its requests.
Control(p) ==
  /\ k[p] # 0
  /\ pc[p] \in Preparing => Distinct(p) /\ k[p] = Len(prepared[p]) + 1
  /\ pc[p] \in Working => k[p] <= Len(Requests[p])
  /\ pc[p] \in Waiting => Len(prepared[p]) = Len(Requests[p])
  /\ pc[p] \in {"check"} \cup Finished => Len(prepared[p]) = 0
  /\ Len(prepared[p]) > 0 => Distinct(p)

\* It has the locks of its mounts and of the request in hand, and no others.
Locks(p) ==
  /\ \A i \in Held(p) : lock[prepared[p][i]] = p
  /\ pc[p] \in Working => lock[Dir(p)] = p
  /\ \A d \in Dirs : lock[d] = p =>
       (\E i \in Held(p) : prepared[p][i] = d) \/ (pc[p] \in Working /\ d = Dir(p))

\* What it has mounted is what it has prepared, and all of that until it undoes it.
Mounts(p) ==
  /\ pc[p] \notin Finished =>
       \A d \in Dirs : <<p, d>> \in mnt => \E i \in 1 .. Len(prepared[p]) : prepared[p][i] = d
  /\ pc[p] \notin Undoing \cup Finished =>
       \A i \in 1 .. Len(prepared[p]) : <<p, prepared[p][i]>> \in mnt
  /\ pc[p] = "drop" /\ failed[p] = "no" =>
       \A i \in 1 .. Len(prepared[p]) : i < k[p] => <<p, prepared[p][i]>> \notin mnt
  /\ pc[p] = "done" /\ failed[p] = "no" => \A d \in Dirs : <<p, d>> \notin mnt

\* The images under its locks are as its manifest wants them.
Sizes(p) ==
  /\ \A i \in Held(p) : /\ size[prepared[p][i]] = SizeMb[p][i]
                        /\ image[prepared[p][i]] = "ext4"
  /\ pc[p] \in {"format", "mount"} => size[Dir(p)] = SizeMb[p][k[p]]

\* A container runs only while its process waits for it or is about to stop it.
Docker(p) ==
  /\ pc[p] \in {"check", "create", "undo"} \cup Preparing => container[p] = "none"
  /\ pc[p] \in {"start", "wait"} => known[p]
  /\ container[p] = "running" /\ pc[p] # "crashed" /\ failed[p] # "returned" =>
       pc[p] \in {"wait", "stop"} /\ known[p] /\ Len(prepared[p]) = Len(Requests[p])

\* An image with files exists, and what is mounted is a filesystem.
Disk ==
  /\ \A d \in Dirs : image[d] = "none" => files[d] = 0
  /\ \A p \in Procs, d \in Dirs : <<p, d>> \in mnt => image[d] = "ext4"

\* What the invariant says of one process
Own(p) == Control(p) /\ Locks(p) /\ Mounts(p) /\ Sizes(p) /\ Docker(p)

Inv == TypeOK /\ Disk /\ \A p \in Procs : Own(p)

-----------------------------------------------------------------------------
(* What a step is looked at for *)

\* Only the variables of one process change, within their types.
Mine(p) ==
  /\ pc' \in [Procs -> PCs] /\ k' \in [Procs -> Nat] /\ prepared' \in [Procs -> Seq(Dirs)]
  /\ cancelled' \in [Procs -> BOOLEAN]
  /\ failed' \in [Procs -> {"no", "logged", "returned"}]
  /\ container' \in [Procs -> {"none", "created", "running", "stopped"}]
  /\ known' \in [Procs -> BOOLEAN] /\ stream' \in [Procs -> BOOLEAN]
  /\ \A q \in Procs : q # p =>
       /\ pc'[q] = pc[q] /\ k'[q] = k[q] /\ prepared'[q] = prepared[q]
       /\ failed'[q] = failed[q] /\ container'[q] = container[q] /\ known'[q] = known[q]

\* What is shared changes only under the lock of that process.
Shared(p) ==
  /\ lock' \in [Dirs -> Procs \cup {NoProc}]
  /\ image' \in [Dirs -> {"none", "raw", "ext4"}]
  /\ size' \in [Dirs -> Nat]
  /\ files' \in [Dirs -> 0 .. MaxWrites]
  /\ mnt' \subseteq Procs \X Dirs
  /\ \A q \in Procs, d \in Dirs : q # p =>
       /\ lock'[d] = q <=> lock[d] = q
       /\ <<q, d>> \in mnt' <=> <<q, d>> \in mnt
  /\ \A d \in Dirs : lock[d] # p => size'[d] = size[d] /\ image'[d] = image[d]

\* prepared[p] goes along with Requests[p].
Prefix(p) ==
  /\ Len(prepared[p]) <= Len(Requests[p])
  /\ \A i \in 1 .. Len(prepared[p]) : prepared[p][i] = Requests[p][i]

-----------------------------------------------------------------------------
(* Functions and sequences *)

\* An update of a function at one point
LEMMA Updated ==
  ASSUME NEW S, NEW T, NEW f \in [S -> T], NEW x \in S, NEW v \in T
  PROVE  /\ [f EXCEPT ![x] = v] \in [S -> T]
         /\ [f EXCEPT ![x] = v][x] = v
         /\ \A y \in S : y # x => [f EXCEPT ![x] = v][y] = f[y]
OBVIOUS

\* The same, without the type of the new value
LEMMA Elsewhere ==
  ASSUME NEW S, NEW T, NEW f \in [S -> T], NEW x \in S, NEW v
  PROVE  /\ [f EXCEPT ![x] = v][x] = v
         /\ \A y \in S : y # x => [f EXCEPT ![x] = v][y] = f[y]
OBVIOUS

\* Appending to a sequence
LEMMA Appended ==
  ASSUME NEW S, NEW s \in Seq(S), NEW e \in S
  PROVE  /\ Append(s, e) \in Seq(S)
         /\ Len(Append(s, e)) = Len(s) + 1
         /\ \A i \in 1 .. Len(s) : Append(s, e)[i] = s[i]
         /\ Append(s, e)[Len(s) + 1] = e
OBVIOUS

\* The labels
LEMMA Labels ==
  /\ Working \subseteq Preparing /\ "lock" \in Preparing /\ "lock" \notin Working
  /\ Preparing \cap (Undoing \cup Finished \cup Waiting \cup {"check"}) = {}
  /\ Waiting \cap (Undoing \cup Finished \cup {"check"}) = {}
  /\ Undoing \cap (Finished \cup {"check"}) = {}
  /\ PCs = {"check", "undo", "drop", "lock", "image", "size", "format", "mount", "create",
            "start", "wait", "stop", "remove", "stream", "unmount", "done", "crashed"}
BY DEF Working, Preparing, Undoing, Finished, Waiting, PCs, Teardown

\* What the types say of one process
LEMMA Typed ==
  ASSUME TypeOK, NEW p \in Procs
  PROVE  /\ pc[p] \in PCs /\ k[p] \in Nat
         /\ prepared[p] \in Seq(Dirs) /\ Len(prepared[p]) \in Nat
         /\ Requests[p] \in Seq(Dirs) /\ Len(Requests[p]) \in Nat
         /\ Prefix(p) /\ p # NoProc
         /\ \A i \in 1 .. Len(prepared[p]) : prepared[p][i] \in Dirs
         /\ \A i \in 1 .. Len(Requests[p]) : Requests[p][i] \in Dirs /\ SizeMb[p][i] \in Nat
<1>1. /\ pc[p] \in PCs /\ k[p] \in Nat /\ prepared[p] \in Seq(Dirs) /\ Prefix(p)
      /\ p # NoProc
  BY LoopbackAssumption DEF TypeOK, Prefix
<1>2. /\ Requests[p] \in Seq(Dirs) /\ SizeMb[p] \in Seq(Nat \ {0})
      /\ Len(SizeMb[p]) = Len(Requests[p])
  BY LoopbackAssumption
<1>. QED
  BY <1>1, <1>2

\* The directory in hand
LEMMA InHand ==
  ASSUME TypeOK, NEW p \in Procs, pc[p] \in Working, Control(p)
  PROVE  /\ Dir(p) \in Dirs /\ SizeMb[p][k[p]] \in Nat
         /\ k[p] = Len(prepared[p]) + 1 /\ k[p] \in 1 .. Len(Requests[p])
         /\ \A i \in 1 .. Len(prepared[p]) : prepared[p][i] # Dir(p)
<1>1. Distinct(p) /\ k[p] = Len(prepared[p]) + 1 /\ k[p] <= Len(Requests[p])
  BY Labels DEF Control
<1>2. k[p] \in 1 .. Len(Requests[p])
  BY <1>1, Typed
<1>3. ASSUME NEW i \in 1 .. Len(prepared[p]) PROVE prepared[p][i] # Dir(p)
  <2>1. /\ Len(prepared[p]) \in Nat /\ Len(Requests[p]) \in Nat
        /\ Len(prepared[p]) <= Len(Requests[p]) /\ prepared[p][i] = Requests[p][i]
    BY Typed DEF Prefix
  <2>2. i \in 1 .. Len(Requests[p]) /\ i # k[p]
    BY <1>1, <2>1
  <2>. QED
    BY <1>1, <1>2, <2>1, <2>2 DEF Distinct, Dir
<1>. QED
  BY <1>1, <1>2, <1>3, Typed DEF Dir

-----------------------------------------------------------------------------
(* Who a step concerns *)

\* Nothing that one process accounts for changes.
Same(q) ==
  /\ pc'[q] = pc[q] /\ k'[q] = k[q] /\ prepared'[q] = prepared[q]
  /\ failed'[q] = failed[q] /\ container'[q] = container[q] /\ known'[q] = known[q]
  /\ \A d \in Dirs : /\ lock'[d] = q <=> lock[d] = q
                     /\ <<q, d>> \in mnt' <=> <<q, d>> \in mnt
                     /\ lock[d] = q => size'[d] = size[d] /\ image'[d] = image[d]

\* Then all that was known of it stays.
LEMMA Kept ==
  ASSUME TypeOK, NEW q \in Procs, Own(q), Same(q)
  PROVE  Own(q)' /\ Prefix(q)'
<1>1. /\ pc'[q] = pc[q] /\ k'[q] = k[q] /\ prepared'[q] = prepared[q]
      /\ failed'[q] = failed[q] /\ container'[q] = container[q] /\ known'[q] = known[q]
  BY DEF Same
<1>2. \A d \in Dirs : /\ lock'[d] = q <=> lock[d] = q
                      /\ <<q, d>> \in mnt' <=> <<q, d>> \in mnt
                      /\ lock[d] = q => size'[d] = size[d] /\ image'[d] = image[d]
  BY DEF Same
<1>3. Held(q)' = Held(q) /\ Dir(q)' = Dir(q)
  BY <1>1, Zenon DEF Held, Dir
<1>4. /\ \A i \in 1 .. Len(prepared[q]) : prepared[q][i] \in Dirs
      /\ Held(q) \subseteq 1 .. Len(prepared[q])
      /\ Prefix(q)
  BY Typed, Zenon DEF Held
<1>5. Control(q) /\ Locks(q) /\ Mounts(q) /\ Sizes(q) /\ Docker(q)
  BY Zenon DEF Own
<1>6. pc[q] \in Working => Dir(q) \in Dirs
  BY <1>5, InHand, Zenon
<1>7. Control(q)'
  BY <1>1, <1>5, Zenon DEF Control, Distinct
<1>8. Locks(q)'
  BY <1>1, <1>2, <1>3, <1>4, <1>5, <1>6, ZenonT(30) DEF Locks
<1>9. Mounts(q)'
  <2>1. pc[q] \notin Finished => \A d \in Dirs : <<q, d>> \in mnt' =>
          \E i \in 1 .. Len(prepared[q]) : prepared[q][i] = d
    BY <1>2, <1>5, Zenon DEF Mounts
  <2>2. pc[q] \notin Undoing \cup Finished =>
          \A i \in 1 .. Len(prepared[q]) : <<q, prepared[q][i]>> \in mnt'
    BY <1>2, <1>4, <1>5, Zenon DEF Mounts
  <2>3. pc[q] = "drop" /\ failed[q] = "no" =>
          \A i \in 1 .. Len(prepared[q]) : i < k[q] => <<q, prepared[q][i]>> \notin mnt'
    BY <1>2, <1>4, <1>5, Zenon DEF Mounts
  <2>4. pc[q] = "done" /\ failed[q] = "no" => \A d \in Dirs : <<q, d>> \notin mnt'
    BY <1>2, <1>5, Zenon DEF Mounts
  <2>. QED
    BY <1>1, <2>1, <2>2, <2>3, <2>4, Zenon DEF Mounts
<1>10. Sizes(q)'
  <2>1. {"format", "mount"} \subseteq Working
    BY Zenon DEF Working
  <2>2. \A i \in Held(q) : lock[prepared[q][i]] = q
    BY <1>5, Zenon DEF Locks
  <2>3. pc[q] \in Working => lock[Dir(q)] = q
    BY <1>5, Zenon DEF Locks
  <2>4. \A i \in Held(q) : /\ size'[prepared[q][i]] = SizeMb[q][i]
                           /\ image'[prepared[q][i]] = "ext4"
    BY <1>2, <1>4, <1>5, <2>2, Zenon DEF Sizes
  <2>5. pc[q] \in {"format", "mount"} => size'[Dir(q)] = SizeMb[q][k[q]]
    BY <1>2, <1>5, <1>6, <2>1, <2>3, Zenon DEF Sizes
  <2>. QED
    BY <1>1, <1>3, <2>4, <2>5, Zenon DEF Sizes
<1>11. Docker(q)'
  BY <1>1, <1>5, Zenon DEF Docker
<1>12. Prefix(q)'
  BY <1>1, <1>4, Zenon DEF Prefix
<1>. QED
  BY <1>7, <1>8, <1>9, <1>10, <1>11, <1>12, Zenon DEF Own

\* A step of one process is nobody else's business.
LEMMA Bystander ==
  ASSUME NEW p \in Procs, NEW q \in Procs, q # p, Mine(p), Shared(p)
  PROVE  Same(q)
BY Zenon DEF Mine, Shared, Same

\* What has to be shown of a step of one process
LEMMA Assemble ==
  ASSUME Inv, NEW p \in Procs, Mine(p), Shared(p), Disk', Own(p)', Prefix(p)'
  PROVE  Inv'
<1>1. \A q \in Procs : Own(q)' /\ Prefix(q)'
  <2>. SUFFICES ASSUME NEW q \in Procs, q # p PROVE Own(q)' /\ Prefix(q)'
    BY Zenon
  <2>1. Same(q)
    BY Bystander, Zenon
  <2>. QED
    BY <2>1, Kept, Zenon DEF Inv
<1>2. TypeOK'
  BY <1>1, Zenon DEF TypeOK, Mine, Shared, Prefix
<1>. QED
  BY <1>1, <1>2, Zenon DEF Inv

\* A step that keeps the locks, the images and the mounts
LEMMA Undisturbed ==
  ASSUME TypeOK, NEW p \in Procs, UNCHANGED <<lock, disk, mnt>>
  PROVE  Shared(p)
BY Zenon DEF TypeOK, Shared, disk

\* Such a step keeps what the invariant says of the disk.
LEMMA DiskUndisturbed ==
  ASSUME Disk, UNCHANGED <<lock, disk, mnt>>
  PROVE  Disk'
BY Zenon DEF Disk, disk

\* A step between labels at which no request is in hand, all mounts are there
\* or none is, and all their locks are held
Settled == {"check", "lock", "create", "start", "wait", "stop", "remove", "stream"}

\* Such a step keeps what a process accounts for.
LEMMA Moved ==
  ASSUME Inv, NEW p \in Procs, UNCHANGED <<lock, disk, mnt>>, prepared'[p] = prepared[p],
         \/ pc[p] \in Settled /\ pc'[p] \in Settled
         \/ pc[p] \in Settled \cup Undoing /\ pc[p] # "drop" /\ pc'[p] \in Undoing /\ k'[p] = 1
  PROVE  Locks(p)' /\ Mounts(p)' /\ Sizes(p)'
<1>1. /\ pc[p] \notin Working /\ pc'[p] \notin Working /\ pc[p] # "drop"
      /\ pc[p] \notin Finished /\ pc'[p] \notin Finished
      /\ pc'[p] \notin Undoing => pc[p] \notin Undoing
      /\ pc'[p] = "drop" => k'[p] = 1
      /\ pc'[p] \notin {"format", "mount"}
  BY Zenon DEF Working, Settled, Undoing, Finished
<1>2. Held(p) = 1 .. Len(prepared[p])
  BY <1>1, Zenon DEF Held
<1>3. Held(p)' = 1 .. Len(prepared[p])
  <2>1. \A i \in 1 .. Len(prepared[p]) : 1 <= i
    OBVIOUS
  <2>. QED
    BY <1>1, <2>1, Zenon DEF Held
<1>4. UNCHANGED <<lock, image, size, mnt>>
  BY Zenon DEF disk
<1>5. Locks(p) /\ Mounts(p) /\ Sizes(p)
  BY Zenon DEF Inv, Own
<1>6. Locks(p)'
  BY <1>1, <1>2, <1>3, <1>4, <1>5, Zenon DEF Locks
<1>7. Sizes(p)'
  BY <1>1, <1>2, <1>3, <1>4, <1>5, Zenon DEF Sizes
<1>8. Mounts(p)'
  <2>1. pc'[p] = "drop" => \A i \in 1 .. Len(prepared[p]) : ~(i < k'[p])
    BY <1>1
  <2>2. pc'[p] # "done"
    BY <1>1, Zenon DEF Finished
  <2>. QED
    BY <1>1, <1>4, <1>5, <2>1, <2>2, Zenon DEF Mounts
<1>. QED
  BY <1>6, <1>7, <1>8, Zenon

-----------------------------------------------------------------------------
(* prepare_loopback_mounts *)

\* Going to a label
LEMMA Going ==
  ASSUME TypeOK, NEW p \in Procs, NEW label \in PCs, Goto(p, label)
  PROVE  /\ pc' \in [Procs -> PCs] /\ pc'[p] = label
         /\ \A q \in Procs : q # p => pc'[q] = pc[q]
BY Updated, Zenon DEF TypeOK, Goto

\* Going to a label and starting over with the requests
LEMMA Restarting ==
  ASSUME TypeOK, NEW p \in Procs, NEW label \in PCs, Restart(p, label)
  PROVE  /\ pc' \in [Procs -> PCs] /\ pc'[p] = label
         /\ k' \in [Procs -> Nat] /\ k'[p] = 1 /\ k'[p] # 0
         /\ \A q \in Procs : q # p => pc'[q] = pc[q] /\ k'[q] = k[q]
<1>1. Goto(p, label) /\ k' = [k EXCEPT ![p] = 1] /\ k \in [Procs -> Nat]
  BY Zenon DEF Restart, TypeOK
<1>2. 1 \in Nat /\ 1 # 0
  OBVIOUS
<1>3. k' \in [Procs -> Nat] /\ k'[p] = 1 /\ \A q \in Procs : q # p => k'[q] = k[q]
  BY <1>1, <1>2, Updated, Zenon
<1>. QED
  BY <1>1, <1>2, <1>3, Going, Zenon

\* Refusing a manifest with a duplicate directory, or going on with it, keeps
\* the invariant.
LEMMA CheckRequestsInv ==
  ASSUME Inv, NEW p \in Procs, CheckRequests(p)
  PROVE  Inv'
<1>. DEFINE label == IF Distinct(p) THEN "lock" ELSE "stop"
<1>1. /\ TypeOK /\ Disk /\ Own(p) /\ pc[p] = "check" /\ Restart(p, label)
      /\ UNCHANGED <<prepared, cancelled, failed, dockerVars, lock, disk, mnt>>
  BY Zenon DEF CheckRequests, Inv
<1>2. label \in PCs
  BY Labels, Zenon
<1>3. Mine(p) /\ pc'[p] = label /\ k'[p] = 1 /\ k'[p] # 0
  BY <1>1, <1>2, Restarting, ZenonT(30) DEF TypeOK, Mine, dockerVars
<1>4. Shared(p) /\ Disk' /\ Prefix(p)'
  BY <1>1, Undisturbed, DiskUndisturbed, Typed, Zenon DEF Prefix
<1>5. Locks(p)' /\ Mounts(p)' /\ Sizes(p)'
  BY <1>1, <1>3, Moved, Zenon DEF Settled
<1>6. Len(prepared[p]) = 0
  BY <1>1, Zenon DEF Own, Control
<1>7. Control(p)'
  <2>1. 1 = Len(prepared[p]) + 1 /\ ~(Len(prepared[p]) > 0)
    BY <1>6
  <2>. QED
    BY <1>1, <1>3, <2>1, Zenon DEF Control, Distinct, Preparing, Working, Waiting, Finished
<1>8. Docker(p)'
  <2>1. container[p] = "none"
    BY <1>1, Zenon DEF Own, Docker
  <2>. QED
    BY <1>1, <1>3, <2>1, Zenon DEF Docker, dockerVars
<1>. QED
  BY <1>3, <1>4, <1>5, <1>7, <1>8, Assemble, Zenon DEF Own

\* A request in hand: its number and its directory
LEMMA Handling ==
  ASSUME Inv, NEW p \in Procs, pc[p] \in Preparing, k[p] <= Len(Requests[p])
  PROVE  /\ Distinct(p) /\ k[p] = Len(prepared[p]) + 1 /\ k[p] \in 1 .. Len(Requests[p])
         /\ Dir(p) \in Dirs /\ SizeMb[p][k[p]] \in Nat
         /\ \A i \in 1 .. Len(prepared[p]) : prepared[p][i] \in Dirs /\ prepared[p][i] # Dir(p)
<1>1. Distinct(p) /\ k[p] = Len(prepared[p]) + 1
  BY Zenon DEF Inv, Own, Control
<1>2. /\ Len(prepared[p]) \in Nat /\ Len(Requests[p]) \in Nat
      /\ \A i \in 1 .. Len(prepared[p]) : prepared[p][i] = Requests[p][i] /\ prepared[p][i] \in Dirs
      /\ \A i \in 1 .. Len(Requests[p]) : Requests[p][i] \in Dirs /\ SizeMb[p][i] \in Nat
      /\ Len(prepared[p]) <= Len(Requests[p])
  BY Typed, Zenon DEF Prefix, Inv
<1>3. k[p] \in 1 .. Len(Requests[p])
  BY <1>1, <1>2
<1>4. \A i \in 1 .. Len(prepared[p]) : i \in 1 .. Len(Requests[p]) /\ i # k[p]
  BY <1>1, <1>2
<1>. QED
  BY <1>1, <1>2, <1>3, <1>4, Zenon DEF Distinct, Dir

\* Giving up on a request lets go of its directory only.
LEMMA BailInv ==
  ASSUME Inv, NEW p \in Procs, pc[p] \in Preparing, k[p] <= Len(Requests[p]), Bail(p),
         UNCHANGED <<cancelled, failed, dockerVars, disk, mnt>>
  PROVE  Inv'
<1>1. /\ TypeOK /\ Disk /\ Own(p)
      /\ Restart(p, "undo") /\ Release(p, Dir(p)) /\ UNCHANGED prepared
  BY Zenon DEF Bail, Inv
<1>2. "undo" \in PCs
  BY Labels, Zenon
<1>3. Mine(p) /\ pc'[p] = "undo" /\ k'[p] = 1 /\ k'[p] # 0
  BY <1>1, <1>2, Restarting, ZenonT(30) DEF TypeOK, Mine, dockerVars
<1>4. Distinct(p)
  BY Handling, Zenon
<1>5. /\ Dir(p) \in Dirs
      /\ \A i \in 1 .. Len(prepared[p]) : prepared[p][i] \in Dirs /\ prepared[p][i] # Dir(p)
  BY Handling, Zenon
<1>6. /\ lock' \in [Dirs -> Procs \cup {NoProc}]
      /\ lock'[Dir(p)] # p /\ (lock[Dir(p)] # p => lock'[Dir(p)] = lock[Dir(p)])
      /\ (lock[Dir(p)] = p => lock'[Dir(p)] = NoProc)
      /\ \A d \in Dirs : d # Dir(p) => lock'[d] = lock[d]
  <2>. DEFINE v == IF lock[Dir(p)] = p THEN NoProc ELSE lock[Dir(p)]
  <2>1. lock \in [Dirs -> Procs \cup {NoProc}] /\ lock' = [lock EXCEPT ![Dir(p)] = v]
    BY <1>1, Zenon DEF TypeOK, Release
  <2>2. v \in Procs \cup {NoProc} /\ v # p
    BY <1>5, <2>1, LoopbackAssumption, Zenon
  <2>. QED
    BY <1>5, <2>1, <2>2, Updated, Zenon
<1>7. Shared(p) /\ Disk'
  <2>1. /\ image \in [Dirs -> {"none", "raw", "ext4"}] /\ size \in [Dirs -> Nat]
        /\ files \in [Dirs -> 0 .. MaxWrites] /\ mnt \subseteq Procs \X Dirs
        /\ UNCHANGED <<image, size, files, mnt>>
    BY <1>1, Zenon DEF TypeOK, disk
  <2>2. \A q \in Procs, d \in Dirs : q # p => (lock'[d] = q <=> lock[d] = q)
    BY <1>6, LoopbackAssumption, Zenon
  <2>. QED
    BY <1>1, <1>6, <2>1, <2>2, Zenon DEF Shared, Disk
<1>8. /\ Held(p) = 1 .. Len(prepared[p]) /\ Held(p)' = 1 .. Len(prepared[p])
      /\ pc'[p] \notin Working \cup Preparing \cup Waiting \cup Finished \cup {"check"}
      /\ pc[p] \notin Finished
      /\ pc'[p] \in Undoing
  BY <1>1, <1>3, Zenon DEF Held, Working, Undoing, Finished, Preparing, Waiting
<1>9. Control(p)'
  BY <1>1, <1>4, <1>3, <1>8, Zenon DEF Control, Distinct
<1>10. Locks(p)'
  <2>1. \A i \in 1 .. Len(prepared[p]) : lock'[prepared[p][i]] = p
    BY <1>1, <1>5, <1>6, <1>8, Zenon DEF Own, Locks
  <2>2. \A d \in Dirs : lock'[d] = p => d # Dir(p) /\ lock[d] = p
    BY <1>6, Zenon
  <2>3. \A d \in Dirs : lock'[d] = p => \E i \in 1 .. Len(prepared[p]) : prepared[p][i] = d
    BY <1>1, <1>8, <2>2, Zenon DEF Own, Locks
  <2>. QED
    BY <1>1, <1>8, <2>1, <2>3, Zenon DEF Locks
<1>11. Mounts(p)'
  BY <1>1, <1>3, <1>8, Zenon DEF Own, Mounts, Finished
<1>12. Sizes(p)'
  BY <1>1, <1>3, <1>8, Zenon DEF Own, Sizes, disk
<1>13. Docker(p)'
  BY <1>1, <1>3, <1>8, Zenon DEF Own, Docker, dockerVars
<1>14. Prefix(p)'
  BY <1>1, Typed, Zenon DEF Prefix
<1>. QED
  BY <1>3, <1>7, <1>9, <1>10, <1>11, <1>12, <1>13, <1>14, Assemble, Zenon DEF Own
\* A step touches the directory in hand and no other.
OnlyHere(p) ==
  /\ \A d \in Dirs : d # Dir(p) =>
       lock'[d] = lock[d] /\ size'[d] = size[d] /\ image'[d] = image[d] /\ files'[d] = files[d]
  /\ image[Dir(p)] = "ext4" => image'[Dir(p)] = "ext4"
  /\ image'[Dir(p)] = "none" => files'[Dir(p)] = 0
  /\ mnt' = mnt

\* Working on the request in hand, or taking it in hand
LEMMA WorkingInv ==
  ASSUME Inv, NEW p \in Procs, pc[p] \in Preparing, k[p] <= Len(Requests[p]),
         Mine(p), Shared(p), OnlyHere(p),
         pc'[p] \in Working, k'[p] = k[p], prepared'[p] = prepared[p],
         failed'[p] = failed[p], container'[p] = container[p], known'[p] = known[p],
         lock'[Dir(p)] = p,
         pc'[p] \in {"format", "mount"} => size'[Dir(p)] = SizeMb[p][k[p]]
  PROVE  Inv'
<1>1. /\ TypeOK /\ Disk /\ Control(p) /\ Locks(p) /\ Mounts(p) /\ Sizes(p) /\ Docker(p)
  BY Zenon DEF Inv, Own
<1>2. /\ Distinct(p) /\ k[p] = Len(prepared[p]) + 1
      /\ Dir(p) \in Dirs
      /\ \A i \in 1 .. Len(prepared[p]) : prepared[p][i] \in Dirs /\ prepared[p][i] # Dir(p)
  BY Handling, Zenon
<1>3. /\ pc'[p] \in Preparing
      /\ pc[p] \notin Undoing \cup Finished \cup Waiting \cup {"check"}
      /\ pc'[p] \notin Undoing \cup Finished \cup Waiting \cup {"check"}
      /\ pc[p] # "drop" /\ pc'[p] # "drop" /\ pc'[p] # "done"
      /\ pc'[p] \notin {"start", "wait", "stop"}
  BY Zenon DEF Preparing, Undoing, Finished, Waiting, Working
<1>4. Held(p) = 1 .. Len(prepared[p]) /\ Held(p)' = 1 .. Len(prepared[p]) /\ Dir(p)' = Dir(p)
  BY <1>3, Zenon DEF Held, Dir
<1>5. Disk'
  BY <1>1, <1>2, ZenonT(30) DEF Disk, OnlyHere
<1>6. Control(p)'
  BY <1>1, <1>2, <1>3, Zenon DEF Control, Distinct
<1>7. Locks(p)'
  <2>1. \A i \in 1 .. Len(prepared[p]) : lock'[prepared[p][i]] = p
    BY <1>1, <1>2, <1>4, ZenonT(30) DEF Locks, OnlyHere
  <2>2. \A d \in Dirs : lock'[d] = p /\ d # Dir(p) =>
          \E i \in 1 .. Len(prepared[p]) : prepared[p][i] = d
    BY <1>1, <1>4, Zenon DEF Locks, OnlyHere
  <2>. QED
    BY <1>4, <2>1, <2>2, Zenon DEF Locks
<1>8. Mounts(p)'
  <2>1. mnt' = mnt
    BY Zenon DEF OnlyHere
  <2>. QED
    BY <1>1, <1>3, <2>1, Zenon DEF Mounts
<1>9. Sizes(p)'
  <2>1. \A i \in 1 .. Len(prepared[p]) : /\ size'[prepared[p][i]] = SizeMb[p][i]
                                         /\ image'[prepared[p][i]] = "ext4"
    BY <1>1, <1>2, <1>4, ZenonT(30) DEF Sizes, OnlyHere
  <2>. QED
    BY <1>4, <2>1, Zenon DEF Sizes
<1>10. Docker(p)'
  <2>1. container'[p] = "none"
    BY <1>1, Zenon DEF Docker
  <2>. QED
    BY <1>3, <2>1, Zenon DEF Docker
<1>11. Prefix(p)'
  BY <1>1, Typed, Zenon DEF Prefix
<1>. QED
  BY <1>5, <1>6, <1>7, <1>8, <1>9, <1>10, <1>11, Assemble, Zenon DEF Own

\* Taking the lock of a directory, or finding it taken, keeps the invariant.
LEMMA TakeLockInv ==
  ASSUME Inv, NEW p \in Procs, TakeLock(p)
  PROVE  Inv'
<1>1. /\ TypeOK /\ pc[p] \in Preparing /\ k[p] <= Len(Requests[p])
      /\ UNCHANGED <<cancelled, failed, dockerVars, disk, mnt>>
  BY Zenon DEF TakeLock, Inv, Preparing
<1>2. CASE Bail(p)
  BY <1>1, <1>2, BailInv, Zenon
<1>3. CASE /\ lock[Dir(p)] = NoProc
           /\ lock' = [lock EXCEPT ![Dir(p)] = p]
           /\ Goto(p, "image")
           /\ UNCHANGED <<k, prepared>>
  <2>1. "image" \in PCs /\ "image" \in Working /\ "image" \notin {"format", "mount"}
    BY Labels, Zenon DEF Working
  <2>2. Mine(p) /\ pc'[p] = "image"
    BY <1>1, <1>3, <2>1, Going, Zenon DEF TypeOK, Mine, dockerVars
  <2>3. Dir(p) \in Dirs
    BY <1>1, Handling, Zenon
  <2>4. /\ lock' \in [Dirs -> Procs \cup {NoProc}] /\ lock'[Dir(p)] = p
        /\ \A d \in Dirs : d # Dir(p) => lock'[d] = lock[d]
    BY <1>1, <1>3, <2>3, Updated, ZenonT(30) DEF TypeOK
  <2>5. Shared(p)
    <3>1. \A q \in Procs, d \in Dirs : q # p => (lock'[d] = q <=> lock[d] = q)
      BY <1>3, <2>4, LoopbackAssumption, Zenon
    <3>. QED
      BY <1>1, <2>4, <3>1, Zenon DEF Shared, TypeOK, disk
  <2>6. OnlyHere(p)
    BY <1>1, <2>3, <2>4, Zenon DEF OnlyHere, Inv, Disk, disk
  <2>. QED
    BY <1>1, <1>3, <2>1, <2>2, <2>4, <2>5, <2>6, WorkingInv, Zenon DEF dockerVars
<1>. QED
  BY <1>2, <1>3, Zenon DEF TakeLock
\* A process at work on a request
LEMMA AtWork ==
  ASSUME Inv, NEW p \in Procs, pc[p] \in Working
  PROVE  /\ TypeOK /\ pc[p] \in Preparing /\ k[p] <= Len(Requests[p])
         /\ Dir(p) \in Dirs /\ lock[Dir(p)] = p /\ SizeMb[p][k[p]] \in Nat
<1>1. TypeOK /\ pc[p] \in Preparing /\ k[p] <= Len(Requests[p]) /\ lock[Dir(p)] = p
  BY Zenon DEF Inv, Own, Control, Locks, Working, Preparing
<1>. QED
  BY <1>1, Handling, Zenon

\* Steps that leave the locks and the mounts alone
LEMMA SharedImage ==
  ASSUME TypeOK, NEW p \in Procs, lock[Dir(p)] = p, UNCHANGED <<lock, mnt>>,
         image' \in [Dirs -> {"none", "raw", "ext4"}], size' \in [Dirs -> Nat],
         files' \in [Dirs -> 0 .. MaxWrites],
         \A d \in Dirs : d # Dir(p) => size'[d] = size[d] /\ image'[d] = image[d]
  PROVE  Shared(p)
BY Zenon DEF TypeOK, Shared

\* Opening or creating the image keeps the invariant.
LEMMA FindImageInv ==
  ASSUME Inv, NEW p \in Procs, FindImage(p)
  PROVE  Inv'
<1>1. pc[p] \in Working /\ UNCHANGED <<cancelled, failed, dockerVars, mnt>>
  BY Zenon DEF FindImage, Working
<1>2. /\ TypeOK /\ pc[p] \in Preparing /\ k[p] <= Len(Requests[p])
      /\ Dir(p) \in Dirs /\ lock[Dir(p)] = p
  BY <1>1, AtWork, Zenon
<1>3. "size" \in PCs \cap Working /\ "mount" \in PCs \cap Working /\ "size" \notin {"format", "mount"}
  BY Labels, Zenon DEF Working
<1>4. CASE Bail(p) /\ UNCHANGED disk
  BY <1>1, <1>2, <1>4, BailInv, Zenon
<1>5. CASE /\ MustCreate(p)
           /\ image' = [image EXCEPT ![Dir(p)] = "raw"]
           /\ size' = [size EXCEPT ![Dir(p)] = 0]
           /\ files' = [files EXCEPT ![Dir(p)] = 0]
           /\ Goto(p, "size")
           /\ UNCHANGED <<k, prepared, lock>>
  <2>1. Mine(p) /\ pc'[p] = "size"
    BY <1>1, <1>2, <1>3, <1>5, Going, ZenonT(30) DEF TypeOK, Mine, dockerVars
  <2>2. /\ image' \in [Dirs -> {"none", "raw", "ext4"}] /\ image'[Dir(p)] = "raw"
        /\ \A d \in Dirs : d # Dir(p) => image'[d] = image[d]
    BY <1>2, <1>5, Updated, ZenonT(30) DEF TypeOK
  <2>3. /\ size' \in [Dirs -> Nat]
        /\ \A d \in Dirs : d # Dir(p) => size'[d] = size[d]
    <3>1. 0 \in Nat
      OBVIOUS
    <3>. QED
      BY <1>2, <1>5, <3>1, Updated, Zenon DEF TypeOK
  <2>4. /\ files' \in [Dirs -> 0 .. MaxWrites] /\ files'[Dir(p)] = 0
        /\ \A d \in Dirs : d # Dir(p) => files'[d] = files[d]
    <3>1. 0 \in 0 .. MaxWrites
      BY LoopbackAssumption
    <3>. QED
      BY <1>2, <1>5, <3>1, Updated, ZenonT(30) DEF TypeOK
  <2>5. OnlyHere(p)
    BY <1>1, <1>5, <2>2, <2>3, <2>4, Zenon DEF OnlyHere, MustCreate
  <2>6. Shared(p)
    BY <1>1, <1>2, <1>5, <2>2, <2>3, <2>4, SharedImage, Zenon
  <2>. QED
    BY <1>1, <1>2, <1>3, <1>5, <2>1, <2>5, <2>6, WorkingInv, Zenon DEF dockerVars
<1>6. CASE /\ ~MustCreate(p) /\ SizeMatches(p)
           /\ Goto(p, "mount")
           /\ UNCHANGED <<k, prepared, lock, disk>>
  <2>1. Mine(p) /\ pc'[p] = "mount"
    BY <1>1, <1>2, <1>3, <1>6, Going, ZenonT(30) DEF TypeOK, Mine, dockerVars
  <2>2. Shared(p)
    BY <1>1, <1>2, <1>6, Undisturbed, Zenon
  <2>3. OnlyHere(p)
    BY <1>1, <1>2, <1>6, Zenon DEF OnlyHere, disk, Inv, Disk
  <2>4. size'[Dir(p)] = SizeMb[p][k[p]]
    BY <1>6, Zenon DEF SizeMatches, disk
  <2>. QED
    BY <1>1, <1>2, <1>3, <1>6, <2>1, <2>2, <2>3, <2>4, WorkingInv, Zenon DEF dockerVars
<1>. QED
  BY <1>4, <1>5, <1>6, Zenon DEF FindImage

\* Giving the image its size keeps the invariant.
LEMMA SizeImageInv ==
  ASSUME Inv, NEW p \in Procs, SizeImage(p)
  PROVE  Inv'
<1>1. pc[p] \in Working /\ UNCHANGED <<cancelled, failed, dockerVars, image, files, mnt>>
  BY Zenon DEF SizeImage, Working
<1>2. /\ TypeOK /\ pc[p] \in Preparing /\ k[p] <= Len(Requests[p])
      /\ Dir(p) \in Dirs /\ lock[Dir(p)] = p /\ SizeMb[p][k[p]] \in Nat
  BY <1>1, AtWork, Zenon
<1>3. "format" \in PCs \cap Working
  BY Labels, Zenon DEF Working
<1>4. CASE Bail(p) /\ UNCHANGED size
  BY <1>1, <1>2, <1>4, BailInv, Zenon DEF disk
<1>5. CASE /\ size' = [size EXCEPT ![Dir(p)] = SizeMb[p][k[p]]]
           /\ Goto(p, "format")
           /\ UNCHANGED <<k, prepared, lock>>
  <2>1. Mine(p) /\ pc'[p] = "format"
    BY <1>1, <1>2, <1>3, <1>5, Going, ZenonT(30) DEF TypeOK, Mine, dockerVars
  <2>2. /\ size' \in [Dirs -> Nat] /\ size'[Dir(p)] = SizeMb[p][k[p]]
        /\ \A d \in Dirs : d # Dir(p) => size'[d] = size[d]
    BY <1>2, <1>5, Updated, ZenonT(30) DEF TypeOK
  <2>3. OnlyHere(p)
    BY <1>1, <1>2, <1>5, <2>2, Zenon DEF OnlyHere, Inv, Disk
  <2>4. Shared(p)
    <3>1. /\ image' \in [Dirs -> {"none", "raw", "ext4"}] /\ files' \in [Dirs -> 0 .. MaxWrites]
          /\ image' = image
      BY <1>1, <1>2, Zenon DEF TypeOK
    <3>. QED
      BY <1>1, <1>2, <1>5, <2>2, <3>1, SharedImage, Zenon
  <2>. QED
    BY <1>1, <1>2, <1>3, <1>5, <2>1, <2>2, <2>3, <2>4, WorkingInv, Zenon DEF dockerVars
<1>. QED
  BY <1>4, <1>5, Zenon DEF SizeImage

\* Making a filesystem on the image keeps the invariant.
LEMMA FormatImageInv ==
  ASSUME Inv, NEW p \in Procs, FormatImage(p)
  PROVE  Inv'
<1>1. /\ pc[p] = "format" /\ pc[p] \in Working
      /\ UNCHANGED <<cancelled, failed, dockerVars, size, files, mnt>>
  BY Zenon DEF FormatImage, Working
<1>2. /\ TypeOK /\ pc[p] \in Preparing /\ k[p] <= Len(Requests[p])
      /\ Dir(p) \in Dirs /\ lock[Dir(p)] = p
  BY <1>1, AtWork, Zenon
<1>3. "mount" \in PCs \cap Working
  BY Labels, Zenon DEF Working
<1>4. CASE Bail(p) /\ UNCHANGED image
  BY <1>1, <1>2, <1>4, BailInv, Zenon DEF disk
<1>5. CASE /\ image' = [image EXCEPT ![Dir(p)] = "ext4"]
           /\ Goto(p, "mount")
           /\ UNCHANGED <<k, prepared, lock>>
  <2>1. Mine(p) /\ pc'[p] = "mount"
    BY <1>1, <1>2, <1>3, <1>5, Going, ZenonT(30) DEF TypeOK, Mine, dockerVars
  <2>2. /\ image' \in [Dirs -> {"none", "raw", "ext4"}] /\ image'[Dir(p)] = "ext4"
        /\ \A d \in Dirs : d # Dir(p) => image'[d] = image[d]
    BY <1>2, <1>5, Updated, ZenonT(30) DEF TypeOK
  <2>3. OnlyHere(p)
    BY <1>1, <1>2, <1>5, <2>2, Zenon DEF OnlyHere
  <2>4. Shared(p)
    <3>1. /\ size' \in [Dirs -> Nat] /\ files' \in [Dirs -> 0 .. MaxWrites] /\ size' = size
      BY <1>1, <1>2, Zenon DEF TypeOK
    <3>. QED
      BY <1>1, <1>2, <1>5, <2>2, <3>1, SharedImage, Zenon
  <2>5. size'[Dir(p)] = SizeMb[p][k[p]]
    BY <1>1, Zenon DEF Inv, Own, Sizes
  <2>. QED
    BY <1>1, <1>2, <1>3, <1>5, <2>1, <2>3, <2>4, <2>5, WorkingInv, Zenon DEF dockerVars
<1>. QED
  BY <1>4, <1>5, Zenon DEF FormatImage
\* Mounting the image keeps the invariant: the mount is accounted for in the
\* same step.
LEMMA MountImageInv ==
  ASSUME Inv, NEW p \in Procs, MountImage(p)
  PROVE  Inv'
<1>1. /\ pc[p] = "mount" /\ pc[p] \in Working
      /\ UNCHANGED <<cancelled, failed, dockerVars, disk>>
  BY Zenon DEF MountImage, Working
<1>2. /\ TypeOK /\ pc[p] \in Preparing /\ k[p] <= Len(Requests[p])
      /\ Dir(p) \in Dirs /\ lock[Dir(p)] = p
  BY <1>1, AtWork, Zenon
<1>3. CASE Bail(p) /\ UNCHANGED mnt
  BY <1>1, <1>2, <1>3, BailInv, Zenon
<1>4. CASE /\ image[Dir(p)] = "ext4"
           /\ mnt' = mnt \cup {<<p, Dir(p)>>}
           /\ prepared' = [prepared EXCEPT ![p] = Append(prepared[p], Dir(p))]
           /\ k' = [k EXCEPT ![p] = k[p] + 1]
           /\ Goto(p, "lock")
           /\ UNCHANGED lock
  <2>. DEFINE n == Len(prepared[p])
  <2>1. /\ prepared[p] \in Seq(Dirs) /\ n \in Nat /\ k[p] \in Nat /\ Prefix(p)
        /\ Len(Requests[p]) \in Nat
    BY <1>2, Typed, Zenon
  <2>2. Distinct(p) /\ k[p] = n + 1
    BY <1>2, Handling, Zenon
  <2>3. k' \in [Procs -> Nat] /\ k'[p] = k[p] + 1 /\ \A q \in Procs : q # p => k'[q] = k[q]
    <3>1. k[p] + 1 \in Nat /\ k \in [Procs -> Nat]
      BY <1>2, <2>1 DEF TypeOK
    <3>. QED
      BY <1>4, <3>1, Updated, Zenon
  <2>4. /\ prepared' \in [Procs -> Seq(Dirs)] /\ prepared'[p] = Append(prepared[p], Dir(p))
        /\ \A q \in Procs : q # p => prepared'[q] = prepared[q]
    <3>1. Append(prepared[p], Dir(p)) \in Seq(Dirs)
      BY <1>2, <2>1, Appended, Zenon
    <3>. QED
      BY <1>2, <1>4, <3>1, Updated, Zenon DEF TypeOK
  <2>5. /\ Len(prepared'[p]) = n + 1 /\ prepared'[p][n + 1] = Dir(p)
        /\ \A i \in 1 .. n : prepared'[p][i] = prepared[p][i]
    <3>1. /\ Len(Append(prepared[p], Dir(p))) = n + 1 /\ Append(prepared[p], Dir(p))[n + 1] = Dir(p)
          /\ \A i \in 1 .. n : Append(prepared[p], Dir(p))[i] = prepared[p][i]
      BY <1>2, <2>1, Appended
    <3>. QED
      BY <2>4, <3>1, Zenon
  <2>6. \A i \in 1 .. n + 1 : i \in 1 .. n \/ i = n + 1
    BY <2>1
  <2>7. (1 .. n) \subseteq 1 .. n + 1 /\ n + 1 \in 1 .. n + 1 /\ k'[p] = Len(prepared'[p]) + 1
    BY <2>1, <2>2, <2>3, <2>5
  <2>8. Mine(p) /\ pc'[p] = "lock"
    <3>1. "lock" \in PCs
      BY Labels, Zenon
    <3>2. /\ pc' \in [Procs -> PCs] /\ pc'[p] = "lock"
          /\ \A q \in Procs : q # p => pc'[q] = pc[q]
      BY <1>2, <1>4, <3>1, Going, Zenon
    <3>. QED
      BY <1>1, <1>2, <2>3, <2>4, <3>2, Zenon DEF TypeOK, Mine, dockerVars
  <2>9. Shared(p)
    <3>1. mnt' \subseteq Procs \X Dirs
      BY <1>2, <1>4 DEF TypeOK
    <3>2. \A q \in Procs, d \in Dirs : q # p => (<<q, d>> \in mnt' <=> <<q, d>> \in mnt)
      BY <1>4
    <3>. QED
      BY <1>1, <1>2, <1>4, <3>1, <3>2, Zenon DEF Shared, TypeOK, disk
  <2>10. /\ mnt \subseteq mnt' /\ <<p, Dir(p)>> \in mnt'
         /\ \A q \in Procs, d \in Dirs : <<q, d>> \in mnt' =>
              <<q, d>> \in mnt \/ d = Dir(p)
    BY <1>4
  <2>11. Disk'
    BY <1>1, <1>4, <2>10, Zenon DEF Inv, Disk, disk
  <2>12. Held(p) = 1 .. n /\ Held(p)' = 1 .. n + 1
    BY <1>1, <2>5, <2>8, Zenon DEF Held
  <2>13. /\ pc'[p] \in Preparing /\ pc'[p] \notin Working \cup Waiting \cup Undoing \cup Finished \cup {"check"}
         /\ pc[p] \notin Undoing \cup Finished
    BY <1>1, <2>8, Zenon DEF Preparing, Working, Waiting, Undoing, Finished
  <2>14. /\ \A i \in 1 .. n : /\ lock[prepared[p][i]] = p /\ <<p, prepared[p][i]>> \in mnt
                              /\ size[prepared[p][i]] = SizeMb[p][i]
                              /\ image[prepared[p][i]] = "ext4"
         /\ size[Dir(p)] = SizeMb[p][n + 1]
    <3>1. Locks(p) /\ Mounts(p) /\ Sizes(p)
      BY Zenon DEF Inv, Own
    <3>2. \A i \in 1 .. n : lock[prepared[p][i]] = p /\ <<p, prepared[p][i]>> \in mnt
      BY <2>12, <2>13, <3>1, Zenon DEF Locks, Mounts
    <3>3. \A i \in 1 .. n : size[prepared[p][i]] = SizeMb[p][i] /\ image[prepared[p][i]] = "ext4"
      BY <2>12, <3>1, Zenon DEF Sizes
    <3>4. size[Dir(p)] = SizeMb[p][k[p]]
      BY <1>1, <3>1, Zenon DEF Sizes
    <3>. QED
      BY <2>2, <3>2, <3>3, <3>4, Zenon
  <2>15. \A d \in Dirs : lock[d] = p \/ <<p, d>> \in mnt' =>
           d = Dir(p) \/ \E i \in 1 .. n : prepared[p][i] = d
    <3>1. Locks(p) /\ Mounts(p)
      BY Zenon DEF Inv, Own
    <3>2. \A d \in Dirs : lock[d] = p => d = Dir(p) \/ \E i \in 1 .. n : prepared[p][i] = d
      BY <2>12, <3>1, Zenon DEF Locks
    <3>3. \A d \in Dirs : <<p, d>> \in mnt => \E i \in 1 .. n : prepared[p][i] = d
      BY <2>12, <2>13, <3>1, Zenon DEF Mounts
    <3>4. \A d \in Dirs : <<p, d>> \in mnt' => <<p, d>> \in mnt \/ d = Dir(p)
      BY <2>10, Zenon
    <3>. QED
      BY <3>2, <3>3, <3>4, Zenon
  <2>16. Control(p)'
    <3>1. k'[p] # 0
      BY <2>1, <2>3
    <3>. QED
      BY <2>2, <2>7, <2>13, <3>1, Zenon DEF Control, Distinct
  <2>17. \A d \in Dirs : lock[d] = p \/ <<p, d>> \in mnt' => \E i \in 1 .. n + 1 : prepared'[p][i] = d
    BY <2>5, <2>7, <2>15, Zenon
  <2>18. \A i \in 1 .. n + 1 : /\ lock[prepared'[p][i]] = p /\ <<p, prepared'[p][i]>> \in mnt'
                               /\ size[prepared'[p][i]] = SizeMb[p][i]
                               /\ image[prepared'[p][i]] = "ext4"
    <3>1. SUFFICES ASSUME NEW i \in 1 .. n + 1
                   PROVE  /\ lock[prepared'[p][i]] = p /\ <<p, prepared'[p][i]>> \in mnt'
                          /\ size[prepared'[p][i]] = SizeMb[p][i]
                          /\ image[prepared'[p][i]] = "ext4"
      OBVIOUS
    <3>2. CASE i \in 1 .. n
      BY <2>5, <2>10, <2>14, <3>2, Zenon
    <3>3. CASE i = n + 1
      BY <1>2, <1>4, <2>5, <2>10, <2>14, <3>3, Zenon
    <3>. QED
      BY <2>6, <3>2, <3>3
  <2>19. Locks(p)'
    BY <1>4, <2>12, <2>13, <2>17, <2>18, Zenon DEF Locks
  <2>20. Mounts(p)'
    <3>1. pc'[p] # "drop" /\ pc'[p] # "done"
      BY <2>8, Zenon
    <3>. QED
      BY <2>5, <2>17, <2>18, <3>1, Zenon DEF Mounts
  <2>21. Sizes(p)'
    BY <1>1, <2>8, <2>12, <2>18, Zenon DEF Sizes, disk
  <2>22. Docker(p)'
    <3>1. container'[p] = "none"
      BY <1>1, <1>2, Zenon DEF Inv, Own, Docker, dockerVars
    <3>. QED
      BY <2>8, <3>1, Zenon DEF Docker
  <2>23. Prefix(p)'
    <3>1. Len(prepared'[p]) <= Len(Requests[p])
      BY <1>2, <2>1, <2>2, <2>5
    <3>2. \A i \in 1 .. n + 1 : prepared'[p][i] = Requests[p][i]
      BY <2>1, <2>2, <2>5, <2>6, Zenon DEF Prefix, Dir
    <3>. QED
      BY <2>5, <3>1, <3>2, Zenon DEF Prefix
  <2>. QED
    BY <2>8, <2>9, <2>11, <2>16, <2>19, <2>20, <2>21, <2>22, <2>23, Assemble, Zenon DEF Own
<1>. QED
  BY <1>3, <1>4, Zenon DEF MountImage

-----------------------------------------------------------------------------
(* run_capsule_image *)

\* Steps that only concern the container and the label
LEMMA SettledInv ==
  ASSUME Inv, NEW p \in Procs, Mine(p), UNCHANGED <<prepared, lock, disk, mnt>>,
         \/ pc[p] \in Settled /\ pc'[p] \in Settled
         \/ pc[p] \in Settled \cup Undoing /\ pc[p] # "drop" /\ pc'[p] \in Undoing /\ k'[p] = 1,
         k'[p] # 0, pc'[p] \notin Preparing \cup Finished \cup {"check"},
         pc'[p] \in Waiting => Len(prepared[p]) = Len(Requests[p]),
         Docker(p)'
  PROVE  Inv'
<1>1. TypeOK /\ Disk /\ Control(p) /\ Prefix(p)
  BY Typed, Zenon DEF Inv, Own
<1>2. Shared(p) /\ Disk' /\ Prefix(p)'
  BY <1>1, Undisturbed, DiskUndisturbed, Zenon DEF Prefix
<1>3. Locks(p)' /\ Mounts(p)' /\ Sizes(p)'
  BY Moved, Zenon
<1>4. Control(p)'
  BY <1>1, Zenon DEF Control, Distinct, Working, Preparing
<1>. QED
  BY <1>2, <1>3, <1>4, Assemble, Zenon DEF Own

\* Leaving the loop over the requests keeps the invariant.
LEMMA PreparedInv ==
  ASSUME Inv, NEW p \in Procs, Prepared(p)
  PROVE  Inv'
<1>. DEFINE label == IF cancelled[p] THEN "drop" ELSE "create"
<1>1. /\ TypeOK /\ Own(p) /\ pc[p] = "lock" /\ k[p] > Len(Requests[p]) /\ Restart(p, label)
      /\ UNCHANGED <<prepared, cancelled, failed, dockerVars, lock, disk, mnt>>
  BY Zenon DEF Prepared, Inv
<1>2. label \in PCs
  BY Labels, Zenon
<1>3. Mine(p) /\ pc'[p] = label /\ k'[p] = 1 /\ k'[p] # 0
  BY <1>1, <1>2, Restarting, ZenonT(30) DEF TypeOK, Mine, dockerVars
<1>4. Len(prepared[p]) = Len(Requests[p])
  <2>1. k[p] = Len(prepared[p]) + 1
    BY <1>1, Zenon DEF Own, Control, Preparing
  <2>2. /\ Len(prepared[p]) \in Nat /\ Len(Requests[p]) \in Nat
        /\ Len(prepared[p]) <= Len(Requests[p])
    BY <1>1, Typed, Zenon DEF Prefix
  <2>. QED
    BY <1>1, <2>1, <2>2
<1>5. Docker(p)'
  <2>1. container[p] = "none"
    BY <1>1, Zenon DEF Own, Docker, Preparing
  <2>. QED
    BY <1>1, <1>3, <2>1, Zenon DEF Docker, dockerVars
<1>6. /\ pc[p] \in Settled /\ (pc'[p] \in Settled \/ pc'[p] \in Undoing) /\ pc[p] # "drop"
      /\ pc'[p] \notin Preparing \cup Finished \cup {"check"}
  BY <1>1, <1>3, Zenon DEF Settled, Undoing, Preparing, Finished
<1>. QED
  BY <1>1, <1>3, <1>4, <1>5, <1>6, SettledInv, Zenon

\* Creating the container keeps the invariant.
LEMMA CreateContainerInv ==
  ASSUME Inv, NEW p \in Procs, CreateContainer(p)
  PROVE  Inv'
<1>1. /\ TypeOK /\ Own(p) /\ pc[p] = "create"
      /\ UNCHANGED <<k, prepared, cancelled, failed, stream, lock, disk, mnt>>
  BY Zenon DEF CreateContainer, Inv
<1>2. k'[p] # 0 /\ Len(prepared[p]) = Len(Requests[p]) /\ container[p] = "none"
  BY <1>1, Zenon DEF Own, Control, Docker, Waiting
<1>3. "start" \in PCs /\ "stop" \in PCs
  BY Labels, Zenon
<1>4. CASE /\ container' = [container EXCEPT ![p] = "created"]
           /\ known' = [known EXCEPT ![p] = TRUE]
           /\ Goto(p, "start")
  <2>1. /\ container' \in [Procs -> {"none", "created", "running", "stopped"}]
        /\ container'[p] = "created" /\ \A q \in Procs : q # p => container'[q] = container[q]
    BY <1>1, <1>4, Updated, Zenon DEF TypeOK
  <2>2. /\ known' \in [Procs -> BOOLEAN] /\ known'[p] /\ \A q \in Procs : q # p => known'[q] = known[q]
    BY <1>1, <1>4, Updated, ZenonT(30) DEF TypeOK
  <2>3. Mine(p) /\ pc'[p] = "start"
    <3>1. /\ pc' \in [Procs -> PCs] /\ pc'[p] = "start"
          /\ \A q \in Procs : q # p => pc'[q] = pc[q]
      BY <1>1, <1>3, <1>4, Going, Zenon
    <3>. QED
      BY <1>1, <2>1, <2>2, <3>1, Zenon DEF TypeOK, Mine
  <2>4. Docker(p)'
    BY <2>1, <2>2, <2>3, Zenon DEF Docker, Preparing
  <2>5. /\ pc[p] \in Settled /\ pc'[p] \in Settled
        /\ pc'[p] \notin Preparing \cup Finished \cup {"check"}
    BY <1>1, <2>3, Zenon DEF Settled, Preparing, Finished
  <2>. QED
    BY <1>1, <1>2, <2>3, <2>4, <2>5, SettledInv, Zenon
<1>5. CASE Goto(p, "stop") /\ UNCHANGED <<container, known>>
  <2>3. Mine(p) /\ pc'[p] = "stop"
    BY <1>1, <1>3, <1>5, Going, Zenon DEF TypeOK, Mine
  <2>4. Docker(p)'
    BY <1>2, <1>5, <2>3, Zenon DEF Docker, Preparing
  <2>5. /\ pc[p] \in Settled /\ pc'[p] \in Settled
        /\ pc'[p] \notin Preparing \cup Finished \cup Waiting \cup {"check"}
    BY <1>1, <2>3, Zenon DEF Settled, Preparing, Finished, Waiting
  <2>. QED
    BY <1>1, <1>2, <2>3, <2>4, <2>5, SettledInv, Zenon
<1>. QED
  BY <1>4, <1>5, Zenon DEF CreateContainer

\* Starting the container keeps the invariant.
LEMMA StartContainerInv ==
  ASSUME Inv, NEW p \in Procs, StartContainer(p)
  PROVE  Inv'
<1>1. /\ TypeOK /\ Own(p) /\ pc[p] = "start"
      /\ UNCHANGED <<k, prepared, cancelled, failed, known, lock, disk, mnt>>
  BY Zenon DEF StartContainer, Inv
<1>2. k'[p] # 0 /\ Len(prepared[p]) = Len(Requests[p]) /\ known[p] /\ Docker(p)
  BY <1>1, Zenon DEF Own, Control, Docker, Waiting
<1>3. "wait" \in PCs /\ "stop" \in PCs
  BY Labels, Zenon
<1>4. CASE /\ container' = [container EXCEPT ![p] = "running"]
           /\ stream' = [stream EXCEPT ![p] = TRUE]
           /\ Goto(p, "wait")
  <2>1. /\ container' \in [Procs -> {"none", "created", "running", "stopped"}]
        /\ container'[p] = "running" /\ \A q \in Procs : q # p => container'[q] = container[q]
    BY <1>1, <1>4, Updated, ZenonT(30) DEF TypeOK
  <2>2. stream' \in [Procs -> BOOLEAN]
    BY <1>1, <1>4, Updated, Zenon DEF TypeOK
  <2>3. Mine(p) /\ pc'[p] = "wait"
    <3>1. /\ pc' \in [Procs -> PCs] /\ pc'[p] = "wait"
          /\ \A q \in Procs : q # p => pc'[q] = pc[q]
      BY <1>1, <1>3, <1>4, Going, Zenon
    <3>. QED
      BY <1>1, <2>1, <2>2, <3>1, Zenon DEF TypeOK, Mine
  <2>4. Docker(p)'
    BY <1>1, <1>2, <2>1, <2>3, Zenon DEF Docker, Preparing
  <2>5. /\ pc[p] \in Settled /\ pc'[p] \in Settled
        /\ pc'[p] \notin Preparing \cup Finished \cup {"check"}
    BY <1>1, <2>3, Zenon DEF Settled, Preparing, Finished
  <2>. QED
    BY <1>1, <1>2, <2>3, <2>4, <2>5, SettledInv, Zenon
<1>5. CASE Goto(p, "stop") /\ UNCHANGED <<container, stream>>
  <2>3. Mine(p) /\ pc'[p] = "stop"
    BY <1>1, <1>3, <1>5, Going, Zenon DEF TypeOK, Mine
  <2>4. Docker(p)'
    BY <1>1, <1>2, <1>5, <2>3, Zenon DEF Docker, Preparing
  <2>5. /\ pc[p] \in Settled /\ pc'[p] \in Settled
        /\ pc'[p] \notin Preparing \cup Finished \cup Waiting \cup {"check"}
    BY <1>1, <2>3, Zenon DEF Settled, Preparing, Finished, Waiting
  <2>. QED
    BY <1>1, <1>2, <2>3, <2>4, <2>5, SettledInv, Zenon
<1>. QED
  BY <1>4, <1>5, Zenon DEF StartContainer
\* What Docker has after a step of the process
LEMMA ContainerSet ==
  ASSUME TypeOK, NEW p \in Procs, NEW c \in {"none", "created", "running", "stopped"},
         container' = [container EXCEPT ![p] = c]
  PROVE  /\ container' \in [Procs -> {"none", "created", "running", "stopped"}]
         /\ container'[p] = c /\ \A q \in Procs : q # p => container'[q] = container[q]
BY Updated, ZenonT(30) DEF TypeOK

\* Seeing the end of the container keeps the invariant.
LEMMA AwaitContainerInv ==
  ASSUME Inv, NEW p \in Procs, AwaitContainer(p)
  PROVE  Inv'
<1>1. /\ TypeOK /\ Own(p) /\ pc[p] = "wait" /\ Restart(p, "stop")
      /\ UNCHANGED <<prepared, cancelled, failed, stream, lock, disk, mnt>>
  BY Zenon DEF AwaitContainer, Inv
<1>2. Docker(p) /\ known[p] /\ Len(prepared[p]) = Len(Requests[p])
  BY <1>1, Zenon DEF Own, Docker, Control, Waiting
<1>3. "stop" \in PCs
  BY Labels, Zenon
<1>4. /\ pc' \in [Procs -> PCs] /\ pc'[p] = "stop" /\ k' \in [Procs -> Nat] /\ k'[p] # 0
      /\ \A q \in Procs : q # p => pc'[q] = pc[q] /\ k'[q] = k[q]
  BY <1>1, <1>3, Restarting, Zenon
<1>5. /\ container' \in [Procs -> {"none", "created", "running", "stopped"}]
      /\ known' \in [Procs -> BOOLEAN]
      /\ \A q \in Procs : q # p => container'[q] = container[q] /\ known'[q] = known[q]
      /\ container'[p] = "running" => known'[p]
  <2>1. CASE /\ container' = [container EXCEPT ![p] = "none"]
             /\ known' = [known EXCEPT ![p] = FALSE]
    <3>1. /\ container' \in [Procs -> {"none", "created", "running", "stopped"}]
          /\ container'[p] = "none" /\ \A q \in Procs : q # p => container'[q] = container[q]
      BY <1>1, <2>1, ContainerSet, Zenon
    <3>2. /\ known' \in [Procs -> BOOLEAN] /\ \A q \in Procs : q # p => known'[q] = known[q]
      BY <1>1, <2>1, Updated, Zenon DEF TypeOK
    <3>. QED
      BY <3>1, <3>2, Zenon
  <2>2. CASE UNCHANGED <<container, known>>
    BY <1>1, <1>2, <2>2, Zenon DEF TypeOK
  <2>. QED
    BY <2>1, <2>2, Zenon DEF AwaitContainer
<1>6. Mine(p)
  BY <1>1, <1>4, <1>5, Zenon DEF TypeOK, Mine
<1>7. Docker(p)'
  BY <1>1, <1>2, <1>4, <1>5, Zenon DEF Docker, Preparing
<1>8. /\ pc[p] \in Settled /\ pc'[p] \in Settled
      /\ pc'[p] \notin Preparing \cup Finished \cup Waiting \cup {"check"}
  BY <1>1, <1>4, Zenon DEF Settled, Preparing, Finished, Waiting
<1>. QED
  BY <1>1, <1>4, <1>6, <1>7, <1>8, SettledInv, Zenon

\* Seeing a signal keeps the invariant.
LEMMA ObserveSignalInv ==
  ASSUME Inv, NEW p \in Procs, ObserveSignal(p)
  PROVE  Inv'
<1>1. /\ TypeOK /\ Own(p) /\ pc[p] \in Waiting /\ Restart(p, "stop")
      /\ UNCHANGED <<prepared, cancelled, failed, known, stream, lock, disk, mnt>>
  BY Zenon DEF ObserveSignal, Inv
<1>2. Docker(p) /\ Len(prepared[p]) = Len(Requests[p])
  BY <1>1, Zenon DEF Own, Control
<1>3. "stop" \in PCs
  BY Labels, Zenon
<1>4. /\ pc' \in [Procs -> PCs] /\ pc'[p] = "stop" /\ k' \in [Procs -> Nat] /\ k'[p] # 0
      /\ \A q \in Procs : q # p => pc'[q] = pc[q] /\ k'[q] = k[q]
  BY <1>1, <1>3, Restarting, Zenon
<1>5. /\ container' \in [Procs -> {"none", "created", "running", "stopped"}]
      /\ \A q \in Procs : q # p => container'[q] = container[q]
      /\ container'[p] = "running" => known[p] \/ failed[p] = "returned"
  <2>1. CASE pc[p] = "create" /\ container' = [container EXCEPT ![p] = "created"]
    BY <1>1, <2>1, ContainerSet, Zenon
  <2>2. CASE pc[p] = "start" /\ container' = [container EXCEPT ![p] = "running"]
    <3>1. known[p]
      BY <1>2, <2>2, Zenon DEF Docker
    <3>. QED
      BY <1>1, <2>2, <3>1, ContainerSet, Zenon
  <2>3. CASE UNCHANGED container
    <3>1. pc[p] # "crashed"
      BY <1>1, Zenon DEF Waiting
    <3>. QED
      BY <1>1, <1>2, <2>3, <3>1, Zenon DEF TypeOK, Docker
  <2>. QED
    BY <2>1, <2>2, <2>3, Zenon DEF ObserveSignal
<1>6. Mine(p)
  BY <1>1, <1>4, <1>5, Zenon DEF TypeOK, Mine
<1>7. Docker(p)'
  BY <1>1, <1>2, <1>4, <1>5, Zenon DEF Docker, Preparing
<1>8. /\ pc[p] \in Settled /\ pc'[p] \in Settled
      /\ pc'[p] \notin Preparing \cup Finished \cup Waiting \cup {"check"}
  BY <1>1, <1>4, Zenon DEF Settled, Preparing, Finished, Waiting
<1>. QED
  BY <1>1, <1>4, <1>6, <1>7, <1>8, SettledInv, Zenon

-----------------------------------------------------------------------------
(* CapsuleShell::cleanup and PreparedLoopbackMount::cleanup *)

\* Stopping the container, or failing to, keeps the invariant.
LEMMA StopContainerInv ==
  ASSUME Inv, NEW p \in Procs, StopContainer(p)
  PROVE  Inv'
<1>1. /\ TypeOK /\ Own(p) /\ pc[p] = "stop" /\ Goto(p, "remove")
      /\ UNCHANGED <<k, prepared, cancelled, known, stream, lock, disk, mnt>>
  BY Zenon DEF StopContainer, Inv
<1>2. Docker(p) /\ k'[p] # 0
  BY <1>1, Zenon DEF Own, Control
<1>3. /\ pc' \in [Procs -> PCs] /\ pc'[p] = "remove"
      /\ \A q \in Procs : q # p => pc'[q] = pc[q]
  BY <1>1, Labels, Going, Zenon
<1>4. /\ container' \in [Procs -> {"none", "created", "running", "stopped"}]
      /\ failed' \in [Procs -> {"no", "logged", "returned"}]
      /\ \A q \in Procs : q # p => container'[q] = container[q] /\ failed'[q] = failed[q]
      /\ container'[p] = "running" => failed'[p] = "returned"
  <2>1. CASE ~known[p] /\ UNCHANGED <<container, failed>>
    BY <1>1, <1>2, <2>1, Zenon DEF TypeOK, Docker
  <2>2. CASE container' = [container EXCEPT ![p] = "stopped"] /\ UNCHANGED failed
    <3>1. /\ container' \in [Procs -> {"none", "created", "running", "stopped"}]
          /\ container'[p] = "stopped" /\ \A q \in Procs : q # p => container'[q] = container[q]
      BY <1>1, <2>2, ContainerSet, Zenon
    <3>. QED
      BY <1>1, <2>2, <3>1, Zenon DEF TypeOK
  <2>3. CASE failed' = [failed EXCEPT ![p] = "returned"] /\ UNCHANGED container
    <3>1. /\ failed' \in [Procs -> {"no", "logged", "returned"}]
          /\ failed'[p] = "returned" /\ \A q \in Procs : q # p => failed'[q] = failed[q]
      BY <1>1, <2>3, Updated, ZenonT(30) DEF TypeOK
    <3>. QED
      BY <1>1, <2>3, <3>1, Zenon DEF TypeOK
  <2>. QED
    BY <2>1, <2>2, <2>3, Zenon DEF StopContainer
<1>5. Mine(p)
  BY <1>1, <1>3, <1>4, Zenon DEF TypeOK, Mine
<1>6. Docker(p)'
  BY <1>3, <1>4, Zenon DEF Docker, Preparing
<1>7. /\ pc[p] \in Settled /\ pc'[p] \in Settled
      /\ pc'[p] \notin Preparing \cup Finished \cup Waiting \cup {"check"}
  BY <1>1, <1>3, Zenon DEF Settled, Preparing, Finished, Waiting
<1>. QED
  BY <1>1, <1>2, <1>5, <1>6, <1>7, SettledInv, Zenon

\* Removing the container, or failing to, keeps the invariant.
LEMMA RemoveContainerInv ==
  ASSUME Inv, NEW p \in Procs, RemoveContainer(p)
  PROVE  Inv'
<1>1. /\ TypeOK /\ Own(p) /\ pc[p] = "remove" /\ Goto(p, "stream")
      /\ known' = [known EXCEPT ![p] = FALSE]
      /\ UNCHANGED <<k, prepared, cancelled, stream, lock, disk, mnt>>
  BY Zenon DEF RemoveContainer, Inv
<1>2. k'[p] # 0 /\ (container[p] = "running" => failed[p] = "returned")
  BY <1>1, Zenon DEF Own, Control, Docker
<1>3. /\ pc' \in [Procs -> PCs] /\ pc'[p] = "stream"
      /\ \A q \in Procs : q # p => pc'[q] = pc[q]
  BY <1>1, Labels, Going, Zenon
<1>4. known' \in [Procs -> BOOLEAN] /\ \A q \in Procs : q # p => known'[q] = known[q]
  BY <1>1, Updated, ZenonT(30) DEF TypeOK
<1>5. /\ container' \in [Procs -> {"none", "created", "running", "stopped"}]
      /\ failed' \in [Procs -> {"no", "logged", "returned"}]
      /\ \A q \in Procs : q # p => container'[q] = container[q] /\ failed'[q] = failed[q]
      /\ container'[p] = "running" => failed'[p] = "returned"
  <2>1. CASE UNCHANGED <<container, failed>>
    BY <1>1, <1>2, <2>1, Zenon DEF TypeOK
  <2>2. CASE container' = [container EXCEPT ![p] = "none"] /\ UNCHANGED failed
    <3>1. /\ container' \in [Procs -> {"none", "created", "running", "stopped"}]
          /\ container'[p] = "none" /\ \A q \in Procs : q # p => container'[q] = container[q]
      BY <1>1, <2>2, ContainerSet, Zenon
    <3>. QED
      BY <1>1, <2>2, <3>1, Zenon DEF TypeOK
  <2>3. CASE failed' = [failed EXCEPT ![p] = "returned"] /\ UNCHANGED container
    <3>1. /\ failed' \in [Procs -> {"no", "logged", "returned"}]
          /\ failed'[p] = "returned" /\ \A q \in Procs : q # p => failed'[q] = failed[q]
      BY <1>1, <2>3, Updated, ZenonT(30) DEF TypeOK
    <3>. QED
      BY <1>1, <2>3, <3>1, Zenon DEF TypeOK
  <2>. QED
    BY <2>1, <2>2, <2>3, Zenon DEF RemoveContainer
<1>6. Mine(p)
  BY <1>1, <1>3, <1>4, <1>5, Zenon DEF TypeOK, Mine
<1>7. Docker(p)'
  BY <1>3, <1>5, Zenon DEF Docker, Preparing
<1>8. /\ pc[p] \in Settled /\ pc'[p] \in Settled
      /\ pc'[p] \notin Preparing \cup Finished \cup Waiting \cup {"check"}
  BY <1>1, <1>3, Zenon DEF Settled, Preparing, Finished, Waiting
<1>. QED
  BY <1>1, <1>2, <1>6, <1>7, <1>8, SettledInv, Zenon
\* Waiting for the log task keeps the invariant.
LEMMA AwaitStreamInv ==
  ASSUME Inv, NEW p \in Procs, AwaitStream(p)
  PROVE  Inv'
<1>1. /\ TypeOK /\ Own(p) /\ pc[p] = "stream" /\ Restart(p, "unmount")
      /\ UNCHANGED <<prepared, cancelled, failed, dockerVars, lock, disk, mnt>>
  BY Zenon DEF AwaitStream, Inv
<1>2. Mine(p) /\ pc'[p] = "unmount" /\ k'[p] = 1 /\ k'[p] # 0
  <2>1. "unmount" \in PCs
    BY Labels, Zenon
  <2>. QED
    BY <1>1, <2>1, Restarting, ZenonT(30) DEF TypeOK, Mine, dockerVars
<1>3. Docker(p)'
  BY <1>1, <1>2, Zenon DEF Own, Docker, dockerVars, Preparing
<1>4. /\ pc[p] \in Settled /\ pc[p] # "drop" /\ pc'[p] \in Undoing
      /\ pc'[p] \notin Preparing \cup Finished \cup Waiting \cup {"check"}
  BY <1>1, <1>2, Zenon DEF Settled, Undoing, Preparing, Finished, Waiting
<1>. QED
  BY <1>1, <1>2, <1>3, <1>4, SettledInv, Zenon

\* Finding no more mounts to undo keeps the invariant.
LEMMA MountsCleanedInv ==
  ASSUME Inv, NEW p \in Procs, MountsCleaned(p)
  PROVE  Inv'
<1>1. /\ TypeOK /\ Own(p) /\ pc[p] \in {"unmount", "undo"} /\ Restart(p, "drop")
      /\ UNCHANGED <<prepared, cancelled, failed, dockerVars, lock, disk, mnt>>
  BY Zenon DEF MountsCleaned, Inv
<1>2. Mine(p) /\ pc'[p] = "drop" /\ k'[p] = 1 /\ k'[p] # 0
  <2>1. "drop" \in PCs
    BY Labels, Zenon
  <2>. QED
    BY <1>1, <2>1, Restarting, ZenonT(30) DEF TypeOK, Mine, dockerVars
<1>3. Docker(p)'
  BY <1>1, <1>2, Zenon DEF Own, Docker, dockerVars, Preparing
<1>4. /\ pc[p] \in Undoing /\ pc[p] # "drop" /\ pc'[p] \in Undoing
      /\ pc'[p] \notin Preparing \cup Finished \cup Waiting \cup {"check"}
  BY <1>1, <1>2, Zenon DEF Undoing, Preparing, Finished, Waiting
<1>. QED
  BY <1>1, <1>2, <1>3, <1>4, SettledInv, Zenon

\* umount: the mount in hand is one of the prepared ones.  It is gone, or the
\* failure is on record.
LEMMA Unmounting ==
  ASSUME Inv, NEW p \in Procs, pc[p] \in Undoing, k[p] <= Len(prepared[p]), Unmount(p)
  PROVE  /\ \E j \in 1 .. Len(prepared[p]) : Turn(p) = prepared[p][j]
         /\ pc[p] # "unmount" => k[p] \in 1 .. Len(prepared[p]) /\ Turn(p) = prepared[p][k[p]]
         /\ Turn(p) \in Dirs
         /\ k' \in [Procs -> Nat] /\ k'[p] = k[p] + 1 /\ \A q \in Procs : q # p => k'[q] = k[q]
         /\ failed' \in [Procs -> {"no", "logged", "returned"}]
         /\ \A q \in Procs : q # p => failed'[q] = failed[q]
         /\ failed'[p] # "returned" => failed[p] # "returned"
         /\ failed'[p] = "no" => failed[p] = "no" /\ <<p, Turn(p)>> \notin mnt'
         /\ files' \in [Dirs -> 0 .. MaxWrites]
         /\ \A d \in Dirs : files'[d] = files[d] \/ (files'[d] = 0 /\ <<p, d>> \in mnt \cap mnt')
         /\ mnt' \subseteq mnt
         /\ \A q \in Procs, d \in Dirs : q # p => (<<q, d>> \in mnt' <=> <<q, d>> \in mnt)
<1>1. /\ TypeOK /\ k[p] \in Nat /\ k[p] # 0 /\ Len(prepared[p]) \in Nat
      /\ \A i \in 1 .. Len(prepared[p]) : prepared[p][i] \in Dirs
  BY Typed, Zenon DEF Inv, Own, Control
<1>2. /\ k[p] \in 1 .. Len(prepared[p])
      /\ Len(prepared[p]) - k[p] + 1 \in 1 .. Len(prepared[p])
  BY <1>1
<1>3. /\ \E j \in 1 .. Len(prepared[p]) : Turn(p) = prepared[p][j]
      /\ pc[p] # "unmount" => k[p] \in 1 .. Len(prepared[p]) /\ Turn(p) = prepared[p][k[p]]
  BY <1>2, Zenon DEF Turn
<1>4. Turn(p) \in Dirs
  BY <1>1, <1>3, Zenon
<1>5. k' \in [Procs -> Nat] /\ k'[p] = k[p] + 1 /\ \A q \in Procs : q # p => k'[q] = k[q]
  <2>1. k[p] + 1 \in Nat /\ k \in [Procs -> Nat]
    BY <1>1 DEF TypeOK
  <2>2. k' = [k EXCEPT ![p] = k[p] + 1]
    BY Zenon DEF Unmount
  <2>. QED
    BY <2>1, <2>2, Updated, Zenon
<1>6. CASE mnt' = mnt \ {<<p, Turn(p)>>} /\ UNCHANGED <<files, failed>>
  <2>1. /\ mnt' \subseteq mnt /\ <<p, Turn(p)>> \notin mnt'
        /\ \A q \in Procs, d \in Dirs : q # p => (<<q, d>> \in mnt' <=> <<q, d>> \in mnt)
    BY <1>6
  <2>2. /\ failed' \in [Procs -> {"no", "logged", "returned"}]
        /\ files' \in [Dirs -> 0 .. MaxWrites]
    BY <1>1, <1>6, Zenon DEF TypeOK
  <2>. QED
    BY <1>3, <1>4, <1>5, <1>6, <2>1, <2>2, Zenon
<1>7. CASE /\ <<p, Turn(p)>> \in mnt
           /\ files' = [files EXCEPT ![Turn(p)] = 0]
           /\ failed' = [failed EXCEPT ![p] = IF pc[p] = "unmount" THEN "returned"
                                              ELSE IF failed[p] = "no" THEN "logged" ELSE failed[p]]
           /\ UNCHANGED mnt
  <2>. DEFINE f == IF pc[p] = "unmount" THEN "returned"
                   ELSE IF failed[p] = "no" THEN "logged" ELSE failed[p]
  <2>1. f \in {"no", "logged", "returned"} /\ f # "no" /\ (f # "returned" => failed[p] # "returned")
    BY <1>1, Zenon DEF TypeOK
  <2>2. /\ failed' \in [Procs -> {"no", "logged", "returned"}] /\ failed'[p] = f
        /\ \A q \in Procs : q # p => failed'[q] = failed[q]
    <3>1. failed \in [Procs -> {"no", "logged", "returned"}] /\ failed' = [failed EXCEPT ![p] = f]
      BY <1>1, <1>7, Zenon DEF TypeOK
    <3>. HIDE DEF f
    <3>. QED
      BY <2>1, <3>1, Updated, Zenon
  <2>3. /\ files' \in [Dirs -> 0 .. MaxWrites] /\ files'[Turn(p)] = 0
        /\ \A d \in Dirs : d # Turn(p) => files'[d] = files[d]
    <3>1. 0 \in 0 .. MaxWrites
      BY LoopbackAssumption
    <3>. QED
      BY <1>1, <1>4, <1>7, <3>1, Updated, ZenonT(30) DEF TypeOK
  <2>4. /\ failed'[p] # "no" /\ (failed'[p] # "returned" => failed[p] # "returned")
    BY <2>1, <2>2, Zenon
  <2>5. \A d \in Dirs : files'[d] = files[d] \/ (files'[d] = 0 /\ <<p, d>> \in mnt \cap mnt')
    BY <1>7, <2>3, Zenon
  <2>. HIDE DEF f
  <2>. QED
    BY <1>3, <1>4, <1>5, <1>7, <2>2, <2>3, <2>4, <2>5, Zenon
<1>. QED
  BY <1>6, <1>7, Zenon DEF Unmount
\* What a step that unmounts does to everybody else and to the images
LEMMA UnmountingShared ==
  ASSUME Inv, NEW p \in Procs, pc[p] \in Undoing, k[p] <= Len(prepared[p]), Unmount(p),
         UNCHANGED <<pc, prepared, cancelled, dockerVars, image, size>>
  PROVE  /\ Mine(p) /\ Disk' /\ Prefix(p)' /\ Control(p)' /\ Docker(p)'
         /\ mnt' \subseteq Procs \X Dirs
<1>1. TypeOK /\ Disk /\ Control(p) /\ Docker(p) /\ Prefix(p) /\ k[p] \in Nat
  BY Typed, Zenon DEF Inv, Own
<1>2. /\ k' \in [Procs -> Nat] /\ k'[p] = k[p] + 1 /\ \A q \in Procs : q # p => k'[q] = k[q]
      /\ failed' \in [Procs -> {"no", "logged", "returned"}]
      /\ \A q \in Procs : q # p => failed'[q] = failed[q]
      /\ failed'[p] # "returned" => failed[p] # "returned"
  BY Unmounting, Zenon
<1>3. /\ mnt' \subseteq mnt
      /\ \A d \in Dirs : files'[d] = files[d] \/ files'[d] = 0
  BY Unmounting, Zenon
<1>4. Mine(p)
  BY <1>1, <1>2, Zenon DEF TypeOK, Mine, dockerVars
<1>5. Disk'
  BY <1>1, <1>3, Zenon DEF Disk
<1>6. Control(p)'
  <2>1. k'[p] # 0
    BY <1>1, <1>2
  <2>2. pc'[p] \notin Preparing \cup Working \cup Waiting \cup Finished \cup {"check"}
    BY Zenon DEF Undoing, Preparing, Working, Waiting, Finished
  <2>. QED
    BY <1>1, <2>1, <2>2, Zenon DEF Control, Distinct
<1>7. Docker(p)'
  BY <1>1, <1>2, Zenon DEF Docker, dockerVars, Undoing
<1>8. mnt' \subseteq Procs \X Dirs
  BY <1>1, <1>3, Zenon DEF TypeOK
<1>. QED
  BY <1>1, <1>4, <1>5, <1>6, <1>7, <1>8, Zenon DEF Prefix

\* Unmounting one directory, or failing to, keeps the invariant.
LEMMA CleanupMountInv ==
  ASSUME Inv, NEW p \in Procs, CleanupMount(p)
  PROVE  Inv'
<1>1. /\ TypeOK /\ Locks(p) /\ Mounts(p) /\ Sizes(p)
      /\ pc[p] \in Undoing /\ pc[p] # "drop" /\ pc[p] \notin Working \cup Finished
      /\ k[p] <= Len(prepared[p]) /\ Unmount(p)
      /\ UNCHANGED <<pc, prepared, cancelled, dockerVars, lock, image, size>>
  BY Zenon DEF CleanupMount, Inv, Own, Undoing, Working, Finished
<1>2. /\ Mine(p) /\ Disk' /\ Prefix(p)' /\ Control(p)' /\ Docker(p)'
      /\ mnt' \subseteq Procs \X Dirs
  BY <1>1, UnmountingShared, Zenon
<1>3. /\ mnt' \subseteq mnt /\ files' \in [Dirs -> 0 .. MaxWrites]
      /\ \A q \in Procs, d \in Dirs : q # p => (<<q, d>> \in mnt' <=> <<q, d>> \in mnt)
  BY <1>1, Unmounting, Zenon
<1>4. Shared(p)
  BY <1>1, <1>2, <1>3, Zenon DEF TypeOK, Shared
<1>5. Held(p) = 1 .. Len(prepared[p]) /\ Held(p)' = 1 .. Len(prepared[p])
  BY <1>1, Zenon DEF Held
<1>6. Locks(p)'
  BY <1>1, <1>5, Zenon DEF Locks
<1>7. Mounts(p)'
  <2>1. pc'[p] \in Undoing /\ pc'[p] # "drop" /\ pc'[p] # "done"
    BY <1>1, Zenon DEF Finished
  <2>2. \A d \in Dirs : <<p, d>> \in mnt' => \E i \in 1 .. Len(prepared[p]) : prepared[p][i] = d
    BY <1>1, <1>3, Zenon DEF Mounts
  <2>. QED
    BY <1>1, <2>1, <2>2, Zenon DEF Mounts
<1>8. Sizes(p)'
  <2>1. pc'[p] \notin {"format", "mount"}
    BY <1>1, Zenon DEF Working
  <2>. QED
    BY <1>1, <1>5, <2>1, Zenon DEF Sizes
<1>. QED
  BY <1>2, <1>4, <1>6, <1>7, <1>8, Assemble, Zenon DEF Own

\* Dropping one mount, which unmounts it and closes its lock file, keeps the
\* invariant.
LEMMA DropMountInv ==
  ASSUME Inv, NEW p \in Procs, DropMount(p)
  PROVE  Inv'
<1>1. /\ TypeOK /\ Locks(p) /\ Mounts(p) /\ Sizes(p) /\ Control(p)
      /\ pc[p] = "drop" /\ pc[p] \in Undoing /\ pc[p] \notin Working \cup Finished
      /\ k[p] <= Len(prepared[p]) /\ Unmount(p) /\ Release(p, Turn(p))
      /\ UNCHANGED <<pc, prepared, cancelled, dockerVars, image, size>>
  BY Zenon DEF DropMount, Inv, Own, Undoing, Working, Finished
<1>2. /\ Mine(p) /\ Disk' /\ Prefix(p)' /\ Control(p)' /\ Docker(p)'
      /\ mnt' \subseteq Procs \X Dirs
  BY <1>1, UnmountingShared, Zenon
<1>3. /\ mnt' \subseteq mnt /\ files' \in [Dirs -> 0 .. MaxWrites]
      /\ \A q \in Procs, d \in Dirs : q # p => (<<q, d>> \in mnt' <=> <<q, d>> \in mnt)
  BY <1>1, Unmounting, Zenon
<1>4. /\ k[p] \in 1 .. Len(prepared[p]) /\ Turn(p) = prepared[p][k[p]] /\ Turn(p) \in Dirs
      /\ k'[p] = k[p] + 1
      /\ failed'[p] = "no" => failed[p] = "no" /\ <<p, Turn(p)>> \notin mnt'
  <2>1. pc[p] # "unmount"
    BY <1>1, Zenon
  <2>. QED
    BY <1>1, <2>1, Unmounting, Zenon
<1>5. \A i \in 1 .. Len(prepared[p]) : /\ k'[p] <= i <=> (k[p] <= i /\ i # k[p])
                                       /\ i < k'[p] => i < k[p] \/ i = k[p]
  BY <1>4
<1>6. \A i \in 1 .. Len(prepared[p]) : prepared[p][i] \in Dirs /\ (i # k[p] => prepared[p][i] # Turn(p))
  <2>1. /\ Len(prepared[p]) \in Nat /\ Len(Requests[p]) \in Nat
        /\ Len(prepared[p]) <= Len(Requests[p])
        /\ \A i \in 1 .. Len(prepared[p]) : prepared[p][i] \in Dirs /\ prepared[p][i] = Requests[p][i]
    BY <1>1, Typed, Zenon DEF Prefix
  <2>2. Len(prepared[p]) > 0 /\ (1 .. Len(prepared[p])) \subseteq 1 .. Len(Requests[p])
    BY <1>4, <2>1
  <2>3. Distinct(p)
    BY <1>1, <2>2, Zenon DEF Control
  <2>. QED
    BY <1>4, <2>1, <2>2, <2>3, Zenon DEF Distinct
<1>7. /\ lock' \in [Dirs -> Procs \cup {NoProc}]
      /\ lock[Turn(p)] = p => lock'[Turn(p)] = NoProc
      /\ lock[Turn(p)] # p => lock'[Turn(p)] = lock[Turn(p)]
      /\ \A d \in Dirs : d # Turn(p) => lock'[d] = lock[d]
  <2>. DEFINE v == IF lock[Turn(p)] = p THEN NoProc ELSE lock[Turn(p)]
  <2>1. lock \in [Dirs -> Procs \cup {NoProc}] /\ lock' = [lock EXCEPT ![Turn(p)] = v]
    BY <1>1, Zenon DEF TypeOK, Release
  <2>2. v \in Procs \cup {NoProc}
    BY <1>4, <2>1, Zenon
  <2>3. lock' \in [Dirs -> Procs \cup {NoProc}] /\ lock'[Turn(p)] = v
        /\ \A d \in Dirs : d # Turn(p) => lock'[d] = lock[d]
    BY <1>4, <2>1, <2>2, Updated, Zenon
  <2>. QED
    BY <2>3, Zenon
<1>8. lock'[Turn(p)] # p
  BY <1>7, LoopbackAssumption, Zenon
<1>9. Shared(p)
  <2>1. \A q \in Procs, d \in Dirs : q # p => (lock'[d] = q <=> lock[d] = q)
    <3>1. SUFFICES ASSUME NEW q \in Procs, NEW d \in Dirs, q # p
                   PROVE  lock'[d] = q <=> lock[d] = q
      OBVIOUS
    <3>2. CASE d = Turn(p)
      BY <1>7, <3>1, <3>2, LoopbackAssumption, Zenon
    <3>3. CASE d # Turn(p)
      BY <1>7, <3>3, Zenon
    <3>. QED
      BY <3>2, <3>3, Zenon
  <2>. QED
    BY <1>1, <1>2, <1>3, <1>7, <2>1, Zenon DEF TypeOK, Shared
<1>10. \A i : /\ i \in Held(p)' <=> i \in Held(p) /\ i # k[p]
              /\ i \in Held(p) => i \in 1 .. Len(prepared[p])
  BY <1>1, <1>5, Zenon DEF Held
<1>11. Locks(p)'
  <2>1. \A i \in Held(p)' : lock'[prepared[p][i]] = p
    BY <1>1, <1>6, <1>7, <1>10, Zenon DEF Locks
  <2>2. \A d \in Dirs : lock'[d] = p => d # Turn(p) /\ lock[d] = p
    BY <1>7, <1>8, Zenon
  <2>3. \A d \in Dirs : lock'[d] = p => \E i \in Held(p) : prepared[p][i] = d /\ i # k[p]
    <3>1. \A d \in Dirs : lock[d] = p => \E i \in Held(p) : prepared[p][i] = d
      BY <1>1, Zenon DEF Locks
    <3>2. SUFFICES ASSUME NEW d \in Dirs, lock'[d] = p
                   PROVE  \E i \in Held(p) : prepared[p][i] = d /\ i # k[p]
      OBVIOUS
    <3>3. PICK i \in Held(p) : prepared[p][i] = d
      BY <2>2, <3>1, <3>2, Zenon
    <3>4. i # k[p]
      BY <1>4, <2>2, <3>2, <3>3, Zenon
    <3>. QED
      BY <3>3, <3>4, Zenon
  <2>4. \A d \in Dirs : lock'[d] = p => \E i \in Held(p)' : prepared[p][i] = d
    BY <1>10, <2>3, Zenon
  <2>. QED
    BY <1>1, <2>1, <2>4, Zenon DEF Locks
<1>12. Mounts(p)'
  <2>1. \A d \in Dirs : <<p, d>> \in mnt' => \E i \in 1 .. Len(prepared[p]) : prepared[p][i] = d
    BY <1>1, <1>3, Zenon DEF Mounts
  <2>2. failed'[p] = "no" =>
          \A i \in 1 .. Len(prepared[p]) : i < k'[p] => <<p, prepared[p][i]>> \notin mnt'
    BY <1>1, <1>3, <1>4, <1>5, Zenon DEF Mounts
  <2>3. pc'[p] \in Undoing /\ pc'[p] # "done"
    BY <1>1, Zenon
  <2>. QED
    BY <1>1, <2>1, <2>2, <2>3, Zenon DEF Mounts
<1>13. Sizes(p)'
  <2>1. \A i \in Held(p)' : size[prepared[p][i]] = SizeMb[p][i] /\ image[prepared[p][i]] = "ext4"
    BY <1>1, <1>10, Zenon DEF Sizes
  <2>2. pc'[p] \notin {"format", "mount"}
    BY <1>1, Zenon
  <2>. QED
    BY <1>1, <2>1, <2>2, Zenon DEF Sizes
<1>. QED
  BY <1>2, <1>9, <1>11, <1>12, <1>13, Assemble, Zenon DEF Own
\* A process that is over accounts for nothing but its mounts.
LEMMA Over ==
  ASSUME TypeOK, NEW p \in Procs, NEW label \in Finished, Restart(p, label),
         prepared' = [prepared EXCEPT ![p] = <<>>]
  PROVE  /\ pc' \in [Procs -> PCs] /\ pc'[p] = label
         /\ k' \in [Procs -> Nat] /\ prepared' \in [Procs -> Seq(Dirs)] /\ prepared'[p] = <<>>
         /\ \A q \in Procs : q # p => pc'[q] = pc[q] /\ k'[q] = k[q] /\ prepared'[q] = prepared[q]
         /\ Held(p)' = {} /\ Control(p)' /\ Prefix(p)' /\ Sizes(p)'
         /\ pc'[p] \notin Working
<1>1. label \in PCs
  BY Labels, Zenon DEF Finished
<1>2. /\ pc' \in [Procs -> PCs] /\ pc'[p] = label /\ k' \in [Procs -> Nat] /\ k'[p] # 0
      /\ \A q \in Procs : q # p => pc'[q] = pc[q] /\ k'[q] = k[q]
  BY <1>1, Restarting, Zenon
<1>3. /\ prepared' \in [Procs -> Seq(Dirs)] /\ prepared'[p] = <<>>
      /\ \A q \in Procs : q # p => prepared'[q] = prepared[q]
  <2>1. <<>> \in Seq(Dirs)
    OBVIOUS
  <2>. QED
    BY <2>1, Updated, Zenon DEF TypeOK
<1>4. Len(prepared'[p]) = 0 /\ 1 .. Len(prepared'[p]) = {} /\ ~(Len(prepared'[p]) > 0)
  BY <1>3
<1>5. Held(p)' = {}
  BY <1>4, Zenon DEF Held
<1>6. pc'[p] \notin Preparing \cup Working \cup Waiting \cup {"format", "mount"}
  BY <1>2, Zenon DEF Finished, Preparing, Working, Waiting
<1>7. Control(p)'
  BY <1>2, <1>4, <1>6, Zenon DEF Control
<1>8. Prefix(p)'
  <2>1. Len(prepared'[p]) <= Len(Requests[p])
    BY <1>4, Typed
  <2>. QED
    BY <1>4, <2>1, Zenon DEF Prefix
<1>9. Sizes(p)'
  BY <1>5, <1>6, Zenon DEF Sizes
<1>. QED
  BY <1>2, <1>3, <1>5, <1>6, <1>7, <1>8, <1>9, Zenon

\* The end of a process keeps the invariant.
LEMMA ExitInv ==
  ASSUME Inv, NEW p \in Procs, Exit(p)
  PROVE  Inv'
<1>1. /\ TypeOK /\ Disk /\ Own(p) /\ pc[p] = "drop" /\ k[p] > Len(prepared[p])
      /\ Restart(p, "done") /\ prepared' = [prepared EXCEPT ![p] = <<>>]
      /\ UNCHANGED <<cancelled, failed, dockerVars, lock, disk, mnt>>
  BY Zenon DEF Exit, Inv
<1>2. "done" \in Finished /\ "drop" \notin Working \cup Finished
  BY Zenon DEF Finished, Working
<1>3. /\ pc' \in [Procs -> PCs] /\ pc'[p] = "done"
      /\ k' \in [Procs -> Nat] /\ prepared' \in [Procs -> Seq(Dirs)]
      /\ \A q \in Procs : q # p => pc'[q] = pc[q] /\ k'[q] = k[q] /\ prepared'[q] = prepared[q]
  BY <1>1, <1>2, Over, Zenon
<1>4. Held(p)' = {} /\ Control(p)' /\ Prefix(p)' /\ Sizes(p)' /\ pc'[p] \notin Working
  BY <1>1, <1>2, Over, Zenon
<1>5. Mine(p)
  BY <1>1, <1>3, Zenon DEF TypeOK, Mine, dockerVars
<1>6. Shared(p) /\ Disk'
  BY <1>1, Undisturbed, DiskUndisturbed, Zenon
<1>7. \A i \in 1 .. Len(prepared[p]) : i < k[p] /\ ~(k[p] <= i)
  BY <1>1, Typed
<1>8. Locks(p)'
  <2>1. Held(p) = {}
    BY <1>1, <1>7, Zenon DEF Held
  <2>2. \A d \in Dirs : lock[d] # p
    BY <1>1, <1>2, <2>1, Zenon DEF Own, Locks
  <2>. QED
    BY <1>1, <1>4, <2>2, Zenon DEF Locks
<1>9. Mounts(p)'
  <2>1. failed[p] = "no" => \A d \in Dirs : <<p, d>> \notin mnt
    BY <1>1, <1>2, <1>7, Zenon DEF Own, Mounts
  <2>. QED
    BY <1>1, <1>2, <1>3, <2>1, Zenon DEF Mounts
<1>10. Docker(p)'
  BY <1>1, <1>3, Zenon DEF Own, Docker, dockerVars, Preparing
<1>. QED
  BY <1>4, <1>5, <1>6, <1>8, <1>9, <1>10, Assemble, Zenon DEF Own

-----------------------------------------------------------------------------
(* The environment *)

\* A process that is killed loses its locks and leaves its mounts behind, and
\* the invariant holds.
LEMMA CrashInv ==
  ASSUME Inv, NEW p \in Procs, Crash(p)
  PROVE  Inv'
<1>1. /\ TypeOK /\ Disk
      /\ Restart(p, "crashed") /\ prepared' = [prepared EXCEPT ![p] = <<>>]
      /\ known' = [known EXCEPT ![p] = FALSE] /\ stream' = [stream EXCEPT ![p] = FALSE]
      /\ lock' = [d \in Dirs |-> IF lock[d] = p THEN NoProc ELSE lock[d]]
      /\ UNCHANGED <<cancelled, failed, container, disk, mnt>>
  BY Zenon DEF Crash, Inv
<1>2. "crashed" \in Finished
  BY Zenon DEF Finished
<1>3. /\ pc' \in [Procs -> PCs] /\ pc'[p] = "crashed"
      /\ k' \in [Procs -> Nat] /\ prepared' \in [Procs -> Seq(Dirs)]
      /\ \A q \in Procs : q # p => pc'[q] = pc[q] /\ k'[q] = k[q] /\ prepared'[q] = prepared[q]
  BY <1>1, <1>2, Over, Zenon
<1>4. Held(p)' = {} /\ Control(p)' /\ Prefix(p)' /\ Sizes(p)' /\ pc'[p] \notin Working
  BY <1>1, <1>2, Over, Zenon
<1>5. Mine(p)
  <2>1. known' \in [Procs -> BOOLEAN] /\ \A q \in Procs : q # p => known'[q] = known[q]
    BY <1>1, Updated, Zenon DEF TypeOK
  <2>2. stream' \in [Procs -> BOOLEAN]
    BY <1>1, Updated, Zenon DEF TypeOK
  <2>. QED
    BY <1>1, <1>3, <2>1, <2>2, Zenon DEF TypeOK, Mine
<1>6. \A d \in Dirs : /\ lock[d] = p => lock'[d] = NoProc
                      /\ lock[d] # p => lock'[d] = lock[d]
  BY <1>1, Zenon
<1>7. Shared(p)
  <2>1. lock' \in [Dirs -> Procs \cup {NoProc}]
    BY <1>1, Zenon DEF TypeOK
  <2>2. \A q \in Procs, d \in Dirs : q # p => (lock'[d] = q <=> lock[d] = q)
    BY <1>6, LoopbackAssumption, Zenon
  <2>. QED
    BY <1>1, <2>1, <2>2, Zenon DEF TypeOK, Shared, disk
<1>8. Disk'
  BY <1>1, Zenon DEF Disk, disk
<1>9. Locks(p)'
  <2>1. \A d \in Dirs : lock'[d] # p
    BY <1>6, LoopbackAssumption, Zenon
  <2>. QED
    BY <1>4, <2>1, Zenon DEF Locks
<1>10. Mounts(p)'
  BY <1>2, <1>3, Zenon DEF Mounts
<1>11. Docker(p)'
  BY <1>3, Zenon DEF Docker, Preparing
<1>. QED
  BY <1>4, <1>5, <1>7, <1>8, <1>9, <1>10, <1>11, Assemble, Zenon DEF Own

\* A signal, or the end of the log stream, keeps the invariant.
LEMMA SignalInv ==
  ASSUME Inv, NEW p \in Procs, Signal(p) \/ LogEnds(p)
  PROVE  Inv'
<1>1. /\ TypeOK /\ Disk /\ Own(p)
      /\ UNCHANGED <<pc, k, prepared, failed, container, known, lock, disk, mnt>>
  BY Zenon DEF Signal, LogEnds, dockerVars, Inv
<1>2. cancelled' \in [Procs -> BOOLEAN] /\ stream' \in [Procs -> BOOLEAN]
  <2>1. CASE Signal(p)
    BY <1>1, <2>1, Updated, Zenon DEF TypeOK, Signal, dockerVars
  <2>2. CASE LogEnds(p)
    BY <1>1, <2>2, Updated, Zenon DEF TypeOK, LogEnds
  <2>. QED
    BY <2>1, <2>2, Zenon
<1>3. Mine(p)
  BY <1>1, <1>2, Zenon DEF TypeOK, Mine
<1>4. Shared(p) /\ Disk'
  BY <1>1, Undisturbed, DiskUndisturbed, Zenon
<1>5. Same(p)
  BY <1>1, Zenon DEF Same, disk
<1>. QED
  BY <1>1, <1>3, <1>4, <1>5, Kept, Assemble, Zenon

\* The end of a container keeps the invariant.
LEMMA ContainerEndsInv ==
  ASSUME Inv, NEW p \in Procs, ContainerEnds(p)
  PROVE  Inv'
<1>1. /\ TypeOK /\ Disk /\ Own(p) /\ container' = [container EXCEPT ![p] = "stopped"]
      /\ container[p] = "running"
      /\ UNCHANGED <<pc, k, prepared, cancelled, failed, known, stream, lock, disk, mnt>>
  BY Zenon DEF ContainerEnds, Inv
<1>2. /\ container' \in [Procs -> {"none", "created", "running", "stopped"}]
      /\ container'[p] = "stopped" /\ \A q \in Procs : q # p => container'[q] = container[q]
  BY <1>1, ContainerSet, Zenon
<1>3. Mine(p)
  BY <1>1, <1>2, Zenon DEF TypeOK, Mine
<1>4. Shared(p) /\ Disk'
  BY <1>1, Undisturbed, DiskUndisturbed, Zenon
<1>5. Control(p)' /\ Locks(p)' /\ Mounts(p)' /\ Sizes(p)'
  <2>1. /\ UNCHANGED <<pc, k, prepared, failed, lock, image, size, mnt>>
        /\ Control(p) /\ Locks(p) /\ Mounts(p) /\ Sizes(p)
    BY <1>1, Zenon DEF disk, Own
  <2>2. Held(p)' = Held(p) /\ Dir(p)' = Dir(p)
    BY <2>1, Zenon DEF Held, Dir
  <2>3. Control(p)'
    BY <2>1, Zenon DEF Control, Distinct
  <2>4. Locks(p)'
    BY <2>1, <2>2, Zenon DEF Locks
  <2>5. Mounts(p)'
    BY <2>1, Zenon DEF Mounts
  <2>6. Sizes(p)'
    BY <2>1, <2>2, Zenon DEF Sizes
  <2>. QED
    BY <2>3, <2>4, <2>5, <2>6, Zenon
<1>6. Docker(p)'
  BY <1>1, <1>2, Zenon DEF Own, Docker
<1>7. Prefix(p)'
  BY <1>1, Typed, Zenon DEF Prefix
<1>. QED
  BY <1>3, <1>4, <1>5, <1>6, <1>7, Assemble, Zenon DEF Own

\* The application writing a file keeps the invariant.
LEMMA AppWritesInv ==
  ASSUME Inv, NEW p \in Procs, NEW d \in Dirs, AppWrites(p, d)
  PROVE  Inv'
<1>1. /\ TypeOK /\ Disk /\ Own(p) /\ <<p, d>> \in mnt /\ files[d] < MaxWrites
      /\ files' = [files EXCEPT ![d] = files[d] + 1]
      /\ UNCHANGED <<pc, k, prepared, cancelled, failed, dockerVars, lock, image, size, mnt>>
  BY Zenon DEF AppWrites, Inv
<1>2. /\ files' \in [Dirs -> 0 .. MaxWrites]
      /\ \A e \in Dirs : e # d => files'[e] = files[e]
  <2>1. files \in [Dirs -> 0 .. MaxWrites] /\ files[d] \in 0 .. MaxWrites
    BY <1>1, Zenon DEF TypeOK
  <2>2. files[d] + 1 \in 0 .. MaxWrites
    BY <1>1, <2>1, LoopbackAssumption
  <2>. QED
    BY <1>1, <2>1, <2>2, Updated, Zenon
<1>3. Mine(p) /\ Shared(p)
  BY <1>1, <1>2, Zenon DEF TypeOK, Mine, Shared, dockerVars
<1>4. Disk'
  <2>1. image[d] # "none"
    BY <1>1, Zenon DEF Disk
  <2>. QED
    BY <1>1, <1>2, <2>1, Zenon DEF Disk
<1>5. Same(p)
  BY <1>1, Zenon DEF Same, dockerVars
<1>. QED
  BY <1>1, <1>3, <1>4, <1>5, Kept, Assemble, Zenon

-----------------------------------------------------------------------------
(* The invariant *)

\* The invariant holds before any process has done anything.
LEMMA InitInv ==
  ASSUME Init
  PROVE  Inv
<1>1. TypeOK
  <2>1. /\ pc \in [Procs -> PCs] /\ cancelled \in [Procs -> BOOLEAN]
        /\ failed \in [Procs -> {"no", "logged", "returned"}]
        /\ container \in [Procs -> {"none", "created", "running", "stopped"}]
        /\ known \in [Procs -> BOOLEAN] /\ stream \in [Procs -> BOOLEAN]
        /\ lock \in [Dirs -> Procs \cup {NoProc}]
    BY Labels, Zenon DEF Init
  <2>2. image \in [Dirs -> {"none", "raw", "ext4"}] /\ files \in [Dirs -> 0 .. MaxWrites]
    BY Zenon DEF Init
  <2>3. size \in [Dirs -> Nat]
    <3>1. EarlierMb \cup {0} \subseteq Nat
      BY LoopbackAssumption
    <3>. QED
      BY <3>1, Zenon DEF Init
  <2>4. k \in [Procs -> Nat] /\ prepared \in [Procs -> Seq(Dirs)]
    BY DEF Init
  <2>5. mnt \subseteq Procs \X Dirs
    BY Zenon DEF Init
  <2>6. \A p \in Procs : /\ Len(prepared[p]) <= Len(Requests[p])
                         /\ \A i \in 1 .. Len(prepared[p]) : prepared[p][i] = Requests[p][i]
    <3>1. SUFFICES ASSUME NEW p \in Procs
                   PROVE  /\ Len(prepared[p]) <= Len(Requests[p])
                          /\ \A i \in 1 .. Len(prepared[p]) : prepared[p][i] = Requests[p][i]
      OBVIOUS
    <3>2. prepared[p] = <<>>
      BY Zenon DEF Init
    <3>3. Requests[p] \in Seq(Dirs)
      BY LoopbackAssumption, Zenon
    <3>. QED
      BY <3>2, <3>3
  <2>. QED
    BY <2>1, <2>2, <2>3, <2>4, <2>5, <2>6, Zenon DEF TypeOK
<1>2. Disk
  BY Zenon DEF Init, Disk
<1>3. ASSUME NEW p \in Procs PROVE Own(p)
  <2>1. /\ pc[p] = "check" /\ k[p] = 1 /\ prepared[p] = <<>> /\ container[p] = "none"
        /\ failed[p] = "no" /\ mnt = {} /\ \A d \in Dirs : lock[d] = NoProc
    BY Zenon DEF Init
  <2>2. k[p] # 0 /\ Len(prepared[p]) = 0 /\ 1 .. Len(prepared[p]) = {} /\ ~(Len(prepared[p]) > 0)
    BY <2>1
  <2>3. Held(p) = {} /\ pc[p] \notin Preparing \cup Working \cup Waiting \cup {"format", "mount"}
    BY <2>1, <2>2, Zenon DEF Held, Preparing, Working, Waiting
  <2>4. Control(p)
    BY <2>2, <2>3, Zenon DEF Control
  <2>5. Locks(p)
    BY <2>1, <2>3, LoopbackAssumption, Zenon DEF Locks
  <2>6. Mounts(p)
    BY <2>1, <2>2, Zenon DEF Mounts
  <2>7. Sizes(p)
    BY <2>3, Zenon DEF Sizes
  <2>8. Docker(p)
    BY <2>1, Zenon DEF Docker
  <2>. QED
    BY <2>4, <2>5, <2>6, <2>7, <2>8, Zenon DEF Own
<1>. QED
  BY <1>1, <1>2, <1>3, Zenon DEF Inv

\* A step that changes nothing keeps the invariant.
LEMMA StutterInv ==
  ASSUME Inv, UNCHANGED vars
  PROVE  Inv'
<1>1. TypeOK /\ Disk /\ UNCHANGED <<lock, disk, mnt>>
  BY Zenon DEF Inv, vars, disk
<1>2. TypeOK'
  BY <1>1, Zenon DEF TypeOK, vars
<1>3. Disk'
  BY <1>1, DiskUndisturbed, Zenon
<1>4. ASSUME NEW q \in Procs PROVE Own(q)'
  <2>1. Same(q)
    BY Zenon DEF Same, vars
  <2>. QED
    BY <2>1, Kept, Zenon DEF Inv
<1>. QED
  BY <1>2, <1>3, <1>4, Zenon DEF Inv

\* Every step keeps the invariant.
LEMMA StepInv ==
  ASSUME Inv, [Next]_vars
  PROVE  Inv'
<1>1. CASE UNCHANGED vars
  BY <1>1, StutterInv, Zenon
<1>2. ASSUME NEW p \in Procs, Progress(p) PROVE Inv'
  BY <1>2, CheckRequestsInv, TakeLockInv, FindImageInv, SizeImageInv, FormatImageInv,
     MountImageInv, PreparedInv, CreateContainerInv, StartContainerInv, ObserveSignalInv,
     StopContainerInv, RemoveContainerInv, AwaitStreamInv, CleanupMountInv,
     MountsCleanedInv, DropMountInv, ExitInv, Zenon DEF Progress
<1>3. ASSUME NEW p \in Procs,
             \/ AwaitContainer(p) \/ Signal(p) \/ Crash(p) \/ ContainerEnds(p) \/ LogEnds(p)
             \/ \E d \in Dirs : AppWrites(p, d)
      PROVE  Inv'
  BY <1>3, AwaitContainerInv, SignalInv, CrashInv, ContainerEndsInv, AppWritesInv, Zenon
<1>. QED
  BY <1>1, <1>2, <1>3, Zenon DEF Next

\* In every behaviour, what each process has locked, mounted and prepared fits
\* the point it has reached (hostfs.rs, prepare_loopback_mounts and cleanup).
THEOREM Invariant == Spec => []Inv
<1>1. Init => Inv
  BY InitInv, Zenon
<1>2. Inv /\ [Next]_vars => Inv'
  BY StepInv, Zenon
<1>. QED
  BY <1>1, <1>2, PTL DEF Spec

-----------------------------------------------------------------------------
(* The properties *)

\* A process that is not dropping its mounts holds the lock of each image it
\* has mounted, so that no two of them work on one image.
THEOREM MountedUnderLockHolds == Spec => []MountedUnderLock
<1>1. Inv => MountedUnderLock
  <2>1. SUFFICES ASSUME Inv, NEW p \in Procs, pc[p] \notin Finished \cup {"drop"},
                        NEW d \in Dirs, <<p, d>> \in mnt
                 PROVE  lock[d] = p
    BY Zenon DEF MountedUnderLock
  <2>2. PICK i \in 1 .. Len(prepared[p]) : prepared[p][i] = d
    BY <2>1, Zenon DEF Inv, Own, Mounts
  <2>3. i \in Held(p)
    BY <2>1, <2>2, Zenon DEF Held
  <2>. QED
    BY <2>1, <2>2, <2>3, Zenon DEF Inv, Own, Locks
<1>. QED
  BY <1>1, Invariant, PTL

\* A directory that a process has mounted and holds is one it has prepared,
\* and it was prepared for one request only, the one whose size it has.
THEOREM QuotaHoldsAlways == Spec => []QuotaHolds
<1>1. Inv => QuotaHolds
  <2>1. SUFFICES ASSUME Inv, NEW p \in Procs, NEW j \in DOMAIN Requests[p],
                        <<p, Requests[p][j]>> \in mnt, lock[Requests[p][j]] = p
                 PROVE  size[Requests[p][j]] = SizeMb[p][j] /\ image[Requests[p][j]] = "ext4"
    BY Zenon DEF QuotaHolds
  <2>2. /\ Len(prepared[p]) \in Nat /\ Len(Requests[p]) \in Nat
        /\ Len(prepared[p]) <= Len(Requests[p]) /\ Requests[p] \in Seq(Dirs)
        /\ \A i \in 1 .. Len(prepared[p]) : prepared[p][i] = Requests[p][i]
        /\ \A i \in 1 .. Len(Requests[p]) : Requests[p][i] \in Dirs
    BY <2>1, Typed, Zenon DEF Inv, Prefix
  <2>3. j \in 1 .. Len(Requests[p]) /\ Requests[p][j] \in Dirs
    BY <2>1, <2>2
  <2>4. \E i \in Held(p) : prepared[p][i] = Requests[p][j]
    <3>1. CASE pc[p] \in Working
      <4>1. /\ pc[p] \in Preparing /\ k[p] <= Len(Requests[p]) /\ pc[p] \notin Finished
            /\ pc[p] # "drop"
        BY <2>1, <3>1, AtWork, Zenon DEF Working, Finished
      <4>2. PICK i \in 1 .. Len(prepared[p]) : prepared[p][i] = Requests[p][j]
        BY <2>1, <2>3, <4>1, Zenon DEF Inv, Own, Mounts
      <4>3. i \in Held(p)
        BY <4>1, Zenon DEF Held
      <4>. QED
        BY <4>2, <4>3, Zenon
    <3>2. CASE pc[p] \notin Working
      BY <2>1, <2>3, <3>2, Zenon DEF Inv, Own, Locks
    <3>. QED
      BY <3>1, <3>2, Zenon
  <2>5. PICK i \in Held(p) : prepared[p][i] = Requests[p][j]
    BY <2>4, Zenon
  <2>6. i \in 1 .. Len(prepared[p])
    BY Zenon DEF Held
  <2>7. Len(prepared[p]) > 0 /\ i \in 1 .. Len(Requests[p])
    BY <2>2, <2>6
  <2>8. Distinct(p)
    BY <2>1, <2>7, Zenon DEF Inv, Own, Control
  <2>9. i = j
    BY <2>2, <2>3, <2>5, <2>6, <2>7, <2>8, Zenon DEF Distinct
  <2>10. size[prepared[p][i]] = SizeMb[p][i] /\ image[prepared[p][i]] = "ext4"
    BY <2>1, Zenon DEF Inv, Own, Sizes
  <2>. QED
    BY <2>5, <2>9, <2>10, Zenon
<1>. QED
  BY <1>1, Invariant, PTL

\* A container that runs for its process has all its directories mounted, since
\* nothing is unmounted before the container is stopped.
THEOREM ContainerHasMountsAlways == Spec => []ContainerHasMounts
<1>1. Inv => ContainerHasMounts
  <2>1. SUFFICES ASSUME Inv, NEW p \in Procs, container[p] = "running", pc[p] # "crashed",
                        failed[p] # "returned", NEW j \in DOMAIN Requests[p]
                 PROVE  <<p, Requests[p][j]>> \in mnt
    BY Zenon DEF ContainerHasMounts
  <2>2. pc[p] \in {"wait", "stop"} /\ Len(prepared[p]) = Len(Requests[p])
    BY <2>1, Zenon DEF Inv, Own, Docker
  <2>3. pc[p] \notin Undoing \cup Finished
    BY <2>2, Zenon DEF Undoing, Finished
  <2>4. /\ Requests[p] \in Seq(Dirs)
        /\ \A i \in 1 .. Len(prepared[p]) : prepared[p][i] = Requests[p][i]
    BY <2>1, Typed, Zenon DEF Inv, Prefix
  <2>5. j \in 1 .. Len(prepared[p])
    BY <2>1, <2>2, <2>4
  <2>. QED
    BY <2>1, <2>3, <2>4, <2>5, Zenon DEF Inv, Own, Mounts
<1>. QED
  BY <1>1, Invariant, PTL

\* A process that is done has dropped every lock; when no umount has failed, it
\* has dropped every mount; and its container does not run unless stopping it
\* failed.
THEOREM ExitsCleanAlways == Spec => []ExitsClean
<1>1. Inv => ExitsClean
  <2>1. SUFFICES ASSUME Inv, NEW p \in Procs, pc[p] = "done", failed[p] # "returned"
                 PROVE  /\ \A d \in Dirs : lock[d] # p
                        /\ container[p] # "running"
                        /\ failed[p] = "no" => \A d \in Dirs : <<p, d>> \notin mnt
    BY Zenon DEF ExitsClean
  <2>2. Len(prepared[p]) = 0 /\ pc[p] \notin Working
    BY <2>1, Zenon DEF Inv, Own, Control, Finished, Working
  <2>3. 1 .. Len(prepared[p]) = {}
    BY <2>2
  <2>4. Held(p) = {}
    BY <2>3, Zenon DEF Held
  <2>5. \A d \in Dirs : lock[d] # p
    BY <2>1, <2>2, <2>4, Zenon DEF Inv, Own, Locks
  <2>6. container[p] # "running"
    BY <2>1, Zenon DEF Inv, Own, Docker
  <2>7. failed[p] = "no" => \A d \in Dirs : <<p, d>> \notin mnt
    BY <2>1, Zenon DEF Inv, Own, Mounts
  <2>. QED
    BY <2>5, <2>6, <2>7, Zenon
<1>. QED
  BY <1>1, Invariant, PTL

\* Files go only with an umount that failed
LEMMA StepKeepsFiles ==
  ASSUME Inv, Next, NEW d \in Dirs, files'[d] < files[d]
  PROVE  \E p \in Procs : <<p, d>> \in mnt \cap mnt' /\ pc[p] \in {"undo", "unmount", "drop"}
<1>1. files[d] \in Nat /\ files'[d] # files[d] /\ files[d] # 0
  <2>1. files[d] \in 0 .. MaxWrites
    BY Zenon DEF Inv, TypeOK
  <2>2. files[d] \in Nat
    BY <2>1, LoopbackAssumption
  <2>3. files'[d] \in Nat
    <3>1. TypeOK'
      BY StepInv, Zenon DEF Inv
    <3>2. files'[d] \in 0 .. MaxWrites
      BY <3>1, Zenon DEF TypeOK
    <3>. QED
      BY <3>2, LoopbackAssumption
  <2>. QED
    BY <2>2, <2>3
<1>2. files' # files
  BY <1>1, Zenon
<1>3. PICK p \in Procs :
        \/ Progress(p) \/ AwaitContainer(p)
        \/ Signal(p) \/ Crash(p) \/ ContainerEnds(p) \/ LogEnds(p)
        \/ \E e \in Dirs : AppWrites(p, e)
  BY Zenon DEF Next
<1>4. \/ FindImage(p) \/ CleanupMount(p) \/ DropMount(p)
      \/ \E e \in Dirs : AppWrites(p, e)
  <2>1. CASE Progress(p)
    BY <1>2, <2>1, Zenon DEF Progress, CheckRequests, TakeLock, SizeImage, FormatImage, MountImage,
       Prepared, CreateContainer, StartContainer, ObserveSignal, StopContainer, RemoveContainer,
       AwaitStream, MountsCleaned, Exit, disk
  <2>. QED
    BY <1>2, <1>3, <2>1, Zenon DEF AwaitContainer, Signal, Crash, ContainerEnds, LogEnds, disk
<1>5. CASE FindImage(p)
  <2>1. MustCreate(p) /\ files' = [files EXCEPT ![Dir(p)] = 0]
    BY <1>2, <1>5, Zenon DEF FindImage, disk
  <2>2. Dir(p) \in Dirs
    BY <1>5, AtWork, Zenon DEF FindImage, Working
  <2>3. d = Dir(p)
    BY <1>1, <2>1, <2>2, Elsewhere, Zenon DEF Inv, TypeOK
  <2>. QED
    BY <1>1, <2>1, <2>3, Zenon DEF Inv, Disk, MustCreate
<1>6. CASE CleanupMount(p) \/ DropMount(p)
  <2>1. /\ Unmount(p) /\ k[p] <= Len(prepared[p]) /\ pc[p] \in {"undo", "unmount", "drop"}
        /\ pc[p] \in Undoing
    BY <1>6, Zenon DEF CleanupMount, DropMount, Undoing
  <2>2. \A e \in Dirs : files'[e] = files[e] \/ (files'[e] = 0 /\ <<p, e>> \in mnt \cap mnt')
    BY <2>1, Unmounting, Zenon
  <2>. QED
    BY <1>1, <2>1, <2>2, Zenon
<1>7. ASSUME NEW e \in Dirs, AppWrites(p, e) PROVE FALSE
  <2>1. files' = [files EXCEPT ![e] = files[e] + 1]
    BY <1>7, Zenon DEF AppWrites
  <2>2. d = e /\ files'[d] = files[d] + 1
    BY <1>1, <2>1, Elsewhere, Zenon DEF Inv, TypeOK
  <2>. QED
    BY <1>1, <2>2
<1>. QED
  BY <1>4, <1>5, <1>6, <1>7, Zenon

\* docs/host_backed_mounts.md: "reusing the same host_state_dir preserves files
\* across runs".  Creating an image takes none, for there is none to take; only
\* remove_dir_all on an image that umount has left mounted does.
THEOREM FilesPreservedAlways == Spec => FilesPreserved
<1>1. Inv /\ [Next]_vars =>
        [\A d \in Dirs : files'[d] < files[d] =>
           \E p \in Procs : <<p, d>> \in mnt \cap mnt' /\ pc[p] \in {"undo", "unmount", "drop"}]_vars
  BY StepKeepsFiles, Zenon
<1>. QED
  BY <1>1, Invariant, PTL DEF Spec, FilesPreserved
=============================================================================
