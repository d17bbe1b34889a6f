---------------------------- MODULE HostFsProofs ----------------------------
(***************************************************************************)
(* What the application may rely on, for any number of files, names and    *)
(* worker threads.                                                         *)
(*                                                                         *)
(* Acknowledged content is on disk, unless the host refused to write it,   *)
(* because it is also what the page cache holds, and the inode of a        *)
(* request under way, or of a name, has been allocated, so that no new     *)
(* file takes its place (Kept).  It is what the request carried because    *)
(* from its change to its answer the file has that content, or another has *)
(* changed it (Stands).                                                    *)
(* A create is alone in changing names, because only the session thread    *)
(* does; its name stays free until it makes the file and then stands for   *)
(* that file (Creates).                                                    *)
(***************************************************************************)
EXTENDS HostFs, TLAPS

Kinds == {"metadata", "absent", "read_dir", "read", "write", "set_len", "fsync", "mkdir",
          "remove_file", "remove_dir", "rename"}
RequestSet == [kind : Kinds, name : Names, to : Names, content : {"empty"} \cup Blocks,
               create : BOOLEAN]
PCs == {"idle", "serve", "apply", "sync"}
Calls == [creating : BOOLEAN, todo : Seq(RequestSet), pc : PCs,
          ino : Inodes \cup {None}, made : Inodes \cup {None}]

Types ==
  /\ mounted \in {"no", "yes", "failed"}
  /\ dir \in [Names -> Inodes \cup {None}]
  /\ ddir \in [Names -> Inodes \cup {None}]
  /\ data \in [Inodes -> Contents]
  /\ ddata \in [Inodes -> Contents]
  /\ acked \in [Inodes -> Contents \cup {None}]
  /\ writer \in [Inodes -> Threads \cup {None}]
  /\ refused \subseteq Inodes
  /\ th \in [Threads -> Calls]
  /\ \A t \in Threads : th[t].pc = "idle" <=> th[t].todo = <<>>

Kept ==
  /\ \A n \in Names : dir[n] # None => data[dir[n]] # "free"
  /\ \A n \in Names : ddir[n] # None => ddata[ddir[n]] # "free"
  /\ \A i \in Inodes : ddata[i] # "free" => data[i] # "free"
  /\ \A t \in Threads : th[t].pc \in {"apply", "sync"} =>
       th[t].ino \in Inodes /\ data[th[t].ino] # "free"
  /\ \A i \in Inodes : acked[i] # None =>
       ddata[i] # "free" /\ (i \notin refused => acked[i] = data[i] /\ acked[i] = ddata[i])

\* What the answer to a call of t is going to acknowledge
Standing(call, t) ==
  /\ call.pc = "sync"
  /\ Head(call.todo).kind \in {"write", "set_len"} /\ ~Head(call.todo).create
  /\ call.ino \notin refused /\ writer[call.ino] = t
  => data[call.ino] = Head(call.todo).content

Stands == \A t \in Threads : Standing(th[t], t)

\* What is left of a create of a name
Made(n) == [Request("write", n) EXCEPT !.create = TRUE]
Suffixes(n) ==
  LET a == Request("absent", n)
      s == Request("set_len", n)
      m == Request("metadata", n)
  IN  {<<a, Made(n), s, m>>, <<a, Made(n), m>>, <<Made(n), s, m>>, <<Made(n), m>>, <<s, m>>, <<m>>}

\* Where a create is, and what its name stands for
CreateAt(call, n) ==
  /\ call.todo \in Suffixes(n)
  /\ Head(call.todo).kind \in {"absent", "metadata"} => call.pc = "serve"
  /\ Head(call.todo).kind = "write" /\ call.pc = "serve" => dir[n] = None
  /\ Head(call.todo).kind = "write" /\ call.pc \in {"apply", "sync"} =>
       call.made # None /\ dir[n] = call.made
  /\ Head(call.todo).kind = "set_len" =>
       /\ call.made # None /\ dir[n] = call.made
       /\ call.pc \in {"apply", "sync"} => call.ino = call.made

\* Worker threads only read, write to and synchronise files.
Creates ==
  /\ \A t \in Threads : t # Session /\ th[t].pc # "idle" =>
       /\ ~th[t].creating
       /\ Head(th[t].todo).kind \in {"read", "write", "fsync"}
       /\ ~Head(th[t].todo).create
       /\ Len(th[t].todo) = 1
  /\ th[Session].creating => \E n \in Names : CreateAt(th[Session], n)

Inv == Types /\ Kept /\ Stands /\ Creates

-----------------------------------------------------------------------------
(* Calls *)

\* Short sequences, written out
LEMMA Tuples ==
  ASSUME NEW S, NEW a \in S, NEW b \in S, NEW c \in S, NEW d \in S
  PROVE  /\ <<a>> \in Seq(S) /\ <<a>> # <<>> /\ Len(<<a>>) = 1 /\ Head(<<a>>) = a
         /\ <<a, b>> \in Seq(S) /\ <<a, b>> # <<>> /\ Len(<<a, b>>) = 2 /\ Head(<<a, b>>) = a
         /\ <<a, b, c>> \in Seq(S) /\ <<a, b, c>> # <<>> /\ Len(<<a, b, c>>) = 3
         /\ Head(<<a, b, c>>) = a
         /\ <<a, b, c, d>> \in Seq(S) /\ <<a, b, c, d>> # <<>> /\ Len(<<a, b, c, d>>) = 4
         /\ Head(<<a, b, c, d>>) = a
OBVIOUS

\* Nothing is left to ask for.
LEMMA NoneAsked == <<>> \in Seq(RequestSet)
OBVIOUS

\* A sequence with one element more
LEMMA Longer ==
  ASSUME NEW S, NEW q \in Seq(S), NEW x \in S, NEW r \in Seq(S),
         Len(r) = Len(q) + 1, \A i \in 1 .. Len(q) : r[i] = q[i], r[Len(r)] = x
  PROVE  q \o <<x>> = r
<1>1. <<x>> \in Seq(S) /\ Len(<<x>>) = 1 /\ <<x>>[1] = x
  OBVIOUS
<1>2. /\ q \o <<x>> \in Seq(S)
      /\ Len(q \o <<x>>) = Len(q) + 1
      /\ \A i \in 1 .. Len(q) + 1 : (q \o <<x>>)[i] = IF i <= Len(q) THEN q[i] ELSE <<x>>[i - Len(q)]
  BY <1>1
<1>3. Len(q) \in Nat
  OBVIOUS
<1>4. \A i \in 1 .. Len(q \o <<x>>) : (q \o <<x>>)[i] = r[i]
  BY <1>1, <1>2, <1>3
<1>. QED
  BY <1>2, <1>4

\* The concatenations in CreateProgram, written out
LEMMA Joined ==
  ASSUME NEW S, NEW a \in S, NEW b \in S, NEW c \in S, NEW d \in S
  PROVE  /\ <<a, b>> \o <<>> \o <<d>> = <<a, b, d>>
         /\ <<a, b>> \o <<c>> \o <<d>> = <<a, b, c, d>>
<1>1. <<a, b>> \o <<>> = <<a, b>>
  OBVIOUS
<1>2. <<a, b>> \o <<d>> = <<a, b, d>>
  <2>. DEFINE q == <<a, b>>
              r == <<a, b, d>>
  <2>1. /\ q \in Seq(S) /\ r \in Seq(S) /\ Len(r) = Len(q) + 1
        /\ \A i \in 1 .. Len(q) : r[i] = q[i]
        /\ r[Len(r)] = d
    OBVIOUS
  <2>. HIDE DEF q, r
  <2>2. q \o <<d>> = r
    BY <2>1, Longer, Zenon
  <2>. QED
    BY <2>2, Zenon DEF q, r
<1>3. <<a, b>> \o <<c>> = <<a, b, c>>
  <2>. DEFINE q == <<a, b>>
              r == <<a, b, c>>
  <2>1. /\ q \in Seq(S) /\ r \in Seq(S) /\ Len(r) = Len(q) + 1
        /\ \A i \in 1 .. Len(q) : r[i] = q[i]
        /\ r[Len(r)] = c
    OBVIOUS
  <2>. HIDE DEF q, r
  <2>2. q \o <<c>> = r
    BY <2>1, Longer, Zenon
  <2>. QED
    BY <2>2, Zenon DEF q, r
<1>4. <<a, b, c>> \o <<d>> = <<a, b, c, d>>
  <2>. DEFINE q == <<a, b, c>>
              r == <<a, b, c, d>>
  <2>1. /\ q \in Seq(S) /\ r \in Seq(S) /\ Len(r) = Len(q) + 1
        /\ \A i \in 1 .. Len(q) : r[i] = q[i]
        /\ r[Len(r)] = d
    OBVIOUS
  <2>. HIDE DEF q, r
  <2>2. q \o <<d>> = r
    BY <2>1, Longer, Zenon
  <2>. QED
    BY <2>2, Zenon DEF q, r
<1>. QED
  BY <1>1, <1>2, <1>3, <1>4, Zenon

\* Their tails, written out
LEMMA Tails ==
  ASSUME NEW S, NEW a \in S, NEW b \in S, NEW c \in S, NEW d \in S
  PROVE  /\ Tail(<<a, b>>) = <<b>>
         /\ Tail(<<a, b, c>>) = <<b, c>>
         /\ Tail(<<a, b, c, d>>) = <<b, c, d>>
OBVIOUS

\* A request is one whatever its kind.
LEMMA RequestTyped ==
  ASSUME NEW kind \in Kinds, NEW n \in Names
  PROVE  /\ Request(kind, n) \in RequestSet
         /\ Made(n) \in RequestSet
BY Zenon DEF Request, Made, RequestSet, Kinds

\* The programs of the FUSE calls, written out
LEMMA Programs ==
  ASSUME NEW op \in SessionOps \cup DataOps, NEW n \in Names, NEW m \in Names, NEW c \in Blocks
  PROVE  /\ Program(op, n, m, c) \in Seq(RequestSet)
         /\ Program(op, n, m, c) # <<>>
         /\ op \in DataOps =>
              /\ Len(Program(op, n, m, c)) = 1
              /\ Head(Program(op, n, m, c)).kind \in {"read", "write", "fsync"}
              /\ ~Head(Program(op, n, m, c)).create
         /\ op \in CreateOps =>
              /\ Program(op, n, m, c) \in Suffixes(n)
              /\ Head(Program(op, n, m, c)).kind = "absent"
<1>1. CASE op \in LookOps
  <2>1. Program(op, n, m, c) = LookProgram(op, n)
    BY <1>1, Zenon DEF Program, LookOps, NameOps, DataOps, CreateOps
  <2>2. PICK k \in {"metadata", "read_dir"} : LookProgram(op, n) = <<Request(k, n)>>
    BY <1>1, Zenon DEF LookOps, LookProgram
  <2>3. Request(k, n) \in RequestSet
    BY RequestTyped, Zenon DEF Kinds
  <2>4. <<Request(k, n)>> \in Seq(RequestSet) /\ <<Request(k, n)>> # <<>>
    BY <2>3, Tuples, Zenon
  <2>. QED
    BY <1>1, <2>1, <2>2, <2>4, Zenon DEF LookOps, DataOps, CreateOps
<1>2. CASE op \in NameOps
  <2>. DEFINE r == [Request("rename", n) EXCEPT !.to = m]
              d == Request("metadata", n)
  <2>1. Program(op, n, m, c) = NameProgram(op, n, m)
    BY <1>2, Zenon DEF Program, LookOps, NameOps, DataOps, CreateOps
  <2>2. r \in RequestSet
    BY Zenon DEF Request, RequestSet, Kinds
  <2>3. PICK k \in {"set_len", "mkdir", "remove_file", "remove_dir"} :
          \/ NameProgram(op, n, m) = <<Request(k, n)>>
          \/ NameProgram(op, n, m) = <<Request(k, n), d>>
          \/ NameProgram(op, n, m) = <<r>>
    BY <1>2, Zenon DEF NameOps, NameProgram
  <2>4. Request(k, n) \in RequestSet /\ d \in RequestSet
    BY RequestTyped, Zenon DEF Kinds
  <2>. HIDE DEF r, d
  <2>5. NameProgram(op, n, m) \in Seq(RequestSet) /\ NameProgram(op, n, m) # <<>>
    <3>1. <<r>> \in Seq(RequestSet) /\ <<r>> # <<>>
      BY <2>2, Tuples, Zenon
    <3>2. /\ <<Request(k, n)>> \in Seq(RequestSet) /\ <<Request(k, n)>> # <<>>
          /\ <<Request(k, n), d>> \in Seq(RequestSet) /\ <<Request(k, n), d>> # <<>>
      BY <2>4, Tuples, Zenon
    <3>. QED
      BY <2>3, <3>1, <3>2, Zenon
  <2>. QED
    BY <1>2, <2>1, <2>5, Zenon DEF NameOps, DataOps, CreateOps
<1>3. CASE op \in DataOps
  <2>1. Program(op, n, m, c) = DataProgram(op, n, c)
    BY <1>3, Zenon DEF Program, LookOps, NameOps, DataOps, CreateOps
  <2>2. PICK q \in RequestSet : /\ DataProgram(op, n, c) = <<q>>
                                /\ q.kind \in {"read", "write", "fsync"}
                                /\ ~q.create
    <3>1. CASE op = "write"
      <4>. DEFINE q == [Request("write", n) EXCEPT !.content = c]
      <4>1. q \in RequestSet /\ q.kind = "write" /\ ~q.create
        BY Zenon DEF Request, RequestSet, Kinds
      <4>2. DataProgram(op, n, c) = <<q>>
        BY <3>1, Zenon DEF DataProgram
      <4>. QED
        BY <4>1, <4>2, Zenon
    <3>2. CASE op \in {"read", "fsync"}
      <4>. DEFINE q == Request(op, n)
      <4>1. q \in RequestSet /\ q.kind = op /\ ~q.create
        BY <3>2, Zenon DEF Request, RequestSet, Kinds
      <4>2. DataProgram(op, n, c) = <<q>>
        BY <3>2, Zenon DEF DataProgram
      <4>. QED
        BY <3>2, <4>1, <4>2, Zenon
    <3>. QED
      BY <1>3, <3>1, <3>2, Zenon DEF DataOps
  <2>3. /\ <<q>> \in Seq(RequestSet) /\ <<q>> # <<>> /\ Len(<<q>>) = 1 /\ Head(<<q>>) = q
    BY Tuples, Zenon
  <2>. QED
    BY <1>3, <2>1, <2>2, <2>3, Zenon DEF DataOps, CreateOps
<1>4. CASE op \in CreateOps
  <2>. DEFINE a == Request("absent", n)
              s == Request("set_len", n)
              d == Request("metadata", n)
  <2>1. Program(op, n, m, c) = CreateProgram(op, n)
    BY <1>4, Zenon DEF Program, LookOps, NameOps, DataOps, CreateOps
  <2>3. a \in RequestSet /\ s \in RequestSet /\ d \in RequestSet /\ Made(n) \in RequestSet
    BY RequestTyped, Zenon DEF Kinds
  <2>2. CreateProgram(op, n) = <<a, Made(n), s, d>> \/ CreateProgram(op, n) = <<a, Made(n), d>>
    <3>1. CreateProgram(op, n) = <<a, Made(n)>> \o (IF op = "create_trunc" THEN <<s>> ELSE <<>>) \o <<d>>
      BY Zenon DEF CreateProgram, Made
    <3>. HIDE DEF a, s, d
    <3>2. /\ <<a, Made(n)>> \o <<>> \o <<d>> = <<a, Made(n), d>>
          /\ <<a, Made(n)>> \o <<s>> \o <<d>> = <<a, Made(n), s, d>>
      BY <2>3, Joined
    <3>. QED
      BY <3>1, <3>2, Zenon
  <2>4. a.kind = "absent"
    BY Zenon DEF Request
  <2>. HIDE DEF a, s, d
  <2>5. /\ CreateProgram(op, n) \in Seq(RequestSet)
        /\ CreateProgram(op, n) # <<>>
        /\ Head(CreateProgram(op, n)) = a
    <3>1. /\ <<a, Made(n), d>> \in Seq(RequestSet) /\ <<a, Made(n), d>> # <<>>
          /\ Head(<<a, Made(n), d>>) = a
      BY <2>3, Tuples
    <3>2. /\ <<a, Made(n), s, d>> \in Seq(RequestSet) /\ <<a, Made(n), s, d>> # <<>>
          /\ Head(<<a, Made(n), s, d>>) = a
      BY <2>3, Tuples
    <3>. QED
      BY <2>2, <3>1, <3>2, Zenon
  <2>6. CreateProgram(op, n) \in Suffixes(n)
    BY <2>2, Zenon DEF Suffixes, a, s, d
  <2>. QED
    BY <1>4, <2>1, <2>4, <2>5, <2>6, Zenon DEF CreateOps, DataOps
<1>. QED
  BY <1>1, <1>2, <1>3, <1>4, Zenon DEF SessionOps

\* How a create goes on
GoesOn(todo, n) ==
  /\ Head(todo).kind \in {"absent", "write", "set_len", "metadata"}
  /\ Head(todo).name = n
  /\ Head(todo).content = "empty"
  /\ Head(todo).create <=> Head(todo).kind = "write"
  /\ Head(todo).kind = "metadata" => Len(todo) = 1
  /\ Len(todo) # 1 =>
       /\ Tail(todo) \in Suffixes(n)
       /\ Head(todo).kind = "absent" => Head(Tail(todo)).kind = "write"
       /\ Head(todo).kind = "write" => Head(Tail(todo)).kind \in {"set_len", "metadata"}
       /\ Head(todo).kind = "set_len" => Head(Tail(todo)).kind = "metadata"

\* Every suffix of a create's program goes on as the code does: look, make, empty, look.
LEMMA Suffix ==
  ASSUME NEW n \in Names, NEW todo \in Suffixes(n)
  PROVE  GoesOn(todo, n)
<1>. USE DEF GoesOn
<1>. DEFINE a == Request("absent", n)
            w == Made(n)
            s == Request("set_len", n)
            m == Request("metadata", n)
<1>1. a \in RequestSet /\ s \in RequestSet /\ m \in RequestSet /\ w \in RequestSet
  BY RequestTyped, Zenon DEF Kinds
<1>2. /\ a.kind = "absent" /\ a.name = n /\ ~a.create /\ a.content = "empty"
      /\ w.kind = "write" /\ w.name = n /\ w.create /\ w.content = "empty"
      /\ s.kind = "set_len" /\ s.name = n /\ ~s.create /\ s.content = "empty"
      /\ m.kind = "metadata" /\ m.name = n /\ ~m.create /\ m.content = "empty"
  BY Zenon DEF Request, Made
<1>3. Suffixes(n) = {<<a, w, s, m>>, <<a, w, m>>, <<w, s, m>>, <<w, m>>, <<s, m>>, <<m>>}
  BY Zenon DEF Suffixes
<1>. HIDE DEF a, w, s, m
<1>4. CASE todo = <<a, w, s, m>>
  <2>1. Head(todo) = a /\ Tail(todo) = <<w, s, m>> /\ Len(todo) = 4 /\ Head(Tail(todo)) = w
    BY <1>1, <1>4, Tuples, Tails
  <2>. QED
    BY <1>2, <1>3, <2>1, Zenon
<1>5. CASE todo = <<a, w, m>>
  <2>1. Head(todo) = a /\ Tail(todo) = <<w, m>> /\ Len(todo) = 3 /\ Head(Tail(todo)) = w
    BY <1>1, <1>5, Tuples, Tails
  <2>. QED
    BY <1>2, <1>3, <2>1, Zenon
<1>6. CASE todo = <<w, s, m>>
  <2>1. Head(todo) = w /\ Tail(todo) = <<s, m>> /\ Len(todo) = 3 /\ Head(Tail(todo)) = s
    BY <1>1, <1>6, Tuples, Tails
  <2>. QED
    BY <1>2, <1>3, <2>1, Zenon
<1>7. CASE todo = <<w, m>>
  <2>1. Head(todo) = w /\ Tail(todo) = <<m>> /\ Len(todo) = 2 /\ Head(Tail(todo)) = m
    BY <1>1, <1>7, Tuples, Tails
  <2>. QED
    BY <1>2, <1>3, <2>1, Zenon
<1>8. CASE todo = <<s, m>>
  <2>1. Head(todo) = s /\ Tail(todo) = <<m>> /\ Len(todo) = 2 /\ Head(Tail(todo)) = m
    BY <1>1, <1>8, Tuples, Tails
  <2>. QED
    BY <1>2, <1>3, <2>1, Zenon
<1>9. CASE todo = <<m>>
  <2>1. Head(todo) = m /\ Len(todo) = 1
    BY <1>1, <1>9, Tuples, Zenon
  <2>. QED
    BY <1>2, <1>3, <2>1, Zenon
<1>. QED
  BY <1>3, <1>4, <1>5, <1>6, <1>7, <1>8, <1>9, Zenon

\* A step of one thread leaves the calls of the others alone.
LEMMA Setting ==
  ASSUME th \in [Threads -> Calls], NEW t \in Threads, NEW call \in Calls, Set(t, call)
  PROVE  /\ th' \in [Threads -> Calls]
         /\ th'[t] = call
         /\ \A u \in Threads : u # t => th'[u] = th[u]
BY Zenon DEF Set

\* Thread t takes a step: its call stays one, and the other calls stay as they are.
Moves(t) ==
  /\ th' \in [Threads -> Calls]
  /\ \A u \in Threads : u # t => th'[u] = th[u]
  /\ th'[t].pc = "idle" <=> th'[t].todo = <<>>

\* A finished request is followed by the next one, or by the end of the call.
LEMMA Finishing ==
  ASSUME Types, NEW t \in Threads, th[t].pc # "idle", Done(t)
  PROVE  /\ Moves(t)
         /\ \/ Len(th[t].todo) = 1 /\ th'[t] = NoCall
            \/ /\ Len(th[t].todo) # 1
               /\ th'[t] = [th[t] EXCEPT !.todo = Tail(@), !.pc = "serve", !.ino = None]
<1>. DEFINE call == IF Len(th[t].todo) = 1 THEN NoCall
                    ELSE [th[t] EXCEPT !.todo = Tail(@), !.pc = "serve", !.ino = None]
<1>1. th[t] \in Calls /\ th[t].todo \in Seq(RequestSet) /\ th[t].todo # <<>>
  BY Zenon DEF Types, Calls
<1>2. Tail(th[t].todo) \in Seq(RequestSet) /\ (Len(th[t].todo) # 1 => Tail(th[t].todo) # <<>>)
  <2>1. Tail(th[t].todo) \in Seq(RequestSet) /\ Len(Tail(th[t].todo)) = Len(th[t].todo) - 1
    BY <1>1
  <2>2. Len(th[t].todo) \in Nat
    BY <1>1
  <2>3. Len(<<>>) = 0
    BY Zenon
  <2>4. Len(th[t].todo) # 1 => Len(Tail(th[t].todo)) # 0
    BY <2>1, <2>2
  <2>. QED
    BY <2>1, <2>3, <2>4, Zenon
<1>3. call \in Calls /\ (call.pc = "idle" <=> call.todo = <<>>)
  <2>1. CASE Len(th[t].todo) = 1
    <3>1. NoCall \in Calls
      BY NoneAsked, Zenon DEF NoCall, Calls, PCs
    <3>. QED
      BY <2>1, <3>1, Zenon DEF NoCall
  <2>2. CASE Len(th[t].todo) # 1
    BY <1>1, <1>2, <2>2, ZenonT(30) DEF Calls, PCs
  <2>. QED
    BY <2>1, <2>2, Zenon
<1>4. Set(t, call)
  BY Zenon DEF Done
<1>. HIDE DEF call
<1>5. th' \in [Threads -> Calls] /\ th'[t] = call /\ \A u \in Threads : u # t => th'[u] = th[u]
  BY <1>3, <1>4, Setting, Zenon DEF Types
<1>. QED
  BY <1>3, <1>5, Zenon DEF call, Moves

-----------------------------------------------------------------------------
(* What a step of a thread leaves alone *)

\* A call that fails is over.
LEMMA Failing ==
  ASSUME Types, NEW t \in Threads, Fail(t)
  PROVE  Moves(t) /\ th'[t] = NoCall
<1>1. NoCall \in Calls
  BY NoneAsked, Zenon DEF NoCall, Calls, PCs
<1>2. Set(t, NoCall)
  BY Zenon DEF Fail
<1>3. NoCall.pc = "idle" /\ NoCall.todo = <<>>
  BY Zenon DEF NoCall
<1>4. th' \in [Threads -> Calls] /\ th'[t] = NoCall /\ \A u \in Threads : u # t => th'[u] = th[u]
  BY <1>1, <1>2, Setting, Zenon DEF Types
<1>. QED
  BY <1>3, <1>4, Zenon DEF Moves

\* A call moves on within its request.
LEMMA Going ==
  ASSUME Types, NEW t \in Threads, th[t].pc # "idle", NEW call \in Calls,
         call.todo = th[t].todo, call.pc # "idle", Set(t, call)
  PROVE  Moves(t) /\ th'[t] = call
<1>1. th' \in [Threads -> Calls] /\ th'[t] = call /\ \A u \in Threads : u # t => th'[u] = th[u]
  BY Setting, Zenon DEF Types
<1>2. th[t].todo # <<>>
  BY Zenon DEF Types
<1>. QED
  BY <1>1, <1>2, Zenon DEF Moves

\* The request that is served
LEMMA Served ==
  ASSUME Types, NEW t \in Threads, th[t].pc # "idle"
  PROVE  th[t] \in Calls /\ Req(t) \in RequestSet
<1>1. th[t].todo \in Seq(RequestSet) /\ th[t].todo # <<>>
  BY Zenon DEF Types, Calls
<1>. QED
  BY <1>1 DEF Types, Req

\* The types, when only calls, and the page cache within its types, change
LEMMA MovesTypes ==
  ASSUME Types, NEW t \in Threads, Moves(t), UNCHANGED mounted,
         dir' \in [Names -> Inodes \cup {None}], ddir' \in [Names -> Inodes \cup {None}],
         data' \in [Inodes -> Contents], ddata' \in [Inodes -> Contents],
         acked' \in [Inodes -> Contents \cup {None}],
         writer' \in [Inodes -> Threads \cup {None}], refused' \subseteq Inodes
  PROVE  Types'
BY Zenon DEF Types, Moves

\* A step that changes nothing on the host, and opens only what a name stands for
LEMMA MovesKept ==
  ASSUME Types, Kept, NEW t \in Threads, Moves(t), UNCHANGED host,
         th'[t].pc \in {"apply", "sync"} => th'[t].ino \in Inodes /\ data[th'[t].ino] # "free"
  PROVE  Kept'
BY ZenonT(30) DEF Kept, Moves, host, acks

\* Others' changes stand as long as nobody touches their files.
LEMMA MovesStands ==
  ASSUME Types, Kept, Stands, NEW t \in Threads, Moves(t),
         \A u \in Threads, i \in Inodes :
           u # t /\ data[i] # "free" /\ writer'[i] = u /\ i \notin refused' =>
             writer[i] = u /\ i \notin refused /\ data'[i] = data[i],
         Standing(th[t], t)'
  PROVE  Stands'
<1>. SUFFICES ASSUME NEW u \in Threads, u # t PROVE Standing(th[u], u)'
  BY Zenon DEF Stands
<1>1. th'[u] = th[u]
  BY Zenon DEF Moves
<1>2. Standing(th[u], u)
  BY Zenon DEF Stands
<1>3. th[u].pc = "sync" => th[u].ino \in Inodes /\ data[th[u].ino] # "free"
  BY Zenon DEF Kept
<1>4. th[u].pc = "sync" /\ th[u].ino \notin refused' /\ writer'[th[u].ino] = u =>
        /\ writer[th[u].ino] = u /\ th[u].ino \notin refused
        /\ data'[th[u].ino] = data[th[u].ino]
  BY <1>3, Zenon
<1>. QED
  BY <1>1, <1>2, <1>4, Zenon DEF Standing

\* Threads other than the session's change no name.
LEMMA MovesCreates ==
  ASSUME Types, Creates, NEW t \in Threads, Moves(t), t # Session => dir' = dir,
         t # Session /\ th'[t].pc # "idle" =>
           /\ ~th'[t].creating
           /\ Head(th'[t].todo).kind \in {"read", "write", "fsync"}
           /\ ~Head(th'[t].todo).create
           /\ Len(th'[t].todo) = 1,
         t = Session /\ th'[t].creating => \E n \in Names : CreateAt(th[Session], n)'
  PROVE  Creates'
<1>1. Session \in Threads
  BY Zenon DEF Threads
<1>2. CASE t = Session
  BY <1>1, <1>2, ZenonT(30) DEF Creates, Moves
<1>3. CASE t # Session
  <2>1. th'[Session] = th[Session]
    BY <1>1, <1>3, Zenon DEF Moves
  <2>2. \A n \in Names : CreateAt(th[Session], n) => CreateAt(th[Session], n)'
    BY <1>3, <2>1, Zenon DEF CreateAt
  <2>. QED
    BY <1>3, <2>1, <2>2, ZenonT(30) DEF Creates, Moves
<1>. QED
  BY <1>2, <1>3, Zenon

-----------------------------------------------------------------------------
(* One lemma per action *)

\* A FUSE call begins with nothing open; a create begins with the look for its name.
LEMMA CallInv ==
  ASSUME Inv, NEW t \in Threads, Call(t)
  PROVE  Inv'
<1>. USE DEF Inv
<1>1. PICK op \in IF t = Session THEN SessionOps ELSE DataOps, n \in Names, m \in Names, c \in Blocks :
        Set(t, [creating |-> op \in CreateOps, todo |-> Program(op, n, m, c), pc |-> "serve",
                ino |-> None, made |-> None])
  BY ZenonT(30) DEF Call, Set
<1>. DEFINE call == [creating |-> op \in CreateOps, todo |-> Program(op, n, m, c), pc |-> "serve",
                     ino |-> None, made |-> None]
<1>2. /\ Program(op, n, m, c) \in Seq(RequestSet)
      /\ Program(op, n, m, c) # <<>>
      /\ op \in DataOps =>
           /\ Len(Program(op, n, m, c)) = 1
           /\ Head(Program(op, n, m, c)).kind \in {"read", "write", "fsync"}
           /\ ~Head(Program(op, n, m, c)).create
      /\ op \in CreateOps =>
           /\ Program(op, n, m, c) \in Suffixes(n)
           /\ Head(Program(op, n, m, c)).kind = "absent"
  BY Programs, ZenonT(30)
<1>3. call \in Calls
  <2>1. (op \in CreateOps) \in BOOLEAN
    OBVIOUS
  <2>. QED
    BY <1>2, <2>1, Zenon DEF Calls, PCs
<1>4. /\ call.creating = (op \in CreateOps) /\ call.todo = Program(op, n, m, c)
      /\ call.pc = "serve"
  BY Zenon
<1>5. Set(t, call)
  BY <1>1, Zenon
<1>. HIDE DEF call
<1>6. th' \in [Threads -> Calls] /\ th'[t] = call /\ \A u \in Threads : u # t => th'[u] = th[u]
  BY <1>3, <1>5, Setting, Zenon DEF Types
<1>7. Moves(t) /\ th'[t].pc = "serve"
  BY <1>2, <1>4, <1>6, Zenon DEF Moves
<1>8. UNCHANGED <<mounted, host>>
  BY Zenon DEF Call
<1>9. Types'
  BY <1>7, <1>8, MovesTypes, Zenon DEF Types, host, acks
<1>10. Kept' /\ Stands'
  BY <1>7, <1>8, MovesKept, MovesStands, Zenon DEF Standing, host, acks
<1>11. t # Session => op \in DataOps /\ op \notin CreateOps
  BY Zenon DEF DataOps, CreateOps
<1>12. t = Session /\ th'[t].creating => CreateAt(th[Session], n)'
  BY <1>2, <1>4, <1>6, Zenon DEF CreateAt
<1>13. Creates'
  <2>1. t # Session => /\ ~th'[t].creating
                       /\ Head(th'[t].todo).kind \in {"read", "write", "fsync"}
                       /\ ~Head(th'[t].todo).create
                       /\ Len(th'[t].todo) = 1
    BY <1>2, <1>4, <1>6, <1>11, Zenon
  <2>. QED
    BY <2>1, <1>7, <1>8, <1>12, MovesCreates, Zenon DEF host
<1>. QED
  BY <1>9, <1>10, <1>13, Zenon

\* A call that fails, when nothing on the host has changed
LEMMA FailInv ==
  ASSUME Inv, NEW t \in Threads, Fail(t), UNCHANGED <<mounted, host>>
  PROVE  Inv'
<1>. USE DEF Inv
<1>1. Moves(t) /\ th'[t] = NoCall
  BY Failing, Zenon
<1>2. Types'
  BY <1>1, MovesTypes, Zenon DEF Types, host, acks
<1>3. Kept' /\ Stands'
  <2>1. th'[t].pc = "idle"
    BY <1>1 DEF NoCall
  <2>. QED
    BY <1>1, <2>1, MovesKept, MovesStands, Zenon DEF Standing, host, acks
<1>4. Creates'
  BY <1>1, MovesCreates DEF NoCall, host
<1>. QED
  BY <1>2, <1>3, <1>4, Zenon

\* When a request is done, a create finds its name free before it makes the file, and
\* its own afterwards.
LEMMA DoneCreates ==
  ASSUME Inv, NEW t \in Threads, th[t].pc # "idle", Done(t), t # Session => dir' = dir,
         \A n \in Names : t = Session /\ th[t].creating /\ CreateAt(th[t], n) =>
           /\ Req(t).kind = "absent" => dir'[n] = None
           /\ Req(t).kind = "write" => th[t].made # None /\ dir'[n] = th[t].made
  PROVE  Creates'
<1>. USE DEF Inv
<1>1. /\ Moves(t)
      /\ \/ Len(th[t].todo) = 1 /\ th'[t] = NoCall
         \/ /\ Len(th[t].todo) # 1
            /\ th'[t] = [th[t] EXCEPT !.todo = Tail(@), !.pc = "serve", !.ino = None]
  BY Finishing, Zenon
<1>2. CASE th'[t] = NoCall
  BY <1>1, <1>2, MovesCreates DEF NoCall
<1>3. CASE /\ Len(th[t].todo) # 1
           /\ th'[t] = [th[t] EXCEPT !.todo = Tail(@), !.pc = "serve", !.ino = None]
  <2>1. /\ th'[t].todo = Tail(th[t].todo) /\ th'[t].pc = "serve"
        /\ th'[t].creating = th[t].creating /\ th'[t].made = th[t].made
    BY <1>3 DEF Types, Calls
  <2>2. t = Session
    BY <1>3, Zenon DEF Creates
  <2>3. ASSUME th[t].creating
        PROVE  \E n \in Names : CreateAt(th[Session], n)'
    <3>1. PICK n \in Names : CreateAt(th[t], n)
      BY <2>2, <2>3, Zenon DEF Creates
    <3>2. th[t].todo \in Suffixes(n)
      BY <3>1, Zenon DEF CreateAt
    <3>3. GoesOn(th[t].todo, n)
      BY <3>2, Suffix, Zenon
    <3>4. CreateAt(th[Session], n)'
      BY <1>3, <2>1, <2>2, <2>3, <3>1, <3>3, ZenonT(30) DEF CreateAt, Req, GoesOn
    <3>. QED
      BY <3>4, Zenon
  <2>. QED
    BY <1>1, <2>1, <2>2, <2>3, MovesCreates, Zenon
<1>. QED
  BY <1>1, <1>2, <1>3, Zenon

\* A thread whose request is done has nothing open.
LEMMA Finished ==
  ASSUME Types, NEW t \in Threads, th[t].pc # "idle", Done(t)
  PROVE  Moves(t) /\ th'[t].pc \in {"idle", "serve"}
<1>1. /\ Moves(t)
      /\ \/ Len(th[t].todo) = 1 /\ th'[t] = NoCall
         \/ /\ Len(th[t].todo) # 1
            /\ th'[t] = [th[t] EXCEPT !.todo = Tail(@), !.pc = "serve", !.ino = None]
  BY Finishing, Zenon
<1>2. CASE th'[t] = NoCall
  BY <1>1, <1>2 DEF NoCall
<1>3. CASE th'[t] = [th[t] EXCEPT !.todo = Tail(@), !.pc = "serve", !.ino = None]
  BY <1>1, <1>3 DEF Types, Calls
<1>. QED
  BY <1>1, <1>2, <1>3, Zenon

\* A request is done and has changed nothing on the host.
LEMMA DoneInv ==
  ASSUME Inv, NEW t \in Threads, th[t].pc # "idle", Done(t), UNCHANGED <<mounted, host>>,
         th[t].creating => Req(t).kind # "write" /\ (Req(t).kind = "absent" => dir[Req(t).name] = None)
  PROVE  Inv'
<1>. USE DEF Inv
<1>1. Moves(t) /\ th'[t].pc \in {"idle", "serve"}
  BY Finished, Zenon
<1>2. Types'
  BY <1>1, MovesTypes, Zenon DEF Types, host, acks
<1>3. Kept' /\ Stands'
  BY <1>1, MovesKept, MovesStands, Zenon DEF Standing, host, acks
<1>4. \A n \in Names : CreateAt(th[t], n) => Req(t).name = n
  BY Suffix DEF CreateAt, Req, GoesOn
<1>5. Creates'
  BY <1>4, DoneCreates, Zenon DEF host
<1>. QED
  BY <1>2, <1>3, <1>5, Zenon

\* No connection, hence an errno
LEMMA ConnectFailsInv ==
  ASSUME Inv, NEW t \in Threads, ConnectFails(t)
  PROVE  Inv'
BY FailInv, Zenon DEF ConnectFails

\* handle_metadata: a create goes on only if its name is free, and it stays free.
LEMMA MetadataInv ==
  ASSUME Inv, NEW t \in Threads, Metadata(t)
  PROVE  Inv'
<1>1. /\ UNCHANGED <<mounted, host>> /\ th[t].pc = "serve" /\ Req(t).kind \in {"metadata", "absent"}
  BY Zenon DEF Metadata, Serving
<1>2. CASE Fail(t)
  BY <1>1, <1>2, FailInv, Zenon
<1>3. CASE (dir[Req(t).name] = None) = (Req(t).kind = "absent") /\ Done(t)
  <2>1. Req(t).kind = "absent" => dir[Req(t).name] = None
    BY <1>3, Zenon
  <2>. QED
    BY <1>1, <1>3, <2>1, DoneInv, Zenon
<1>. QED
  BY <1>2, <1>3, Zenon DEF Metadata, Resolve

\* handle_read_dir changes nothing.
LEMMA ReadDirInv ==
  ASSUME Inv, NEW t \in Threads, ReadDir(t)
  PROVE  Inv'
<1>1. /\ UNCHANGED <<mounted, host>> /\ th[t].pc = "serve" /\ Req(t).kind = "read_dir"
  BY Zenon DEF ReadDir, Serving
<1>. QED
  BY <1>1, FailInv, DoneInv, Zenon DEF ReadDir

\* handle_fsync opens what the name stands for; handle_read_file changes nothing.
LEMMA OpenToReadInv ==
  ASSUME Inv, NEW t \in Threads, OpenToRead(t)
  PROVE  Inv'
<1>. USE DEF Inv
<1>1. /\ UNCHANGED <<mounted, host>> /\ th[t].pc = "serve" /\ Req(t).kind \in {"fsync", "read"}
      /\ th[t] \in Calls /\ Req(t).name \in Names
  <2>1. th[t] \in Calls /\ th[t].pc = "serve" /\ Req(t) \in RequestSet
    BY Served, Zenon DEF OpenToRead, Serving
  <2>. QED
    BY <2>1, Zenon DEF OpenToRead, Serving, RequestSet
<1>2. CASE Fail(t)
  BY <1>1, <1>2, FailInv, Zenon
<1>3. CASE Done(t)
  BY <1>1, <1>3, DoneInv, Zenon
<1>4. CASE /\ dir[Req(t).name] # None /\ Req(t).kind = "fsync"
           /\ Set(t, [th[t] EXCEPT !.pc = "sync", !.ino = dir[Req(t).name]])
  <2>. DEFINE i == dir[Req(t).name]
              call == [th[t] EXCEPT !.pc = "sync", !.ino = i]
  <2>1. i \in Inodes /\ data[i] # "free"
    BY <1>1, <1>4, ZenonT(30) DEF Types, Kept
  <2>2. /\ call \in Calls /\ call.pc = "sync" /\ call.todo = th[t].todo /\ call.ino = i
        /\ call.creating = th[t].creating /\ call.made = th[t].made
    BY <1>1, <2>1, ZenonT(30) DEF Calls, PCs
  <2>. HIDE DEF i, call
  <2>3. Moves(t) /\ th'[t] = call
    BY <1>1, <1>4, <2>2, Going, ZenonT(30) DEF call, i
  <2>4. Types'
    BY <1>1, <2>3, MovesTypes, Zenon DEF Types, host, acks
  <2>5. Kept' /\ Stands'
    <3>1. Req(t).kind = "fsync"
      BY <1>1, <1>4, Zenon
    <3>2. Standing(th[t], t)'
      BY <2>2, <2>3, <3>1, Zenon DEF Standing, Req
    <3>. QED
      BY <1>1, <2>1, <2>2, <2>3, <3>2, MovesKept, MovesStands, Zenon DEF host, acks
  <2>6. t = Session => ~th[t].creating
    BY <1>1, Suffix, Zenon DEF Creates, CreateAt, Req, GoesOn
  <2>7. Creates'
    BY <1>1, <2>2, <2>3, <2>6, MovesCreates, Zenon DEF Creates, host
  <2>. QED
    BY <2>4, <2>5, <2>7, Zenon
<1>. QED
  BY <1>2, <1>3, <1>4, Zenon DEF OpenToRead, Resolve

\* On the way to the disk a call is still the same.
LEMMA Syncing ==
  ASSUME Inv, NEW t \in Threads, th[t].pc = "apply", ToSync(t), UNCHANGED dir
  PROVE  /\ Moves(t) /\ th'[t].pc = "sync" /\ th'[t].todo = th[t].todo /\ th'[t].ino = th[t].ino
         /\ Creates'
<1>. USE DEF Inv
<1>. DEFINE call == [th[t] EXCEPT !.pc = "sync"]
<1>1. th[t] \in Calls
  BY Zenon DEF Types
<1>2. /\ call \in Calls /\ call.pc = "sync" /\ call.todo = th[t].todo /\ call.ino = th[t].ino
      /\ call.creating = th[t].creating /\ call.made = th[t].made
  BY <1>1, Zenon DEF Calls, PCs
<1>3. Set(t, call)
  BY Zenon DEF ToSync
<1>. HIDE DEF call
<1>4. Moves(t) /\ th'[t] = call
  BY <1>2, <1>3, Going, Zenon
<1>5. \A n \in Names : CreateAt(th[t], n) /\ t = Session => CreateAt(th[Session], n)'
  BY <1>2, <1>4, ZenonT(30) DEF CreateAt
<1>6. t = Session /\ th'[t].creating => \E n \in Names : CreateAt(th[Session], n)'
  BY <1>2, <1>4, <1>5, Zenon DEF Creates
<1>7. Creates'
  BY <1>2, <1>4, <1>6, MovesCreates, Zenon DEF Creates
<1>. QED
  BY <1>2, <1>4, <1>7, Zenon

\* A change of content withdraws what was acknowledged of it; it stands, or it is
\* known to be refused.
LEMMA ChangeInv ==
  ASSUME Inv, NEW t \in Threads, th[t].pc = "apply", NEW content \in Contents, content # "free",
         Change(t, content), ToSync(t),
         \/ refused' = refused \ {th[t].ino} /\ content = Req(t).content
         \/ refused' = refused \cup {th[t].ino}
  PROVE  Inv'
<1>. USE DEF Inv
<1>. DEFINE i == th[t].ino
<1>1. UNCHANGED <<mounted, dir, ddir, ddata>>
  BY Zenon DEF Change
<1>2. /\ Moves(t) /\ th'[t].pc = "sync" /\ th'[t].todo = th[t].todo /\ th'[t].ino = i
      /\ Creates'
  BY <1>1, Syncing, Zenon
<1>3. i \in Inodes /\ data[i] # "free"
  BY Zenon DEF Kept
<1>4. /\ data' \in [Inodes -> Contents] /\ data'[i] = content
      /\ \A j \in Inodes : j # i => data'[j] = data[j]
  BY <1>3, Zenon DEF Change, Types
<1>5. /\ acked' \in [Inodes -> Contents \cup {None}] /\ acked'[i] = None
      /\ \A j \in Inodes : j # i => acked'[j] = acked[j]
  BY <1>3, Zenon DEF Change, Types
<1>6. /\ writer' \in [Inodes -> Threads \cup {None}] /\ writer'[i] = t
      /\ \A j \in Inodes : j # i => writer'[j] = writer[j]
  BY <1>3, Zenon DEF Change, Types
<1>7. /\ refused' \subseteq Inodes
      /\ \A j \in Inodes : j # i => (j \in refused' <=> j \in refused)
      /\ i \notin refused' => content = Req(t).content
  BY <1>3, Zenon DEF Types
<1>. HIDE DEF i
<1>8. Types'
  BY <1>1, <1>2, <1>4, <1>5, <1>6, <1>7, MovesTypes, Zenon DEF Types
<1>9. Kept'
  <2>1. \A j \in Inodes : data[j] # "free" => data'[j] # "free"
    BY <1>4, Zenon
  <2>2. \A j \in Inodes : acked'[j] # None =>
          ddata'[j] # "free" /\ (j \notin refused' => acked'[j] = data'[j] /\ acked'[j] = ddata'[j])
    BY <1>1, <1>4, <1>5, <1>7, Zenon DEF Kept
  <2>3. \A n \in Names : dir'[n] # None => dir'[n] \in Inodes
    BY <1>8, Zenon DEF Types
  <2>4. \A u \in Threads : th'[u].pc \in {"apply", "sync"} =>
          th'[u].ino \in Inodes /\ data'[th'[u].ino] # "free"
    BY <1>2, <1>3, <2>1, Zenon DEF Kept, Moves
  <2>. QED
    BY <1>1, <2>1, <2>2, <2>3, <2>4, Zenon DEF Kept
<1>10. Stands'
  <2>1. Standing(th[t], t)'
    BY <1>2, <1>4, <1>7, Zenon DEF Standing, Req
  <2>. QED
    BY <1>2, <1>4, <1>6, <1>7, <2>1, MovesStands, Zenon
<1>. QED
  BY <1>2, <1>8, <1>9, <1>10, Zenon

\* A request's content is that of a file.
LEMMA ContentTyped ==
  ASSUME Types, NEW t \in Threads, th[t].pc # "idle"
  PROVE  Req(t).content \in Contents /\ Req(t).content # "free"
BY Served, HostFsAssumption, Zenon DEF RequestSet, Contents

\* handle_write_file and handle_set_len change the file, unless there is nothing to write.
LEMMA ApplyInv ==
  ASSUME Inv, NEW t \in Threads, Apply(t)
  PROVE  Inv'
<1>. USE DEF Inv
<1>1. th[t].pc = "apply" /\ ToSync(t)
  BY Zenon DEF Apply
<1>2. CASE Carries(t) /\ Change(t, Req(t).content) /\ refused' = refused \ {th[t].ino}
  BY <1>1, <1>2, ContentTyped, ChangeInv, Zenon
<1>3. CASE ~Carries(t) /\ UNCHANGED <<mounted, host>>
  <2>1. /\ Moves(t) /\ th'[t].pc = "sync" /\ th'[t].todo = th[t].todo /\ th'[t].ino = th[t].ino
        /\ Creates'
    BY <1>1, <1>3, Syncing, Zenon DEF host
  <2>2. th[t].ino \in Inodes /\ data[th[t].ino] # "free"
    BY <1>1, Zenon DEF Kept
  <2>3. Standing(th[t], t)'
    BY <1>3, <2>1, Zenon DEF Standing, Carries, Req
  <2>4. Types'
    BY <1>3, <2>1, MovesTypes, Zenon DEF Types, host, acks
  <2>5. Kept' /\ Stands'
    BY <1>3, <2>1, <2>2, <2>3, MovesKept, MovesStands, Zenon DEF host, acks
  <2>. QED
    BY <2>1, <2>4, <2>5, Zenon
<1>. QED
  BY <1>2, <1>3, Zenon DEF Apply

\* A write that the host refuses goes the same way.
LEMMA WriteRefusedInv ==
  ASSUME Inv, NEW t \in Threads, WriteRefused(t)
  PROVE  Inv'
<1>. USE DEF Inv
<1>1. th[t].pc = "apply" /\ ToSync(t) /\ refused' = refused \cup {th[t].ino}
  BY Zenon DEF WriteRefused
<1>2. PICK content \in {data[th[t].ino], Req(t).content} : Change(t, content)
  BY Zenon DEF WriteRefused
<1>3. data[th[t].ino] \in Contents /\ data[th[t].ino] # "free"
  BY <1>1, Zenon DEF Kept, Types
<1>4. content \in Contents /\ content # "free"
  BY <1>1, <1>2, <1>3, ContentTyped, Zenon
<1>. QED
  BY <1>1, <1>2, <1>4, ChangeInv, Zenon

\* set_len that fails changes nothing.
LEMMA SetLenFailsInv ==
  ASSUME Inv, NEW t \in Threads, SetLenFails(t)
  PROVE  Inv'
BY FailInv, Zenon DEF SetLenFails

\* A synchronised file, whether the application is told so or not
LEMMA SyncedKept ==
  ASSUME Inv, NEW t \in Threads, th[t].pc = "sync", Moves(t), th'[t].pc \in {"idle", "serve"},
         UNCHANGED <<mounted, dir, data, ddir, refused>>, ddata' \in {ddata, Synced(t)},
         writer' = Settled(t),
         \/ acked' = acked
         \/ /\ ddata' = Synced(t) /\ acked' = [acked EXCEPT ![th[t].ino] = Acknowledged(t)]
  PROVE  Types' /\ Kept' /\ Stands'
<1>. USE DEF Inv
<1>. DEFINE i == th[t].ino
<1>1. i \in Inodes /\ data[i] # "free" /\ data[i] \in Contents
  BY Zenon DEF Kept, Types
<1>2. /\ ddata' \in [Inodes -> Contents]
      /\ ddata'[i] = ddata[i] \/ ddata'[i] = data[i]
      /\ \A j \in Inodes : j # i => ddata'[j] = ddata[j]
  BY <1>1, Zenon DEF Synced, Types
<1>3. /\ writer' \in [Inodes -> Threads \cup {None}]
      /\ \A j \in Inodes : writer'[j] = writer[j] \/ writer'[j] = None
  BY <1>1, ZenonT(30) DEF Settled, Types
<1>4. acked' # acked => ddata'[i] = data[i]
  BY <1>1, Zenon DEF Synced, Types
<1>5. /\ Acknowledged(t) \in Contents \cup {None}
      /\ Acknowledged(t) \in {acked[i], data[i]} \/ i \in refused \/ Acknowledged(t) = data[i]
  <2>1. Req(t).content \in Contents
    BY ContentTyped, Zenon
  <2>2. acked[i] \in Contents \cup {None}
    BY <1>1, Zenon DEF Types
  <2>3. Carries(t) /\ writer[i] = t /\ i \notin refused => Req(t).content = data[i]
    BY Zenon DEF Stands, Standing, Carries, Req
  <2>4. \/ Acknowledged(t) = Req(t).content /\ Carries(t) /\ writer[i] = t
        \/ Acknowledged(t) = data[i]
        \/ Acknowledged(t) = acked[i]
    BY Zenon DEF Acknowledged
  <2>. QED
    BY <1>1, <2>1, <2>2, <2>3, <2>4, Zenon
<1>6. /\ acked' \in [Inodes -> Contents \cup {None}]
      /\ \A j \in Inodes : j # i => acked'[j] = acked[j]
      /\ acked'[i] = acked[i] \/ acked'[i] = Acknowledged(t)
  BY <1>1, <1>5, Zenon DEF Types
<1>. HIDE DEF i
<1>7. Types'
  BY <1>2, <1>3, <1>6, MovesTypes, Zenon DEF Types
<1>8. acked'[i] # None =>
        ddata'[i] # "free" /\ (i \notin refused => acked'[i] = data[i] /\ acked'[i] = ddata'[i])
  <2>1. CASE acked'[i] = acked[i]
    BY <1>1, <1>2, <2>1, Zenon DEF Kept
  <2>2. CASE acked'[i] # acked[i]
    BY <1>1, <1>4, <1>5, <1>6, <2>2, Zenon
  <2>. QED
    BY <2>1, <2>2, Zenon
<1>9. Kept'
  <2>1. \A j \in Inodes : acked'[j] # None =>
          ddata'[j] # "free" /\ (j \notin refused' => acked'[j] = data'[j] /\ acked'[j] = ddata'[j])
    BY <1>2, <1>6, <1>8, Zenon DEF Kept
  <2>2. \A j \in Inodes : /\ ddata[j] # "free" => ddata'[j] # "free"
                          /\ ddata'[j] # "free" => data'[j] # "free"
    BY <1>1, <1>2, Zenon DEF Kept
  <2>3. \A n \in Names : ddir'[n] # None => ddir'[n] \in Inodes
    BY <1>7, Zenon DEF Types
  <2>4. \A u \in Threads : th'[u].pc \in {"apply", "sync"} =>
          th'[u].ino \in Inodes /\ data'[th'[u].ino] # "free"
    BY Zenon DEF Kept, Moves
  <2>. QED
    BY <2>1, <2>2, <2>3, <2>4, Zenon DEF Kept
<1>10. Stands'
  <2>1. Standing(th[t], t)'
    BY Zenon DEF Standing
  <2>2. \A u \in Threads : u # None
    BY HostFsAssumption, Zenon
  <2>. QED
    BY <1>3, <2>1, <2>2, MovesStands, Zenon
<1>. QED
  BY <1>7, <1>9, <1>10, Zenon

\* The synchronised content is in the page cache and on disk when it is acknowledged.
LEMMA SyncFileInv ==
  ASSUME Inv, NEW t \in Threads, SyncFile(t)
  PROVE  Inv'
<1>. USE DEF Inv
<1>1. /\ th[t].pc = "sync" /\ Done(t) /\ UNCHANGED <<mounted, dir, data, ddir, refused>>
      /\ ddata' = Synced(t) /\ writer' = Settled(t)
      /\ acked' = [acked EXCEPT ![th[t].ino] = Acknowledged(t)]
  BY Zenon DEF SyncFile
<1>2. Moves(t) /\ th'[t].pc \in {"idle", "serve"}
  BY <1>1, Finished, Zenon
<1>3. Types' /\ Kept' /\ Stands'
  BY <1>1, <1>2, SyncedKept, Zenon
<1>4. \A n \in Names : CreateAt(th[t], n) =>
        /\ Req(t).kind # "absent"
        /\ Req(t).kind = "write" => th[t].made # None /\ dir[n] = th[t].made
  BY <1>1, Zenon DEF CreateAt, Req
<1>5. Creates'
  BY <1>1, <1>4, DoneCreates, Zenon
<1>. QED
  BY <1>3, <1>5, Zenon

\* What does not reach the disk is not acknowledged.
LEMMA SyncFailsInv ==
  ASSUME Inv, NEW t \in Threads, SyncFails(t)
  PROVE  Inv'
<1>. USE DEF Inv
<1>1. /\ th[t].pc = "sync" /\ Fail(t) /\ UNCHANGED <<mounted, dir, data, ddir, acked, refused>>
      /\ ddata' \in {ddata, Synced(t)} /\ writer' = Settled(t)
  BY Zenon DEF SyncFails
<1>2. Moves(t) /\ th'[t] = NoCall
  BY <1>1, Failing, Zenon
<1>3. th'[t].pc = "idle" /\ ~th'[t].creating
  BY <1>2 DEF NoCall
<1>4. Types' /\ Kept' /\ Stands'
  BY <1>1, <1>2, <1>3, SyncedKept, Zenon
<1>5. Creates'
  BY <1>1, <1>2, <1>3, MovesCreates, Zenon
<1>. QED
  BY <1>4, <1>5, Zenon

\* A new inode harms nothing that is kept.
LEMMA EnterKept ==
  ASSUME Types, Kept, Stands, NEW t \in Threads, Moves(t), NEW j \in Free, NEW n \in Names,
         NEW content \in {"dir", "empty"}, Enter(j, n, content), UNCHANGED <<ddir, ddata, acks>>,
         th'[t].pc # "sync", th'[t].pc = "apply" => th'[t].ino = j
  PROVE  /\ dir' \in [Names -> Inodes \cup {None}] /\ dir'[n] = j
         /\ data' \in [Inodes -> Contents]
         /\ Kept' /\ Stands'
<1>1. j \in Inodes /\ data[j] = "free"
  BY Zenon DEF Free
<1>2. /\ dir' \in [Names -> Inodes \cup {None}] /\ dir'[n] = j
      /\ \A m \in Names : m # n => dir'[m] = dir[m]
  BY <1>1, Zenon DEF Enter, Types
<1>3. /\ data' \in [Inodes -> Contents] /\ data'[j] = content
      /\ \A i \in Inodes : i # j => data'[i] = data[i]
  BY <1>1, Zenon DEF Enter, Types, Contents
<1>4. acked[j] = None
  BY <1>1, Zenon DEF Kept
<1>5. Kept'
  BY <1>1, <1>2, <1>3, <1>4, SMTT(30) DEF Kept, Moves, Types, acks
<1>6. Stands'
  BY <1>1, <1>3, MovesStands, Zenon DEF Standing, acks
<1>. QED
  BY <1>2, <1>3, <1>5, <1>6, Zenon

\* A create opens the file it makes, and later the file it has made.
LEMMA OpenForWriteInv ==
  ASSUME Inv, NEW t \in Threads, OpenForWrite(t)
  PROVE  Inv'
<1>. USE DEF Inv
<1>. DEFINE n == Req(t).name
<1>1. /\ th[t].pc = "serve" /\ Req(t).kind \in {"write", "set_len"} /\ UNCHANGED mounted
      /\ th[t] \in Calls /\ n \in Names
  BY Served, ZenonT(30) DEF OpenForWrite, Serving, RequestSet
<1>2. \A m \in Names : CreateAt(th[t], m) => /\ m = n
                                             /\ Req(t).kind = "write" => dir[n] = None
                                             /\ Req(t).create <=> Req(t).kind = "write"
  BY <1>1, Suffix, ZenonT(30) DEF CreateAt, Req, GoesOn
<1>. HIDE DEF n
<1>3. CASE Fail(t) /\ UNCHANGED host
  BY <1>1, <1>3, FailInv, Zenon
<1>4. ASSUME dir[n] # None, Set(t, [th[t] EXCEPT !.pc = "apply", !.ino = dir[n]]), UNCHANGED host
      PROVE  Inv'
  <2>. DEFINE call == [th[t] EXCEPT !.pc = "apply", !.ino = dir[n]]
  <2>1. dir[n] \in Inodes /\ data[dir[n]] # "free"
    BY <1>1, <1>4, Zenon DEF Types, Kept
  <2>2. /\ call \in Calls /\ call.pc = "apply" /\ call.todo = th[t].todo /\ call.ino = dir[n]
        /\ call.creating = th[t].creating /\ call.made = th[t].made
    BY <1>1, <2>1, Zenon DEF Calls, PCs
  <2>. HIDE DEF call
  <2>3. Moves(t) /\ th'[t] = call
    BY <1>1, <1>4, <2>2, Going, Zenon DEF call
  <2>4. Types'
    BY <1>1, <1>4, <2>3, MovesTypes, Zenon DEF Types, host, acks
  <2>5. Kept' /\ Stands'
    <3>1. th'[t].pc = "apply"
      BY <2>2, <2>3, Zenon
    <3>. QED
      BY <1>4, <2>1, <2>2, <2>3, <3>1, MovesKept, MovesStands, Zenon DEF Standing, host, acks
  <2>6. \A m \in Names : CreateAt(th[t], m) /\ t = Session => CreateAt(th[Session], m)'
    BY <1>1, <1>2, <1>4, <2>2, <2>3, ZenonT(30) DEF CreateAt, Req, host
  <2>7. t = Session /\ th'[t].creating => \E m \in Names : CreateAt(th[Session], m)'
    BY <2>2, <2>3, <2>6, Zenon DEF Creates
  <2>8. Creates'
    BY <1>1, <1>4, <2>2, <2>3, <2>7, MovesCreates, Zenon DEF Creates, host
  <2>. QED
    BY <2>4, <2>5, <2>8, Zenon
<1>5. ASSUME dir[n] = None, Req(t).create, NEW j \in Free, Enter(j, n, "empty"),
             Set(t, [th[t] EXCEPT !.pc = "apply", !.ino = j, !.made = j]),
             UNCHANGED <<ddir, ddata, acks>>
      PROVE  Inv'
  <2>. DEFINE call == [th[t] EXCEPT !.pc = "apply", !.ino = j, !.made = j]
  <2>1. j \in Inodes
    BY Zenon DEF Free
  <2>2. /\ call \in Calls /\ call.pc = "apply" /\ call.todo = th[t].todo /\ call.ino = j
        /\ call.creating = th[t].creating /\ call.made = j
    BY <1>1, <2>1, Zenon DEF Calls, PCs
  <2>. HIDE DEF call
  <2>3. Moves(t) /\ th'[t] = call
    BY <1>1, <1>5, <2>2, Going, ZenonT(30) DEF call
  <2>4. dir' \in [Names -> Inodes \cup {None}] /\ dir'[n] = j /\ data' \in [Inodes -> Contents]
        /\ Kept' /\ Stands'
    BY <1>1, <1>5, <2>2, <2>3, EnterKept, Zenon
  <2>5. Types'
    BY <1>1, <1>5, <2>3, <2>4, MovesTypes, Zenon DEF Types, acks
  <2>6. t = Session
    BY <1>1, <1>5, Zenon DEF Creates, Req
  <2>7. \A m \in Names : CreateAt(th[t], m) => CreateAt(th[Session], m)'
    BY <1>1, <1>2, <1>5, <2>1, <2>2, <2>3, <2>4, <2>6, HostFsAssumption DEF CreateAt, Req
  <2>8. th'[t].creating => \E m \in Names : CreateAt(th[Session], m)'
    BY <2>2, <2>3, <2>6, <2>7, Zenon DEF Creates
  <2>9. Creates'
    BY <2>3, <2>6, <2>8, MovesCreates, Zenon
  <2>. QED
    BY <2>4, <2>5, <2>9, Zenon
<1>. QED
  BY <1>3, <1>4, <1>5, ZenonT(30) DEF OpenForWrite, Resolve, n

\* What changes a name is a call of the session thread, and no create.
LEMMA NameChange ==
  ASSUME Inv, NEW t \in Threads, th[t].pc = "serve",
         Req(t).kind \in {"mkdir", "remove_file", "remove_dir", "rename"}, Done(t)
  PROVE  Moves(t) /\ th'[t].pc \in {"idle", "serve"} /\ Creates'
<1>. USE DEF Inv
<1>1. Moves(t) /\ th'[t].pc \in {"idle", "serve"}
  BY Finished, Zenon
<1>2. t = Session
  BY Zenon DEF Creates, Req
<1>3. \A n \in Names : ~CreateAt(th[t], n)
  BY Suffix, Zenon DEF CreateAt, Req, GoesOn
<1>4. Creates'
  BY <1>2, <1>3, DoneCreates, Zenon
<1>. QED
  BY <1>1, <1>4, Zenon

\* handle_mkdir takes a free inode.
LEMMA MkdirInv ==
  ASSUME Inv, NEW t \in Threads, Mkdir(t)
  PROVE  Inv'
<1>. USE DEF Inv
<1>1. /\ th[t].pc = "serve" /\ Req(t).kind = "mkdir" /\ UNCHANGED mounted
      /\ Req(t).name \in Names
  BY Served, Zenon DEF Mkdir, Serving, RequestSet
<1>2. CASE Fail(t) /\ UNCHANGED host
  BY <1>1, <1>2, FailInv, Zenon
<1>3. ASSUME NEW j \in Free, Enter(j, Req(t).name, "dir"), Done(t), UNCHANGED <<ddir, ddata, acks>>
      PROVE  Inv'
  <2>1. Moves(t) /\ th'[t].pc \in {"idle", "serve"} /\ Creates'
    BY <1>1, <1>3, NameChange, Zenon
  <2>2. dir' \in [Names -> Inodes \cup {None}] /\ data' \in [Inodes -> Contents]
        /\ Kept' /\ Stands'
    BY <1>1, <1>3, <2>1, EnterKept, Zenon
  <2>3. Types'
    BY <1>1, <1>3, <2>1, <2>2, MovesTypes, Zenon DEF Types, acks
  <2>. QED
    BY <2>1, <2>2, <2>3, Zenon
<1>. QED
  BY <1>2, <1>3, Zenon DEF Mkdir

\* Removing and renaming change names only.
LEMMA NamesKept ==
  ASSUME Inv, NEW t \in Threads, th[t].pc = "serve",
         Req(t).kind \in {"remove_file", "remove_dir", "rename"}, Done(t),
         dir' \in [Names -> Inodes \cup {None}],
         \A n \in Names : dir'[n] = None \/ \E m \in Names : dir'[n] = dir[m],
         UNCHANGED <<mounted, data, ddir, ddata, acks>>
  PROVE  Inv'
<1>. USE DEF Inv
<1>1. Moves(t) /\ th'[t].pc \in {"idle", "serve"} /\ Creates'
  BY NameChange, Zenon
<1>2. Types'
  BY <1>1, MovesTypes, Zenon DEF Types, acks
<1>3. Kept'
  BY <1>1 DEF Kept, Moves, Types, acks
<1>4. Stands'
  BY <1>1, MovesStands, Zenon DEF Standing, acks
<1>. QED
  BY <1>1, <1>2, <1>3, <1>4, Zenon

\* handle_remove_file, handle_remove_dir: the inode stays.
LEMMA RemoveInv ==
  ASSUME Inv, NEW t \in Threads, Remove(t)
  PROVE  Inv'
<1>1. /\ th[t].pc = "serve" /\ Req(t).kind \in {"remove_file", "remove_dir"} /\ UNCHANGED mounted
      /\ Req(t).name \in Names
  BY Served, Zenon DEF Inv, Remove, Serving, RequestSet
<1>2. CASE Fail(t) /\ UNCHANGED host
  BY <1>1, <1>2, FailInv, Zenon
<1>3. CASE dir' = [dir EXCEPT ![Req(t).name] = None] /\ Done(t) /\ UNCHANGED <<data, ddir, ddata, acks>>
  <2>1. /\ dir' \in [Names -> Inodes \cup {None}]
        /\ \A n \in Names : dir'[n] = None \/ \E m \in Names : dir'[n] = dir[m]
    BY <1>1, <1>3, Zenon DEF Inv, Types
  <2>. QED
    BY <1>1, <1>3, <2>1, NamesKept, Zenon
<1>. QED
  BY <1>2, <1>3, Zenon DEF Remove

\* handle_rename: a name takes over an inode that another one had.
LEMMA RenameInv ==
  ASSUME Inv, NEW t \in Threads, Rename(t)
  PROVE  Inv'
<1>1. /\ th[t].pc = "serve" /\ Req(t).kind = "rename" /\ UNCHANGED mounted
      /\ Req(t).name \in Names /\ Req(t).to \in Names
  BY Served, Zenon DEF Inv, Rename, Serving, RequestSet
<1>2. CASE Fail(t) /\ UNCHANGED host
  BY <1>1, <1>2, FailInv, Zenon
<1>3. CASE /\ dir' = [dir EXCEPT ![Req(t).name] = None, ![Req(t).to] = dir[Req(t).name]]
           /\ Done(t) /\ UNCHANGED <<data, ddir, ddata, acks>>
  <2>1. /\ dir' \in [Names -> Inodes \cup {None}]
        /\ \A n \in Names : dir'[n] = None \/ \E m \in Names : dir'[n] = dir[m]
    BY <1>1, <1>3, Zenon DEF Inv, Types
  <2>. QED
    BY <1>1, <1>3, <2>1, NamesKept, Zenon
<1>. QED
  BY <1>2, <1>3, Zenon DEF Rename

\* Writing back makes the disk like the page cache, and names reach it with their inodes.
LEMMA WritebackInv ==
  ASSUME Inv, Writeback
  PROVE  Inv'
<1>. USE DEF Inv
<1>1. UNCHANGED <<mounted, th, dir, data, acked, writer, refused>>
  BY Zenon DEF Writeback, acks
<1>2. ASSUME ddir' = dir, ddata' = [i \in Inodes |-> IF ddata[i] = "free" THEN data[i] ELSE ddata[i]]
      PROVE  Types' /\ Kept'
  BY <1>1, <1>2, ZenonT(30) DEF Types, Kept
<1>3. ASSUME NEW i \in Inodes, ddata' = [ddata EXCEPT ![i] = data[i]], UNCHANGED ddir
      PROVE  Types' /\ Kept'
  BY <1>1, <1>3, ZenonT(30) DEF Types, Kept
<1>4. Creates' /\ Stands'
  BY <1>1, Zenon DEF Creates, CreateAt, Stands, Standing
<1>. QED
  BY <1>2, <1>3, <1>4, Zenon DEF Writeback

\* A crash leaves what is on disk, and no call.
LEMMA CrashInv ==
  ASSUME Inv, Crash
  PROVE  Inv'
<1>. USE DEF Inv
<1>1. /\ mounted' = "no" /\ th' = [t \in Threads |-> NoCall] /\ dir' = ddir /\ data' = ddata
      /\ writer' = [i \in Inodes |-> None] /\ UNCHANGED <<ddir, ddata, acked, refused>>
  BY Zenon DEF Crash
<1>2. NoCall \in Calls
  BY NoneAsked, Zenon DEF NoCall, Calls, PCs
<1>3. NoCall.pc = "idle" /\ NoCall.todo = <<>> /\ ~NoCall.creating
  BY Zenon DEF NoCall
<1>. HIDE DEF NoCall
<1>4. \A t \in Threads : th'[t] = NoCall
  BY <1>1, Zenon
<1>5. Types'
  BY <1>1, <1>2, <1>3, <1>4, Zenon DEF Types
<1>6. Kept'
  BY <1>1, <1>3, <1>4, Zenon DEF Kept
<1>7. Creates' /\ Stands'
  BY <1>3, <1>4, Zenon DEF Creates, Threads, Stands, Standing
<1>. QED
  BY <1>5, <1>6, <1>7, Zenon

\* The invariant holds of an empty directory.
LEMMA InitInv == Init => Inv
<1>. SUFFICES ASSUME Init PROVE Inv
  BY Zenon
<1>1. NoCall \in Calls
  BY NoneAsked, Zenon DEF NoCall, Calls, PCs
<1>2. NoCall.pc = "idle" /\ NoCall.todo = <<>> /\ ~NoCall.creating
  BY Zenon DEF NoCall
<1>3. \A t \in Threads : th[t] = NoCall
  BY Zenon DEF Init
<1>4. Types
  BY <1>1, <1>2, <1>3, Zenon DEF Init, Types, Contents
<1>5. Kept
  BY <1>2, <1>3, Zenon DEF Init, Kept
<1>6. Creates /\ Stands
  BY <1>2, <1>3, Zenon DEF Creates, Threads, Stands, Standing
<1>. QED
  BY <1>4, <1>5, <1>6, Zenon DEF Inv

\* Every step preserves it.
LEMMA StepInv == Inv /\ [Next]_vars => Inv'
<1>. SUFFICES ASSUME Inv, [Next]_vars PROVE Inv'
  BY SMTT(30), Zenon
<1>1. CASE Mount
  <2>1. mounted' \in {"yes", "failed"} /\ UNCHANGED <<th, host>>
    BY <1>1, Zenon DEF Mount
  <2>. QED
    BY <2>1, ZenonT(30) DEF Inv, Types, Kept, Stands, Standing, Creates, CreateAt, host, acks
<1>2. ASSUME NEW t \in Threads, Call(t) \/ ConnectFails(t) \/ Serve(t)
      PROVE  Inv'
  BY <1>2, CallInv, ConnectFailsInv, MetadataInv, OpenForWriteInv, ApplyInv, WriteRefusedInv,
     SetLenFailsInv, SyncFileInv, SyncFailsInv, ReadDirInv, OpenToReadInv, MkdirInv, RemoveInv, RenameInv, Zenon DEF Serve
<1>3. CASE Writeback
  BY <1>3, WritebackInv, Zenon
<1>4. CASE Crash
  BY <1>4, CrashInv, Zenon
<1>5. CASE UNCHANGED vars
  BY <1>5, ZenonT(30) DEF vars, Inv, Types, Kept, Stands, Standing, Creates, CreateAt, host, acks
<1>. QED
  BY <1>1, <1>2, <1>3, <1>4, <1>5, Zenon DEF Next

\* It holds throughout, crashes of the host included.
LEMMA Invariance == Spec => []Inv
BY InitInv, StepInv, PTL DEF Spec

-----------------------------------------------------------------------------
(* The theorems *)

\* For any number of files and threads, what was last acknowledged of a file's content,
\* which is what the request carried, is on disk, whenever the host crashes (sync_data
\* and sync_all before the answer), unless the host refused to write it.
THEOREM AcknowledgedIsDurable == Spec => []AckedContentOnDisk
<1>1. Inv => AckedContentOnDisk
  BY Zenon DEF Inv, Kept, AckedContentOnDisk
<1>. QED
  BY Invariance, <1>1, PTL

\* A step of a creating thread changes no content but that of the file it has made.
LEMMA CreateStep ==
  ASSUME Inv, [Next]_vars, NEW t \in Threads, NEW i \in Inodes, th[t].creating, th'[t] # th[t],
         mounted' = "yes", data'[i] # data[i]
  PROVE  i \in {th[t].made, th'[t].made}
<1>. USE DEF Inv
<1>1. ConnectFails(t) \/ Call(t) \/ Serve(t)
  <2>1. ~Mount /\ ~Writeback /\ ~Crash /\ ~UNCHANGED vars
    BY Zenon DEF Mount, Writeback, Crash, vars
  <2>2. PICK u \in Threads : ConnectFails(u) \/ Call(u) \/ Serve(u)
    BY <2>1, Zenon DEF Next
  <2>3. u = t
    <3>1. \E call : Set(u, call)
      BY <2>2, Zenon DEF ConnectFails, Call, Serve, Metadata, OpenForWrite, Apply, WriteRefused, SetLenFails,
         SyncFile, SyncFails, ReadDir, OpenToRead, Mkdir, Remove, Rename, Done, Fail, ToSync, Set
    <3>. QED
      BY <3>1, Zenon DEF Set, Types
  <2>. QED
    BY <2>2, <2>3, Zenon
<1>2. ConnectFails(t) \/ Call(t) \/ Metadata(t) \/ ReadDir(t) \/ OpenToRead(t) => UNCHANGED data
  BY Zenon DEF ConnectFails, Call, Metadata, ReadDir, OpenToRead, host
<1>3. SetLenFails(t) \/ SyncFile(t) \/ SyncFails(t) \/ Remove(t) \/ Rename(t) => UNCHANGED data
  BY Zenon DEF SetLenFails, SyncFile, SyncFails, Remove, Rename, host
<1>4. th[t].pc # "idle" => t = Session /\ \E n \in Names : CreateAt(th[t], n)
  BY Zenon DEF Creates
<1>5. CASE Mkdir(t)
  <2>1. th[t].pc = "serve" /\ Req(t).kind = "mkdir"
    BY <1>5, Zenon DEF Mkdir, Serving
  <2>. QED
    BY <1>4, <2>1, Suffix, Zenon DEF CreateAt, Req, GoesOn
<1>6. CASE OpenForWrite(t)
  <2>1. PICK j \in Free : /\ Enter(j, Req(t).name, "empty")
                          /\ Set(t, [th[t] EXCEPT !.pc = "apply", !.ino = j, !.made = j])
    BY <1>6, Zenon DEF OpenForWrite, host
  <2>2. i = j
    BY <2>1, Zenon DEF Enter, Types, Free
  <2>3. th'[t].made = j
    BY <2>1, Zenon DEF Set, Types, Calls
  <2>. QED
    BY <2>2, <2>3, Zenon
<1>7. CASE Apply(t) \/ WriteRefused(t)
  <2>1. th[t].pc = "apply" /\ Carries(t) /\ \E content : Change(t, content)
    BY <1>7, Zenon DEF Apply, WriteRefused, host
  <2>2. ~Req(t).create /\ i = th[t].ino
    BY <2>1, Zenon DEF Carries, Change, Types, Kept
  <2>3. th[t].ino = th[t].made
    BY <1>4, <2>1, <2>2, Suffix DEF CreateAt, Req, GoesOn
  <2>. QED
    BY <2>2, <2>3, Zenon
<1>. QED
  BY <1>1, <1>2, <1>3, <1>5, <1>6, <1>7, Zenon DEF Serve

\* For any number of files and threads, a create neither empties nor replaces a file
\* that it has not made, whatever comes between its four requests (create, set_len).
THEOREM CreateIsHarmless == Spec => CreateLosesNothing
<1>1. Inv /\ [Next]_vars =>
        [\A t \in Threads : \A i \in Inodes :
           (th[t].creating /\ th'[t] # th[t] /\ mounted' = "yes" /\ data'[i] # data[i])
             => i \in {th[t].made, th'[t].made}]_vars
  BY CreateStep, Zenon
<1>. QED
  BY Invariance, <1>1, PTL DEF Spec, CreateLosesNothing
=============================================================================
