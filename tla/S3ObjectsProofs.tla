-------------------------- MODULE S3ObjectsProofs --------------------------
(***************************************************************************)
(* Egress and S3 for any number of connections, requests and chunks, any   *)
(* policy, any resolver and any settings.                                  *)
(*                                                                         *)
(* Nothing is dialled that is_host_allowed does not admit, and an address  *)
(* is reached only as one of its destination's (Tunnel); what              *)
(* is_host_allowed admits is what the patterns mean, read either way       *)
(* (PolicyMeaning).  What is stored, on its way to the bucket or on its    *)
(* way back has metadata that fit its bytes (Stored).                      *)
(***************************************************************************)
EXTENDS S3Objects, WellFoundedInduction, TLAPS

Fields == {"pc", "host", "dest", "addr", "up", "down", "broken"}
Shaped(x) == x = [f \in Fields |-> x[f]]

\* A connection as the proxies leave it
Sound(x) ==
  /\ Shaped(x)
  /\ x.pc # "idle" \/ x.host # "none" => x.dest \in Hosts
  /\ x.pc \notin {"idle", "check"} \/ x.host # "none" => IsHostAllowed(x.dest)
  /\ x.addr # None => x.host # "none" /\ x.addr \in Addresses(x.dest)

Tunnel == cx = [c \in Conns |-> cx[c]] /\ \A c \in Conns : Sound(cx[c])

\* Metadata that fit the bytes, if there is an object
Fits(obj) ==
  \/ obj = None
  \/ obj.scheme = None /\ obj.key = None
  \/ /\ obj.scheme = "kms-v1"
     /\ obj.key = obj.version
     /\ obj.bound = Bound(obj.version, obj.aad)

Stored ==
  /\ config \in Configs
  /\ owner \in [Conns -> Requests \cup {None}]
  /\ wire = [c \in Conns |-> wire[c]]
  /\ \A c \in Conns : Fits(wire[c].obj)
  /\ req = [r \in Requests |-> req[r]]
  /\ \A r \in Requests : req[r] = [op |-> req[r].op, obj |-> req[r].obj, pc |-> req[r].pc]
  /\ \A r \in Requests : Fits(req[r].obj)
  /\ Fits(store)

Inv == Tunnel /\ Stored

-----------------------------------------------------------------------------
(* The policy *)

\* There is a least number in a set.
Least(T) == \E x \in T : \A y \in T : x <= y

\* A set of numbers has a least one.
LEMMA LeastNumber ==
  ASSUME NEW T, T \subseteq Nat, T # {}
  PROVE  Least(T)
<1>. DEFINE R == {ss \in Nat \X Nat : ss[1] < ss[2]}
<1>1. IsWellFoundedOn(R, Nat)
  BY NatLessThanWellFounded DEF OpToRel
<1>. HIDE DEF R
<1>2. \E x \in T : \A y \in T : ~(<<y, x>> \in R)
  BY <1>1, WFMin, Zenon
<1>3. PICK x \in T : \A y \in T : ~(<<y, x>> \in R)
  BY <1>2, Zenon
<1>4. ASSUME NEW y \in T PROVE x <= y
  <2>1. ~(<<y, x>> \in R)
    BY <1>3, Zenon
  <2>2. x \in Nat /\ y \in Nat
    BY Zenon
  <2>3. ~(y < x)
    BY <2>1, <2>2 DEF R
  <2>. QED
    BY <2>2, <2>3
<1>. QED
  BY <1>4, Zenon DEF Least


\* The labels of a pattern, from the right, that are "**", and those that fit the
\* name's.
Deep(pattern) == {i \in 1 .. Len(pattern) : pattern[Len(pattern) + 1 - i] = "**"}
Fitting(pattern, name) ==
  {i \in 1 .. Len(pattern) :
     \/ pattern[Len(pattern) + 1 - i] = "*"
     \/ Lower[pattern[Len(pattern) + 1 - i]] = Lower[name[Len(name) + 1 - i]]}

\* One step of the matcher: label i of p, with n labels in the name, and what the
\* rest says
Matched(i, rest, p, n, D, F) ==
  IF i > p THEN n < i ELSE i <= n /\ (i \in D \/ (i \in F /\ rest))

\* All steps of it: labels fit up to a "**", or up to the end of both.
Reaches(i, p, n, D, F) ==
  \E j \in i .. p + 1 : /\ \A h \in i .. j - 1 : h <= n /\ h \in F
                        /\ IF j = p + 1 THEN n < j ELSE j <= n /\ j \in D

\* The matcher, told all at once, takes one step after another.
LEMMA ReachesStep ==
  ASSUME NEW p \in Nat, NEW n \in Nat, NEW D, NEW F, NEW i \in 1 .. p + 1
  PROVE  Reaches(i, p, n, D, F) <=> Matched(i, Reaches(i + 1, p, n, D, F), p, n, D, F)
<1>1. CASE i > p
  <2>1. i = p + 1 /\ i \in i .. p + 1 /\ i .. i - 1 = {} /\ \A j \in i .. p + 1 : j = i
    BY <1>1
  <2>. QED
    BY <1>1, <2>1, Zenon DEF Reaches, Matched
<1>2. CASE ~(i > p)
  <2>1. /\ i \in i .. p + 1 /\ i # p + 1 /\ i .. i - 1 = {}
        /\ \A j \in i .. p + 1 : j = i \/ (j \in i + 1 .. p + 1 /\ i \in i .. j - 1)
        /\ \A j \in i + 1 .. p + 1 : j \in i .. p + 1 /\ j # i
        /\ \A j \in i + 1 .. p + 1 : \A h : h \in i .. j - 1 <=> h = i \/ h \in i + 1 .. j - 1
    BY <1>2
  <2>2. ASSUME Reaches(i, p, n, D, F)
        PROVE  i <= n /\ (i \in D \/ (i \in F /\ Reaches(i + 1, p, n, D, F)))
    <3>1. PICK j \in i .. p + 1 : /\ \A h \in i .. j - 1 : h <= n /\ h \in F
                                  /\ IF j = p + 1 THEN n < j ELSE j <= n /\ j \in D
      BY <2>2, Zenon DEF Reaches
    <3>2. CASE j = i
      BY <2>1, <3>1, <3>2, Zenon
    <3>3. CASE j \in i + 1 .. p + 1 /\ i \in i .. j - 1
      <4>1. i <= n /\ i \in F
        BY <3>1, <3>3, Zenon
      <4>2. \A h \in i + 1 .. j - 1 : h <= n /\ h \in F
        BY <2>1, <3>1, <3>3, Zenon
      <4>. QED
        BY <3>1, <3>3, <4>1, <4>2, Zenon DEF Reaches
    <3>. QED
      BY <2>1, <3>2, <3>3, Zenon
  <2>3. ASSUME i <= n, i \in D
        PROVE  Reaches(i, p, n, D, F)
    BY <2>1, <2>3, Zenon DEF Reaches
  <2>4. ASSUME i <= n, i \in F, Reaches(i + 1, p, n, D, F)
        PROVE  Reaches(i, p, n, D, F)
    <3>1. PICK j \in i + 1 .. p + 1 : /\ \A h \in i + 1 .. j - 1 : h <= n /\ h \in F
                                      /\ IF j = p + 1 THEN n < j ELSE j <= n /\ j \in D
      BY <2>4, Zenon DEF Reaches
    <3>2. \A h \in i .. j - 1 : h <= n /\ h \in F
      BY <2>1, <2>4, <3>1, Zenon
    <3>. QED
      BY <2>1, <3>1, <3>2, Zenon DEF Reaches
  <2>. QED
    BY <1>2, <2>2, <2>3, <2>4, Zenon DEF Matched
<1>. QED
  BY <1>1, <1>2, Zenon

\* A function that takes those steps
Recurs(f, p, n, D, F) ==
  \A i \in 1 .. p + 1 : f[i] <=> Matched(i, f[i + 1], p, n, D, F)

\* Whatever takes those steps says what the matcher, told all at once, says: there is
\* no label, counted from the left, at which they first differ.
LEMMA ReachesOnly ==
  ASSUME NEW p \in Nat, NEW n \in Nat, NEW D, NEW F, NEW f, Recurs(f, p, n, D, F)
  PROVE  f[1] <=> Reaches(1, p, n, D, F)
<1>. DEFINE Right(i) == f[i] <=> Reaches(i, p, n, D, F)
            T == {m \in 0 .. p : ~Right(p + 1 - m)}
<1>1. T = {}
  <2>. SUFFICES ASSUME T # {} PROVE FALSE
    BY Zenon
  <2>1. T \subseteq Nat
    OBVIOUS
  <2>. HIDE DEF Right
  <2>2. Least(T)
    BY <2>1, LeastNumber, Zenon
  <2>3. PICK m \in T : \A y \in T : m <= y
    BY <2>2, Zenon DEF Least
  <2>. DEFINE i == p + 1 - m
  <2>4. m \in 0 .. p /\ ~Right(i)
    BY <2>3, Zenon
  <2>5. i \in 1 .. p + 1
    BY <2>4
  <2>6. i > p \/ Right(i + 1)
    <3>1. CASE m = 0
      BY <3>1
    <3>2. CASE m # 0
      <4>1. m - 1 \in 0 .. p /\ m - 1 \notin T /\ p + 1 - (m - 1) = i + 1
        BY <2>3, <2>4, <3>2
      <4>. QED
        BY <4>1, Zenon
    <3>. QED
      BY <3>1, <3>2, Zenon
  <2>. HIDE DEF i, T
  <2>7. /\ f[i] <=> Matched(i, f[i + 1], p, n, D, F)
        /\ Reaches(i, p, n, D, F) <=> Matched(i, Reaches(i + 1, p, n, D, F), p, n, D, F)
    BY <2>5, ReachesStep, Zenon DEF Recurs
  <2>. QED
    BY <2>4, <2>6, <2>7, Zenon DEF Matched, Right
<1>2. p \in 0 .. p /\ p + 1 - p = 1
  OBVIOUS
<1>. HIDE DEF Right
<1>3. Right(1)
  BY <1>1, <1>2, Zenon
<1>. QED
  BY <1>3, Zenon DEF Right

\* A function that the matcher's definition may stand for
Matcher(f, pattern, name) ==
  f = [i \in 1 .. (Len(pattern) + 1) |->
        IF i > Len(pattern) THEN Len(name) < i
        ELSE /\ i <= Len(name)
             /\ \/ pattern[Len(pattern) + 1 - i] = "**"
                \/ /\ \/ pattern[Len(pattern) + 1 - i] = "*"
                      \/ Lower[pattern[Len(pattern) + 1 - i]] = Lower[name[Len(name) + 1 - i]]
                   /\ f[i + 1]]

\* Such a function takes those steps.
LEMMA MatcherRecurs ==
  ASSUME NEW pattern, NEW name, NEW f, Len(pattern) \in Nat, Matcher(f, pattern, name)
  PROVE  Recurs(f, Len(pattern), Len(name), Deep(pattern), Fitting(pattern, name))
<1>1. ASSUME NEW i \in 1 .. Len(pattern) + 1
      PROVE  i > Len(pattern) \/ i \in 1 .. Len(pattern)
  OBVIOUS
<1>. QED
  BY <1>1, Zenon DEF Matcher, Recurs, Matched, Deep, Fitting

\* There is such a function.
LEMMA MatcherExists ==
  ASSUME NEW pattern, NEW name, Len(pattern) \in Nat, Len(name) \in Nat
  PROVE  \E f : Matcher(f, pattern, name)
<1>. DEFINE p == Len(pattern)
            n == Len(name)
            D == Deep(pattern)
            F == Fitting(pattern, name)
            f == [i \in 1 .. p + 1 |-> Reaches(i, p, n, D, F)]
            e(i) == IF i > p THEN n < i
                    ELSE /\ i <= n
                         /\ \/ pattern[p + 1 - i] = "**"
                            \/ /\ \/ pattern[p + 1 - i] = "*"
                                  \/ Lower[pattern[p + 1 - i]] = Lower[name[n + 1 - i]]
                               /\ f[i + 1]
<1>1. ASSUME NEW i \in 1 .. p + 1 PROVE Reaches(i, p, n, D, F) = e(i)
  <2>1. (i > p \/ i \in 1 .. p) /\ (i \in 1 .. p => i + 1 \in 1 .. p + 1)
    OBVIOUS
  <2>2. Reaches(i, p, n, D, F) <=> Matched(i, Reaches(i + 1, p, n, D, F), p, n, D, F)
    BY ReachesStep, Zenon
  <2>3. i \in 1 .. p => f[i + 1] = Reaches(i + 1, p, n, D, F)
    BY <2>1, Zenon
  <2>4. i \in 1 .. p => (i \in D <=> pattern[p + 1 - i] = "**")
    BY Zenon DEF Deep
  <2>5. i \in 1 .. p => (i \in F <=> \/ pattern[p + 1 - i] = "*"
                                     \/ Lower[pattern[p + 1 - i]] = Lower[name[n + 1 - i]])
    BY Zenon DEF Fitting
  <2>6. Reaches(i, p, n, D, F) <=> e(i)
    <3>. HIDE DEF f, D, F, p, n
    <3>. QED
      BY <2>1, <2>2, <2>3, <2>4, <2>5, Zenon DEF Matched
  <2>7. Reaches(i, p, n, D, F) \in BOOLEAN
    BY Zenon DEF Reaches
  <2>8. e(i) \in BOOLEAN
    <3>1. CASE i > p
      <4>1. e(i) = (n < i)
        BY <3>1, Zenon
      <4>2. (n < i) \in BOOLEAN
        OBVIOUS
      <4>. QED
        BY <4>1, <4>2, Zenon
    <3>2. CASE ~(i > p)
      <4>1. e(i) = /\ i <= n
                   /\ \/ pattern[p + 1 - i] = "**"
                      \/ /\ \/ pattern[p + 1 - i] = "*"
                            \/ Lower[pattern[p + 1 - i]] = Lower[name[n + 1 - i]]
                         /\ f[i + 1]
        BY <3>2, Zenon
      <4>. QED
        BY <4>1, Zenon
    <3>. QED
      BY <3>1, <3>2, Zenon
  <2>. HIDE DEF e
  <2>. QED
    BY <2>6, <2>7, <2>8
<1>2. f = [i \in 1 .. p + 1 |-> e(i)]
  BY <1>1, Zenon
<1>3. Matcher(f, pattern, name)
  BY <1>2, Zenon DEF Matcher
<1>. QED
  BY <1>3, Zenon

\* So domain_filter's recursion over the labels ends with what Reaches says.
LEMMA MatchesFromRight ==
  ASSUME NEW pattern, NEW name, Len(pattern) \in Nat, Len(name) \in Nat
  PROVE  PatternMatches(pattern, name) <=>
           Reaches(1, Len(pattern), Len(name), Deep(pattern), Fitting(pattern, name))
<1>. DEFINE f == CHOOSE f : Matcher(f, pattern, name)
<1>1. Matcher(f, pattern, name)
  BY MatcherExists, Zenon
<1>2. PatternMatches(pattern, name) = f[1]
  BY Zenon DEF PatternMatches, Matcher
<1>3. Recurs(f, Len(pattern), Len(name), Deep(pattern), Fitting(pattern, name))
  BY <1>1, MatcherRecurs, Zenon
<1>. HIDE DEF f
<1>. QED
  BY <1>2, <1>3, ReachesOnly, Zenon

\* A set of positions has a last one, or is empty.
LEMMA LastDeep ==
  ASSUME NEW p \in Nat, NEW S, S \subseteq 1 .. p
  PROVE  \E i \in S \cup {0} : \A j \in S : j <= i
<1>. DEFINE T == {m \in 0 .. p : p - m \in S \cup {0}}
<1>1. T \subseteq Nat /\ p \in T
  OBVIOUS
<1>. HIDE DEF T
<1>2. Least(T)
  BY <1>1, LeastNumber, Zenon
<1>3. PICK m \in T : \A y \in T : m <= y
  BY <1>2, Zenon DEF Least
<1>4. m \in 0 .. p /\ p - m \in S \cup {0}
  BY <1>3, Zenon DEF T
<1>5. ASSUME NEW j \in S PROVE j <= p - m
  <2>1. j \in 1 .. p
    BY Zenon
  <2>2. p - j \in 0 .. p /\ p - (p - j) = j
    BY <2>1
  <2>3. p - j \in T
    BY <2>2, Zenon DEF T
  <2>4. m <= p - j
    BY <1>3, <2>3, Zenon
  <2>. QED
    BY <1>4, <2>1, <2>4
<1>. QED
  BY <1>4, <1>5, Zenon

\* What the property says of a pattern, read from the left, is the same.
LEMMA FitsFromRight ==
  ASSUME NEW pattern, NEW name, Len(pattern) \in Nat, DOMAIN pattern = 1 .. Len(pattern),
         Len(name) \in Nat
  PROVE  NameFits(pattern, name) <=>
           Reaches(1, Len(pattern), Len(name), Deep(pattern), Fitting(pattern, name))
<1>. DEFINE p == Len(pattern)
            n == Len(name)
            D == Deep(pattern)
            F == Fitting(pattern, name)
            fits(q, l) == q = "*" \/ Lower[q] = Lower[l]
            deep == {i \in DOMAIN pattern : pattern[i] = "**"}
            k == CHOOSE i \in deep \cup {0} : \A j \in deep : j <= i
            tail == p - k
            over == n - tail
            d == p + 1 - k
<1>1. NameFits(pattern, name) <=> /\ tail <= n
                                  /\ IF k = 0 THEN over = 0 ELSE over > 0
                                  /\ \A i \in 1 .. tail : fits(pattern[k + i], name[over + i])
  BY Zenon DEF NameFits
<1>2. deep \subseteq 1 .. p
  BY Zenon
<1>3. k \in deep \cup {0} /\ \A j \in deep : j <= k
  <2>1. \E i \in deep \cup {0} : \A j \in deep : j <= i
    BY <1>2, LastDeep, Zenon
  <2>. HIDE DEF deep
  <2>. QED
    BY <2>1, Zenon
<1>. HIDE DEF k
<1>4. /\ k \in 0 .. p /\ d \in 1 .. p + 1 /\ tail = d - 1 /\ tail \in Nat /\ over = n + 1 - d
      /\ k = 0 <=> d = p + 1
  BY <1>2, <1>3
<1>5. \A w \in D : w \in 1 .. p /\ d <= w
  <2>. SUFFICES ASSUME NEW w \in D PROVE w \in 1 .. p /\ d <= w
    BY Zenon
  <2>1. w \in 1 .. p /\ pattern[p + 1 - w] = "**"
    BY Zenon DEF Deep
  <2>2. p + 1 - w \in 1 .. p
    BY <2>1
  <2>3. p + 1 - w <= k
    BY <1>3, <2>1, <2>2, Zenon
  <2>. QED
    BY <1>4, <2>1, <2>3
<1>6. d # p + 1 => d \in D
  <2>. SUFFICES ASSUME d # p + 1 PROVE d \in D
    BY Zenon
  <2>1. k \in deep /\ k # 0
    BY <1>3, <1>4, Zenon
  <2>2. d \in 1 .. p /\ p + 1 - d = k
    BY <1>4
  <2>3. pattern[k] = "**"
    BY <2>1, Zenon
  <2>. HIDE DEF d
  <2>. QED
    BY <2>2, <2>3, Zenon DEF Deep
<1>7. ASSUME tail <= n
      PROVE  (\A i \in 1 .. tail : fits(pattern[k + i], name[over + i])) <=> \A h \in 1 .. d - 1 : h \in F
  <2>1. /\ \A i \in 1 .. tail : d - i \in 1 .. d - 1 /\ p + 1 - (d - i) = k + i /\ n + 1 - (d - i) = over + i
        /\ \A h \in 1 .. d - 1 : /\ d - h \in 1 .. tail /\ h \in 1 .. p
                                 /\ p + 1 - h = k + (d - h) /\ n + 1 - h = over + (d - h)
        /\ \A i \in 1 .. tail : d - i \in 1 .. p
    BY <1>4
  <2>. HIDE DEF d, tail, over
  <2>2. ASSUME \A h \in 1 .. d - 1 : h \in F, NEW i \in 1 .. tail
        PROVE  fits(pattern[k + i], name[over + i])
    <3>1. d - i \in F
      BY <2>1, <2>2, Zenon
    <3>. QED
      BY <2>1, <3>1, Zenon DEF Fitting
  <2>3. ASSUME \A i \in 1 .. tail : fits(pattern[k + i], name[over + i]), NEW h \in 1 .. d - 1
        PROVE  h \in F
    <3>1. fits(pattern[k + (d - h)], name[over + (d - h)])
      BY <2>1, <2>3, Zenon
    <3>2. fits(pattern[p + 1 - h], name[n + 1 - h]) /\ h \in 1 .. p
      BY <2>1, <3>1, Zenon
    <3>. QED
      BY <3>2, Zenon DEF Fitting
  <2>. QED
    BY <2>2, <2>3, Zenon
<1>. HIDE DEF d, tail, over, deep, fits, D, F, p, n
<1>8. p \in Nat /\ n \in Nat
  BY Zenon DEF p, n
<1>9. NameFits(pattern, name) <=> /\ d - 1 <= n
                                  /\ IF d = p + 1 THEN n = p ELSE d <= n
                                  /\ \A h \in 1 .. d - 1 : h \in F
  <2>1. tail <= n <=> d - 1 <= n
    BY <1>4, Zenon
  <2>2. (IF k = 0 THEN over = 0 ELSE over > 0) <=> (IF d = p + 1 THEN n = p ELSE d <= n)
    BY <1>4, <1>8
  <2>. QED
    BY <1>1, <1>7, <2>1, <2>2, Zenon
<1>10. ASSUME NameFits(pattern, name) PROVE Reaches(1, p, n, D, F)
  <2>1. \A h \in 1 .. d - 1 : h <= n
    BY <1>4, <1>8, <1>9, <1>10
  <2>2. IF d = p + 1 THEN n < d ELSE d <= n /\ d \in D
    BY <1>4, <1>6, <1>8, <1>9, <1>10
  <2>. QED
    BY <1>4, <1>9, <1>10, <2>1, <2>2, Zenon DEF Reaches
<1>11. ASSUME Reaches(1, p, n, D, F) PROVE NameFits(pattern, name)
  <2>1. PICK j \in 1 .. p + 1 : /\ \A h \in 1 .. j - 1 : h <= n /\ h \in F
                                /\ IF j = p + 1 THEN n < j ELSE j <= n /\ j \in D
    BY <1>11, Zenon DEF Reaches
  <2>2. d <= j
    BY <1>4, <1>5, <1>8, <2>1
  <2>3. \A h \in 1 .. d - 1 : h \in 1 .. j - 1
    BY <1>4, <1>8, <2>2
  <2>4. \A h \in 1 .. d - 1 : h <= n /\ h \in F
    BY <2>1, <2>3, Zenon
  <2>5. d - 1 <= n
    <3>1. CASE d = 1
      BY <1>8, <3>1
    <3>2. CASE d # 1
      <4>1. d - 1 \in 1 .. d - 1
        BY <1>4, <1>8, <3>2
      <4>. QED
        BY <2>4, <4>1, Zenon
    <3>. QED
      BY <3>1, <3>2, Zenon
  <2>6. CASE d = p + 1
    <3>1. j = p + 1
      BY <1>4, <1>8, <2>2, <2>6
    <3>2. n < p + 1
      BY <2>1, <3>1
    <3>3. n = p
      BY <1>8, <2>5, <2>6, <3>2
    <3>. QED
      BY <1>9, <2>4, <2>5, <2>6, <3>3, Zenon
  <2>7. CASE d # p + 1
    <3>1. d <= n
      <4>1. CASE j = p + 1
        <5>1. d \in 1 .. j - 1
          BY <1>4, <1>8, <2>7, <4>1
        <5>. QED
          BY <2>1, <5>1, Zenon
      <4>2. CASE j # p + 1
        <5>1. j <= n
          BY <2>1, <4>2, Zenon
        <5>. QED
          BY <1>4, <1>8, <2>2, <5>1
      <4>. QED
        BY <4>1, <4>2, Zenon
    <3>. QED
      BY <1>9, <2>4, <2>5, <2>7, <3>1, Zenon
  <2>. QED
    BY <2>6, <2>7, Zenon
<1>. QED
  BY <1>10, <1>11, Zenon DEF p, n, D, F

\* domain_filter's Pattern::matches, which goes from the right and stops at the first
\* "**", finds a match exactly when the name fits the pattern.
LEMMA PatternMeaning ==
  ASSUME NEW pattern \in Seq(DOMAIN Lower), NEW name \in Seq(DOMAIN Lower)
  PROVE  PatternMatches(pattern, name) <=> NameFits(pattern, name)
<1>1. Len(pattern) \in Nat /\ DOMAIN pattern = 1 .. Len(pattern) /\ Len(name) \in Nat
  OBVIOUS
<1>. QED
  BY <1>1, MatchesFromRight, FitsFromRight, Zenon

\* is_host_allowed, with its two filters for addresses and its two for names, admits
\* a destination exactly when a pattern admits it and none denies it.
LEMMA PolicyMeaning ==
  ASSUME NEW h \in Hosts
  PROVE  IsHostAllowed(h) <=> Admitted(Allow, h) /\ ~Admitted(Deny, h)
<1>1. ASSUME NEW P, P \subseteq Allow \cup Deny, ~IsIp(h)
      PROVE  DomainMatches(P, h.name) <=> Admitted(P, h)
  <2>1. h.name \in Seq(DOMAIN Lower)
    BY <1>1, EgressAssumption, Zenon DEF IsIp
  <2>2. \A p \in P : p \in Domains(P) <=> "name" \in DOMAIN p
    BY <1>1, EgressAssumption, Zenon DEF Domains, Networks
  <2>3. \A p \in P : "name" \in DOMAIN p => p.name \in Seq(DOMAIN Lower)
    BY <1>1, EgressAssumption, Zenon
  <2>4. \A p \in P : "name" \in DOMAIN p => (PatternMatches(p.name, h.name) <=> NameFits(p.name, h.name))
    BY <2>1, <2>3, PatternMeaning, Zenon
  <2>5. \A p \in Domains(P) : p \in P
    BY Zenon DEF Domains
  <2>. QED
    BY <1>1, <2>2, <2>4, <2>5, Zenon DEF DomainMatches, Admitted
<1>2. ASSUME NEW P, IsIp(h)
      PROVE  IpMatches(P, h.ip) <=> Admitted(P, h)
  BY <1>2, Zenon DEF IpMatches, Networks, Admitted
<1>3. Allow \subseteq Allow \cup Deny /\ Deny \subseteq Allow \cup Deny
  BY Zenon
<1>. QED
  BY <1>1, <1>2, <1>3, Zenon DEF IsHostAllowed

-----------------------------------------------------------------------------
(* The tunnel *)

\* A new connection is sound.
LEMMA NewSound == Sound(NoConn)
BY Zenon DEF Sound, Shaped, Fields, NoConn

\* A step on one connection leaves the others alone.
LEMMA Updated ==
  ASSUME Tunnel, NEW c \in Conns, NEW x, Sound(x), Set(c, x)
  PROVE  Tunnel'
BY Zenon DEF Tunnel, Set

\* What moves bytes or breaks a connection leaves its destination and its state alone.
Alike(x, y) ==
  Shaped(y) /\ y.pc = x.pc /\ y.host = x.host /\ y.dest = x.dest /\ y.addr = x.addr

\* The connection is then as sound as before.
LEMMA AlikeSound ==
  ASSUME NEW x, NEW y, Sound(x), Alike(x, y)
  PROVE  Sound(y)
BY Zenon DEF Sound, Alike

\* A direction, or what has broken, is set.
LEMMA OtherField ==
  ASSUME NEW x, Shaped(x), NEW f \in {"up", "down", "broken"}, NEW v
  PROVE  Alike(x, [x EXCEPT ![f] = v])
BY Zenon DEF Alike, Shaped, Fields

\* A proxy that stops had an admitted destination.
LEMMA StopSound ==
  ASSUME NEW x, Sound(x), NEW proxy \in Sides,
         IF proxy = "enclave" THEN x.pc = "open" ELSE x.host = "open"
  PROVE  Sound(Stop(x, proxy))
<1>1. CASE proxy = "enclave"
  <2>. DEFINE y == [x EXCEPT !.pc = "done"]
  <2>1. Shaped(y) /\ y.pc = "done" /\ y.host = x.host /\ y.dest = x.dest /\ y.addr = x.addr
    BY Zenon DEF Sound, Shaped, Fields
  <2>. HIDE DEF y
  <2>2. Sound(y)
    BY <1>1, <2>1, Zenon DEF Sound
  <2>. QED
    BY <1>1, <2>2, Zenon DEF Stop, y
<1>2. CASE proxy # "enclave"
  <2>. DEFINE y == [x EXCEPT !.host = "done"]
  <2>1. Shaped(y) /\ y.host = "done" /\ y.pc = x.pc /\ y.dest = x.dest /\ y.addr = x.addr
    BY Zenon DEF Sound, Shaped, Fields
  <2>. HIDE DEF y
  <2>2. Sound(y)
    BY <1>2, <2>1, Zenon DEF Sound
  <2>. QED
    BY <1>2, <2>2, Zenon DEF Stop, y
<1>. QED
  BY <1>1, <1>2, Zenon

\* A destination is asked for.
LEMMA AskTunnel ==
  ASSUME Tunnel, NEW c \in Conns, NEW h \in Hosts, Ask(c, h)
  PROVE  Tunnel'
<1>. DEFINE x == [NoConn EXCEPT !.pc = "check", !.dest = h]
<1>1. Sound(x)
  BY Zenon DEF Sound, Shaped, Fields, NoConn
<1>2. Set(c, x)
  BY Zenon DEF Ask
<1>. HIDE DEF x
<1>. QED
  BY <1>1, <1>2, Updated, Zenon

\* The policy is asked before the host is.
LEMMA CheckTunnel ==
  ASSUME Tunnel, NEW c \in Conns, Check(c)
  PROVE  Tunnel'
<1>. DEFINE x == cx[c]
            y == [x EXCEPT !.pc = "dial"]
<1>1. Sound(x) /\ x.pc = "check"
  BY Zenon DEF Tunnel, Check
<1>2. Shaped(y) /\ y.pc = "dial" /\ y.host = x.host /\ y.dest = x.dest /\ y.addr = x.addr
  BY <1>1, Zenon DEF Sound, Shaped, Fields
<1>3. (IsHostAllowed(x.dest) /\ Set(c, y)) \/ Set(c, NoConn)
  BY Zenon DEF Check
<1>. HIDE DEF x, y
<1>4. ASSUME IsHostAllowed(x.dest) PROVE Sound(y)
  BY <1>1, <1>2, <1>4, Zenon DEF Sound
<1>. QED
  BY <1>3, <1>4, NewSound, Updated, Zenon

\* The host's proxy is given what the policy has admitted, and connects to one of its
\* addresses.
LEMMA DialTunnel ==
  ASSUME Tunnel, NEW c \in Conns, Dial(c) \/ HostDial(c) \/ Answer(c)
  PROVE  Tunnel'
<1>. DEFINE x == cx[c]
<1>1. Sound(x)
  BY Zenon DEF Tunnel
<1>2. CASE Dial(c)
  <2>. DEFINE y == [x EXCEPT !.pc = "wait", !.host = "dial"]
  <2>1. x.pc = "dial" /\ (Set(c, y) \/ Set(c, NoConn))
    BY <1>2, Zenon DEF Dial
  <2>2. Shaped(y) /\ y.dest = x.dest /\ y.addr = x.addr /\ y.host = "dial" /\ y.pc = "wait"
    BY <1>1, Zenon DEF Sound, Shaped, Fields
  <2>. HIDE DEF x, y
  <2>3. Sound(y)
    BY <1>1, <2>1, <2>2, Zenon DEF Sound
  <2>. QED
    BY <2>1, <2>3, NewSound, Updated, Zenon
<1>3. CASE HostDial(c)
  <2>1. x.host = "dial"
    BY <1>3, Zenon DEF HostDial
  <2>2. ASSUME NEW a \in Addresses(x.dest), Set(c, [x EXCEPT !.host = "open", !.addr = a])
        PROVE  Tunnel'
    <3>. DEFINE y == [x EXCEPT !.host = "open", !.addr = a]
    <3>1. Shaped(y) /\ y.dest = x.dest /\ y.addr = a /\ y.host = "open" /\ y.pc = x.pc
      BY <1>1, Zenon DEF Sound, Shaped, Fields
    <3>2. Set(c, y)
      BY <2>2, Zenon
    <3>. HIDE DEF x, y
    <3>3. Sound(y)
      BY <1>1, <2>1, <3>1, Zenon DEF Sound
    <3>. QED
      BY <3>2, <3>3, Updated, Zenon
  <2>3. ASSUME Set(c, [x EXCEPT !.host = "refused"])
        PROVE  Tunnel'
    <3>. DEFINE y == [x EXCEPT !.host = "refused"]
    <3>1. Shaped(y) /\ y.dest = x.dest /\ y.addr = x.addr /\ y.host = "refused" /\ y.pc = x.pc
      BY <1>1, Zenon DEF Sound, Shaped, Fields
    <3>2. Set(c, y)
      BY <2>3, Zenon
    <3>. HIDE DEF x, y
    <3>3. Sound(y)
      BY <1>1, <2>1, <3>1, Zenon DEF Sound
    <3>. QED
      BY <3>2, <3>3, Updated, Zenon
  <2>. QED
    BY <1>3, <2>2, <2>3, Zenon DEF HostDial
<1>4. CASE Answer(c)
  <2>. DEFINE y == [x EXCEPT !.pc = "open"]
  <2>1. x.pc = "wait" /\ (Set(c, y) \/ Set(c, NoConn))
    BY <1>4, Zenon DEF Answer
  <2>2. Shaped(y) /\ y.dest = x.dest /\ y.addr = x.addr /\ y.host = x.host /\ y.pc = "open"
    BY <1>1, Zenon DEF Sound, Shaped, Fields
  <2>. HIDE DEF x, y
  <2>3. Sound(y)
    BY <1>1, <2>1, <2>2, Zenon DEF Sound
  <2>. QED
    BY <2>1, <2>3, NewSound, Updated, Zenon
<1>. QED
  BY <1>2, <1>3, <1>4, Zenon

\* A party puts a chunk, or the end of the stream, through.
More(x, d, k) == [x EXCEPT ![d].n[k] = @ + 1]
Closed(x, d, k) == [x EXCEPT ![d].fin = @ \cup {k}]

\* Either leaves the rest of the connection alone.
LEMMA MovesAlike ==
  ASSUME NEW x, Shaped(x), NEW d \in {"up", "down"}, NEW k
  PROVE  Alike(x, More(x, d, k)) /\ Alike(x, Closed(x, d, k))
<1>1. More(x, d, k) = [x EXCEPT ![d] = [x[d] EXCEPT !.n[k] = @ + 1]]
  BY Zenon DEF More
<1>2. Closed(x, d, k) = [x EXCEPT ![d] = [x[d] EXCEPT !.fin = @ \cup {k}]]
  BY Zenon DEF Closed
<1>3. \A v : Alike(x, [x EXCEPT ![d] = v])
  BY OtherField, Zenon
<1>. QED
  BY <1>1, <1>2, <1>3, Zenon

\* The ends send, close and receive.
LEMMA EndsTunnel ==
  ASSUME Tunnel, NEW c \in Conns, NEW d \in {"up", "down"},
         Send(c, d) \/ Shutdown(c, d) \/ Receive(c, d)
  PROVE  Tunnel'
<1>. DEFINE x == cx[c]
<1>1. Sound(x) /\ Shaped(x)
  BY Zenon DEF Tunnel, Sound
<1>2. \/ Set(c, More(x, d, 1)) \/ Set(c, Closed(x, d, 1))
      \/ Set(c, More(x, d, 4)) \/ Set(c, Closed(x, d, 4))
  BY Zenon DEF Send, Shutdown, Receive, More, Closed
<1>. HIDE DEF x
<1>3. \A k : Sound(More(x, d, k)) /\ Sound(Closed(x, d, k))
  BY <1>1, MovesAlike, AlikeSound, Zenon
<1>. QED
  BY <1>2, <1>3, Updated, Zenon

\* A proxy passes on a chunk or the end of a direction.
LEMMA CopyTunnel ==
  ASSUME Tunnel, NEW c \in Conns, NEW proxy \in Sides, NEW d \in {"up", "down"}, Copy(c, proxy, d)
  PROVE  Tunnel'
<1>. DEFINE x == cx[c]
            k == Stage(proxy, d)
            y == IF Pending(c, k, d) THEN More(x, d, k) ELSE Closed(x, d, k)
<1>1. Sound(x) /\ Shaped(x)
  BY Zenon DEF Tunnel, Sound
<1>2. /\ IF proxy = "enclave" THEN x.pc = "open" ELSE x.host = "open"
      /\ Set(c, y) \/ Set(c, Stop(y, proxy))
  BY Zenon DEF Copy, Running, More, Closed
<1>. HIDE DEF x, k
<1>3. Alike(x, y)
  BY <1>1, MovesAlike, Zenon
<1>. HIDE DEF y
<1>4. Sound(y) /\ Sound(Stop(y, proxy))
  BY <1>1, <1>2, <1>3, AlikeSound, StopSound, Zenon DEF Alike
<1>. QED
  BY <1>2, <1>4, Updated, Zenon

\* A proxy gives up.
LEMMA CloseBothTunnel ==
  ASSUME Tunnel, NEW c \in Conns, NEW proxy \in Sides, Running(c, proxy), CloseBoth(c, proxy)
  PROVE  Tunnel'
<1>. DEFINE x == cx[c]
            closed(d) == [x[d] EXCEPT !.fin = @ \cup {Stage(proxy, d)}]
            y == [x EXCEPT !.up = closed("up"), !.down = closed("down")]
<1>1. Sound(x) /\ Shaped(x) /\ (IF proxy = "enclave" THEN x.pc = "open" ELSE x.host = "open")
  BY Zenon DEF Tunnel, Sound, Running
<1>2. Set(c, Stop(y, proxy))
  BY Zenon DEF CloseBoth
<1>. HIDE DEF x
<1>3. Alike(x, y)
  <2>. HIDE DEF closed
  <2>. QED
    BY <1>1, Zenon DEF Alike, Shaped, Fields
<1>. HIDE DEF y
<1>4. Sound(Stop(y, proxy))
  BY <1>1, <1>3, AlikeSound, StopSound, Zenon DEF Alike
<1>. QED
  BY <1>2, <1>4, Updated, Zenon

\* The proxies
LEMMA ProxiesTunnel ==
  ASSUME Tunnel, NEW c \in Conns, Proxies(c)
  PROVE  Tunnel'
BY CheckTunnel, DialTunnel, CopyTunnel, CloseBothTunnel, Zenon DEF Proxies, CopyFails

\* A connection breaks.
LEMMA BreakTunnel ==
  ASSUME Tunnel, NEW c \in Conns, Break(c) \/ \E proxy \in Sides : PeerResets(c, proxy)
  PROVE  Tunnel'
<1>1. CASE Break(c)
  <2>1. PICK l : Set(c, [cx[c] EXCEPT !.broken = @ \cup {l}])
    BY <1>1, Zenon DEF Break
  <2>. DEFINE v == cx[c].broken \cup {l}
              y == [cx[c] EXCEPT !.broken = v]
  <2>2. Set(c, y) /\ Sound(cx[c]) /\ Shaped(cx[c])
    BY <2>1, Zenon DEF Tunnel, Sound
  <2>3. Sound(y)
    <3>. HIDE DEF v
    <3>. QED
      BY <2>2, OtherField, AlikeSound, Zenon
  <2>. HIDE DEF y
  <2>. QED
    BY <2>2, <2>3, Updated, Zenon
<1>2. CASE \E proxy \in Sides : PeerResets(c, proxy)
  BY <1>2, CloseBothTunnel, Zenon DEF PeerResets
<1>. QED
  BY <1>1, <1>2, Zenon

-----------------------------------------------------------------------------
(* The requests and the bucket *)

\* Steps of a tunnel that carries on with what it was asked
LEMMA TunnelOnly ==
  ASSUME Inv, Tunnel', UNCHANGED <<user, s3>>
  PROVE  Inv'
BY Zenon DEF Inv, Stored, s3

\* A request moves on with an object that fits.
LEMMA Gone ==
  ASSUME Stored, NEW r \in Requests, NEW q, Go(r, q),
         q = [op |-> q.op, obj |-> q.obj, pc |-> q.pc], Fits(q.obj)
  PROVE  /\ req' = [e \in Requests |-> req'[e]]
         /\ \A e \in Requests : req'[e] = [op |-> req'[e].op, obj |-> req'[e].obj, pc |-> req'[e].pc]
         /\ \A e \in Requests : Fits(req'[e].obj)
<1>1. req' = [e \in Requests |-> IF e = r THEN q ELSE req[e]]
  BY Zenon DEF Stored, Go
<1>. QED
  BY <1>1, Zenon DEF Stored

\* Steps of a request
LEMMA RequestOnly ==
  ASSUME Inv, NEW r \in Requests, NEW q, Go(r, q),
         q = [op |-> q.op, obj |-> q.obj, pc |-> q.pc], Fits(q.obj),
         UNCHANGED <<cx, config, owner, wire, store>>
  PROVE  Inv'
<1>1. Tunnel'
  BY Zenon DEF Inv, Tunnel
<1>2. Stored'
  BY Gone, Zenon DEF Inv, Stored
<1>. QED
  BY <1>1, <1>2, Zenon DEF Inv

\* Two fields of a request are set.
OpPc(q, v, w) == [q EXCEPT !.op = v, !.pc = w]
ObjPc(q, v, w) == [q EXCEPT !.obj = v, !.pc = w]

\* What such a request is then
LEMMA TwoFields ==
  ASSUME NEW q, q = [op |-> q.op, obj |-> q.obj, pc |-> q.pc], NEW v, NEW w
  PROVE  /\ OpPc(q, v, w) = [op |-> v, obj |-> q.obj, pc |-> w]
         /\ ObjPc(q, v, w) = [op |-> q.op, obj |-> v, pc |-> w]
<1>. DEFINE q1 == [q EXCEPT !.op = v]
            q2 == [q EXCEPT !.obj = v]
<1>1. q1 = [op |-> v, obj |-> q.obj, pc |-> q.pc] /\ q2 = [op |-> q.op, obj |-> v, pc |-> q.pc]
  OBVIOUS
<1>2. OpPc(q, v, w) = [q1 EXCEPT !.pc = w] /\ ObjPc(q, v, w) = [q2 EXCEPT !.pc = w]
  BY Zenon DEF OpPc, ObjPc
<1>. HIDE DEF q1, q2
<1>3. [q1 EXCEPT !.pc = w] = [op |-> v, obj |-> q.obj, pc |-> w]
  BY <1>1
<1>4. [q2 EXCEPT !.pc = w] = [op |-> q.op, obj |-> v, pc |-> w]
  BY <1>1
<1>. QED
  BY <1>2, <1>3, <1>4, Zenon

\* Only the point that a request has come to is set.
LEMMA OnlyPc ==
  ASSUME Stored, NEW r \in Requests, NEW w
  PROVE  LET q == [req[r] EXCEPT !.pc = w]
         IN  q = [op |-> q.op, obj |-> q.obj, pc |-> q.pc] /\ Fits(q.obj)
<1>. DEFINE p == req[r]
            q == [p EXCEPT !.pc = w]
<1>1. p = [op |-> p.op, obj |-> p.obj, pc |-> p.pc] /\ Fits(p.obj)
  BY Zenon DEF Stored
<1>. HIDE DEF p
<1>2. q = [op |-> p.op, obj |-> p.obj, pc |-> w]
  BY <1>1
<1>. HIDE DEF q
<1>3. q = [op |-> q.op, obj |-> q.obj, pc |-> q.pc] /\ Fits(q.obj)
  BY <1>1, <1>2, Zenon
<1>. QED
  BY <1>3, Zenon DEF p, q

\* No request
LEMMA Idle ==
  /\ NoRequest = [op |-> NoRequest.op, obj |-> NoRequest.obj, pc |-> NoRequest.pc]
  /\ Fits(NoRequest.obj) /\ Fits(NoWire.obj)
BY Zenon DEF NoRequest, NoWire, Fits

\* The handlers begin with an object that has no metadata.
LEMMA BeginStep ==
  ASSUME Inv, NEW r \in Requests,
         HandlePut(r) \/ HandleGet(r) \/ HandleDelete(r) \/ HandleList(r)
  PROVE  Inv'
<1>1. CASE HandlePut(r)
  <2>1. PICK v \in Values :
          Begin(r, [op |-> "put", obj |-> Plaintext(v), pc |-> IF config.kms THEN "encrypt" ELSE "call"])
    BY <1>1, Zenon DEF HandlePut
  <2>. DEFINE q == [op |-> "put", obj |-> Plaintext(v), pc |-> IF config.kms THEN "encrypt" ELSE "call"]
  <2>2. Fits(q.obj)
    BY Zenon DEF Fits, Plaintext
  <2>3. q = [op |-> q.op, obj |-> q.obj, pc |-> q.pc]
    BY Zenon
  <2>. HIDE DEF q
  <2>4. Begin(r, q)
    BY <2>1, Zenon DEF q
  <2>. QED
    BY <2>2, <2>3, <2>4, RequestOnly, Zenon DEF Begin
<1>2. ASSUME NEW op \in {"get", "delete", "list"}, Begin(r, [NoRequest EXCEPT !.op = op, !.pc = "call"])
      PROVE  Inv'
  <2>. DEFINE q == [NoRequest EXCEPT !.op = op, !.pc = "call"]
  <2>1. q = [op |-> op, obj |-> None, pc |-> "call"]
    <3>1. NoRequest = [op |-> NoRequest.op, obj |-> NoRequest.obj, pc |-> NoRequest.pc] /\ NoRequest.obj = None
      BY Zenon DEF NoRequest
    <3>2. q = OpPc(NoRequest, op, "call")
      BY Zenon DEF OpPc
    <3>. HIDE DEF q
    <3>. QED
      BY <3>1, <3>2, TwoFields, Zenon
  <2>2. q = [op |-> q.op, obj |-> q.obj, pc |-> q.pc] /\ Fits(q.obj)
    BY <2>1, Zenon DEF Fits
  <2>. HIDE DEF q
  <2>3. Begin(r, q)
    BY <1>2, Zenon DEF q
  <2>. QED
    BY <2>2, <2>3, RequestOnly, Zenon DEF Begin
<1>. QED
  BY <1>1, <1>2, Zenon DEF HandleGet, HandleDelete, HandleList

\* The metadata are made with the bytes, and in the object's settings.
LEMMA EncryptStep ==
  ASSUME Inv, NEW r \in Requests, Encrypt(r)
  PROVE  Inv'
<1>. DEFINE q == [req[r] EXCEPT !.obj = Encrypted(@.value), !.pc = "call"]
<1>0. req[r] = [op |-> req[r].op, obj |-> req[r].obj, pc |-> req[r].pc]
  BY Zenon DEF Inv, Stored
<1>1. q = [op |-> req[r].op, obj |-> Encrypted(req[r].obj.value), pc |-> "call"]
  <2>. DEFINE v == Encrypted(req[r].obj.value)
  <2>1. q = ObjPc(req[r], v, "call")
    BY Zenon DEF ObjPc
  <2>. HIDE DEF q, v
  <2>2. q = [op |-> req[r].op, obj |-> v, pc |-> "call"]
    BY <1>0, <2>1, TwoFields
  <2>. QED
    BY <2>2, Zenon DEF v
<1>2. q = [op |-> q.op, obj |-> q.obj, pc |-> q.pc] /\ Fits(q.obj)
  BY <1>1, Zenon DEF Fits, Encrypted
<1>3. Go(r, q) \/ Go(r, NoRequest)
  BY Zenon DEF Encrypt
<1>4. UNCHANGED <<cx, config, owner, wire, store>>
  BY Zenon DEF Encrypt
<1>. HIDE DEF q
<1>. QED
  BY <1>2, <1>3, <1>4, Idle, RequestOnly, Zenon

\* The request is over once its object is decrypted.
LEMMA DecryptStep ==
  ASSUME Inv, NEW r \in Requests, Decrypt(r)
  PROVE  Inv'
<1>1. Go(r, NoRequest) /\ UNCHANGED <<cx, config, owner, wire, store>>
  BY Zenon DEF Decrypt
<1>. QED
  BY <1>1, Idle, RequestOnly, Zenon

\* A request goes over a connection, new or kept.
LEMMA CallStep ==
  ASSUME Inv, NEW r \in Requests, NEW c \in Conns, Call(r, c)
  PROVE  Inv'
<1>. DEFINE q == [req[r] EXCEPT !.pc = "sent"]
            w == [op |-> req[r].op, obj |-> req[r].obj]
<1>1. Tunnel'
  BY AskTunnel, EndsTunnel, S3Assumption, Zenon DEF Call, Inv
<1>2. store' = store /\ config' = config
  BY Zenon DEF Call
<1>3. owner' \in [Conns -> Requests \cup {None}]
  BY Zenon DEF Call, Inv, Stored
<1>4. wire' = [e \in Conns |-> IF e = c THEN w ELSE wire[e]]
  BY Zenon DEF Call, Inv, Stored
<1>5. q = [op |-> q.op, obj |-> q.obj, pc |-> q.pc] /\ Fits(q.obj) /\ Fits(w.obj)
  BY OnlyPc, Zenon DEF Inv, Stored
<1>6. Go(r, q)
  BY Zenon DEF Call
<1>. HIDE DEF q, w
<1>7. Stored'
  BY <1>2, <1>3, <1>4, <1>5, <1>6, Gone, Zenon DEF Inv, Stored
<1>. QED
  BY <1>1, <1>7, Zenon DEF Inv

\* The bucket stores, and answers with, what fits.
LEMMA ServeStep ==
  ASSUME Inv, NEW c \in Conns, Serve(c)
  PROVE  Inv'
<1>1. Tunnel'
  <2>1. CASE Send(c, "down")
    BY <2>1, EndsTunnel, Zenon DEF Inv
  <2>2. CASE UNCHANGED cx
    BY <2>2, Zenon DEF Inv, Tunnel
  <2>. QED
    BY <2>1, <2>2, Zenon DEF Serve
<1>2. Fits(None)
  BY Zenon DEF Fits
<1>3. Fits(store')
  BY <1>2, Zenon DEF Serve, Inv, Stored
<1>4. PICK w : Fits(w.obj) /\ wire' = [wire EXCEPT ![c] = w]
  BY <1>2, Zenon DEF Serve, Inv, Stored
<1>5. wire' = [e \in Conns |-> IF e = c THEN w ELSE wire[e]]
  BY <1>4, Zenon DEF Inv, Stored
<1>6. config' = config /\ req' = req /\ owner' = owner
  BY Zenon DEF Serve
<1>7. Stored'
  BY <1>3, <1>4, <1>5, <1>6, Zenon DEF Inv, Stored
<1>. QED
  BY <1>1, <1>7, Zenon DEF Inv

\* A request is done with its connection.
LEMMA SettledStep ==
  ASSUME Inv, NEW c \in Conns, owner[c] # None, NEW q, Settle(c, q),
         q = [op |-> q.op, obj |-> q.obj, pc |-> q.pc], Fits(q.obj)
  PROVE  Inv'
<1>1. Tunnel'
  BY Zenon DEF Inv, Tunnel, Settle
<1>2. owner[c] \in Requests /\ Go(owner[c], q)
  BY Zenon DEF Inv, Stored, Settle
<1>3. owner' \in [Conns -> Requests \cup {None}] /\ config' = config /\ store' = store
  BY Zenon DEF Inv, Stored, Settle
<1>4. wire' = [e \in Conns |-> IF e = c /\ wire[c].op \in {"ok", "error"} THEN NoWire ELSE wire[e]]
  BY Zenon DEF Inv, Stored, Settle
<1>5. Stored'
  BY <1>2, <1>3, <1>4, Idle, Gone, Zenon DEF Inv, Stored
<1>. QED
  BY <1>1, <1>5, Zenon DEF Inv

\* It may be tried again as it is.
LEMMA FailedStep ==
  ASSUME Inv, NEW c \in Conns, owner[c] # None, Failed(c)
  PROVE  Inv'
<1>. DEFINE q == [req[owner[c]] EXCEPT !.pc = "call"]
<1>1. owner[c] \in Requests
  BY Zenon DEF Inv, Stored
<1>2. q = [op |-> q.op, obj |-> q.obj, pc |-> q.pc] /\ Fits(q.obj)
  BY <1>1, OnlyPc, Zenon DEF Inv
<1>3. Settle(c, NoRequest) \/ Settle(c, q)
  BY Zenon DEF Failed
<1>. HIDE DEF q
<1>. QED
  BY <1>2, <1>3, Idle, SettledStep, Zenon

\* With or without an answer
LEMMA SettleStep ==
  ASSUME Inv, NEW c \in Conns, Answered(c) \/ CallFails(c)
  PROVE  Inv'
<1>. DEFINE r == owner[c]
            q == [req[r] EXCEPT !.obj = wire[c].obj, !.pc = "decrypt"]
<1>1. owner[c] # None /\ r \in Requests
  BY Zenon DEF Inv, Stored, Answered, CallFails
<1>2. Failed(c) \/ Settle(c, NoRequest) \/ Settle(c, q)
  BY Zenon DEF Answered, CallFails
<1>3. q = [op |-> req[r].op, obj |-> wire[c].obj, pc |-> "decrypt"]
  <2>1. req[r] = [op |-> req[r].op, obj |-> req[r].obj, pc |-> req[r].pc]
    BY <1>1, Zenon DEF Inv, Stored
  <2>2. q = ObjPc(req[r], wire[c].obj, "decrypt")
    BY Zenon DEF ObjPc
  <2>. HIDE DEF q, r
  <2>. QED
    BY <2>1, <2>2, TwoFields
<1>. HIDE DEF q, r
<1>4. q = [op |-> q.op, obj |-> q.obj, pc |-> q.pc] /\ Fits(q.obj)
  BY <1>3, Zenon DEF Inv, Stored
<1>. QED
  BY <1>1, <1>2, <1>4, Idle, FailedStep, SettledStep, Zenon

\* What was asked over a connection goes with it.
LEMMA RelayStep ==
  ASSUME Inv, NEW c \in Conns, Relay(c) \/ LetGo(c)
  PROVE  Inv'
<1>1. Tunnel'
  BY ProxiesTunnel, NewSound, Updated, Zenon DEF Inv, Relay, LetGo, Release
<1>2. UNCHANGED <<config, req, owner, store>>
  BY Zenon DEF Relay, LetGo
<1>3. PICK w : (w = NoWire \/ w = wire[c]) /\ wire' = [wire EXCEPT ![c] = w]
  BY Zenon DEF Relay, LetGo
<1>4. wire' = [e \in Conns |-> IF e = c THEN w ELSE wire[e]]
  BY <1>3, Zenon DEF Inv, Stored
<1>5. Stored'
  BY <1>2, <1>3, <1>4, Idle, Zenon DEF Inv, Stored
<1>. QED
  BY <1>1, <1>5, Zenon DEF Inv

\* The ends of a connection, whoever uses it
LEMMA EndsStep ==
  ASSUME Inv, NEW c \in Conns, SendRequest(c) \/ Program(c) \/ Close(c) \/ Ends(c)
  PROVE  Inv'
<1>1. Tunnel'
  BY AskTunnel, EndsTunnel, Zenon DEF Inv, SendRequest, Program, Close, Ends
<1>2. UNCHANGED <<user, s3>>
  BY Zenon DEF SendRequest, Program, Close, Ends
<1>. QED
  BY <1>1, <1>2, TunnelOnly, Zenon

-----------------------------------------------------------------------------
(* The theorems *)

\* Both hold at the start.
LEMMA InitInv == Init => Inv
<1>. SUFFICES ASSUME Init PROVE Inv
  BY Zenon
<1>1. Tunnel
  BY NewSound, Zenon DEF Init, EgressInit, Tunnel
<1>2. Fits(None)
  BY Zenon DEF Fits
<1>3. Stored
  BY <1>2, Idle, Zenon DEF Init, Stored
<1>. QED
  BY <1>1, <1>3, Zenon DEF Inv

\* A restart forgets the requests and the connections, but not the object.
LEMMA RestartStep ==
  ASSUME Inv, Restart
  PROVE  Inv'
<1>1. Tunnel'
  BY NewSound, Zenon DEF Restart, Tunnel
<1>2. Stored'
  BY Idle, Zenon DEF Inv, Restart, Stored
<1>. QED
  BY <1>1, <1>2, Zenon DEF Inv

\* Every step preserves them.
LEMMA NextInv == Inv /\ [Next]_vars => Inv'
<1>. SUFFICES ASSUME Inv, [Next]_vars PROVE Inv'
  BY Zenon
<1>1. CASE LoadConfig
  BY <1>1, Zenon DEF LoadConfig, Inv, Tunnel, Stored
<1>2. CASE Restart
  BY <1>2, RestartStep, Zenon
<1>3. ASSUME NEW r \in Requests,
             HandlePut(r) \/ HandleGet(r) \/ HandleDelete(r) \/ HandleList(r)
               \/ Encrypt(r) \/ Decrypt(r) \/ \E c \in Conns : Call(r, c)
      PROVE  Inv'
  BY <1>3, BeginStep, EncryptStep, DecryptStep, CallStep, Zenon
<1>4. ASSUME NEW c \in Conns,
             SendRequest(c) \/ Serve(c) \/ Answered(c) \/ CallFails(c)
               \/ Program(c) \/ Close(c) \/ Ends(c) \/ Relay(c) \/ LetGo(c)
      PROVE  Inv'
  BY <1>4, ServeStep, SettleStep, EndsStep, RelayStep, Zenon
<1>5. ASSUME NEW c \in Conns,
             (BreakBound(c) /\ Break(c)) \/ \E proxy \in Sides : PeerResets(c, proxy),
             UNCHANGED <<user, s3>>
      PROVE  Inv'
  <2>1. Tunnel'
    BY <1>5, BreakTunnel, Zenon DEF Inv
  <2>. QED
    BY <1>5, <2>1, TunnelOnly, Zenon
<1>6. CASE UNCHANGED vars
  BY <1>6, Zenon DEF vars, s3, Inv, Tunnel, Stored
<1>. QED
  BY <1>1, <1>2, <1>3, <1>4, <1>5, <1>6, Zenon DEF Next

\* Both together, in every state
LEMMA Always == Spec => []Inv
BY InitInv, NextInv, PTL DEF Spec

\* handle_connect and handle_request in the enclave are the only way to the host's
\* proxy: it is asked for nothing that no pattern admits or that one denies, and an
\* address that the networks do not admit, or deny, it connects to only under a name,
\* whatever the policy, the destinations asked for and the addresses of the names.
THEOREM OnlyAllowedIsDialled == Spec => []AllowedOnly
<1>1. ASSUME Inv, NEW c \in Conns, cx[c].host # "none"
      PROVE  /\ Admitted(Allow, cx[c].dest) /\ ~Admitted(Deny, cx[c].dest)
             /\ cx[c].addr # None => cx[c].addr \in Addresses(cx[c].dest)
  <2>1. Sound(cx[c])
    BY <1>1, Zenon DEF Inv, Tunnel
  <2>2. cx[c].dest \in Hosts /\ IsHostAllowed(cx[c].dest)
    BY <1>1, <2>1, Zenon DEF Sound
  <2>. QED
    BY <2>1, <2>2, PolicyMeaning, Zenon DEF Sound
<1>2. ASSUME NEW h, IsIp(h), NEW a \in Addresses(h), NEW patterns
      PROVE  Admitted(patterns, [ip |-> a]) <=> Admitted(patterns, h)
  <2>1. a = h.ip
    BY <1>2, Zenon DEF Addresses
  <2>2. IsIp([ip |-> a]) /\ [ip |-> a].ip = a
    BY Zenon DEF IsIp
  <2>. QED
    BY <1>2, <2>1, <2>2, Zenon DEF Admitted
<1>3. ASSUME Inv, NEW c \in Conns, cx[c].addr # None, IsIp(cx[c].dest)
      PROVE  Admitted(Allow, [ip |-> cx[c].addr]) /\ ~Admitted(Deny, [ip |-> cx[c].addr])
  <2>1. cx[c].host # "none"
    BY <1>3, Zenon DEF Inv, Tunnel, Sound
  <2>. QED
    BY <1>1, <1>2, <1>3, <2>1, Zenon
<1>4. Inv => AllowedOnly
  BY <1>1, <1>3, Zenon DEF AllowedOnly
<1>. QED
  BY <1>4, Always, PTL

\* Whatever the settings an object was stored under and those it is read under,
\* decrypt_if_needed returns what was put, or refuses where the mode says so.
THEOREM ObjectsStayReadable == Spec => []StoredStaysReadable
<1>1. ASSUME Inv PROVE StoredStaysReadable
  <2>1. SUFFICES ASSUME store # None
                 PROVE  LET refused == IF config.kms THEN store.scheme = None /\ ~config.accept_plaintext
                                       ELSE store.scheme # None
                        IN  DecryptIfNeeded(store) = IF refused THEN "error" ELSE store.value
    BY Zenon DEF StoredStaysReadable
  <2>2. /\ Fits(store)
        /\ config.kms \in BOOLEAN /\ config.accept_plaintext \in BOOLEAN
        /\ None # "kms-v1"
    BY <1>1, <2>1, S3Assumption, Zenon DEF Inv, Stored
  <2>3. CASE store.scheme = None /\ store.key = None
    BY <2>2, <2>3, Zenon DEF DecryptIfNeeded
  <2>4. CASE /\ store.scheme = "kms-v1" /\ store.key = store.version
             /\ store.bound = Bound(store.version, store.aad)
    BY <2>2, <2>4, Zenon DEF DecryptIfNeeded, Version
  <2>. QED
    BY <2>1, <2>2, <2>3, <2>4, Zenon DEF Fits
<1>. QED
  BY <1>1, Always, PTL
=============================================================================
