------------------------ MODULE HelperRequests_proofs ------------------------
(***************************************************************************)
(* Proofs about GrantValidation and HelperRequests for any tree, any       *)
(* finite set of connections, any accounts and any limits: that no slot,   *)
(* claim or count of an abandoned reader leaks, how far the cap on         *)
(* abandoned readers holds, and that what a served request may reach is    *)
(* its user's.  They begin with lemmas about paths: which lie in which,    *)
(* what the tree says of them, and that working out dots and symlinks ends *)
(* in a path.                                                              *)
(***************************************************************************)
EXTENDS HelperRequests, FiniteSetTheorems, WellFoundedInduction, TLAPS

-------------------------------------------------------------------------------
(* One path in another.                                                     *)

LEMMA WithinByNames ==
  ASSUME NEW S, NEW T, NEW p \in Seq(S), NEW q \in Seq(T)
  PROVE  Within(p, q) <=> Len(q) <= Len(p) /\ \A i \in 1..Len(q) : p[i] = q[i]
  <1>1. Within(p, q) <=> Len(q) <= Len(p) /\ SubSeq(q, 1, Len(q)) = SubSeq(p, 1, Len(q))
    BY DEF Within, IsPrefix
  <1>2. Len(p) \in Nat /\ Len(q) \in Nat
    OBVIOUS
  <1>3. ASSUME Len(q) <= Len(p)
        PROVE  SubSeq(q, 1, Len(q)) = SubSeq(p, 1, Len(q)) <=> \A i \in 1..Len(q) : p[i] = q[i]
    <2>1. /\ SubSeq(q, 1, Len(q)) = [i \in 1..Len(q) |-> q[i]]
          /\ SubSeq(p, 1, Len(q)) = [i \in 1..Len(q) |-> p[i]]
      BY <1>2, <1>3
    <2> QED
      BY <2>1
  <1> QED
    BY <1>1, <1>3

LEMMA WithinTransitive ==
  ASSUME NEW p \in Seq(STRING), NEW q \in Seq(STRING), NEW r \in Seq(STRING),
         Within(p, q), Within(q, r)
  PROVE  Within(p, r)
  <1>1. Len(p) \in Nat /\ Len(q) \in Nat /\ Len(r) \in Nat
    OBVIOUS
  <1>2. /\ Len(q) <= Len(p) /\ \A i \in 1..Len(q) : p[i] = q[i]
        /\ Len(r) <= Len(q) /\ \A i \in 1..Len(r) : q[i] = r[i]
    BY WithinByNames
  <1>3. Len(r) <= Len(p) /\ \A i \in 1..Len(r) : p[i] = r[i]
    BY <1>1, <1>2
  <1> QED
    BY <1>3, WithinByNames

LEMMA Comparable ==
  ASSUME NEW p \in Seq(STRING), NEW q \in Seq(STRING), NEW r \in Seq(STRING),
         Within(p, q), Within(p, r)
  PROVE  Within(q, r) \/ Within(r, q)
  <1>1. Len(p) \in Nat /\ Len(q) \in Nat /\ Len(r) \in Nat
    OBVIOUS
  <1>2. /\ Len(q) <= Len(p) /\ \A i \in 1..Len(q) : p[i] = q[i]
        /\ Len(r) <= Len(p) /\ \A i \in 1..Len(r) : p[i] = r[i]
    BY WithinByNames
  <1>3. CASE Len(q) <= Len(r)
    <2>1. \A i \in 1..Len(q) : r[i] = q[i]
      BY <1>1, <1>2, <1>3
    <2> QED
      BY <1>3, <2>1, WithinByNames
  <1>4. CASE Len(r) <= Len(q)
    <2>1. \A i \in 1..Len(r) : q[i] = r[i]
      BY <1>1, <1>2, <1>4
    <2> QED
      BY <1>4, <2>1, WithinByNames
  <1> QED
    BY <1>1, <1>3, <1>4

\* A state directory never leaves the home it is relative to.
LEMMA WithinAppended ==
  ASSUME NEW p \in Seq(STRING), NEW q \in Seq(STRING)
  PROVE  Within(p \o q, p) /\ p \o q \in Seq(STRING)
  <1>1. p \o q \in Seq(STRING)
    OBVIOUS
  <1>2. Len(p) \in Nat /\ Len(q) \in Nat /\ Len(p \o q) = Len(p) + Len(q)
    OBVIOUS
  <1>3. \A i \in 1..Len(p) : (p \o q)[i] = p[i]
    BY <1>2
  <1>4. Len(p) <= Len(p \o q)
    BY <1>2
  <1>5. \A s \in Seq(STRING) :
          Within(s, p) <=> Len(p) <= Len(s) /\ \A i \in 1..Len(p) : s[i] = p[i]
    BY WithinByNames
  <1> QED
    BY <1>1, <1>3, <1>4, <1>5

LEMMA WithinSelf ==
  ASSUME NEW S, NEW p \in Seq(S)
  PROVE  Within(p, p) /\ Within(p, Root)
  <1>1. Root \in Seq({}) /\ Len(Root) = 0
    BY DEF Root
  <1>2. Len(p) \in Nat /\ 1..0 = {}
    OBVIOUS
  <1>3. Within(p, p)
    BY <1>2, WithinByNames
  <1>4. Len(Root) <= Len(p) /\ \A i \in 1..Len(Root) : p[i] = Root[i]
    BY <1>1, <1>2
  <1>5. Within(p, Root)
    BY <1>1, <1>4, WithinByNames
  <1> QED
    BY <1>3, <1>5

LEMMA WithinIsPrefix ==
  ASSUME NEW S, NEW T, NEW p \in Seq(S), NEW q \in Seq(T), Within(p, q)
  PROVE  /\ q = SubSeq(p, 1, Len(q)) /\ Len(q) \in 0..Len(p)
         /\ Len(q) = Len(p) => q = p
  <1>1. Len(q) <= Len(p) /\ \A i \in 1..Len(q) : p[i] = q[i]
    BY WithinByNames
  <1>2. Len(p) \in Nat /\ Len(q) \in Nat
    OBVIOUS
  <1>3. SubSeq(p, 1, Len(q)) = [i \in 1..Len(q) |-> p[i]]
    BY <1>1, <1>2
  <1>4. q = [i \in 1..Len(q) |-> q[i]] /\ p = [i \in 1..Len(p) |-> p[i]]
    OBVIOUS
  <1>5. [i \in 1..Len(q) |-> p[i]] = [i \in 1..Len(q) |-> q[i]]
    BY <1>1
  <1>6. q = SubSeq(p, 1, Len(q))
    BY <1>3, <1>4, <1>5
  <1>7. ASSUME Len(q) = Len(p) PROVE q = p
    BY <1>4, <1>5, <1>7
  <1> QED
    BY <1>1, <1>2, <1>6, <1>7

\* Whatever a path of the tree lies in exists too, and is no file above it.
LEMMA ParentsExist ==
  ASSUME NEW S, NEW d \in Tree, NEW q \in Seq(S), Within(d, q)
  PROVE  q \in Tree /\ (q \in Files => q = d)
  <1>1. d \in Seq(STRING)
    BY TreeAssumption
  <1>2. /\ q = SubSeq(d, 1, Len(q)) /\ Len(q) \in 0..Len(d)
        /\ Len(q) = Len(d) => q = d
    BY <1>1, WithinIsPrefix
  <1>3. CASE Len(q) # Len(d)
    <2>1. Len(q) \in 0..Len(d) - 1
      BY <1>1, <1>2, <1>3
    <2>2. SubSeq(d, 1, Len(q)) \in Tree \ Files
      BY <2>1, ParentsAssumption
    <2> QED
      BY <1>2, <2>2
  <1> QED
    BY <1>2, <1>3

\* No part of a path that exists is a symlink.
LEMMA TreeHasNoLinks ==
  ASSUME NEW d \in Tree, NEW q \in DOMAIN Links
  PROVE  ~Within(d, q)
  <1>1. q \in Seq(STRING) /\ q \notin Tree
    BY TreeAssumption
  <1> QED
    BY <1>1, ParentsExist

-------------------------------------------------------------------------------
(* The natural numbers have minima: what fails somewhere fails first at one. *)

Less == {p \in Nat \X Nat : p[1] < p[2]}

LEMMA LeastElement ==
  ASSUME NEW S, S \subseteq Nat, S # {}
  PROVE  \E m \in S : \A n \in S : m <= n
  <1>1. IsWellFoundedOn(Less, Nat)
    BY NatLessThanWellFounded DEF OpToRel, Less
  <1>2. PICK m \in S : \A n \in S : ~ (<<n, m>> \in Less)
    BY <1>1, WFMin
  <1>3. ASSUME NEW n \in S PROVE m <= n
    <2>1. m \in Nat /\ n \in Nat /\ ~ (<<n, m>> \in Less)
      BY <1>2
    <2> QED
      BY <2>1 DEF Less
  <1> QED
    BY <1>3

-------------------------------------------------------------------------------
(* Dots worked out.                                                         *)

\* What Normalize has after a name that follows q.
After(q, name) ==
  IF name = "." THEN q
  ELSE IF name = ".." THEN (IF q = Root THEN Root ELSE Front(q))
  ELSE Append(q, name)

\* upTo is the function Normalize computes with, as far as n.
IsUpTo(upTo, p, n) ==
  upTo = [i \in 0..n |-> CASE i = 0 -> Root
                           [] i > 0 /\ p[i] = "." -> upTo[i - 1]
                           [] i > 0 /\ p[i] = ".." ->
                                IF upTo[i - 1] = Root THEN Root ELSE Front(upTo[i - 1])
                           [] OTHER -> Append(upTo[i - 1], p[i])]

LEMMA UpToByNames ==
  ASSUME NEW p, NEW n \in Nat, NEW f
  PROVE  IsUpTo(f, p, n) <=>
           f = [i \in 0..n |-> IF i = 0 THEN Root ELSE After(f[i - 1], p[i])]
  <1>1. \A i \in 0..n :
          (CASE i = 0 -> Root
             [] i > 0 /\ p[i] = "." -> f[i - 1]
             [] i > 0 /\ p[i] = ".." -> IF f[i - 1] = Root THEN Root ELSE Front(f[i - 1])
             [] OTHER -> Append(f[i - 1], p[i]))
          = IF i = 0 THEN Root ELSE After(f[i - 1], p[i])
    BY DEF After
  <1> QED
    BY <1>1 DEF IsUpTo

LEMMA UpToExists ==
  ASSUME NEW T, NEW p \in Seq(T)
  PROVE  \E f : IsUpTo(f, p, Len(p))
  <1> DEFINE S == {n \in Nat : n <= Len(p) /\ ~ \E f : IsUpTo(f, p, n)}
  <1>1. SUFFICES ASSUME S # {} PROVE FALSE
    <2>1. Len(p) \in Nat /\ Len(p) <= Len(p)
      OBVIOUS
    <2>2. S = {} => Len(p) \notin S
      OBVIOUS
    <2> QED
      BY <2>1, <2>2
  <1>2. PICK m \in S : \A n \in S : m <= n
    BY <1>1, LeastElement
  <1>3. m # 0
    <2> DEFINE f == [i \in 0..0 |-> Root]
    <2>1. f = [i \in 0..0 |-> IF i = 0 THEN Root ELSE After(f[i - 1], p[i])]
      OBVIOUS
    <2>2. IsUpTo(f, p, 0)
      BY <2>1, UpToByNames
    <2> QED
      BY <2>2, <1>2
  <1>4. PICK k : IsUpTo(k, p, m - 1)
    <2>1. m - 1 \in Nat /\ m - 1 <= Len(p) /\ ~ (m <= m - 1)
      BY <1>2, <1>3
    <2> QED
      BY <2>1, <1>2
  <1> DEFINE e == [i \in 0..m |-> IF i = m THEN After(k[m - 1], p[m]) ELSE k[i]]
  <1>5. IsUpTo(e, p, m)
    <2>1. m \in Nat /\ m - 1 \in Nat
      BY <1>2, <1>3
    <2>2. \A i \in 0..m - 1 : k[i] = IF i = 0 THEN Root ELSE After(k[i - 1], p[i])
      BY <1>4, <2>1, UpToByNames
    <2>3. \A i \in 0..m : i # m => i \in 0..m - 1 /\ (i # 0 => i - 1 \in 0..m - 1)
      BY <2>1
    <2>4. \A i \in 0..m : e[i] = IF i = 0 THEN Root ELSE After(e[i - 1], p[i])
      BY <1>3, <2>1, <2>2, <2>3
    <2>5. e = [i \in 0..m |-> e[i]]
      OBVIOUS
    <2> HIDE DEF e
    <2>6. e = [i \in 0..m |-> IF i = 0 THEN Root ELSE After(e[i - 1], p[i])]
      BY <2>4, <2>5
    <2> QED
      BY <2>1, <2>6, UpToByNames
  <1> QED
    BY <1>2, <1>5

LEMMA AfterType ==
  ASSUME NEW T, NEW q \in Seq(T), NEW name \in T
  PROVE  After(q, name) \in Seq(T)
  <1>1. q # Root => Front(q) \in Seq(T)
    BY DEF Front, Root
  <1>2. Append(q, name) \in Seq(T)
    OBVIOUS
  <1>3. Root \in Seq(T)
    BY DEF Root
  <1> QED
    BY <1>1, <1>2, <1>3 DEF After

LEMMA NormalizeType ==
  ASSUME NEW T, NEW p \in Seq(T)
  PROVE  Normalize(p) \in Seq(T)
  <1> DEFINE N == Len(p)
             f == CHOOSE g : IsUpTo(g, p, N)
  <1>1. IsUpTo(f, p, N) /\ (HasDots(p) => Normalize(p) = f[N])
    <2>1. IsUpTo(f, p, N)
      BY UpToExists
    <2> QED
      BY <2>1 DEF Normalize, IsUpTo
  <1>2. \A i \in 0..N : f[i] = IF i = 0 THEN Root ELSE After(f[i - 1], p[i])
    BY <1>1, UpToByNames
  <1> HIDE DEF f
  <1> DEFINE S == {n \in Nat : n <= N /\ f[n] \notin Seq(T)}
  <1>3. S = {}
    <2> SUFFICES ASSUME S # {} PROVE FALSE
      OBVIOUS
    <2>1. PICK m \in S : \A n \in S : m <= n
      BY LeastElement
    <2>2. f[0] = Root
      BY <1>2
    <2>3. m # 0
      <3>1. Root \in Seq(T)
        BY DEF Root
      <3>2. f[m] \notin Seq(T)
        BY <2>1
      <3> QED
        BY <2>2, <3>1, <3>2
    <2>4. m - 1 \in Nat /\ m - 1 <= N /\ ~ (m <= m - 1) /\ p[m] \in T /\ m \in 0..N
      BY <2>1, <2>3
    <2>5. f[m - 1] \in Seq(T)
      BY <2>1, <2>4
    <2>6. f[m] \in Seq(T)
      BY <1>2, <2>3, <2>4, <2>5, AfterType
    <2> QED
      BY <2>1, <2>6
  <1>4. f[N] \in Seq(T)
    BY <1>3
  <1> QED
    BY <1>1, <1>4 DEF Normalize

-------------------------------------------------------------------------------
(* Symlinks followed.                                                       *)

LEMMA CanonicalType ==
  ASSUME NEW p \in Seq(STRING)
  PROVE  Canonical(p) \in Seq(STRING)
  <1> DEFINE n == Normalize(p)
             linked == {q \in DOMAIN Links : Within(n, q)}
             q == CHOOSE q \in linked : \A o \in linked : Len(q) <= Len(o)
  <1>1. n \in Seq(STRING)
    BY NormalizeType
  <1> HIDE DEF n
  <1>2. linked \subseteq Seq(STRING)
    BY TreeAssumption
  <1>3. ASSUME linked # {}
        PROVE  q \in linked
    <2> DEFINE S == {Len(o) : o \in linked}
    <2>1. S \subseteq Nat /\ S # {}
      <3>1. \A o \in linked : Len(o) \in Nat
        BY <1>2
      <3> HIDE DEF linked
      <3> QED
        BY <1>3, <3>1
    <2> HIDE DEF S
    <2>2. PICK m \in S : \A k \in S : m <= k
      BY <2>1, LeastElement
    <2>3. PICK r \in linked : m = Len(r)
      BY DEF S
    <2>4. \A o \in linked : Len(r) <= Len(o)
      BY <2>2, <2>3 DEF S
    <2> HIDE DEF linked
    <2> QED
      BY <2>4
  <1>4. ASSUME linked # {}
        PROVE  Links[q] \o SubSeq(n, Len(q) + 1, Len(n)) \in Seq(STRING)
    <2>1. q \in DOMAIN Links /\ q \in Seq(STRING)
      BY <1>2, <1>3, <1>4
    <2> HIDE DEF q
    <2>2. Links[q] \in Seq(STRING) /\ Len(q) \in Nat
      BY <2>1, TreeAssumption
    <2>3. SubSeq(n, Len(q) + 1, Len(n)) \in Seq(STRING)
      BY <1>1, <2>2
    <2> QED
      BY <2>2, <2>3
  <1>5. Canonical(p) = IF linked = {} THEN n
                       ELSE Links[q] \o SubSeq(n, Len(q) + 1, Len(n))
    BY DEF Canonical, Resolve, n
  <1> QED
    BY <1>1, <1>4, <1>5

-------------------------------------------------------------------------------
(* The connections each counter stands for.                                 *)

SlotHolders == {c \in Conns : phase[c] \in Slotted}
Claimants(u) == {c \in Conns : Uid[c] = u /\ phase[c] \in Claiming}

\* Workers that counted their reader, and readers nobody waits for any more.
Counted(u) == {c \in Conns : Uid[c] = u /\ phase[c] = "counted"}
Orphans(u) ==
  {c \in Conns : Uid[c] = u /\ reader[c] \in {"reading", "sent"} /\ finished[c]}

\* Workers that may yet count theirs.
Waiting(u) == {c \in Conns : Uid[c] = u /\ phase[c] \in {"spec", "timedout"}}

TypeInv ==
  /\ active \in 0..MaxConnections
  /\ claims \in [Accounts -> 0..MaxPerUid]
  /\ abandoned \in [Accounts -> Nat]
  /\ phase \in [Conns -> Phases]
  /\ reader \in [Conns -> {"none", "reading", "sent", "done"}]
  /\ finished \in [Conns -> BOOLEAN]

\* What the flag says while a worker still counts on its reader.
ReaderInv ==
  \A c \in Conns :
    /\ phase[c] \in {"away", "backlog", "admitted", "receiving"}
       => reader[c] = "none" /\ ~finished[c]
    /\ phase[c] \in {"spec", "timedout", "counted"}
       => reader[c] # "none" /\ (finished[c] <=> reader[c] = "done")

AbandonedCounted ==
  \A u \in Accounts :
    abandoned[u] = Cardinality(Counted(u)) + Cardinality(Orphans(u))

\* The cap with the readers under way, each of which may still be abandoned.
CapInv ==
  \A u \in Accounts :
    abandoned[u] + Cardinality(Waiting(u)) <= MaxAbandoned + MaxPerUid - 1

GrantInv ==
  /\ granted \in [Conns -> (UNION {Specs[c] : c \in Conns}) \cup {{}}]
  /\ \A c \in Conns : granted[c] \in Acceptable[c] \cup {{}}

IndInv ==
  /\ TypeInv /\ ReaderInv /\ SlotsExact /\ AbandonedCounted /\ CapInv /\ GrantInv

-------------------------------------------------------------------------------
(* Counting.                                                                *)

Bit(b) == IF b THEN 1 ELSE 0

LEMMA SubsetsFinite ==
  ASSUME NEW S, S \subseteq Conns
  PROVE  IsFiniteSet(S) /\ Cardinality(S) \in Nat
  BY ConnsAssumption, FS_Subset, FS_CardinalityType

\* Two sets of connections that agree on all but c differ in size by c.
LEMMA CountMoves ==
  ASSUME NEW S, NEW T, S \subseteq Conns, T \subseteq Conns, NEW c \in Conns,
         \A d \in Conns \ {c} : d \in S <=> d \in T
  PROVE  Cardinality(T) = Cardinality(S) + Bit(c \in T) - Bit(c \in S)
  <1>1. IsFiniteSet(S) /\ Cardinality(S) \in Nat /\ IsFiniteSet(T) /\ Cardinality(T) \in Nat
    BY SubsetsFinite
  <1>2. CASE c \in S /\ c \notin T
    <2>1. T = S \ {c}
      BY <1>2
    <2> QED
      BY <1>1, <1>2, <2>1, FS_RemoveElement DEF Bit
  <1>3. CASE c \notin S /\ c \in T
    <2>1. T = S \cup {c}
      BY <1>3
    <2> QED
      BY <1>1, <1>3, <2>1, FS_AddElement DEF Bit
  <1>4. CASE c \in S <=> c \in T
    <2>1. T = S
      BY <1>4
    <2> QED
      BY <1>1, <1>4, <2>1 DEF Bit
  <1> QED
    BY <1>2, <1>3, <1>4

\* A step of one connection changes every count by that connection.
LEMMA CountsOfStep ==
  ASSUME NEW c \in Conns,
         \A d \in Conns \ {c} : /\ phase'[d] = phase[d]
                                /\ reader'[d] = reader[d] /\ finished'[d] = finished[d]
  PROVE  /\ Cardinality(SlotHolders') =
              Cardinality(SlotHolders) + Bit(c \in SlotHolders') - Bit(c \in SlotHolders)
         /\ \A u \in Accounts :
              /\ Cardinality(Claimants(u)') =
                   Cardinality(Claimants(u)) + Bit(c \in Claimants(u)') - Bit(c \in Claimants(u))
              /\ Cardinality(Counted(u)') =
                   Cardinality(Counted(u)) + Bit(c \in Counted(u)') - Bit(c \in Counted(u))
              /\ Cardinality(Orphans(u)') =
                   Cardinality(Orphans(u)) + Bit(c \in Orphans(u)') - Bit(c \in Orphans(u))
              /\ Cardinality(Waiting(u)') =
                   Cardinality(Waiting(u)) + Bit(c \in Waiting(u)') - Bit(c \in Waiting(u))
  <1>1. /\ SlotHolders \subseteq Conns /\ SlotHolders' \subseteq Conns
        /\ \A d \in Conns \ {c} : d \in SlotHolders <=> d \in SlotHolders'
    BY DEF SlotHolders
  <1>2. ASSUME NEW u \in Accounts
        PROVE  /\ Claimants(u) \subseteq Conns /\ Claimants(u)' \subseteq Conns
               /\ \A d \in Conns \ {c} : d \in Claimants(u) <=> d \in Claimants(u)'
    BY DEF Claimants
  <1>3. ASSUME NEW u \in Accounts
        PROVE  /\ Counted(u) \subseteq Conns /\ Counted(u)' \subseteq Conns
               /\ \A d \in Conns \ {c} : d \in Counted(u) <=> d \in Counted(u)'
    BY DEF Counted
  <1>4. ASSUME NEW u \in Accounts
        PROVE  /\ Orphans(u) \subseteq Conns /\ Orphans(u)' \subseteq Conns
               /\ \A d \in Conns \ {c} : d \in Orphans(u) <=> d \in Orphans(u)'
    BY DEF Orphans
  <1>5. ASSUME NEW u \in Accounts
        PROVE  /\ Waiting(u) \subseteq Conns /\ Waiting(u)' \subseteq Conns
               /\ \A d \in Conns \ {c} : d \in Waiting(u) <=> d \in Waiting(u)'
    BY DEF Waiting
  <1> QED
    BY <1>1, <1>2, <1>3, <1>4, <1>5, CountMoves

-------------------------------------------------------------------------------
(* Every step preserves the counts.                                         *)

\* Where connection c goes, and what that must do to the counters.
Moves(c, p, r, f) ==
  /\ phase' = [phase EXCEPT ![c] = p]
  /\ reader' = [reader EXCEPT ![c] = r]
  /\ finished' = [finished EXCEPT ![c] = f]
  /\ active' = active + Bit(p \in Slotted) - Bit(phase[c] \in Slotted)
  /\ claims' = [claims EXCEPT ![Uid[c]] = @ + Bit(p \in Claiming) - Bit(phase[c] \in Claiming)]
  /\ abandoned' = [abandoned EXCEPT ![Uid[c]] =
       @ + Bit(p = "counted") - Bit(phase[c] = "counted")
         + Bit(r \in {"reading", "sent"} /\ f)
         - Bit(reader[c] \in {"reading", "sent"} /\ finished[c])]

LEMMA OthersStay ==
  ASSUME TypeInv, NEW c \in Conns, NEW p, NEW r, NEW f, Moves(c, p, r, f)
  PROVE  /\ \A d \in Conns \ {c} : /\ phase'[d] = phase[d]
                                   /\ reader'[d] = reader[d] /\ finished'[d] = finished[d]
         /\ phase'[c] = p /\ reader'[c] = r /\ finished'[c] = f
  BY DEF Moves, TypeInv

LEMMA SlotsFollow ==
  ASSUME IndInv, NEW c \in Conns, NEW p, NEW r, NEW f, Moves(c, p, r, f)
  PROVE  SlotsExact'
  <1> USE DEF IndInv
  <1>1. active' = Cardinality(SlotHolders')
    <2>1. Cardinality(SlotHolders') = Cardinality(SlotHolders)
            + Bit(c \in SlotHolders') - Bit(c \in SlotHolders)
      BY CountsOfStep, OthersStay
    <2>2. /\ Bit(c \in SlotHolders') = Bit(p \in Slotted)
          /\ Bit(c \in SlotHolders) = Bit(phase[c] \in Slotted)
      BY OthersStay DEF SlotHolders
    <2>3. active = Cardinality(SlotHolders)
      BY DEF SlotsExact, Count, SlotHolders
    <2> QED
      BY <2>1, <2>2, <2>3 DEF Moves
  <1>2. ASSUME NEW u \in Accounts
        PROVE  claims'[u] = Cardinality(Claimants(u)')
    <2>1. claims[u] = Cardinality(Claimants(u)) /\ claims[u] \in Nat
      BY DEF SlotsExact, Count, Claimants, TypeInv
    <2>2. Cardinality(Claimants(u)') = Cardinality(Claimants(u))
            + Bit(c \in Claimants(u)') - Bit(c \in Claimants(u))
      BY CountsOfStep, OthersStay
    <2>3. CASE u = Uid[c]
      <3>1. /\ Bit(c \in Claimants(u)') = Bit(p \in Claiming)
            /\ Bit(c \in Claimants(u)) = Bit(phase[c] \in Claiming)
        BY <2>3, OthersStay DEF Claimants
      <3> QED
        BY <2>1, <2>2, <2>3, <3>1 DEF Moves, TypeInv
    <2>4. CASE u # Uid[c]
      <3>1. c \notin Claimants(u) /\ c \notin Claimants(u)'
        BY <2>4 DEF Claimants
      <3> QED
        BY <2>1, <2>2, <2>4, <3>1 DEF Moves, TypeInv, Bit
    <2> QED
      BY <2>3, <2>4
  <1> QED
    BY <1>1, <1>2 DEF SlotsExact, Count, SlotHolders, Claimants

LEMMA AbandonedFollows ==
  ASSUME IndInv, NEW c \in Conns, NEW p, NEW r, NEW f, Moves(c, p, r, f)
  PROVE  AbandonedCounted'
  <1> USE DEF IndInv
  <1> SUFFICES ASSUME NEW u \in Accounts
               PROVE  abandoned'[u] = Cardinality(Counted(u)') + Cardinality(Orphans(u)')
    BY DEF AbandonedCounted
  <1>1. abandoned[u] = Cardinality(Counted(u)) + Cardinality(Orphans(u))
    BY DEF AbandonedCounted
  <1>2. Cardinality(Counted(u)) \in Nat /\ Cardinality(Orphans(u)) \in Nat
    BY SubsetsFinite DEF Counted, Orphans
  <1>3. /\ Cardinality(Counted(u)') =
             Cardinality(Counted(u)) + Bit(c \in Counted(u)') - Bit(c \in Counted(u))
        /\ Cardinality(Orphans(u)') =
             Cardinality(Orphans(u)) + Bit(c \in Orphans(u)') - Bit(c \in Orphans(u))
    BY CountsOfStep, OthersStay
  <1>4. CASE u = Uid[c]
    <2>1. /\ Bit(c \in Counted(u)') = Bit(p = "counted")
          /\ Bit(c \in Counted(u)) = Bit(phase[c] = "counted")
          /\ Bit(c \in Orphans(u)') = Bit(r \in {"reading", "sent"} /\ f)
          /\ Bit(c \in Orphans(u)) = Bit(reader[c] \in {"reading", "sent"} /\ finished[c])
      BY <1>4, OthersStay DEF Counted, Orphans, Bit
    <2>2. abandoned'[u] = abandoned[u] + Bit(p = "counted") - Bit(phase[c] = "counted")
            + Bit(r \in {"reading", "sent"} /\ f)
            - Bit(reader[c] \in {"reading", "sent"} /\ finished[c])
      BY <1>4 DEF Moves, TypeInv
    <2>3. \A b \in BOOLEAN : Bit(b) \in Int
      BY DEF Bit
    <2> HIDE DEF IndInv
    <2> QED
      BY <1>1, <1>2, <1>3, <2>1, <2>2 DEF Bit
  <1>5. CASE u # Uid[c]
    <2>1. /\ c \notin Counted(u) /\ c \notin Counted(u)'
          /\ c \notin Orphans(u) /\ c \notin Orphans(u)'
      BY <1>5 DEF Counted, Orphans
    <2>2. abandoned'[u] = abandoned[u]
      BY <1>5 DEF Moves, TypeInv
    <2> QED
      BY <1>1, <1>2, <1>3, <2>1, <2>2 DEF Bit
  <1> QED
    BY <1>4, <1>5

\* A phase, and what the flag must say in it.
Settled(p, r, f) ==
  /\ p \in Phases /\ r \in {"none", "reading", "sent", "done"} /\ f \in BOOLEAN
  /\ p \in {"away", "backlog", "admitted", "receiving"} => r = "none" /\ ~f
  /\ p \in {"spec", "timedout", "counted"} => r # "none" /\ (f <=> r = "done")

\* A counter that is a size is a number; only its upper bound is the step's.
LEMMA MoveKeeps ==
  ASSUME IndInv, NEW c \in Conns, NEW p, NEW r, NEW f, Moves(c, p, r, f), Settled(p, r, f),
         active' <= MaxConnections, claims'[Uid[c]] <= MaxPerUid
  PROVE  TypeInv' /\ ReaderInv' /\ SlotsExact' /\ AbandonedCounted'
  <1>1. SlotsExact' /\ AbandonedCounted'
    BY SlotsFollow, AbandonedFollows
  <1>2. TypeInv'
    <2>1. phase' \in [Conns -> Phases] /\ finished' \in [Conns -> BOOLEAN]
          /\ reader' \in [Conns -> {"none", "reading", "sent", "done"}]
      BY DEF IndInv, TypeInv, Moves, Settled
    <2>2. active' \in 0..MaxConnections
      <3>1. active' \in Nat
        BY <1>1, SubsetsFinite DEF SlotsExact, Count
      <3> QED
        BY <3>1, LimitsAssumption
    <2>3. claims' \in [Accounts -> 0..MaxPerUid]
      <3>1. \A u \in Accounts : claims'[u] \in Nat
        BY <1>1, SubsetsFinite DEF SlotsExact, Count
      <3>2. \A u \in Accounts : claims'[u] \in 0..MaxPerUid
        BY <3>1, LimitsAssumption DEF IndInv, TypeInv, Moves
      <3> QED
        BY <3>2 DEF IndInv, TypeInv, Moves
    <2>4. abandoned' \in [Accounts -> Nat]
      <3>1. \A u \in Accounts : abandoned'[u] \in Nat
        <4> TAKE u \in Accounts
        <4>1. (Cardinality(Counted(u)) \in Nat /\ Cardinality(Orphans(u)) \in Nat)'
          BY SubsetsFinite DEF Counted, Orphans
        <4> QED
          BY <1>1, <4>1 DEF AbandonedCounted
      <3> QED
        BY <3>1 DEF IndInv, TypeInv, Moves
    <2> QED
      BY <2>1, <2>2, <2>3, <2>4 DEF TypeInv
  <1>3. ReaderInv'
    BY OthersStay DEF IndInv, ReaderInv, Settled
  <1> QED
    BY <1>1, <1>2, <1>3

\* The cap is met by a step that abandons no more than it stops waiting for.
LEMMA CapKept ==
  ASSUME IndInv, NEW c \in Conns, NEW p, NEW r, NEW f, Moves(c, p, r, f), TypeInv',
         abandoned'[Uid[c]] + Bit(p \in {"spec", "timedout"})
           <= abandoned[Uid[c]] + Bit(phase[c] \in {"spec", "timedout"})
  PROVE  CapInv'
  <1> SUFFICES ASSUME NEW u \in Accounts
               PROVE  abandoned'[u] + Cardinality(Waiting(u)') <= MaxAbandoned + MaxPerUid - 1
    BY DEF CapInv
  <1>1. abandoned[u] + Cardinality(Waiting(u)) <= MaxAbandoned + MaxPerUid - 1
    BY DEF IndInv, CapInv
  <1>2. Cardinality(Waiting(u)') =
          Cardinality(Waiting(u)) + Bit(c \in Waiting(u)') - Bit(c \in Waiting(u))
    BY CountsOfStep, OthersStay DEF IndInv
  <1>3. /\ Cardinality(Waiting(u)) \in Nat /\ abandoned[u] \in Nat /\ abandoned'[u] \in Nat
        /\ MaxAbandoned \in Nat /\ MaxPerUid \in Nat
    BY SubsetsFinite, LimitsAssumption DEF Waiting, IndInv, TypeInv
  <1>4. CASE u = Uid[c]
    <2>1. /\ Bit(c \in Waiting(u)') = Bit(p \in {"spec", "timedout"})
          /\ Bit(c \in Waiting(u)) = Bit(phase[c] \in {"spec", "timedout"})
      BY <1>4, OthersStay DEF Waiting, Bit, IndInv
    <2> QED
      BY <1>1, <1>2, <1>3, <1>4, <2>1 DEF Bit
  <1>5. CASE u # Uid[c]
    <2>1. abandoned'[u] = abandoned[u] /\ c \notin Waiting(u) /\ c \notin Waiting(u)'
      BY <1>5 DEF Waiting, Moves, IndInv, TypeInv
    <2> QED
      BY <1>1, <1>2, <1>3, <2>1 DEF Bit
  <1> QED
    BY <1>4, <1>5

\* A worker with a claim has been counted, so that it has one to give back.
LEMMA ClaimHeld ==
  ASSUME IndInv, NEW c \in Conns
  PROVE  /\ Uid[c] \in Accounts
         /\ active \in 0..MaxConnections /\ MaxConnections \in Nat
         /\ claims[Uid[c]] \in 0..MaxPerUid /\ MaxPerUid \in Nat
         /\ abandoned[Uid[c]] \in Nat /\ MaxAbandoned \in Nat
  BY ConnsAssumption, LimitsAssumption DEF IndInv, TypeInv

\* The slot, and the claim, that come and go with the phase.
SlotFollows(c, p) ==
  \/ active' = active /\ (phase[c] \in Slotted <=> p \in Slotted)
  \/ active' = active + 1 /\ phase[c] \notin Slotted /\ p \in Slotted
  \/ active' = active - 1 /\ phase[c] \in Slotted /\ p \notin Slotted
ClaimFollows(c, p) ==
  \/ claims' = claims /\ (phase[c] \in Claiming <=> p \in Claiming)
  \/ /\ claims' = [claims EXCEPT ![Uid[c]] = @ + 1]
     /\ phase[c] \notin Claiming /\ p \in Claiming
  \/ /\ claims' = [claims EXCEPT ![Uid[c]] = @ - 1]
     /\ phase[c] \in Claiming /\ p \notin Claiming

LEMMA SlotsMove ==
  ASSUME IndInv, NEW c \in Conns, NEW p, SlotFollows(c, p), ClaimFollows(c, p)
  PROVE  /\ active' = active + Bit(p \in Slotted) - Bit(phase[c] \in Slotted)
         /\ claims' = [claims EXCEPT ![Uid[c]] = @ + Bit(p \in Claiming)
                                                - Bit(phase[c] \in Claiming)]
  <1>1. active \in Int /\ claims[Uid[c]] \in Int
    BY ClaimHeld
  <1>2. active' = active + Bit(p \in Slotted) - Bit(phase[c] \in Slotted)
    BY <1>1 DEF SlotFollows, Bit
  <1>3. CASE claims' = claims /\ (phase[c] \in Claiming <=> p \in Claiming)
    <2>1. claims[Uid[c]] + Bit(p \in Claiming) - Bit(phase[c] \in Claiming) = claims[Uid[c]]
      BY <1>1, <1>3 DEF Bit
    <2>2. claims = [claims EXCEPT ![Uid[c]] = claims[Uid[c]]]
      BY DEF IndInv, TypeInv
    <2> QED
      BY <1>2, <1>3, <2>1, <2>2
  <1>4. CASE ~(claims' = claims /\ (phase[c] \in Claiming <=> p \in Claiming))
    BY <1>1, <1>2, <1>4 DEF ClaimFollows, Bit
  <1> QED
    BY <1>3, <1>4

\* A step that moves a worker and leaves its reader alone.
LEMMA PlainMove ==
  ASSUME IndInv, NEW c \in Conns, NEW p \in Phases, Goto(c, p),
         p \notin {"counted", "spec"}, phase[c] # "counted",
         phase[c] \in {"away", "backlog", "admitted"}
           => p \in {"backlog", "admitted", "receiving", "reply", "closed"},
         phase[c] \notin {"away", "backlog", "admitted"}
           => p \notin {"away", "backlog", "admitted", "receiving"},
         p = "timedout" => phase[c] = "spec",
         SlotFollows(c, p), active' <= MaxConnections,
         ClaimFollows(c, p), claims'[Uid[c]] <= MaxPerUid,
         UNCHANGED reading, GrantInv'
  PROVE  IndInv'
  <1>1. Uid[c] \in Accounts /\ abandoned[Uid[c]] \in Nat
    BY ConnsAssumption DEF IndInv, TypeInv
  <1>2. Moves(c, p, reader[c], finished[c])
    <2>1. reader' = [reader EXCEPT ![c] = reader[c]] /\ finished' = [finished EXCEPT ![c] = finished[c]]
      BY DEF IndInv, TypeInv, reading
    <2>2. abandoned' = [abandoned EXCEPT ![Uid[c]] = @ + Bit(p = "counted") - Bit(phase[c] = "counted")
         + Bit(reader[c] \in {"reading", "sent"} /\ finished[c])
         - Bit(reader[c] \in {"reading", "sent"} /\ finished[c])]
      BY <1>1 DEF IndInv, TypeInv, reading, Bit
    <2> QED
      BY <2>1, <2>2, SlotsMove DEF Goto, Moves
  <1>3. Settled(p, reader[c], finished[c])
    BY DEF IndInv, TypeInv, ReaderInv, Settled
  <1>4. TypeInv' /\ ReaderInv' /\ SlotsExact' /\ AbandonedCounted'
    BY <1>2, <1>3, MoveKeeps
  <1>5. CapInv'
    BY <1>1, <1>2, <1>4, CapKept DEF reading, Bit
  <1> QED
    BY <1>4, <1>5 DEF IndInv

LEMMA GrantsKept ==
  ASSUME IndInv, UNCHANGED granted
  PROVE  GrantInv'
  BY DEF IndInv, GrantInv

\* Answer, with the reader and its count left alone.
LEMMA AnswerKeeps ==
  ASSUME IndInv, NEW c \in Conns, Answer(c), phase[c] \in {"receiving", "spec", "serving"},
         UNCHANGED <<active, reading>>, GrantInv'
  PROVE  IndInv'
  <1>1. Goto(c, "reply") /\ "reply" \in Phases
    BY DEF Answer, Phases
  <1>2. SlotFollows(c, "reply") /\ ClaimFollows(c, "reply")
    BY DEF Answer, SlotFollows, ClaimFollows, Slotted, Claiming
  <1>3. active' <= MaxConnections /\ claims'[Uid[c]] <= MaxPerUid
    BY ClaimHeld DEF Answer, IndInv, TypeInv
  <1> QED
    BY <1>1, <1>2, <1>3, PlainMove
-------------------------------------------------------------------------------
(* The actions.                                                             *)

LEMMA AdmissionStep ==
  ASSUME IndInv, NEW c \in Conns,
         \/ Connect(c) \/ Accept(c) \/ Claim(c) \/ ReceiveSimple(c) \/ SpecTimesOut(c)
         \/ Respond(c) \/ Release(c)
  PROVE  IndInv'
  <1> USE DEF slots, Phases, Slotted, Claiming, SlotFollows, ClaimFollows
  <1>0. GrantInv' /\ UNCHANGED reading
    BY GrantsKept DEF Connect, Accept, Claim, ReceiveSimple, SpecTimesOut, Respond, Release
  <1>1. CASE Connect(c)
    <2>1. Goto(c, "backlog") /\ phase[c] = "away"
      BY <1>1 DEF Connect, At
    <2>2. SlotFollows(c, "backlog") /\ ClaimFollows(c, "backlog")
      BY <1>1, <2>1 DEF Connect
    <2> QED
      BY <1>0, <1>1, <2>1, <2>2, ClaimHeld, PlainMove DEF Connect
  <1>2. CASE Accept(c)
    <2>1. CASE active >= MaxConnections
      BY <1>0, <1>2, <2>1, ClaimHeld, PlainMove DEF Accept, At
    <2>2. CASE ~(active >= MaxConnections)
      <3>1. active' <= MaxConnections
        BY <1>2, <2>2, ClaimHeld DEF Accept
      <3> QED
        BY <1>0, <1>2, <2>2, <3>1, ClaimHeld, PlainMove DEF Accept, At
    <2> QED
      BY <2>1, <2>2
  <1>3. CASE Claim(c)
    <2>1. CASE claims[Uid[c]] >= MaxPerUid
      BY <1>0, <1>3, <2>1, ClaimHeld, PlainMove DEF Claim, At
    <2>2. CASE ~(claims[Uid[c]] >= MaxPerUid)
      <3>1. claims'[Uid[c]] <= MaxPerUid
        BY <1>3, <2>2, ClaimHeld DEF Claim, IndInv, TypeInv
      <3> QED
        BY <1>0, <1>3, <2>2, <3>1, ClaimHeld, PlainMove DEF Claim, At
    <2> QED
      BY <2>1, <2>2
  <1>4. CASE ReceiveSimple(c)
    <2>1. Goto(c, "serving") /\ phase[c] = "receiving"
      BY <1>4 DEF ReceiveSimple, At
    <2>2. SlotFollows(c, "serving") /\ ClaimFollows(c, "serving")
      BY <1>4, <2>1 DEF ReceiveSimple
    <2> QED
      BY <1>0, <1>4, <2>1, <2>2, ClaimHeld, PlainMove DEF ReceiveSimple
  <1>5. CASE SpecTimesOut(c)
    <2>1. Goto(c, "timedout") /\ phase[c] = "spec"
      BY <1>5 DEF SpecTimesOut, At
    <2>2. SlotFollows(c, "timedout") /\ ClaimFollows(c, "timedout")
      BY <1>5, <2>1 DEF SpecTimesOut
    <2> QED
      BY <1>0, <1>5, <2>1, <2>2, ClaimHeld, PlainMove DEF SpecTimesOut
  <1>6. CASE Respond(c)
    <2>1. Goto(c, "answered") /\ phase[c] = "reply"
      BY <1>6 DEF Respond, At
    <2>2. SlotFollows(c, "answered") /\ ClaimFollows(c, "answered")
      BY <1>6, <2>1 DEF Respond
    <2> QED
      BY <1>0, <1>6, <2>1, <2>2, ClaimHeld, PlainMove DEF Respond
  <1>7. CASE Release(c)
    <2>1. Goto(c, "closed") /\ phase[c] = "answered"
      BY <1>7 DEF Release, At
    <2>2. active' <= MaxConnections
      BY <1>7, ClaimHeld DEF Release
    <2> QED
      BY <1>0, <1>7, <2>1, <2>2, ClaimHeld, PlainMove DEF Release
  <1> QED
    BY <1>1, <1>2, <1>3, <1>4, <1>5, <1>6, <1>7

LEMMA AnswerStep ==
  ASSUME IndInv, NEW c \in Conns, ReceiveFails(c) \/ SpecRejected(c) \/ Served(c)
  PROVE  IndInv'
  <1>1. CASE ReceiveFails(c)
    BY <1>1, AnswerKeeps, GrantsKept DEF ReceiveFails, At
  <1>2. CASE SpecRejected(c)
    BY <1>2, AnswerKeeps, GrantsKept DEF SpecRejected, SpecRead, At
  <1>3. CASE Served(c)
    <2>1. GrantInv'
      BY <1>3 DEF Served, IndInv, GrantInv
    <2> QED
      BY <1>3, <2>1, AnswerKeeps DEF Served, At
  <1> QED
    BY <1>1, <1>2, <1>3

LEMMA AcceptedStep ==
  ASSUME IndInv, NEW c \in Conns, SpecAccepted(c)
  PROVE  IndInv'
  <1>1. Goto(c, "serving") /\ phase[c] = "spec" /\ "serving" \in Phases
    BY DEF SpecAccepted, SpecRead, At, Phases
  <1>2. SlotFollows(c, "serving") /\ ClaimFollows(c, "serving")
    BY <1>1 DEF SpecAccepted, slots, Slotted, Claiming, SlotFollows, ClaimFollows
  <1>3. active' <= MaxConnections /\ claims'[Uid[c]] <= MaxPerUid
    BY ClaimHeld DEF SpecAccepted, slots
  <1>4. GrantInv'
    <2>1. Acceptable[c] \subseteq Specs[c]
      BY DEF Acceptable
    <2>2. PICK s \in Acceptable[c] : granted' = [granted EXCEPT ![c] = s]
      BY DEF SpecAccepted
    <2>3. s \in (UNION {Specs[d] : d \in Conns}) \cup {{}}
      BY <2>1, <2>2
    <2> QED
      BY <2>2, <2>3 DEF IndInv, GrantInv
  <1> QED
    BY <1>1, <1>2, <1>3, <1>4, PlainMove DEF SpecAccepted

\* The reader and the flag move, the worker stays where it is.
LEMMA ReaderMove ==
  ASSUME IndInv, NEW c \in Conns, NEW r \in {"sent", "done"},
         reader[c] \in {"reading", "sent"}, Settled(phase[c], r, finished'[c]),
         reader' = [reader EXCEPT ![c] = r], finished' = [finished EXCEPT ![c] = finished'[c]],
         \/ /\ abandoned' = abandoned
            /\ finished'[c] /\ r = "sent" <=> finished[c]
         \/ /\ abandoned' = [abandoned EXCEPT ![Uid[c]] = @ - 1]
            /\ finished[c] /\ r = "done",
         UNCHANGED <<active, claims, phase, granted>>
  PROVE  IndInv'
  <1>1. /\ Uid[c] \in Accounts /\ abandoned[Uid[c]] \in Nat /\ claims[Uid[c]] \in Nat
        /\ active \in Nat /\ active <= MaxConnections /\ claims[Uid[c]] <= MaxPerUid
        /\ phase[c] \in Phases /\ finished[c] \in BOOLEAN /\ finished'[c] \in BOOLEAN
    BY ClaimHeld DEF IndInv, TypeInv, Settled
  <1>2. /\ phase' = [phase EXCEPT ![c] = phase[c]]
        /\ claims' = [claims EXCEPT ![Uid[c]] = @ + Bit(phase[c] \in Claiming)
                                                - Bit(phase[c] \in Claiming)]
        /\ active' = active + Bit(phase[c] \in Slotted) - Bit(phase[c] \in Slotted)
    BY <1>1 DEF IndInv, TypeInv, Bit
  <1>3. abandoned' = [abandoned EXCEPT ![Uid[c]] =
          @ + Bit(phase[c] = "counted") - Bit(phase[c] = "counted")
            + Bit(r \in {"reading", "sent"} /\ finished'[c])
            - Bit(reader[c] \in {"reading", "sent"} /\ finished[c])]
    <2> DEFINE n == abandoned[Uid[c]] + Bit(phase[c] = "counted") - Bit(phase[c] = "counted")
                      + Bit(r \in {"reading", "sent"} /\ finished'[c])
                      - Bit(reader[c] \in {"reading", "sent"} /\ finished[c])
    <2>1. CASE /\ abandoned' = abandoned
               /\ finished'[c] /\ r = "sent" <=> finished[c]
      <3>1. n = abandoned[Uid[c]]
        BY <1>1, <2>1 DEF Bit
      <3>2. abandoned = [abandoned EXCEPT ![Uid[c]] = abandoned[Uid[c]]]
        BY DEF IndInv, TypeInv
      <3> QED
        BY <2>1, <3>1, <3>2
    <2>2. CASE /\ abandoned' = [abandoned EXCEPT ![Uid[c]] = @ - 1]
               /\ finished[c] /\ r = "done"
      <3>1. n = abandoned[Uid[c]] - 1
        BY <1>1, <2>2 DEF Bit
      <3> QED
        BY <2>2, <3>1
    <2> QED
      BY <2>1, <2>2
  <1>4. Moves(c, phase[c], r, finished'[c])
    BY <1>2, <1>3 DEF Moves
  <1>5. TypeInv' /\ ReaderInv' /\ SlotsExact' /\ AbandonedCounted'
    BY <1>1, <1>4, MoveKeeps
  <1>6. abandoned'[Uid[c]] <= abandoned[Uid[c]] /\ abandoned'[Uid[c]] \in Nat
    BY <1>1, <1>5 DEF IndInv, TypeInv
  <1>7. CapInv'
    BY <1>1, <1>4, <1>5, <1>6, CapKept DEF Bit
  <1> QED
    BY <1>5, <1>7, GrantsKept DEF IndInv

LEMMA ReaderStep ==
  ASSUME IndInv, NEW c \in Conns, ReaderSends(c) \/ ReaderFinishes(c)
  PROVE  IndInv'
  <1>1. /\ phase[c] \in Phases \ {"away", "backlog", "admitted", "receiving"}
        /\ finished[c] \in BOOLEAN /\ Uid[c] \in Accounts
        /\ UNCHANGED <<active, claims, phase, granted>>
    BY ClaimHeld DEF ReaderSends, ReaderFinishes, slots, IndInv, ReaderInv, TypeInv
  <1>2. CASE ReaderSends(c)
    <2>1. /\ reader' = [reader EXCEPT ![c] = "sent"] /\ reader[c] = "reading"
          /\ finished' = [finished EXCEPT ![c] = finished[c]] /\ abandoned' = abandoned
      BY <1>2 DEF ReaderSends, IndInv, TypeInv
    <2>2. Settled(phase[c], "sent", finished[c])
      BY <1>1, <2>1 DEF Settled, IndInv, ReaderInv
    <2>3. finished'[c] = finished[c]
      BY <2>1 DEF IndInv, TypeInv
    <2>4. Settled(phase[c], "sent", finished'[c])
      BY <2>2, <2>3
    <2> QED
      BY <1>1, <2>1, <2>3, <2>4, ReaderMove
  <1>3. CASE ReaderFinishes(c)
    <2>1. /\ reader' = [reader EXCEPT ![c] = "done"] /\ reader[c] = "sent"
          /\ finished' = [finished EXCEPT ![c] = TRUE]
          /\ abandoned' = [abandoned EXCEPT ![Uid[c]] = IF finished[c] THEN @ - 1 ELSE @]
      BY <1>3 DEF ReaderFinishes, Swap
    <2>2. finished'[c] = TRUE /\ finished' = [finished EXCEPT ![c] = finished'[c]]
      BY <2>1 DEF IndInv, TypeInv
    <2>3. Settled(phase[c], "done", finished'[c])
      BY <1>1, <2>2 DEF Settled
    <2>4. CASE finished[c]
      BY <1>1, <2>1, <2>2, <2>3, <2>4, ReaderMove
    <2>5. CASE ~finished[c]
      <3>1. abandoned' = abandoned
        BY <2>1, <2>5 DEF IndInv, TypeInv
      <3> QED
        BY <1>1, <2>1, <2>2, <2>3, <2>5, <3>1, ReaderMove
    <2> QED
      BY <2>4, <2>5
  <1> QED
    BY <1>2, <1>3

\* A read may start while fewer than the cap are abandoned, and no more are
\* under way than the user has claims.
LEMMA ReceiveRunStep ==
  ASSUME IndInv, NEW c \in Conns, ReceiveRun(c)
  PROVE  IndInv'
  <1>1. /\ phase[c] = "receiving" /\ reader[c] = "none" /\ finished[c] = FALSE
        /\ abandoned[Uid[c]] < MaxAbandoned
        /\ phase' = [phase EXCEPT ![c] = "spec"]
        /\ reader' = [reader EXCEPT ![c] = "reading"]
        /\ UNCHANGED <<active, claims, abandoned, finished, granted>>
    BY DEF ReceiveRun, At, Goto, slots, IndInv, ReaderInv, TypeInv
  <1>2. Moves(c, "spec", "reading", finished[c])
    <2>1. finished' = [finished EXCEPT ![c] = finished[c]]
      BY <1>1 DEF IndInv, TypeInv
    <2>2. SlotFollows(c, "spec") /\ ClaimFollows(c, "spec")
      BY <1>1 DEF SlotFollows, ClaimFollows, Slotted, Claiming
    <2>3. abandoned[Uid[c]] + Bit("spec" = "counted") - Bit(phase[c] = "counted")
            + Bit("reading" \in {"reading", "sent"} /\ finished[c])
            - Bit(reader[c] \in {"reading", "sent"} /\ finished[c]) = abandoned[Uid[c]]
      BY <1>1, ClaimHeld DEF Bit
    <2>4. abandoned = [abandoned EXCEPT ![Uid[c]] = abandoned[Uid[c]]]
      BY DEF IndInv, TypeInv
    <2> QED
      BY <1>1, <2>1, <2>2, <2>3, <2>4, SlotsMove DEF Moves
  <1>3. Settled("spec", "reading", finished[c])
    BY <1>1 DEF Settled, Phases
  <1>4. TypeInv' /\ ReaderInv' /\ SlotsExact' /\ AbandonedCounted'
    BY <1>1, <1>2, <1>3, ClaimHeld, MoveKeeps
  <1>5. CapInv'
    <2> SUFFICES ASSUME NEW u \in Accounts
                 PROVE  abandoned'[u] + Cardinality(Waiting(u)') <= MaxAbandoned + MaxPerUid - 1
      BY DEF CapInv
    <2>1. CASE u = Uid[c]
      <3>1. Waiting(u)' \subseteq Claimants(u)' /\ Claimants(u)' \subseteq Conns
        BY DEF Waiting, Claimants, Claiming
      <3>2. Cardinality(Waiting(u)') <= Cardinality(Claimants(u)')
        BY <3>1, SubsetsFinite, FS_Subset
      <3>3. Cardinality(Claimants(u)') = claims'[u]
        BY <1>4 DEF SlotsExact, Count, Claimants
      <3>4. Cardinality(Waiting(u)') \in Nat
        BY SubsetsFinite DEF Waiting
      <3> QED
        BY <1>1, <2>1, <3>2, <3>3, <3>4, ClaimHeld
    <2>2. CASE u # Uid[c]
      <3>1. Waiting(u)' = Waiting(u)
        BY <1>1, <2>2 DEF Waiting, IndInv, TypeInv
      <3> QED
        BY <1>1, <3>1 DEF IndInv, CapInv
    <2> QED
      BY <2>1, <2>2
  <1> QED
    BY <1>1, <1>4, <1>5, GrantsKept DEF IndInv

LEMMA CountAbandonedStep ==
  ASSUME IndInv, NEW c \in Conns, CountAbandoned(c)
  PROVE  IndInv'
  <1>1. /\ phase[c] = "timedout" /\ phase' = [phase EXCEPT ![c] = "counted"]
        /\ abandoned' = [abandoned EXCEPT ![Uid[c]] = @ + 1]
        /\ UNCHANGED <<active, claims, reader, finished, granted>>
    BY DEF CountAbandoned, At, Goto, slots
  <1>2. Moves(c, "counted", reader[c], finished[c])
    <2>1. /\ reader' = [reader EXCEPT ![c] = reader[c]]
          /\ finished' = [finished EXCEPT ![c] = finished[c]]
      BY <1>1 DEF IndInv, TypeInv
    <2>2. SlotFollows(c, "counted") /\ ClaimFollows(c, "counted")
      BY <1>1 DEF SlotFollows, ClaimFollows, Slotted, Claiming
    <2>3. abandoned[Uid[c]] + Bit("counted" = "counted") - Bit(phase[c] = "counted")
            + Bit(reader[c] \in {"reading", "sent"} /\ finished[c])
            - Bit(reader[c] \in {"reading", "sent"} /\ finished[c]) = abandoned[Uid[c]] + 1
      BY <1>1, ClaimHeld DEF Bit
    <2> QED
      BY <1>1, <2>1, <2>2, <2>3, SlotsMove DEF Moves
  <1>3. Settled("counted", reader[c], finished[c])
    BY <1>1 DEF Settled, Phases, IndInv, TypeInv, ReaderInv
  <1>4. TypeInv' /\ ReaderInv' /\ SlotsExact' /\ AbandonedCounted'
    BY <1>1, <1>2, <1>3, ClaimHeld, MoveKeeps
  <1>5. abandoned'[Uid[c]] + Bit("counted" \in {"spec", "timedout"})
          <= abandoned[Uid[c]] + Bit(phase[c] \in {"spec", "timedout"})
    BY <1>1, ClaimHeld DEF Bit, IndInv, TypeInv
  <1>6. CapInv'
    BY <1>2, <1>4, <1>5, CapKept
  <1> QED
    BY <1>1, <1>4, <1>6, GrantsKept DEF IndInv

\* If the reader was done first, its count is taken back here; if not, the
\* reader is now one nobody waits for, and will take it back.
LEMMA GiveUpStep ==
  ASSUME IndInv, NEW c \in Conns, GiveUp(c)
  PROVE  IndInv'
  <1>1. /\ phase[c] = "counted" /\ phase' = [phase EXCEPT ![c] = "reply"]
        /\ claims' = [claims EXCEPT ![Uid[c]] = @ - 1]
        /\ finished' = [finished EXCEPT ![c] = TRUE]
        /\ abandoned' = [abandoned EXCEPT ![Uid[c]] = IF finished[c] THEN @ - 1 ELSE @]
        /\ UNCHANGED <<active, reader, granted>>
    BY DEF GiveUp, At, Goto, Answer, Swap
  <1>2. /\ reader[c] \in {"reading", "sent", "done"} /\ (finished[c] <=> reader[c] = "done")
        /\ finished'[c] = TRUE /\ finished' = [finished EXCEPT ![c] = finished'[c]]
    BY <1>1 DEF IndInv, TypeInv, ReaderInv
  <1>3. Moves(c, "reply", reader[c], finished'[c])
    <2>1. reader' = [reader EXCEPT ![c] = reader[c]]
      BY <1>1 DEF IndInv, TypeInv
    <2>2. SlotFollows(c, "reply") /\ ClaimFollows(c, "reply")
      BY <1>1 DEF SlotFollows, ClaimFollows, Slotted, Claiming
    <2>3. abandoned[Uid[c]] + Bit("reply" = "counted") - Bit(phase[c] = "counted")
            + Bit(reader[c] \in {"reading", "sent"} /\ finished'[c])
            - Bit(reader[c] \in {"reading", "sent"} /\ finished[c])
          = IF finished[c] THEN abandoned[Uid[c]] - 1 ELSE abandoned[Uid[c]]
      BY <1>1, <1>2, ClaimHeld DEF Bit
    <2> QED
      BY <1>1, <1>2, <2>1, <2>2, <2>3, SlotsMove DEF Moves
  <1>4. Settled("reply", reader[c], finished'[c])
    BY <1>2 DEF Settled, Phases
  <1>5. TypeInv' /\ ReaderInv' /\ SlotsExact' /\ AbandonedCounted'
    <2>1. active' <= MaxConnections /\ claims'[Uid[c]] <= MaxPerUid
      BY <1>1, ClaimHeld DEF IndInv, TypeInv
    <2> QED
      BY <1>3, <1>4, <2>1, MoveKeeps
  <1>6. abandoned'[Uid[c]] + Bit("reply" \in {"spec", "timedout"})
          <= abandoned[Uid[c]] + Bit(phase[c] \in {"spec", "timedout"})
    BY <1>1, ClaimHeld DEF Bit, IndInv, TypeInv
  <1>7. CapInv'
    BY <1>3, <1>5, <1>6, CapKept
  <1> QED
    BY <1>1, <1>5, <1>7, GrantsKept DEF IndInv
-------------------------------------------------------------------------------
(* The invariant and what follows from it.                                  *)

LEMMA InitInv == Init => IndInv
  <1> SUFFICES ASSUME Init PROVE IndInv
    OBVIOUS
  <1> USE DEF Init, Idle
  <1>1. TypeInv /\ ReaderInv /\ GrantInv
    BY LimitsAssumption DEF TypeInv, Phases, ReaderInv, GrantInv
  <1>2. /\ SlotHolders = {}
        /\ \A u \in Accounts : /\ Claimants(u) = {} /\ Counted(u) = {}
                               /\ Orphans(u) = {} /\ Waiting(u) = {}
    BY DEF SlotHolders, Claimants, Counted, Orphans, Waiting, Slotted, Claiming
  <1>3. SlotsExact
    BY <1>2, FS_EmptySet DEF SlotsExact, Count, SlotHolders, Claimants
  <1>4. Cardinality({}) = 0
    BY FS_EmptySet
  <1>5. ASSUME NEW u \in Accounts
        PROVE  /\ abandoned[u] = 0 /\ claims[u] = 0
               /\ Cardinality(Counted(u)) = 0 /\ Cardinality(Orphans(u)) = 0
               /\ Cardinality(Waiting(u)) = 0
    BY <1>2, <1>4
  <1>6. AbandonedCounted
    BY <1>5 DEF AbandonedCounted
  <1>7. CapInv
    <2> HIDE DEF Init
    <2> QED
      BY <1>5, LimitsAssumption DEF CapInv
  <1> QED
    BY <1>1, <1>3, <1>6, <1>7 DEF IndInv

LEMMA NextInv == IndInv /\ [Next]_vars => IndInv'
  <1> SUFFICES ASSUME IndInv, [Next]_vars PROVE IndInv'
    OBVIOUS
  <1>1. ASSUME NEW c \in Conns,
               \/ Connect(c) \/ ReceiveSimple(c) \/ ReceiveRun(c) \/ Served(c)
               \/ Worker(c) \/ Reader(c)
        PROVE  IndInv'
    BY <1>1, AdmissionStep, AnswerStep, AcceptedStep, ReaderStep, ReceiveRunStep,
       CountAbandonedStep, GiveUpStep
    DEF Worker, Reader
  <1>2. CASE UNCHANGED vars
    BY <1>2 DEF vars, slots, reading, IndInv, TypeInv, ReaderInv, SlotsExact, AbandonedCounted,
                CapInv, GrantInv, Counted, Orphans, Waiting
  <1> QED
    BY <1>1, <1>2 DEF Next

\* In every reachable state the counters are the sizes of the sets they stand
\* for (acquire and drop of ConnectionSlot, UidSlot and AbandonedReads).
THEOREM Invariance == Spec => []IndInv
  BY InitInv, NextInv, PTL DEF Spec

\* No path through handle leaks a slot or a claim, or gives one back twice.
THEOREM SlotsAreExact == Spec => []SlotsExact
  <1>1. IndInv => SlotsExact
    BY DEF IndInv
  <1> QED
    BY <1>1, Invariance, PTL

LEMMA AbandonedBound ==
  ASSUME IndInv, NEW u \in Accounts
  PROVE  /\ abandoned[u] <= Cardinality(Conns)
         /\ abandoned[u] <= MaxAbandoned + MaxPerUid - 1
  <1>1. /\ Counted(u) \subseteq Conns /\ Orphans(u) \subseteq Conns
        /\ Counted(u) \cap Orphans(u) = {}
    BY DEF Counted, Orphans, IndInv, ReaderInv
  <1>2. /\ IsFiniteSet(Counted(u)) /\ Cardinality(Counted(u)) \in Nat
        /\ IsFiniteSet(Orphans(u)) /\ Cardinality(Orphans(u)) \in Nat
    BY <1>1, SubsetsFinite
  <1>3. Cardinality(Counted(u) \cup Orphans(u)) = Cardinality(Counted(u)) + Cardinality(Orphans(u))
    <2>1. Cardinality(Counted(u) \cap Orphans(u)) = 0
      BY <1>1, FS_EmptySet
    <2>2. Cardinality(Counted(u) \cup Orphans(u))
          = Cardinality(Counted(u)) + Cardinality(Orphans(u))
            - Cardinality(Counted(u) \cap Orphans(u))
      BY <1>2, FS_Union
    <2> QED
      BY <1>2, <2>1, <2>2
  <1>4. Cardinality(Counted(u) \cup Orphans(u)) <= Cardinality(Conns)
    BY <1>1, ConnsAssumption, FS_Subset
  <1>5. Cardinality(Waiting(u)) \in Nat
    BY SubsetsFinite DEF Waiting
  <1> QED
    BY <1>2, <1>3, <1>4, <1>5, LimitsAssumption DEF IndInv, AbandonedCounted, CapInv, TypeInv

\* The count of abandoned readers is that of the readers nobody waits for,
\* however an answer and its timeout cross (read_with_deadline), and stays
\* within the reads that may be under way of its cap.
THEOREM AbandonedIsExact == Spec => []AbandonedExact
  <1>1. IndInv => AbandonedExact
    BY AbandonedBound DEF IndInv, AbandonedCounted, AbandonedExact, Count, Counted, Orphans
  <1> QED
    BY <1>1, Invariance, PTL

\* Every counter stays within its limit, and only an acceptable spec is served.
THEOREM TypeCorrect == Spec => []TypeOK
  <1>1. IndInv => TypeOK
    <2> SUFFICES ASSUME IndInv PROVE TypeOK
      OBVIOUS
    <2>1. abandoned \in [Accounts -> 0..Cardinality(Conns)]
      <3>1. Cardinality(Conns) \in Nat
        BY ConnsAssumption, FS_CardinalityType
      <3>2. \A u \in Accounts : abandoned[u] \in 0..Cardinality(Conns)
        BY <3>1, AbandonedBound DEF IndInv, TypeInv
      <3> QED
        BY <3>2 DEF IndInv, TypeInv
    <2>2. \A c \in Conns : granted[c] \in Specs[c] \cup {{}}
      BY DEF IndInv, GrantInv, Acceptable
    <2> QED
      BY <2>1, <2>2 DEF IndInv, TypeInv, TypeOK
  <1> QED
    BY <1>1, Invariance, PTL

-------------------------------------------------------------------------------
(* What an accepted spec opens.  Two paths to one place are comparable: a   *)
(* granted directory with something of a home in it lies in that home or    *)
(* above it, and foreign_home_conflict looks both ways.                     *)

\* What each entry of an accepted spec opens: something of the caller's own
\* home, or a directory that was checked against every other.
LEMMA GrantsAreChecked ==
  ASSUME NEW u, NEW kind \in Kinds, NEW p \in Seq(STRING),
         IsDirectory(Home[u]), IsGrantable(u, kind, p)
  PROVE  LET d == GrantedPath(u, kind, p) IN
         /\ d \in Seq(STRING)
         /\ Within(d, Canonical(Home[u])) \/ ~ForeignHomeConflict(u, d)
  <1>1. Canonical(Home[u]) \in Seq(STRING)
    BY TreeAssumption DEF IsDirectory
  <1>2. CASE kind = "state_dir"
    BY <1>1, <1>2, WithinAppended DEF GrantedPath
  <1>3. CASE kind # "state_dir"
    <2>1. IsDirectory(p) /\ ~ForeignHomeConflict(u, Canonical(p))
      BY <1>3 DEF IsGrantable, IsWritableRoot, Kinds
    <2>2. Canonical(p) \in Seq(STRING)
      BY <2>1, TreeAssumption DEF IsDirectory
    <2> QED
      BY <1>3, <2>1, <2>2 DEF GrantedPath
  <1> QED
    BY <1>2, <1>3

\* The home of anybody else is among the roots a grant is checked against.
LEMMA OthersAreForeign ==
  ASSUME NEW u \in Accounts, NEW a \in OthersHomes(u)
  PROVE  /\ a \in Accounts /\ Home[a] \in Seq(STRING)
         /\ [path |-> Home[a], user |-> a \in Regular] \in Foreign(u)
  <1>1. /\ a \in Accounts /\ Home[a] \notin StubHomes \cup {Root}
        /\ ~Within(Home[a], Canonical(Home[u]))
    BY DEF OthersHomes
  <1>2. Home[a] \in Seq(STRING)
    BY <1>1, TreeAssumption
  <1>3. [path |-> Home[a], user |-> a \in Regular] \in HomeRoots
    BY <1>1 DEF HomeRoots
  <1> QED
    BY <1>1, <1>2, <1>3 DEF Foreign

LEMMA AcceptedStaysHome ==
  ASSUME NEW u \in Accounts, NEW spec, spec \subseteq Kinds \X Seq(STRING),
         IsAcceptable(u, spec)
  PROVE  ~Trespasses(u, spec)
  <1> DEFINE own == Canonical(Home[u])
             d(g) == GrantedPath(u, g[1], g[2])
  <1>1. own \in Seq(STRING)
    BY TreeAssumption DEF IsAcceptable, IsDirectory
  <1>2. ASSUME NEW g \in spec
        PROVE  /\ d(g) \in Seq(STRING)
               /\ Within(d(g), own) \/ ~ForeignHomeConflict(u, d(g))
    <2>1. g[1] \in Kinds /\ g[2] \in Seq(STRING)
      OBVIOUS
    <2>2. IsDirectory(Home[u]) /\ IsGrantable(u, g[1], g[2])
      BY DEF IsAcceptable
    <2> QED
      BY <2>1, <2>2, GrantsAreChecked
  <1>3. ASSUME NEW a \in OthersHomes(u), NEW g \in spec, ~Within(d(g), own)
        PROVE  ~Within(d(g), Home[a]) /\ (a \in Regular => ~Within(Home[a], d(g)))
    <2> DEFINE r == [path |-> Home[a], user |-> a \in Regular]
    <2>1. r \in Foreign(u) /\ r.path = Home[a] /\ (r.user <=> a \in Regular)
      BY OthersAreForeign
    <2>2. ~Below(u, d(g), r) /\ ~Above(d(g), r)
      BY <1>2, <1>3, <2>1 DEF ForeignHomeConflict
    <2> QED
      BY <1>3, <2>1, <2>2 DEF Below, Above
  <1>4. ASSUME NEW a \in OthersHomes(u), NEW g \in spec
        PROVE  ~Strays(u, a, d(g))
    BY <1>3 DEF Strays
  <1>5. ASSUME NEW a \in OthersHomes(u) \cap Regular, NEW e \in Reach(u, spec)
        PROVE  ~Strays(u, a, e)
    <2>1. PICK g \in spec : Within(e, d(g))
      BY DEF Reach
    <2>2. e \in Seq(STRING)
      BY TreeAssumption DEF Reach
    <2>3. Home[a] \in Seq(STRING)
      BY OthersAreForeign
    <2>4. CASE Within(d(g), own)
      BY <1>1, <1>2, <2>1, <2>2, <2>4, WithinTransitive DEF Strays
    <2>5. CASE ~Within(d(g), own) /\ Within(e, Home[a])
      <3>1. Within(d(g), Home[a]) \/ Within(Home[a], d(g))
        BY <1>2, <2>1, <2>2, <2>3, <2>5, Comparable
      <3> QED
        BY <1>3, <2>5, <3>1
    <2> QED
      BY <2>4, <2>5 DEF Strays
  <1> QED
    BY <1>4, <1>5 DEF Trespasses

\* Whatever the tree, its owners and its symlinks: no spec that is served
\* opens the home of another regular user, and no directory it is granted lies
\* in a home but the caller's (foreign_home_conflict, validate_launch).
THEOREM ServedGrantsStayHome == Spec => []GrantsStayHome
  <1>1. IndInv => GrantsStayHome
    <2> SUFFICES ASSUME IndInv, NEW c \in Conns
                 PROVE  ~(granted[c] \in Specs[c] /\ Trespasses(Uid[c], granted[c]))
      BY DEF GrantsStayHome, Trespassing
    <2>1. CASE granted[c] = {}
      BY <2>1 DEF Trespasses, Reach
    <2>2. CASE granted[c] \in Acceptable[c]
      <3>1. granted[c] \subseteq Kinds \X Seq(STRING) /\ IsAcceptable(Uid[c], granted[c])
        BY <2>2, SpecsAssumption DEF Acceptable
      <3>2. Uid[c] \in Accounts
        BY ConnsAssumption
      <3> QED
        BY <3>1, <3>2, AcceptedStaysHome
    <2> QED
      BY <2>1, <2>2 DEF IndInv, GrantInv
  <1> QED
    BY <1>1, Invariance, PTL
=============================================================================
