----------------------------- MODULE Firewall_proofs -----------------------------
(***************************************************************************)
(* Proofs about the guards, for any policy, any guards or launches and any *)
(* number of faults and deaths.                                            *)
(*                                                                         *)
(* 1. Rule lists (NetworkPolicy): a list of rules decides like the first   *)
(*    section that speaks about a packet, so the chain and the PF anchor   *)
(*    decide like the policy that has no order.                            *)
(* 2. The iptables guards (LinuxFirewall): FirewallInv says of every guard *)
(*    how far it has come in its list of commands and what these have made *)
(*    of its chains; that a chain which packets get to is empty or whole;  *)
(*    and that the list of a reaping helper covers what is in the tables.  *)
(* 3. What the program sees of these guards (GuardChains): every command   *)
(*    is a step of it or none.                                             *)
(* 4. The PF guards (PfGuard): whoever is between two of the helper's      *)
(*    commands holds its mutex, and the user then has no session; where    *)
(*    nobody disturbed a scope, the session counts at least the guards     *)
(*    that stand on it, so the last uninstall is really the last.          *)
(***************************************************************************)
EXTENDS LinuxFirewall, PfGuard, FiniteSetTheorems, SequenceTheorems, WellFoundedInduction, TLAPS

-------------------------------------------------------------------------------
(* Minima.                                                                  *)

Less == {p \in Nat \X Nat : p[1] < p[2]}

\* A nonempty set of naturals has a least element: Verdict's CHOOSE is defined.
LEMMA LeastElement ==
  ASSUME NEW S, S \subseteq Nat, S # {}
  PROVE  \E m \in S : \A n \in S : m <= n
  <1>1. IsWellFoundedOn(Less, Nat)
    BY NatLessThanWellFounded DEF OpToRel, Less
  <1>2. PICK m \in S : \A n \in S : ~ (<<n, m>> \in Less)
    BY <1>1, WFMin
  <1>3. ASSUME NEW n \in S PROVE m <= n
    <2>1. m \in Nat /\ n \in Nat /\ ~ (<<n, m>> \in Less)
      BY <1>2
    <2> QED
      BY <2>1 DEF Less
  <1> QED
    BY <1>3

-------------------------------------------------------------------------------
(* Lists of rules, of which the first match decides.                        *)

Speaks(rules, p) == \E i \in DOMAIN rules : Matches(rules[i], p)

\* Whatever in rules matches p has the one target.
Agree(rules, p, target) == \A i \in DOMAIN rules : Matches(rules[i], p) => rules[i].target = target

\* Verdict is the target of the first rule that matches.
LEMMA FirstMatch ==
  ASSUME NEW rules, rules \in Seq(FilterRules), NEW p, NEW otherwise
  PROVE  /\ ~Speaks(rules, p) => Verdict(rules, p, otherwise) = otherwise
         /\ Speaks(rules, p) =>
              \E i \in DOMAIN rules :
                /\ Matches(rules[i], p) /\ \A j \in 1..i - 1 : ~Matches(rules[j], p)
                /\ Verdict(rules, p, otherwise) = rules[i].target
  <1> DEFINE hits == {i \in DOMAIN rules : Matches(rules[i], p)}
  <1>1. ASSUME ~Speaks(rules, p) PROVE Verdict(rules, p, otherwise) = otherwise
    BY <1>1 DEF Speaks, Verdict
  <1>2. ASSUME Speaks(rules, p)
        PROVE  \E i \in DOMAIN rules :
                 /\ Matches(rules[i], p) /\ \A j \in 1..i - 1 : ~Matches(rules[j], p)
                 /\ Verdict(rules, p, otherwise) = rules[i].target
    <2>1. hits # {} /\ hits \subseteq Nat
      BY <1>2 DEF Speaks
    <2>2. \E i \in hits : \A j \in hits : i <= j
      BY <2>1, LeastElement
    <2> DEFINE first == CHOOSE i \in hits : \A j \in hits : i <= j
    <2>3. first \in hits /\ \A j \in hits : first <= j
      BY <2>2
    <2>4. Verdict(rules, p, otherwise) = rules[first].target
      BY <2>1 DEF Verdict
    <2>5. first \in DOMAIN rules /\ Matches(rules[first], p)
      BY <2>3
    <2>6. ASSUME NEW j \in 1..first - 1 PROVE ~Matches(rules[j], p)
      <3>1. first \in 1..Len(rules) /\ Len(rules) \in Nat
        BY <2>5
      <3> HIDE DEF first
      <3>2. j \in DOMAIN rules /\ ~(first <= j)
        BY <3>1
      <3>3. j \notin hits
        BY <3>2, <2>3
      <3> QED
        BY <3>2, <3>3
    <2> HIDE DEF first
    <2> QED
      BY <2>4, <2>5, <2>6
  <1> QED
    BY <1>1, <1>2

\* If every rule that matches has one target, that is the verdict.
LEMMA Agreeing ==
  ASSUME NEW rules, rules \in Seq(FilterRules), NEW p, NEW otherwise, NEW target,
         Agree(rules, p, target), Speaks(rules, p)
  PROVE  Verdict(rules, p, otherwise) = target
  BY FirstMatch DEF Agree

\* The first of two lists that speaks about p decides.
LEMMA Concatenated ==
  ASSUME NEW s, NEW t, s \in Seq(FilterRules), t \in Seq(FilterRules), NEW p, NEW otherwise
  PROVE  /\ s \o t \in Seq(FilterRules)
         /\ Speaks(s \o t, p) <=> Speaks(s, p) \/ Speaks(t, p)
         /\ Verdict(s \o t, p, otherwise) =
              IF Speaks(s, p) THEN Verdict(s, p, otherwise) ELSE Verdict(t, p, otherwise)
  <1>1. /\ s \o t \in Seq(FilterRules) /\ Len(s \o t) = Len(s) + Len(t)
        /\ Len(s) \in Nat /\ Len(t) \in Nat
        /\ DOMAIN s = 1..Len(s) /\ DOMAIN t = 1..Len(t) /\ DOMAIN (s \o t) = 1..Len(s) + Len(t)
    OBVIOUS
  <1>2. /\ \A i \in 1..Len(s) : (s \o t)[i] = s[i]
        /\ \A i \in 1..Len(t) : (s \o t)[Len(s) + i] = t[i]
    OBVIOUS
  <1>3. ASSUME NEW i \in DOMAIN (s \o t)
        PROVE  i \in DOMAIN s \/ (i > Len(s) /\ i - Len(s) \in DOMAIN t /\ (s \o t)[i] = t[i - Len(s)])
    BY <1>1, <1>2
  <1>4. Speaks(s \o t, p) <=> Speaks(s, p) \/ Speaks(t, p)
    <2>1. ASSUME Speaks(s, p) PROVE Speaks(s \o t, p)
      BY <1>1, <1>2, <2>1 DEF Speaks
    <2>2. ASSUME Speaks(t, p) PROVE Speaks(s \o t, p)
      <3>1. PICK i \in DOMAIN t : Matches(t[i], p)
        BY <2>2 DEF Speaks
      <3>2. Len(s) + i \in DOMAIN (s \o t) /\ (s \o t)[Len(s) + i] = t[i]
        BY <1>1, <1>2
      <3> QED
        BY <3>1, <3>2 DEF Speaks
    <2>3. ASSUME Speaks(s \o t, p) PROVE Speaks(s, p) \/ Speaks(t, p)
      <3>1. PICK i \in DOMAIN (s \o t) : Matches((s \o t)[i], p)
        BY <2>3 DEF Speaks
      <3>2. CASE i \in DOMAIN s
        BY <1>1, <1>2, <3>1, <3>2 DEF Speaks
      <3>3. CASE i \notin DOMAIN s
        BY <1>3, <3>1, <3>3 DEF Speaks
      <3> QED
        BY <3>2, <3>3
    <2> QED
      BY <2>1, <2>2, <2>3
  <1> DEFINE c == s \o t
  <1>b. c \in Seq(FilterRules)
    BY <1>1
  <1> HIDE DEF c
  <1>8. /\ ~Speaks(c, p) => Verdict(c, p, otherwise) = otherwise
        /\ Speaks(c, p) =>
             \E i \in DOMAIN c :
               /\ Matches(c[i], p) /\ \A j \in 1..i - 1 : ~Matches(c[j], p)
               /\ Verdict(c, p, otherwise) = c[i].target
    BY <1>b, FirstMatch
  <1>9. /\ ~Speaks(s, p) => Verdict(s, p, otherwise) = otherwise
        /\ Speaks(s, p) =>
             \E i \in DOMAIN s :
               /\ Matches(s[i], p) /\ \A j \in 1..i - 1 : ~Matches(s[j], p)
               /\ Verdict(s, p, otherwise) = s[i].target
    <2> DEFINE a == s
    <2>1. a \in Seq(FilterRules)
      OBVIOUS
    <2> HIDE DEF a
    <2>2. /\ ~Speaks(a, p) => Verdict(a, p, otherwise) = otherwise
          /\ Speaks(a, p) =>
               \E i \in DOMAIN a :
                 /\ Matches(a[i], p) /\ \A j \in 1..i - 1 : ~Matches(a[j], p)
                 /\ Verdict(a, p, otherwise) = a[i].target
      BY <2>1, FirstMatch
    <2> QED
      BY <2>2 DEF a
  <1>5. CASE ~Speaks(s \o t, p)
    <2>1. ~Speaks(s, p) /\ ~Speaks(t, p)
      BY <1>4, <1>5
    <2>2. Verdict(t, p, otherwise) = otherwise
      BY <2>1, FirstMatch
    <2>3. Verdict(c, p, otherwise) = otherwise
      BY <1>5, <1>8 DEF c
    <2> QED
      BY <1>1, <1>4, <2>1, <2>2, <2>3 DEF c
  <1>6. CASE Speaks(s, p)
    <2>1. PICK i \in DOMAIN s : /\ Matches(s[i], p) /\ \A j \in 1..i - 1 : ~Matches(s[j], p)
                                /\ Verdict(s, p, otherwise) = s[i].target
      BY <1>6, <1>9
    <2>2. PICK k \in DOMAIN c :
            /\ Matches(c[k], p) /\ \A j \in 1..k - 1 : ~Matches(c[j], p)
            /\ Verdict(c, p, otherwise) = c[k].target
      BY <1>4, <1>6, <1>8 DEF c
    <2>3. /\ c[i] = s[i] /\ i \in 1..Len(s) /\ k \in 1..Len(s) + Len(t)
          /\ \A j \in 1..Len(s) : c[j] = s[j]
      BY <1>1, <1>2 DEF c
    <2>4. ~(i < k)
      <3>1. i < k => i \in 1..k - 1
        BY <1>1, <2>3
      <3> QED
        BY <3>1, <2>1, <2>2, <2>3
    <2>5. ~(k < i)
      <3>1. k < i => k \in 1..i - 1 /\ k \in 1..Len(s)
        BY <2>3, <1>1
      <3> QED
        BY <3>1, <2>1, <2>2, <2>3
    <2>6. i = k
      BY <1>1, <2>3, <2>4, <2>5
    <2>7. Verdict(c, p, otherwise) = Verdict(s, p, otherwise)
      BY <2>1, <2>2, <2>3, <2>6
    <2> QED
      BY <1>1, <1>4, <1>6, <2>7 DEF c
  <1>7. CASE ~Speaks(s, p) /\ Speaks(t, p)
    <2>1. PICK i \in DOMAIN t : /\ Matches(t[i], p) /\ \A j \in 1..i - 1 : ~Matches(t[j], p)
                                /\ Verdict(t, p, otherwise) = t[i].target
      BY <1>7, FirstMatch
    <2>2. PICK k \in DOMAIN c :
            /\ Matches(c[k], p) /\ \A j \in 1..k - 1 : ~Matches(c[j], p)
            /\ Verdict(c, p, otherwise) = c[k].target
      BY <1>4, <1>7, <1>8 DEF c
    <2>3. /\ \A j \in 1..Len(s) : c[j] = s[j]
          /\ \A j \in 1..Len(t) : c[Len(s) + j] = t[j]
          /\ i \in 1..Len(t) /\ k \in 1..Len(s) + Len(t)
      BY <1>1, <1>2 DEF c
    <2>4. k > Len(s)
      <3>1. ~(k > Len(s)) => k \in 1..Len(s)
        BY <1>1, <2>3
      <3> QED
        BY <3>1, <1>1, <1>7, <2>2, <2>3 DEF Speaks
    <2> DEFINE n == k - Len(s)
    <2>5. n \in 1..Len(t) /\ k = Len(s) + n
      BY <1>1, <2>3, <2>4
    <2> HIDE DEF n
    <2>6. c[k] = t[n]
      BY <2>3, <2>5
    <2>7. ~(n < i)
      <3>1. n < i => n \in 1..i - 1
        BY <1>1, <2>3, <2>5
      <3> QED
        BY <3>1, <2>1, <2>2, <2>6
    <2>8. ~(i < n)
      <3>1. i < n => Len(s) + i \in 1..k - 1
        BY <1>1, <2>3, <2>5
      <3> QED
        BY <3>1, <2>1, <2>2, <2>3
    <2>9. i = n
      BY <1>1, <2>3, <2>5, <2>7, <2>8
    <2>10. Verdict(c, p, otherwise) = Verdict(t, p, otherwise)
      BY <2>1, <2>2, <2>6, <2>9
    <2> QED
      BY <1>1, <1>4, <1>7, <2>10 DEF c
  <1> QED
    BY <1>1, <1>4, <1>5, <1>6, <1>7

\* What FlattenSeq makes of a sequence of sequences: their elements.
IsFlatten(flatten, seqs) ==
  flatten = [i \in 1..Len(seqs) |-> IF i = 1 THEN seqs[i] ELSE flatten[i - 1] \o seqs[i]]

\* The rules of list are those of the first n lists in seqs.
Collects(list, seqs, n) ==
  /\ list \in Seq(FilterRules)
  /\ \A r : (\E k \in DOMAIN list : list[k] = r)
              <=> \E i \in 1..n : \E j \in DOMAIN seqs[i] : seqs[i][j] = r

\* FlattenSeq, which folds from the left, by induction on its length.
LEMMA FlattenFrom ==
  ASSUME NEW seqs, seqs \in Seq(Seq(FilterRules)), NEW flatten, IsFlatten(flatten, seqs)
  PROVE  \A n \in 1..Len(seqs) : Collects(flatten[n], seqs, n)
  <1> DEFINE Good(n) ==
        /\ flatten[n] \in Seq(FilterRules)
        /\ \A r : (\E k \in DOMAIN flatten[n] : flatten[n][k] = r)
                    <=> \E i \in 1..n : \E j \in DOMAIN seqs[i] : seqs[i][j] = r
             bad == {n \in 1..Len(seqs) : ~Good(n)}
  <1>0. Len(seqs) \in Nat /\ \A i \in 1..Len(seqs) : seqs[i] \in Seq(FilterRules)
    OBVIOUS
  <1>1. SUFFICES ASSUME bad # {} PROVE FALSE
    BY DEF Collects
  <1>2. PICK m \in bad : \A n \in bad : m <= n
    BY <1>0, <1>1, LeastElement, bad \subseteq Nat
  <1>3. m \in 1..Len(seqs) /\ ~Good(m)
    OBVIOUS
  <1>4. flatten[m] = IF m = 1 THEN seqs[m] ELSE flatten[m - 1] \o seqs[m]
    BY <1>3 DEF IsFlatten
  <1>5. CASE m = 1
    BY <1>0, <1>3, <1>4, <1>5
  <1>6. CASE m # 1
    <2>1. m - 1 \in 1..Len(seqs) /\ m - 1 < m /\ m \in Nat
      BY <1>0, <1>3, <1>6
    <2>2. Good(m - 1)
      <3>1. m - 1 \notin bad
        <4>1. ~(m <= m - 1)
          BY <2>1
        <4> HIDE DEF bad
        <4> QED
          BY <4>1, <1>2
      <3> QED
        BY <2>1, <3>1
    <2> HIDE DEF Good
    <2> DEFINE s == flatten[m - 1]  t == seqs[m]
    <2>3. s \in Seq(FilterRules) /\ t \in Seq(FilterRules) /\ flatten[m] = s \o t
      BY <1>0, <1>3, <1>4, <1>6, <2>2 DEF Good
    <2> HIDE DEF s, t
    <2>4. flatten[m] \in Seq(FilterRules) /\ DOMAIN flatten[m] = 1..Len(s) + Len(t)
          /\ Len(s) \in Nat /\ Len(t) \in Nat /\ DOMAIN s = 1..Len(s) /\ DOMAIN t = 1..Len(t)
      BY <2>3
    <2>5. /\ \A i \in 1..Len(s) : flatten[m][i] = s[i]
          /\ \A i \in 1..Len(t) : flatten[m][Len(s) + i] = t[i]
      BY <2>3
    <2>6. ASSUME NEW r
          PROVE  (\E k \in DOMAIN flatten[m] : flatten[m][k] = r)
                   <=> (\E k \in DOMAIN s : s[k] = r) \/ (\E k \in DOMAIN t : t[k] = r)
      <3>1. ASSUME NEW k \in DOMAIN flatten[m], flatten[m][k] = r
            PROVE  (\E j \in DOMAIN s : s[j] = r) \/ (\E j \in DOMAIN t : t[j] = r)
        <4>1. k \in 1..Len(s) \/ (k - Len(s) \in 1..Len(t) /\ k = Len(s) + (k - Len(s)))
          BY <2>4
        <4> QED
          BY <2>4, <2>5, <3>1, <4>1
      <3>2. ASSUME NEW k \in DOMAIN s PROVE k \in DOMAIN flatten[m] /\ flatten[m][k] = s[k]
        <4>1. k \in 1..Len(s)
          BY <2>4
        <4>2. flatten[m][k] = s[k]
          BY <4>1, <2>5
        <4>3. k \in 1..Len(s) + Len(t)
          BY <4>1, <2>4
        <4> QED
          BY <4>2, <4>3, <2>4
      <3>3. ASSUME NEW k \in DOMAIN t
            PROVE  Len(s) + k \in DOMAIN flatten[m] /\ flatten[m][Len(s) + k] = t[k]
        BY <2>4, <2>5
      <3> QED
        BY <3>1, <3>2, <3>3
    <2>7. ASSUME NEW r
          PROVE  (\E k \in DOMAIN flatten[m] : flatten[m][k] = r)
                   <=> \E i \in 1..m : \E j \in DOMAIN seqs[i] : seqs[i][j] = r
      <3>1. (\E k \in DOMAIN s : s[k] = r) <=> \E i \in 1..(m - 1) : \E j \in DOMAIN seqs[i] : seqs[i][j] = r
        BY <2>2 DEF Good, s
      <3>2. 1..m = 1..(m - 1) \cup {m}
        BY <2>1
      <3> QED
        BY <2>6, <3>1, <3>2 DEF t
    <2>8. Good(m)
      BY <2>4, <2>7 DEF Good
    <2> QED
      BY <1>3, <2>8 DEF Good
  <1> QED
    BY <1>5, <1>6

LEMMA FlattenExists ==
  ASSUME NEW seqs, Len(seqs) \in Nat
  PROVE  \E flatten : IsFlatten(flatten, seqs)
  <1> DEFINE IsUpTo(k, n) ==
               k = [i \in 1..n |-> IF i = 1 THEN seqs[i] ELSE k[i - 1] \o seqs[i]]
             S == {n \in Nat : n <= Len(seqs) /\ ~ \E k : IsUpTo(k, n)}
  <1>1. SUFFICES ASSUME S # {} PROVE FALSE
    <2>1. S = {} => Len(seqs) \notin S
      OBVIOUS
    <2>2. Len(seqs) \notin S => \E k : IsUpTo(k, Len(seqs))
      <3>1. Len(seqs) <= Len(seqs)
        OBVIOUS
      <3> HIDE DEF IsUpTo
      <3> QED
        BY <3>1
    <2>3. ASSUME NEW k, IsUpTo(k, Len(seqs)) PROVE IsFlatten(k, seqs)
      BY <2>3 DEF IsFlatten
    <2> HIDE DEF S, IsUpTo
    <2> QED
      BY <2>1, <2>2, <2>3
  <1>2. PICK m \in S : \A n \in S : m <= n
    BY <1>1, LeastElement
  <1>3. m # 0
    <2>1. IsUpTo([i \in 1..0 |-> <<>>], 0)
      OBVIOUS
    <2> QED
      BY <2>1, <1>2
  <1>4. PICK k : IsUpTo(k, m - 1)
    <2>1. m - 1 \in Nat /\ m - 1 <= Len(seqs) /\ ~ (m <= m - 1)
      BY <1>2, <1>3
    <2> QED
      BY <2>1, <1>2
  <1> DEFINE e == [i \in 1..m |->
                     IF i = m THEN (IF m = 1 THEN seqs[m] ELSE k[m - 1] \o seqs[m]) ELSE k[i]]
  <1>5. IsUpTo(e, m)
    <2>1. \A i \in 1..m - 1 : k[i] = IF i = 1 THEN seqs[i] ELSE k[i - 1] \o seqs[i]
      BY <1>4
    <2>2. m \in Nat /\ \A i \in 1..m : i # m => i \in 1..m - 1
      BY <1>2
    <2>3. \A i \in 1..m : i # 1 => i - 1 \in 1..m /\ i - 1 # m
      BY <1>2
    <2>4. \A i \in 1..m : e[i] = IF i = 1 THEN seqs[i] ELSE e[i - 1] \o seqs[i]
      BY <1>3, <2>1, <2>2, <2>3
    <2> QED
      BY <2>4
  <1> QED
    BY <1>2, <1>5

\* The rules of a flattened sequence are those of its elements.
LEMMA FlattenSeqRules ==
  ASSUME NEW seqs, seqs \in Seq(Seq(FilterRules))
  PROVE  /\ FlattenSeq(seqs) \in Seq(FilterRules)
         /\ \A r : (\E k \in DOMAIN FlattenSeq(seqs) : FlattenSeq(seqs)[k] = r)
                     <=> \E i \in DOMAIN seqs : \E j \in DOMAIN seqs[i] : seqs[i][j] = r
  <1> DEFINE flatten == CHOOSE k : IsFlatten(k, seqs)
  <1>0. Len(seqs) \in Nat /\ DOMAIN seqs = 1..Len(seqs)
    OBVIOUS
  <1>1. IsFlatten(flatten, seqs)
    BY <1>0, FlattenExists
  <1>2. CASE Len(seqs) = 0
    <2>1. seqs = <<>> /\ FlattenSeq(seqs) = seqs /\ DOMAIN seqs = {}
      BY <1>2 DEF FlattenSeq
    <2>2. <<>> \in Seq(FilterRules)
      OBVIOUS
    <2> QED
      BY <2>1, <2>2
  <1>3. CASE Len(seqs) # 0
    <2>1. FlattenSeq(seqs) = flatten[Len(seqs)]
      BY <1>3 DEF FlattenSeq, IsFlatten
    <2> HIDE DEF flatten
    <2>2. Len(seqs) \in 1..Len(seqs)
      BY <1>0, <1>3
    <2>3. /\ flatten[Len(seqs)] \in Seq(FilterRules)
          /\ \A r : (\E k \in DOMAIN flatten[Len(seqs)] : flatten[Len(seqs)][k] = r)
                      <=> \E i \in 1..Len(seqs) : \E j \in DOMAIN seqs[i] : seqs[i][j] = r
      <3> DEFINE a == seqs
      <3>1. a \in Seq(Seq(FilterRules)) /\ IsFlatten(flatten, a) /\ Len(a) \in 1..Len(a)
        BY <1>1, <2>2
      <3> HIDE DEF a
      <3>2. Collects(flatten[Len(a)], a, Len(a))
        BY <3>1, FlattenFrom
      <3> QED
        BY <3>2 DEF a, Collects
    <2> QED
      BY <1>0, <2>1, <2>3
  <1> QED
    BY <1>2, <1>3
\* ForEach, for the lists of two kinds of rule lists.
LEMMA Flattened ==
  ASSUME NEW seqs, seqs \in Seq(Seq(FilterRules)), NEW p
  PROVE  /\ FlattenSeq(seqs) \in Seq(FilterRules)
         /\ Speaks(FlattenSeq(seqs), p) <=> \E i \in DOMAIN seqs : Speaks(seqs[i], p)
         /\ \A target : (\A i \in DOMAIN seqs : Agree(seqs[i], p, target))
                         => Agree(FlattenSeq(seqs), p, target)
  <1> DEFINE l == FlattenSeq(seqs)
  <1>1. /\ l \in Seq(FilterRules)
        /\ \A r : (\E k \in DOMAIN l : l[k] = r)
                    <=> \E i \in DOMAIN seqs : \E j \in DOMAIN seqs[i] : seqs[i][j] = r
    BY FlattenSeqRules
  <1> HIDE DEF l
  <1>2. Speaks(l, p) <=> \E i \in DOMAIN seqs : Speaks(seqs[i], p)
    <2>1. ASSUME Speaks(l, p) PROVE \E i \in DOMAIN seqs : Speaks(seqs[i], p)
      <3>1. PICK k \in DOMAIN l : Matches(l[k], p)
        BY <2>1 DEF Speaks
      <3> QED
        BY <3>1, <1>1, Zenon DEF Speaks
    <2>2. ASSUME NEW i \in DOMAIN seqs, Speaks(seqs[i], p) PROVE Speaks(l, p)
      <3>1. PICK j \in DOMAIN seqs[i] : Matches(seqs[i][j], p)
        BY <2>2 DEF Speaks
      <3> QED
        BY <3>1, <1>1, Zenon DEF Speaks
    <2> QED
      BY <2>1, <2>2
  <1>3. ASSUME NEW target, \A i \in DOMAIN seqs : Agree(seqs[i], p, target)
        PROVE  Agree(l, p, target)
    <2>1. SUFFICES ASSUME NEW k \in DOMAIN l, Matches(l[k], p) PROVE l[k].target = target
      BY DEF Agree
    <2>2. PICK i \in DOMAIN seqs : \E j \in DOMAIN seqs[i] : seqs[i][j] = l[k]
      BY <1>1, Zenon
    <2> QED
      BY <1>3, <2>1, <2>2, Zenon DEF Agree
  <1> QED
    BY <1>1, <1>2, <1>3 DEF l

\* A list of one rule.
LEMMA OneRule ==
  ASSUME NEW r, r \in FilterRules, NEW p
  PROVE  /\ <<r>> \in Seq(FilterRules)
         /\ Speaks(<<r>>, p) <=> Matches(r, p)
         /\ Agree(<<r>>, p, r.target)
         /\ Matches(r, p) => \A otherwise : Verdict(<<r>>, p, otherwise) = r.target
  <1>1. <<r>> \in Seq(FilterRules) /\ DOMAIN <<r>> = {1} /\ <<r>>[1] = r
    OBVIOUS
  <1> DEFINE s == <<r>>
  <1>2. s \in Seq(FilterRules) /\ DOMAIN s = {1} /\ s[1] = r
    BY <1>1
  <1> HIDE DEF s
  <1>3. Speaks(s, p) <=> Matches(r, p)
    BY <1>2 DEF Speaks
  <1>4. Agree(s, p, r.target)
    BY <1>2 DEF Agree
  <1>5. ASSUME Matches(r, p), NEW otherwise PROVE Verdict(s, p, otherwise) = r.target
    BY <1>2, <1>3, <1>4, <1>5, Agreeing
  <1> QED
    BY <1>2, <1>3, <1>4, <1>5 DEF s

LEMMA NoRule ==
  ASSUME NEW p, NEW target
  PROVE  <<>> \in Seq(FilterRules) /\ ~Speaks(<<>>, p) /\ Agree(<<>>, p, target)
  <1>1. <<>> \in Seq(FilterRules) /\ DOMAIN <<>> = {}
    OBVIOUS
  <1> QED
    BY <1>1 DEF Speaks, Agree

-------------------------------------------------------------------------------
(* Rules.                                                                   *)

Targets == {"RETURN", "REJECT", "pass", "block", "reroute"}

LEMMA RuleMatches ==
  ASSUME NEW dst \in SUBSET (V4 \cup V6), NEW out \in SUBSET Interfaces,
         NEW proto \in SUBSET Protocols, NEW ports \in SUBSET Ports,
         NEW target \in Targets, NEW p
  PROVE  /\ Rule(dst, out, proto, ports, target) \in FilterRules
         /\ Rule(dst, out, proto, ports, target).target = target
         /\ Matches(Rule(dst, out, proto, ports, target), p) <=>
              p.dst \in dst /\ p.out \in out /\ p.proto \in proto /\ p.port \in ports
  BY DEF Rule, FilterRules, Targets, Matches

-------------------------------------------------------------------------------
(* Destinations.                                                            *)

\* The rules of a destination match what it hits, on the interfaces given.
LEMMA DestinationMatches ==
  ASSUME NEW d \in DestRules, NEW out \in SUBSET Interfaces,
         NEW target \in Targets, NEW p \in Packets
  PROVE  /\ DestinationRules(d, out, target) \in Seq(FilterRules)
         /\ Speaks(DestinationRules(d, out, target), p) <=> Hit(d, p) /\ p.out \in out
         /\ Agree(DestinationRules(d, out, target), p, target)
  <1> DEFINE R(proto, ports) == Rule(d.net, out, proto, ports, target)
  <1>0. /\ d.net \in SUBSET (V4 \cup V6) /\ d.ports \in SUBSET Ports
        /\ p.port \in Ports /\ p.proto \in Protocols
    BY DEF DestRules, Packets
  <1>1. ASSUME NEW proto \in SUBSET Protocols, NEW ports \in SUBSET Ports
        PROVE  /\ R(proto, ports) \in FilterRules
               /\ R(proto, ports).target = target
               /\ Matches(R(proto, ports), p) <=>
                    p.dst \in d.net /\ p.out \in out /\ p.proto \in proto /\ p.port \in ports
    BY <1>0, RuleMatches
  <1>2. CASE d.ports = AnyPort
    <2>1. DestinationRules(d, out, target) = <<R(Protocols, Ports)>>
      BY <1>2 DEF DestinationRules, ChainRule
    <2>2. Hit(d, p) <=> p.dst \in d.net
      BY <1>2 DEF Hit
    <2>3. Matches(R(Protocols, Ports), p) <=> Hit(d, p) /\ p.out \in out
      BY <1>0, <1>1, <2>2
    <2>4. R(Protocols, Ports) \in FilterRules /\ R(Protocols, Ports).target = target
      BY <1>1
    <2> HIDE DEF R
    <2> QED
      BY <2>1, <2>3, <2>4, OneRule
  <1>3. CASE d.ports # AnyPort
    <2> DEFINE tcp == R({"tcp"}, d.ports)  udp == R({"udp"}, d.ports)
    <2>1. DestinationRules(d, out, target) = <<tcp, udp>>
      BY <1>3 DEF DestinationRules
    <2>2. Hit(d, p) <=> p.dst \in d.net /\ p.proto \in {"tcp", "udp"} /\ p.port \in d.ports
      BY <1>3 DEF Hit
    <2>3. Matches(tcp, p) \/ Matches(udp, p) <=> Hit(d, p) /\ p.out \in out
      <3>1. {"tcp"} \in SUBSET Protocols /\ {"udp"} \in SUBSET Protocols
        BY DEF Protocols
      <3>2. Matches(tcp, p) <=>
              p.dst \in d.net /\ p.out \in out /\ p.proto = "tcp" /\ p.port \in d.ports
        BY <1>0, <1>1, <3>1
      <3>3. Matches(udp, p) <=>
              p.dst \in d.net /\ p.out \in out /\ p.proto = "udp" /\ p.port \in d.ports
        BY <1>0, <1>1, <3>1
      <3> HIDE DEF R
      <3> QED
        BY <2>2, <3>2, <3>3
    <2>4. tcp \in FilterRules /\ udp \in FilterRules /\ tcp.target = target /\ udp.target = target
      BY <1>0, <1>1 DEF Protocols
    <2> HIDE DEF R, tcp, udp
    <2> DEFINE s == <<tcp, udp>>
    <2>5. s \in Seq(FilterRules) /\ DOMAIN s = {1, 2} /\ s[1] = tcp /\ s[2] = udp
      BY <2>4
    <2> HIDE DEF s
    <2>6. Speaks(s, p) <=> Matches(tcp, p) \/ Matches(udp, p)
      BY <2>5 DEF Speaks
    <2>7. Agree(s, p, target)
      BY <2>4, <2>5 DEF Agree
    <2> QED
      BY <2>1, <2>3, <2>5, <2>6, <2>7 DEF s
  <1> QED
    BY <1>2, <1>3

\* A list of destinations, rendered for the packet's family.
Rendered(f, ds, out, target) ==
  [i \in DOMAIN ds |-> OfFamily(f, ds[i].net, DestinationRules(ds[i], out, target))]

\* The address of a packet lies in its family only.
LEMMA FamilyHolds ==
  ASSUME NEW p \in Packets, NEW addresses \in (SUBSET V4) \cup (SUBSET V6), p.dst \in addresses
  PROVE  addresses \subseteq Addresses(FamilyOf(p))
  BY PolicyAssumption DEF Packets, FamilyOf, Addresses

\* A section of destinations speaks about what one of them hits.
LEMMA SectionMatches ==
  ASSUME NEW ds, ds \in Seq(DestRules), NEW out \in SUBSET Interfaces,
         NEW target \in Targets, NEW p \in Packets
  PROVE  /\ Destinations(FamilyOf(p), ds, out, target) \in Seq(FilterRules)
         /\ Speaks(Destinations(FamilyOf(p), ds, out, target), p) <=> HitAny(ds, p) /\ p.out \in out
         /\ Agree(Destinations(FamilyOf(p), ds, out, target), p, target)
  <1> DEFINE f == FamilyOf(p)
             seqs == Rendered(f, ds, out, target)
  <1>0. f \in Families
    BY DEF FamilyOf, Families
  <1>1. ASSUME NEW i \in DOMAIN ds
        PROVE  /\ seqs[i] \in Seq(FilterRules)
               /\ Speaks(seqs[i], p) <=> Hit(ds[i], p) /\ p.out \in out
               /\ Agree(seqs[i], p, target)
    <2>1. ds[i] \in DestRules /\ ds[i].net \in (SUBSET V4) \cup (SUBSET V6)
      <3>1. ds[i] \in DestRules
        OBVIOUS
      <3> QED
        BY <3>1 DEF DestRules
    <2> DEFINE d == ds[i]  rules == DestinationRules(d, out, target)
    <2>2. seqs[i] = OfFamily(f, d.net, rules)
      BY DEF Rendered
    <2>3. /\ rules \in Seq(FilterRules)
          /\ Speaks(rules, p) <=> Hit(d, p) /\ p.out \in out
          /\ Agree(rules, p, target)
      BY <1>0, <2>1, DestinationMatches
    <2>4. Hit(d, p) => d.net \subseteq Addresses(f)
      <3>1. Hit(d, p) => p.dst \in d.net
        BY DEF Hit
      <3> QED
        BY <2>1, <3>1, FamilyHolds
    <2> HIDE DEF d, rules, seqs, f
    <2>5. CASE d.net \subseteq Addresses(f)
      BY <2>2, <2>3, <2>5 DEF OfFamily, d
    <2>6. CASE ~(d.net \subseteq Addresses(f))
      <3>1. seqs[i] = <<>> /\ ~Hit(d, p)
        BY <2>2, <2>4, <2>6 DEF OfFamily
      <3> QED
        BY <3>1, NoRule DEF d
    <2> QED
      BY <2>5, <2>6
  <1>2. seqs \in Seq(Seq(FilterRules)) /\ DOMAIN seqs = DOMAIN ds
    <2>1. DOMAIN ds = 1..Len(ds) /\ Len(ds) \in Nat
      OBVIOUS
    <2>2. seqs = [i \in 1..Len(ds) |-> seqs[i]]
      BY <2>1 DEF Rendered
    <2> HIDE DEF seqs
    <2> QED
      BY <1>1, <2>1, <2>2
  <1> HIDE DEF seqs, f
  <1>3. /\ FlattenSeq(seqs) \in Seq(FilterRules)
        /\ Speaks(FlattenSeq(seqs), p) <=> \E i \in DOMAIN seqs : Speaks(seqs[i], p)
        /\ (\A i \in DOMAIN seqs : Agree(seqs[i], p, target)) => Agree(FlattenSeq(seqs), p, target)
    BY <1>2, Flattened
  <1>4. Speaks(FlattenSeq(seqs), p) <=> HitAny(ds, p) /\ p.out \in out
    BY <1>1, <1>2, <1>3 DEF HitAny
  <1> QED
    <2>1. FlattenSeq(seqs) = Destinations(f, ds, out, target)
      BY DEF seqs, Rendered, Destinations, ForEach
    <2> QED
      BY <1>1, <1>2, <1>3, <1>4, <2>1 DEF f
\* The LAN section speaks about the packets for a LAN.
LEMMA LanBlocksMatch ==
  ASSUME NEW p \in Packets
  PROVE  /\ LanBlocks(FamilyOf(p)) \in Seq(FilterRules)
         /\ Speaks(LanBlocks(FamilyOf(p)), p) <=> InLan(p)
         /\ Agree(LanBlocks(FamilyOf(p)), p, "REJECT")
  <1> DEFINE f == FamilyOf(p)
             R(lan) == ChainRule(lan, Interfaces, "REJECT")
             seqs == [i \in DOMAIN Lans |-> OfFamily(f, Lans[i], <<R(Lans[i])>>)]
  <1>0. Lans \in Seq((SUBSET V4) \cup (SUBSET V6)) /\ DOMAIN Lans = 1..Len(Lans) /\ Len(Lans) \in Nat
    BY PolicyAssumption
  <1>1. ASSUME NEW i \in DOMAIN Lans
        PROVE  /\ seqs[i] \in Seq(FilterRules)
               /\ Speaks(seqs[i], p) <=> p.dst \in Lans[i]
               /\ Agree(seqs[i], p, "REJECT")
    <2> DEFINE lan == Lans[i]
    <2>1. lan \in (SUBSET V4) \cup (SUBSET V6)
      BY <1>0
    <2>2. seqs[i] = OfFamily(f, lan, <<R(lan)>>)
      OBVIOUS
    <2> HIDE DEF lan
    <2>3. /\ R(lan) \in FilterRules /\ R(lan).target = "REJECT"
          /\ Matches(R(lan), p) <=> p.dst \in lan
      <3>1. /\ lan \in SUBSET (V4 \cup V6) /\ "REJECT" \in Targets
            /\ p.out \in Interfaces /\ p.proto \in Protocols /\ p.port \in Ports
        BY <2>1 DEF Targets, Packets
      <3> QED
        BY <3>1, RuleMatches DEF ChainRule
    <2> HIDE DEF R, seqs, f
    <2>4. CASE lan \subseteq Addresses(f)
      <3>1. seqs[i] = <<R(lan)>>
        BY <2>2, <2>4 DEF OfFamily
      <3>2. /\ seqs[i] \in Seq(FilterRules)
            /\ Speaks(seqs[i], p) <=> p.dst \in lan
            /\ Agree(seqs[i], p, "REJECT")
        BY <2>3, <3>1, OneRule
      <3> QED
        BY <3>2 DEF lan
    <2>5. CASE ~(lan \subseteq Addresses(f))
      <3>1. seqs[i] = <<>> /\ p.dst \notin lan
        BY <2>1, <2>2, <2>5, FamilyHolds DEF OfFamily, f
      <3> QED
        BY <3>1, NoRule DEF lan
    <2> QED
      BY <2>4, <2>5
  <1>2. seqs \in Seq(Seq(FilterRules)) /\ DOMAIN seqs = DOMAIN Lans
    <2>1. seqs = [i \in 1..Len(Lans) |-> seqs[i]]
      BY <1>0
    <2> HIDE DEF seqs
    <2> QED
      BY <1>0, <1>1, <2>1
  <1> HIDE DEF seqs, f
  <1>3. /\ FlattenSeq(seqs) \in Seq(FilterRules)
        /\ Speaks(FlattenSeq(seqs), p) <=> \E i \in DOMAIN seqs : Speaks(seqs[i], p)
        /\ (\A i \in DOMAIN seqs : Agree(seqs[i], p, "REJECT")) => Agree(FlattenSeq(seqs), p, "REJECT")
    BY <1>2, Flattened
  <1>4. Speaks(FlattenSeq(seqs), p) <=> InLan(p)
    BY <1>1, <1>2, <1>3 DEF InLan
  <1>5. FlattenSeq(seqs) = LanBlocks(f)
    BY DEF seqs, LanBlocks, ForEach
  <1> QED
    BY <1>1, <1>2, <1>3, <1>4, <1>5 DEF f

-------------------------------------------------------------------------------
(* The chain, section by section.                                           *)

\* A section that has one target for p, after what comes before it.
LEMMA SectionAppended ==
  ASSUME NEW before, NEW section, NEW p, NEW target, NEW otherwise,
         before \in Seq(FilterRules), section \in Seq(FilterRules), Agree(section, p, target)
  PROVE  /\ before \o section \in Seq(FilterRules)
         /\ Speaks(before \o section, p) <=> Speaks(before, p) \/ Speaks(section, p)
         /\ Verdict(before \o section, p, otherwise) =
              IF Speaks(before, p) THEN Verdict(before, p, otherwise)
              ELSE IF Speaks(section, p) THEN target ELSE otherwise
  <1> DEFINE s == section
  <1>1. s \in Seq(FilterRules) /\ Agree(s, p, target)
    OBVIOUS
  <1> HIDE DEF s
  <1>2. Speaks(s, p) => Verdict(s, p, otherwise) = target
    BY <1>1, Agreeing
  <1>3. ~Speaks(s, p) => Verdict(s, p, otherwise) = otherwise
    BY <1>1, FirstMatch
  <1> DEFINE b == before
  <1>4. b \in Seq(FilterRules)
    OBVIOUS
  <1> HIDE DEF b
  <1>5. /\ b \o s \in Seq(FilterRules)
        /\ Speaks(b \o s, p) <=> Speaks(b, p) \/ Speaks(s, p)
        /\ Verdict(b \o s, p, otherwise) =
              IF Speaks(b, p) THEN Verdict(b, p, otherwise) ELSE Verdict(s, p, otherwise)
    BY <1>1, <1>4, Concatenated, SMTT(20)
  <1>6. Verdict(b \o s, p, otherwise) =
          IF Speaks(b, p) THEN Verdict(b, p, otherwise)
          ELSE IF Speaks(s, p) THEN target ELSE otherwise
    BY <1>2, <1>3, <1>5
  <1> QED
    BY <1>5, <1>6 DEF s, b

\* What the constants' assumption says of a rule set.
SoundRuleSet(rs) ==
  /\ rs.interface \in {Vpn, ProxyOnly} /\ rs.gateway \in BOOLEAN
  /\ rs.network \in NetworkPolicies

\* A rule of the chain is about addresses and interfaces only.
LEMMA ChainRuleMatches ==
  ASSUME NEW dst, NEW out, NEW target, NEW p,
         dst \in SUBSET (V4 \cup V6), out \in SUBSET Interfaces, target \in Targets, p \in Packets
  PROVE  /\ ChainRule(dst, out, target) \in FilterRules
         /\ ChainRule(dst, out, target).target = target
         /\ Matches(ChainRule(dst, out, target), p) <=> p.dst \in dst /\ p.out \in out
  <1>1. /\ Protocols \in SUBSET Protocols /\ Ports \in SUBSET Ports
        /\ p.proto \in Protocols /\ p.port \in Ports
    BY DEF Packets
  <1>2. /\ Rule(dst, out, Protocols, Ports, target) \in FilterRules
        /\ Rule(dst, out, Protocols, Ports, target).target = target
        /\ Matches(Rule(dst, out, Protocols, Ports, target), p) <=>
             p.dst \in dst /\ p.out \in out /\ p.proto \in Protocols /\ p.port \in Ports
    BY <1>1, RuleMatches
  <1> QED
    BY <1>1, <1>2 DEF ChainRule

\* Loopback comes first.
LEMMA LoopbackMatches ==
  ASSUME NEW p \in Packets
  PROVE  /\ ToLoopback(FamilyOf(p)) \in Seq(FilterRules)
         /\ Speaks(ToLoopback(FamilyOf(p)), p) <=> p.out = "lo"
         /\ Agree(ToLoopback(FamilyOf(p)), p, "RETURN")
         /\ Rest(FamilyOf(p)) \in Seq(FilterRules)
         /\ Speaks(Rest(FamilyOf(p)), p)
         /\ Agree(Rest(FamilyOf(p)), p, "REJECT")
  <1> DEFINE f == FamilyOf(p)
             lo == ChainRule(Addresses(f), {"lo"}, "RETURN")
             rest == ChainRule(Addresses(f), Interfaces, "REJECT")
  <1>1. /\ Addresses(f) \in SUBSET (V4 \cup V6) /\ p.dst \in Addresses(f)
        /\ {"lo"} \in SUBSET Interfaces /\ "REJECT" \in Targets /\ "RETURN" \in Targets
        /\ p.out \in Interfaces /\ p.proto \in Protocols /\ p.port \in Ports
    BY DEF Targets, Packets, FamilyOf, Addresses, Interfaces
  <1>2. lo \in FilterRules /\ lo.target = "RETURN" /\ (Matches(lo, p) <=> p.out = "lo")
    <2> DEFINE out == {"lo"}
    <2>1. out \in SUBSET Interfaces /\ lo = ChainRule(Addresses(f), out, "RETURN")
      BY <1>1
    <2>2. p.out \in out <=> p.out = "lo"
      OBVIOUS
    <2> HIDE DEF out, lo, f
    <2> QED
      BY <1>1, <2>1, <2>2, ChainRuleMatches
  <1>3. rest \in FilterRules /\ rest.target = "REJECT" /\ Matches(rest, p)
    BY <1>1, RuleMatches DEF ChainRule
  <1>4. ToLoopback(f) = <<lo>> /\ Rest(f) = <<rest>>
    BY DEF ToLoopback, Rest
  <1> HIDE DEF lo, rest, f
  <1> QED
    BY <1>2, <1>3, <1>4, OneRule DEF f

\* The last section of the chain before the final REJECT.
LEMMA TailMatches ==
  ASSUME NEW rs, SoundRuleSet(rs), NEW p \in Packets
  PROVE  /\ ChainTail(rs, FamilyOf(p)) \in Seq(FilterRules)
         /\ Speaks(ChainTail(rs, FamilyOf(p)), p) <=>
              /\ ~IsProxyOnly(rs) /\ p.out = rs.interface
              /\ rs.network.default = "allow" \/ HitAny(rs.network.allow, p)
         /\ Agree(ChainTail(rs, FamilyOf(p)), p, "RETURN")
  <1> DEFINE f == FamilyOf(p)
  <1>1. CASE IsProxyOnly(rs)
    BY <1>1, NoRule DEF ChainTail
  <1>2. ASSUME ~IsProxyOnly(rs) PROVE {rs.interface} \in SUBSET Interfaces
    BY <1>2 DEF SoundRuleSet, IsProxyOnly, Interfaces
  <1>3. CASE ~IsProxyOnly(rs) /\ rs.network.default = "allow"
    <2> DEFINE r == ChainRule(Addresses(f), {rs.interface}, "RETURN")
    <2>1. /\ Addresses(f) \in SUBSET (V4 \cup V6) /\ p.dst \in Addresses(f) /\ "RETURN" \in Targets
          /\ p.out \in Interfaces /\ p.proto \in Protocols /\ p.port \in Ports
      BY DEF Targets, Packets, FamilyOf, Addresses
    <2>2. r \in FilterRules /\ r.target = "RETURN" /\ (Matches(r, p) <=> p.out = rs.interface)
      <3> DEFINE out == {rs.interface}
      <3>1. out \in SUBSET Interfaces /\ r = ChainRule(Addresses(f), out, "RETURN")
        BY <1>2, <1>3
      <3>2. p.out \in out <=> p.out = rs.interface
        OBVIOUS
      <3> HIDE DEF out, r, f
      <3> QED
        <4> DEFINE dst == Addresses(f)
        <4>1. /\ dst \in SUBSET (V4 \cup V6) /\ p.dst \in dst /\ "RETURN" \in Targets
              /\ r = ChainRule(dst, out, "RETURN")
          BY <2>1, <3>1
        <4> HIDE DEF dst
        <4>2. /\ ChainRule(dst, out, "RETURN") \in FilterRules
              /\ ChainRule(dst, out, "RETURN").target = "RETURN"
              /\ Matches(ChainRule(dst, out, "RETURN"), p) <=> p.dst \in dst /\ p.out \in out
          BY <3>1, <4>1, ChainRuleMatches
        <4> QED
          BY <3>2, <4>1, <4>2
    <2>3. ChainTail(rs, f) = <<r>>
      BY <1>3 DEF ChainTail
    <2> HIDE DEF r, f
    <2>4. /\ ChainTail(rs, f) \in Seq(FilterRules)
          /\ Speaks(ChainTail(rs, f), p) <=> p.out = rs.interface
          /\ Agree(ChainTail(rs, f), p, "RETURN")
      BY <2>2, <2>3, OneRule
    <2> QED
      BY <1>3, <2>4 DEF f
  <1>4. CASE ~IsProxyOnly(rs) /\ rs.network.default # "allow"
    <2> DEFINE ds == rs.network.allow
    <2>1. ds \in Seq(DestRules) /\ "RETURN" \in Targets
      BY DEF SoundRuleSet, NetworkPolicies, Targets
    <2>2. ChainTail(rs, f) = Destinations(f, ds, {rs.interface}, "RETURN")
      BY <1>4 DEF ChainTail
    <2> HIDE DEF ds
    <2>3. /\ Destinations(f, ds, {rs.interface}, "RETURN") \in Seq(FilterRules)
          /\ Speaks(Destinations(f, ds, {rs.interface}, "RETURN"), p)
               <=> HitAny(ds, p) /\ p.out \in {rs.interface}
          /\ Agree(Destinations(f, ds, {rs.interface}, "RETURN"), p, "RETURN")
      BY <1>2, <1>4, <2>1, SectionMatches
    <2> QED
      BY <1>4, <2>2, <2>3 DEF ds
  <1> QED
    BY <1>1, <1>3, <1>4

\* The chain accepts what the policy allows.
LEMMA ChainDecides ==
  ASSUME NEW rs, SoundRuleSet(rs), NEW p \in Packets
  PROVE  /\ Chain(rs, FamilyOf(p)) \in Seq(FilterRules)
         /\ Verdict(Chain(rs, FamilyOf(p)), p, "RETURN") = "RETURN" <=> Allowed(rs, p)
  <1> DEFINE f == FamilyOf(p)
             lo == ToLoopback(f)  ex == LanExceptions(rs, f)  bl == LanBlocks(f)
             dn == Denies(rs, f)  tl == ChainTail(rs, f)  rest == Rest(f)
  <1>0. /\ rs.network.lan_allow \in Seq(DestRules) /\ rs.network.deny \in Seq(DestRules)
        /\ Interfaces \in SUBSET Interfaces /\ "RETURN" \in Targets /\ "REJECT" \in Targets
        /\ p.out \in Interfaces
    BY DEF SoundRuleSet, NetworkPolicies, Targets, Packets
  <1>1. lo \in Seq(FilterRules) /\ (Speaks(lo, p) <=> p.out = "lo") /\ Agree(lo, p, "RETURN")
    BY LoopbackMatches
  <1>2. /\ ex \in Seq(FilterRules) /\ Agree(ex, p, "RETURN")
        /\ Speaks(ex, p) <=> ~IsProxyOnly(rs) /\ HitAny(rs.network.lan_allow, p)
    <2>1. CASE IsProxyOnly(rs)
      BY <2>1, NoRule DEF LanExceptions
    <2>2. CASE ~IsProxyOnly(rs)
      <3> DEFINE ds == rs.network.lan_allow
      <3>1. ex = Destinations(f, ds, Interfaces, "RETURN")
        BY <2>2 DEF LanExceptions
      <3> HIDE DEF ds, ex
      <3>2. /\ ex \in Seq(FilterRules) /\ Agree(ex, p, "RETURN")
            /\ Speaks(ex, p) <=> HitAny(ds, p) /\ p.out \in Interfaces
        BY <1>0, <3>1, SectionMatches DEF ds
      <3> QED
        BY <1>0, <2>2, <3>2 DEF ds
    <2> QED
      BY <2>1, <2>2
  <1>3. bl \in Seq(FilterRules) /\ (Speaks(bl, p) <=> InLan(p)) /\ Agree(bl, p, "REJECT")
    BY LanBlocksMatch
  <1>4. /\ dn \in Seq(FilterRules) /\ Agree(dn, p, "REJECT")
        /\ Speaks(dn, p) <=> HitAny(rs.network.deny, p)
    <2> DEFINE ds == rs.network.deny
    <2>1. dn = Destinations(f, ds, Interfaces, "REJECT")
      BY DEF Denies
    <2> HIDE DEF ds, dn
    <2>2. /\ dn \in Seq(FilterRules) /\ Agree(dn, p, "REJECT")
          /\ Speaks(dn, p) <=> HitAny(ds, p) /\ p.out \in Interfaces
      BY <1>0, <2>1, SectionMatches DEF ds
    <2> QED
      BY <1>0, <2>2 DEF ds
  <1>5. /\ tl \in Seq(FilterRules) /\ Agree(tl, p, "RETURN")
        /\ Speaks(tl, p) <=>
             /\ ~IsProxyOnly(rs) /\ p.out = rs.interface
             /\ rs.network.default = "allow" \/ HitAny(rs.network.allow, p)
    BY TailMatches
  <1>6. rest \in Seq(FilterRules) /\ Speaks(rest, p) /\ Agree(rest, p, "REJECT")
    BY LoopbackMatches
  <1>7. Chain(rs, f) = lo \o ex \o bl \o dn \o tl \o rest
    BY DEF Chain
  <1> HIDE DEF f, lo, ex, bl, dn, tl, rest
  <1> DEFINE c2 == lo \o ex  c3 == c2 \o bl  c4 == c3 \o dn  c5 == c4 \o tl  c6 == c5 \o rest
             V(c) == Verdict(c, p, "RETURN")
  <1>8. Speaks(lo, p) => V(lo) = "RETURN"
    BY <1>1, Agreeing
  <1>9. /\ c2 \in Seq(FilterRules) /\ (Speaks(c2, p) <=> Speaks(lo, p) \/ Speaks(ex, p))
        /\ V(c2) = IF Speaks(lo, p) THEN V(lo) ELSE IF Speaks(ex, p) THEN "RETURN" ELSE "RETURN"
    BY <1>1, <1>2, SectionAppended
  <1> HIDE DEF c2
  <1>10. /\ c3 \in Seq(FilterRules) /\ (Speaks(c3, p) <=> Speaks(c2, p) \/ Speaks(bl, p))
         /\ V(c3) = IF Speaks(c2, p) THEN V(c2) ELSE IF Speaks(bl, p) THEN "REJECT" ELSE "RETURN"
    BY <1>3, <1>9, SectionAppended
  <1> HIDE DEF c3
  <1>11. /\ c4 \in Seq(FilterRules) /\ (Speaks(c4, p) <=> Speaks(c3, p) \/ Speaks(dn, p))
         /\ V(c4) = IF Speaks(c3, p) THEN V(c3) ELSE IF Speaks(dn, p) THEN "REJECT" ELSE "RETURN"
    BY <1>4, <1>10, SectionAppended
  <1> HIDE DEF c4
  <1>12. /\ c5 \in Seq(FilterRules) /\ (Speaks(c5, p) <=> Speaks(c4, p) \/ Speaks(tl, p))
         /\ V(c5) = IF Speaks(c4, p) THEN V(c4) ELSE IF Speaks(tl, p) THEN "RETURN" ELSE "RETURN"
    BY <1>5, <1>11, SectionAppended
  <1> HIDE DEF c5
  <1>13. /\ c6 \in Seq(FilterRules)
         /\ V(c6) = IF Speaks(c5, p) THEN V(c5) ELSE IF Speaks(rest, p) THEN "REJECT" ELSE "RETURN"
    BY <1>6, <1>12, SectionAppended
  <1>14. Chain(rs, f) = c6
    BY <1>7 DEF c2, c3, c4, c5
  <1> HIDE DEF c6, V
  <1>15. V(c6) = "RETURN" <=> Allowed(rs, p)
    BY <1>1, <1>2, <1>3, <1>4, <1>5, <1>6, <1>8, <1>9, <1>10, <1>11, <1>12, <1>13 DEF Allowed
  <1> QED
    BY <1>13, <1>14, <1>15 DEF f, V
-------------------------------------------------------------------------------
(* The PF anchor, section by section.                                       *)

\* The packets PF's rules are about.
Filtered(p) == p \in Packets /\ p.proto \in {"tcp", "udp"}

\* A list of one rule.
LEMMA PfClause ==
  ASSUME NEW dst, NEW out, NEW ports, NEW target, NEW p,
         dst \in SUBSET (V4 \cup V6), out \in SUBSET Interfaces, ports \in SUBSET Ports,
         target \in Targets, Filtered(p)
  PROVE  /\ <<PfRule(dst, out, ports, target)>> \in Seq(FilterRules)
         /\ Speaks(<<PfRule(dst, out, ports, target)>>, p) <=>
              p.dst \in dst /\ p.out \in out /\ p.port \in ports
         /\ Agree(<<PfRule(dst, out, ports, target)>>, p, target)
  <1> DEFINE r == PfRule(dst, out, ports, target)
  <1> DEFINE proto == {"tcp", "udp"}
  <1>a. proto \in SUBSET Protocols /\ p.proto \in proto
    BY DEF Protocols, Filtered
  <1>b. r = Rule(dst, out, proto, ports, target)
    BY DEF PfRule
  <1> HIDE DEF proto
  <1>c. /\ Rule(dst, out, proto, ports, target) \in FilterRules
        /\ Rule(dst, out, proto, ports, target).target = target
        /\ Matches(Rule(dst, out, proto, ports, target), p) <=>
             p.dst \in dst /\ p.out \in out /\ p.proto \in proto /\ p.port \in ports
    BY <1>a, RuleMatches
  <1>1. /\ r \in FilterRules /\ r.target = target
        /\ Matches(r, p) <=> p.dst \in dst /\ p.out \in out /\ p.port \in ports
    BY <1>a, <1>b, <1>c
  <1> HIDE DEF r
  <1>2. /\ <<r>> \in Seq(FilterRules) /\ (Speaks(<<r>>, p) <=> Matches(r, p))
        /\ Agree(<<r>>, p, r.target)
    BY <1>1, OneRule
  <1> QED
    BY <1>1, <1>2 DEF r

LEMMA ClauseMatches ==
  ASSUME NEW d, NEW out, NEW target, NEW p,
         d \in DestRules, out \in SUBSET Interfaces, target \in Targets,
         Filtered(p)
  PROVE  /\ DestinationClause(d, out, target) \in Seq(FilterRules)
         /\ Speaks(DestinationClause(d, out, target), p) <=> Hit(d, p) /\ p.out \in out
         /\ Agree(DestinationClause(d, out, target), p, target)
         /\ Hit(d, p) <=> p.dst \in d.net /\ p.port \in PortsOf(d)
         /\ d.net \in SUBSET (V4 \cup V6) /\ PortsOf(d) \in SUBSET Ports
  <1> DEFINE dst == d.net  ports == PortsOf(d)
  <1>1. dst \in SUBSET (V4 \cup V6) /\ ports \in SUBSET Ports
    BY DEF DestRules, PortsOf
  <1>2. Hit(d, p) <=> p.dst \in dst /\ p.port \in ports
    <2>1. p.port \in Ports /\ p.proto \in {"tcp", "udp"}
      BY DEF Packets, Filtered
    <2> QED
      BY <2>1 DEF Hit, PortsOf
  <1>3. DestinationClause(d, out, target) = <<PfRule(dst, out, ports, target)>>
    BY DEF DestinationClause
  <1> HIDE DEF dst, ports
  <1>4. /\ <<PfRule(dst, out, ports, target)>> \in Seq(FilterRules)
        /\ Speaks(<<PfRule(dst, out, ports, target)>>, p) <=>
              p.dst \in dst /\ p.out \in out /\ p.port \in ports
        /\ Agree(<<PfRule(dst, out, ports, target)>>, p, target)
    BY <1>1, PfClause
  <1> QED
    BY <1>1, <1>2, <1>3, <1>4 DEF dst, ports

\* The sections of the PF anchor, as those of the chain above.
LEMMA ClausesMatch ==
  ASSUME NEW ds, NEW out, NEW target, NEW p,
         ds \in Seq(DestRules), out \in SUBSET Interfaces, target \in Targets,
         Filtered(p)
  PROVE  /\ Clauses(ds, out, target) \in Seq(FilterRules)
         /\ Speaks(Clauses(ds, out, target), p) <=> HitAny(ds, p) /\ p.out \in out
         /\ Agree(Clauses(ds, out, target), p, target)
  <1> DEFINE seqs == [i \in DOMAIN ds |-> DestinationClause(ds[i], out, target)]
  <1>0. DOMAIN ds = 1..Len(ds) /\ Len(ds) \in Nat
    OBVIOUS
  <1>1. ASSUME NEW i \in DOMAIN ds
        PROVE  /\ seqs[i] \in Seq(FilterRules)
               /\ Speaks(seqs[i], p) <=> Hit(ds[i], p) /\ p.out \in out
               /\ Agree(seqs[i], p, target)
    <2> DEFINE d == ds[i]
    <2>1. d \in DestRules
      OBVIOUS
    <2>2. seqs[i] = DestinationClause(d, out, target)
      OBVIOUS
    <2> HIDE DEF d, seqs
    <2>3. /\ DestinationClause(d, out, target) \in Seq(FilterRules)
          /\ Speaks(DestinationClause(d, out, target), p) <=> Hit(d, p) /\ p.out \in out
          /\ Agree(DestinationClause(d, out, target), p, target)
      BY <2>1, ClauseMatches
    <2> QED
      BY <2>2, <2>3 DEF d
  <1>2. seqs \in Seq(Seq(FilterRules)) /\ DOMAIN seqs = DOMAIN ds
    <2>1. seqs = [i \in 1..Len(ds) |-> seqs[i]]
      BY <1>0
    <2> HIDE DEF seqs
    <2> QED
      BY <1>0, <1>1, <2>1
  <1> HIDE DEF seqs
  <1>3. /\ FlattenSeq(seqs) \in Seq(FilterRules)
        /\ Speaks(FlattenSeq(seqs), p) <=> \E i \in DOMAIN seqs : Speaks(seqs[i], p)
        /\ (\A i \in DOMAIN seqs : Agree(seqs[i], p, target)) => Agree(FlattenSeq(seqs), p, target)
    BY <1>2, Flattened
  <1>4. Speaks(FlattenSeq(seqs), p) <=> HitAny(ds, p) /\ p.out \in out
    BY <1>1, <1>2, <1>3 DEF HitAny
  <1>5. FlattenSeq(seqs) = Clauses(ds, out, target)
    BY DEF seqs, Clauses, ForEach
  <1> QED
    BY <1>1, <1>2, <1>3, <1>4, <1>5

LEMMA PfLanBlocks ==
  ASSUME NEW p, Filtered(p)
  PROVE  LET blocks == FlattenSeq([i \in DOMAIN Lans |->
                                     <<PfRule(Lans[i], Interfaces, Ports, "block")>>]) IN
         /\ blocks \in Seq(FilterRules)
         /\ Speaks(blocks, p) <=> InLan(p)
         /\ Agree(blocks, p, "block")
  <1> DEFINE seqs == [i \in DOMAIN Lans |-> <<PfRule(Lans[i], Interfaces, Ports, "block")>>]
  <1>0. Lans \in Seq((SUBSET V4) \cup (SUBSET V6)) /\ DOMAIN Lans = 1..Len(Lans) /\ Len(Lans) \in Nat
    BY PolicyAssumption
  <1>a. p.out \in Interfaces /\ p.port \in Ports /\ "block" \in Targets
    BY DEF Packets, Targets, Filtered
  <1>1. ASSUME NEW i \in DOMAIN Lans
        PROVE  /\ seqs[i] \in Seq(FilterRules)
               /\ Speaks(seqs[i], p) <=> p.dst \in Lans[i]
               /\ Agree(seqs[i], p, "block")
    <2> DEFINE lan == Lans[i]
    <2>1. lan \in (SUBSET V4) \cup (SUBSET V6)
      BY <1>0
    <2>2. lan \in SUBSET (V4 \cup V6)
      BY <2>1
    <2>3. seqs[i] = <<PfRule(lan, Interfaces, Ports, "block")>>
      OBVIOUS
    <2> HIDE DEF lan, seqs
    <2>4. /\ <<PfRule(lan, Interfaces, Ports, "block")>> \in Seq(FilterRules)
          /\ Speaks(<<PfRule(lan, Interfaces, Ports, "block")>>, p) <=>
                p.dst \in lan /\ p.out \in Interfaces /\ p.port \in Ports
          /\ Agree(<<PfRule(lan, Interfaces, Ports, "block")>>, p, "block")
      BY <1>a, <2>2, PfClause
    <2> QED
      BY <1>a, <2>3, <2>4 DEF lan
  <1>2. seqs \in Seq(Seq(FilterRules)) /\ DOMAIN seqs = DOMAIN Lans
    <2>1. seqs = [i \in 1..Len(Lans) |-> seqs[i]]
      BY <1>0
    <2> HIDE DEF seqs
    <2> QED
      BY <1>0, <1>1, <2>1
  <1> HIDE DEF seqs
  <1>3. /\ FlattenSeq(seqs) \in Seq(FilterRules)
        /\ Speaks(FlattenSeq(seqs), p) <=> \E i \in DOMAIN seqs : Speaks(seqs[i], p)
        /\ (\A i \in DOMAIN seqs : Agree(seqs[i], p, "block")) => Agree(FlattenSeq(seqs), p, "block")
    BY <1>2, Flattened
  <1>4. Speaks(FlattenSeq(seqs), p) <=> InLan(p)
    BY <1>1, <1>2, <1>3 DEF InLan
  <1> QED
    BY <1>1, <1>2, <1>3, <1>4 DEF seqs

LEMMA BlockRestMatches ==
  ASSUME NEW p, Filtered(p)
  PROVE  /\ BlockRest \in Seq(FilterRules) /\ Speaks(BlockRest, p) /\ Agree(BlockRest, p, "block")
  <1>1. /\ AnyAddress \in SUBSET (V4 \cup V6) /\ p.dst \in AnyAddress
        /\ Interfaces \in SUBSET Interfaces /\ p.out \in Interfaces
        /\ Ports \in SUBSET Ports /\ p.port \in Ports /\ "block" \in Targets
    BY DEF Packets, Targets, Filtered, AnyAddress
  <1> DEFINE l == <<PfRule(AnyAddress, Interfaces, Ports, "block")>>
  <1>2. /\ l \in Seq(FilterRules)
        /\ Speaks(l, p) <=> p.dst \in AnyAddress /\ p.out \in Interfaces /\ p.port \in Ports
        /\ Agree(l, p, "block")
    BY <1>1, PfClause
  <1> QED
    BY <1>1, <1>2 DEF BlockRest

LEMMA ReroutedMatches ==
  ASSUME NEW rs, NEW dst, NEW ports, NEW p, dst \in SUBSET (V4 \cup V6), ports \in SUBSET Ports,
         Filtered(p)
  PROVE  /\ Rerouted(rs, dst, ports) \in Seq(FilterRules)
         /\ Speaks(Rerouted(rs, dst, ports), p) =>
              p.dst \in dst /\ p.out # rs.interface /\ p.port \in ports
         /\ Agree(Rerouted(rs, dst, ports), p, "reroute")
  <1>1. CASE rs.gateway
    <2>1. NotVpn(rs) \in SUBSET Interfaces /\ "reroute" \in Targets
          /\ (p.out \in NotVpn(rs) => p.out # rs.interface)
      BY DEF NotVpn, Targets
    <2> DEFINE l == <<PfRule(dst, NotVpn(rs), ports, "reroute")>>
    <2>2. Rerouted(rs, dst, ports) = l
      BY <1>1 DEF Rerouted
    <2>3. /\ l \in Seq(FilterRules)
          /\ Speaks(l, p) <=> p.dst \in dst /\ p.out \in NotVpn(rs) /\ p.port \in ports
          /\ Agree(l, p, "reroute")
      BY <2>1, PfClause
    <2> QED
      BY <2>1, <2>2, <2>3
  <1>2. CASE ~rs.gateway
    <2>1. Rerouted(rs, dst, ports) = <<>>
      BY <1>2 DEF Rerouted
    <2> QED
      BY <2>1, NoRule
  <1> QED
    BY <1>1, <1>2
\* In default-deny mode: a pass on the VPN for each destination, and perhaps a
\* detour to it.
LEMMA PassesMatch ==
  ASSUME NEW rs, NEW ds, NEW p, ds \in Seq(DestRules), {rs.interface} \in SUBSET Interfaces,
         Filtered(p)
  PROVE  LET passes == FlattenSeq([i \in DOMAIN ds |->
                          DestinationClause(ds[i], {rs.interface}, "pass")
                            \o (IF ds[i].net \subseteq V4
                                THEN Rerouted(rs, ds[i].net, PortsOf(ds[i])) ELSE <<>>)])
         IN
         /\ passes \in Seq(FilterRules)
         /\ Speaks(passes, p) => HitAny(ds, p)
         /\ p.out = rs.interface /\ HitAny(ds, p) => Speaks(passes, p)
         /\ Agree(passes, p, IF p.out = rs.interface THEN "pass" ELSE "reroute")
  <1> DEFINE seqs == [i \in DOMAIN ds |->
                        DestinationClause(ds[i], {rs.interface}, "pass")
                          \o (IF ds[i].net \subseteq V4
                              THEN Rerouted(rs, ds[i].net, PortsOf(ds[i])) ELSE <<>>)]
             target == IF p.out = rs.interface THEN "pass" ELSE "reroute"
  <1>0. DOMAIN ds = 1..Len(ds) /\ Len(ds) \in Nat /\ "pass" \in Targets
    BY DEF Targets
  <1>1. ASSUME NEW i \in DOMAIN ds
        PROVE  /\ seqs[i] \in Seq(FilterRules)
               /\ Speaks(seqs[i], p) => Hit(ds[i], p)
               /\ p.out = rs.interface /\ Hit(ds[i], p) => Speaks(seqs[i], p)
               /\ Agree(seqs[i], p, target)
    <2> DEFINE d == ds[i]
               out == {rs.interface}
               clause == DestinationClause(d, out, "pass")
               detour == IF d.net \subseteq V4 THEN Rerouted(rs, d.net, PortsOf(d)) ELSE <<>>
    <2>1. d \in DestRules /\ out \in SUBSET Interfaces /\ (p.out \in out <=> p.out = rs.interface)
      OBVIOUS
    <2>2. seqs[i] = clause \o detour
      OBVIOUS
    <2> HIDE DEF d, seqs, out
    <2>3. /\ clause \in Seq(FilterRules)
          /\ Speaks(clause, p) <=> Hit(d, p) /\ p.out \in out
          /\ Agree(clause, p, "pass")
          /\ Hit(d, p) <=> p.dst \in d.net /\ p.port \in PortsOf(d)
          /\ d.net \in SUBSET (V4 \cup V6) /\ PortsOf(d) \in SUBSET Ports
      BY <1>0, <2>1, ClauseMatches
    <2>4. /\ detour \in Seq(FilterRules)
          /\ Speaks(detour, p) => Hit(d, p) /\ p.out # rs.interface
          /\ Agree(detour, p, "reroute")
      <3>1. CASE d.net \subseteq V4
        <4> DEFINE dst == d.net  ports == PortsOf(d)
        <4>1. dst \in SUBSET (V4 \cup V6) /\ ports \in SUBSET Ports
          BY <2>3
        <4>2. detour = Rerouted(rs, dst, ports)
          BY <3>1
        <4>3. Hit(d, p) <=> p.dst \in dst /\ p.port \in ports
          BY <2>3
        <4> HIDE DEF dst, ports, detour
        <4>4. /\ Rerouted(rs, dst, ports) \in Seq(FilterRules)
              /\ Speaks(Rerouted(rs, dst, ports), p) =>
                   p.dst \in dst /\ p.out # rs.interface /\ p.port \in ports
              /\ Agree(Rerouted(rs, dst, ports), p, "reroute")
          BY <4>1, ReroutedMatches
        <4> QED
          BY <4>2, <4>3, <4>4
      <3>2. CASE ~(d.net \subseteq V4)
        BY <3>2, NoRule
      <3> QED
        BY <3>1, <3>2
    <2> HIDE DEF clause, detour
    <2>5. /\ clause \o detour \in Seq(FilterRules)
          /\ Speaks(clause \o detour, p) <=> Speaks(clause, p) \/ Speaks(detour, p)
      BY <2>3, <2>4, Concatenated
    <2>6. Agree(clause \o detour, p, target)
      <3>1. ASSUME NEW k \in DOMAIN (clause \o detour), Matches((clause \o detour)[k], p)
            PROVE  (clause \o detour)[k].target = target
        <4>1. /\ Len(clause) \in Nat /\ Len(detour) \in Nat /\ DOMAIN clause = 1..Len(clause)
              /\ DOMAIN detour = 1..Len(detour)
              /\ DOMAIN (clause \o detour) = 1..Len(clause) + Len(detour)
          BY <2>3, <2>4
        <4>2. CASE k \in 1..Len(clause)
          <5>1. (clause \o detour)[k] = clause[k]
            BY <4>1, <4>2, <2>3, <2>4
          <5>2. clause[k].target = "pass"
            BY <3>1, <4>1, <4>2, <5>1, <2>3 DEF Agree
          <5>3. Speaks(clause, p)
            BY <3>1, <4>1, <4>2, <5>1 DEF Speaks
          <5> QED
            BY <5>1, <5>2, <5>3, <2>1, <2>3
        <4>3. CASE k \notin 1..Len(clause)
          <5>1. k - Len(clause) \in 1..Len(detour)
            BY <4>1, <4>3
          <5>2. (clause \o detour)[k] = detour[k - Len(clause)]
            BY <4>1, <4>3, <5>1, <2>3, <2>4
          <5>3. detour[k - Len(clause)].target = "reroute"
            BY <3>1, <4>1, <5>1, <5>2, <2>4 DEF Agree
          <5>4. Speaks(detour, p)
            BY <3>1, <4>1, <5>1, <5>2 DEF Speaks
          <5> QED
            BY <5>2, <5>3, <5>4, <2>4
        <4> QED
          BY <4>2, <4>3
      <3> QED
        BY <3>1 DEF Agree
    <2> HIDE DEF target
    <2>7. /\ seqs[i] \in Seq(FilterRules) /\ Agree(seqs[i], p, target)
          /\ Speaks(seqs[i], p) => Hit(d, p)
          /\ p.out = rs.interface /\ Hit(d, p) => Speaks(seqs[i], p)
      BY <2>1, <2>2, <2>3, <2>4, <2>5, <2>6
    <2> QED
      BY <2>7 DEF d
  <1>2. seqs \in Seq(Seq(FilterRules)) /\ DOMAIN seqs = DOMAIN ds
    <2>1. seqs = [i \in 1..Len(ds) |-> seqs[i]]
      BY <1>0
    <2> HIDE DEF seqs
    <2> QED
      BY <1>0, <1>1, <2>1
  <1> HIDE DEF seqs, target
  <1>3. /\ FlattenSeq(seqs) \in Seq(FilterRules)
        /\ Speaks(FlattenSeq(seqs), p) <=> \E i \in DOMAIN seqs : Speaks(seqs[i], p)
        /\ (\A i \in DOMAIN seqs : Agree(seqs[i], p, target)) => Agree(FlattenSeq(seqs), p, target)
    BY <1>2, Flattened
  <1>4. /\ Speaks(FlattenSeq(seqs), p) => HitAny(ds, p)
        /\ p.out = rs.interface /\ HitAny(ds, p) => Speaks(FlattenSeq(seqs), p)
    BY <1>1, <1>2, <1>3 DEF HitAny
  <1> QED
    BY <1>1, <1>2, <1>3, <1>4 DEF seqs, target

\* What the rules after the denies decide.
LEMMA PfTailDecides ==
  ASSUME NEW rs, SoundRuleSet(rs), NEW p, Filtered(p)
  PROVE  LET permits == \/ rs.network.default = "allow"
                        \/ HitAny(rs.network.allow, p)
         IN
         /\ PfTail(rs) \in Seq(FilterRules) /\ Speaks(PfTail(rs), p)
         /\ Verdict(PfTail(rs), p, "pass") = "pass" <=>
              ~IsProxyOnly(rs) /\ p.out = rs.interface /\ permits
         /\ Verdict(PfTail(rs), p, "pass") = "reroute" => ~IsProxyOnly(rs) /\ permits
  <1> DEFINE permits == rs.network.default = "allow" \/ HitAny(rs.network.allow, p)
             V(c) == Verdict(c, p, "pass")
  <1>0. /\ BlockRest \in Seq(FilterRules) /\ Speaks(BlockRest, p) /\ Agree(BlockRest, p, "block")
        /\ V(BlockRest) = "block"
    BY BlockRestMatches, Agreeing
  <1>1. CASE IsProxyOnly(rs)
    <2>1. PfTail(rs) = BlockRest
      BY <1>1 DEF PfTail
    <2> QED
      BY <1>0, <1>1, <2>1
  <1>2. CASE ~IsProxyOnly(rs) /\ rs.network.default = "allow"
    <2> DEFINE out == {rs.interface}
               t1 == Rerouted(rs, V4, Ports)
               t2 == <<PfRule(AnyAddress, NotVpn(rs), Ports, "block")>>
               t3 == <<PfRule(AnyAddress, out, Ports, "pass")>>
    <2>1. /\ out \in SUBSET Interfaces /\ (p.out \in out <=> p.out = rs.interface)
          /\ NotVpn(rs) \in SUBSET Interfaces /\ (p.out \in NotVpn(rs) <=> p.out # rs.interface)
          /\ AnyAddress \in SUBSET (V4 \cup V6) /\ p.dst \in AnyAddress
          /\ V4 \in SUBSET (V4 \cup V6)
          /\ Ports \in SUBSET Ports /\ p.port \in Ports
          /\ "block" \in Targets /\ "pass" \in Targets
      BY <1>2 DEF SoundRuleSet, IsProxyOnly, Interfaces, NotVpn, AnyAddress, Filtered, Packets, Targets
    <2>2. PfTail(rs) = t1 \o t2 \o t3
      BY <1>2 DEF PfTail
    <2> HIDE DEF out
    <2>3. /\ t1 \in Seq(FilterRules) /\ Agree(t1, p, "reroute")
          /\ Speaks(t1, p) => p.out # rs.interface
      BY <2>1, ReroutedMatches
    <2>4. /\ t2 \in Seq(FilterRules) /\ Agree(t2, p, "block")
          /\ Speaks(t2, p) <=> p.out # rs.interface
      <3>1. /\ t2 \in Seq(FilterRules) /\ Agree(t2, p, "block")
            /\ Speaks(t2, p) <=> p.dst \in AnyAddress /\ p.out \in NotVpn(rs) /\ p.port \in Ports
        BY <2>1, PfClause
      <3> QED
        BY <2>1, <3>1
    <2>5. /\ t3 \in Seq(FilterRules) /\ Agree(t3, p, "pass")
          /\ Speaks(t3, p) <=> p.out = rs.interface
      <3>1. /\ t3 \in Seq(FilterRules) /\ Agree(t3, p, "pass")
            /\ Speaks(t3, p) <=> p.dst \in AnyAddress /\ p.out \in out /\ p.port \in Ports
        BY <2>1, PfClause
      <3> QED
        BY <2>1, <3>1
    <2> HIDE DEF t1, t2, t3
    <2> DEFINE c2 == t1 \o t2  c3 == c2 \o t3
    <2>6. Speaks(t1, p) => V(t1) = "reroute"
      BY <2>3, Agreeing
    <2>7. /\ c2 \in Seq(FilterRules) /\ (Speaks(c2, p) <=> Speaks(t1, p) \/ Speaks(t2, p))
          /\ V(c2) = IF Speaks(t1, p) THEN V(t1) ELSE IF Speaks(t2, p) THEN "block" ELSE "pass"
      BY <2>3, <2>4, SectionAppended
    <2> HIDE DEF c2
    <2>8. /\ c3 \in Seq(FilterRules) /\ (Speaks(c3, p) <=> Speaks(c2, p) \/ Speaks(t3, p))
          /\ V(c3) = IF Speaks(c2, p) THEN V(c2) ELSE IF Speaks(t3, p) THEN "pass" ELSE "pass"
      BY <2>5, <2>7, SectionAppended
    <2>9. PfTail(rs) = c3
      BY <2>2 DEF c2
    <2> HIDE DEF c3, V
    <2>10. /\ Speaks(c3, p) /\ (V(c3) = "pass" <=> p.out = rs.interface)
      BY <2>3, <2>4, <2>5, <2>6, <2>7, <2>8
    <2> QED
      BY <1>2, <2>8, <2>9, <2>10 DEF V
  <1>3. CASE ~IsProxyOnly(rs) /\ rs.network.default # "allow"
    <2> DEFINE ds == rs.network.allow
               t == FlattenSeq([i \in DOMAIN ds |->
                          DestinationClause(ds[i], {rs.interface}, "pass")
                            \o (IF ds[i].net \subseteq V4
                                THEN Rerouted(rs, ds[i].net, PortsOf(ds[i])) ELSE <<>>)])
               target == IF p.out = rs.interface THEN "pass" ELSE "reroute"
               c == t \o BlockRest
    <2>1. ds \in Seq(DestRules) /\ {rs.interface} \in SUBSET Interfaces
      <3>1. ds \in Seq(DestRules)
        BY DEF SoundRuleSet, NetworkPolicies
      <3>2. rs.interface \in Interfaces
        BY <1>3 DEF SoundRuleSet, IsProxyOnly, Interfaces
      <3> QED
        BY <3>1, <3>2, Zenon
    <2>2. PfTail(rs) = c
      BY <1>3 DEF PfTail, ForEach
    <2> HIDE DEF ds
    <2>3. /\ t \in Seq(FilterRules) /\ Agree(t, p, target)
          /\ Speaks(t, p) => HitAny(ds, p)
          /\ p.out = rs.interface /\ HitAny(ds, p) => Speaks(t, p)
      BY <2>1, PassesMatch
    <2> HIDE DEF t
    <2>4. Speaks(t, p) => V(t) = target
      BY <2>3, Agreeing
    <2>5. /\ c \in Seq(FilterRules) /\ (Speaks(c, p) <=> Speaks(t, p) \/ Speaks(BlockRest, p))
          /\ V(c) = IF Speaks(t, p) THEN V(t) ELSE IF Speaks(BlockRest, p) THEN "block" ELSE "pass"
      BY <1>0, <2>3, SectionAppended
    <2> HIDE DEF c, V
    <2>6. /\ Speaks(c, p)
          /\ V(c) = "pass" <=> p.out = rs.interface /\ HitAny(ds, p)
          /\ V(c) = "reroute" => HitAny(ds, p)
      BY <1>0, <2>3, <2>4, <2>5
    <2> QED
      BY <1>3, <2>2, <2>5, <2>6 DEF ds, V
  <1> QED
    BY <1>1, <1>2, <1>3

\* The anchor lets out what the policy allows, or sends it to the VPN if it is
\* allowed there.
LEMMA PfDecides ==
  ASSUME NEW rs, SoundRuleSet(rs), NEW p, Filtered(p)
  PROVE  /\ Verdict(PfAnchor(rs), p, "pass") = "pass" <=> Allowed(rs, p)
         /\ Verdict(PfAnchor(rs), p, "pass") = "reroute" => Allowed(rs, [p EXCEPT !.out = Vpn])
  <1> DEFINE V(c) == Verdict(c, p, "pass")
             out == {"lo"}
             lo == <<PfRule(AnyAddress, out, Ports, "pass")>>
             ex == IF IsProxyOnly(rs) THEN <<>> ELSE Clauses(rs.network.lan_allow, Interfaces, "pass")
             bl == ForEach(Lans, LAMBDA lan : <<PfRule(lan, Interfaces, Ports, "block")>>)
             dn == Clauses(rs.network.deny, Interfaces, "block")
             tl == PfTail(rs)
             permits == rs.network.default = "allow" \/ HitAny(rs.network.allow, p)
  <1>0. /\ rs.network.lan_allow \in Seq(DestRules) /\ rs.network.deny \in Seq(DestRules)
        /\ Interfaces \in SUBSET Interfaces /\ "pass" \in Targets /\ "block" \in Targets
        /\ p.out \in Interfaces /\ p.dst \in AnyAddress /\ p.port \in Ports
        /\ AnyAddress \in SUBSET (V4 \cup V6) /\ Ports \in SUBSET Ports
        /\ out \in SUBSET Interfaces /\ (p.out \in out <=> p.out = "lo")
    BY DEF SoundRuleSet, NetworkPolicies, Targets, Filtered, Packets, AnyAddress, Interfaces
  <1>1. lo \in Seq(FilterRules) /\ (Speaks(lo, p) <=> p.out = "lo") /\ Agree(lo, p, "pass")
    <2> HIDE DEF out
    <2>1. /\ lo \in Seq(FilterRules) /\ Agree(lo, p, "pass")
          /\ Speaks(lo, p) <=> p.dst \in AnyAddress /\ p.out \in out /\ p.port \in Ports
      BY <1>0, PfClause
    <2> QED
      BY <1>0, <2>1
  <1>2. /\ ex \in Seq(FilterRules) /\ Agree(ex, p, "pass")
        /\ Speaks(ex, p) <=> ~IsProxyOnly(rs) /\ HitAny(rs.network.lan_allow, p)
    <2>1. CASE IsProxyOnly(rs)
      BY <2>1, NoRule
    <2>2. CASE ~IsProxyOnly(rs)
      <3> DEFINE ds == rs.network.lan_allow
      <3>1. ex = Clauses(ds, Interfaces, "pass")
        BY <2>2
      <3>3. ds \in Seq(DestRules)
        BY <1>0
      <3> HIDE DEF ds, ex
      <3>2. /\ ex \in Seq(FilterRules) /\ Agree(ex, p, "pass")
            /\ Speaks(ex, p) <=> HitAny(ds, p) /\ p.out \in Interfaces
        BY <1>0, <3>1, <3>3, ClausesMatch
      <3> QED
        BY <1>0, <2>2, <3>2 DEF ds
    <2> QED
      BY <2>1, <2>2
  <1>3. bl \in Seq(FilterRules) /\ (Speaks(bl, p) <=> InLan(p)) /\ Agree(bl, p, "block")
    <2>1. bl = FlattenSeq([i \in DOMAIN Lans |-> <<PfRule(Lans[i], Interfaces, Ports, "block")>>])
      BY DEF ForEach
    <2> HIDE DEF bl
    <2> QED
      BY <2>1, PfLanBlocks
  <1>4. /\ dn \in Seq(FilterRules) /\ Agree(dn, p, "block")
        /\ Speaks(dn, p) <=> HitAny(rs.network.deny, p)
    <2> DEFINE ds == rs.network.deny
    <2>1. dn = Clauses(ds, Interfaces, "block")
      OBVIOUS
    <2>3. ds \in Seq(DestRules)
      BY <1>0
    <2> HIDE DEF ds, dn
    <2>2. /\ dn \in Seq(FilterRules) /\ Agree(dn, p, "block")
          /\ Speaks(dn, p) <=> HitAny(ds, p) /\ p.out \in Interfaces
      BY <1>0, <2>1, <2>3, ClausesMatch
    <2> QED
      BY <1>0, <2>2 DEF ds
  <1>5. /\ tl \in Seq(FilterRules) /\ Speaks(tl, p)
        /\ V(tl) = "pass" <=> ~IsProxyOnly(rs) /\ p.out = rs.interface /\ permits
        /\ V(tl) = "reroute" => ~IsProxyOnly(rs) /\ permits
    BY PfTailDecides
  <1>7. PfAnchor(rs) = lo \o ex \o bl \o dn \o tl
    BY DEF PfAnchor
  <1> HIDE DEF lo, ex, bl, dn, tl
  <1> DEFINE c2 == lo \o ex  c3 == c2 \o bl  c4 == c3 \o dn  c5 == c4 \o tl
  <1>8. Speaks(lo, p) => V(lo) = "pass"
    BY <1>1, Agreeing
  <1>9. /\ c2 \in Seq(FilterRules) /\ (Speaks(c2, p) <=> Speaks(lo, p) \/ Speaks(ex, p))
        /\ V(c2) = IF Speaks(lo, p) THEN V(lo) ELSE IF Speaks(ex, p) THEN "pass" ELSE "pass"
    BY <1>1, <1>2, SectionAppended
  <1> HIDE DEF c2
  <1>10. /\ c3 \in Seq(FilterRules) /\ (Speaks(c3, p) <=> Speaks(c2, p) \/ Speaks(bl, p))
         /\ V(c3) = IF Speaks(c2, p) THEN V(c2) ELSE IF Speaks(bl, p) THEN "block" ELSE "pass"
    BY <1>3, <1>9, SectionAppended
  <1> HIDE DEF c3
  <1>11. /\ c4 \in Seq(FilterRules) /\ (Speaks(c4, p) <=> Speaks(c3, p) \/ Speaks(dn, p))
         /\ V(c4) = IF Speaks(c3, p) THEN V(c3) ELSE IF Speaks(dn, p) THEN "block" ELSE "pass"
    BY <1>4, <1>10, SectionAppended
  <1> HIDE DEF c4
  <1>12. V(c5) = IF Speaks(c4, p) THEN V(c4) ELSE V(tl)
    BY <1>5, <1>11, Concatenated
  <1>13. PfAnchor(rs) = c5
    BY <1>7 DEF c2, c3, c4
  <1> HIDE DEF c5, V, permits
  <1>14. V(c5) = "pass" <=>
           \/ p.out = "lo"
           \/ /\ ~IsProxyOnly(rs)
              /\ \/ HitAny(rs.network.lan_allow, p)
                 \/ ~InLan(p) /\ ~HitAny(rs.network.deny, p) /\ p.out = rs.interface /\ permits
    BY <1>1, <1>2, <1>3, <1>4, <1>5, <1>8, <1>9, <1>10, <1>11, <1>12
  <1>15. V(c5) = "reroute" =>
           ~IsProxyOnly(rs) /\ ~InLan(p) /\ ~HitAny(rs.network.deny, p) /\ permits
    BY <1>1, <1>2, <1>3, <1>4, <1>5, <1>8, <1>9, <1>10, <1>11, <1>12
  <1>16. V(c5) = "pass" <=> Allowed(rs, p)
    BY <1>14 DEF Allowed, permits
  <1>17. V(c5) = "reroute" => Allowed(rs, [p EXCEPT !.out = Vpn])
    <2> DEFINE q == [p EXCEPT !.out = Vpn]
    <2>1. /\ q.out = Vpn /\ q.dst = p.dst /\ q.proto = p.proto /\ q.port = p.port
      BY DEF Filtered, Packets
    <2> HIDE DEF q
    <2>2. \A d : Hit(d, q) <=> Hit(d, p)
      BY <2>1 DEF Hit
    <2>3. (InLan(q) <=> InLan(p)) /\ \A ds : HitAny(ds, q) <=> HitAny(ds, p)
      BY <2>1, <2>2 DEF InLan, HitAny
    <2>4. ~IsProxyOnly(rs) => rs.interface = Vpn
      BY DEF SoundRuleSet, IsProxyOnly
    <2>5. V(c5) = "reroute" => Allowed(rs, q)
      BY <1>15, <2>1, <2>3, <2>4 DEF Allowed, permits
    <2> QED
      BY <2>5 DEF q
  <1> QED
    BY <1>13, <1>16, <1>17 DEF V

-------------------------------------------------------------------------------
(* Sequences without repetitions.                                           *)

Distinct(s) == \A i, j \in DOMAIN s : s[i] = s[j] => i = j

\* What -I does to the jumps of a family.
LEMMA Prepended ==
  ASSUME NEW S, NEW s, s \in Seq(S), NEW e \in S
  PROVE  /\ <<e>> \o s \in Seq(S)
         /\ \A x : Contains(<<e>> \o s, x) <=> x = e \/ Contains(s, x)
         /\ Distinct(s) /\ ~Contains(s, e) => Distinct(<<e>> \o s)
  <1> DEFINE t == <<e>> \o s
  <1>1. /\ t \in Seq(S) /\ Len(t) = Len(s) + 1 /\ Len(s) \in Nat /\ t[1] = e
        /\ DOMAIN t = 1..Len(t) /\ DOMAIN s = 1..Len(s)
    OBVIOUS
  <1>2. \A i \in 1..Len(s) : t[i + 1] = s[i]
    OBVIOUS
  <1> HIDE DEF t
  <1>3. \A i \in 1..Len(t) : i = 1 \/ (i - 1 \in 1..Len(s) /\ t[i] = s[i - 1])
    BY <1>1, <1>2
  <1>4. \A x : Contains(t, x) <=> x = e \/ Contains(s, x)
    <2>1. ASSUME NEW x, Contains(t, x) PROVE x = e \/ Contains(s, x)
      BY <1>1, <1>3, <2>1 DEF Contains
    <2>2. ASSUME NEW x, x = e \/ Contains(s, x) PROVE Contains(t, x)
      <3>1. \A i \in 1..Len(s) : i + 1 \in 1..Len(t)
        BY <1>1
      <3> QED
        BY <1>1, <1>2, <2>2, <3>1 DEF Contains
    <2> QED
      BY <2>1, <2>2
  <1>5. ASSUME Distinct(s), ~Contains(s, e) PROVE Distinct(t)
    <2>1. SUFFICES ASSUME NEW i \in 1..Len(t), NEW j \in 1..Len(t), t[i] = t[j] PROVE i = j
      BY <1>1 DEF Distinct
    <2>2. \A k \in 1..Len(s) : s[k] # e
      BY <1>5 DEF Contains
    <2>3. (i = 1) <=> (j = 1)
      BY <1>1, <1>3, <2>1, <2>2
    <2>4. CASE i # 1 /\ j # 1
      <3>1. /\ i - 1 \in 1..Len(s) /\ t[i] = s[i - 1]
            /\ j - 1 \in 1..Len(s) /\ t[j] = s[j - 1]
        BY <1>3, <2>1, <2>4
      <3>2. i - 1 = j - 1
        BY <1>1, <1>5, <2>1, <3>1 DEF Distinct
      <3> QED
        BY <1>1, <2>1, <3>2
    <2> QED
      BY <2>3, <2>4
  <1> QED
    BY <1>1, <1>4, <1>5 DEF t

\* What -D does to them.
LEMMA FirstRemoved ==
  ASSUME NEW S, NEW s, s \in Seq(S), NEW e, Distinct(s), Contains(s, e)
  PROVE  /\ RemoveFirst(s, e) \in Seq(S)
         /\ \A x : Contains(RemoveFirst(s, e), x) <=> x # e /\ Contains(s, x)
         /\ Distinct(RemoveFirst(s, e))
  <1>0. Len(s) \in Nat /\ DOMAIN s = 1..Len(s)
    OBVIOUS
  <1>1. PICK k \in 1..Len(s) : s[k] = e
    BY DEF Contains
  <1>2. {i \in 1..Len(s) : s[i] = e} = {k}
    BY <1>0, <1>1 DEF Distinct
  <1>3. SelectInSeq(s, LAMBDA v : v = e) = k
    <2>1. Min({k}) = k
      <3>1. k \in Nat
        BY <1>1
      <3> QED
        BY <3>1 DEF Min
    <2> QED
      BY <1>2, <2>1 DEF SelectInSeq
  <1> DEFINE t == RemoveFirst(s, e)
  <1>4. t = SubSeq(s, 1, k - 1) \o SubSeq(s, k + 1, Len(s))
    BY <1>1, <1>3 DEF RemoveFirst, RemoveAt
  <1>5. /\ t \in Seq(S) /\ Len(t) = Len(s) - 1 /\ DOMAIN t = 1..Len(t)
        /\ \A i \in 1..k - 1 : t[i] = s[i]
        /\ \A i \in k..Len(s) - 1 : t[i] = s[i + 1]
    <2> DEFINE a == SubSeq(s, 1, k - 1)  b == SubSeq(s, k + 1, Len(s))
    <2>0. k \in Int /\ k - 1 \in Int /\ k + 1 \in Int /\ Len(s) \in Int
      BY <1>0
    <2>1. /\ a \in Seq(S) /\ Len(a) = k - 1 /\ \A i \in 1..k - 1 : a[i] = s[i]
      <3>1. \A i \in 1..k - 1 : s[i] \in S
        BY <1>0
      <3>2. /\ a \in Seq(S) /\ Len(a) = IF 1 <= k - 1 THEN k - 1 - 1 + 1 ELSE 0
            /\ \A i \in 1..k - 1 - 1 + 1 : a[i] = s[1 + i - 1]
        BY <2>0, <3>1, SubSeqProperties
      <3> HIDE DEF a
      <3> QED
        BY <2>0, <3>2
    <2>2. /\ b \in Seq(S) /\ Len(b) = Len(s) - k /\ \A i \in 1..Len(s) - k : b[i] = s[i + k]
      <3>1. \A i \in k + 1..Len(s) : s[i] \in S
        BY <1>0
      <3>2. /\ b \in Seq(S) /\ Len(b) = IF k + 1 <= Len(s) THEN Len(s) - (k + 1) + 1 ELSE 0
            /\ \A i \in 1..Len(s) - (k + 1) + 1 : b[i] = s[k + 1 + i - 1]
        BY <2>0, <3>1, SubSeqProperties
      <3> HIDE DEF b
      <3>3. \A i \in 1..Len(s) - k : i \in 1..Len(s) - (k + 1) + 1 /\ k + 1 + i - 1 = i + k
        BY <2>0
      <3> QED
        BY <2>0, <3>2, <3>3
    <2>3. /\ t \in Seq(S) /\ Len(t) = Len(a) + Len(b) /\ DOMAIN t = 1..Len(t)
          /\ \A i \in 1..Len(a) : t[i] = a[i]
          /\ \A i \in 1..Len(b) : t[Len(a) + i] = b[i]
      <3>1. t = a \o b
        BY <1>4
      <3> HIDE DEF a, b, t
      <3>2. /\ t \in Seq(S) /\ Len(t) = Len(a) + Len(b)
            /\ \A i \in 1..Len(a) + Len(b) : t[i] = IF i <= Len(a) THEN a[i] ELSE b[i - Len(a)]
        BY <2>1, <2>2, <3>1, ConcatProperties
      <3>3. Len(a) \in Nat /\ Len(b) \in Nat
        BY <2>1, <2>2
      <3>4. DOMAIN t = 1..Len(t)
        BY <3>2
      <3>5. \A i \in 1..Len(a) : i \in 1..Len(a) + Len(b) /\ i <= Len(a)
        BY <3>3
      <3>6. \A i \in 1..Len(b) : /\ Len(a) + i \in 1..Len(a) + Len(b) /\ ~(Len(a) + i <= Len(a))
                                  /\ Len(a) + i - Len(a) = i
        BY <3>3
      <3>7. \A i \in 1..Len(a) : t[i] = a[i]
        BY <3>2, <3>5
      <3>8. \A i \in 1..Len(b) : t[Len(a) + i] = b[i]
        BY <3>2, <3>6
      <3> QED
        BY <3>2, <3>4, <3>7, <3>8
    <2> HIDE DEF a, b, t
    <2>4. ASSUME NEW i \in k..Len(s) - 1 PROVE t[i] = s[i + 1]
      <3>1. /\ i - k + 1 \in 1..Len(b) /\ Len(a) + (i - k + 1) = i /\ (i - k + 1) + k = i + 1
        BY <1>0, <1>1, <2>1, <2>2
      <3>2. t[Len(a) + (i - k + 1)] = b[i - k + 1]
        BY <2>3, <3>1
      <3>3. b[i - k + 1] = s[(i - k + 1) + k]
        BY <2>2, <3>1
      <3> QED
        BY <3>1, <3>2, <3>3
    <2> QED
      BY <1>0, <1>1, <2>1, <2>2, <2>3, <2>4
  <1> HIDE DEF t
  \* Where element i of t comes from.
  <1> DEFINE from(i) == IF i < k THEN i ELSE i + 1
  <1>6. \A i \in 1..Len(t) : from(i) \in 1..Len(s) /\ from(i) # k /\ t[i] = s[from(i)]
    BY <1>0, <1>1, <1>5
  <1>7. \A j \in 1..Len(s) : j # k => \E i \in 1..Len(t) : from(i) = j
    <2>1. ASSUME NEW j \in 1..Len(s), j < k PROVE j \in 1..Len(t) /\ from(j) = j
      BY <1>0, <1>1, <1>5, <2>1
    <2>2. ASSUME NEW j \in 1..Len(s), j > k PROVE j - 1 \in 1..Len(t) /\ from(j - 1) = j
      BY <1>0, <1>1, <1>5, <2>2
    <2>3. \A j \in 1..Len(s) : j # k => j < k \/ j > k
      BY <1>1
    <2> HIDE DEF from
    <2> QED
      BY <2>1, <2>2, <2>3
  <1>8. \A i, j \in 1..Len(t) : from(i) = from(j) => i = j
    BY <1>1, <1>5
  <1> HIDE DEF from
  <1>9. ASSUME NEW x, Contains(t, x) PROVE x # e /\ Contains(s, x)
    <2>1. PICK i \in 1..Len(t) : t[i] = x
      BY <1>9 DEF Contains
    <2>2. from(i) \in 1..Len(s) /\ from(i) # k /\ s[from(i)] = x
      BY <1>6, <2>1
    <2> QED
      BY <1>0, <1>1, <2>2 DEF Contains, Distinct
  <1>10. ASSUME NEW x, x # e, Contains(s, x) PROVE Contains(t, x)
    <2>1. PICK j \in 1..Len(s) : s[j] = x
      BY <1>10 DEF Contains
    <2>2. j # k
      BY <1>1, <1>10, <2>1
    <2>3. PICK i \in 1..Len(t) : from(i) = j
      BY <1>7, <2>2
    <2> QED
      BY <1>6, <2>1, <2>3 DEF Contains
  <1>11. Distinct(t)
    <2>1. SUFFICES ASSUME NEW i \in 1..Len(t), NEW j \in 1..Len(t), t[i] = t[j] PROVE i = j
      BY <1>5 DEF Distinct
    <2>2. from(i) \in DOMAIN s /\ from(j) \in DOMAIN s /\ s[from(i)] = s[from(j)]
      BY <1>0, <1>6, <2>1
    <2>3. from(i) = from(j)
      BY <2>2 DEF Distinct
    <2> QED
      BY <1>8, <2>3
  <1> QED
    BY <1>5, <1>9, <1>10, <1>11 DEF t

-------------------------------------------------------------------------------
(* The inductive invariant of the iptables guards.                          *)

Jumped(f, n) == Contains(output[f], n)
Leftovers(f, n) == chain[f][n] # NoChain \/ Jumped(f, n)

GuardPhases == {"idle", "cleaning", "building", "active", "undoing", "removing", "orphaned"}
HelperPhases == {"down", "reap4", "reap6", "up"}

Commands ==
  [family : Families, op : {"N", "F", "I", "D", "X"}, name : Names]
    \cup [family : Families, op : {"A"}, name : Names, rules : Seq(FilterRules)]

TablesOK ==
  /\ chain \in [Families -> [Names -> Seq(FilterRules) \cup {NoChain}]]
  /\ output \in [Families -> Seq(Names)]
  /\ \A f \in Families : Distinct(output[f])
  /\ v6 \in BOOLEAN /\ faults \in 0..MaxFaults
  \* Without ip6tables there are no IPv6 tables.
  /\ ~v6 => \A n \in Names : ~Leftovers("v6", n)

ProcessesOK ==
  /\ built \in [Guards -> RuleSets] /\ \A g \in Guards : built[g] \in RuleSetsOf[g]
  /\ pc \in [Workers -> GuardPhases \cup HelperPhases]
  /\ \A g \in Guards : pc[g] \in GuardPhases
  /\ pc["helper"] \in HelperPhases
  /\ todo \in [Workers -> Seq(Commands)]

\* A chain that packets get to is empty or the whole of a policy.
Whole(g) ==
  \A f \in Families : Jumped(f, ChainOf[g]) =>
    \/ chain[f][ChainOf[g]] = <<>>
    \/ \E rs \in RuleSetsOf[g] : chain[f][ChainOf[g]] = Chain(rs, f)

\* What the first k commands of a clean-up leave of n in family f, if none
\* failed that could have worked.
Cleared(f, n, k) ==
  /\ k >= 1 => ~Jumped(f, n)
  /\ k >= 2 => chain[f][n] \in {<<>>, NoChain}
  /\ k >= 3 => chain[f][n] = NoChain

\* What the first k commands of a setup have made of g's chain in family f.
Filled(f, g, k) ==
  LET n == ChainOf[g]
  IN /\ k <= 0 => (Reliable => ~Leftovers(f, n))
     /\ k \in 1..2 => chain[f][n] = <<>>
     /\ k \in 1..3 => ~Jumped(f, n)
     /\ k >= 3 => chain[f][n] = Chain(built[g], f)
     /\ k >= 4 => Jumped(f, n)

Clearing(g, k) ==
  Reliable => Cleared("v4", ChainOf[g], k) /\ Cleared("v6", ChainOf[g], k - 3)
Filling(g, k) == Filled("v4", g, k) /\ Filled("v6", g, k - 4)

\* How far g has come with its list of commands, and what that has done.
Progress(g) ==
  /\ pc[g] \in {"idle", "active", "orphaned"} => todo[g] = <<>>
  /\ pc[g] \in {"cleaning", "undoing", "removing"} =>
       \E k \in 0..6 : todo[g] = SubSeq(Cleanup(g), k + 1, 6) /\ Clearing(g, k)
  /\ pc[g] = "building" =>
       \E k \in 0..8 : todo[g] = SubSeq(Setup(built[g]), k + 1, 8) /\ Filling(g, k)
  /\ Live(g) => Filling(g, 8)

\* The commands t of a reaping helper remove what there is of family f.
Covers(f, t) ==
  /\ \A i, j \in DOMAIN t : i < j /\ t[j].op = "D" => t[i].op = "D"
  /\ \A n \in Names : Jumped(f, n) => \E i \in DOMAIN t : t[i] = Command(f, "D", n)
  /\ \A n \in Names : chain[f][n] # NoChain =>
       \/ \E i \in DOMAIN t : /\ i + 1 \in DOMAIN t
                              /\ t[i] = Command(f, "F", n) /\ t[i + 1] = Command(f, "X", n)
       \/ chain[f][n] = <<>> /\ t # <<>> /\ t[1] = Command(f, "X", n)

Reaps(f, t) ==
  /\ \A i \in DOMAIN t : t[i].family = f /\ t[i].op \in {"D", "F", "X"}
  /\ Reliable => Covers(f, t)

HelperOK ==
  /\ Reaping => \A g \in Guards : pc[g] = "idle"
  /\ ~Reaping => todo["helper"] = <<>>
  /\ pc["helper"] = "reap4" => Reaps("v4", todo["helper"])
  /\ pc["helper"] = "reap6" =>
       Reaps("v6", todo["helper"]) /\ (Reliable => \A n \in Names : ~Leftovers("v4", n))

FirewallInv ==
  /\ TablesOK /\ ProcessesOK /\ HelperOK
  /\ \A g \in Guards : Whole(g) /\ Progress(g)

-------------------------------------------------------------------------------
(* What one command changes.                                                *)

Untouched(f, n) == chain'[f][n] = chain[f][n] /\ (Jumped(f, n)' <=> Jumped(f, n))

\* The tables after command c, which found them as it needs them.
Done(c) ==
  LET f == c.family
      n == c.name
  IN /\ TablesOK'
     /\ \A h \in Families, m \in Names : h # f \/ m # n => Untouched(h, m)
     /\ c.op \in {"N", "F"} => chain'[f][n] = <<>> /\ (Jumped(f, n)' <=> Jumped(f, n))
     /\ c.op = "A" => /\ chain'[f][n] = chain[f][n] \o c.rules
                      /\ Jumped(f, n)' <=> Jumped(f, n)
     /\ c.op = "X" => chain'[f][n] = NoChain /\ (Jumped(f, n)' <=> Jumped(f, n))
     /\ c.op = "I" => chain'[f][n] = chain[f][n] /\ Jumped(f, n)'
     /\ c.op = "D" => chain'[f][n] = chain[f][n] /\ ~Jumped(f, n)'

LEMMA CommandFields ==
  ASSUME NEW c \in Commands
  PROVE  /\ c.family \in Families /\ c.name \in Names
         /\ c.op \in {"N", "F", "I", "D", "X", "A"}
         /\ c.op = "A" => c.rules \in Seq(FilterRules)
  BY DEF Commands

Lists == Seq(FilterRules) \cup {NoChain}
Replaced(f, n, rules) == chain' = [chain EXCEPT ![f][n] = rules]

LEMMA ChainChanged ==
  ASSUME TablesOK, NEW f \in Families, NEW n \in Names, NEW rules,
         rules \in Lists, Replaced(f, n, rules), UNCHANGED output, UNCHANGED v6, faults' \in 0..MaxFaults,
         f = "v6" => v6
  PROVE  /\ TablesOK'
         /\ chain'[f][n] = rules /\ (Jumped(f, n)' <=> Jumped(f, n))
         /\ \A h \in Families, m \in Names : h # f \/ m # n => Untouched(h, m)
  <1>1. chain' \in [Families -> [Names -> Seq(FilterRules) \cup {NoChain}]]
    BY DEF TablesOK, Lists, Replaced
  <1>2. chain'[f][n] = rules
    BY DEF TablesOK, Lists, Replaced
  <1>3. \A h \in Families, m \in Names : h # f \/ m # n => chain'[h][m] = chain[h][m]
    BY DEF TablesOK, Lists, Replaced
  <1>4. \A h, m : Jumped(h, m)' <=> Jumped(h, m)
    BY DEF Jumped
  <1>5. ASSUME ~v6', NEW m \in Names PROVE ~Leftovers("v6", m)'
    <2>1. ~v6 /\ ~Leftovers("v6", m) /\ "v6" \in Families
      BY <1>5 DEF TablesOK, Families
    <2>2. f # "v6"
      BY <2>1
    <2>3. chain'["v6"][m] = NoChain
      BY <1>3, <2>1, <2>2 DEF Leftovers
    <2> QED
      BY <1>4, <2>1, <2>3 DEF Leftovers
  <1>6. TablesOK'
    BY <1>1, <1>5 DEF TablesOK
  <1> QED
    BY <1>2, <1>3, <1>4, <1>6 DEF Untouched

LEMMA JumpsChanged ==
  ASSUME TablesOK, NEW f \in Families, NEW names, names \in Seq(Names), Distinct(names),
         output' = [output EXCEPT ![f] = names], UNCHANGED chain, UNCHANGED v6, faults' \in 0..MaxFaults,
         f = "v6" => v6
  PROVE  /\ TablesOK' /\ output'[f] = names
         /\ \A h \in Families : h # f => output'[h] = output[h]
  <1>1. output' \in [Families -> Seq(Names)] /\ output'[f] = names
    BY DEF TablesOK
  <1>2. \A h \in Families : h # f => output'[h] = output[h]
    BY DEF TablesOK
  <1>3. \A h \in Families : Distinct(output'[h])
    BY <1>1, <1>2 DEF TablesOK
  <1>4. ASSUME ~v6', NEW m \in Names PROVE ~Leftovers("v6", m)'
    <2>1. ~v6 /\ ~Leftovers("v6", m) /\ f # "v6" /\ "v6" \in Families
      BY <1>4 DEF TablesOK, Families
    <2>2. output'["v6"] = output["v6"]
      BY <1>2, <2>1
    <2> QED
      BY <2>1, <2>2 DEF Leftovers, Jumped
  <1>5. TablesOK'
    <2>1. /\ chain' \in [Families -> [Names -> Seq(FilterRules) \cup {NoChain}]]
          /\ v6' \in BOOLEAN /\ faults' \in 0..MaxFaults
      BY DEF TablesOK
    <2> QED
      BY <1>1, <1>3, <1>4, <2>1 DEF TablesOK
  <1> QED
    BY <1>1, <1>2, <1>5

\* A command that the kernel carries out has the effect of its letter.
LEMMA CommandDone ==
  ASSUME TablesOK, NEW c \in Commands, Possible(c), Effect(c), UNCHANGED <<v6, faults>>,
         c.op = "I" => ~Jumped(c.family, c.name)
  PROVE  Done(c)
  <1> DEFINE f == c.family  n == c.name
  <1>0. /\ f \in Families /\ n \in Names /\ (f = "v6" => v6) /\ UNCHANGED v6 /\ faults' \in 0..MaxFaults
        /\ chain[f][n] \in Seq(FilterRules) \cup {NoChain}
        /\ output[f] \in Seq(Names) /\ Distinct(output[f])
    BY CommandFields DEF Possible, TablesOK
  <1>1. CASE c.op \in {"N", "F"}
    <2>1. Replaced(f, n, <<>>) /\ UNCHANGED output
      BY <1>1 DEF Effect, Replaced
    <2>2. <<>> \in Lists
      BY DEF Lists
    <2> HIDE DEF f, n
    <2>3. /\ TablesOK' /\ chain'[f][n] = <<>> /\ (Jumped(f, n)' <=> Jumped(f, n))
          /\ \A h \in Families, m \in Names : h # f \/ m # n => Untouched(h, m)
      BY <1>0, <2>1, <2>2, ChainChanged
    <2> QED
      BY <1>1, <2>3 DEF Done, f, n
  <1>2. CASE c.op = "A"
    <2> DEFINE rules == chain[f][n] \o c.rules
    <2>1. Replaced(f, n, rules) /\ UNCHANGED output
      BY <1>2 DEF Effect, Replaced
    <2>2. rules \in Lists
      <3> DEFINE a == chain[f][n]  b == c.rules
      <3>1. a \in Seq(FilterRules) /\ b \in Seq(FilterRules)
        BY <1>0, <1>2, CommandFields DEF Possible
      <3> HIDE DEF a, b
      <3>2. a \o b \in Seq(FilterRules)
        BY <3>1
      <3> QED
        BY <3>2 DEF a, b, Lists
    <2> HIDE DEF f, n, rules
    <2>3. /\ TablesOK' /\ chain'[f][n] = rules /\ (Jumped(f, n)' <=> Jumped(f, n))
          /\ \A h \in Families, m \in Names : h # f \/ m # n => Untouched(h, m)
      BY <1>0, <2>1, <2>2, ChainChanged
    <2> QED
      BY <1>2, <2>3 DEF Done, f, n, rules
  <1>3. CASE c.op = "X"
    <2>1. Replaced(f, n, NoChain) /\ UNCHANGED output
      BY <1>3 DEF Effect, Replaced
    <2>2. NoChain \in Lists
      BY DEF Lists
    <2> HIDE DEF f, n
    <2>3. /\ TablesOK' /\ chain'[f][n] = NoChain /\ (Jumped(f, n)' <=> Jumped(f, n))
          /\ \A h \in Families, m \in Names : h # f \/ m # n => Untouched(h, m)
      BY <1>0, <2>1, <2>2, ChainChanged
    <2> QED
      BY <1>3, <2>3 DEF Done, f, n
  <1>4. CASE c.op = "I"
    <2> DEFINE old == output[f]  names == <<n>> \o old
    <2>1. output' = [output EXCEPT ![f] = names] /\ UNCHANGED chain
      BY <1>4 DEF Effect
    <2>2. ~Contains(old, n) /\ old \in Seq(Names) /\ Distinct(old)
      BY <1>0, <1>4 DEF Jumped
    <2> HIDE DEF f, n, old
    <2>3. /\ names \in Seq(Names) /\ Distinct(names)
          /\ \A m : Contains(names, m) <=> m = n \/ Contains(old, m)
      BY <1>0, <2>2, Prepended
    <2> HIDE DEF names
    <2>4. /\ TablesOK' /\ output'[f] = names /\ \A h \in Families : h # f => output'[h] = output[h]
      BY <1>0, <2>1, <2>3, JumpsChanged
    <2>5. chain'[f][n] = chain[f][n] /\ Jumped(f, n)'
      BY <2>1, <2>3, <2>4 DEF Jumped
    <2>6. ASSUME NEW h \in Families, NEW m \in Names, h # f \/ m # n PROVE Untouched(h, m)
      BY <2>1, <2>3, <2>4, <2>6 DEF Untouched, Jumped, old
    <2> QED
      BY <1>4, <2>4, <2>5, <2>6 DEF Done, f, n
  <1>5. CASE c.op = "D"
    <2> DEFINE old == output[f]  names == RemoveFirst(old, n)
    <2>1. output' = [output EXCEPT ![f] = names] /\ UNCHANGED chain
      BY <1>5 DEF Effect
    <2>2. Contains(old, n) /\ old \in Seq(Names) /\ Distinct(old)
      BY <1>0, <1>5 DEF Possible
    <2> HIDE DEF f, n, old
    <2>3. /\ names \in Seq(Names) /\ Distinct(names)
          /\ \A m : Contains(names, m) <=> m # n /\ Contains(old, m)
      BY <1>0, <2>2, FirstRemoved
    <2> HIDE DEF names
    <2>4. /\ TablesOK' /\ output'[f] = names /\ \A h \in Families : h # f => output'[h] = output[h]
      BY <1>0, <2>1, <2>3, JumpsChanged
    <2>5. chain'[f][n] = chain[f][n] /\ ~Jumped(f, n)'
      BY <2>1, <2>3, <2>4 DEF Jumped
    <2>6. ASSUME NEW h \in Families, NEW m \in Names, h # f \/ m # n PROVE Untouched(h, m)
      BY <2>1, <2>3, <2>4, <2>6 DEF Untouched, Jumped, old
    <2> QED
      BY <1>5, <2>4, <2>5, <2>6 DEF Done, f, n
  <1> QED
    BY <1>1, <1>2, <1>3, <1>4, <1>5, CommandFields

\* The tables after command c failed: only a list of rules leaves something.
Failed(c) ==
  /\ TablesOK'
  /\ \A h \in Families, m \in Names : h # c.family \/ m # c.name \/ c.op # "A" => Untouched(h, m)
  /\ \A h \in Families, m \in Names : Jumped(h, m)' <=> Jumped(h, m)
  /\ ~Possible(c) => UNCHANGED <<chain, output>>

\* A command that fails, of itself or because the tables forbid it.
LEMMA CommandFailed ==
  ASSUME TablesOK, NEW c \in Commands, PartialEffect(c), UNCHANGED v6,
         faults' \in 0..MaxFaults
  PROVE  Failed(c)
  <1>1. CASE UNCHANGED <<chain, output>>
    <2>1. /\ chain' \in [Families -> [Names -> Seq(FilterRules) \cup {NoChain}]]
          /\ output' \in [Families -> Seq(Names)] /\ v6' \in BOOLEAN
          /\ \A f \in Families : Distinct(output[f])'
      BY <1>1 DEF TablesOK
    <2>2. \A h, m : (Jumped(h, m)' <=> Jumped(h, m)) /\ (Leftovers(h, m)' <=> Leftovers(h, m))
      BY <1>1 DEF Leftovers, Jumped
    <2>3. TablesOK'
      BY <2>1, <2>2 DEF TablesOK
    <2> QED
      BY <1>1, <2>2, <2>3 DEF Failed, Untouched
  <1>2. CASE c.op = "A" /\ Possible(c) /\ Effect([c EXCEPT !.rules = Front(@)])
    <2> DEFINE f == c.family  n == c.name  rules == chain[f][n] \o Front(c.rules)
               d == [c EXCEPT !.rules = Front(@)]
    <2>0. c \in [family : Families, op : {"A"}, name : Names, rules : Seq(FilterRules)]
      BY <1>2 DEF Commands
    <2>1. d.family = f /\ d.name = n /\ d.op = "A" /\ d.rules = Front(c.rules)
      BY <2>0
    <2>2. Replaced(f, n, rules) /\ UNCHANGED output
      <3> HIDE DEF d, f, n
      <3>1. Effect(d)
        BY <1>2 DEF d
      <3> QED
        BY <2>1, <3>1 DEF Effect, Replaced
    <2>3. f \in Families /\ n \in Names /\ (f = "v6" => v6)
      BY <1>2, CommandFields DEF Possible
    <2>4. rules \in Lists
      <3>1. chain[f][n] \in Seq(FilterRules)
        BY <1>2, <2>3 DEF Possible, TablesOK
      <3>2. Front(c.rules) \in Seq(FilterRules)
        <4> DEFINE r == c.rules
        <4>1. r \in Seq(FilterRules) /\ 1 \in Int /\ Len(r) - 1 \in Int
              /\ \A i \in 1..Len(r) - 1 : r[i] \in FilterRules
          BY <2>0
        <4> HIDE DEF r
        <4>2. SubSeq(r, 1, Len(r) - 1) \in Seq(FilterRules)
          BY <4>1, SubSeqProperties
        <4> QED
          BY <4>2 DEF r, Front
      <3> DEFINE a == chain[f][n]  b == Front(c.rules)
      <3>3. a \in Seq(FilterRules) /\ b \in Seq(FilterRules)
        BY <3>1, <3>2
      <3> HIDE DEF a, b
      <3>4. a \o b \in Seq(FilterRules)
        BY <3>3
      <3> QED
        BY <3>4 DEF a, b, Lists
    <2> HIDE DEF f, n, rules
    <2>5. /\ TablesOK' /\ (Jumped(f, n)' <=> Jumped(f, n))
          /\ \A h \in Families, m \in Names : h # f \/ m # n => Untouched(h, m)
      BY <2>2, <2>3, <2>4, ChainChanged
    <2> QED
      BY <1>2, <2>5 DEF Failed, Untouched, f, n
  <1> QED
    BY <1>1, <1>2 DEF PartialEffect

-------------------------------------------------------------------------------
(* A chain is a list of rules, of whichever family and whatever it decides. *)

LEMMA RuleTyped ==
  ASSUME NEW dst \in SUBSET (V4 \cup V6), NEW out \in SUBSET Interfaces,
         NEW proto \in SUBSET Protocols, NEW ports \in SUBSET Ports, NEW target \in Targets
  PROVE  Rule(dst, out, proto, ports, target) \in FilterRules
  BY DEF Rule, FilterRules, Targets

LEMMA OneChainRule ==
  ASSUME NEW dst, dst \in SUBSET (V4 \cup V6), NEW out \in SUBSET Interfaces, NEW target \in Targets
  PROVE  <<ChainRule(dst, out, target)>> \in Seq(FilterRules)
  <1> DEFINE r == ChainRule(dst, out, target)
  <1>1. Protocols \in SUBSET Protocols /\ Ports \in SUBSET Ports
    OBVIOUS
  <1>2. r \in FilterRules
    BY <1>1, RuleTyped DEF ChainRule
  <1> HIDE DEF r
  <1>3. <<r>> \in Seq(FilterRules)
    BY <1>2
  <1> QED
    BY <1>3 DEF r

LEMMA DestinationTyped ==
  ASSUME NEW d, d \in DestRules, NEW out \in SUBSET Interfaces, NEW target \in Targets
  PROVE  DestinationRules(d, out, target) \in Seq(FilterRules)
  <1> DEFINE a == d.net
             r == Rule(a, out, {"tcp"}, d.ports, target)  s == Rule(a, out, {"udp"}, d.ports, target)
  <1>1. a \in SUBSET (V4 \cup V6) /\ d.ports \in SUBSET Ports
        /\ {"tcp"} \in SUBSET Protocols /\ {"udp"} \in SUBSET Protocols
    BY DEF DestRules, Protocols
  <1>2. r \in FilterRules /\ s \in FilterRules
    BY <1>1, RuleTyped
  <1>3. <<ChainRule(a, out, target)>> \in Seq(FilterRules)
    <2> HIDE DEF a
    <2> QED
      BY <1>1, OneChainRule
  <1> HIDE DEF r, s
  <1>4. <<r, s>> \in Seq(FilterRules)
    BY <1>2
  <1> QED
    BY <1>3, <1>4 DEF DestinationRules, r, s

LEMMA FlattenedTyped ==
  ASSUME NEW n \in Nat, NEW seqs, seqs = [i \in 1..n |-> seqs[i]],
         \A i \in 1..n : seqs[i] \in Seq(FilterRules)
  PROVE  FlattenSeq(seqs) \in Seq(FilterRules)
  <1>1. seqs \in Seq(Seq(FilterRules))
    OBVIOUS
  <1> QED
    BY <1>1, FlattenSeqRules

LEMMA DestinationsTyped ==
  ASSUME NEW f, NEW ds, ds \in Seq(DestRules), NEW out \in SUBSET Interfaces, NEW target \in Targets
  PROVE  Destinations(f, ds, out, target) \in Seq(FilterRules)
  <1> DEFINE a == ds  n == Len(a)
             seqs == [i \in 1..n |-> OfFamily(f, a[i].net, DestinationRules(a[i], out, target))]
  <1>1. n \in Nat /\ DOMAIN a = 1..n /\ \A i \in 1..n : a[i] \in DestRules
    OBVIOUS
  <1>2. Destinations(f, a, out, target) = FlattenSeq(seqs)
    BY <1>1 DEF Destinations, ForEach
  <1> HIDE DEF a, n
  <1>3. ASSUME NEW i \in 1..n PROVE seqs[i] \in Seq(FilterRules)
    <2> DEFINE d == a[i]  rules == DestinationRules(d, out, target)
    <2>1. seqs[i] = OfFamily(f, d.net, rules) /\ d \in DestRules
      BY <1>1
    <2> HIDE DEF d, seqs
    <2>2. rules \in Seq(FilterRules)
      BY <2>1, DestinationTyped
    <2>3. <<>> \in Seq(FilterRules)
      OBVIOUS
    <2> HIDE DEF rules
    <2> QED
      BY <2>1, <2>2, <2>3 DEF OfFamily
  <1>4. seqs = [i \in 1..n |-> seqs[i]]
    OBVIOUS
  <1> HIDE DEF seqs
  <1>5. FlattenSeq(seqs) \in Seq(FilterRules)
    BY <1>1, <1>3, <1>4, FlattenedTyped
  <1> QED
    BY <1>2, <1>5 DEF a

LEMMA LanBlocksTyped ==
  ASSUME NEW f
  PROVE  LanBlocks(f) \in Seq(FilterRules)
  <1> DEFINE n == Len(Lans)
             seqs == [i \in 1..n |-> OfFamily(f, Lans[i], <<ChainRule(Lans[i], Interfaces, "REJECT")>>)]
  <1>1. n \in Nat /\ DOMAIN Lans = 1..n /\ \A i \in 1..n : Lans[i] \in (SUBSET V4) \cup (SUBSET V6)
    BY PolicyAssumption
  <1>2. LanBlocks(f) = FlattenSeq(seqs)
    BY <1>1 DEF LanBlocks, ForEach
  <1> HIDE DEF n
  <1>3. ASSUME NEW i \in 1..n PROVE seqs[i] \in Seq(FilterRules)
    <2> DEFINE lan == Lans[i]  rules == <<ChainRule(lan, Interfaces, "REJECT")>>
    <2>1. seqs[i] = OfFamily(f, lan, rules) /\ lan \in SUBSET (V4 \cup V6)
      BY <1>1
    <2> HIDE DEF lan, seqs
    <2>2. rules \in Seq(FilterRules)
      <3>1. Interfaces \in SUBSET Interfaces /\ "REJECT" \in Targets
        BY DEF Targets
      <3> QED
        BY <2>1, <3>1, OneChainRule
    <2>3. <<>> \in Seq(FilterRules)
      OBVIOUS
    <2> HIDE DEF rules
    <2> QED
      BY <2>1, <2>2, <2>3 DEF OfFamily
  <1>4. seqs = [i \in 1..n |-> seqs[i]]
    OBVIOUS
  <1> HIDE DEF seqs
  <1>5. FlattenSeq(seqs) \in Seq(FilterRules)
    BY <1>1, <1>3, <1>4, FlattenedTyped
  <1> QED
    BY <1>2, <1>5

LEMMA ListsJoined ==
  ASSUME NEW a, NEW b, a \in Seq(FilterRules), b \in Seq(FilterRules)
  PROVE  a \o b \in Seq(FilterRules)
  BY Concatenated

\* The chain of every rule set is one: what setup appends is a list of rules.
LEMMA ChainTyped ==
  ASSUME NEW rs, SoundRuleSet(rs), NEW f \in Families
  PROVE  Chain(rs, f) \in Seq(FilterRules)
  <1>0. /\ Addresses(f) \in SUBSET (V4 \cup V6) /\ {"lo"} \in SUBSET Interfaces
        /\ Interfaces \in SUBSET Interfaces /\ "RETURN" \in Targets /\ "REJECT" \in Targets
        /\ rs.network.allow \in Seq(DestRules)
        /\ rs.network.lan_allow \in Seq(DestRules) /\ rs.network.deny \in Seq(DestRules)
        /\ <<>> \in Seq(FilterRules)
        /\ ~IsProxyOnly(rs) => {rs.interface} \in SUBSET Interfaces
    BY DEF Addresses, Interfaces, Targets, SoundRuleSet, NetworkPolicies, IsProxyOnly
  <1>1. ToLoopback(f) \in Seq(FilterRules) /\ Rest(f) \in Seq(FilterRules)
    <2> DEFINE dst == Addresses(f)  lo == {"lo"}
    <2>1. dst \in SUBSET (V4 \cup V6) /\ lo \in SUBSET Interfaces
      BY <1>0
    <2> HIDE DEF dst, lo
    <2>2. /\ <<ChainRule(dst, lo, "RETURN")>> \in Seq(FilterRules)
          /\ <<ChainRule(dst, Interfaces, "REJECT")>> \in Seq(FilterRules)
      BY <1>0, <2>1, OneChainRule
    <2> QED
      BY <2>2 DEF ToLoopback, Rest, dst, lo
  <1>2. LanExceptions(rs, f) \in Seq(FilterRules)
    <2> DEFINE ds == rs.network.lan_allow
    <2>1. ds \in Seq(DestRules)
      BY <1>0
    <2> HIDE DEF ds
    <2>2. Destinations(f, ds, Interfaces, "RETURN") \in Seq(FilterRules)
      BY <1>0, <2>1, DestinationsTyped
    <2> QED
      BY <1>0, <2>2 DEF LanExceptions, ds
  <1>3. Denies(rs, f) \in Seq(FilterRules)
    <2> DEFINE ds == rs.network.deny
    <2>1. ds \in Seq(DestRules)
      BY <1>0
    <2> HIDE DEF ds
    <2>2. Destinations(f, ds, Interfaces, "REJECT") \in Seq(FilterRules)
      BY <1>0, <2>1, DestinationsTyped
    <2> QED
      BY <2>2 DEF Denies, ds
  <1>4. ChainTail(rs, f) \in Seq(FilterRules)
    <2> DEFINE ds == rs.network.allow  out == {rs.interface}  dst == Addresses(f)
    <2>1. ds \in Seq(DestRules) /\ dst \in SUBSET (V4 \cup V6) /\ (~IsProxyOnly(rs) => out \in SUBSET Interfaces)
      BY <1>0
    <2> HIDE DEF ds, out, dst
    <2>2. ~IsProxyOnly(rs) =>
            /\ Destinations(f, ds, out, "RETURN") \in Seq(FilterRules)
            /\ <<ChainRule(dst, out, "RETURN")>> \in Seq(FilterRules)
      BY <1>0, <2>1, DestinationsTyped, OneChainRule
    <2> QED
      BY <1>0, <2>2 DEF ChainTail, ds, out, dst
  <1> DEFINE lo == ToLoopback(f)  ex == LanExceptions(rs, f)  bl == LanBlocks(f)
             dn == Denies(rs, f)  tl == ChainTail(rs, f)  rest == Rest(f)
  <1>5. /\ lo \in Seq(FilterRules) /\ ex \in Seq(FilterRules) /\ bl \in Seq(FilterRules)
        /\ dn \in Seq(FilterRules) /\ tl \in Seq(FilterRules) /\ rest \in Seq(FilterRules)
        /\ Chain(rs, f) = lo \o ex \o bl \o dn \o tl \o rest
    BY <1>1, <1>2, <1>3, <1>4, LanBlocksTyped DEF Chain
  <1> HIDE DEF lo, ex, bl, dn, tl, rest
  <1> DEFINE c2 == lo \o ex  c3 == c2 \o bl  c4 == c3 \o dn  c5 == c4 \o tl  c6 == c5 \o rest
  <1>6. c2 \in Seq(FilterRules)
    BY <1>5, ListsJoined
  <1> HIDE DEF c2
  <1>7. c3 \in Seq(FilterRules)
    BY <1>5, <1>6, ListsJoined
  <1> HIDE DEF c3
  <1>8. c4 \in Seq(FilterRules)
    BY <1>5, <1>7, ListsJoined
  <1> HIDE DEF c4
  <1>9. c5 \in Seq(FilterRules)
    BY <1>5, <1>8, ListsJoined
  <1> HIDE DEF c5
  <1>10. c6 \in Seq(FilterRules)
    BY <1>5, <1>9, ListsJoined
  <1> HIDE DEF c6
  <1>11. Chain(rs, f) = c6
    BY <1>5 DEF c2, c3, c4, c5, c6
  <1> QED
    BY <1>10, <1>11

-------------------------------------------------------------------------------
(* The lists of commands.                                                   *)

LEMMA GuardFacts ==
  ASSUME NEW g \in Guards
  PROVE  /\ ChainOf[g] \in Names /\ g \in Workers /\ g # "helper"
         /\ \A h \in Guards : ChainOf[h] = ChainOf[g] => h = g
         /\ \A rs \in RuleSetsOf[g] :
              SoundRuleSet(rs) /\ ChainName(rs) = ChainOf[g] /\ rs \in RuleSets
  BY GuardAssumption DEF Names, Workers, SoundRuleSet, ChainName, RuleSets

\* The six commands of a clean-up.
LEMMA CleanupList ==
  ASSUME NEW g \in Guards
  PROVE  LET n == ChainOf[g]
             c == Cleanup(g)
         IN /\ c \in Seq(Commands) /\ Len(c) = 6
            /\ c[1] = Command("v4", "D", n) /\ c[2] = Command("v4", "F", n)
            /\ c[3] = Command("v4", "X", n) /\ c[4] = Command("v6", "D", n)
            /\ c[5] = Command("v6", "F", n) /\ c[6] = Command("v6", "X", n)
  <1> DEFINE n == ChainOf[g]
             d4 == Command("v4", "D", n)  f4 == Command("v4", "F", n)  x4 == Command("v4", "X", n)
             d6 == Command("v6", "D", n)  f6 == Command("v6", "F", n)  x6 == Command("v6", "X", n)
  <1>1. /\ d4 \in Commands /\ f4 \in Commands /\ x4 \in Commands
        /\ d6 \in Commands /\ f6 \in Commands /\ x6 \in Commands
    BY GuardFacts DEF Command, Commands, Families
  <1>2. Cleanup(g) = <<d4, f4, x4>> \o <<d6, f6, x6>>
    BY DEF Cleanup, CleanupCommands
  <1> HIDE DEF d4, f4, x4, d6, f6, x6
  <1> DEFINE a == <<d4, f4, x4>>  b == <<d6, f6, x6>>
  <1>3. /\ a \in Seq(Commands) /\ Len(a) = 3 /\ a[1] = d4 /\ a[2] = f4 /\ a[3] = x4
        /\ b \in Seq(Commands) /\ Len(b) = 3 /\ b[1] = d6 /\ b[2] = f6 /\ b[3] = x6
    BY <1>1
  <1> HIDE DEF a, b
  <1>4. /\ a \o b \in Seq(Commands) /\ Len(a \o b) = Len(a) + Len(b)
        /\ \A i \in 1..Len(a) + Len(b) : (a \o b)[i] = IF i <= Len(a) THEN a[i] ELSE b[i - Len(a)]
    BY <1>3, ConcatProperties
  <1> DEFINE c == a \o b
  <1>5. c \in Seq(Commands) /\ Len(c) = 6
    BY <1>3, <1>4
  <1>6. /\ c[1] = a[1] /\ c[2] = a[2] /\ c[3] = a[3] /\ c[4] = b[1] /\ c[5] = b[2] /\ c[6] = b[3]
    <2>1. \A i \in 1..6 : c[i] = IF i <= 3 THEN a[i] ELSE b[i - 3]
      BY <1>3, <1>4
    <2> HIDE DEF c
    <2> QED
      BY <2>1
  <1>7. Cleanup(g) = c
    BY <1>2 DEF a, b
  <1> HIDE DEF c
  <1> QED
    BY <1>3, <1>5, <1>6, <1>7 DEF d4, f4, x4, d6, f6, x6

\* The eight commands of a setup.
LEMMA SetupList ==
  ASSUME NEW g \in Guards, NEW rs \in RuleSetsOf[g]
  PROVE  LET n == ChainOf[g]
             c == Setup(rs)
         IN /\ c \in Seq(Commands) /\ Len(c) = 8
            /\ c[1] = Command("v4", "N", n) /\ c[2] = Command("v4", "F", n)
            /\ c[3] = AppendCommands("v4", n, Chain(rs, "v4")) /\ c[4] = Command("v4", "I", n)
            /\ c[5] = Command("v6", "N", n) /\ c[6] = Command("v6", "F", n)
            /\ c[7] = AppendCommands("v6", n, Chain(rs, "v6")) /\ c[8] = Command("v6", "I", n)
  <1> DEFINE n == ChainOf[g]
             n4 == Command("v4", "N", n)  f4 == Command("v4", "F", n)
             a4 == AppendCommands("v4", n, Chain(rs, "v4"))  i4 == Command("v4", "I", n)
             n6 == Command("v6", "N", n)  f6 == Command("v6", "F", n)
             a6 == AppendCommands("v6", n, Chain(rs, "v6"))  i6 == Command("v6", "I", n)
  <1>1. /\ n4 \in Commands /\ f4 \in Commands /\ i4 \in Commands
        /\ n6 \in Commands /\ f6 \in Commands /\ i6 \in Commands
    BY GuardFacts DEF Command, Commands, Families
  <1>2. a4 \in Commands /\ a6 \in Commands
    <2>1. "v4" \in Families /\ "v6" \in Families /\ SoundRuleSet(rs) /\ n \in Names
      BY GuardFacts DEF Families
    <2>2. Chain(rs, "v4") \in Seq(FilterRules) /\ Chain(rs, "v6") \in Seq(FilterRules)
      BY <2>1, ChainTyped
    <2> HIDE DEF n
    <2> QED
      BY <2>1, <2>2 DEF AppendCommands, Commands
  <1>3. Setup(rs) = <<n4, f4, a4, i4>> \o <<n6, f6, a6, i6>>
    BY GuardFacts DEF Setup, SetupCommands
  <1> HIDE DEF n4, f4, a4, i4, n6, f6, a6, i6
  <1> DEFINE a == <<n4, f4, a4, i4>>  b == <<n6, f6, a6, i6>>
  <1>4. /\ a \in Seq(Commands) /\ Len(a) = 4
        /\ a[1] = n4 /\ a[2] = f4 /\ a[3] = a4 /\ a[4] = i4
        /\ b \in Seq(Commands) /\ Len(b) = 4
        /\ b[1] = n6 /\ b[2] = f6 /\ b[3] = a6 /\ b[4] = i6
    BY <1>1, <1>2
  <1> HIDE DEF a, b
  <1>5. /\ a \o b \in Seq(Commands) /\ Len(a \o b) = Len(a) + Len(b)
        /\ \A i \in 1..Len(a) + Len(b) : (a \o b)[i] = IF i <= Len(a) THEN a[i] ELSE b[i - Len(a)]
    BY <1>4, ConcatProperties
  <1> DEFINE c == a \o b
  <1>6. c \in Seq(Commands) /\ Len(c) = 8
    BY <1>4, <1>5
  <1>7. /\ c[1] = a[1] /\ c[2] = a[2] /\ c[3] = a[3] /\ c[4] = a[4]
        /\ c[5] = b[1] /\ c[6] = b[2] /\ c[7] = b[3] /\ c[8] = b[4]
    <2>1. \A i \in 1..8 : c[i] = IF i <= 4 THEN a[i] ELSE b[i - 4]
      BY <1>4, <1>5
    <2> HIDE DEF c
    <2> QED
      BY <2>1
  <1>8. Setup(rs) = c
    BY <1>3 DEF a, b
  <1> HIDE DEF c
  <1> QED
    BY <1>4, <1>6, <1>7, <1>8 DEF n4, f4, a4, i4, n6, f6, a6, i6

\* What is left of a list after its first k commands.
Left(list, k) == SubSeq(list, k + 1, Len(list))

\* What is left of a list after its first k elements.
LEMMA LeftOfList ==
  ASSUME NEW list, list \in Seq(Commands), NEW k, k \in 0..Len(list)
  PROVE  /\ Left(list, k) \in Seq(Commands)
         /\ Left(list, k) # <<>> <=> k < Len(list)
         /\ k < Len(list) => /\ Head(Left(list, k)) = list[k + 1] /\ list[k + 1] \in Commands
                             /\ Tail(Left(list, k)) = Left(list, k + 1)
         /\ Left(list, 0) = list
  <1> DEFINE l == list
  <1>0. l \in Seq(Commands) /\ Len(l) \in Nat /\ k \in Int /\ k + 1 \in Int /\ Len(l) \in Int
        /\ \A i \in 1..Len(l) : l[i] \in Commands
    OBVIOUS
  <1> HIDE DEF l
  <1>1. /\ SubSeq(l, k + 1, Len(l)) \in Seq(Commands)
        /\ Len(SubSeq(l, k + 1, Len(l))) = IF k + 1 <= Len(l) THEN Len(l) - (k + 1) + 1 ELSE 0
    <2>1. \A i \in k + 1..Len(l) : l[i] \in Commands
      BY <1>0, k \in 0..Len(l) DEF l
    <2> QED
      BY <1>0, <2>1, SubSeqProperties
  <1>2. k \in 0..Len(l)
    BY DEF l
  <1>3. Left(l, k) # <<>> <=> k < Len(l)
    <2> DEFINE t == SubSeq(l, k + 1, Len(l))
    <2>1. t \in Seq(Commands) /\ Len(t) = IF k + 1 <= Len(l) THEN Len(l) - (k + 1) + 1 ELSE 0
      BY <1>1
    <2>3. Left(l, k) = t
      BY DEF Left
    <2> HIDE DEF t
    <2>2. t # <<>> <=> Len(t) # 0
      BY <2>1
    <2> QED
      BY <1>0, <1>2, <2>1, <2>2, <2>3
  <1>4. ASSUME k < Len(l)
        PROVE  /\ Head(Left(l, k)) = l[k + 1] /\ l[k + 1] \in Commands
               /\ Tail(Left(l, k)) = Left(l, k + 1)
    <2>1. k + 1 \in 1..Len(l) /\ Len(l) \in k + 1..Len(l)
      BY <1>0, <1>2, <1>4
    <2>2. /\ Head(SubSeq(l, k + 1, Len(l))) = l[k + 1]
          /\ Tail(SubSeq(l, k + 1, Len(l))) = SubSeq(l, k + 1 + 1, Len(l))
      BY <1>0, <2>1, HeadTailOfSubSeq
    <2> QED
      BY <1>0, <2>1, <2>2 DEF Left
  <1>5. Left(l, 0) = l
    <2>1. SubSeq(l, 1, Len(l)) = l
      BY <1>0, SubSeqFull
    <2> QED
      BY <2>1 DEF Left
  <1> QED
    BY <1>1, <1>3, <1>4, <1>5 DEF l, Left

-------------------------------------------------------------------------------
(* What a guard does not notice.                                            *)

LEMMA KeepsProgress ==
  ASSUME NEW g \in Guards, Whole(g), Progress(g),
         \A f \in Families : Untouched(f, ChainOf[g]),
         pc'[g] = pc[g], todo'[g] = todo[g], built'[g] = built[g], Reliable' => Reliable
  PROVE  Whole(g)' /\ Progress(g)'
  <1> DEFINE n == ChainOf[g]
  <1>0. "v4" \in Families /\ "v6" \in Families
    BY DEF Families
  <1>1. Whole(g)'
    BY DEF Whole, Untouched
  <1>2. \A f \in Families : chain'[f][n] = chain[f][n] /\ (Jumped(f, n)' <=> Jumped(f, n))
    BY DEF Untouched
  <1>3. \A f \in Families, k \in Int : Filled(f, g, k) => Filled(f, g, k)'
    BY <1>2 DEF Filled, Leftovers
  <1>4. \A f \in Families, k \in Int : Cleared(f, n, k) => Cleared(f, n, k)'
    BY <1>2 DEF Cleared
  <1>5. ASSUME NEW k \in 0..8 PROVE /\ Filling(g, k) => Filling(g, k)'
                                    /\ Clearing(g, k) => Clearing(g, k)'
    <2>1. k \in Int /\ k - 4 \in Int /\ k - 3 \in Int
      OBVIOUS
    <2> QED
      BY <1>0, <1>3, <1>4, <2>1 DEF Filling, Clearing
  <1>6. Cleanup(g)' = Cleanup(g) /\ Setup(built[g])' = Setup(built[g])
    BY DEF Cleanup, CleanupCommands, Setup, SetupCommands, Chain
  <1>7. \A k \in 0..6 : k \in 0..8
    OBVIOUS
  <1>8. pc[g] \in {"cleaning", "undoing", "removing"} =>
          \E k \in 0..6 : todo'[g] = SubSeq(Cleanup(g), k + 1, 6) /\ Clearing(g, k)'
    BY <1>5, <1>7 DEF Progress
  <1>9. pc[g] = "building" =>
          \E k \in 0..8 : todo'[g] = SubSeq(Setup(built[g]), k + 1, 8) /\ Filling(g, k)'
    BY <1>5 DEF Progress
  <1>10. Live(g) => Filling(g, 8)'
    BY <1>5 DEF Progress
  <1> QED
    BY <1>1, <1>6, <1>8, <1>9, <1>10 DEF Progress, Live

-------------------------------------------------------------------------------
(* One command of a clean-up, and one of a setup.                           *)

\* Command c worked, or it failed because the tables were not as it needs them.
Ran(c) ==
  \/ Possible(c) /\ Done(c)
  \/ Failed(c) /\ (Reliable' => ~Possible(c))

\* What clean-ups run.
IsRemoval(c) == c.op \in {"D", "F", "X"}

\* A removal leaves no more than it found, and works if it can.
LEMMA RemovalRan ==
  ASSUME TablesOK, NEW f \in Families, NEW n \in Names, NEW op \in {"D", "F", "X"},
         Ran(Command(f, op, n)), Reliable'
  PROVE  /\ op = "D" => ~Jumped(f, n)' /\ chain'[f][n] = chain[f][n]
         /\ op # "D" => (Jumped(f, n)' <=> Jumped(f, n))
         /\ op = "F" => chain'[f][n] \in {<<>>, NoChain}
         /\ op = "X" => (chain[f][n] \in {<<>>, NoChain} /\ ~Jumped(f, n) => chain'[f][n] = NoChain)
         /\ chain[f][n] = NoChain => chain'[f][n] = NoChain
  <1> DEFINE c == Command(f, op, n)
  <1>1. c.family = f /\ c.op = op /\ c.name = n
    BY DEF Command
  <1>2. ~v6 /\ f = "v6" => chain[f][n] = NoChain /\ ~Jumped(f, n)
    BY DEF TablesOK, Leftovers
  <1> HIDE DEF c
  <1>3. CASE Possible(c) /\ Done(c)
    BY <1>1, <1>3 DEF Possible, Done, Jumped
  <1>4. CASE Failed(c) /\ ~Possible(c)
    <2>1. chain' = chain /\ output' = output
      BY <1>4 DEF Failed
    <2>2. Jumped(f, n)' <=> Jumped(f, n)
      BY <2>1 DEF Jumped
    <2>3. f = "v6" => v6 \/ (chain[f][n] = NoChain /\ ~Jumped(f, n))
      BY <1>2
    <2>4. op = "D" => ~Jumped(f, n)
      BY <1>1, <1>4, <2>3 DEF Possible, Jumped
    <2>5. op = "F" => chain[f][n] = NoChain
      BY <1>1, <1>4, <2>3 DEF Possible
    <2>6. op = "X" => chain[f][n] = NoChain \/ Jumped(f, n) \/ chain[f][n] # <<>>
      BY <1>1, <1>4, <2>3 DEF Possible, Jumped
    <2> QED
      BY <2>1, <2>2, <2>4, <2>5, <2>6
  <1> QED
    BY <1>3, <1>4 DEF Ran, c

\* No command reaches beyond its chain.
LEMMA OthersUntouched ==
  ASSUME NEW c \in Commands, Ran(c)
  PROVE  /\ TablesOK'
         /\ \A f \in Families, n \in Names : f # c.family \/ n # c.name => Untouched(f, n)
  BY Zenon DEF Ran, Done, Failed

LEMMA FamilyCleared ==
  ASSUME TablesOK, NEW f \in Families, NEW n \in Names, NEW op,
         NEW k \in 0..2, k = 0 => op = "D", k = 1 => op = "F", k = 2 => op = "X",
         Cleared(f, n, k), Ran(Command(f, op, n)), Reliable'
  PROVE  Cleared(f, n, k + 1)'
  <1>1. op \in {"D", "F", "X"}
    OBVIOUS
  <1>2. /\ op = "D" => ~Jumped(f, n)'
        /\ op # "D" => (Jumped(f, n)' <=> Jumped(f, n))
        /\ op = "F" => chain'[f][n] \in {<<>>, NoChain}
        /\ op = "X" => (chain[f][n] \in {<<>>, NoChain} /\ ~Jumped(f, n) => chain'[f][n] = NoChain)
    BY <1>1, RemovalRan
  <1>3. CASE k = 0
    BY <1>2, <1>3 DEF Cleared
  <1>4. CASE k = 1
    BY <1>2, <1>4 DEF Cleared
  <1>5. CASE k = 2
    BY <1>2, <1>5 DEF Cleared
  <1> QED
    BY <1>3, <1>4, <1>5

LEMMA ClearedKept ==
  ASSUME NEW f \in Families, NEW n \in Names, NEW k \in Int, NEW j \in Int,
         Cleared(f, n, k), j <= k \/ j <= 0 \/ k >= 3, Untouched(f, n)
  PROVE  Cleared(f, n, j)'
  BY DEF Cleared, Untouched

\* One more command of a clean-up has run.
LEMMA CleanupStep ==
  ASSUME TablesOK, NEW g \in Guards, NEW k \in 0..5, Clearing(g, k), Reliable' => Reliable,
         Ran(Cleanup(g)[k + 1])
  PROVE  Clearing(g, k + 1)'
  <1> DEFINE n == ChainOf[g]  c == Cleanup(g)[k + 1]
  <1> SUFFICES ASSUME Reliable' PROVE Cleared("v4", n, k + 1)' /\ Cleared("v6", n, k + 1 - 3)'
    BY DEF Clearing
  <1>0. n \in Names /\ "v4" \in Families /\ "v6" \in Families
    BY GuardFacts DEF Families
  <1>1. Cleared("v4", n, k) /\ Cleared("v6", n, k - 3)
    BY DEF Clearing
  <1>2. /\ k = 0 => c = Command("v4", "D", n)
        /\ k = 1 => c = Command("v4", "F", n)
        /\ k = 2 => c = Command("v4", "X", n)
        /\ k = 3 => c = Command("v6", "D", n)
        /\ k = 4 => c = Command("v6", "F", n)
        /\ k = 5 => c = Command("v6", "X", n)
    BY CleanupList
  <1>3. c \in Commands
    <2>1. k + 1 \in 1..6
      OBVIOUS
    <2> QED
      BY <2>1, CleanupList
  <1>4. /\ TablesOK'
        /\ \A f \in Families, m \in Names : f # c.family \/ m # c.name => Untouched(f, m)
    BY <1>3, OthersUntouched
  <1> DEFINE op == IF k \in {0, 3} THEN "D" ELSE IF k \in {1, 4} THEN "F" ELSE "X"
  <1>5. CASE k \in 0..2
    <2>1. c = Command("v4", op, n) /\ c.family = "v4"
      BY <1>2, <1>5 DEF Command
    <2>2. k \in 0..2 /\ (k = 0 => op = "D") /\ (k = 1 => op = "F") /\ (k = 2 => op = "X")
          /\ Ran(Command("v4", op, n))
      BY <1>5, <2>1
    <2> HIDE DEF op, n, c
    <2>3. Cleared("v4", n, k + 1)'
      BY <1>0, <1>1, <2>2, FamilyCleared
    <2>4. Untouched("v6", n)
      BY <1>0, <1>4, <2>1
    <2>5. Cleared("v6", n, k + 1 - 3)'
      <3>1. k - 3 \in Int /\ k + 1 - 3 \in Int /\ k + 1 - 3 <= 0
        BY <1>5
      <3> QED
        BY <1>0, <1>1, <2>4, <3>1, ClearedKept
    <2> QED
      BY <2>3, <2>5
  <1>6. CASE k \in 3..5
    <2> DEFINE j == k - 3
    <2>1. c = Command("v6", op, n) /\ c.family = "v6"
      BY <1>2, <1>6 DEF Command
    <2>2. j \in 0..2 /\ (j = 0 => op = "D") /\ (j = 1 => op = "F") /\ (j = 2 => op = "X")
          /\ Ran(Command("v6", op, n)) /\ k + 1 - 3 = j + 1
      BY <1>6, <2>1
    <2>3. Cleared("v6", n, j)
      BY <1>1
    <2> HIDE DEF op, n, c, j
    <2>4. Cleared("v6", n, j + 1)'
      BY <1>0, <2>2, <2>3, FamilyCleared
    <2>5. Untouched("v4", n)
      BY <1>0, <1>4, <2>1
    <2>6. Cleared("v4", n, k + 1)'
      <3>1. k \in Int /\ k + 1 \in Int /\ k >= 3
        BY <1>6
      <3> QED
        BY <1>0, <1>1, <2>5, <3>1, ClearedKept
    <2> QED
      BY <2>2, <2>4, <2>6
  <1> QED
    BY <1>5, <1>6

\* The commands of a setup, by position.
IsFilling(c, f, g, k) ==
  /\ k = 0 => c = Command(f, "N", ChainOf[g])
  /\ k = 1 => c = Command(f, "F", ChainOf[g])
  /\ k = 2 => c = AppendCommands(f, ChainOf[g], Chain(built[g], f))
  /\ k = 3 => c = Command(f, "I", ChainOf[g])

LEMMA FillingCommands ==
  ASSUME NEW g \in Guards, built[g] \in RuleSetsOf[g], NEW k \in 0..7
  PROVE  LET c == Setup(built[g])[k + 1]
         IN /\ c \in Commands /\ c.name = ChainOf[g]
            /\ k <= 3 => IsFilling(c, "v4", g, k) /\ c.family = "v4"
            /\ k >= 4 => IsFilling(c, "v6", g, k - 4) /\ c.family = "v6"
  <1> DEFINE rs == built[g]  l == Setup(rs)  n == ChainOf[g]
  <1>1. rs \in RuleSetsOf[g]
    OBVIOUS
  <1> HIDE DEF rs
  <1>2. /\ l \in Seq(Commands) /\ Len(l) = 8
        /\ l[1] = Command("v4", "N", n) /\ l[2] = Command("v4", "F", n)
        /\ l[3] = AppendCommands("v4", n, Chain(rs, "v4")) /\ l[4] = Command("v4", "I", n)
        /\ l[5] = Command("v6", "N", n) /\ l[6] = Command("v6", "F", n)
        /\ l[7] = AppendCommands("v6", n, Chain(rs, "v6")) /\ l[8] = Command("v6", "I", n)
    BY <1>1, SetupList
  <1> HIDE DEF l
  <1>3. l[k + 1] \in Commands
    <2>1. k + 1 \in 1..Len(l)
      BY <1>2
    <2> QED
      BY <1>2, <2>1, ElementOfSeq
  <1>4. CASE k <= 3
    <2>1. IsFilling(l[k + 1], "v4", g, k)
      BY <1>2, <1>4 DEF IsFilling, rs
    <2>2. l[k + 1].family = "v4" /\ l[k + 1].name = n
      <3>1. k \in {0, 1, 2, 3}
        BY <1>4
      <3> QED
        BY <2>1, <3>1 DEF IsFilling, Command, AppendCommands
    <2>3. ~(k >= 4)
      BY <1>4
    <2> QED
      BY <1>3, <2>1, <2>2, <2>3 DEF l, rs
  <1>5. CASE k >= 4
    <2>1. IsFilling(l[k + 1], "v6", g, k - 4)
      BY <1>2, <1>5 DEF IsFilling, rs
    <2>2. l[k + 1].family = "v6" /\ l[k + 1].name = n
      <3>1. k - 4 \in {0, 1, 2, 3}
        BY <1>5
      <3> QED
        BY <2>1, <3>1 DEF IsFilling, Command, AppendCommands
    <2>3. ~(k <= 3)
      BY <1>5
    <2> QED
      BY <1>3, <2>1, <2>2, <2>3 DEF l, rs
  <1> QED
    BY <1>4, <1>5

\* The kernel keeps a chain that is jumped to.
LEMMA JumpedExists ==
  ASSUME NEW g \in Guards, Whole(g), NEW f \in Families, Jumped(f, ChainOf[g])
  PROVE  chain[f][ChainOf[g]] # NoChain
  <1>1. CASE chain[f][ChainOf[g]] = <<>>
    <2>1. <<>> \in Seq(FilterRules)
      OBVIOUS
    <2> QED
      BY <1>1, <2>1, GuardAssumption
  <1>2. CASE \E rs \in RuleSetsOf[g] : chain[f][ChainOf[g]] = Chain(rs, f)
    BY <1>2, GuardFacts, ChainTyped, GuardAssumption
  <1> QED
    BY <1>1, <1>2 DEF Whole

LEMMA FamilyFilled ==
  ASSUME TablesOK, NEW g \in Guards, Whole(g), NEW f \in Families, NEW k \in 0..3, NEW c,
         IsFilling(c, f, g, k), Filled(f, g, k), Possible(c), Done(c),
         built[g] \in RuleSetsOf[g], built'[g] = built[g]
  PROVE  Filled(f, g, k + 1)'
  <1> DEFINE n == ChainOf[g]
  <1>1. CASE k = 0
    <2>1. c.family = f /\ c.name = n /\ c.op = "N"
      BY <1>1 DEF IsFilling, Command
    <2>2. ~Jumped(f, n)
      <3>1. chain[f][n] = NoChain
        BY <2>1 DEF Possible
      <3> QED
        BY <3>1, JumpedExists
    <2>3. chain'[f][n] = <<>> /\ ~Jumped(f, n)'
      BY <2>1, <2>2 DEF Done
    <2> QED
      BY <1>1, <2>3 DEF Filled
  <1>2. CASE k = 1
    <2>1. c.family = f /\ c.name = n /\ c.op = "F"
      BY <1>2 DEF IsFilling, Command
    <2>2. chain'[f][n] = <<>> /\ ~Jumped(f, n)'
      BY <1>2, <2>1 DEF Done, Filled
    <2> QED
      BY <1>2, <2>2 DEF Filled
  <1>3. CASE k = 2
    <2>1. c.family = f /\ c.name = n /\ c.op = "A" /\ c.rules = Chain(built[g], f)
      BY <1>3 DEF IsFilling, AppendCommands
    <2>2. chain[f][n] = <<>> /\ ~Jumped(f, n)
      BY <1>3 DEF Filled
    <2>3. chain'[f][n] = chain[f][n] \o c.rules /\ ~Jumped(f, n)'
      BY <2>1, <2>2 DEF Done
    <2>4. chain'[f][n] = Chain(built[g], f)
      <3> DEFINE a == Chain(built[g], f)
      <3>1. a \in Seq(FilterRules)
        BY GuardFacts, ChainTyped
      <3> HIDE DEF a
      <3>2. <<>> \o a = a
        BY <3>1, ConcatEmptySeq
      <3> QED
        BY <2>1, <2>2, <2>3, <3>2 DEF a
    <2> QED
      BY <1>3, <2>3, <2>4 DEF Filled, Chain
  <1>4. CASE k = 3
    <2>1. c.family = f /\ c.name = n /\ c.op = "I"
      BY <1>4 DEF IsFilling, Command
    <2>2. chain'[f][n] = Chain(built[g], f) /\ Jumped(f, n)'
      BY <1>4, <2>1 DEF Done, Filled
    <2> QED
      BY <1>4, <2>2 DEF Filled, Chain
  <1> QED
    BY <1>1, <1>2, <1>3, <1>4

LEMMA FilledKept ==
  ASSUME NEW f \in Families, NEW g \in Guards, NEW k \in Int, NEW j \in Int, Filled(f, g, k),
         j = k \/ (k <= 0 /\ j <= 0) \/ (k >= 4 /\ j >= 4),
         Untouched(f, ChainOf[g]), built'[g] = built[g], Reliable' => Reliable
  PROVE  Filled(f, g, j)'
  BY DEF Filled, Untouched, Leftovers

\* The chain is not jumped to before it is full.
LEMMA MayJump ==
  ASSUME NEW g \in Guards, NEW k \in 0..7, Filling(g, k), built[g] \in RuleSetsOf[g],
         Setup(built[g])[k + 1].op = "I"
  PROVE  ~Jumped(Setup(built[g])[k + 1].family, Setup(built[g])[k + 1].name)
  <1> DEFINE c == Setup(built[g])[k + 1]
  <1>1. CASE k <= 3
    <2>1. IsFilling(c, "v4", g, k) /\ c.family = "v4" /\ c.name = ChainOf[g]
      BY <1>1, FillingCommands
    <2> HIDE DEF c
    <2>2. c.op = "I"
      BY DEF c
    <2>3. k = 3
      BY <1>1, <2>1, <2>2 DEF IsFilling, Command, AppendCommands
    <2> QED
      BY <2>1, <2>3 DEF Filling, Filled, c
  <1>2. CASE k >= 4
    <2>1. IsFilling(c, "v6", g, k - 4) /\ c.family = "v6" /\ c.name = ChainOf[g]
      BY <1>2, FillingCommands
    <2> HIDE DEF c
    <2>2. c.op = "I"
      BY DEF c
    <2>3. k - 4 = 3
      BY <1>2, <2>1, <2>2 DEF IsFilling, Command, AppendCommands
    <2> QED
      BY <2>1, <2>3 DEF Filling, Filled, c
  <1> QED
    BY <1>1, <1>2

\* One more command of a setup has worked.
LEMMA SetupStep ==
  ASSUME TablesOK, NEW g \in Guards, Whole(g), NEW k \in 0..7, Filling(g, k),
         Possible(Setup(built[g])[k + 1]), Done(Setup(built[g])[k + 1]),
         built[g] \in RuleSetsOf[g], built'[g] = built[g], Reliable' => Reliable
  PROVE  Filling(g, k + 1)'
  <1> DEFINE n == ChainOf[g]  c == Setup(built[g])[k + 1]
  <1>0. n \in Names /\ "v4" \in Families /\ "v6" \in Families
    BY GuardFacts DEF Families
  <1>1. Filled("v4", g, k) /\ Filled("v6", g, k - 4)
    BY DEF Filling
  <1>2. /\ c \in Commands /\ c.name = n
        /\ k <= 3 => IsFilling(c, "v4", g, k) /\ c.family = "v4"
        /\ k >= 4 => IsFilling(c, "v6", g, k - 4) /\ c.family = "v6"
    BY FillingCommands
  <1>3. Possible(c) /\ Done(c)
    BY Zenon
  <1> HIDE DEF c, n
  <1>4. \A f \in Families : f # c.family => Untouched(f, n)
    BY <1>0, <1>3, Zenon DEF Done
  <1>5. CASE k <= 3
    <2>1. Filled("v4", g, k + 1)'
      <3>1. k \in 0..3 /\ IsFilling(c, "v4", g, k)
        BY <1>2, <1>5
      <3> QED
        BY <1>0, <1>1, <1>3, <3>1, FamilyFilled
    <2>2. Filled("v6", g, k + 1 - 4)'
      <3>1. k - 4 \in Int /\ k + 1 - 4 \in Int /\ k - 4 <= 0 /\ k + 1 - 4 <= 0
        BY <1>5
      <3>2. Untouched("v6", ChainOf[g])
        BY <1>0, <1>2, <1>4, <1>5 DEF n
      <3> QED
        BY <1>0, <1>1, <3>1, <3>2, FilledKept
    <2> QED
      BY <2>1, <2>2 DEF Filling
  <1>6. CASE k >= 4
    <2> DEFINE j == k - 4
    <2>1. j \in 0..3 /\ IsFilling(c, "v6", g, j) /\ Filled("v6", g, j) /\ k + 1 - 4 = j + 1
      BY <1>1, <1>2, <1>6
    <2> HIDE DEF j
    <2>2. Filled("v6", g, j + 1)'
      BY <1>0, <1>3, <2>1, FamilyFilled
    <2>3. Filled("v4", g, k + 1)'
      <3>1. k \in Int /\ k + 1 \in Int /\ k >= 4 /\ k + 1 >= 4
        BY <1>6
      <3>2. Untouched("v4", ChainOf[g])
        BY <1>0, <1>2, <1>4, <1>6 DEF n
      <3> QED
        BY <1>0, <1>1, <3>1, <3>2, FilledKept
    <2> QED
      BY <2>1, <2>2, <2>3 DEF Filling
  <1> QED
    BY <1>5, <1>6

\* Whatever the tables were before, a setup's command finds what it needs.
LEMMA SetupPossible ==
  ASSUME NEW g \in Guards, NEW k \in 0..7, Filling(g, k), Reliable, v6,
         built[g] \in RuleSetsOf[g]
  PROVE  Possible(Setup(built[g])[k + 1])
  <1> DEFINE n == ChainOf[g]  c == Setup(built[g])[k + 1]
  <1>0. <<>> # NoChain /\ Chain(built[g], "v4") # NoChain /\ Chain(built[g], "v6") # NoChain
    <2>1. <<>> \in Seq(FilterRules)
      OBVIOUS
    <2>2. SoundRuleSet(built[g]) /\ "v4" \in Families /\ "v6" \in Families
      BY GuardFacts DEF Families
    <2>3. NoChain \notin Seq(FilterRules)
      BY GuardAssumption
    <2> DEFINE rs == built[g]  c4 == Chain(rs, "v4")  c6 == Chain(rs, "v6")
    <2>5. SoundRuleSet(rs)
      BY <2>2
    <2> HIDE DEF rs
    <2>4. c4 \in Seq(FilterRules) /\ c6 \in Seq(FilterRules)
      BY <2>2, <2>5, ChainTyped
    <2> HIDE DEF c4, c6
    <2>6. <<>> # NoChain /\ c4 # NoChain /\ c6 # NoChain
      BY <2>1, <2>3, <2>4
    <2> QED
      BY <2>6 DEF c4, c6, rs
  <1>1. /\ c.name = n
        /\ k <= 3 => IsFilling(c, "v4", g, k) /\ c.family = "v4"
        /\ k >= 4 => IsFilling(c, "v6", g, k - 4) /\ c.family = "v6"
    BY FillingCommands
  <1> HIDE DEF c
  <1>2. ASSUME NEW f, NEW j \in 0..3, IsFilling(c, f, g, j), Filled(f, g, j), c.family = f,
               Chain(built[g], f) # NoChain
        PROVE  Possible(c)
    <2>0. c.family = f /\ c.name = n
      BY <1>1, <1>2
    <2>1. CASE j = 0
      <3>1. c.op = "N"
        BY <1>2, <2>1 DEF IsFilling, Command
      <3>2. chain[f][n] = NoChain
        BY <1>2, <2>1 DEF Filled, Leftovers
      <3> QED
        BY <2>0, <3>1, <3>2 DEF Possible
    <2>2. CASE j = 1
      <3>1. c.op = "F"
        BY <1>2, <2>2 DEF IsFilling, Command
      <3>2. chain[f][n] # NoChain
        BY <1>0, <1>2, <2>2 DEF Filled
      <3> QED
        BY <2>0, <3>1, <3>2 DEF Possible
    <2>3. CASE j = 2
      <3>1. c.op = "A"
        BY <1>2, <2>3 DEF IsFilling, AppendCommands
      <3>2. chain[f][n] # NoChain
        BY <1>0, <1>2, <2>3 DEF Filled
      <3> QED
        BY <2>0, <3>1, <3>2 DEF Possible
    <2>4. CASE j = 3
      <3>1. c.op = "I"
        BY <1>2, <2>4 DEF IsFilling, Command
      <3>2. chain[f][n] # NoChain
        BY <1>2, <2>4 DEF Filled
      <3> QED
        BY <2>0, <3>1, <3>2 DEF Possible
    <2> QED
      BY <2>1, <2>2, <2>3, <2>4
  <1>3. CASE k <= 3
    <2>1. k \in 0..3 /\ Filled("v4", g, k)
      BY <1>3 DEF Filling
    <2> QED
      BY <1>0, <1>1, <1>2, <1>3, <2>1 DEF c
  <1>4. CASE k >= 4
    <2>1. k - 4 \in 0..3 /\ Filled("v6", g, k - 4)
      BY <1>4 DEF Filling
    <2> QED
      BY <1>0, <1>1, <1>2, <1>4, <2>1 DEF c
  <1> QED
    BY <1>3, <1>4

\* A removal empties a chain or deletes one that no packet gets to ...
LEMMA WholeAfterRemoval ==
  ASSUME TablesOK, NEW c \in Commands, IsRemoval(c), Ran(c), NEW g \in Guards, Whole(g)
  PROVE  Whole(g)'
  <1> DEFINE n == ChainOf[g]
  <1>1. SUFFICES ASSUME NEW f \in Families, Jumped(f, n)'
                 PROVE  \/ chain'[f][n] = <<>>
                        \/ \E rs \in RuleSetsOf[g] : chain'[f][n] = Chain(rs, f)
    BY DEF Whole, Chain
  <1>2. n \in Names /\ c.op \in {"D", "F", "X"}
    BY GuardFacts DEF IsRemoval
  <1>3. CASE Untouched(f, n)
    <2>1. Jumped(f, n) /\ chain'[f][n] = chain[f][n]
      BY <1>1, <1>3 DEF Untouched
    <2> QED
      BY <2>1 DEF Whole
  <1>4. CASE ~Untouched(f, n)
    <2>1. Possible(c) /\ Done(c) /\ c.family = f /\ c.name = n
      BY <1>2, <1>4, Zenon DEF Ran, Failed, Done
    <2>2. c.op # "D"
      BY <1>1, <2>1 DEF Done
    <2>3. c.op # "X"
      <3>1. c.op = "X" => ~Jumped(f, n)
        BY <2>1 DEF Possible, Jumped
      <3> QED
        BY <1>1, <2>1, <3>1 DEF Done
    <2>4. chain'[f][n] = <<>>
      BY <1>2, <2>1, <2>2, <2>3 DEF Done
    <2> QED
      BY <2>4
  <1> QED
    BY <1>3, <1>4

\* ... a setup fills one before packets get to it ...
LEMMA WholeAfterSetup ==
  ASSUME NEW g \in Guards, Whole(g), NEW k \in 0..7, Filling(g, k + 1)',
         k <= 3 => Untouched("v6", ChainOf[g]), built'[g] \in RuleSetsOf[g]
  PROVE  Whole(g)'
  <1> DEFINE n == ChainOf[g]
             Fine(f) == Jumped(f, n)' => \/ chain'[f][n] = <<>>
                                         \/ \E rs \in RuleSetsOf[g] : chain'[f][n] = Chain(rs, f)
  <1>1. ASSUME NEW f, NEW j \in Int, j >= 1, Filled(f, g, j)' PROVE Fine(f)
    <2>1. j \in 1..2 \/ j >= 3
      BY <1>1
    <2>2. j \in 1..2 => chain'[f][n] = <<>>
      BY <1>1 DEF Filled
    <2>3. j >= 3 => chain'[f][n] = Chain(built'[g], f)
      BY <1>1 DEF Filled, Chain
    <2> QED
      BY <2>1, <2>2, <2>3
  <1>2. Fine("v4")
    <2>1. k + 1 \in Int /\ k + 1 >= 1 /\ Filled("v4", g, k + 1)'
      BY DEF Filling
    <2> QED
      BY <1>1, <2>1
  <1>3. Fine("v6")
    <2>1. CASE k <= 3
      <3>1. Untouched("v6", n) /\ "v6" \in Families
        BY <2>1 DEF Families
      <3> QED
        BY <3>1 DEF Untouched, Whole
    <2>2. CASE k >= 4
      <3>1. k + 1 - 4 \in Int /\ k + 1 - 4 >= 1 /\ Filled("v6", g, k + 1 - 4)'
        BY <2>2 DEF Filling
      <3> QED
        BY <1>1, <3>1
    <2> QED
      BY <2>1, <2>2
  <1> QED
    BY <1>2, <1>3 DEF Whole, Families, Chain

\* ... and one that fails shows them nothing new.
LEMMA WholeAfterFailure ==
  ASSUME TablesOK, NEW g \in Guards, Whole(g), NEW k \in 0..7, Filling(g, k),
         built[g] \in RuleSetsOf[g], Failed(Setup(built[g])[k + 1])
  PROVE  Whole(g)'
  <1> DEFINE n == ChainOf[g]  c == Setup(built[g])[k + 1]
  <1>1. SUFFICES ASSUME NEW f \in Families, Jumped(f, n)'
                 PROVE  \/ chain'[f][n] = <<>>
                        \/ \E rs \in RuleSetsOf[g] : chain'[f][n] = Chain(rs, f)
    BY DEF Whole, Chain
  <1>2. Failed(c) /\ n \in Names
    BY GuardFacts
  <1>3. /\ c.name = n
        /\ k <= 3 => IsFilling(c, "v4", g, k) /\ c.family = "v4"
        /\ k >= 4 => IsFilling(c, "v6", g, k - 4) /\ c.family = "v6"
    BY FillingCommands
  <1> HIDE DEF c
  <1>4. Jumped(f, n)
    BY <1>1, <1>2 DEF Failed
  <1>5. Untouched(f, n)
    <2>1. SUFFICES ASSUME c.op = "A", c.family = f PROVE FALSE
      BY <1>2 DEF Failed
    <2>2. CASE k <= 3
      <3>1. k = 2
        BY <1>3, <2>1, <2>2 DEF IsFilling, Command
      <3> QED
        BY <1>3, <1>4, <2>1, <2>2, <3>1 DEF Filling, Filled
    <2>3. CASE k >= 4
      <3>1. k - 4 = 2
        BY <1>3, <2>1, <2>3 DEF IsFilling, Command
      <3> QED
        BY <1>3, <1>4, <2>1, <2>3, <3>1 DEF Filling, Filled
    <2> QED
      BY <2>2, <2>3
  <1> QED
    BY <1>4, <1>5 DEF Whole, Untouched

-------------------------------------------------------------------------------
(* The steps of a guard.                                                    *)

LEMMA Helperless ==
  ASSUME FirewallInv, NEW g \in Guards, pc[g] # "idle"
  PROVE  ~Reaping
  BY DEF FirewallInv, HelperOK

\* A step that changes g's place in its list, and no chain but g's.
LEMMA GuardStep ==
  ASSUME FirewallInv, NEW g \in Guards, NEW at \in GuardPhases, NEW commands, commands \in Seq(Commands),
         ~Reaping, Goto(g, at, commands),
         built' \in [Guards -> RuleSets], built'[g] \in RuleSetsOf[g],
         \A h \in Guards : h # g => built'[h] = built[h],
         TablesOK', Reliable' => Reliable,
         \A f \in Families, n \in Names : n # ChainOf[g] => Untouched(f, n),
         Whole(g)', Progress(g)'
  PROVE  FirewallInv'
  <1>0. TablesOK /\ ProcessesOK /\ HelperOK /\ g \in Workers /\ g # "helper" /\ "helper" \in Workers
    BY GuardFacts DEF FirewallInv, Workers
  <1>1. /\ pc' \in [Workers -> GuardPhases \cup HelperPhases] /\ pc'[g] = at
        /\ todo' \in [Workers -> Seq(Commands)] /\ todo'[g] = commands
        /\ \A w \in Workers : w # g => pc'[w] = pc[w] /\ todo'[w] = todo[w]
    BY <1>0 DEF Goto, ProcessesOK
  <1>2. ProcessesOK'
    <2>1. \A h \in Guards : built'[h] \in RuleSetsOf[h]
      BY <1>0 DEF ProcessesOK
    <2>2. \A h \in Guards : pc'[h] \in GuardPhases
      BY <1>0, <1>1, GuardFacts DEF ProcessesOK
    <2>3. pc'["helper"] \in HelperPhases
      BY <1>0, <1>1 DEF ProcessesOK
    <2> QED
      BY <1>1, <2>1, <2>2, <2>3 DEF ProcessesOK
  <1>3. HelperOK'
    <2>1. pc'["helper"] = pc["helper"] /\ todo'["helper"] = todo["helper"]
      BY <1>0, <1>1
    <2> QED
      BY <1>0, <2>1 DEF HelperOK, Reaping
  <1>4. ASSUME NEW h \in Guards PROVE Whole(h)' /\ Progress(h)'
    <2>1. CASE h # g
      <3>1. h \in Workers /\ ChainOf[h] \in Names /\ ChainOf[h] # ChainOf[g]
        BY <2>1, GuardFacts
      <3>2. pc'[h] = pc[h] /\ todo'[h] = todo[h] /\ built'[h] = built[h]
        BY <1>1, <2>1, <3>1
      <3>3. \A f \in Families : Untouched(f, ChainOf[h])
        BY <3>1
      <3> QED
        BY <3>2, <3>3, KeepsProgress DEF FirewallInv
    <2> QED
      BY <2>1
  <1> QED
    BY <1>2, <1>3, <1>4 DEF FirewallInv

LEMMA TablesKept ==
  ASSUME TablesOK, UNCHANGED <<chain, output, v6, faults>>
  PROVE  /\ TablesOK' /\ (Reliable' <=> Reliable)
         /\ \A f, n : Untouched(f, n)
  <1>1. \A f, n : (Jumped(f, n)' <=> Jumped(f, n)) /\ (Leftovers(f, n)' <=> Leftovers(f, n))
    BY DEF Leftovers, Jumped
  <1>2. \A f \in Families : Distinct(output[f])'
    BY DEF TablesOK
  <1> QED
    BY <1>1, <1>2 DEF TablesOK, Untouched, Reliable

LEMMA SameLists ==
  ASSUME NEW g, built'[g] = built[g]
  PROVE  Cleanup(g)' = Cleanup(g) /\ Setup(built[g])' = Setup(built[g])
  BY DEF Cleanup, CleanupCommands, Setup, SetupCommands, Chain

\* The lists of a guard, in the terms of LeftOfList.
LEMMA CleanupLeft ==
  ASSUME NEW g \in Guards, NEW k \in 0..6
  PROVE  LET t == SubSeq(Cleanup(g), k + 1, 6)
         IN /\ t \in Seq(Commands) /\ (t # <<>> <=> k < 6)
            /\ k < 6 => /\ Head(t) = Cleanup(g)[k + 1] /\ Head(t) \in Commands
                        /\ Tail(t) = SubSeq(Cleanup(g), k + 1 + 1, 6)
                        /\ IsRemoval(Head(t)) /\ Head(t).name = ChainOf[g]
            /\ SubSeq(Cleanup(g), 0 + 1, 6) = Cleanup(g)
  <1> DEFINE l == Cleanup(g)
  <1>1. l \in Seq(Commands) /\ Len(l) = 6
    BY CleanupList
  <1>2. k < 6 => IsRemoval(l[k + 1]) /\ l[k + 1].name = ChainOf[g]
    <2> DEFINE n == ChainOf[g]
    <2>1. k < 6 => k + 1 \in {1, 2, 3, 4, 5, 6}
      OBVIOUS
    <2>2. /\ l[1] = Command("v4", "D", n) /\ l[2] = Command("v4", "F", n)
          /\ l[3] = Command("v4", "X", n) /\ l[4] = Command("v6", "D", n)
          /\ l[5] = Command("v6", "F", n) /\ l[6] = Command("v6", "X", n)
      BY CleanupList
    <2>3. \A f, op : Command(f, op, n).op = op /\ Command(f, op, n).name = n
      BY DEF Command
    <2> HIDE DEF l, n
    <2>4. \A i \in {1, 2, 3, 4, 5, 6} : IsRemoval(l[i]) /\ l[i].name = n
      BY <2>2, <2>3 DEF IsRemoval
    <2> QED
      BY <2>1, <2>4 DEF n
  <1> HIDE DEF l
  <1>3. 0 \in 0..Len(l) /\ k \in 0..Len(l)
    BY <1>1
  <1>4. /\ Left(l, k) \in Seq(Commands)
        /\ Left(l, k) # <<>> <=> k < Len(l)
        /\ k < Len(l) => /\ Head(Left(l, k)) = l[k + 1] /\ l[k + 1] \in Commands
                         /\ Tail(Left(l, k)) = Left(l, k + 1)
        /\ Left(l, 0) = l
    BY <1>1, <1>3, LeftOfList
  <1>5. Left(l, k) = SubSeq(l, k + 1, 6) /\ Left(l, 0) = SubSeq(l, 0 + 1, 6)
        /\ Left(l, k + 1) = SubSeq(l, k + 1 + 1, 6)
    BY <1>1 DEF Left
  <1> QED
    BY <1>1, <1>2, <1>4, <1>5 DEF l

LEMMA SetupLeft ==
  ASSUME NEW g \in Guards, NEW rs \in RuleSetsOf[g], NEW k \in 0..8
  PROVE  LET t == SubSeq(Setup(rs), k + 1, 8)
         IN /\ t \in Seq(Commands) /\ (t # <<>> <=> k < 8)
            /\ k < 8 => /\ Head(t) = Setup(rs)[k + 1] /\ Head(t) \in Commands
                        /\ Tail(t) = SubSeq(Setup(rs), k + 1 + 1, 8)
            /\ SubSeq(Setup(rs), 0 + 1, 8) = Setup(rs)
  <1> DEFINE l == Setup(rs)
  <1>1. l \in Seq(Commands) /\ Len(l) = 8
    BY SetupList
  <1> HIDE DEF l
  <1>3. 0 \in 0..Len(l) /\ k \in 0..Len(l)
    BY <1>1
  <1>4. /\ Left(l, k) \in Seq(Commands)
        /\ Left(l, k) # <<>> <=> k < Len(l)
        /\ k < Len(l) => /\ Head(Left(l, k)) = l[k + 1] /\ l[k + 1] \in Commands
                         /\ Tail(Left(l, k)) = Left(l, k + 1)
        /\ Left(l, 0) = l
    BY <1>1, <1>3, LeftOfList
  <1>5. Left(l, k) = SubSeq(l, k + 1, 8) /\ Left(l, 0) = SubSeq(l, 0 + 1, 8)
        /\ Left(l, k + 1) = SubSeq(l, k + 1 + 1, 8)
    BY <1>1 DEF Left
  <1> QED
    BY <1>1, <1>4, <1>5 DEF l

\* A command of a guard that is cleaning up, whether it works or not.
LEMMA CleanupCommandRan ==
  ASSUME FirewallInv, NEW g \in Guards, pc[g] \in {"cleaning", "undoing", "removing"}, todo[g] # <<>>,
         Ran(Head(todo[g])), Reliable' => Reliable, UNCHANGED built,
         Goto(g, pc[g], Tail(todo[g]))
  PROVE  FirewallInv'
  <1> DEFINE c == Head(todo[g])  n == ChainOf[g]
  <1>1. TablesOK /\ ProcessesOK /\ Whole(g) /\ Progress(g) /\ ~Reaping /\ g \in Workers
    BY Helperless, GuardFacts DEF FirewallInv
  <1>2. PICK k \in 0..6 : todo[g] = SubSeq(Cleanup(g), k + 1, 6) /\ Clearing(g, k)
    BY <1>1 DEF Progress
  <1> DEFINE t == SubSeq(Cleanup(g), k + 1, 6)
  <1>3. /\ t \in Seq(Commands) /\ (t # <<>> <=> k < 6)
        /\ k < 6 => /\ Head(t) = Cleanup(g)[k + 1] /\ Head(t) \in Commands
                    /\ Tail(t) = SubSeq(Cleanup(g), k + 1 + 1, 6)
                    /\ IsRemoval(Head(t)) /\ Head(t).name = ChainOf[g]
    BY CleanupLeft
  <1>4. todo[g] = t
    BY <1>2
  <1> HIDE DEF t
  <1>5. /\ k \in 0..5 /\ k + 1 \in 0..6 /\ c = Cleanup(g)[k + 1] /\ c \in Commands
        /\ Tail(todo[g]) = SubSeq(Cleanup(g), k + 1 + 1, 6)
        /\ IsRemoval(c) /\ c.name = n
    BY <1>3, <1>4
  <1>6. Tail(todo[g]) \in Seq(Commands)
    <2>1. SubSeq(Cleanup(g), k + 1 + 1, 6) \in Seq(Commands)
      BY <1>5, CleanupLeft
    <2> QED
      BY <1>5, <2>1
  <1> HIDE DEF c, n
  <1>7. Ran(c)
    BY DEF c
  <1>8. /\ TablesOK'
        /\ \A f \in Families, m \in Names : f # c.family \/ m # c.name => Untouched(f, m)
    BY <1>5, <1>7, OthersUntouched
  <1>9. Clearing(g, k + 1)'
    BY <1>1, <1>2, <1>5, <1>7, CleanupStep
  <1>10. Whole(g)'
    BY <1>1, <1>5, <1>7, WholeAfterRemoval
  <1>11. pc'[g] = pc[g] /\ todo'[g] = Tail(todo[g]) /\ built'[g] = built[g]
    BY <1>1 DEF Goto, ProcessesOK
  <1>12. Progress(g)'
    <2>1. Cleanup(g)' = Cleanup(g)
      BY <1>11, SameLists
    <2>2. \E j \in 0..6 : todo'[g] = SubSeq(Cleanup(g), j + 1, 6) /\ Clearing(g, j)'
      BY <1>5, <1>9, <1>11
    <2>3. ~Live(g)' /\ pc'[g] \notin {"idle", "active", "orphaned", "building"}
      BY <1>11 DEF Live
    <2> QED
      BY <2>1, <2>2, <2>3 DEF Progress
  <1>13. /\ built' \in [Guards -> RuleSets] /\ built'[g] \in RuleSetsOf[g]
         /\ \A h \in Guards : h # g => built'[h] = built[h]
         /\ pc[g] \in GuardPhases
    BY <1>1 DEF ProcessesOK
  <1>14. \A f \in Families, m \in Names : m # ChainOf[g] => Untouched(f, m)
    BY <1>5, <1>8 DEF n
  <1> QED
    BY <1>1, <1>6, <1>8, <1>10, <1>12, <1>13, <1>14, GuardStep

\* A command of a guard that worked, in a clean-up or in a setup.
LEMMA GuardSucceeds ==
  ASSUME FirewallInv, NEW g \in Guards, Succeed(g)
  PROVE  FirewallInv'
  <1> DEFINE c == Head(todo[g])
  <1>1. TablesOK /\ ProcessesOK /\ Whole(g) /\ Progress(g) /\ g \in Workers
    BY GuardFacts DEF FirewallInv
  <1>2. /\ todo[g] # <<>> /\ Possible(c) /\ Effect(c) /\ UNCHANGED <<v6, faults>> /\ UNCHANGED built
        /\ Goto(g, pc[g], Tail(todo[g]))
    BY <1>1 DEF Succeed, Goto, ProcessesOK
  <1>3. Reliable' <=> Reliable
    BY <1>2 DEF Reliable
  <1>4. pc[g] \in {"cleaning", "undoing", "removing"} \/ pc[g] = "building"
    BY <1>1, <1>2 DEF Progress, ProcessesOK, GuardPhases
  <1>5. ~Reaping
    BY <1>4, Helperless
  <1>6. CASE pc[g] \in {"cleaning", "undoing", "removing"}
    <2>1. PICK k \in 0..6 : todo[g] = SubSeq(Cleanup(g), k + 1, 6) /\ Clearing(g, k)
      BY <1>1, <1>6 DEF Progress
    <2>2. c \in Commands /\ IsRemoval(c)
      BY <1>2, <2>1, CleanupLeft
    <2> HIDE DEF c
    <2>3. Done(c)
      BY <1>1, <1>2, <2>2, CommandDone DEF IsRemoval
    <2>4. Ran(Head(todo[g]))
      BY <1>2, <2>3 DEF Ran, c
    <2> QED
      BY <1>2, <1>3, <1>6, <2>4, CleanupCommandRan
  <1>7. CASE pc[g] = "building"
    <2> DEFINE n == ChainOf[g]
    <2>1. PICK k \in 0..8 : todo[g] = SubSeq(Setup(built[g]), k + 1, 8) /\ Filling(g, k)
      BY <1>1, <1>7 DEF Progress
    <2>0. built[g] \in RuleSetsOf[g]
      BY <1>1 DEF ProcessesOK
    <2>2. /\ k \in 0..7 /\ k + 1 \in 0..8 /\ c = Setup(built[g])[k + 1] /\ c \in Commands
          /\ Tail(todo[g]) = SubSeq(Setup(built[g]), k + 1 + 1, 8)
      <3> DEFINE t == SubSeq(Setup(built[g]), k + 1, 8)
      <3>1. /\ (t # <<>> <=> k < 8)
            /\ k < 8 => /\ Head(t) = Setup(built[g])[k + 1] /\ Head(t) \in Commands
                        /\ Tail(t) = SubSeq(Setup(built[g]), k + 1 + 1, 8)
        BY <2>0, SetupLeft
      <3>2. todo[g] = t
        BY <2>1
      <3> HIDE DEF t
      <3> QED
        BY <1>2, <3>1, <3>2
    <2>3. Tail(todo[g]) \in Seq(Commands)
      <3>1. SubSeq(Setup(built[g]), k + 1 + 1, 8) \in Seq(Commands)
        BY <2>0, <2>2, SetupLeft
      <3> QED
        BY <2>2, <3>1
    <2>4. c.op = "I" => ~Jumped(c.family, c.name)
      BY <2>0, <2>1, <2>2, MayJump
    <2>5. /\ c.name = n /\ k <= 3 => c.family = "v4"
      BY <2>0, <2>2, FillingCommands
    <2>6. c.name = n
      BY <2>0, <2>2, FillingCommands
    <2> HIDE DEF c
    <2>7. Possible(c) /\ Done(c)
      BY <1>1, <1>2, <2>2, <2>4, CommandDone
    <2>8. /\ TablesOK'
          /\ \A f \in Families, m \in Names : f # c.family \/ m # c.name => Untouched(f, m)
      BY <2>7 DEF Done
    <2>9. pc'[g] = pc[g] /\ todo'[g] = Tail(todo[g]) /\ built'[g] = built[g]
      BY <1>1, <1>2 DEF Goto, ProcessesOK
    <2>10. Filling(g, k + 1)'
      <3>1. Possible(Setup(built[g])[k + 1]) /\ Done(Setup(built[g])[k + 1])
        BY <2>2, <2>7
      <3> QED
        BY <1>1, <1>3, <2>0, <2>1, <2>2, <2>9, <3>1, SetupStep
    <2>11. Whole(g)'
      <3>1. k <= 3 => Untouched("v6", ChainOf[g])
        <4>1. ChainOf[g] \in Names /\ "v6" \in Families
          BY GuardFacts DEF Families
        <4> QED
          BY <2>5, <2>6, <2>8, <4>1
      <3>2. built'[g] \in RuleSetsOf[g]
        BY <2>0, <2>9
      <3> QED
        BY <1>1, <2>2, <2>10, <3>1, <3>2, WholeAfterSetup
    <2>12. Progress(g)'
      <3>1. Setup(built[g])' = Setup(built[g])
        BY <2>9, SameLists
      <3>2. \E j \in 0..8 : todo'[g] = SubSeq(Setup(built[g]), j + 1, 8) /\ Filling(g, j)'
        BY <2>2, <2>9, <2>10
      <3>3. ~Live(g)' /\ pc'[g] = "building"
        BY <1>7, <2>9 DEF Live
      <3> QED
        BY <3>1, <3>2, <3>3 DEF Progress
    <2>13. /\ built' \in [Guards -> RuleSets] /\ built'[g] \in RuleSetsOf[g]
           /\ \A h \in Guards : h # g => built'[h] = built[h]
           /\ pc[g] \in GuardPhases
      BY <1>1, <1>2 DEF ProcessesOK
    <2>14. \A f \in Families, m \in Names : m # ChainOf[g] => Untouched(f, m)
      BY <2>6, <2>8
    <2> QED
      BY <1>2, <1>3, <1>5, <2>3, <2>8, <2>11, <2>12, <2>13, <2>14, GuardStep
  <1> QED
    BY <1>4, <1>6, <1>7

\* What a failure is charged to.
LEMMA FailureCounted ==
  ASSUME TablesOK, NEW c, \/ ~Possible(c) /\ UNCHANGED faults
                          \/ Possible(c) /\ faults > 0 /\ faults' = faults - 1
  PROVE  /\ faults' \in 0..MaxFaults
         /\ Reliable' => Reliable /\ ~Possible(c)
  <1>1. faults \in 0..MaxFaults /\ MaxFaults \in Nat
    BY GuardAssumption DEF TablesOK
  <1> QED
    BY <1>1 DEF Reliable

\* One that failed: a clean-up goes on, a setup is undone.
LEMMA GuardFails ==
  ASSUME FirewallInv, NEW g \in Guards, Fail(g)
  PROVE  FirewallInv'
  <1> DEFINE c == Head(todo[g])
  <1>1. TablesOK /\ ProcessesOK /\ Whole(g) /\ Progress(g) /\ g \in Workers
    BY GuardFacts DEF FirewallInv
  <1>2. /\ todo[g] # <<>> /\ PartialEffect(c) /\ UNCHANGED v6 /\ UNCHANGED built
        /\ \/ ~Possible(c) /\ UNCHANGED faults
           \/ Possible(c) /\ faults > 0 /\ faults' = faults - 1
    BY DEF Fail
  <1>3. faults' \in 0..MaxFaults /\ (Reliable' => Reliable /\ ~Possible(c))
    BY <1>1, <1>2, FailureCounted
  <1>4. pc[g] \in {"cleaning", "undoing", "removing"} \/ pc[g] = "building"
    BY <1>1, <1>2 DEF Progress, ProcessesOK, GuardPhases
  <1>5. ~Reaping
    BY <1>4, Helperless
  <1>6. CASE pc[g] \in {"cleaning", "undoing", "removing"}
    <2>1. PICK k \in 0..6 : todo[g] = SubSeq(Cleanup(g), k + 1, 6) /\ Clearing(g, k)
      BY <1>1, <1>6 DEF Progress
    <2>2. c \in Commands
      BY <1>2, <2>1, CleanupLeft
    <2>3. Goto(g, pc[g], Tail(todo[g]))
      BY <1>6 DEF Fail
    <2> HIDE DEF c
    <2>4. Failed(c)
      BY <1>1, <1>2, <1>3, <2>2, CommandFailed
    <2>5. Ran(Head(todo[g]))
      BY <1>3, <2>4 DEF Ran, c
    <2> QED
      BY <1>2, <1>3, <1>6, <2>3, <2>5, CleanupCommandRan
  <1>7. CASE pc[g] = "building"
    <2> DEFINE n == ChainOf[g]
    <2>0. built[g] \in RuleSetsOf[g]
      BY <1>1 DEF ProcessesOK
    <2>1. PICK k \in 0..8 : todo[g] = SubSeq(Setup(built[g]), k + 1, 8) /\ Filling(g, k)
      BY <1>1, <1>7 DEF Progress
    <2>2. k \in 0..7 /\ c = Setup(built[g])[k + 1] /\ c \in Commands
      <3> DEFINE t == SubSeq(Setup(built[g]), k + 1, 8)
      <3>1. /\ (t # <<>> <=> k < 8)
            /\ k < 8 => Head(t) = Setup(built[g])[k + 1] /\ Head(t) \in Commands
        BY <2>0, SetupLeft
      <3>2. todo[g] = t
        BY <2>1
      <3> HIDE DEF t
      <3> QED
        BY <1>2, <3>1, <3>2
    <2>3. Goto(g, "undoing", Cleanup(g))
      BY <1>7 DEF Fail
    <2>4. c.name = n
      BY <2>0, <2>2, FillingCommands
    <2> HIDE DEF c
    <2>5. Failed(c)
      BY <1>1, <1>2, <1>3, <2>2, CommandFailed
    <2>6. TablesOK' /\ \A f \in Families, m \in Names : m # ChainOf[g] => Untouched(f, m)
      BY <2>4, <2>5 DEF Failed
    <2>7. Whole(g)'
      BY <1>1, <2>0, <2>1, <2>2, <2>5, WholeAfterFailure
    <2>8. Cleanup(g) \in Seq(Commands) /\ SubSeq(Cleanup(g), 0 + 1, 6) = Cleanup(g)
      <3>1. 0 \in 0..6
        OBVIOUS
      <3> QED
        BY <3>1, CleanupLeft, CleanupList
    <2>9. Progress(g)'
      <3>1. pc'[g] = "undoing" /\ todo'[g] = Cleanup(g) /\ built'[g] = built[g]
        BY <1>1, <1>2, <2>3 DEF Goto, ProcessesOK
      <3>2. Cleanup(g)' = Cleanup(g)
        BY <3>1, SameLists
      <3>3. Clearing(g, 0)'
        BY DEF Clearing, Cleared
      <3>4. \E j \in 0..6 : todo'[g] = SubSeq(Cleanup(g), j + 1, 6) /\ Clearing(g, j)'
        BY <2>8, <3>1, <3>3
      <3>5. ~Live(g)'
        BY <3>1 DEF Live
      <3> QED
        BY <3>1, <3>2, <3>4, <3>5 DEF Progress
    <2>10. /\ built' \in [Guards -> RuleSets] /\ built'[g] \in RuleSetsOf[g]
           /\ \A h \in Guards : h # g => built'[h] = built[h]
           /\ "undoing" \in GuardPhases
      BY <1>1, <1>2 DEF ProcessesOK, GuardPhases
    <2> QED
      BY <1>3, <1>5, <2>3, <2>6, <2>7, <2>8, <2>9, <2>10, GuardStep
  <1> QED
    BY <1>4, <1>6, <1>7

LEMMA SameFilling ==
  ASSUME UNCHANGED <<chain, output, v6, faults>>, NEW g
  PROVE  /\ \A k : Clearing(g, k)' <=> Clearing(g, k)
         /\ \A k : built'[g] = built[g] => (Filling(g, k)' <=> Filling(g, k))
  <1>1. \A f, n : (Jumped(f, n)' <=> Jumped(f, n)) /\ (Leftovers(f, n)' <=> Leftovers(f, n))
    BY DEF Leftovers, Jumped
  <1>2. \A f, n, k : Cleared(f, n, k)' <=> Cleared(f, n, k)
    BY <1>1 DEF Cleared
  <1>3. ASSUME built'[g] = built[g] PROVE \A f, k : Filled(f, g, k)' <=> Filled(f, g, k)
    BY <1>1, <1>3 DEF Filled, Reliable, Chain
  <1> QED
    BY <1>2, <1>3 DEF Clearing, Filling, Reliable

\* A step of a guard that runs no command.
LEMMA QuietGuard ==
  ASSUME FirewallInv, NEW g \in Guards, NEW at \in GuardPhases, NEW commands, commands \in Seq(Commands),
         ~Reaping, Goto(g, at, commands), UNCHANGED <<chain, output, v6, faults>>,
         built' \in [Guards -> RuleSets], built'[g] \in RuleSetsOf[g],
         \A h \in Guards : h # g => built'[h] = built[h],
         Progress(g)'
  PROVE  FirewallInv'
  <1>1. /\ TablesOK' /\ (Reliable' => Reliable)
        /\ \A f \in Families, n \in Names : n # ChainOf[g] => Untouched(f, n)
    BY TablesKept DEF FirewallInv
  <1>2. Whole(g)'
    <2>1. \A f \in Families : Untouched(f, ChainOf[g])
      BY TablesKept DEF FirewallInv
    <2> QED
      BY <2>1 DEF FirewallInv, Whole, Untouched, Chain
  <1> QED
    BY <1>1, <1>2, GuardStep

LEMMA BuiltKept ==
  ASSUME FirewallInv, UNCHANGED built, NEW g \in Guards
  PROVE  /\ built' \in [Guards -> RuleSets] /\ built'[g] \in RuleSetsOf[g]
         /\ \A h \in Guards : h # g => built'[h] = built[h]
         /\ built'[g] = built[g]
  BY DEF FirewallInv, ProcessesOK

\* Guards that go on to a clean-up, or have nothing left to do.
LEMMA GoesToCleanup ==
  ASSUME FirewallInv, NEW g \in Guards, NEW at \in {"cleaning", "undoing", "removing"}, ~Reaping,
         Goto(g, at, Cleanup(g)), UNCHANGED <<chain, output, built, v6, faults>>
  PROVE  FirewallInv'
  <1>1. Cleanup(g) \in Seq(Commands) /\ SubSeq(Cleanup(g), 0 + 1, 6) = Cleanup(g)
    <2>1. 0 \in 0..6
      OBVIOUS
    <2> QED
      BY <2>1, CleanupLeft, CleanupList
  <1>2. pc'[g] = at /\ todo'[g] = Cleanup(g) /\ built'[g] = built[g]
    BY GuardFacts DEF Goto, FirewallInv, ProcessesOK
  <1>3. Cleanup(g)' = Cleanup(g)
    BY <1>2, SameLists
  <1>4. Clearing(g, 0)'
    BY DEF Clearing, Cleared
  <1>5. \E j \in 0..6 : todo'[g] = SubSeq(Cleanup(g), j + 1, 6) /\ Clearing(g, j)'
    BY <1>1, <1>2, <1>4
  <1>6. Progress(g)'
    BY <1>2, <1>3, <1>5 DEF Progress, Live
  <1>7. at \in GuardPhases
    BY DEF GuardPhases
  <1> QED
    BY <1>1, <1>6, <1>7, BuiltKept, QuietGuard

LEMMA GoesToRest ==
  ASSUME FirewallInv, NEW g \in Guards, NEW at \in {"idle", "active", "orphaned"}, ~Reaping,
         Goto(g, at, <<>>), UNCHANGED <<chain, output, built, v6, faults>>,
         at # "idle" => Filling(g, 8)
  PROVE  FirewallInv'
  <1>1. pc'[g] = at /\ todo'[g] = <<>> /\ built'[g] = built[g]
    BY GuardFacts DEF Goto, FirewallInv, ProcessesOK
  <1>2. Live(g)' => Filling(g, 8)'
    BY <1>1, SameFilling DEF Live
  <1>3. Progress(g)'
    BY <1>1, <1>2 DEF Progress
  <1>4. at \in GuardPhases /\ <<>> \in Seq(Commands)
    BY DEF GuardPhases
  <1> QED
    BY <1>3, <1>4, BuiltKept, QuietGuard

LEMMA GuardInstalls ==
  ASSUME FirewallInv, ~ReapAnyTime, NEW g \in Guards, Install(g)
  PROVE  FirewallInv'
  <1>1. ~Reaping
    BY DEF Install, Reaping
  <1>2. Goto(g, "cleaning", Cleanup(g)) /\ UNCHANGED <<chain, output, built, v6, faults>>
    BY DEF Install
  <1> QED
    BY <1>1, <1>2, GoesToCleanup

LEMMA GuardUninstalls ==
  ASSUME FirewallInv, NEW g \in Guards, Uninstall(g)
  PROVE  FirewallInv'
  <1>1. ~Reaping
    BY Helperless DEF Uninstall
  <1>2. Goto(g, "removing", Cleanup(g)) /\ UNCHANGED <<chain, output, built, v6, faults>>
    BY DEF Uninstall
  <1> QED
    BY <1>1, <1>2, GoesToCleanup

\* Cleaned up, a guard begins to build from nothing if no command has failed.
LEMMA GuardBuilds ==
  ASSUME FirewallInv, NEW g \in Guards, Build(g)
  PROVE  FirewallInv'
  <1> DEFINE n == ChainOf[g]
  <1>1. TablesOK /\ ProcessesOK /\ Progress(g) /\ ~Reaping /\ g \in Workers
    BY Helperless, GuardFacts DEF FirewallInv, Build
  <1>2. PICK rs \in RuleSetsOf[g] :
          built' = [built EXCEPT ![g] = rs] /\ Goto(g, "building", Setup(rs))
    BY DEF Build
  <1>3. UNCHANGED <<chain, output, v6, faults>> /\ pc[g] = "cleaning" /\ todo[g] = <<>>
    BY DEF Build
  <1>4. Clearing(g, 6)
    <2>1. PICK k \in 0..6 : todo[g] = SubSeq(Cleanup(g), k + 1, 6) /\ Clearing(g, k)
      BY <1>1, <1>3 DEF Progress
    <2> DEFINE t == SubSeq(Cleanup(g), k + 1, 6)
    <2>2. t # <<>> <=> k < 6
      BY CleanupLeft
    <2>3. t = <<>>
      BY <1>3, <2>1
    <2> HIDE DEF t
    <2>4. k = 6
      BY <2>2, <2>3
    <2> QED
      BY <2>1, <2>4
  <1>5. /\ built' \in [Guards -> RuleSets] /\ built'[g] = rs /\ built'[g] \in RuleSetsOf[g]
        /\ \A h \in Guards : h # g => built'[h] = built[h]
    BY <1>1, <1>2, GuardFacts DEF ProcessesOK
  <1>6. Filling(g, 0)'
    <2>1. Reliable => Cleared("v4", n, 6) /\ Cleared("v6", n, 3)
      BY <1>4 DEF Clearing
    <2>2. Reliable => ~Leftovers("v4", n) /\ ~Leftovers("v6", n)
      BY <2>1 DEF Cleared, Leftovers
    <2>3. \A f : Leftovers(f, n)' <=> Leftovers(f, n)
      BY <1>3 DEF Leftovers, Jumped
    <2>4. Reliable' => Reliable
      BY <1>3 DEF Reliable
    <2>5. Filled("v4", g, 0)' /\ Filled("v6", g, 0 - 4)'
      BY <2>2, <2>3, <2>4 DEF Filled
    <2> QED
      BY <2>5 DEF Filling
  <1>7. Setup(rs) \in Seq(Commands) /\ SubSeq(Setup(rs), 0 + 1, 8) = Setup(rs)
    <2>1. 0 \in 0..8
      OBVIOUS
    <2> QED
      BY <2>1, SetupLeft, SetupList
  <1>8. Progress(g)'
    <2>1. pc'[g] = "building" /\ todo'[g] = Setup(rs)
      BY <1>1, <1>2 DEF Goto, ProcessesOK
    <2>2. Setup(built[g])' = Setup(rs)
      BY <1>5 DEF Setup, SetupCommands, Chain
    <2>3. \E j \in 0..8 : todo'[g] = SubSeq(Setup(rs), j + 1, 8) /\ Filling(g, j)'
      BY <1>6, <1>7, <2>1
    <2> QED
      BY <2>1, <2>2, <2>3 DEF Progress, Live
  <1>9. "building" \in GuardPhases
    BY DEF GuardPhases
  <1> QED
    BY <1>1, <1>2, <1>3, <1>5, <1>7, <1>8, <1>9, QuietGuard

\* The last command of a phase is through.
LEMMA GuardProceeds ==
  ASSUME FirewallInv, NEW g \in Guards, Proceed(g)
  PROVE  FirewallInv'
  <1>1. ProcessesOK /\ Progress(g) /\ g \in Workers /\ pc[g] \in GuardPhases
    BY GuardFacts DEF FirewallInv, ProcessesOK
  <1>2. todo[g] = <<>> /\ UNCHANGED <<chain, output, built, v6, faults>>
    BY DEF Proceed
  <1>3. \/ pc[g] = "building" /\ Goto(g, "active", <<>>)
        \/ pc[g] \in {"undoing", "removing"} /\ Goto(g, "idle", <<>>)
    BY <1>1 DEF Proceed, GuardPhases
  <1>4. ~Reaping
    BY <1>3, Helperless
  <1>5. CASE pc[g] = "building" /\ Goto(g, "active", <<>>)
    <2>0. built[g] \in RuleSetsOf[g]
      BY <1>1 DEF ProcessesOK
    <2>1. PICK k \in 0..8 : todo[g] = SubSeq(Setup(built[g]), k + 1, 8) /\ Filling(g, k)
      BY <1>1, <1>5 DEF Progress
    <2> DEFINE t == SubSeq(Setup(built[g]), k + 1, 8)
    <2>2. t # <<>> <=> k < 8
      BY <2>0, SetupLeft
    <2>3. t = <<>>
      BY <1>2, <2>1
    <2> HIDE DEF t
    <2>4. k = 8
      BY <2>2, <2>3
    <2>5. Filling(g, 8)
      BY <2>1, <2>4
    <2> QED
      BY <1>2, <1>4, <1>5, <2>5, GoesToRest
  <1>6. CASE pc[g] \in {"undoing", "removing"} /\ Goto(g, "idle", <<>>)
    BY <1>2, <1>4, <1>6, GoesToRest
  <1> QED
    BY <1>3, <1>5, <1>6

\* A launcher that dies leaves its chains to its agent.
LEMMA LauncherDiesKeeps ==
  ASSUME FirewallInv, NEW g \in Guards, LauncherDies(g)
  PROVE  FirewallInv'
  <1>1. /\ ~Reaping /\ Goto(g, AfterDeath(g), <<>>)
        /\ UNCHANGED <<chain, output, built, v6, faults>>
    BY Helperless DEF LauncherDies
  <1>2. AfterDeath(g) \in {"idle", "active", "orphaned"}
    BY DEF AfterDeath
  <1>3. AfterDeath(g) # "idle" => Filling(g, 8)
    BY DEF AfterDeath, FirewallInv, Progress
  <1> HIDE DEF AfterDeath
  <1> QED
    BY <1>1, <1>2, <1>3, GoesToRest

LEMMA AgentEndsKeeps ==
  ASSUME FirewallInv, NEW g \in Guards, AgentEnds(g)
  PROVE  FirewallInv'
  <1>1. /\ ~Reaping /\ Goto(g, "idle", <<>>)
        /\ UNCHANGED <<chain, output, built, v6, faults>>
    BY Helperless DEF AgentEnds
  <1> QED
    BY <1>1, GoesToRest

-------------------------------------------------------------------------------
(* What a reaping helper finds.                                             *)

LEMMA SetInSequence ==
  ASSUME NEW S, IsFiniteSet(S)
  PROVE  /\ SetToSeq(S) \in Seq(S)
         /\ \A x \in S : \E i \in 1..Len(SetToSeq(S)) : SetToSeq(S)[i] = x
  <1> DEFINE n == Cardinality(S)  s == SetToSeq(S)
  <1>1. n \in Nat /\ ExistsBijection(1..n, S)
    BY FS_CardinalityType
  <1>2. \E f \in [1..n -> S] : IsInjective(f)
    BY <1>1 DEF ExistsBijection, Bijection, Injection
  <1>3. s \in [1..n -> S] /\ IsInjective(s)
    BY <1>2 DEF SetToSeq
  <1> HIDE DEF s
  <1>4. s \in Injection(1..n, S)
    BY <1>3 DEF Injection
  <1>5. Cardinality(1..n) = n
    <2>1. 1 \in Int /\ n \in Int
      BY <1>1
    <2>2. Cardinality(1..n) = IF 1 > n THEN 0 ELSE n - 1 + 1
      BY <2>1, FS_Interval
    <2> HIDE DEF n
    <2> QED
      BY <1>1, <2>2
  <1>6. s \in Surjection(1..n, S)
    BY <1>4, <1>5, FS_Injection
  <1>7. \A x \in S : \E i \in 1..n : s[i] = x
    BY <1>6 DEF Surjection
  <1> HIDE DEF n
  <1>8. s \in Seq(S) /\ Len(s) = n
    BY <1>1, <1>3
  <1> QED
    BY <1>7, <1>8 DEF s

LEMMA NamesFinite == IsFiniteSet(Names)
  <1> DEFINE f == [g \in Guards |-> ChainOf[g]]
  <1>1. f \in Surjection(Guards, Names)
    BY DEF Surjection, Names
  <1> QED
    BY <1>1, FS_Surjection, GuardAssumption

\* Every pair in seqs up to m stands side by side in list.
SideBySide(list, seqs, m) ==
  \A i \in 1..m : \E j \in 1..Len(list) : /\ j + 1 \in 1..Len(list)
                                          /\ list[j] = seqs[i][1] /\ list[j + 1] = seqs[i][2]

LEMMA PairAppended ==
  ASSUME NEW S, NEW list, list \in Seq(S), NEW x \in S, NEW y \in S
  PROVE  LET new == list \o <<x, y>>
         IN /\ new \in Seq(S) /\ Len(new) = Len(list) + 2
            /\ \A i \in 1..Len(list) : new[i] = list[i]
            /\ new[Len(list) + 1] = x /\ new[Len(list) + 2] = y
  <1> DEFINE p == <<x, y>>  a == list
  <1>1. p \in Seq(S) /\ Len(p) = 2 /\ p[1] = x /\ p[2] = y /\ a \in Seq(S) /\ Len(a) \in Nat
    OBVIOUS
  <1> HIDE DEF p, a
  <1>2. /\ a \o p \in Seq(S) /\ Len(a \o p) = Len(a) + Len(p)
        /\ \A i \in 1..Len(a) + Len(p) : (a \o p)[i] = IF i <= Len(a) THEN a[i] ELSE p[i - Len(a)]
    BY <1>1, ConcatProperties
  <1> DEFINE c == a \o p  l == Len(a)
  <1>3. l \in Nat /\ Len(c) = l + 2 /\ \A i \in 1..l + 2 : c[i] = IF i <= l THEN a[i] ELSE p[i - l]
    BY <1>1, <1>2
  <1>4. c \in Seq(S)
    BY <1>2
  <1> HIDE DEF c, l
  <1>5. /\ \A i \in 1..l : c[i] = a[i]
        /\ c[l + 1] = p[1] /\ c[l + 2] = p[2]
    <2>1. \A i \in 1..l : i \in 1..l + 2 /\ i <= l
      BY <1>3
    <2>2. l + 1 \in 1..l + 2 /\ ~(l + 1 <= l) /\ l + 1 - l = 1
      BY <1>3
    <2>3. l + 2 \in 1..l + 2 /\ ~(l + 2 <= l) /\ l + 2 - l = 2
      BY <1>3
    <2> QED
      BY <1>3, <2>1, <2>2, <2>3
  <1> QED
    BY <1>1, <1>3, <1>4, <1>5 DEF a, p, c, l

ArePairs(seqs, n, S) == \A i \in 1..n : \E x, y \in S : seqs[i] = <<x, y>>

\* The -F and -X of the chains found, side by side in the flattened list.
LEMMA PairsFrom ==
  ASSUME NEW S, NEW n \in Nat, NEW seqs, Len(seqs) = n, ArePairs(seqs, n, S),
         NEW flatten, IsFlatten(flatten, seqs)
  PROVE  \A m \in 1..n : flatten[m] \in Seq(S) /\ SideBySide(flatten[m], seqs, m)
  <1> DEFINE Good(m) == flatten[m] \in Seq(S) /\ SideBySide(flatten[m], seqs, m)
             bad == {m \in 1..n : ~Good(m)}
  <1>1. SUFFICES ASSUME bad # {} PROVE FALSE
    OBVIOUS
  <1>2. PICK m \in bad : \A k \in bad : m <= k
    BY <1>1, LeastElement, bad \subseteq Nat
  <1>3. m \in 1..n /\ ~Good(m)
    OBVIOUS
  <1>4. flatten[m] = IF m = 1 THEN seqs[m] ELSE flatten[m - 1] \o seqs[m]
    BY <1>3 DEF IsFlatten
  <1>5. PICK x, y \in S : seqs[m] = <<x, y>>
    BY <1>3 DEF ArePairs
  <1>6. CASE m = 1
    <2>1. flatten[m] = <<x, y>>
      BY <1>4, <1>5, <1>6
    <2> DEFINE p == <<x, y>>
    <2>2. p \in Seq(S) /\ Len(p) = 2 /\ p[1] = x /\ p[2] = y
      OBVIOUS
    <2>5. flatten[m] = p /\ seqs[1] = p
      BY <1>5, <1>6, <2>1
    <2> HIDE DEF p
    <2>3. \A i \in 1..m : seqs[i][1] = p[1] /\ seqs[i][2] = p[2]
      BY <1>6, <2>5
    <2>4. 1 \in 1..Len(p) /\ 1 + 1 \in 1..Len(p)
      BY <2>2
    <2> QED
      BY <1>3, <2>2, <2>3, <2>4, <2>5 DEF SideBySide
  <1>7. CASE m # 1
    <2>1. m - 1 \in 1..n /\ m - 1 < m /\ m \in Nat
      BY <1>3, <1>7
    <2>2. Good(m - 1)
      <3>1. m - 1 \notin bad
        <4>1. ~(m <= m - 1)
          BY <2>1
        <4> HIDE DEF bad
        <4> QED
          BY <4>1, <1>2
      <3> QED
        BY <2>1, <3>1
    <2> DEFINE a == flatten[m - 1]  c == a \o <<x, y>>
    <2>3. a \in Seq(S) /\ SideBySide(a, seqs, m - 1) /\ flatten[m] = c /\ Len(a) \in Nat
      BY <1>4, <1>5, <1>7, <2>2
    <2> HIDE DEF a
    <2>4. /\ c \in Seq(S) /\ Len(c) = Len(a) + 2
          /\ \A i \in 1..Len(a) : c[i] = a[i]
          /\ c[Len(a) + 1] = x /\ c[Len(a) + 2] = y
      BY <2>3, PairAppended
    <2> HIDE DEF c
    <2>5. ASSUME NEW i \in 1..m
          PROVE  \E j \in 1..Len(c) : /\ j + 1 \in 1..Len(c)
                                      /\ c[j] = seqs[i][1] /\ c[j + 1] = seqs[i][2]
      <3>1. CASE i = m
        <4> DEFINE j == Len(a) + 1
        <4>1. j \in 1..Len(c) /\ j + 1 \in 1..Len(c) /\ j + 1 = Len(a) + 2
          BY <2>3, <2>4
        <4>2. seqs[i][1] = x /\ seqs[i][2] = y
          BY <1>5, <3>1
        <4> QED
          BY <2>4, <4>1, <4>2
      <3>2. CASE i # m
        <4>1. i \in 1..m - 1
          BY <2>1, <3>2
        <4>2. PICK j \in 1..Len(a) : /\ j + 1 \in 1..Len(a)
                                     /\ a[j] = seqs[i][1] /\ a[j + 1] = seqs[i][2]
          BY <2>3, <4>1 DEF SideBySide
        <4>3. j \in 1..Len(c) /\ j + 1 \in 1..Len(c)
          BY <2>3, <2>4, <4>2
        <4> QED
          BY <2>4, <4>2, <4>3
      <3> QED
        BY <3>1, <3>2
    <2> QED
      BY <1>3, <2>3, <2>4, <2>5 DEF SideBySide
  <1> QED
    BY <1>6, <1>7

LEMMA PairsFlattened ==
  ASSUME NEW S, NEW n \in Nat, NEW seqs, seqs = [i \in 1..n |-> seqs[i]], ArePairs(seqs, n, S)
  PROVE  FlattenSeq(seqs) \in Seq(S) /\ SideBySide(FlattenSeq(seqs), seqs, n)
  <1> DEFINE flatten == CHOOSE k : IsFlatten(k, seqs)
  <1>0. Len(seqs) = n
    OBVIOUS
  <1>1. IsFlatten(flatten, seqs)
    BY <1>0, FlattenExists
  <1>2. CASE n = 0
    <2>1. seqs = <<>>
      BY <1>2
    <2>2. FlattenSeq(seqs) = <<>>
      BY <1>0, <1>2, <2>1 DEF FlattenSeq
    <2>3. <<>> \in Seq(S)
      OBVIOUS
    <2>4. \A list : SideBySide(list, seqs, n)
      BY <1>2 DEF SideBySide
    <2> QED
      BY <2>2, <2>3, <2>4
  <1>3. CASE n # 0
    <2>1. FlattenSeq(seqs) = flatten[n]
      BY <1>0, <1>3 DEF FlattenSeq, IsFlatten
    <2> HIDE DEF flatten
    <2> DEFINE a == seqs
    <2>2. Len(a) = n /\ IsFlatten(flatten, a) /\ ArePairs(a, n, S)
      BY <1>0, <1>1
    <2> HIDE DEF a
    <2>3. \A m \in 1..n : flatten[m] \in Seq(S) /\ SideBySide(flatten[m], a, m)
      BY <2>2, PairsFrom
    <2>4. n \in 1..n
      BY <1>3
    <2> QED
      BY <2>1, <2>3, <2>4 DEF a
  <1> QED
    BY <1>2, <1>3

\* The commands a reaping helper may have to run for family f.
Removals(f) == [family : {f}, op : {"D", "F", "X"}, name : Names]

LEMMA RemovalFields ==
  ASSUME NEW f \in Families, NEW c \in Removals(f)
  PROVE  /\ c \in Commands /\ c.family = f /\ c.op \in {"D", "F", "X"} /\ c.name \in Names
         /\ c = Command(f, c.op, c.name)
  BY DEF Removals, Commands, Command

LEMMA JumpCommands ==
  ASSUME NEW f \in Families, NEW names, names \in Seq(Names), NEW d,
         d = [i \in DOMAIN names |-> Command(f, "D", names[i])]
  PROVE  /\ d \in Seq(Removals(f)) /\ Len(d) = Len(names)
         /\ \A i \in 1..Len(d) : d[i] = Command(f, "D", names[i])
  <1> DEFINE a == names  n == Len(names)
  <1>1. n \in Nat /\ DOMAIN a = 1..n /\ \A i \in 1..n : a[i] \in Names
    OBVIOUS
  <1> HIDE DEF a, n
  <1>2. d = [i \in 1..n |-> Command(f, "D", a[i])]
    BY <1>1 DEF a
  <1>3. \A i \in 1..n : d[i] \in Removals(f)
    BY <1>1, <1>2 DEF Command, Removals
  <1>4. d \in Seq(Removals(f)) /\ Len(d) = n
    BY <1>1, <1>2, <1>3
  <1>5. \A i \in 1..n : d[i] = Command(f, "D", a[i])
    BY <1>2
  <1> QED
    BY <1>4, <1>5 DEF a, n

FlushAndDelete(f, names) ==
  FlattenSeq([i \in DOMAIN names |-> <<Command(f, "F", names[i]), Command(f, "X", names[i])>>])

LEMMA ChainCommands ==
  ASSUME NEW f \in Families, NEW names, names \in Seq(Names), NEW b, b = FlushAndDelete(f, names)
  PROVE  /\ b \in Seq(Removals(f))
         /\ \A i \in 1..Len(b) : b[i].op # "D"
         /\ \A i \in 1..Len(names) : \E j \in 1..Len(b) :
              /\ j + 1 \in 1..Len(b)
              /\ b[j] = Command(f, "F", names[i]) /\ b[j + 1] = Command(f, "X", names[i])
  <1> DEFINE a == names  n == Len(names)
             seqs == [i \in 1..n |-> <<Command(f, "F", a[i]), Command(f, "X", a[i])>>]
             S == {c \in Removals(f) : c.op # "D"}
  <1>1. n \in Nat /\ DOMAIN a = 1..n /\ \A i \in 1..n : a[i] \in Names
    OBVIOUS
  <1>2. b = FlattenSeq(seqs)
    BY <1>1 DEF FlushAndDelete
  <1> HIDE DEF a, n
  <1>3. \A i \in 1..n : Command(f, "F", a[i]) \in S /\ Command(f, "X", a[i]) \in S
    BY <1>1 DEF Command, Removals
  <1> HIDE DEF S
  <1>4. ArePairs(seqs, n, S)
    <2>1. ASSUME NEW i \in 1..n PROVE \E x, y \in S : seqs[i] = <<x, y>>
      <3>1. seqs[i] = <<Command(f, "F", a[i]), Command(f, "X", a[i])>>
        OBVIOUS
      <3> HIDE DEF seqs
      <3> QED
        BY <1>3, <3>1
    <2> HIDE DEF seqs
    <2> QED
      BY <2>1 DEF ArePairs
  <1>5. seqs = [i \in 1..n |-> seqs[i]]
    OBVIOUS
  <1>6. \A i \in 1..n : /\ seqs[i][1] = Command(f, "F", a[i])
                        /\ seqs[i][2] = Command(f, "X", a[i])
    OBVIOUS
  <1> HIDE DEF seqs
  <1>7. b \in Seq(S) /\ SideBySide(b, seqs, n)
    BY <1>1, <1>2, <1>4, <1>5, PairsFlattened
  <1>8. b \in Seq(Removals(f)) /\ \A i \in 1..Len(b) : b[i].op # "D"
    <2>1. \A i \in 1..Len(b) : b[i] \in S
      BY <1>7, ElementOfSeq
    <2>2. \A i \in 1..Len(b) : b[i] \in Removals(f) /\ b[i].op # "D"
      BY <2>1 DEF S
    <2>3. S \subseteq Removals(f)
      BY DEF S
    <2>4. b \in Seq(Removals(f))
      BY <1>7, <2>3, SeqMonotonic
    <2> QED
      BY <2>2, <2>4
  <1>9. ASSUME NEW i \in 1..n
        PROVE  \E j \in 1..Len(b) :
                 /\ j + 1 \in 1..Len(b)
                 /\ b[j] = Command(f, "F", a[i]) /\ b[j + 1] = Command(f, "X", a[i])
    BY <1>6, <1>7 DEF SideBySide
  <1> QED
    BY <1>8, <1>9 DEF a, n

\* The commands made from one listing of the tables cover what is there.
LEMMA ReapCovers ==
  ASSUME TablesOK, NEW f \in Families, NEW t, t = ReapCommands(f)
  PROVE  t \in Seq(Removals(f)) /\ Covers(f, t)
  <1> DEFINE old == output[f]
             d == [i \in DOMAIN old |-> Command(f, "D", old[i])]
             S == {n \in Names : chain[f][n] # NoChain}
             names == SetToSeq(S)
             b == FlushAndDelete(f, names)
  <1>1. t = d \o b
    BY DEF ReapCommands, ForEach, FlushAndDelete
  <1>2. old \in Seq(Names)
    BY DEF TablesOK
  <1>3. IsFiniteSet(S)
    BY NamesFinite, FS_Subset
  <1>4. names \in Seq(S) /\ \A n \in S : \E i \in 1..Len(names) : names[i] = n
    <2> HIDE DEF S
    <2> QED
      BY <1>3, SetInSequence
  <1>5. names \in Seq(Names)
    <2> HIDE DEF names
    <2> QED
      BY <1>4
  <1> HIDE DEF old
  <1>6. /\ d \in Seq(Removals(f)) /\ Len(d) = Len(old)
        /\ \A i \in 1..Len(d) : d[i] = Command(f, "D", old[i])
    BY <1>2, JumpCommands
  <1> HIDE DEF d, names
  <1>14. b = FlushAndDelete(f, names)
    OBVIOUS
  <1> HIDE DEF b
  <1>7. /\ b \in Seq(Removals(f))
        /\ \A i \in 1..Len(b) : b[i].op # "D"
        /\ \A i \in 1..Len(names) : \E j \in 1..Len(b) :
              /\ j + 1 \in 1..Len(b)
              /\ b[j] = Command(f, "F", names[i]) /\ b[j + 1] = Command(f, "X", names[i])
    BY <1>5, <1>14, ChainCommands
  <1> DEFINE k == Len(d)  m == Len(b)
  <1>8. /\ t \in Seq(Removals(f)) /\ Len(t) = k + m /\ k \in Nat /\ m \in Nat /\ DOMAIN t = 1..k + m
        /\ \A i \in 1..k + m : t[i] = IF i <= k THEN d[i] ELSE b[i - k]
    <2>1. /\ d \o b \in Seq(Removals(f)) /\ Len(d \o b) = Len(d) + Len(b)
          /\ \A i \in 1..Len(d) + Len(b) : (d \o b)[i] = IF i <= Len(d) THEN d[i] ELSE b[i - Len(d)]
      <3>1. d \in Seq(Removals(f)) /\ b \in Seq(Removals(f))
        BY <1>6, <1>7
      <3> QED
        BY <3>1, ConcatProperties
    <2>2. Len(d) \in Nat /\ Len(b) \in Nat
      BY <1>6, <1>7
    <2>3. DOMAIN (d \o b) = 1..Len(d \o b)
      BY <2>1
    <2> QED
      BY <1>1, <2>1, <2>2, <2>3
  <1>9. /\ \A i \in 1..k : d[i] = Command(f, "D", old[i])
        /\ \A i \in 1..m : b[i].op # "D"
        /\ \A i \in 1..Len(names) : \E j \in 1..m :
              /\ j + 1 \in 1..m
              /\ b[j] = Command(f, "F", names[i]) /\ b[j + 1] = Command(f, "X", names[i])
        /\ Len(old) = k
    BY <1>6, <1>7
  <1> HIDE DEF k, m
  <1>10. /\ \A i \in 1..k : i \in 1..k + m /\ t[i] = d[i]
         /\ \A i \in 1..m : k + i \in 1..k + m /\ t[k + i] = b[i]
    <2>1. \A i \in 1..k : i \in 1..k + m /\ i <= k
      BY <1>8
    <2>2. \A i \in 1..m : k + i \in 1..k + m /\ ~(k + i <= k) /\ k + i - k = i
      BY <1>8
    <2> QED
      BY <1>8, <2>1, <2>2
  <1>11. ASSUME NEW i \in DOMAIN t, NEW j \in DOMAIN t, i < j, t[j].op = "D" PROVE t[i].op = "D"
    <2>1. j <= k
      <3>1. SUFFICES ASSUME ~(j <= k) PROVE FALSE
        OBVIOUS
      <3>2. j - k \in 1..m /\ t[j] = b[j - k]
        BY <1>8, <3>1
      <3> QED
        BY <1>9, <1>11, <3>2
    <2>2. i \in 1..k
      BY <1>8, <1>11, <2>1
    <2>3. \A n : Command(f, "D", n).op = "D"
      BY DEF Command
    <2>4. t[i] = Command(f, "D", old[i])
      BY <1>9, <1>10, <2>2
    <2> QED
      BY <2>3, <2>4
  <1>12. ASSUME NEW n \in Names, Jumped(f, n) PROVE \E i \in DOMAIN t : t[i] = Command(f, "D", n)
    <2>1. PICK i \in 1..k : old[i] = n
      BY <1>9, <1>12 DEF Jumped, Contains, old
    <2>2. i \in DOMAIN t /\ t[i] = d[i]
      BY <1>8, <1>10
    <2>3. d[i] = Command(f, "D", n)
      BY <1>9, <2>1
    <2> QED
      BY <2>2, <2>3
  <1>13. ASSUME NEW n \in Names, chain[f][n] # NoChain
         PROVE  \E i \in DOMAIN t : /\ i + 1 \in DOMAIN t
                                    /\ t[i] = Command(f, "F", n) /\ t[i + 1] = Command(f, "X", n)
    <2>1. PICK i \in 1..Len(names) : names[i] = n
      BY <1>4, <1>13
    <2>2. PICK j \in 1..m : /\ j + 1 \in 1..m
                            /\ b[j] = Command(f, "F", n) /\ b[j + 1] = Command(f, "X", n)
      BY <1>9, <2>1
    <2>3. k + (j + 1) = (k + j) + 1
      BY <1>8, <2>2
    <2>4. k + j \in 1..k + m /\ t[k + j] = b[j] /\ k + (j + 1) \in 1..k + m /\ t[k + (j + 1)] = b[j + 1]
      BY <1>10, <2>2
    <2> QED
      BY <1>8, <2>2, <2>3, <2>4
  <1> QED
    BY <1>8, <1>11, <1>12, <1>13 DEF Covers

\* A removal that ran leaves the rest of the list with the rest of the work.
LEMMA ReapStep ==
  ASSUME TablesOK, NEW f \in Families, NEW t, t \in Seq(Commands), t # <<>>, Reaps(f, t),
         Ran(Head(t)), Reliable' => Reliable
  PROVE  Reaps(f, Tail(t))'
  <1> DEFINE l == Len(t)  u == Tail(t)  c == t[1]
  <1>1. /\ l \in Nat /\ l >= 1 /\ DOMAIN t = 1..l /\ DOMAIN u = 1..l - 1
        /\ \A i \in 1..l - 1 : i + 1 \in 1..l /\ u[i] = t[i + 1]
        /\ Head(t) = c /\ c \in Commands
        /\ u # <<>> <=> l >= 2
    OBVIOUS
  <1>2. \A i \in 1..l : t[i].family = f /\ t[i].op \in {"D", "F", "X"}
    BY <1>1 DEF Reaps
  <1> HIDE DEF l, u, c
  <1>3. \A i \in 1..l - 1 : u[i].family = f /\ u[i].op \in {"D", "F", "X"}
    BY <1>1, <1>2
  <1>4. SUFFICES ASSUME Reliable' PROVE Covers(f, u)'
    BY <1>1, <1>3 DEF Reaps, u
  <1>5. Covers(f, t)
    BY <1>4 DEF Reaps
  <1> DEFINE m == c.name  op == c.op
  <1>6. /\ c.family = f /\ op \in {"D", "F", "X"} /\ m \in Names /\ c = Command(f, op, m) /\ c = t[1]
    <2>1. c.family = f /\ op \in {"D", "F", "X"} /\ c = t[1]
      BY <1>1, <1>2 DEF c
    <2> QED
      BY <1>1, <2>1 DEF Commands, Command
  <1>7. Ran(Command(f, op, m))
    BY <1>1, <1>6
  <1>8. \A n \in Names : n # m => Untouched(f, n)
    BY <1>1, <1>6, OthersUntouched
  <1> HIDE DEF m, op
  <1>9. /\ op = "D" => ~Jumped(f, m)' /\ chain'[f][m] = chain[f][m]
        /\ op # "D" => (Jumped(f, m)' <=> Jumped(f, m))
        /\ op = "F" => chain'[f][m] \in {<<>>, NoChain}
        /\ op = "X" => (chain[f][m] \in {<<>>, NoChain} /\ ~Jumped(f, m) => chain'[f][m] = NoChain)
        /\ chain[f][m] = NoChain => chain'[f][m] = NoChain
    BY <1>4, <1>6, <1>7, RemovalRan
  <1>10. \A o, n : t[1] = Command(f, o, n) => op = o /\ m = n
    BY <1>6 DEF Command
  <1>11. ASSUME NEW i \in 1..l - 1, NEW j \in 1..l - 1, i < j, u[j].op = "D" PROVE u[i].op = "D"
    <2>1. i + 1 \in 1..l /\ j + 1 \in 1..l /\ i + 1 < j + 1
      BY <1>1, <1>11
    <2> QED
      BY <1>1, <1>5, <1>11, <2>1 DEF Covers
  <1>12. ASSUME NEW n \in Names, Jumped(f, n)'
         PROVE  \E i \in 1..l - 1 : u[i] = Command(f, "D", n)
    <2>1. Jumped(f, n) /\ ~(op = "D" /\ m = n)
      BY <1>6, <1>8, <1>9, <1>12 DEF Untouched
    <2>2. PICK i \in 1..l : t[i] = Command(f, "D", n)
      BY <1>1, <1>5, <2>1 DEF Covers
    <2>3. i # 1
      BY <1>10, <2>1, <2>2
    <2>4. i - 1 \in 1..l - 1 /\ i - 1 + 1 = i
      BY <1>1, <2>3
    <2> QED
      BY <1>1, <2>2, <2>4
  <1>13. ASSUME NEW n \in Names, chain'[f][n] # NoChain
         PROVE  \/ \E i \in 1..l - 1 : /\ i + 1 \in 1..l - 1
                                       /\ u[i] = Command(f, "F", n) /\ u[i + 1] = Command(f, "X", n)
                \/ chain'[f][n] = <<>> /\ u # <<>> /\ u[1] = Command(f, "X", n)
    <2>1. chain[f][n] # NoChain
      BY <1>8, <1>9, <1>13 DEF Untouched
    <2>2. CASE \E i \in 1..l : /\ i + 1 \in 1..l
                               /\ t[i] = Command(f, "F", n) /\ t[i + 1] = Command(f, "X", n)
      <3>1. PICK i \in 1..l : /\ i + 1 \in 1..l
                              /\ t[i] = Command(f, "F", n) /\ t[i + 1] = Command(f, "X", n)
        BY <2>2
      <3>2. CASE i = 1
        <4>1. op = "F" /\ m = n
          BY <1>10, <3>1, <3>2
        <4>2. chain'[f][n] = <<>>
          BY <1>9, <1>13, <4>1
        <4>3. l >= 2 /\ 1 \in 1..l - 1 /\ t[1 + 1] = Command(f, "X", n)
          BY <1>1, <3>1, <3>2
        <4> QED
          BY <1>1, <4>2, <4>3
      <3>3. CASE i # 1
        <4>1. i - 1 \in 1..l - 1 /\ i - 1 + 1 = i /\ i \in 1..l - 1
          BY <1>1, <3>1, <3>3
        <4>2. u[i - 1] = t[i] /\ u[i - 1 + 1] = t[i + 1]
          BY <1>1, <4>1
        <4> QED
          BY <3>1, <4>1, <4>2
      <3> QED
        BY <3>2, <3>3
    <2>3. CASE chain[f][n] = <<>> /\ t[1] = Command(f, "X", n)
      <3>1. op = "X" /\ m = n /\ t[1].op # "D"
        BY <1>6, <1>10, <2>3 DEF op
      <3>2. ~Jumped(f, n)
        <4>1. SUFFICES ASSUME Jumped(f, n) PROVE FALSE
          OBVIOUS
        <4>2. PICK i \in 1..l : t[i] = Command(f, "D", n)
          BY <1>1, <1>5, <4>1 DEF Covers
        <4>3. t[i].op = "D" /\ i # 1 /\ 1 \in 1..l
          BY <1>1, <1>10, <3>1, <4>2 DEF Command
        <4>4. 1 < i
          BY <4>3, <1>1
        <4> QED
          BY <1>1, <1>5, <3>1, <4>3, <4>4 DEF Covers
      <3> QED
        BY <1>9, <1>13, <2>3, <3>1, <3>2
    <2> QED
      BY <1>1, <1>5, <2>1, <2>2, <2>3 DEF Covers
  <1> QED
    BY <1>1, <1>11, <1>12, <1>13 DEF Covers

-------------------------------------------------------------------------------
(* The helper: it reaps while every guard rests.                            *)

\* A step of the helper while the guards are idle.
LEMMA HelperStep ==
  ASSUME FirewallInv, \A g \in Guards : pc[g] = "idle", NEW at \in HelperPhases,
         NEW commands, commands \in Seq(Commands), Goto("helper", at, commands),
         UNCHANGED built, TablesOK', \A g \in Guards : Whole(g)', HelperOK'
  PROVE  FirewallInv'
  <1>0. ProcessesOK /\ "helper" \in Workers /\ "helper" \notin Guards
    BY GuardAssumption DEF FirewallInv, Workers
  <1>1. /\ pc' \in [Workers -> GuardPhases \cup HelperPhases] /\ pc'["helper"] = at
        /\ todo' \in [Workers -> Seq(Commands)]
        /\ \A w \in Workers : w # "helper" => pc'[w] = pc[w] /\ todo'[w] = todo[w]
    BY <1>0 DEF Goto, ProcessesOK
  <1>2. \A g \in Guards : g \in Workers /\ g # "helper"
    BY GuardFacts, <1>0
  <1>3. \A g \in Guards : pc'[g] = "idle" /\ todo'[g] = <<>>
    <2>1. \A g \in Guards : pc[g] = "idle" /\ todo[g] = <<>>
      BY DEF FirewallInv, Progress
    <2> QED
      BY <1>1, <1>2, <2>1
  <1>4. ProcessesOK'
    <2>1. \A g \in Guards : pc'[g] \in GuardPhases
      BY <1>3 DEF GuardPhases
    <2>2. /\ built' \in [Guards -> RuleSets]
          /\ \A g \in Guards : built'[g] \in RuleSetsOf[g]
      BY <1>0 DEF ProcessesOK
    <2> QED
      BY <1>1, <2>1, <2>2 DEF ProcessesOK
  <1>5. \A g \in Guards : Progress(g)'
    BY <1>3 DEF Progress, Live
  <1> QED
    BY <1>4, <1>5 DEF FirewallInv

LEMMA SameReaps ==
  ASSUME UNCHANGED <<chain, output, v6, faults>>, NEW f, NEW t
  PROVE  Reaps(f, t)' <=> Reaps(f, t)
  BY DEF Reaps, Covers, Jumped, Reliable

\* With nothing left to run, nothing is left in the tables.
LEMMA NothingLeft ==
  ASSUME NEW f \in Families, Reaps(f, <<>>), Reliable
  PROVE  \A n \in Names : ~Leftovers(f, n)
  <1>1. Covers(f, <<>>)
    BY DEF Reaps
  <1>2. DOMAIN <<>> = {}
    OBVIOUS
  <1> QED
    BY <1>1, <1>2 DEF Covers, Leftovers

LEMMA NothingToReap ==
  ASSUME NEW f \in Families, \A n \in Names : ~Leftovers(f, n)
  PROVE  Reaps(f, <<>>)
  <1>1. DOMAIN <<>> = {}
    OBVIOUS
  <1> QED
    BY <1>1 DEF Reaps, Covers, Leftovers

LEMMA ReapsAll ==
  ASSUME TablesOK, NEW f \in Families, NEW t, t = ReapCommands(f)
  PROVE  t \in Seq(Commands) /\ Reaps(f, t)
  <1>1. t \in Seq(Removals(f)) /\ Covers(f, t)
    BY ReapCovers
  <1>2. \A i \in DOMAIN t : t[i] \in Removals(f)
    BY <1>1
  <1>3. Removals(f) \subseteq Commands
    BY RemovalFields
  <1>4. t \in Seq(Commands)
    BY <1>1, <1>3, SeqMonotonic
  <1>5. \A i \in DOMAIN t : t[i].family = f /\ t[i].op \in {"D", "F", "X"}
    BY <1>2, RemovalFields
  <1> QED
    BY <1>1, <1>4, <1>5 DEF Reaps

\* A command of the reaping helper, whether it works or not.
LEMMA ReapCommandRan ==
  ASSUME FirewallInv, Reaping, todo["helper"] # <<>>, Ran(Head(todo["helper"])), Reliable' => Reliable,
         UNCHANGED built, Goto("helper", pc["helper"], Tail(todo["helper"]))
  PROVE  FirewallInv'
  <1>0. TablesOK /\ ProcessesOK /\ HelperOK /\ "helper" \in Workers /\ (\A g \in Guards : pc[g] = "idle")
    BY DEF FirewallInv, Workers, HelperOK
  <1>1. PICK t : t = todo["helper"]
    OBVIOUS
  <1>2. t \in Seq(Commands) /\ t # <<>>
    BY <1>0, <1>1 DEF ProcessesOK
  <1>3. PICK f \in Families : /\ Reaps(f, t)
                              /\ pc["helper"] = "reap4" => f = "v4"
                              /\ pc["helper"] = "reap6" => f = "v6"
    BY <1>0, <1>1 DEF HelperOK, Reaping, Families
  <1>4. Head(t) \in Commands /\ Head(t).family = f /\ IsRemoval(Head(t)) /\ Tail(t) \in Seq(Commands)
    <2>1. Head(t) = t[1] /\ 1 \in DOMAIN t /\ Head(t) \in Commands /\ Tail(t) \in Seq(Commands)
      BY <1>2
    <2>2. t[1].family = f /\ t[1].op \in {"D", "F", "X"}
      BY <1>3, <2>1 DEF Reaps
    <2> QED
      BY <2>1, <2>2 DEF IsRemoval
  <1>5. Ran(Head(t))
    BY <1>1
  <1>6. Reaps(f, Tail(t))'
    BY <1>0, <1>2, <1>3, <1>5, ReapStep
  <1>7. /\ TablesOK'
        /\ \A h \in Families, n \in Names : h # f => Untouched(h, n)
    BY <1>4, <1>5, OthersUntouched
  <1>8. \A g \in Guards : Whole(g)'
    <2>1. \A g \in Guards : Whole(g)
      BY DEF FirewallInv
    <2> QED
      BY <1>0, <1>4, <1>5, <2>1, WholeAfterRemoval
  <1>9. pc'["helper"] = pc["helper"] /\ todo'["helper"] = Tail(t)
    BY <1>0, <1>1 DEF Goto, ProcessesOK
  <1>10. \A g \in Guards : pc'[g] = "idle"
    BY <1>0 DEF Goto, ProcessesOK
  <1>11. HelperOK'
    <2>1. pc["helper"] = "reap6" /\ Reliable' => \A n \in Names : ~Leftovers("v4", n)'
      <3>1. SUFFICES ASSUME pc["helper"] = "reap6", Reliable', NEW n \in Names
                     PROVE  ~Leftovers("v4", n)'
        OBVIOUS
      <3>2. ~Leftovers("v4", n)
        BY <1>0, <3>1 DEF HelperOK
      <3>3. Untouched("v4", n)
        BY <1>3, <1>7, <3>1 DEF Families
      <3> QED
        BY <3>2, <3>3 DEF Untouched, Leftovers
    <2>2. pc["helper"] \in {"reap4", "reap6"}
      BY DEF Reaping
    <2> QED
      BY <1>3, <1>6, <1>9, <1>10, <2>1, <2>2 DEF HelperOK, Reaping
  <1>12. pc["helper"] \in HelperPhases
    BY <1>0 DEF ProcessesOK
  <1>13. Tail(todo["helper"]) \in Seq(Commands)
    BY <1>1, <1>4
  <1> QED
    BY <1>0, <1>7, <1>8, <1>11, <1>12, <1>13, HelperStep

\* What the helper still has to run, it runs while reaping.
LEMMA ReapingHelper ==
  ASSUME FirewallInv, todo["helper"] # <<>>
  PROVE  Reaping /\ Head(todo["helper"]) \in Commands /\ IsRemoval(Head(todo["helper"]))
  <1>1. Reaping /\ ProcessesOK /\ HelperOK /\ "helper" \in Workers
    BY DEF FirewallInv, HelperOK, Workers
  <1>2. PICK t : t = todo["helper"]
    OBVIOUS
  <1>3. t \in Seq(Commands) /\ t # <<>>
    BY <1>1, <1>2 DEF ProcessesOK
  <1>4. \A i \in DOMAIN t : t[i].op \in {"D", "F", "X"}
    BY <1>1, <1>2 DEF HelperOK, Reaping, Reaps
  <1>5. Head(t) = t[1] /\ 1 \in DOMAIN t /\ Head(t) \in Commands
    BY <1>3
  <1> QED
    BY <1>1, <1>2, <1>4, <1>5 DEF IsRemoval

\* A command of the reaping helper that worked ...
LEMMA HelperSucceeds ==
  ASSUME FirewallInv, Succeed("helper")
  PROVE  FirewallInv'
  <1> DEFINE c == Head(todo["helper"])
  <1>1. /\ todo["helper"] # <<>> /\ Possible(c) /\ Effect(c) /\ UNCHANGED <<v6, faults>>
        /\ UNCHANGED built
    BY DEF Succeed
  <1>2. Goto("helper", pc["helper"], Tail(todo["helper"]))
    BY DEF Succeed, Goto, FirewallInv, ProcessesOK
  <1>3. TablesOK /\ Reaping /\ c \in Commands /\ IsRemoval(c)
    BY <1>1, ReapingHelper DEF FirewallInv
  <1> HIDE DEF c
  <1>4. Done(c)
    BY <1>1, <1>3, CommandDone DEF IsRemoval
  <1>5. Ran(Head(todo["helper"]))
    BY <1>1, <1>4 DEF Ran, c
  <1>6. Reliable' => Reliable
    BY <1>1 DEF Reliable
  <1> QED
    BY <1>1, <1>2, <1>3, <1>5, <1>6, ReapCommandRan

\* ... and one that did not.
LEMMA HelperFails ==
  ASSUME FirewallInv, Fail("helper")
  PROVE  FirewallInv'
  <1> DEFINE c == Head(todo["helper"])
  <1>1. /\ todo["helper"] # <<>> /\ PartialEffect(c) /\ UNCHANGED v6 /\ UNCHANGED built
        /\ \/ ~Possible(c) /\ UNCHANGED faults
           \/ Possible(c) /\ faults > 0 /\ faults' = faults - 1
    BY DEF Fail
  <1>2. TablesOK /\ Reaping /\ c \in Commands
    BY <1>1, ReapingHelper DEF FirewallInv
  <1>3. Goto("helper", pc["helper"], Tail(todo["helper"]))
    BY <1>2 DEF Fail, Reaping
  <1> HIDE DEF c
  <1>4. faults' \in 0..MaxFaults /\ (Reliable' => Reliable /\ ~Possible(c))
    BY <1>1, <1>2, FailureCounted
  <1>5. Failed(c)
    BY <1>1, <1>2, <1>4, CommandFailed
  <1>6. Ran(Head(todo["helper"]))
    BY <1>4, <1>5 DEF Ran, c
  <1> QED
    BY <1>1, <1>2, <1>3, <1>4, <1>6, ReapCommandRan

\* Steps of the helper that leave the tables alone.
LEMMA QuietHelper ==
  ASSUME FirewallInv, \A g \in Guards : pc[g] = "idle", NEW at \in HelperPhases,
         NEW commands, commands \in Seq(Commands), Goto("helper", at, commands),
         UNCHANGED <<chain, output, built, v6, faults>>, HelperOK'
  PROVE  FirewallInv'
  <1>1. TablesOK' /\ (Reliable' <=> Reliable) /\ \A f, n : Untouched(f, n)
    BY TablesKept DEF FirewallInv
  <1>2. \A g \in Guards : Whole(g)'
    BY <1>1 DEF FirewallInv, Whole, Untouched
  <1> QED
    BY <1>1, <1>2, HelperStep

\* IPv4 reaped, the helper lists IPv6; both reaped, it serves.
LEMMA HelperProceeds ==
  ASSUME FirewallInv, Proceed("helper")
  PROVE  FirewallInv'
  <1>0. TablesOK /\ ProcessesOK /\ HelperOK /\ "helper" \in Workers /\ "v4" \in Families /\ "v6" \in Families
    BY DEF FirewallInv, Workers, Families
  <1>1. todo["helper"] = <<>> /\ UNCHANGED <<chain, output, built, v6, faults>>
    BY DEF Proceed
  <1>2. \/ pc["helper"] = "reap4" /\ Goto("helper", "reap6", IF v6 THEN ReapCommands("v6") ELSE <<>>)
        \/ pc["helper"] = "reap6" /\ Goto("helper", "up", <<>>)
    BY <1>0 DEF Proceed, ProcessesOK, HelperPhases
  <1>3. \A g \in Guards : pc[g] = "idle"
    BY <1>0, <1>2 DEF HelperOK, Reaping
  <1>4. /\ (Reliable' <=> Reliable) /\ \A f, n : Leftovers(f, n)' <=> Leftovers(f, n)
    BY <1>1 DEF Reliable, Leftovers, Jumped
  <1>5. CASE pc["helper"] = "reap4" /\ Goto("helper", "reap6", IF v6 THEN ReapCommands("v6") ELSE <<>>)
    <2>1. PICK t : t = IF v6 THEN ReapCommands("v6") ELSE <<>>
      OBVIOUS
    <2>2. t \in Seq(Commands) /\ Reaps("v6", t)
      <3>1. CASE v6
        <4>1. t = ReapCommands("v6")
          BY <2>1, <3>1
        <4> QED
          BY <1>0, <4>1, ReapsAll
      <3>2. CASE ~v6
        <4>1. t = <<>> /\ \A n \in Names : ~Leftovers("v6", n)
          BY <1>0, <2>1, <3>2 DEF TablesOK
        <4> QED
          BY <1>0, <4>1, NothingToReap
      <3> QED
        BY <3>1, <3>2
    <2>3. Goto("helper", "reap6", t)
      BY <1>5, <2>1
    <2>4. pc'["helper"] = "reap6" /\ todo'["helper"] = t /\ \A g \in Guards : pc'[g] = "idle"
      BY <1>0, <1>3, <2>3, GuardFacts DEF Goto, ProcessesOK
    <2>5. Reliable => \A n \in Names : ~Leftovers("v4", n)
      <3>1. Reaps("v4", <<>>)
        BY <1>0, <1>1, <1>5 DEF HelperOK
      <3> QED
        BY <1>0, <3>1, NothingLeft
    <2>6. Reaps("v6", t)'
      BY <1>1, <2>2, SameReaps
    <2>7. HelperOK'
      BY <1>4, <2>4, <2>5, <2>6 DEF HelperOK, Reaping
    <2>8. "reap6" \in HelperPhases
      BY DEF HelperPhases
    <2> QED
      BY <1>1, <1>3, <2>2, <2>3, <2>7, <2>8, QuietHelper
  <1>6. CASE pc["helper"] = "reap6" /\ Goto("helper", "up", <<>>)
    <2>1. pc'["helper"] = "up" /\ todo'["helper"] = <<>>
      BY <1>0, <1>6 DEF Goto, ProcessesOK
    <2>2. HelperOK'
      BY <2>1 DEF HelperOK, Reaping
    <2>3. "up" \in HelperPhases /\ <<>> \in Seq(Commands)
      BY DEF HelperPhases
    <2> QED
      BY <1>1, <1>3, <1>6, <2>2, <2>3, QuietHelper
  <1> QED
    BY <1>2, <1>5, <1>6

\* A helper that starts lists IPv4.  No guard works before it serves.
LEMMA HelperStartsKeeps ==
  ASSUME FirewallInv, ~ReapAnyTime, HelperStarts
  PROVE  FirewallInv'
  <1>0. TablesOK /\ ProcessesOK /\ "helper" \in Workers /\ "v4" \in Families
    BY DEF FirewallInv, Workers, Families
  <1>1. (\A g \in Guards : pc[g] = "idle") /\ UNCHANGED <<chain, output, built, v6, faults>>
    BY DEF HelperStarts
  <1>2. PICK t : t = ReapCommands("v4")
    OBVIOUS
  <1>3. t \in Seq(Commands) /\ Reaps("v4", t)
    BY <1>0, <1>2, ReapsAll
  <1>4. Goto("helper", "reap4", t)
    BY <1>2 DEF HelperStarts
  <1>5. pc'["helper"] = "reap4" /\ todo'["helper"] = t /\ \A g \in Guards : pc'[g] = "idle"
    BY <1>0, <1>1, <1>4, GuardFacts DEF Goto, ProcessesOK
  <1>6. Reaps("v4", t)'
    BY <1>1, <1>3, SameReaps
  <1>7. HelperOK' /\ "reap4" \in HelperPhases
    BY <1>5, <1>6 DEF HelperOK, Reaping, HelperPhases
  <1> QED
    BY <1>1, <1>3, <1>4, <1>7, QuietHelper

\* The helper dies with all its guards; the agents of the live ones go on.
LEMMA HelperDiesKeeps ==
  ASSUME FirewallInv, HelperDies
  PROVE  FirewallInv'
  <1>0. TablesOK /\ ProcessesOK /\ "helper" \in Workers /\ "helper" \in Helpers
    BY DEF FirewallInv, Workers, Helpers
  <1>1. UNCHANGED <<chain, output, built, v6, faults>> /\ UNCHANGED built
    BY DEF HelperDies
  <1>2. TablesOK' /\ (Reliable' <=> Reliable) /\ \A f, n : Untouched(f, n)
    BY <1>0, <1>1, TablesKept
  <1>3. pc'["helper"] = "down" /\ todo'["helper"] = <<>>
    BY <1>0 DEF HelperDies
  <1>4. \A g \in Guards : \/ pc'[g] = pc[g] /\ todo'[g] = todo[g]
                          \/ pc'[g] = AfterDeath(g) /\ todo'[g] = <<>>
    BY GuardFacts DEF HelperDies, Helpers
  <1>5. \A g \in Guards : pc'[g] \in GuardPhases
    BY <1>0, <1>4 DEF ProcessesOK, AfterDeath, GuardPhases
  <1>6. ProcessesOK'
    <2>1. \A w \in Workers : w \in Guards \/ w = "helper"
      BY DEF Workers
    <2>2. \A w \in Workers : pc'[w] \in GuardPhases \cup HelperPhases
      BY <1>3, <1>5, <2>1 DEF HelperPhases
    <2>3. \A w \in Workers : todo'[w] \in Seq(Commands)
      <3>1. <<>> \in Seq(Commands) /\ \A w \in Workers : todo[w] \in Seq(Commands)
        BY <1>0 DEF ProcessesOK
      <3>2. \A w \in Workers : todo'[w] = <<>> \/ todo'[w] = todo[w]
        BY DEF HelperDies
      <3> QED
        BY <3>1, <3>2
    <2>4. /\ pc' = [w \in Workers |-> pc'[w]]
          /\ todo' = [w \in Workers |-> todo'[w]]
      BY DEF HelperDies
    <2>5. /\ pc' \in [Workers -> GuardPhases \cup HelperPhases]
          /\ todo' \in [Workers -> Seq(Commands)]
      BY <2>2, <2>3, <2>4
    <2>6. built' \in [Guards -> RuleSets] /\ \A g \in Guards : built'[g] \in RuleSetsOf[g]
      BY <1>0, <1>1 DEF ProcessesOK
    <2>7. pc'["helper"] \in HelperPhases
      BY <1>3 DEF HelperPhases
    <2> QED
      BY <1>5, <2>5, <2>6, <2>7 DEF ProcessesOK
  <1>7. HelperOK'
    BY <1>3 DEF HelperOK, Reaping
  <1>8. ASSUME NEW g \in Guards PROVE Whole(g)' /\ Progress(g)'
    <2>0. Whole(g) /\ Progress(g) /\ built'[g] = built[g]
      BY <1>1 DEF FirewallInv
    <2>1. CASE pc'[g] = pc[g] /\ todo'[g] = todo[g]
      BY <1>2, <2>0, <2>1, KeepsProgress
    <2>2. CASE pc'[g] = AfterDeath(g) /\ todo'[g] = <<>>
      <3>1. Whole(g)'
        BY <1>2, <2>0 DEF Whole, Untouched
      <3>2. (AfterDeath(g) = "orphaned" /\ Live(g)) \/ AfterDeath(g) = "idle"
        BY DEF AfterDeath
      <3>3. Live(g)' => Filling(g, 8)'
        <4>1. Live(g)' => Filling(g, 8)
          BY <2>0, <2>2, <3>2 DEF Live, Progress
        <4> QED
          BY <1>1, <2>0, <4>1, SameFilling
      <3> QED
        BY <2>2, <3>1, <3>2, <3>3 DEF Progress, Live
    <2> QED
      BY <1>4, <2>1, <2>2
  <1> QED
    BY <1>2, <1>6, <1>7, <1>8 DEF FirewallInv

-------------------------------------------------------------------------------
(* The invariant holds.                                                     *)

LEMMA FirewallInit ==
  ASSUME Init
  PROVE  FirewallInv
  <1>0. "helper" \in Workers /\ "helper" \notin Guards
    BY GuardAssumption DEF Workers
  <1>1. \A f \in Families, n \in Names : chain[f][n] = NoChain /\ ~Jumped(f, n)
    <2>1. \A f \in Families : output[f] = <<>>
      BY DEF Init
    <2>2. \A n : ~Contains(<<>>, n)
      BY DEF Contains
    <2> QED
      BY <2>1, <2>2 DEF Init, Jumped
  <1>2. TablesOK
    <2>1. chain \in [Families -> [Names -> Seq(FilterRules) \cup {NoChain}]]
      BY DEF Init
    <2>2. output \in [Families -> Seq(Names)]
      <3>1. <<>> \in Seq(Names)
        OBVIOUS
      <3> QED
        BY <3>1 DEF Init
    <2>3. \A f \in Families : Distinct(output[f])
      BY DEF Init, Distinct
    <2>4. v6 \in BOOLEAN /\ faults \in 0..MaxFaults
      BY GuardAssumption DEF Init
    <2>5. "v6" \in Families
      BY DEF Families
    <2> QED
      BY <1>1, <2>1, <2>2, <2>3, <2>4, <2>5 DEF TablesOK, Leftovers
  <1>3. ProcessesOK
    <2>1. \A g \in Guards : built[g] \in RuleSetsOf[g] /\ built[g] \in RuleSets
      <3>1. SUFFICES ASSUME NEW g \in Guards PROVE built[g] \in RuleSetsOf[g] /\ built[g] \in RuleSets
        OBVIOUS
      <3>2. \E rs \in RuleSetsOf[g] : TRUE
        BY GuardAssumption
      <3>3. built[g] \in RuleSetsOf[g]
        BY <3>2 DEF Init
      <3> QED
        BY <3>3 DEF RuleSets
    <2>2. built \in [Guards -> RuleSets]
      BY <2>1 DEF Init
    <2>3. \A g \in Guards : g \in Workers /\ g # "helper"
      BY <1>0, GuardFacts
    <2>4. /\ pc \in [Workers -> GuardPhases \cup HelperPhases]
          /\ pc["helper"] \in HelperPhases /\ \A g \in Guards : pc[g] \in GuardPhases
      BY <1>0, <2>3 DEF Init, GuardPhases, HelperPhases
    <2>5. todo \in [Workers -> Seq(Commands)]
      <3>1. <<>> \in Seq(Commands)
        OBVIOUS
      <3> QED
        BY <3>1 DEF Init
    <2> QED
      BY <2>1, <2>2, <2>4, <2>5 DEF ProcessesOK
  <1>4. HelperOK
    BY <1>0 DEF Init, HelperOK, Reaping
  <1>5. ASSUME NEW g \in Guards PROVE Whole(g) /\ Progress(g)
    <2>1. pc[g] = "idle" /\ todo[g] = <<>> /\ ChainOf[g] \in Names
      BY GuardFacts DEF Init
    <2> QED
      BY <1>1, <2>1 DEF Whole, Progress, Live
  <1> QED
    BY <1>2, <1>3, <1>4, <1>5 DEF FirewallInv

LEMMA FirewallNext ==
  ASSUME FirewallInv, ~ReapAnyTime, [Next]_vars
  PROVE  FirewallInv'
  <1>1. ASSUME NEW w \in Workers, Succeed(w) \/ Fail(w) \/ Proceed(w) PROVE FirewallInv'
    <2>1. CASE w = "helper"
      BY <1>1, <2>1, HelperSucceeds, HelperFails, HelperProceeds
    <2>2. CASE w \in Guards
      BY <1>1, <2>2, GuardSucceeds, GuardFails, GuardProceeds
    <2> QED
      BY <2>1, <2>2 DEF Workers
  <1>2. ASSUME NEW g \in Guards,
               Install(g) \/ Build(g) \/ Uninstall(g) \/ LauncherDies(g) \/ AgentEnds(g)
        PROVE  FirewallInv'
    BY <1>2, GuardInstalls, GuardBuilds, GuardUninstalls, LauncherDiesKeeps, AgentEndsKeeps
  <1>3. CASE UNCHANGED vars
    <2>1. /\ UNCHANGED chain /\ UNCHANGED output /\ UNCHANGED built /\ UNCHANGED pc /\ UNCHANGED todo
          /\ UNCHANGED v6 /\ UNCHANGED faults
      BY <1>3 DEF vars
    <2>2. UNCHANGED <<chain, output, v6, faults>>
      BY <2>1
    <2>3. TablesOK' /\ (Reliable' <=> Reliable) /\ \A f, n : Untouched(f, n)
      BY <2>2, TablesKept DEF FirewallInv
    <2>4. ProcessesOK'
      BY <2>1 DEF FirewallInv, ProcessesOK
    <2>5. HelperOK'
      <3>1. \A f, t : Reaps(f, t)' <=> Reaps(f, t)
        BY <2>2, SameReaps
      <3>2. \A n : Leftovers("v4", n)' <=> Leftovers("v4", n)
        BY <2>1 DEF Leftovers, Jumped
      <3> QED
        BY <2>1, <2>3, <3>1, <3>2 DEF FirewallInv, HelperOK, Reaping
    <2>6. ASSUME NEW g \in Guards PROVE Whole(g)' /\ Progress(g)'
      BY <2>1, <2>3, KeepsProgress DEF FirewallInv
    <2> QED
      BY <2>3, <2>4, <2>5, <2>6 DEF FirewallInv
  <1>4. CASE HelperDies \/ HelperStarts
    BY <1>4, HelperDiesKeeps, HelperStartsKeeps
  <1> QED
    BY <1>1, <1>2, <1>3, <1>4 DEF Next

\* The inductive invariant holds for any guards, rule sets and faults, provided
\* that a helper starts only when no earlier guard's agent lives.
THEOREM FirewallInvariance ==
  ASSUME ~ReapAnyTime
  PROVE  Spec => []FirewallInv
  <1>1. Init => FirewallInv
    BY FirewallInit
  <1>2. FirewallInv /\ [Next]_vars => FirewallInv'
    BY FirewallNext
  <1> QED
    BY <1>1, <1>2, PTL DEF Spec

-------------------------------------------------------------------------------
(* What the invariant says of packets.                                      *)

LEMMA LiveChains ==
  ASSUME FirewallInv, NEW g \in Guards, Live(g), NEW f \in Families
  PROVE  /\ Jumped(f, ChainOf[g]) /\ chain[f][ChainOf[g]] = Chain(built[g], f)
         /\ SoundRuleSet(built[g]) /\ built[g] \in RuleSets
  <1>1. Filling(g, 8)
    BY DEF FirewallInv, Progress
  <1>2. Filled("v4", g, 8) /\ Filled("v6", g, 8 - 4)
    BY <1>1 DEF Filling
  <1>3. \A k \in Nat : k >= 4 /\ Filled(f, g, k) =>
          Jumped(f, ChainOf[g]) /\ chain[f][ChainOf[g]] = Chain(built[g], f)
    BY DEF Filled
  <1>4. \E k \in Nat : k >= 4 /\ Filled(f, g, k)
    <2>1. 8 \in Nat /\ 8 - 4 \in Nat /\ 8 >= 4 /\ 8 - 4 >= 4
      OBVIOUS
    <2> QED
      BY <1>2, <2>1 DEF Families
  <1> QED
    BY <1>3, <1>4, GuardFacts DEF FirewallInv, ProcessesOK

\* A chain built from a sound rule set accepts what the rule set allows.
LEMMA FullChain ==
  ASSUME NEW n, NEW rs, SoundRuleSet(rs), NEW p \in Packets,
         chain[FamilyOf(p)][n] = Chain(rs, FamilyOf(p))
  PROVE  Accepts(n, p) <=> Allowed(rs, p)
  BY ChainDecides DEF Accepts

\* The chain of a live guard accepts what its rule set allows.
LEMMA LiveAccepts ==
  ASSUME FirewallInv, NEW g \in Guards, Live(g), NEW p \in Packets
  PROVE  /\ Accepts(ChainOf[g], p) <=> Allowed(built[g], p)
         /\ p \in AllowedBy[built[g]] <=> Allowed(built[g], p)
         /\ Jumped(FamilyOf(p), ChainOf[g])
  <1>1. FamilyOf(p) \in Families
    BY DEF FamilyOf, Families
  <1>2. /\ Jumped(FamilyOf(p), ChainOf[g])
        /\ chain[FamilyOf(p)][ChainOf[g]] = Chain(built[g], FamilyOf(p))
        /\ SoundRuleSet(built[g]) /\ built[g] \in RuleSets
    BY <1>1, LiveChains
  <1>3. Accepts(ChainOf[g], p) <=> Allowed(built[g], p)
    BY <1>2, FullChain
  <1>4. p \in AllowedBy[built[g]] <=> Allowed(built[g], p)
    BY <1>2 DEF AllowedBy
  <1> QED
    BY <1>2, <1>3, <1>4

LEMMA TypesFollow ==
  ASSUME FirewallInv
  PROVE  TypeOK
  <1>0. TablesOK /\ ProcessesOK /\ HelperOK /\ "helper" \notin Guards
    BY GuardAssumption DEF FirewallInv
  <1>1. ASSUME NEW w \in Workers
        PROVE  /\ pc[w] \in IF w = "helper" THEN {"down", "reap4", "reap6", "up"}
                            ELSE {"idle", "cleaning", "building", "active", "undoing",
                                  "removing", "orphaned"}
               /\ pc[w] \in {"idle", "active", "orphaned", "down", "up"} => todo[w] = <<>>
    <2>1. CASE w = "helper"
      BY <1>0, <2>1 DEF ProcessesOK, HelperOK, HelperPhases, Reaping
    <2>2. CASE w \in Guards
      <3>1. Progress(w) /\ w # "helper"
        BY <1>0, <2>2 DEF FirewallInv
      <3> QED
        BY <1>0, <2>2, <3>1 DEF ProcessesOK, GuardPhases, Progress
    <2> QED
      BY <2>1, <2>2 DEF Workers
  <1>2. ASSUME NEW f \in Families, NEW i \in DOMAIN output[f]
        PROVE  /\ chain[f][output[f][i]] # NoChain
               /\ \A j \in DOMAIN output[f] : output[f][i] = output[f][j] => i = j
    <2>1. output[f] \in Seq(Names) /\ Distinct(output[f])
      BY <1>0 DEF TablesOK
    <2> DEFINE s == output[f]
    <2>2. s \in Seq(Names) /\ i \in DOMAIN s
      BY <1>2, <2>1
    <2> HIDE DEF s
    <2>3. s[i] \in Names
      BY <2>2
    <2>4. PICK g \in Guards : ChainOf[g] = output[f][i]
      BY <2>3 DEF Names, s
    <2>5. i \in 1..Len(s)
      BY <2>2
    <2>6. Jumped(f, ChainOf[g])
      BY <2>4, <2>5 DEF Jumped, Contains, s
    <2>7. chain[f][output[f][i]] # NoChain
      BY <2>4, <2>6, JumpedExists DEF FirewallInv
    <2> QED
      BY <1>2, <2>1, <2>7 DEF Distinct
  <1> QED
    BY <1>1, <1>2 DEF TypeOK

LEMMA ConfinedFollows ==
  ASSUME FirewallInv
  PROVE  Confined
  <1>1. SUFFICES ASSUME NEW g \in Guards, Live(g), NEW p \in Packets, p \notin AllowedBy[built[g]],
                        NEW from \in Senders, OwnerMatch(ChainOf[g], from), Accepted(from, p)
                 PROVE  FALSE
    BY DEF Confined
  <1>2. ~Accepts(ChainOf[g], p) /\ Jumped(FamilyOf(p), ChainOf[g])
    BY <1>1, LiveAccepts
  <1>3. FamilyOf(p) \in Families
    BY DEF FamilyOf, Families
  <1> DEFINE s == output[FamilyOf(p)]
  <1>4. s \in Seq(Names)
    BY <1>3 DEF FirewallInv, TablesOK
  <1>5. PICK i \in 1..Len(s) : s[i] = ChainOf[g]
    BY <1>2 DEF Jumped, Contains
  <1>6. i \in DOMAIN s
    <2> HIDE DEF s
    <2> QED
      BY <1>4, <1>5
  <1> QED
    BY <1>1, <1>2, <1>5, <1>6 DEF Accepted

LEMMA OnlyPolicyRejectsFollows ==
  ASSUME FirewallInv
  PROVE  OnlyPolicyRejects
  <1>1. SUFFICES ASSUME NEW g \in Guards, NEW f \in Families, Jumped(f, ChainOf[g])
                 PROVE  IF Live(g) THEN Decides(g, f, built[g])
                        ELSE \/ \A p \in PacketsOf(f) : Accepts(ChainOf[g], p)
                             \/ \E rs \in RuleSetsOf[g] : Decides(g, f, rs)
    BY DEF OnlyPolicyRejects, Jumped
  <1>0. \A p \in PacketsOf(f) : p \in Packets /\ FamilyOf(p) = f
    BY DEF PacketsOf
  <1>2. CASE Live(g)
    <2>1. \A p \in PacketsOf(f) : Accepts(ChainOf[g], p) <=> p \in AllowedBy[built[g]]
      BY <1>0, <1>2, LiveAccepts
    <2> QED
      BY <1>2, <2>1 DEF Decides
  <1>3. CASE chain[f][ChainOf[g]] = <<>>
    <2>1. ASSUME NEW p \in PacketsOf(f) PROVE Accepts(ChainOf[g], p)
      <3>1. chain[FamilyOf(p)][ChainOf[g]] = <<>>
        BY <1>0, <1>3
      <3>2. Verdict(<<>>, p, "RETURN") = "RETURN"
        <4>1. DOMAIN <<>> = {}
          OBVIOUS
        <4>2. {i \in DOMAIN <<>> : Matches(<<>>[i], p)} = {}
          BY <4>1
        <4> QED
          BY <4>2 DEF Verdict
      <3> QED
        BY <3>1, <3>2 DEF Accepts
    <2>2. ~Live(g) \/ Live(g)
      OBVIOUS
    <2> QED
      BY <1>2, <2>1
  <1>4. ASSUME NEW rs \in RuleSetsOf[g], chain[f][ChainOf[g]] = Chain(rs, f)
        PROVE  Decides(g, f, rs)
    <2>1. SoundRuleSet(rs) /\ rs \in RuleSets
      BY GuardFacts
    <2>2. ASSUME NEW p \in PacketsOf(f) PROVE Accepts(ChainOf[g], p) <=> p \in AllowedBy[rs]
      <3>1. p \in Packets /\ chain[FamilyOf(p)][ChainOf[g]] = Chain(rs, FamilyOf(p))
        BY <1>0, <1>4
      <3>2. Accepts(ChainOf[g], p) <=> Allowed(rs, p)
        BY <2>1, <3>1, FullChain
      <3>3. p \in AllowedBy[rs] <=> Allowed(rs, p)
        BY <2>1, <3>1 DEF AllowedBy
      <3> QED
        BY <3>2, <3>3
    <2> QED
      BY <2>2 DEF Decides
  <1>5. \/ chain[f][ChainOf[g]] = <<>>
        \/ \E rs \in RuleSetsOf[g] : chain[f][ChainOf[g]] = Chain(rs, f)
    BY <1>1 DEF FirewallInv, Whole
  <1> QED
    BY <1>2, <1>3, <1>4, <1>5

LEMMA PfAgreesFollows ==
  ASSUME FirewallInv
  PROVE  PfAgrees
  <1>1. SUFFICES ASSUME NEW g \in Guards, Live(g), NEW p \in Packets, p.proto \in {"tcp", "udp"}
                 PROVE  /\ PfDoes[built[g]][p] = "pass" <=> Accepts(ChainOf[g], p)
                        /\ PfDoes[built[g]][p] = "reroute" => Accepts(ChainOf[g], [p EXCEPT !.out = Vpn])
    BY DEF PfAgrees
  <1> DEFINE rs == built[g]  q == [p EXCEPT !.out = Vpn]
  <1>2. SoundRuleSet(rs) /\ rs \in RuleSets
    <2>1. "v4" \in Families
      BY DEF Families
    <2> QED
      BY <1>1, <2>1, LiveChains
  <1>3. PfDoes[rs][p] = Verdict(PfAnchor(rs), p, "pass")
    BY <1>2 DEF PfDoes
  <1>4. q \in Packets
    BY DEF Packets, Interfaces
  <1>5. /\ Accepts(ChainOf[g], p) <=> Allowed(rs, p)
        /\ Accepts(ChainOf[g], q) <=> Allowed(rs, q)
    BY <1>1, <1>4, LiveAccepts
  <1>6. Filtered(p)
    BY <1>1 DEF Filtered
  <1>7. /\ Verdict(PfAnchor(rs), p, "pass") = "pass" <=> Allowed(rs, p)
        /\ Verdict(PfAnchor(rs), p, "pass") = "reroute" => Allowed(rs, q)
    BY <1>2, <1>6, PfDecides
  <1> QED
    BY <1>3, <1>5, <1>7

-------------------------------------------------------------------------------
(* What the invariant says of steps.                                        *)

\* A worker changes its phase by its own steps or in a death, and but for a
\* failed setup without touching the tables.
LEMMA PhaseChange ==
  ASSUME FirewallInv, [Next]_vars, NEW w \in Workers, pc'[w] # pc[w]
  PROVE  \/ Fail(w) /\ pc[w] = "building"
         \/ /\ UNCHANGED <<chain, output>>
            /\ \/ Proceed(w)
               \/ Install(w) \/ Build(w) \/ Uninstall(w) \/ LauncherDies(w) \/ AgentEnds(w)
               \/ HelperDies
               \/ w = "helper" /\ HelperStarts
  <1>0. ProcessesOK /\ pc \in [Workers -> GuardPhases \cup HelperPhases]
    BY DEF FirewallInv, ProcessesOK
  <1>1. \A at, commands : \A x \in Workers : Goto(x, at, commands) =>
          /\ x # w => pc'[w] = pc[w]
          /\ x = w /\ at = pc[w] => pc'[w] = pc[w]
    BY <1>0 DEF Goto
  <1>2. \A g \in Guards : g \in Workers
    BY GuardFacts
  <1>3. ASSUME NEW x \in Workers, Succeed(x) PROVE FALSE
    BY <1>3 DEF Succeed
  <1>4. ASSUME NEW x \in Workers, Fail(x) PROVE x = w /\ pc[w] = "building"
    <2>1. \/ pc[x] = "building" /\ Goto(x, "undoing", Cleanup(x))
          \/ pc[x] # "building" /\ Goto(x, pc[x], Tail(todo[x]))
      BY <1>4 DEF Fail
    <2> QED
      BY <1>1, <2>1
  <1>5. ASSUME NEW x \in Workers, Proceed(x) PROVE x = w /\ UNCHANGED <<chain, output>>
    <2>1. \E at, commands : Goto(x, at, commands)
      BY <1>5 DEF Proceed
    <2>2. UNCHANGED <<chain, output>>
      BY <1>5 DEF Proceed
    <2> QED
      BY <1>1, <2>1, <2>2
  <1>6. ASSUME NEW g \in Guards,
               Install(g) \/ Build(g) \/ Uninstall(g) \/ LauncherDies(g) \/ AgentEnds(g)
        PROVE  g = w /\ UNCHANGED <<chain, output>>
    <2>1. \E at, commands : Goto(g, at, commands)
      BY <1>6 DEF Install, Build, Uninstall, LauncherDies, AgentEnds
    <2>2. UNCHANGED <<chain, output>>
      BY <1>6 DEF Install, Build, Uninstall, LauncherDies, AgentEnds
    <2> QED
      BY <1>1, <1>2, <2>1, <2>2
  <1>7. CASE HelperDies
    BY <1>7 DEF HelperDies
  <1>8. CASE HelperStarts
    <2>1. UNCHANGED <<chain, output>> /\ Goto("helper", "reap4", ReapCommands("v4"))
      BY <1>8 DEF HelperStarts
    <2>2. "helper" \in Workers
      BY DEF Workers
    <2> QED
      BY <1>1, <1>8, <2>1, <2>2
  <1>9. ~UNCHANGED vars
    BY DEF vars
  <1> QED
    BY <1>3, <1>4, <1>5, <1>6, <1>7, <1>8, <1>9 DEF Next

\* A setup is undone for a reason the tables do not show, or not at all.
LEMMA InstallStep ==
  ASSUME FirewallInv, [Next]_vars, NEW g \in Guards, Reliable', v6, pc[g] = "building"
  PROVE  pc'[g] # "undoing"
  <1>1. SUFFICES ASSUME pc'[g] = "undoing" PROVE FALSE
    OBVIOUS
  <1>2. TablesOK /\ ProcessesOK /\ Progress(g) /\ g \in Workers /\ g # "helper"
    BY GuardFacts DEF FirewallInv
  <1>3. pc'[g] # pc[g]
    BY <1>1
  <1>4. Fail(g)
    <2>1. \A at, commands : Goto(g, at, commands) => at = "undoing"
      BY <1>1, <1>2 DEF Goto, ProcessesOK
    <2>2. ~Proceed(g)
      BY <2>1 DEF Proceed
    <2>3. ~Install(g) /\ ~Build(g) /\ ~Uninstall(g) /\ ~AgentEnds(g)
      BY DEF Install, Build, Uninstall, AgentEnds
    <2>4. AfterDeath(g) = "idle"
      BY DEF AfterDeath, Live
    <2>5. ~LauncherDies(g)
      BY <2>1, <2>4 DEF LauncherDies
    <2>6. ~HelperDies
      BY <1>1, <1>2, <2>4 DEF HelperDies
    <2> QED
      BY <1>2, <1>3, <2>2, <2>3, <2>5, <2>6, PhaseChange
  <1> DEFINE c == Head(todo[g])
  <1>5. /\ todo[g] # <<>>
        /\ \/ ~Possible(c) /\ UNCHANGED faults
           \/ Possible(c) /\ faults > 0 /\ faults' = faults - 1
    BY <1>4 DEF Fail
  <1>6. Reliable /\ ~Possible(c)
    BY <1>2, <1>5, FailureCounted
  <1>7. PICK k \in 0..8 : todo[g] = SubSeq(Setup(built[g]), k + 1, 8) /\ Filling(g, k)
    BY <1>2 DEF Progress
  <1>8. built[g] \in RuleSetsOf[g]
    BY <1>2 DEF ProcessesOK
  <1>9. k \in 0..7 /\ c = Setup(built[g])[k + 1]
    <2> DEFINE t == SubSeq(Setup(built[g]), k + 1, 8)
    <2>1. (t # <<>> <=> k < 8) /\ (k < 8 => Head(t) = Setup(built[g])[k + 1])
      BY <1>8, SetupLeft
    <2>2. todo[g] = t
      BY <1>7
    <2> HIDE DEF t
    <2> QED
      BY <1>5, <2>1, <2>2
  <1> QED
    BY <1>6, <1>7, <1>8, <1>9, SetupPossible

\* What a clean-up or a reaping helper has left when it is through.
LEMMA RemovalStep ==
  ASSUME FirewallInv, [Next]_vars, Reliable
  PROVE  /\ \A g \in Guards :
              pc[g] \in {"undoing", "removing"} /\ todo[g] = <<>> /\ pc'[g] = "idle"
                => NoTrace(ChainOf[g])'
         /\ pc["helper"] = "reap6" /\ pc'["helper"] = "up" => \A n \in Names : NoTrace(n)'
  <1>0. "helper" \in Workers /\ "helper" \notin Guards /\ HelperOK /\ "v4" \in Families /\ "v6" \in Families
    BY GuardAssumption DEF Workers, FirewallInv, Families
  <1>1. UNCHANGED <<chain, output>> => \A n : (\A f \in Families : ~Leftovers(f, n)) => NoTrace(n)'
    BY DEF Leftovers, Jumped, NoTrace
  <1>2. ASSUME NEW g \in Guards, pc[g] \in {"undoing", "removing"}, todo[g] = <<>>, pc'[g] = "idle"
        PROVE  NoTrace(ChainOf[g])'
    <2>1. Progress(g) /\ g \in Workers /\ pc'[g] # pc[g]
      BY <1>2, GuardFacts DEF FirewallInv
    <2>2. UNCHANGED <<chain, output>>
      BY <1>2, <2>1, PhaseChange
    <2>3. PICK k \in 0..6 : todo[g] = SubSeq(Cleanup(g), k + 1, 6) /\ Clearing(g, k)
      BY <1>2, <2>1 DEF Progress
    <2>4. k = 6
      <3>1. SubSeq(Cleanup(g), k + 1, 6) # <<>> <=> k < 6
        BY CleanupLeft
      <3> QED
        BY <1>2, <2>3, <3>1
    <2>5. Cleared("v4", ChainOf[g], 6) /\ Cleared("v6", ChainOf[g], 6 - 3)
      BY <2>3, <2>4 DEF Clearing
    <2>6. \A f : \A k1 \in Int : k1 >= 3 /\ Cleared(f, ChainOf[g], k1) => ~Leftovers(f, ChainOf[g])
      BY DEF Cleared, Leftovers
    <2>7. ~Leftovers("v4", ChainOf[g]) /\ ~Leftovers("v6", ChainOf[g])
      <3>1. 6 \in Int /\ 6 - 3 \in Int /\ 6 >= 3 /\ 6 - 3 >= 3
        OBVIOUS
      <3> QED
        BY <2>5, <2>6, <3>1
    <2>8. \A f \in Families : ~Leftovers(f, ChainOf[g])
      BY <2>7 DEF Families
    <2> QED
      BY <1>1, <2>2, <2>8
  <1>3. ASSUME pc["helper"] = "reap6", pc'["helper"] = "up", NEW n \in Names PROVE NoTrace(n)'
    <2>1. UNCHANGED <<chain, output>>
      BY <1>0, <1>3, PhaseChange
    <2>2. Proceed("helper")
      <3>1. ~Install("helper") /\ ~Build("helper") /\ ~Uninstall("helper") /\ ~AgentEnds("helper")
        BY <1>3 DEF Install, Build, Uninstall, AgentEnds
      <3>2. ~HelperDies
        BY <1>0, <1>3 DEF HelperDies
      <3>3. ~HelperStarts
        BY <1>3 DEF HelperStarts
      <3>4. ~LauncherDies("helper")
        <4>1. ~Live("helper") /\ AfterDeath("helper") = "idle"
          BY <1>3 DEF Live, AfterDeath
        <4>2. pc \in [Workers -> GuardPhases \cup HelperPhases]
          BY DEF FirewallInv, ProcessesOK
        <4> QED
          BY <1>0, <1>3, <4>1, <4>2 DEF LauncherDies, Goto
      <3>5. pc'["helper"] # pc["helper"] /\ pc["helper"] # "building"
        BY <1>3
      <3> QED
        BY <1>0, <3>1, <3>2, <3>3, <3>4, <3>5, PhaseChange
    <2>3. todo["helper"] = <<>>
      BY <2>2 DEF Proceed
    <2>4. Reaps("v6", <<>>) /\ \A m \in Names : ~Leftovers("v4", m)
      BY <1>0, <1>3, <2>3 DEF HelperOK
    <2>5. \A m \in Names : ~Leftovers("v6", m)
      BY <1>0, <2>4, NothingLeft
    <2>6. \A f \in Families : ~Leftovers(f, n)
      BY <2>4, <2>5 DEF Families
    <2> QED
      BY <1>1, <2>1, <2>6
  <1> QED
    BY <1>2, <1>3

-------------------------------------------------------------------------------
(* Theorems.                                                                *)

\* Tables and programs stay well-formed: a resting guard has no command left, and
\* OUTPUT never jumps twice to a chain or to one that was deleted, whatever
\* fails between -I, -D and -X.
THEOREM FirewallTyped ==
  ASSUME ~ReapAnyTime
  PROVE  Spec => []TypeOK
  BY FirewallInvariance, TypesFollow, PTL

\* An agent under a guard that install() reported as active gets out only what
\* the guard's policy allows, though other guards, uninstalls and the reaping of
\* a new helper change the same tables, and though the guard's process dies.
THEOREM Confinement ==
  ASSUME ~ReapAnyTime
  PROVE  Spec => []Confined
  BY FirewallInvariance, ConfinedFollows, PTL

\* Nobody's packet is rejected by a half-built or half-removed chain: what OUTPUT
\* jumps to is empty or the whole chain of one of its guard's rule sets.
THEOREM PolicyOnly ==
  ASSUME ~ReapAnyTime
  PROVE  Spec => []OnlyPolicyRejects
  BY FirewallInvariance, OnlyPolicyRejectsFollows, PTL

\* The PF anchor decides the TCP and UDP packets like the iptables chain in
\* place, for every policy; what it reroutes, the chain accepts on the VPN.
THEOREM PfAgreement ==
  ASSUME ~ReapAnyTime
  PROVE  Spec => []PfAgrees
  BY FirewallInvariance, PfAgreesFollows, PTL

\* As long as the kernel does what it is told, a setup never fails, whatever
\* processes killed halfway left in the tables: the clean-up before it suffices.
THEOREM InstallsHeal ==
  ASSUME ~ReapAnyTime
  PROVE  Spec => InstallHeals
  <1>1. FirewallInv /\ [Next]_vars =>
          [\A g \in Guards : Reliable' /\ v6 /\ pc[g] = "building" => pc'[g] # "undoing"]_vars
    BY InstallStep
  <1> QED
    BY FirewallInvariance, <1>1, PTL DEF Spec, InstallHeals

\* Unless a command failed, an uninstall or an undone install leaves neither a
\* chain nor a jump, and a helper that begins to serve has left none of anybody.
THEOREM RemovalsComplete ==
  ASSUME ~ReapAnyTime
  PROVE  Spec => RemovalIsComplete
  <1>1. FirewallInv /\ [Next]_vars =>
          [Reliable =>
             /\ \A g \in Guards :
                  pc[g] \in {"undoing", "removing"} /\ todo[g] = <<>> /\ pc'[g] = "idle"
                    => NoTrace(ChainOf[g])'
             /\ pc["helper"] = "reap6" /\ pc'["helper"] = "up" => \A n \in Names : NoTrace(n)']_vars
    BY RemovalStep
  <1> QED
    BY FirewallInvariance, <1>1, PTL DEF Spec, RemovalIsComplete

-------------------------------------------------------------------------------
(* The guards implement GuardChains.                                        *)

LEMMA Seen ==
  ASSUME NEW g \in Guards
  PROVE  /\ PhaseOf[g] = IF pc[g] \in {"cleaning", "building", "undoing"} THEN "installing"
                         ELSE IF pc[g] = "active" THEN "standing" ELSE pc[g]
         /\ MarkOf[g] = IF Live(g) /\ InPlace(g) THEN built[g]
                        ELSE IF pc[g] = "idle" /\ NoTrace(ChainOf[g]) THEN NoChain
                        ELSE Partial
  BY DEF PhaseOf, MarkOf

\* Whoever counts on a chain is seen with the rules it was made for.
LEMMA LiveMark ==
  ASSUME FirewallInv, NEW g \in Guards, Live(g)
  PROVE  MarkOf[g] = built[g] /\ built[g] \in RuleSetsOf[g]
  <1>1. ASSUME NEW f \in Families
        PROVE  chain[f][ChainOf[g]] = PolicyChains[built[g]][f] /\ Contains(output[f], ChainOf[g])
    <2>1. /\ Jumped(f, ChainOf[g]) /\ chain[f][ChainOf[g]] = Chain(built[g], f)
          /\ built[g] \in RuleSets
      BY LiveChains
    <2> QED
      BY <2>1 DEF PolicyChains, Jumped
  <1>2. InPlace(g)
    BY <1>1 DEF InPlace
  <1> QED
    BY <1>2, Seen DEF FirewallInv, ProcessesOK

SeenInv == \A g \in Guards : Live(g) => MarkOf[g] = built[g] /\ built[g] \in RuleSetsOf[g]

LEMMA SameMark ==
  ASSUME NEW h \in Guards, pc'[h] = pc[h], built'[h] = built[h],
         \A f \in Families : Untouched(f, ChainOf[h])
  PROVE  PhaseOf'[h] = PhaseOf[h] /\ MarkOf'[h] = MarkOf[h]
  <1>1. InPlace(h)' <=> InPlace(h)
    BY DEF InPlace, Untouched, Jumped, PolicyChains
  <1>2. NoTrace(ChainOf[h])' <=> NoTrace(ChainOf[h])
    BY DEF NoTrace, Untouched, Jumped
  <1>3. Live(h)' <=> Live(h)
    BY DEF Live
  <1> QED
    BY <1>1, <1>2, <1>3 DEF PhaseOf, MarkOf

\* A step of g, and of nobody else.
OnlyMoves(g) ==
  /\ \A h \in Guards : h # g =>
       pc'[h] = pc[h] /\ built'[h] = built[h] /\ \A f \in Families : Untouched(f, ChainOf[h])
  /\ HelperOf' = HelperOf

LEMMA Becoming ==
  ASSUME NEW g \in Guards, OnlyMoves(g), Reliable' <=> Reliable, NEW at, NEW m,
         PhaseOf'[g] = at, MarkOf'[g] = m
  PROVE  Chains!Becomes(g, at, m)
  <1>1. \A h \in Guards : h # g => PhaseOf'[h] = PhaseOf[h] /\ MarkOf'[h] = MarkOf[h]
    BY SameMark DEF OnlyMoves
  <1>2. /\ PhaseOf = [h \in Guards |-> PhaseOf[h]] /\ MarkOf = [h \in Guards |-> MarkOf[h]]
        /\ PhaseOf' = [h \in Guards |-> PhaseOf'[h]] /\ MarkOf' = [h \in Guards |-> MarkOf'[h]]
    BY DEF PhaseOf, MarkOf
  <1>3. PhaseOf' = [PhaseOf EXCEPT ![g] = at]
    BY <1>1, <1>2
  <1>4. MarkOf' = [MarkOf EXCEPT ![g] = m]
    BY <1>1, <1>2
  <1> QED
    BY <1>3, <1>4 DEF Chains!Becomes, OnlyMoves

LEMMA Resting ==
  ASSUME \A g \in Guards : PhaseOf'[g] = PhaseOf[g] /\ MarkOf'[g] = MarkOf[g]
  PROVE  UNCHANGED <<PhaseOf, MarkOf>>
  <1>1. /\ PhaseOf = [h \in Guards |-> PhaseOf[h]] /\ MarkOf = [h \in Guards |-> MarkOf[h]]
        /\ PhaseOf' = [h \in Guards |-> PhaseOf'[h]] /\ MarkOf' = [h \in Guards |-> MarkOf'[h]]
    BY DEF PhaseOf, MarkOf
  <1> QED
    BY <1>1

\* The command a guard runs next is about its own chain.
LEMMA NextCommand ==
  ASSUME FirewallInv, NEW g \in Guards, todo[g] # <<>>
  PROVE  /\ pc[g] \in {"cleaning", "undoing", "removing", "building"}
         /\ Head(todo[g]) \in Commands /\ Head(todo[g]).name = ChainOf[g]
         /\ Head(todo[g]).op = "I" => ~Jumped(Head(todo[g]).family, Head(todo[g]).name)
  <1>1. ProcessesOK /\ Progress(g) /\ g \in Workers
    BY GuardFacts DEF FirewallInv
  <1>2. pc[g] \in {"cleaning", "undoing", "removing"} \/ pc[g] = "building"
    BY <1>1 DEF Progress, ProcessesOK, GuardPhases
  <1>3. CASE pc[g] \in {"cleaning", "undoing", "removing"}
    <2>1. PICK k \in 0..6 : todo[g] = SubSeq(Cleanup(g), k + 1, 6)
      BY <1>1, <1>3 DEF Progress
    <2>2. IsRemoval(Head(todo[g])) /\ Head(todo[g]).name = ChainOf[g] /\ Head(todo[g]) \in Commands
      BY <2>1, CleanupLeft
    <2> QED
      BY <1>3, <2>2 DEF IsRemoval
  <1>4. CASE pc[g] = "building"
    <2>0. built[g] \in RuleSetsOf[g]
      BY <1>1 DEF ProcessesOK
    <2>1. PICK k \in 0..8 : todo[g] = SubSeq(Setup(built[g]), k + 1, 8) /\ Filling(g, k)
      BY <1>1, <1>4 DEF Progress
    <2>2. k \in 0..7 /\ Head(todo[g]) = Setup(built[g])[k + 1] /\ Head(todo[g]) \in Commands
      <3> DEFINE t == SubSeq(Setup(built[g]), k + 1, 8)
      <3>1. /\ (t # <<>> <=> k < 8)
            /\ k < 8 => Head(t) = Setup(built[g])[k + 1] /\ Head(t) \in Commands
        BY <2>0, SetupLeft
      <3>2. todo[g] = t
        BY <2>1
      <3> HIDE DEF t
      <3> QED
        BY <3>1, <3>2
    <2>3. Setup(built[g])[k + 1].name = ChainOf[g]
      BY <2>0, <2>2, FillingCommands
    <2>4. Setup(built[g])[k + 1].op = "I" =>
            ~Jumped(Setup(built[g])[k + 1].family, Setup(built[g])[k + 1].name)
      BY <2>0, <2>1, <2>2, MayJump
    <2> QED
      BY <1>4, <2>2, <2>3, <2>4
  <1> QED
    BY <1>2, <1>3, <1>4

\* Of a step that changes no table.
LEMMA TablesStill ==
  ASSUME UNCHANGED <<chain, output>>
  PROVE  \A f, n : Untouched(f, n) /\ (NoTrace(n)' <=> NoTrace(n))
  BY DEF Untouched, Jumped, NoTrace

LEMMA GotoMoves ==
  ASSUME FirewallInv, NEW g \in Guards, NEW at, NEW commands, Goto(g, at, commands),
         UNCHANGED <<chain, output>>, \A h \in Guards : h # g => built'[h] = built[h]
  PROVE  OnlyMoves(g) /\ pc'[g] = at
  <1>1. /\ \A h \in Guards : h # g => pc'[h] = pc[h]
        /\ pc'["helper"] = pc["helper"] /\ pc'[g] = at
    BY GuardFacts DEF Goto, FirewallInv, ProcessesOK, Workers
  <1> QED
    BY <1>1, TablesStill DEF OnlyMoves, HelperOf, Reaping

\* A command of a guard, whether it works or not, is nothing to others.
LEMMA GuardCommandRests ==
  ASSUME FirewallInv, NEW g \in Guards, Succeed(g) \/ Fail(g)
  PROVE  UNCHANGED <<PhaseOf, MarkOf, HelperOf>>
  <1> DEFINE c == Head(todo[g])
  <1>1. TablesOK /\ ProcessesOK /\ g \in Workers /\ g # "helper" /\ todo[g] # <<>>
    BY GuardFacts DEF FirewallInv, Succeed, Fail
  <1>2. /\ pc[g] \in {"cleaning", "undoing", "removing", "building"}
        /\ c \in Commands /\ c.name = ChainOf[g] /\ (c.op = "I" => ~Jumped(c.family, c.name))
    BY <1>1, NextCommand
  <1>3. \A f \in Families, m \in Names : m # ChainOf[g] => Untouched(f, m)
    <2>1. CASE Succeed(g)
      <3>1. Possible(c) /\ Effect(c) /\ UNCHANGED <<v6, faults>>
        BY <2>1 DEF Succeed
      <3> HIDE DEF c
      <3>2. Done(c)
        BY <1>1, <1>2, <3>1, CommandDone
      <3> QED
        BY <1>2, <3>2 DEF Done
    <2>2. CASE Fail(g)
      <3>1. /\ PartialEffect(c) /\ UNCHANGED v6
            /\ \/ ~Possible(c) /\ UNCHANGED faults
               \/ Possible(c) /\ faults > 0 /\ faults' = faults - 1
        BY <2>2 DEF Fail
      <3> HIDE DEF c
      <3>2. faults' \in 0..MaxFaults
        BY <1>1, <3>1, FailureCounted
      <3>3. Failed(c)
        BY <1>1, <1>2, <3>1, <3>2, CommandFailed
      <3> QED
        BY <1>2, <3>3 DEF Failed
    <2> QED
      BY <2>1, <2>2
  <1>4. /\ \A w \in Workers : w # g => pc'[w] = pc[w]
        /\ pc'[g] = pc[g] \/ (pc[g] = "building" /\ pc'[g] = "undoing")
        /\ UNCHANGED built
    BY <1>1 DEF Succeed, Fail, Goto, ProcessesOK
  <1>5. ASSUME NEW h \in Guards PROVE PhaseOf'[h] = PhaseOf[h] /\ MarkOf'[h] = MarkOf[h]
    <2>1. CASE h = g
      <3>1. ~Live(g) /\ ~Live(g)' /\ pc[g] # "idle" /\ pc'[g] # "idle"
        BY <1>2, <1>4 DEF Live
      <3> QED
        BY <1>2, <1>4, <2>1, <3>1 DEF PhaseOf, MarkOf
    <2>2. CASE h # g
      <3>1. /\ h \in Workers /\ ChainOf[h] \in Names /\ ChainOf[h] # ChainOf[g]
        BY <2>2, GuardFacts
      <3>2. pc'[h] = pc[h] /\ built'[h] = built[h] /\ \A f \in Families : Untouched(f, ChainOf[h])
        BY <1>3, <1>4, <2>2, <3>1
      <3> QED
        BY <3>2, SameMark
    <2> QED
      BY <2>1, <2>2
  <1>6. HelperOf' = HelperOf
    BY <1>1, <1>4 DEF HelperOf, Reaping, Workers
  <1> QED
    BY <1>5, <1>6, Resting

\* A command that fails is trouble, or was bound to fail.
LEMMA FailureTells ==
  ASSUME TablesOK, NEW w, Succeed(w) \/ Fail(w)
  PROVE  ~Reliable' \/ (Reliable' <=> Reliable)
  <1>1. faults \in 0..MaxFaults /\ MaxFaults \in Nat
    BY GuardAssumption DEF TablesOK
  <1>2. faults' = faults \/ (faults > 0 /\ faults' = faults - 1)
    BY DEF Succeed, Fail
  <1> QED
    BY <1>1, <1>2 DEF Reliable

LEMMA CommandSeen ==
  ASSUME TablesOK, NEW w, Succeed(w) \/ Fail(w), UNCHANGED <<PhaseOf, MarkOf, HelperOf>>
  PROVE  Chains!CommandFails \/ UNCHANGED Chains!vars
  BY FailureTells DEF Chains!CommandFails, Chains!vars

\* The steps of one guard that are seen.
LEMMA GuardStepSeen ==
  ASSUME FirewallInv, SeenInv', ~ReapAnyTime, [Next]_vars, NEW g \in Guards,
         Install(g) \/ Build(g) \/ Uninstall(g) \/ AgentEnds(g) \/ Proceed(g)
  PROVE  \/ Chains!Begin(g) \/ Chains!Installed(g) \/ Chains!BeginRemoval(g)
         \/ Chains!CleanedUp(g) \/ Chains!AgentEnds(g)
         \/ UNCHANGED Chains!vars
  <1>0. ProcessesOK /\ g \in Workers /\ g # "helper"
    BY GuardFacts DEF FirewallInv
  <1>1. UNCHANGED <<chain, output, faults>> /\ (Reliable' <=> Reliable)
    BY DEF Install, Build, Uninstall, AgentEnds, Proceed, Reliable
  <1>2. \A h \in Guards : h # g => built'[h] = built[h]
    BY <1>0 DEF Install, Build, Uninstall, AgentEnds, Proceed, ProcessesOK
  <1>3. \A at, commands : Goto(g, at, commands) => OnlyMoves(g) /\ pc'[g] = at
    BY <1>1, <1>2, GotoMoves
  <1>4. \A at, m : OnlyMoves(g) /\ PhaseOf'[g] = at /\ MarkOf'[g] = m => Chains!Becomes(g, at, m)
    BY <1>1, Becoming
  <1>5. NoTrace(ChainOf[g])' <=> NoTrace(ChainOf[g])
    BY <1>1, TablesStill
  <1>6. CASE Install(g)
    <2>1. OnlyMoves(g) /\ pc[g] = "idle" /\ pc'[g] = "cleaning"
      BY <1>3, <1>6 DEF Install
    <2>2. PhaseOf[g] = "idle" /\ PhaseOf'[g] = "installing" /\ MarkOf'[g] = Partial
      BY <2>1 DEF PhaseOf, MarkOf, Live
    <2>3. IF IsHelpers(g) THEN HelperOf = "up" ELSE HelperOf # "reaping"
      BY <1>0, <1>6 DEF Install, HelperOf, Reaping, ProcessesOK, HelperPhases
    <2> QED
      BY <1>4, <2>1, <2>2, <2>3 DEF Chains!Begin
  <1>7. CASE Build(g)
    <2>1. OnlyMoves(g) /\ pc[g] = "cleaning" /\ pc'[g] = "building"
      BY <1>3, <1>7 DEF Build
    <2>2. PhaseOf'[g] = PhaseOf[g] /\ MarkOf'[g] = MarkOf[g]
      BY <2>1 DEF PhaseOf, MarkOf, Live
    <2>3. \A h \in Guards : PhaseOf'[h] = PhaseOf[h] /\ MarkOf'[h] = MarkOf[h]
      BY <2>1, <2>2, SameMark DEF OnlyMoves
    <2> QED
      BY <1>1, <2>1, <2>3, Resting DEF Chains!vars, OnlyMoves
  <1>8. CASE Uninstall(g)
    <2>1. OnlyMoves(g) /\ pc[g] = "active" /\ pc'[g] = "removing"
      BY <1>3, <1>8 DEF Uninstall
    <2>2. PhaseOf[g] = "standing" /\ PhaseOf'[g] = "removing" /\ MarkOf'[g] = Partial
      BY <2>1 DEF PhaseOf, MarkOf, Live
    <2> QED
      BY <1>4, <2>1, <2>2 DEF Chains!BeginRemoval
  <1>9. CASE AgentEnds(g)
    <2>1. OnlyMoves(g) /\ pc[g] = "orphaned" /\ pc'[g] = "idle"
      BY <1>3, <1>9 DEF AgentEnds
    <2>2. ~NoTrace(ChainOf[g])
      <3>1. Live(g) /\ "v4" \in Families
        BY <2>1 DEF Live, Families
      <3>2. Jumped("v4", ChainOf[g])
        BY <3>1, LiveChains
      <3> QED
        BY <3>1, <3>2 DEF NoTrace, Jumped
    <2>3. PhaseOf[g] = "orphaned" /\ PhaseOf'[g] = "idle" /\ MarkOf'[g] = Partial
      BY <1>5, <2>1, <2>2 DEF PhaseOf, MarkOf, Live
    <2> QED
      BY <1>4, <2>1, <2>3 DEF Chains!AgentEnds
  <1>10. CASE Proceed(g)
    <2>1. todo[g] = <<>>
      BY <1>10 DEF Proceed
    <2>2. \/ pc[g] = "building" /\ Goto(g, "active", <<>>)
          \/ pc[g] \in {"undoing", "removing"} /\ Goto(g, "idle", <<>>)
      BY <1>0, <1>10 DEF Proceed, ProcessesOK, GuardPhases
    <2>3. CASE pc[g] = "building" /\ Goto(g, "active", <<>>)
      <3>1. OnlyMoves(g) /\ pc'[g] = "active"
        BY <1>3, <2>3
      <3>2. MarkOf'[g] = built'[g] /\ built'[g] \in RuleSetsOf[g]
        <4>1. Live(g)'
          BY <3>1 DEF Live
        <4> QED
          BY <4>1 DEF SeenInv
      <3>3. PhaseOf[g] = "installing" /\ PhaseOf'[g] = "standing"
        BY <2>3, <3>1 DEF PhaseOf
      <3> QED
        BY <1>4, <3>1, <3>2, <3>3 DEF Chains!Installed
    <2>4. CASE pc[g] \in {"undoing", "removing"} /\ Goto(g, "idle", <<>>)
      <3>1. OnlyMoves(g) /\ pc'[g] = "idle"
        BY <1>3, <2>4
      <3>2. MarkOf'[g] = IF NoTrace(ChainOf[g])' THEN NoChain ELSE Partial
        BY <3>1 DEF MarkOf, Live
      <3>3. Reliable => NoTrace(ChainOf[g])'
        BY <2>1, <2>4, <3>1, RemovalStep
      <3>4. MarkOf'[g] \in Chains!Remains
        BY <3>2, <3>3 DEF Chains!Remains
      <3>5. PhaseOf[g] \in {"installing", "removing"} /\ PhaseOf'[g] = "idle"
        BY <2>4, <3>1 DEF PhaseOf
      <3>6. Chains!Becomes(g, "idle", MarkOf'[g])
        BY <1>4, <3>1, <3>5
      <3> QED
        BY <3>4, <3>5, <3>6 DEF Chains!CleanedUp
    <2> QED
      BY <2>2, <2>3, <2>4
  <1> QED
    BY <1>6, <1>7, <1>8, <1>9, <1>10

\* Processes that die leave the rules of agents, and of the rest what there is.
LEMMA AbandonSeen ==
  ASSUME FirewallInv, SeenInv, SeenInv', NEW dead \in SUBSET Guards,
         UNCHANGED <<chain, output>>, UNCHANGED built, UNCHANGED faults,
         \A h \in Guards : pc'[h] = IF h \in dead THEN AfterDeath(h) ELSE pc[h]
  PROVE  Chains!Abandon(dead)
  <1> DEFINE working == {g \in dead : PhaseOf[g] \in {"installing", "removing"}}
             clear == {g \in working : NoTrace(ChainOf[g])}
  <1>1. \A n : NoTrace(n)' <=> NoTrace(n)
    BY TablesStill
  <1>2. ASSUME NEW g \in Guards
        PROVE  /\ PhaseOf'[g] = IF g \notin dead THEN PhaseOf[g]
                                ELSE IF PhaseOf[g] \in {"standing", "orphaned"} THEN "orphaned"
                                ELSE "idle"
               /\ MarkOf'[g] = IF g \in clear THEN NoChain ELSE MarkOf[g]
    <2>0. pc[g] \in GuardPhases
      BY DEF FirewallInv, ProcessesOK
    <2>1. CASE g \notin dead
      <3>1. pc'[g] = pc[g] /\ built'[g] = built[g] /\ \A f \in Families : Untouched(f, ChainOf[g])
        BY <2>1, TablesStill
      <3> QED
        BY <2>1, <3>1, SameMark
    <2>2. CASE g \in dead /\ Live(g)
      <3>1. pc[g] \in {"active", "orphaned"} /\ pc'[g] = "orphaned" /\ Live(g)'
        BY <2>2 DEF Live, AfterDeath
      <3>2. PhaseOf[g] \in {"standing", "orphaned"} /\ PhaseOf'[g] = "orphaned"
        BY <3>1 DEF PhaseOf
      <3>3. MarkOf[g] = built[g] /\ MarkOf'[g] = built[g]
        BY <2>2, <3>1 DEF SeenInv
      <3> QED
        BY <2>2, <3>2, <3>3
    <2>3. CASE g \in dead /\ ~Live(g)
      <3>1. pc[g] \in {"idle", "cleaning", "building", "undoing", "removing"} /\ pc'[g] = "idle"
        BY <2>0, <2>3 DEF Live, AfterDeath, GuardPhases
      <3>2. PhaseOf[g] \in {"idle", "installing", "removing"} /\ PhaseOf'[g] = "idle"
        BY <3>1 DEF PhaseOf
      <3>3. MarkOf'[g] = IF NoTrace(ChainOf[g]) THEN NoChain ELSE Partial
        BY <1>1, <3>1 DEF MarkOf, Live
      <3>4. PhaseOf[g] = "idle" <=> pc[g] = "idle"
        BY <3>1 DEF PhaseOf
      <3>5. MarkOf[g] = IF pc[g] = "idle" /\ NoTrace(ChainOf[g]) THEN NoChain ELSE Partial
        BY <2>3 DEF MarkOf
      <3>6. g \in clear <=> pc[g] # "idle" /\ NoTrace(ChainOf[g])
        BY <2>3, <3>2, <3>4
      <3> QED
        BY <2>3, <3>2, <3>3, <3>5, <3>6
    <2> QED
      BY <2>1, <2>2, <2>3
  <1>3. /\ PhaseOf' = [g \in Guards |-> PhaseOf'[g]] /\ MarkOf' = [g \in Guards |-> MarkOf'[g]]
    BY DEF PhaseOf, MarkOf
  <1>4. clear \in SUBSET working /\ Reliable' = Reliable
    BY DEF Reliable
  <1>5. PhaseOf' = [g \in Guards |-> IF g \notin dead THEN PhaseOf[g]
                                     ELSE IF PhaseOf[g] \in {"standing", "orphaned"} THEN "orphaned"
                                     ELSE "idle"]
    BY <1>2, <1>3
  <1>6. MarkOf' = [g \in Guards |-> IF g \in clear THEN NoChain ELSE MarkOf[g]]
    <2> HIDE DEF clear
    <2> QED
      BY <1>2, <1>3
  <1> QED
    BY <1>4, <1>5, <1>6 DEF Chains!Abandon

LEMMA LauncherDeathSeen ==
  ASSUME FirewallInv, SeenInv, SeenInv', NEW g \in Guards, LauncherDies(g)
  PROVE  Chains!LauncherDies(g)
  <1>1. /\ ~IsHelpers(g) /\ pc[g] \notin {"idle", "orphaned"} /\ Goto(g, AfterDeath(g), <<>>)
        /\ UNCHANGED <<chain, output>> /\ UNCHANGED built /\ UNCHANGED faults
    BY DEF LauncherDies
  <1>2. OnlyMoves(g) /\ pc'[g] = AfterDeath(g)
    BY <1>1, GotoMoves
  <1>3. \A h \in Guards : pc'[h] = IF h \in {g} THEN AfterDeath(h) ELSE pc[h]
    BY <1>2 DEF OnlyMoves
  <1>4. Chains!Abandon({g})
    BY <1>1, <1>3, AbandonSeen
  <1>5. PhaseOf[g] \notin {"idle", "orphaned"}
    BY <1>1 DEF PhaseOf
  <1> QED
    BY <1>1, <1>2, <1>4, <1>5 DEF Chains!LauncherDies, OnlyMoves

LEMMA HelperDeathSeen ==
  ASSUME FirewallInv, SeenInv, SeenInv', HelperDies
  PROVE  Chains!HelperDies
  <1> DEFINE dead == {g \in Guards : IsHelpers(g)}
  <1>1. /\ pc["helper"] # "down" /\ pc'["helper"] = "down"
        /\ UNCHANGED <<chain, output>> /\ UNCHANGED built /\ UNCHANGED faults
    BY DEF HelperDies, Workers
  <1>2. \A h \in Guards : pc'[h] = IF h \in dead THEN AfterDeath(h) ELSE pc[h]
    BY GuardFacts DEF HelperDies
  <1>3. Chains!Abandon(dead)
    BY <1>1, <1>2, AbandonSeen
  <1>4. HelperOf # "down" /\ HelperOf' = "down"
    BY <1>1 DEF HelperOf, Reaping
  <1> QED
    BY <1>3, <1>4 DEF Chains!HelperDies

\* A command of the reaping helper takes something of one chain, if anything.
LEMMA ReapSeen ==
  ASSUME FirewallInv, Succeed("helper")
  PROVE  (\E g \in Guards : Chains!Reap(g)) \/ UNCHANGED Chains!vars
  <1> DEFINE c == Head(todo["helper"])
  <1>1. /\ todo["helper"] # <<>> /\ Possible(c) /\ Effect(c) /\ UNCHANGED <<v6, faults>>
        /\ UNCHANGED built /\ UNCHANGED pc
    BY DEF Succeed
  <1>2. TablesOK /\ HelperOK /\ Reaping /\ c \in Commands /\ IsRemoval(c)
    BY <1>1, ReapingHelper DEF FirewallInv
  <1>3. \A h \in Guards : pc[h] = "idle"
    BY <1>2 DEF HelperOK
  <1> HIDE DEF c
  <1>4. Done(c)
    BY <1>1, <1>2, CommandDone DEF IsRemoval
  <1>5. PICK g \in Guards : c.name = ChainOf[g]
    BY <1>2, CommandFields DEF Names
  <1>6. ~NoTrace(ChainOf[g])
    BY <1>1, <1>2, <1>5, CommandFields DEF Possible, IsRemoval, NoTrace
  <1>7. MarkOf[g] = Partial /\ MarkOf'[g] \in {NoChain, Partial}
    BY <1>1, <1>3, <1>6 DEF MarkOf, Live
  <1>8. \A h \in Guards : h # g => \A f \in Families : Untouched(f, ChainOf[h])
    BY <1>4, <1>5, GuardFacts DEF Done
  <1>9. OnlyMoves(g) /\ PhaseOf'[g] = PhaseOf[g] /\ HelperOf = "reaping" /\ (Reliable' <=> Reliable)
    BY <1>1, <1>2, <1>8 DEF OnlyMoves, PhaseOf, HelperOf, Reaping, Reliable
  <1>10. CASE MarkOf'[g] = NoChain
    <2>1. Chains!Becomes(g, PhaseOf[g], NoChain)
      BY <1>9, <1>10, Becoming
    <2>2. PhaseOf' = PhaseOf
      BY <1>1 DEF PhaseOf
    <2> QED
      BY <1>9, <2>1, <2>2 DEF Chains!Becomes, Chains!Reap
  <1>11. CASE MarkOf'[g] = Partial
    <2>1. \A h \in Guards : PhaseOf'[h] = PhaseOf[h] /\ MarkOf'[h] = MarkOf[h]
      BY <1>7, <1>9, <1>11, SameMark DEF OnlyMoves
    <2> QED
      BY <1>9, <2>1, Resting DEF Chains!vars, OnlyMoves
  <1> QED
    BY <1>7, <1>10, <1>11

\* One that fails takes nothing.
LEMMA ReapFailureSeen ==
  ASSUME FirewallInv, Fail("helper")
  PROVE  Chains!CommandFails \/ UNCHANGED Chains!vars
  <1> DEFINE c == Head(todo["helper"])
  <1>1. /\ todo["helper"] # <<>> /\ PartialEffect(c) /\ UNCHANGED v6 /\ UNCHANGED built
        /\ \/ ~Possible(c) /\ UNCHANGED faults
           \/ Possible(c) /\ faults > 0 /\ faults' = faults - 1
    BY DEF Fail
  <1>2. TablesOK /\ ProcessesOK /\ Reaping /\ c \in Commands /\ IsRemoval(c)
    BY <1>1, ReapingHelper DEF FirewallInv
  <1>3. UNCHANGED pc
    BY <1>2 DEF Fail, Reaping, Goto, ProcessesOK, Workers
  <1> HIDE DEF c
  <1>4. UNCHANGED <<chain, output>>
    BY <1>1, <1>2 DEF PartialEffect, IsRemoval
  <1>5. \A h \in Guards : PhaseOf'[h] = PhaseOf[h] /\ MarkOf'[h] = MarkOf[h]
    BY <1>1, <1>3, <1>4, TablesStill, SameMark
  <1>6. UNCHANGED <<PhaseOf, MarkOf, HelperOf>>
    BY <1>3, <1>5, Resting DEF HelperOf, Reaping
  <1> QED
    BY <1>2, <1>6, CommandSeen

\* The helper goes from IPv4 to IPv6, and then serves.
LEMMA HelperProceedsSeen ==
  ASSUME FirewallInv, [Next]_vars, Proceed("helper")
  PROVE  Chains!Serve \/ UNCHANGED Chains!vars
  <1>0. ProcessesOK /\ HelperOK /\ "helper" \in Workers
    BY DEF FirewallInv, Workers
  <1>1. UNCHANGED <<chain, output>> /\ UNCHANGED built /\ UNCHANGED faults
    BY DEF Proceed
  <1>2. \/ pc["helper"] = "reap4" /\ \E t : Goto("helper", "reap6", t)
        \/ pc["helper"] = "reap6" /\ Goto("helper", "up", <<>>)
    BY <1>0 DEF Proceed, ProcessesOK, HelperPhases
  <1>3. (\A h \in Guards : pc[h] = "idle" /\ pc'[h] = pc[h]) /\ HelperOf = "reaping"
    BY <1>0, <1>2, GuardFacts DEF HelperOK, Reaping, HelperOf, Goto, ProcessesOK
  <1>4. \A h \in Guards : PhaseOf'[h] = PhaseOf[h] /\ MarkOf'[h] = MarkOf[h]
    BY <1>1, <1>3, TablesStill, SameMark
  <1>5. UNCHANGED <<PhaseOf, MarkOf>> /\ Reliable' = Reliable
    BY <1>1, <1>4, Resting DEF Reliable
  <1>6. CASE pc["helper"] = "reap4" /\ \E t : Goto("helper", "reap6", t)
    <2>1. HelperOf' = HelperOf
      BY <1>0, <1>6 DEF Goto, ProcessesOK, HelperOf, Reaping
    <2> QED
      BY <1>5, <2>1 DEF Chains!vars
  <1>7. CASE pc["helper"] = "reap6" /\ Goto("helper", "up", <<>>)
    <2>1. pc'["helper"] = "up" /\ HelperOf' = "up"
      BY <1>0, <1>7 DEF Goto, ProcessesOK, HelperOf, Reaping
    <2>2. Reliable => \A n \in Names : NoTrace(n)'
      BY <1>7, <2>1, RemovalStep
    <2>3. Reliable => \A g \in Guards : MarkOf[g] = NoChain
      BY <1>1, <1>3, <2>2, TablesStill, GuardFacts DEF MarkOf, Live
    <2> QED
      BY <1>3, <1>5, <2>1, <2>3 DEF Chains!Serve
  <1> QED
    BY <1>2, <1>6, <1>7

LEMMA HelperStartsSeen ==
  ASSUME FirewallInv, ~ReapAnyTime, HelperStarts
  PROVE  Chains!HelperStarts
  <1>0. ProcessesOK /\ "helper" \in Workers
    BY DEF FirewallInv, Workers
  <1>1. /\ pc["helper"] = "down" /\ (\A g \in Guards : pc[g] = "idle")
        /\ Goto("helper", "reap4", ReapCommands("v4"))
        /\ UNCHANGED <<chain, output>> /\ UNCHANGED built /\ UNCHANGED faults
    BY DEF HelperStarts
  <1>2. pc'["helper"] = "reap4" /\ \A g \in Guards : pc'[g] = pc[g]
    BY <1>0, <1>1, GuardFacts DEF Goto, ProcessesOK
  <1>3. \A h \in Guards : PhaseOf'[h] = PhaseOf[h] /\ MarkOf'[h] = MarkOf[h]
    BY <1>1, <1>2, TablesStill, SameMark
  <1>4. UNCHANGED <<PhaseOf, MarkOf>> /\ Reliable' = Reliable
    BY <1>1, <1>3, Resting DEF Reliable
  <1>5. HelperOf = "down" /\ HelperOf' = "reaping" /\ \A g \in Guards : PhaseOf[g] = "idle"
    BY <1>1, <1>2 DEF HelperOf, Reaping, PhaseOf
  <1> QED
    BY <1>4, <1>5 DEF Chains!HelperStarts

LEMMA ChainsInit ==
  ASSUME Init
  PROVE  Chains!Init
  <1>1. \A g \in Guards : g \in Workers /\ g # "helper" /\ ChainOf[g] \in Names
    BY GuardFacts
  <1>2. "helper" \in Workers
    BY DEF Workers
  <1>3. \A g \in Guards : pc[g] = "idle"
    BY <1>1 DEF Init
  <1>4. \A g \in Guards : NoTrace(ChainOf[g])
    <2>1. \A f \in Families : output[f] = <<>> /\ \A n \in Names : chain[f][n] = NoChain
      BY DEF Init
    <2>2. \A n : ~Contains(<<>>, n)
      BY DEF Contains
    <2> QED
      BY <1>1, <2>1, <2>2 DEF NoTrace
  <1>5. PhaseOf = [g \in Guards |-> "idle"]
    BY <1>3 DEF PhaseOf
  <1>6. MarkOf = [g \in Guards |-> NoChain]
    BY <1>3, <1>4 DEF MarkOf, Live
  <1>7. HelperOf = "down"
    BY <1>2 DEF Init, HelperOf, Reaping
  <1>8. Reliable
    BY DEF Init, Reliable
  <1> QED
    BY <1>5, <1>6, <1>7, <1>8 DEF Chains!Init

LEMMA ChainsNext ==
  ASSUME FirewallInv, SeenInv, SeenInv', ~ReapAnyTime, [Next]_vars
  PROVE  [Chains!Next]_Chains!vars
  <1>1. ASSUME NEW g \in Guards, Succeed(g) \/ Fail(g) PROVE Chains!CommandFails \/ UNCHANGED Chains!vars
    BY <1>1, GuardCommandRests, CommandSeen DEF FirewallInv
  <1>2. ASSUME Succeed("helper") \/ Fail("helper") \/ Proceed("helper")
        PROVE  [Chains!Next]_Chains!vars
    BY <1>2, ReapSeen, ReapFailureSeen, HelperProceedsSeen DEF Chains!Next
  <1>3. ASSUME NEW g \in Guards,
               Install(g) \/ Build(g) \/ Uninstall(g) \/ AgentEnds(g) \/ Proceed(g)
        PROVE  [Chains!Next]_Chains!vars
    BY <1>3, GuardStepSeen DEF Chains!Next
  <1>4. ASSUME NEW g \in Guards, LauncherDies(g) PROVE [Chains!Next]_Chains!vars
    BY <1>4, LauncherDeathSeen DEF Chains!Next
  <1>5. CASE HelperDies \/ HelperStarts
    BY <1>5, HelperDeathSeen, HelperStartsSeen DEF Chains!Next
  <1>6. CASE UNCHANGED vars
    <2>1. UNCHANGED <<chain, output>> /\ UNCHANGED built /\ UNCHANGED faults /\ UNCHANGED pc
      BY <1>6 DEF vars
    <2>2. \A h \in Guards : PhaseOf'[h] = PhaseOf[h] /\ MarkOf'[h] = MarkOf[h]
      BY <2>1, TablesStill, SameMark
    <2>3. UNCHANGED <<PhaseOf, MarkOf, HelperOf>> /\ Reliable' = Reliable
      BY <2>1, <2>2, Resting DEF HelperOf, Reaping, Reliable
    <2> QED
      BY <2>3 DEF Chains!vars
  <1>7. \A w \in Workers : w \in Guards \/ w = "helper"
    BY DEF Workers
  <1>8. Chains!CommandFails => Chains!Next
    BY DEF Chains!Next
  <1>9. ASSUME NEW w \in Workers, Succeed(w) \/ Fail(w) \/ Proceed(w)
        PROVE  [Chains!Next]_Chains!vars
    BY <1>1, <1>2, <1>3, <1>7, <1>8, <1>9
  <1> QED
    BY <1>3, <1>4, <1>5, <1>6, <1>9 DEF Next

\* The commands implement the chains the rest of the program counts on.
THEOREM ChainRefinement ==
  ASSUME ~ReapAnyTime
  PROVE  Spec => ChainsSpec
  <1>1. Spec => []FirewallInv
    BY FirewallInvariance
  <1>2. FirewallInv => SeenInv
    BY LiveMark DEF SeenInv
  <1>3. Init => Chains!Init
    BY ChainsInit
  <1>4. FirewallInv /\ SeenInv /\ SeenInv' /\ [Next]_vars => [Chains!Next]_Chains!vars
    BY ChainsNext
  <1> QED
    BY <1>1, <1>2, <1>3, <1>4, PTL DEF Spec, ChainsSpec, Chains!Spec

-------------------------------------------------------------------------------
(* What GuardChains promises.                                               *)

ChainsInv ==
  /\ PhaseOf \in [Guards -> {"idle", "installing", "standing", "removing", "orphaned"}]
  /\ MarkOf \in [Guards -> RuleSets \cup {NoChain, Partial}]
  /\ \A g \in Guards : PhaseOf[g] \in {"standing", "orphaned"} => MarkOf[g] \in RuleSetsOf[g]
  /\ \A g \in Guards : HelperOf # "down" /\ IsHelpers(g) => PhaseOf[g] # "orphaned"
  /\ HelperOf = "reaping" => \A g \in Guards : PhaseOf[g] = "idle"
  /\ Reliable /\ HelperOf = "up" =>
       \A g \in Guards : IsHelpers(g) /\ PhaseOf[g] = "idle" => MarkOf[g] = NoChain

LEMMA ChainsInvInit ==
  ASSUME Chains!Init
  PROVE  ChainsInv
  BY DEF Chains!Init, ChainsInv

LEMMA AbandonKeeps ==
  ASSUME ChainsInv, NEW dead \in SUBSET Guards, Chains!Abandon(dead),
         HelperOf' = "down" \/ (HelperOf' = HelperOf /\ \A g \in dead : ~IsHelpers(g)),
         HelperOf = "reaping" => \A g \in dead : PhaseOf[g] = "idle"
  PROVE  ChainsInv'
  <1>1. PICK clear \in SUBSET {g \in dead : PhaseOf[g] \in {"installing", "removing"}} :
          MarkOf' = [g \in Guards |-> IF g \in clear THEN NoChain ELSE MarkOf[g]]
    BY DEF Chains!Abandon
  <1>2. ASSUME NEW g \in Guards
        PROVE  /\ PhaseOf'[g] = IF g \notin dead THEN PhaseOf[g]
                                ELSE IF PhaseOf[g] \in {"standing", "orphaned"} THEN "orphaned"
                                ELSE "idle"
               /\ MarkOf'[g] = IF g \in clear THEN NoChain ELSE MarkOf[g]
    BY <1>1 DEF Chains!Abandon
  <1>3. Reliable' <=> Reliable
    BY DEF Chains!Abandon
  <1>4. /\ PhaseOf' \in [Guards -> {"idle", "installing", "standing", "removing", "orphaned"}]
        /\ MarkOf' \in [Guards -> RuleSets \cup {NoChain, Partial}]
    <2>1. /\ PhaseOf' = [g \in Guards |-> PhaseOf'[g]] /\ MarkOf' = [g \in Guards |-> MarkOf'[g]]
      BY DEF PhaseOf, MarkOf
    <2>2. \A g \in Guards : /\ PhaseOf'[g] \in {"idle", "installing", "standing", "removing", "orphaned"}
                            /\ MarkOf'[g] \in RuleSets \cup {NoChain, Partial}
      BY <1>2 DEF ChainsInv
    <2> QED
      BY <2>1, <2>2
  <1>5. ASSUME NEW g \in Guards, PhaseOf'[g] \in {"standing", "orphaned"}
        PROVE  MarkOf'[g] \in RuleSetsOf[g]
    BY <1>2, <1>5 DEF ChainsInv
  <1>6. ASSUME NEW g \in Guards, HelperOf' # "down", IsHelpers(g) PROVE PhaseOf'[g] # "orphaned"
    BY <1>2, <1>6 DEF ChainsInv
  <1>7. ASSUME HelperOf' = "reaping", NEW g \in Guards PROVE PhaseOf'[g] = "idle"
    BY <1>2, <1>7 DEF ChainsInv
  <1>8. ASSUME Reliable', HelperOf' = "up", NEW g \in Guards, IsHelpers(g), PhaseOf'[g] = "idle"
        PROVE  MarkOf'[g] = NoChain
    BY <1>2, <1>3, <1>8 DEF ChainsInv
  <1>9. \A g : IsHelpers(g)' <=> IsHelpers(g)
    BY DEF IsHelpers
  <1> QED
    BY <1>4, <1>5, <1>6, <1>7, <1>8, <1>9 DEF ChainsInv

LEMMA BecomesKeeps ==
  ASSUME ChainsInv, NEW g \in Guards, NEW at \in {"idle", "installing", "standing", "removing"}, NEW m,
         Chains!Becomes(g, at, m), PhaseOf[g] # "idle" \/ HelperOf # "reaping",
         at = "standing" => m \in RuleSetsOf[g],
         m \in RuleSets \cup {NoChain, Partial},
         at = "idle" /\ Reliable /\ HelperOf = "up" /\ IsHelpers(g) => m = NoChain
  PROVE  ChainsInv'
  <1>1. /\ PhaseOf' = [PhaseOf EXCEPT ![g] = at] /\ MarkOf' = [MarkOf EXCEPT ![g] = m]
        /\ HelperOf' = HelperOf /\ (Reliable' <=> Reliable)
    BY DEF Chains!Becomes
  <1>2. \A h : IsHelpers(h)' <=> IsHelpers(h)
    BY DEF IsHelpers
  <1>3. HelperOf # "reaping"
    BY DEF ChainsInv
  <1> QED
    BY <1>1, <1>2, <1>3 DEF ChainsInv

LEMMA ChainsInvNext ==
  ASSUME ChainsInv, [Chains!Next]_Chains!vars
  PROVE  ChainsInv'
  <1>0. \A g : IsHelpers(g)' <=> IsHelpers(g)
    BY DEF IsHelpers
  <1>1. ASSUME NEW g \in Guards, Chains!Begin(g) PROVE ChainsInv'
    <2>1. Chains!Becomes(g, "installing", Partial) /\ HelperOf # "reaping"
      BY <1>1 DEF Chains!Begin
    <2> QED
      BY <2>1, BecomesKeeps
  <1>2. ASSUME NEW g \in Guards, Chains!Installed(g) PROVE ChainsInv'
    <2>1. PICK rs \in RuleSetsOf[g] : Chains!Becomes(g, "standing", rs)
      BY <1>2 DEF Chains!Installed
    <2>2. PhaseOf[g] # "idle" /\ rs \in RuleSets
      BY <1>2, GuardFacts DEF Chains!Installed
    <2> QED
      BY <2>1, <2>2, BecomesKeeps
  <1>3. ASSUME NEW g \in Guards, Chains!BeginRemoval(g) PROVE ChainsInv'
    <2>1. Chains!Becomes(g, "removing", Partial) /\ PhaseOf[g] # "idle"
      BY <1>3 DEF Chains!BeginRemoval
    <2> QED
      BY <2>1, BecomesKeeps
  <1>4. ASSUME NEW g \in Guards, Chains!CleanedUp(g) PROVE ChainsInv'
    <2>1. PICK m \in Chains!Remains : Chains!Becomes(g, "idle", m)
      BY <1>4 DEF Chains!CleanedUp
    <2>2. PhaseOf[g] # "idle"
      BY <1>4 DEF Chains!CleanedUp
    <2>3. m \in {NoChain, Partial} /\ (Reliable => m = NoChain)
      BY DEF Chains!Remains
    <2> QED
      BY <2>1, <2>2, <2>3, BecomesKeeps
  <1>5. ASSUME NEW g \in Guards, Chains!AgentEnds(g) PROVE ChainsInv'
    <2>1. Chains!Becomes(g, "idle", Partial) /\ PhaseOf[g] = "orphaned"
      BY <1>5 DEF Chains!AgentEnds
    <2>2. IsHelpers(g) => HelperOf = "down"
      BY <2>1 DEF ChainsInv
    <2> QED
      BY <2>1, <2>2, BecomesKeeps
  <1>6. ASSUME NEW g \in Guards, Chains!LauncherDies(g) PROVE ChainsInv'
    <2>1. /\ ~IsHelpers(g) /\ PhaseOf[g] # "idle" /\ HelperOf' = HelperOf /\ Chains!Abandon({g})
      BY <1>6 DEF Chains!LauncherDies
    <2>2. HelperOf # "reaping"
      BY <2>1 DEF ChainsInv
    <2> QED
      BY <2>1, <2>2, AbandonKeeps
  <1>7. CASE Chains!HelperDies
    <2>1. HelperOf' = "down" /\ Chains!Abandon({g \in Guards : IsHelpers(g)})
      BY <1>7 DEF Chains!HelperDies
    <2>2. HelperOf = "reaping" => \A g \in Guards : PhaseOf[g] = "idle"
      BY DEF ChainsInv
    <2> QED
      BY <2>1, <2>2, AbandonKeeps
  <1>8. CASE Chains!HelperStarts
    BY <1>0, <1>8 DEF Chains!HelperStarts, ChainsInv
  <1>9. ASSUME NEW g \in Guards, Chains!Reap(g) PROVE ChainsInv'
    BY <1>0, <1>9 DEF Chains!Reap, ChainsInv
  <1>10. CASE Chains!Serve
    BY <1>0, <1>10 DEF Chains!Serve, ChainsInv
  <1>11. CASE Chains!CommandFails
    BY <1>0, <1>11 DEF Chains!CommandFails, ChainsInv
  <1>12. CASE UNCHANGED Chains!vars
    <2>1. UNCHANGED <<PhaseOf, MarkOf, HelperOf>> /\ (Reliable' <=> Reliable)
      BY <1>12 DEF Chains!vars
    <2> QED
      BY <1>0, <2>1 DEF ChainsInv
  <1> QED
    BY <1>1, <1>2, <1>3, <1>4, <1>5, <1>6, <1>7, <1>8, <1>9, <1>10, <1>11, <1>12 DEF Chains!Next

\* What is promised of the chains follows from GuardChains alone.
THEOREM ChainsKept == Chains!Spec => []Chains!Kept
  <1>1. Chains!Init => ChainsInv
    BY ChainsInvInit
  <1>2. ChainsInv /\ [Chains!Next]_Chains!vars => ChainsInv'
    BY ChainsInvNext
  <1>3. ChainsInv => Chains!Kept
    BY DEF ChainsInv, Chains!Kept
  <1> QED
    BY <1>1, <1>2, <1>3, PTL DEF Chains!Spec

\* A serving helper's tables hold nothing of a group chain without a guard,
\* unless a command failed: where HelperSessions counts on NoResidue, the
\* commands provide it.
ServesClean ==
  Reliable /\ pc["helper"] = "up" =>
    \A g \in Guards : IsHelpers(g) /\ pc[g] = "idle" => NoTrace(ChainOf[g])

THEOREM ServiceIsClean ==
  ASSUME ~ReapAnyTime
  PROVE  Spec => []ServesClean
  <1>1. Chains!Kept => ServesClean
    <2>1. SUFFICES ASSUME Chains!Kept, Reliable, pc["helper"] = "up",
                          NEW g \in Guards, IsHelpers(g), pc[g] = "idle"
                   PROVE  NoTrace(ChainOf[g])
      BY DEF ServesClean
    <2>2. HelperOf = "up" /\ PhaseOf[g] = "idle"
      BY <2>1 DEF HelperOf, Reaping, PhaseOf
    <2>3. MarkOf[g] = NoChain
      BY <2>1, <2>2 DEF Chains!Kept
    <2>4. NoChain # Partial
      BY GuardAssumption
    <2> QED
      BY <2>1, <2>3, <2>4 DEF MarkOf, Live
  <1> QED
    BY <1>1, ChainRefinement, ChainsKept, PTL DEF ChainsSpec

-------------------------------------------------------------------------------
(* The PF guards.                                                           *)

Tokens == {l \in Launches : token[l]}
Asked == {l \in Launches : backend[l] = "helper"}
Helped(s) == {l \in Launches : Standing(l) /\ backend[l] = "helper" /\ Owner(l) = s}

Busy == {"written", "enabling", "loading", "unwinding", "flushing", "releasing"}
Backed(l) == token[l] \/ lost > 0

TypeInv ==
  /\ alive \in BOOLEAN /\ lock \in Launches \cup {None} /\ session \in Sessions \cup {None}
  /\ phase \in [Launches -> Phases] /\ backend \in [Launches -> {"none", "helper", "sudo"}]
  /\ token \in [Launches -> BOOLEAN]
  /\ net \in [Launches -> Variants] /\ \A l \in Launches : net[l] \in VariantsOf[l]
  /\ anchor \in [Owners -> Variants \cup {NoRules}] /\ file \in Variants \cup {NoRules}
  /\ refs \in Nat /\ lost \in Nat /\ disturbed \subseteq Owners /\ deaths \in 0..MaxDeaths

\* How far a launch has come, who runs its commands and what it holds.
Placed(l) ==
  /\ phase[l] = "idle" => backend[l] = "none"
  /\ backend[l] = "none" => phase[l] \in {"idle", "done"}
  /\ l \in RunLaunches => backend[l] # "sudo"
  /\ backend[l] = "helper" /\ phase[l] \in Busy <=> lock = l
  /\ token[l] => \/ phase[l] \in {"loading", "unwinding", "flushing", "releasing"}
                 \/ phase[l] = "guarded" /\ backend[l] = "sudo"
  /\ phase[l] = "loading" => Backed(l)

Guarded(l) ==
  Standing(l) =>
    /\ Owner(l) \notin disturbed => anchor[Owner(l)] = net[l]
    /\ backend[l] = "sudo" => Backed(l)
    /\ backend[l] = "helper" /\ Owner(l) \notin disturbed =>
         session # None /\ session.owner = Owner(l)

SessionInv ==
  /\ lock # None => alive /\ session = None
  /\ session # None =>
       /\ alive
       /\ session.token \/ lost > 0
       /\ session.count <= Cardinality(Asked)
       /\ session.owner \notin disturbed =>
            /\ anchor[session.owner] = session.net
            /\ Cardinality(Helped(session.owner)) <= session.count

SessionToken == IF session # None /\ session.token THEN 1 ELSE 0

RefsInv == refs = lost + Cardinality(Tokens) + SessionToken

PfInv ==
  /\ TypeInv /\ (\A l \in Launches : Placed(l) /\ Guarded(l)) /\ SessionInv /\ RefsInv

-----------------------------------------------------------------------------
(* Counting.                                                                *)

One(b) == IF b THEN 1 ELSE 0

LEMMA SubsetsFinite ==
  ASSUME PfConstants, NEW S, S \subseteq Launches
  PROVE  /\ IsFiniteSet(S) /\ Cardinality(S) \in Nat
         /\ Cardinality(S) <= Cardinality(Launches) /\ Cardinality(Launches) \in Nat
  BY FS_Subset, FS_CardinalityType DEF PfConstants

LEMMA SmallerSet ==
  ASSUME PfConstants, NEW S, NEW T, T \subseteq Launches, S \subseteq T
  PROVE  Cardinality(S) <= Cardinality(T)
  BY SubsetsFinite, FS_Subset

\* One launch enters or leaves a set.
LEMMA CountMoves ==
  ASSUME PfConstants, NEW S, NEW T, S \subseteq Launches, T \subseteq Launches,
         NEW l \in Launches, \A o \in Launches \ {l} : o \in S <=> o \in T
  PROVE  Cardinality(T) + One(l \in S) = Cardinality(S) + One(l \in T)
  <1>1. /\ IsFiniteSet(S) /\ Cardinality(S) \in Nat
        /\ IsFiniteSet(T) /\ Cardinality(T) \in Nat
    BY SubsetsFinite
  <1>2. CASE (l \in S) <=> (l \in T)
    <2>1. S = T
      BY <1>2
    <2> QED
      BY <1>1, <1>2, <2>1 DEF One
  <1>3. CASE l \in S /\ l \notin T
    <2>1. T = S \ {l}
      BY <1>3
    <2> QED
      BY <1>1, <1>3, <2>1, FS_RemoveElement DEF One
  <1>4. CASE l \notin S /\ l \in T
    <2>1. T = S \cup {l}
      BY <1>4
    <2> QED
      BY <1>1, <1>4, <2>1, FS_AddElement DEF One
  <1> QED
    BY <1>2, <1>3, <1>4

LEMMA TokensCounted ==
  ASSUME PfConstants, TypeInv, NEW l \in Launches, token' = [token EXCEPT ![l] = token'[l]]
  PROVE  Cardinality(Tokens') + One(token[l]) = Cardinality(Tokens) + One(token'[l])
  <1>1. \A o \in Launches \ {l} : o \in Tokens <=> o \in Tokens'
    BY DEF Tokens, TypeInv
  <1>2. Tokens \subseteq Launches /\ Tokens' \subseteq Launches
    BY DEF Tokens
  <1>3. Cardinality(Tokens') + One(l \in Tokens) = Cardinality(Tokens) + One(l \in Tokens')
    BY <1>1, <1>2, CountMoves
  <1> QED
    BY <1>3 DEF Tokens, One

\* The session's owner sits in a scope.
LEMMA Scopes == \A l : Owner(l) \in Owners /\ AnchorName(l) = Owner(l)
  BY DEF Owner, Owners, AnchorName

-----------------------------------------------------------------------------
(* Steps of one launch that leave the helper's session as it is.            *)

\* Nobody counts on the rules of the scope.
Vacant(s) ==
  /\ \A l \in Launches : Owner(l) = s => ~Standing(l)
  /\ session # None => session.owner # s

\* Only l moves, and where it comes to holds no guard; rules go only from under
\* scopes that are vacant or marked as disturbed.
LEMMA LaunchMove ==
  ASSUME PfConstants, PfInv, NEW l \in Launches,
         UNCHANGED <<alive, session, net>>, deaths' \in 0..MaxDeaths,
         token' = [token EXCEPT ![l] = token'[l]], token'[l] \in BOOLEAN,
         refs' \in Nat, lost' \in Nat, lost <= lost', RefsInv',
         disturbed \subseteq disturbed', disturbed' \subseteq Owners,
         anchor' \in [Owners -> Variants \cup {NoRules}],
         \A s \in Owners : s \in disturbed' \/ anchor'[s] = anchor[s] \/ Vacant(s)',
         file' \in Variants \cup {NoRules},
         phase' = [phase EXCEPT ![l] = phase'[l]], phase'[l] \in Phases \ {"guarded"},
         backend' = [backend EXCEPT ![l] = backend'[l]],
         backend'[l] \in {"none", "helper", "sudo"}, backend'[l] = backend[l] \/ phase[l] = "idle",
         lock' \in {lock, l, None}, \A o \in Launches \ {l} : lock' = o <=> lock = o,
         lock' # None => alive /\ session = None,
         Placed(l)'
  PROVE  PfInv'
  <1>1. TypeInv'
    BY DEF PfInv, TypeInv
  <1>2. /\ \A o \in Launches \ {l} :
             phase'[o] = phase[o] /\ backend'[o] = backend[o] /\ token'[o] = token[o]
        /\ \A o \in Launches : Standing(o)' => o # l /\ Standing(o) /\ backend'[o] = backend[o]
        /\ lost > 0 => lost' > 0
    BY DEF PfInv, TypeInv, Standing
  <1>3. ASSUME NEW o \in Launches PROVE Placed(o)' /\ Guarded(o)'
    <2>1. Guarded(o)'
      <3>1. Standing(o)' => Owner(o) \in disturbed' \/ anchor'[Owner(o)] = anchor[Owner(o)]
        BY Scopes DEF Vacant
      <3>2. Guarded(o)
        BY DEF PfInv
      <3> QED
        BY <1>2, <3>1, <3>2 DEF Guarded, Backed
    <2>2. CASE o # l
      BY <1>2, <2>1, <2>2 DEF PfInv, Placed, Backed
    <2> QED
      BY <2>1, <2>2
  <1>4. SessionInv'
    <2>1. Asked \subseteq Asked' /\ Asked' \subseteq Launches
      BY <1>2 DEF Asked, PfInv, Placed
    <2>2. \A s : Helped(s)' \subseteq Helped(s) /\ Helped(s) \subseteq Launches
      BY <1>2 DEF Helped
    <2>3. Cardinality(Asked) <= Cardinality(Asked')
      BY <2>1, SmallerSet
    <2>4. \A s : Cardinality(Helped(s)') <= Cardinality(Helped(s))
      BY <2>2, SmallerSet
    <2>5. ASSUME session # None
          PROVE  session.count <= Cardinality(Asked') /\
                 (session.owner \notin disturbed =>
                    Cardinality(Helped(session.owner)') <= session.count)
      <3>1. /\ session.count \in Nat /\ session.count <= Cardinality(Asked)
            /\ session.owner \notin disturbed => Cardinality(Helped(session.owner)) <= session.count
        BY <2>5 DEF PfInv, TypeInv, SessionInv, Sessions
      <3>2. /\ Cardinality(Asked) \in Nat /\ Cardinality(Asked') \in Nat
            /\ \A s : Cardinality(Helped(s)) \in Nat /\ Cardinality(Helped(s)') \in Nat
        BY <2>1, <2>2, SubsetsFinite
      <3> QED
        BY <2>3, <2>4, <3>1, <3>2
    <2>6. session # None /\ session.owner \notin disturbed' => anchor'[session.owner] = session.net
      BY DEF PfInv, TypeInv, SessionInv, Sessions, Vacant
    <2> QED
      BY <1>2, <2>5, <2>6 DEF PfInv, SessionInv
  <1> QED
    BY <1>1, <1>3, <1>4 DEF PfInv

\* A step that touches neither PF nor a token.
LEMMA QuietMove ==
  ASSUME PfConstants, PfInv, NEW l \in Launches,
         UNCHANGED <<alive, session, net, token, anchor, refs, lost, disturbed, deaths>>,
         file' \in Variants \cup {NoRules},
         phase' = [phase EXCEPT ![l] = phase'[l]], phase'[l] \in Phases \ {"guarded", "loading"},
         backend' = [backend EXCEPT ![l] = backend'[l]],
         backend'[l] \in {"none", "helper", "sudo"}, backend'[l] = backend[l] \/ phase[l] = "idle",
         lock' \in {lock, l, None}, \A o \in Launches \ {l} : lock' = o <=> lock = o,
         lock' # None => alive /\ session = None,
         Placed(l)'
  PROVE  PfInv'
  <1>1. RefsInv'
    BY DEF PfInv, RefsInv, Tokens, SessionToken
  <1>2. /\ token' = [token EXCEPT ![l] = token'[l]] /\ token'[l] \in BOOLEAN
        /\ refs' \in Nat /\ lost' \in Nat /\ lost <= lost'
        /\ disturbed' \subseteq Owners /\ deaths' \in 0..MaxDeaths
        /\ anchor' \in [Owners -> Variants \cup {NoRules}]
    BY DEF PfInv, TypeInv
  <1> QED
    BY <1>1, <1>2, LaunchMove

\* A launch that moves on without a guard of its own or of others.
LEMMA QuietStep ==
  ASSUME PfConstants, PfInv, NEW l \in Launches,
         \/ UseSudo(l) \/ RunRefused(l) \/ Check(l) \/ EnableFails(l) \/ LoadFails(l)
         \/ SudoUninstall(l)
  PROVE  PfInv'
  <1> DEFINE Moves ==
        /\ UNCHANGED <<alive, session, net, token, anchor, refs, lost, disturbed, deaths>>
        /\ file' \in Variants \cup {NoRules}
        /\ phase' = [phase EXCEPT ![l] = phase'[l]] /\ phase'[l] \in Phases \ {"guarded", "loading"}
        /\ backend' = [backend EXCEPT ![l] = backend'[l]]
        /\ backend'[l] \in {"none", "helper", "sudo"}
        /\ backend'[l] = backend[l] \/ phase[l] = "idle"
        /\ lock' \in {lock, l, None} /\ \A o \in Launches \ {l} : lock' = o <=> lock = o
        /\ lock' # None => alive /\ session = None
        /\ Placed(l)'
  <1> USE DEF helper, pf, launch
  <1>0. /\ TypeInv /\ Placed(l) /\ SessionInv /\ l # None /\ None \notin Launches
        /\ lock \in Launches \cup {None} /\ file \in Variants \cup {NoRules}
        /\ backend[l] \in {"none", "helper", "sudo"} /\ net[l] \in Variants
        /\ backend = [backend EXCEPT ![l] = backend[l]]
    BY DEF PfInv, TypeInv, PfConstants
  <1>1. CASE UseSudo(l)
    <2>1. Moves
      BY <1>0, <1>1
      DEF UseSudo, Reach, TypeInv, Placed, Phases, Busy, SessionInv
    <2> QED
      BY <2>1, QuietMove
  <1>2. CASE RunRefused(l)
    <2>1. Moves
      BY <1>0, <1>2 DEF RunRefused, Reach, TypeInv, Placed, Phases, Busy, SessionInv
    <2> QED
      BY <2>1, QuietMove
  <1>3. CASE Check(l)
    <2>1. Moves
      BY <1>0, <1>3
      DEF Check, Abandon, Unlock, Reach, TypeInv, Placed, Phases, Busy, SessionInv
    <2> QED
      BY <2>1, QuietMove
  <1>4. CASE EnableFails(l)
    <2>1. Moves
      BY <1>0, <1>4
      DEF EnableFails, Abandon, Unlock, Reach, TypeInv, Placed, Phases, Busy, SessionInv
    <2> QED
      BY <2>1, QuietMove
  <1>5. CASE LoadFails(l)
    <2>1. Moves
      BY <1>0, <1>5 DEF LoadFails, Reach, TypeInv, Placed, Phases, Busy, SessionInv
    <2> QED
      BY <2>1, QuietMove
  <1>6. CASE SudoUninstall(l)
    <2>1. Moves
      BY <1>0, <1>6 DEF SudoUninstall, Reach, TypeInv, Placed, Phases, Busy, SessionInv
    <2> QED
      BY <2>1, QuietMove
  <1> QED
    BY <1>1, <1>2, <1>3, <1>4, <1>5, <1>6

-----------------------------------------------------------------------------
(* Sessions of the helper.                                                  *)

\* The counts after a step in which only l moved.
LEMMA CountsFollow ==
  ASSUME PfConstants, PfInv, NEW l \in Launches, TypeInv',
         phase' = [phase EXCEPT ![l] = phase'[l]], backend' = [backend EXCEPT ![l] = backend'[l]]
  PROVE  /\ Cardinality(Asked) \in Nat /\ Cardinality(Asked') \in Nat
         /\ Cardinality(Asked') + One(backend[l] = "helper")
              = Cardinality(Asked) + One(backend'[l] = "helper")
         /\ \A s : /\ Cardinality(Helped(s)) \in Nat /\ Cardinality(Helped(s)') \in Nat
                   /\ Cardinality(Helped(s)') + One(l \in Helped(s))
                        = Cardinality(Helped(s)) + One(l \in Helped(s)')
  <1>1. Asked \subseteq Launches /\ Asked' \subseteq Launches
    BY DEF Asked
  <1>2. \A o \in Launches \ {l} : o \in Asked <=> o \in Asked'
    BY DEF Asked, PfInv, TypeInv
  <1>3. Cardinality(Asked') + One(l \in Asked) = Cardinality(Asked) + One(l \in Asked')
    BY <1>1, <1>2, CountMoves
  <1>4. ASSUME NEW s
        PROVE  /\ Cardinality(Helped(s)) \in Nat /\ Cardinality(Helped(s)') \in Nat
               /\ Cardinality(Helped(s)') + One(l \in Helped(s))
                    = Cardinality(Helped(s)) + One(l \in Helped(s)')
    <2>1. Helped(s) \subseteq Launches /\ Helped(s)' \subseteq Launches
      BY DEF Helped
    <2>2. \A o \in Launches \ {l} : o \in Helped(s) <=> o \in Helped(s)'
      BY DEF Helped, Standing, PfInv, TypeInv
    <2> QED
      BY <2>1, <2>2, CountMoves, SubsetsFinite
  <1> QED
    BY <1>1, <1>3, <1>4, SubsetsFinite DEF Asked, One

\* A request joins the session, or begins one; or it is refused.
LEMMA AskHelperStep ==
  ASSUME PfConstants, PfInv, NEW l \in Launches, AskHelper(l)
  PROVE  PfInv'
  <1> USE DEF pf
  <1>0. /\ TypeInv /\ Placed(l) /\ SessionInv /\ l # None /\ None \notin Launches
        /\ phase[l] = "idle" /\ backend[l] = "none" /\ lock = None /\ alive
        /\ backend' = [backend EXCEPT ![l] = "helper"]
    BY DEF AskHelper, TakesHelper, PfInv, PfConstants, Placed, SessionInv
  <1>1. CASE session = None \/ ~Joins(l)
    <2>1. /\ UNCHANGED <<alive, session, net, token, anchor, refs, lost, disturbed, deaths, file>>
          /\ phase' = [phase EXCEPT ![l] = IF session = None THEN "written" ELSE "done"]
          /\ lock' = IF session = None THEN l ELSE lock
      BY <1>1 DEF AskHelper, Reach
    <2>2. Placed(l)' /\ phase'[l] \in {"written", "done"} /\ backend'[l] = "helper"
      BY <1>0, <2>1 DEF TypeInv, Placed, Busy
    <2>3. file' \in Variants \cup {NoRules} /\ phase'[l] \in Phases \ {"guarded", "loading"}
      BY <1>0, <2>1, <2>2 DEF TypeInv, Phases
    <2> QED
      BY <1>0, <2>1, <2>2, <2>3, QuietMove
  <1>2. CASE session # None /\ Joins(l)
    <2>1. /\ UNCHANGED <<alive, lock, net, token, file, anchor, refs, lost, deaths, disturbed>>
          /\ phase' = [phase EXCEPT ![l] = "guarded"]
          /\ session' = [session EXCEPT !.count = @ + 1]
          /\ session \in Sessions /\ session.owner = Owner(l) /\ session.net = net[l]
      BY <1>0, <1>2 DEF AskHelper, Reach, Joins, TypeInv
    <2>2. /\ session' \in Sessions /\ session'.owner = session.owner /\ session'.net = session.net
          /\ session'.token = session.token /\ session'.count = session.count + 1
          /\ session' # None
      BY <2>1 DEF Sessions, PfConstants
    <2>3. TypeInv'
      BY <1>0, <2>1, <2>2 DEF TypeInv, Phases
    <2>4. /\ \A o \in Launches \ {l} : phase'[o] = phase[o] /\ backend'[o] = backend[o]
          /\ phase'[l] = "guarded" /\ backend'[l] = "helper"
          /\ phase' = [phase EXCEPT ![l] = phase'[l]] /\ backend' = [backend EXCEPT ![l] = backend'[l]]
      BY <1>0, <2>1 DEF TypeInv
    <2>5. ASSUME NEW o \in Launches PROVE Placed(o)' /\ Guarded(o)'
      <3>1. CASE o = l
        <4>1. Placed(l)'
          BY <1>0, <2>1, <2>4 DEF Placed, Busy
        <4>2. Guarded(l)'
          BY <1>0, <1>2, <2>1, <2>2, <2>4 DEF Guarded, SessionInv
        <4> QED
          BY <3>1, <4>1, <4>2
      <3>2. CASE o # l
        BY <1>0, <2>1, <2>2, <2>4, <3>2 DEF PfInv, Placed, Guarded, Standing, Backed
      <3> QED
        BY <3>1, <3>2
    <2>6. SessionInv'
      <3>1. Cardinality(Asked') = Cardinality(Asked) + 1 /\ Cardinality(Asked) \in Nat
        <4>1. /\ Cardinality(Asked') + One(backend[l] = "helper")
                 = Cardinality(Asked) + One(backend'[l] = "helper")
              /\ Cardinality(Asked) \in Nat /\ Cardinality(Asked') \in Nat
          BY <2>3, <2>4, CountsFollow
        <4>2. One(backend[l] = "helper") = 0 /\ One(backend'[l] = "helper") = 1
          BY <1>0, <2>4 DEF One
        <4> QED
          BY <4>1, <4>2
      <3>2. /\ Cardinality(Helped(session.owner)') <= Cardinality(Helped(session.owner)) + 1
            /\ Cardinality(Helped(session.owner)') \in Nat
            /\ Cardinality(Helped(session.owner)) \in Nat
        <4>1. Cardinality(Helped(session.owner)') + One(l \in Helped(session.owner))
              = Cardinality(Helped(session.owner)) + One(l \in Helped(session.owner)')
          BY <2>2, <2>3, <2>4, CountsFollow
        <4> QED
          BY <2>2, <2>3, <2>4, <4>1, CountsFollow DEF One
      <3> QED
        BY <1>0, <1>2, <2>1, <2>2, <3>1, <3>2 DEF SessionInv, Sessions
    <2>7. RefsInv'
      BY <2>1, <2>2, <1>2 DEF PfInv, RefsInv, Tokens, SessionToken
    <2> QED
      BY <2>3, <2>5, <2>6, <2>7 DEF PfInv
  <1> QED
    BY <1>1, <1>2

-----------------------------------------------------------------------------
(* PF's references: taken, given back, lost.                                *)

LEMMA EnableStep ==
  ASSUME PfConstants, PfInv, NEW l \in Launches, Enable(l)
  PROVE  PfInv'
  <1> USE DEF helper
  <1>0. /\ TypeInv /\ Placed(l) /\ SessionInv /\ RefsInv /\ ~token[l] /\ phase[l] = "enabling"
    BY DEF PfInv, Enable, Placed
  <1>1. PICK parsed \in BOOLEAN :
          /\ UNCHANGED <<alive, lock, session, backend, net, file, anchor, deaths, disturbed>>
          /\ phase' = [phase EXCEPT ![l] = "loading"] /\ refs' = refs + 1
          /\ token' = [token EXCEPT ![l] = parsed]
          /\ lost' = IF parsed THEN lost ELSE lost + 1
    BY DEF Enable, Reach
  <1>2. /\ refs' \in Nat /\ lost' \in Nat /\ lost <= lost'
        /\ phase'[l] = "loading" /\ token'[l] = parsed
        /\ phase' = [phase EXCEPT ![l] = phase'[l]] /\ token' = [token EXCEPT ![l] = token'[l]]
        /\ backend' = [backend EXCEPT ![l] = backend'[l]]
    BY <1>0, <1>1 DEF TypeInv
  <1>3. RefsInv'
    <2>1. Cardinality(Tokens') + One(token[l]) = Cardinality(Tokens) + One(token'[l])
      BY <1>0, <1>2, TokensCounted
    <2>2. Cardinality(Tokens') \in Nat /\ Cardinality(Tokens) \in Nat
      BY SubsetsFinite DEF Tokens
    <2> QED
      BY <1>0, <1>1, <1>2, <2>1, <2>2 DEF RefsInv, SessionToken, One, TypeInv
  <1>4. Placed(l)'
    BY <1>0, <1>1, <1>2 DEF Placed, Busy, Backed, TypeInv
  <1> QED
    BY <1>0, <1>1, <1>2, <1>3, <1>4, LaunchMove DEF TypeInv, Phases, SessionInv

\* A token that is given back or lost was counted.
LEMMA TokenGone ==
  ASSUME PfConstants, PfInv, NEW l \in Launches, session' = session,
         token' = [token EXCEPT ![l] = FALSE], refs' \in Int, lost' \in Int,
         refs' - lost' = IF token[l] THEN refs - lost - 1 ELSE refs - lost, lost' >= lost
  PROVE  RefsInv' /\ refs' \in Nat /\ lost' \in Nat
  <1>1. Cardinality(Tokens') + One(token[l]) = Cardinality(Tokens) + One(FALSE)
    BY TokensCounted DEF PfInv, TypeInv
  <1>2. Cardinality(Tokens') \in Nat /\ Cardinality(Tokens) \in Nat
    BY SubsetsFinite DEF Tokens
  <1>3. SessionToken' = SessionToken /\ SessionToken \in Nat
    BY DEF SessionToken
  <1>4. refs \in Nat /\ lost \in Nat /\ refs = lost + Cardinality(Tokens) + SessionToken
    BY DEF PfInv, TypeInv, RefsInv
  <1> QED
    BY <1>1, <1>2, <1>3, <1>4 DEF RefsInv, One

LEMMA ReleaseStep ==
  ASSUME PfConstants, PfInv, NEW l \in Launches, Release(l)
  PROVE  PfInv'
  <1>0. /\ TypeInv /\ Placed(l) /\ SessionInv
    BY DEF PfInv
  <1>1. /\ UNCHANGED <<alive, session, backend, net, anchor, deaths, disturbed>>
        /\ phase[l] \in {"unwinding", "releasing"} /\ phase' = [phase EXCEPT ![l] = "done"]
        /\ lock' = IF backend[l] = "helper" THEN None ELSE lock
        /\ token' = [token EXCEPT ![l] = FALSE]
        /\ file' \in {file, NoRules}
        /\ IF token[l] THEN \/ refs' = refs - 1 /\ lost' = lost
                            \/ lost' = lost + 1 /\ refs' = refs
           ELSE refs' = refs /\ lost' = lost
    BY DEF Release, Abandon, Reach, Unlock, GiveBack
  <1>2. RefsInv' /\ refs' \in Nat /\ lost' \in Nat /\ lost <= lost'
    <2>1. /\ refs' \in Int /\ lost' \in Int /\ lost' >= lost /\ lost <= lost'
          /\ refs' - lost' = IF token[l] THEN refs - lost - 1 ELSE refs - lost
      BY <1>0, <1>1 DEF TypeInv
    <2> QED
      BY <1>1, <2>1, TokenGone
  <1>3. /\ phase'[l] = "done" /\ token'[l] = FALSE
        /\ phase' = [phase EXCEPT ![l] = phase'[l]] /\ token' = [token EXCEPT ![l] = token'[l]]
        /\ backend' = [backend EXCEPT ![l] = backend'[l]]
    BY <1>0, <1>1 DEF TypeInv
  <1>4. Placed(l)' /\ \A o \in Launches \ {l} : lock' = o <=> lock = o
    BY <1>0, <1>1, <1>3 DEF Placed, Busy, PfConstants
  <1> QED
    BY <1>0, <1>1, <1>2, <1>3, <1>4, LaunchMove DEF TypeInv, Phases, SessionInv

LEMMA FlushStep ==
  ASSUME PfConstants, PfInv, NEW l \in Launches, Flush(l)
  PROVE  PfInv'
  <1>0. /\ TypeInv /\ Placed(l) /\ SessionInv /\ RefsInv /\ \A o \in Launches : Guarded(o)
    BY DEF PfInv
  <1>1. /\ UNCHANGED <<alive, lock, session, backend, net, token, file, refs, lost, deaths>>
        /\ phase[l] = "flushing" /\ phase' = [phase EXCEPT ![l] = "releasing"]
        /\ anchor' \in {anchor, [anchor EXCEPT ![Owner(l)] = NoRules]}
        /\ disturbed' = disturbed \cup (IF Shared(l) THEN {Owner(l)} ELSE {})
    BY DEF Flush, Reach, Disturbs, helper, AnchorName
  <1>2. /\ phase'[l] = "releasing" /\ \A o \in Launches \ {l} : phase'[o] = phase[o]
        /\ phase' = [phase EXCEPT ![l] = phase'[l]] /\ token' = [token EXCEPT ![l] = token'[l]]
        /\ backend' = [backend EXCEPT ![l] = backend'[l]] /\ token'[l] \in BOOLEAN
        /\ anchor' \in [Owners -> Variants \cup {NoRules}]
        /\ disturbed \subseteq disturbed' /\ disturbed' \subseteq Owners
    BY <1>0, <1>1, Scopes DEF TypeInv
  <1>3. ASSUME NEW s \in Owners
        PROVE  s \in disturbed' \/ anchor'[s] = anchor[s] \/ Vacant(s)'
    <2>1. CASE s # Owner(l)
      BY <1>0, <1>1, <2>1 DEF TypeInv
    <2>2. CASE s = Owner(l) /\ s \notin disturbed'
      <3>1. ~Shared(l) /\ s \notin disturbed
        BY <1>1, <2>2
      <3>2. backend[l] \in {"helper", "sudo"} /\ (backend[l] = "helper" => session = None)
        BY <1>0, <1>1 DEF Placed, SessionInv, Busy, TypeInv, PfConstants
      <3>3. session # None => session.owner # s
        BY <2>2, <3>1, <3>2 DEF Shared
      <3>4. ASSUME NEW o \in Launches, Owner(o) = s, Standing(o)' PROVE FALSE
        <4>1. o # l /\ Standing(o)
          BY <1>2, <3>4 DEF Standing
        <4>2. backend[o] # "sudo" /\ backend[l] # "sudo"
          BY <2>2, <3>1, <3>4, <4>1 DEF Shared
        <4>3. backend[o] = "helper"
          BY <4>1, <4>2 DEF PfInv, Placed, Standing, TypeInv
        <4> QED
          BY <1>0, <3>1, <3>2, <3>4, <4>1, <4>2, <4>3 DEF Guarded
      <3> QED
        BY <1>1, <3>3, <3>4 DEF Vacant
    <2> QED
      BY <2>1, <2>2
  <1>4. Placed(l)' /\ RefsInv'
    BY <1>0, <1>1, <1>2 DEF Placed, Busy, RefsInv, Tokens, SessionToken
  <1>5. /\ phase'[l] \in Phases \ {"guarded"} /\ backend'[l] \in {"none", "helper", "sudo"}
        /\ refs' \in Nat /\ lost' \in Nat /\ lost <= lost' /\ deaths' \in 0..MaxDeaths
        /\ file' \in Variants \cup {NoRules} /\ backend'[l] = backend[l]
        /\ lock' = lock /\ (lock' # None => alive /\ session = None)
    BY <1>0, <1>1, <1>2 DEF TypeInv, Phases, SessionInv
  <1> QED
    BY <1>1, <1>2, <1>3, <1>4, <1>5, LaunchMove

LEMMA LaunchKilledStep ==
  ASSUME PfConstants, PfInv, NEW l \in Launches, LaunchKilled(l)
  PROVE  PfInv'
  <1>0. /\ TypeInv /\ Placed(l) /\ SessionInv
    BY DEF PfInv
  <1>1. /\ UNCHANGED <<alive, lock, session, backend, net, file, anchor, refs, disturbed>>
        /\ deaths < MaxDeaths /\ deaths' = deaths + 1 /\ l \notin RunLaunches
        /\ phase[l] = "guarded" \/ (backend[l] = "sudo" /\ phase[l] \notin {"idle", "done"})
        /\ phase' = [phase EXCEPT ![l] = "done"] /\ token' = [token EXCEPT ![l] = FALSE]
        /\ lost' = IF token[l] THEN lost + 1 ELSE lost
    BY DEF LaunchKilled, Killable, Reach, helper
  <1>2. RefsInv' /\ refs' \in Nat /\ lost' \in Nat /\ lost <= lost'
    <2>1. /\ refs' \in Int /\ lost' \in Int /\ lost' >= lost /\ lost <= lost'
          /\ refs' - lost' = IF token[l] THEN refs - lost - 1 ELSE refs - lost
      BY <1>0, <1>1 DEF TypeInv
    <2> QED
      BY <1>1, <2>1, TokenGone
  <1>3. /\ phase'[l] = "done" /\ token'[l] = FALSE
        /\ phase' = [phase EXCEPT ![l] = phase'[l]] /\ token' = [token EXCEPT ![l] = token'[l]]
        /\ backend' = [backend EXCEPT ![l] = backend'[l]] /\ deaths' \in 0..MaxDeaths
    BY <1>0, <1>1 DEF TypeInv, PfConstants
  <1>4. Placed(l)'
    BY <1>0, <1>1, <1>3 DEF Placed, Busy
  <1> QED
    BY <1>0, <1>1, <1>2, <1>3, <1>4, LaunchMove DEF TypeInv, Phases, SessionInv

-----------------------------------------------------------------------------
(* Guards that come to stand, and the last one of a session.                *)

\* The rules go in whole; whoever shared the anchor is marked.
LEMMA LoadSudoStep ==
  ASSUME PfConstants, PfInv, NEW l \in Launches, Load(l), backend[l] # "helper"
  PROVE  PfInv'
  <1>0. /\ TypeInv /\ Placed(l) /\ SessionInv /\ RefsInv /\ \A o \in Launches : Guarded(o)
    BY DEF PfInv
  <1>1. /\ UNCHANGED <<alive, lock, session, backend, net, token, file, refs, lost, deaths>>
        /\ phase[l] = "loading" /\ Rules(l) # NoRules /\ phase' = [phase EXCEPT ![l] = "guarded"]
        /\ anchor' = [anchor EXCEPT ![Owner(l)] = Rules(l)]
        /\ disturbed' = disturbed \cup
             (IF Rules(l) # net[l] \/ Shared(l) THEN {Owner(l)} ELSE {})
    BY DEF Load, Reach, Disturbs, helper, AnchorName
  <1>2. /\ backend[l] = "sudo" /\ lock # l /\ Backed(l)
    BY <1>0, <1>1 DEF Placed, TypeInv
  <1>3. /\ phase'[l] = "guarded" /\ \A o \in Launches \ {l} : phase'[o] = phase[o]
        /\ \A s \in Owners : s # Owner(l) => anchor'[s] = anchor[s]
        /\ anchor'[Owner(l)] = Rules(l) /\ Rules(l) \in Variants \cup {NoRules}
        /\ disturbed \subseteq disturbed' /\ disturbed' \subseteq Owners
    BY <1>0, <1>1, Scopes DEF TypeInv, Rules
  <1>4. TypeInv'
    BY <1>0, <1>1, <1>3 DEF TypeInv, Phases
  <1>5. ASSUME NEW o \in Launches PROVE Placed(o)' /\ Guarded(o)'
    <2>1. CASE o = l
      BY <1>0, <1>1, <1>2, <1>3, <2>1 DEF Placed, Guarded, Backed, Busy
    <2>2. CASE o # l
      <3>1. Placed(o)' /\ Guarded(o)
        BY <1>0, <1>1, <1>3, <2>2 DEF PfInv, Placed, Backed
      <3>2. Standing(o)' => Owner(o) \in disturbed' \/ anchor'[Owner(o)] = anchor[Owner(o)]
        BY <1>1, <1>2, <1>3, <2>2, Scopes DEF Shared, Standing
      <3> QED
        BY <1>1, <1>3, <2>2, <3>1, <3>2 DEF Guarded, Standing, Backed
    <2> QED
      BY <2>1, <2>2
  <1>6. Asked' = Asked /\ Tokens' = Tokens /\ \A s : Helped(s)' = Helped(s)
    BY <1>1, <1>2, <1>3 DEF Asked, Tokens, Helped, Standing
  <1>7. SessionInv'
    <2>1. session # None /\ session.owner \notin disturbed' => session.owner # Owner(l)
      BY <1>1, <1>2 DEF Shared
    <2>2. session # None => session.owner \in Owners
      BY <1>0 DEF TypeInv, Sessions
    <2> QED
      BY <1>0, <1>1, <1>3, <1>6, <2>1, <2>2 DEF SessionInv
  <1>8. RefsInv'
    BY <1>0, <1>1, <1>6 DEF RefsInv, SessionToken
  <1> QED
    BY <1>4, <1>5, <1>7, <1>8 DEF PfInv

\* A new session; the user had none, so nobody undisturbed stands on it.
LEMMA LoadHelperStep ==
  ASSUME PfConstants, PfInv, NEW l \in Launches, Load(l), backend[l] = "helper"
  PROVE  PfInv'
  <1>0. /\ TypeInv /\ Placed(l) /\ SessionInv /\ RefsInv /\ \A o \in Launches : Guarded(o)
    BY DEF PfInv
  <1>1. /\ UNCHANGED <<alive, backend, net, file, refs, lost, deaths>>
        /\ phase[l] = "loading" /\ phase' = [phase EXCEPT ![l] = "guarded"]
        /\ anchor' = [anchor EXCEPT ![Owner(l)] = net[l]]
        /\ disturbed' = disturbed \cup (IF Shared(l) THEN {Owner(l)} ELSE {})
        /\ session' = [owner |-> Owner(l), net |-> net[l], count |-> 1, token |-> token[l]]
        /\ token' = [token EXCEPT ![l] = FALSE] /\ lock' = None
    BY DEF Load, Reach, Disturbs, AnchorName, Rules
  <1>2. lock = l /\ session = None /\ alive /\ Backed(l)
    BY <1>0, <1>1 DEF Placed, Busy, SessionInv, PfConstants
  <1>3. session' \in Sessions /\ session' # None
    BY <1>0, <1>1, Scopes DEF Sessions, TypeInv, PfConstants
  <1>4. /\ phase'[l] = "guarded" /\ token'[l] = FALSE
        /\ \A o \in Launches \ {l} : phase'[o] = phase[o] /\ token'[o] = token[o]
        /\ \A s \in Owners : s # Owner(l) => anchor'[s] = anchor[s]
        /\ anchor'[Owner(l)] = net[l]
        /\ disturbed \subseteq disturbed' /\ disturbed' \subseteq Owners
    BY <1>0, <1>1, Scopes DEF TypeInv
  <1>5. TypeInv'
    BY <1>0, <1>1, <1>3, <1>4 DEF TypeInv, Phases
  <1>6. ASSUME NEW o \in Launches, o # l, Standing(o), Owner(o) = Owner(l)
        PROVE  Owner(o) \in disturbed'
    <2>1. CASE backend[o] = "sudo"
      BY <1>1, <1>6, <2>1 DEF Shared
    <2>2. CASE backend[o] = "helper"
      BY <1>0, <1>2, <1>4, <1>6, <2>2 DEF Guarded
    <2> QED
      BY <1>0, <1>6, <2>1, <2>2 DEF PfInv, Placed, Standing, TypeInv
  <1>7. ASSUME NEW o \in Launches PROVE Placed(o)' /\ Guarded(o)'
    <2>1. CASE o = l
      BY <1>1, <1>3, <1>4, <2>1, <1>0 DEF Placed, Guarded, Busy, PfConstants
    <2>2. CASE o # l
      <3>1. Placed(o)' /\ Guarded(o)
        BY <1>0, <1>1, <1>2, <1>4, <2>2 DEF PfInv, Placed, Backed, PfConstants
      <3>2. Standing(o)' => /\ Standing(o)
                            /\ Owner(o) \in disturbed' \/ anchor'[Owner(o)] = anchor[Owner(o)]
        BY <1>4, <1>6, <2>2, Scopes DEF Standing
      <3> QED
        BY <1>1, <1>2, <1>4, <2>2, <3>1, <3>2 DEF Guarded, Backed
    <2> QED
      BY <2>1, <2>2
  <1>8. SessionInv'
    <2>1. 1 <= Cardinality(Asked')
      <3>1. {l} \subseteq Asked' /\ Asked' \subseteq Launches
        BY <1>1 DEF Asked
      <3>2. Cardinality({l}) <= Cardinality(Asked')
        BY <3>1, SmallerSet
      <3>3. Cardinality({l}) = 1
        BY FS_Singleton
      <3> QED
        BY <3>2, <3>3
    <2>2. Owner(l) \notin disturbed' => Cardinality(Helped(Owner(l))') <= 1
      <3>1. Owner(l) \notin disturbed' => Helped(Owner(l))' \subseteq {l}
        BY <1>4, <1>6 DEF Helped, Standing
      <3>2. {l} \subseteq Launches /\ Cardinality({l}) = 1
        BY FS_Singleton
      <3>3. Helped(Owner(l))' \subseteq {l} => Cardinality(Helped(Owner(l))') <= Cardinality({l})
        BY <3>2, SmallerSet
      <3> QED
        BY <3>1, <3>2, <3>3
    <2>3. Helped(session.owner)' = Helped(Owner(l))'
      BY <1>1
    <2> QED
      BY <1>1, <1>2, <1>3, <1>4, <2>1, <2>2, <2>3 DEF SessionInv, Backed
  <1>9. RefsInv'
    <2>1. Cardinality(Tokens') + One(token[l]) = Cardinality(Tokens) + One(FALSE)
      BY <1>0, <1>1, <1>4, TokensCounted
    <2>2. Cardinality(Tokens') \in Nat /\ Cardinality(Tokens) \in Nat
      BY SubsetsFinite DEF Tokens
    <2>3. SessionToken' = One(token[l]) /\ SessionToken = 0
      BY <1>1, <1>2, <1>3 DEF SessionToken, One
    <2> QED
      BY <1>0, <1>1, <2>1, <2>2, <2>3 DEF RefsInv, One, TypeInv
  <1> QED
    BY <1>5, <1>7, <1>8, <1>9 DEF PfInv

\* The count goes down, or the last one takes the session out: in a scope that
\* nobody disturbed it really is the last.
LEMMA HelperUninstallStep ==
  ASSUME PfConstants, PfInv, NEW l \in Launches, HelperUninstall(l)
  PROVE  PfInv'
  <1> USE DEF pf
  <1>0. /\ TypeInv /\ Placed(l) /\ SessionInv /\ RefsInv /\ \A o \in Launches : Guarded(o)
        /\ phase[l] = "guarded" /\ backend[l] = "helper" /\ lock = None /\ ~token[l]
        /\ UNCHANGED <<alive, backend, net, file, anchor, refs, lost, deaths, disturbed>>
        /\ l # None /\ None \notin Launches
    BY DEF PfInv, HelperUninstall, Placed, PfConstants
  <1>1. CASE ~alive \/ session = None \/ session.owner # Owner(l)
    <2>1. UNCHANGED <<lock, session, token>> /\ phase' = [phase EXCEPT ![l] = "done"]
      BY <1>1 DEF HelperUninstall, Reach
    <2>2. Placed(l)' /\ phase'[l] = "done"
      BY <1>0, <2>1 DEF TypeInv, Placed, Busy
    <2>3. /\ phase' = [phase EXCEPT ![l] = phase'[l]] /\ phase'[l] \in Phases \ {"guarded", "loading"}
          /\ backend' = [backend EXCEPT ![l] = backend'[l]] /\ backend'[l] = backend[l]
          /\ backend'[l] \in {"none", "helper", "sudo"} /\ file' \in Variants \cup {NoRules}
      BY <1>0, <2>1, <2>2 DEF TypeInv, Phases
    <2> QED
      BY <1>0, <2>1, <2>2, <2>3, QuietMove
  <1>2. CASE alive /\ session # None /\ session.owner = Owner(l) /\ session.count > 1
    <2>1. /\ UNCHANGED <<lock, token>> /\ phase' = [phase EXCEPT ![l] = "done"]
          /\ session' = [session EXCEPT !.count = @ - 1]
      BY <1>2 DEF HelperUninstall, Reach
    <2>2. /\ session \in Sessions /\ session' \in Sessions /\ session' # None
          /\ session'.owner = Owner(l) /\ session'.net = session.net
          /\ session'.token = session.token /\ session'.count = session.count - 1
      BY <1>0, <1>2, <2>1 DEF TypeInv, Sessions, PfConstants
    <2>3. /\ phase'[l] = "done" /\ \A o \in Launches \ {l} : phase'[o] = phase[o]
          /\ phase' = [phase EXCEPT ![l] = phase'[l]] /\ backend' = [backend EXCEPT ![l] = backend'[l]]
      BY <1>0, <2>1 DEF TypeInv
    <2>4. TypeInv'
      BY <1>0, <2>1, <2>2 DEF TypeInv, Phases
    <2>5. ASSUME NEW o \in Launches PROVE Placed(o)' /\ Guarded(o)'
      <3>1. Placed(o)'
        BY <1>0, <2>1, <2>3 DEF PfInv, Placed, Busy, Backed
      <3>2. Guarded(o)'
        BY <1>0, <1>2, <2>1, <2>2, <2>3 DEF Guarded, Standing, Backed
      <3> QED
        BY <3>1, <3>2
    <2>6. SessionInv'
      <3>1. Asked' = Asked
        BY <1>0 DEF Asked
      <3>2. /\ Cardinality(Helped(Owner(l))') + One(l \in Helped(Owner(l)))
                 = Cardinality(Helped(Owner(l))) + One(l \in Helped(Owner(l))')
            /\ Cardinality(Helped(Owner(l))') \in Nat /\ Cardinality(Helped(Owner(l))) \in Nat
        BY <2>3, <2>4, CountsFollow
      <3>3. l \in Helped(Owner(l)) /\ l \notin Helped(Owner(l))'
        BY <1>0, <2>3 DEF Helped, Standing
      <3>4. Cardinality(Helped(Owner(l))') = Cardinality(Helped(Owner(l))) - 1
        BY <3>2, <3>3 DEF One
      <3>5. Helped(session.owner)' = Helped(Owner(l))' /\ Cardinality(Asked) \in Nat
        BY <2>2, SubsetsFinite DEF Asked
      <3>6. /\ session.count \in Nat /\ session.count <= Cardinality(Asked)
            /\ session.token \/ lost > 0
            /\ Owner(l) \notin disturbed =>
                 anchor[Owner(l)] = session.net /\ Cardinality(Helped(Owner(l))) <= session.count
        BY <1>0, <1>2, <2>2 DEF SessionInv, Sessions
      <3>7. /\ session'.count <= Cardinality(Asked')
            /\ Owner(l) \notin disturbed => Cardinality(Helped(Owner(l))') <= session'.count
        BY <2>2, <3>1, <3>2, <3>4, <3>5, <3>6
      <3> QED
        BY <1>0, <1>2, <2>1, <2>2, <3>5, <3>6, <3>7 DEF SessionInv
    <2>7. RefsInv'
      BY <1>0, <1>2, <2>1, <2>2 DEF RefsInv, Tokens, SessionToken
    <2> QED
      BY <2>4, <2>5, <2>6, <2>7 DEF PfInv
  <1>3. CASE alive /\ session # None /\ session.owner = Owner(l) /\ ~(session.count > 1)
    <2>1. /\ phase' = [phase EXCEPT ![l] = "flushing"] /\ lock' = l /\ session' = None
          /\ token' = [token EXCEPT ![l] = session.token]
          /\ session \in Sessions /\ session.count = 1
      BY <1>0, <1>3 DEF HelperUninstall, Reach, TypeInv, Sessions
    <2>2. /\ phase'[l] = "flushing" /\ token'[l] = session.token /\ session.token \in BOOLEAN
          /\ \A o \in Launches \ {l} : phase'[o] = phase[o] /\ token'[o] = token[o]
      BY <1>0, <2>1 DEF TypeInv, Sessions
    <2>3. TypeInv'
      BY <1>0, <2>1, <2>2 DEF TypeInv, Phases
    <2>4. ASSUME NEW o \in Launches, o # l, Standing(o), backend[o] = "helper",
                 Owner(o) \notin disturbed
          PROVE  FALSE
      <3>1. session.owner = Owner(o) /\ {l, o} \subseteq Helped(session.owner)
        BY <1>0, <1>3, <2>4 DEF Guarded, Helped, Standing
      <3>2. Helped(session.owner) \subseteq Launches
        BY DEF Helped
      <3>3. Cardinality({l, o}) <= Cardinality(Helped(session.owner))
        BY <3>1, <3>2, SmallerSet
      <3>4. IsFiniteSet({l}) /\ Cardinality({l}) = 1
        BY FS_Singleton
      <3>5. Cardinality({l, o}) = 2
        <4>1. {l, o} = {l} \cup {o}
          OBVIOUS
        <4>2. Cardinality({l} \cup {o}) = Cardinality({l}) + 1
          BY <2>4, <3>4, FS_AddElement
        <4> QED
          BY <3>4, <4>1, <4>2
      <3>6. Cardinality(Helped(session.owner)) <= 1 /\ Cardinality(Helped(session.owner)) \in Nat
        BY <1>0, <1>3, <2>1, <2>4, <3>1, <3>2, SubsetsFinite DEF SessionInv
      <3> QED
        BY <3>3, <3>5, <3>6
    <2>5. ASSUME NEW o \in Launches PROVE Placed(o)' /\ Guarded(o)'
      <3>1. CASE o = l
        BY <1>0, <2>1, <2>2, <3>1 DEF Placed, Guarded, Standing, Busy
      <3>2. CASE o # l
        <4>1. Placed(o)' /\ Guarded(o)
          BY <1>0, <2>1, <2>2, <3>2 DEF PfInv, Placed, Backed
        <4> QED
          BY <1>0, <2>1, <2>2, <2>4, <3>2, <4>1 DEF Guarded, Standing, Backed
      <3> QED
        BY <3>1, <3>2
    <2>6. SessionInv'
      BY <1>0, <1>3, <2>1 DEF SessionInv
    <2>7. RefsInv'
      <3>1. Cardinality(Tokens') + One(token[l]) = Cardinality(Tokens) + One(token'[l])
        <4>1. token' = [token EXCEPT ![l] = token'[l]]
          BY <2>1, <2>2
        <4> QED
          BY <1>0, <4>1, TokensCounted
      <3>2. Cardinality(Tokens') \in Nat /\ Cardinality(Tokens) \in Nat
        BY SubsetsFinite DEF Tokens
      <3>3. SessionToken = One(token'[l]) /\ SessionToken' = 0 /\ One(token[l]) = 0
        BY <1>0, <1>3, <2>1, <2>2 DEF SessionToken, One
      <3> QED
        BY <1>0, <3>1, <3>2, <3>3 DEF RefsInv, One, TypeInv
    <2> QED
      BY <2>3, <2>5, <2>6, <2>7 DEF PfInv
  <1> QED
    BY <1>0, <1>1, <1>2, <1>3 DEF TypeInv, Sessions

-----------------------------------------------------------------------------
(* Deaths.                                                                  *)

\* What remains when the helper is gone: PF's references are accounted for by
\* the step, and every guard that lost its ground is marked.
LEMMA GoneInv ==
  ASSUME PfConstants, PfInv, alive, HelperGone, deaths' \in 0..MaxDeaths,
         token' = [l \in Launches |-> token[l] /\ l # lock],
         refs' \in Nat, lost' \in Nat, lost <= lost', RefsInv',
         anchor' \in [Owners -> Variants \cup {NoRules}],
         \A s \in Owners : s \in disturbed' \/ anchor'[s] = anchor[s]
  PROVE  PfInv'
  <1>0. /\ TypeInv /\ SessionInv /\ \A l \in Launches : Placed(l) /\ Guarded(l)
    BY DEF PfInv
  <1>1. /\ alive' = FALSE /\ lock' = None /\ session' = None
        /\ UNCHANGED <<backend, net, file>>
        /\ \A l \in Launches :
             phase'[l] = IF l = lock \/ (l \in RunLaunches /\ phase[l] # "idle") THEN "done" ELSE phase[l]
        /\ phase' \in [Launches -> Phases]
        /\ disturbed' = disturbed \cup (IF session = None THEN {} ELSE {session.owner})
             \cup {Owner(l) : l \in {l \in Launches : Standing(l) /\ backend[l] = "helper"}}
    BY <1>0 DEF HelperGone, TypeInv, Phases
  <1>2. /\ disturbed \subseteq disturbed' /\ disturbed' \subseteq Owners
        /\ \A l \in Launches : Standing(l) /\ backend[l] = "helper" => Owner(l) \in disturbed'
    BY <1>0, <1>1, Scopes DEF TypeInv, Sessions
  <1>3. TypeInv'
    BY <1>0, <1>1, <1>2 DEF TypeInv
  <1>4. ASSUME NEW l \in Launches PROVE Placed(l)' /\ Guarded(l)'
    <2>1. /\ Placed(l) /\ Guarded(l) /\ None \notin Launches
          /\ l # lock => (token'[l] <=> token[l])
          /\ lost > 0 => lost' > 0
      BY <1>0 DEF PfConstants, TypeInv
    <2>2. Placed(l)'
      <3>1. phase[l] = "loading" /\ phase'[l] = "loading" => Backed(l)'
        BY <1>1, <2>1 DEF Placed, Backed
      <3>2. token'[l] => token[l] /\ phase'[l] = phase[l]
        BY <1>0, <1>1, <2>1 DEF Placed, Busy, TypeInv
      <3> QED
        BY <1>1, <2>1, <3>1, <3>2 DEF Placed, Busy
    <2>3. Guarded(l)'
      <3>1. Standing(l)' => Standing(l) /\ (backend[l] = "sudo" => l # lock)
        BY <1>1, <2>1 DEF Standing, Placed
      <3>2. backend[l] = "sudo" /\ Standing(l)' => Backed(l)'
        BY <2>1, <3>1 DEF Guarded, Backed
      <3> QED
        BY <1>1, <1>2, <2>1, <3>1, <3>2, Scopes DEF Guarded
    <2> QED
      BY <2>2, <2>3
  <1>5. SessionInv'
    BY <1>1 DEF SessionInv
  <1> QED
    BY <1>3, <1>4, <1>5 DEF PfInv

LEMMA PfHelperDiesStep ==
  ASSUME PfConstants, PfInv, PfHelperDies
  PROVE  PfInv'
  <1>0. TypeInv /\ SessionInv /\ RefsInv /\ None \notin Launches
    BY DEF PfInv, PfConstants
  <1>1. /\ alive /\ HelperGone /\ deaths' \in 0..MaxDeaths /\ session' = None
        /\ lost' = lost + SessionToken + (IF lock # None /\ token[lock] THEN 1 ELSE 0)
        /\ token' = [l \in Launches |-> token[l] /\ l # lock]
        /\ UNCHANGED <<anchor, refs>>
    BY <1>0 DEF PfHelperDies, Killable, HelperGone, SessionToken, TypeInv, PfConstants
  <1>2. /\ SessionToken \in Nat /\ SessionToken' = 0
        /\ Cardinality(Tokens') \in Nat /\ Cardinality(Tokens) \in Nat
    BY <1>1, SubsetsFinite DEF SessionToken, Tokens
  <1>3. Cardinality(Tokens') + (IF lock # None /\ token[lock] THEN 1 ELSE 0)
        = Cardinality(Tokens)
    <2>1. CASE lock = None
      <3>1. Tokens' = Tokens
        BY <1>0, <1>1, <2>1 DEF Tokens
      <3> QED
        BY <1>2, <2>1, <3>1
    <2>2. CASE lock # None
      <3>1. lock \in Launches /\ token' = [token EXCEPT ![lock] = token'[lock]]
            /\ token'[lock] = FALSE
        BY <1>0, <1>1, <2>2 DEF TypeInv
      <3>2. Cardinality(Tokens') + One(token[lock]) = Cardinality(Tokens) + One(token'[lock])
        BY <1>0, <3>1, TokensCounted
      <3> QED
        BY <1>2, <2>2, <3>1, <3>2 DEF One
    <2> QED
      BY <2>1, <2>2
  <1>4. RefsInv' /\ refs' \in Nat /\ lost' \in Nat /\ lost <= lost'
    <2>1. refs \in Nat /\ lost \in Nat /\ refs = lost + Cardinality(Tokens) + SessionToken
      BY <1>0 DEF RefsInv, TypeInv
    <2>2. (IF lock # None /\ token[lock] THEN 1 ELSE 0) \in Nat
      OBVIOUS
    <2> QED
      BY <1>1, <1>2, <1>3, <2>1, <2>2 DEF RefsInv
  <1> QED
    BY <1>0, <1>1, <1>4, GoneInv DEF TypeInv

LEMMA PfHelperStopsStep ==
  ASSUME PfConstants, PfInv, PfHelperStops
  PROVE  PfInv'
  <1>0. TypeInv /\ SessionInv /\ RefsInv /\ None \notin Launches
    BY DEF PfInv, PfConstants
  <1>1. /\ alive /\ HelperGone /\ deaths' \in 0..MaxDeaths /\ session' = None /\ lock = None
        /\ token' = token
    BY <1>0 DEF PfHelperStops, Killable, HelperGone, TypeInv, PfConstants
  <1>2. token' = [l \in Launches |-> token[l] /\ l # lock] /\ Tokens' = Tokens
    BY <1>0, <1>1 DEF TypeInv, Tokens
  <1>3. /\ refs' - lost' = refs - lost - SessionToken /\ refs' \in Int /\ lost' \in Int
        /\ lost <= lost'
    BY <1>0 DEF PfHelperStops, SessionToken, TypeInv
  <1>4. RefsInv' /\ refs' \in Nat /\ lost' \in Nat
    <2>1. /\ SessionToken \in Nat /\ SessionToken' = 0 /\ Cardinality(Tokens) \in Nat
      BY <1>1, SubsetsFinite DEF SessionToken, Tokens
    <2>2. refs \in Nat /\ lost \in Nat /\ refs = lost + Cardinality(Tokens) + SessionToken
      BY <1>0 DEF RefsInv, TypeInv
    <2> QED
      BY <1>2, <1>3, <2>1, <2>2 DEF RefsInv
  <1>5. /\ anchor' \in [Owners -> Variants \cup {NoRules}]
        /\ \A s \in Owners : s \in disturbed' \/ anchor'[s] = anchor[s]
    BY <1>0 DEF PfHelperStops, HelperGone, TypeInv, Sessions
  <1> QED
    BY <1>1, <1>2, <1>3, <1>4, <1>5, GoneInv

\* The helper that starts may flush any anchor: everybody standing is marked.
LEMMA PfHelperStartsStep ==
  ASSUME PfConstants, PfInv, PfHelperStarts
  PROVE  PfInv'
  <1> USE DEF launch
  <1>0. /\ TypeInv /\ SessionInv /\ RefsInv /\ \A l \in Launches : Placed(l) /\ Guarded(l)
    BY DEF PfInv
  <1>1. /\ ~alive /\ alive' = TRUE
        /\ UNCHANGED <<lock, session, phase, backend, net, token, file, refs, lost, deaths>>
        /\ disturbed' = disturbed \cup {Owner(l) : l \in {l \in Launches : Standing(l)}}
        /\ anchor' \in [Owners -> Variants \cup {NoRules}]
    BY <1>0 DEF PfHelperStarts, TypeInv
  <1>2. lock = None /\ session = None
    BY <1>0, <1>1 DEF SessionInv
  <1>3. /\ disturbed' \subseteq Owners /\ disturbed \subseteq disturbed'
        /\ \A l \in Launches : Standing(l) => Owner(l) \in disturbed'
    BY <1>0, <1>1, Scopes DEF TypeInv
  <1>4. TypeInv'
    BY <1>0, <1>1, <1>3 DEF TypeInv
  <1>5. ASSUME NEW l \in Launches PROVE Placed(l)' /\ Guarded(l)'
    BY <1>0, <1>1, <1>3 DEF Placed, Guarded, Standing, Backed
  <1>6. SessionInv' /\ RefsInv'
    BY <1>0, <1>1, <1>2 DEF SessionInv, RefsInv, Tokens, SessionToken
  <1> QED
    BY <1>4, <1>5, <1>6 DEF PfInv

-----------------------------------------------------------------------------
(* The invariant and what follows from it.                                  *)

LEMMA PfInitInv == PfConstants /\ PfInit => PfInv
  <1> SUFFICES ASSUME PfConstants, PfInit PROVE PfInv
    OBVIOUS
  <1> USE DEF PfInit
  <1>1. TypeInv
    BY DEF TypeInv, Phases, PfConstants
  <1>2. \A l \in Launches : Placed(l) /\ Guarded(l)
    BY DEF Placed, Guarded, Standing, Busy, PfConstants
  <1>3. SessionInv
    BY DEF SessionInv
  <1>4. RefsInv
    <2>1. Tokens = {} /\ SessionToken = 0
      BY DEF Tokens, SessionToken
    <2> QED
      BY <2>1, FS_EmptySet DEF RefsInv
  <1> QED
    BY <1>1, <1>2, <1>3, <1>4 DEF PfInv

LEMMA PfNextInv == PfConstants /\ PfInv /\ [PfNext]_pfVars => PfInv'
  <1> SUFFICES ASSUME PfConstants, PfInv, [PfNext]_pfVars PROVE PfInv'
    OBVIOUS
  <1>1. ASSUME NEW l \in Launches,
               \/ AskHelper(l) \/ UseSudo(l) \/ RunRefused(l)
               \/ Check(l) \/ Enable(l) \/ EnableFails(l) \/ Load(l) \/ LoadFails(l) \/ Release(l)
               \/ SudoUninstall(l) \/ HelperUninstall(l) \/ Flush(l) \/ LaunchKilled(l)
        PROVE  PfInv'
    BY <1>1, QuietStep, AskHelperStep, EnableStep, LoadSudoStep, LoadHelperStep, ReleaseStep,
       HelperUninstallStep, FlushStep, LaunchKilledStep
  <1>2. CASE PfHelperDies \/ PfHelperStops \/ PfHelperStarts
    BY <1>2, PfHelperDiesStep, PfHelperStopsStep, PfHelperStartsStep
  <1>3. CASE UNCHANGED pfVars
    <2>1. UNCHANGED <<alive, lock, session, phase, backend, net, token, file, anchor, refs, lost,
                      deaths, disturbed>>
      BY <1>3 DEF pfVars, helper, launch, pf
    <2>2. TypeInv' /\ RefsInv' /\ SessionInv'
      BY <2>1 DEF PfInv, TypeInv, RefsInv, SessionInv, Tokens, SessionToken, Asked, Helped,
                  Standing
    <2>3. \A l \in Launches : Placed(l)' /\ Guarded(l)'
      BY <2>1 DEF PfInv, Placed, Guarded, Standing, Backed
    <2> QED
      BY <2>2, <2>3 DEF PfInv
  <1> QED
    BY <1>1, <1>2, <1>3 DEF PfNext

\* The helper's session counts the guards that stand on it, its mutex guards
\* whoever is between two commands, and PF's references add up.
THEOREM PfInvariance ==
  ASSUME PfConstants
  PROVE  PfSpec => []PfInv
  BY PfInitInv, PfNextInv, PTL DEF PfSpec

THEOREM PfTypeCorrect ==
  ASSUME PfConstants
  PROVE  PfSpec => []PfTypeOK
  <1>1. PfInv => PfTypeOK
    <2> SUFFICES ASSUME PfInv PROVE PfTypeOK
      OBVIOUS
    <2>1. session # None =>
            session.owner \in Owners /\ session.count \in 1..Cardinality(Launches)
      <3>1. /\ Cardinality(Asked) <= Cardinality(Launches)
            /\ Cardinality(Asked) \in Nat /\ Cardinality(Launches) \in Nat
        BY SubsetsFinite DEF Asked
      <3> QED
        BY <3>1 DEF PfInv, TypeInv, SessionInv, Sessions
    <2> QED
      BY <2>1 DEF PfInv, TypeInv, SessionInv, PfTypeOK
  <1> QED
    BY <1>1, PfInvariance, PTL

\* A standing guard has its own rules in force unless its anchor is shared or a
\* helper came or went; PF is on under it, and on for no longer than somebody
\* holds a reference or lost one.
THEOREM PfGuardsStand ==
  ASSUME PfConstants
  PROVE  PfSpec => []GuardsStand
  <1>1. PfInv => GuardsStand
    <2> SUFFICES ASSUME PfInv PROVE GuardsStand
      OBVIOUS
    <2>1. refs = lost + Cardinality({l \in Launches : token[l]})
                   + (IF session # None /\ session.token THEN 1 ELSE 0)
      BY DEF PfInv, RefsInv, Tokens, SessionToken
    <2>2. ASSUME NEW l \in Launches, Standing(l)
          PROVE  /\ Owner(l) \notin disturbed => anchor[AnchorName(l)] = net[l]
                 /\ Owner(l) \notin disturbed \/ backend[l] = "sudo" => refs > 0
      <3>1. Guarded(l) /\ Placed(l) /\ AnchorName(l) = Owner(l)
        BY Scopes DEF PfInv
      <3>2. backend[l] \in {"helper", "sudo"}
        BY <2>2, <3>1 DEF PfInv, TypeInv, Placed, Standing
      <3>3. ASSUME Owner(l) \notin disturbed \/ backend[l] = "sudo" PROVE refs > 0
        <4>1. token[l] \/ lost > 0 \/ (session # None /\ session.token)
          BY <2>2, <3>1, <3>2, <3>3 DEF Guarded, Backed, PfInv, SessionInv
        <4>2. Cardinality(Tokens) \in Nat /\ (token[l] => Cardinality(Tokens) >= 1)
          <5>1. {l} \subseteq Launches /\ Tokens \subseteq Launches /\ Cardinality({l}) = 1
            BY FS_Singleton DEF Tokens
          <5>2. token[l] => {l} \subseteq Tokens
            BY DEF Tokens
          <5>3. token[l] => Cardinality({l}) <= Cardinality(Tokens)
            BY <5>1, <5>2, SmallerSet
          <5> QED
            BY <5>1, <5>3, SubsetsFinite
        <4> QED
          BY <4>1, <4>2 DEF PfInv, TypeInv, RefsInv, SessionToken
      <3> QED
        BY <2>2, <3>1, <3>3 DEF Guarded
    <2> QED
      BY <2>1, <2>2 DEF GuardsStand
  <1> QED
    BY <1>1, PfInvariance, PTL
===============================================================================
