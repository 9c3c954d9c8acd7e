------------------------- MODULE SessionDaemon_proofs -------------------------
(***************************************************************************)
(* Proofs about SessionDaemon for any clients, any length of the output    *)
(* and any scrollback.                                                     *)
(***************************************************************************)
EXTENDS SessionDaemon, WellFoundedInduction, TLAPS

-------------------------------------------------------------------------------
(* The natural numbers have minima, and so what fails for some number fails *)
(* for a least one.                                                         *)

Less == {p \in Nat \X Nat : p[1] < p[2]}

LEMMA LeastElement ==
  ASSUME NEW S, S \subseteq Nat, S # {}
  PROVE  \E m \in S : \A n \in S : m <= n
  <1>1. IsWellFoundedOn(Less, Nat)
    BY NatLessThanWellFounded DEF OpToRel, Less
  <1>2. PICK m \in S : \A n \in S : ~ (<<n, m>> \in Less)
    BY <1>1, WFMin
  <1>3. ASSUME NEW n \in S PROVE m <= n
    <2>1. m \in Nat /\ n \in Nat /\ ~ (<<n, m>> \in Less)
      BY <1>2
    <2> QED
      BY <2>1 DEF Less
  <1> QED
    BY <1>3

-------------------------------------------------------------------------------
(* What dropping clients leaves of their list.                              *)

Distinct(s) == \A i, j \in DOMAIN s : s[i] = s[j] => i = j

\* keep is the function Without computes with, up to n.
IsKeep(keep, s, F, n) ==
  keep = [i \in 0..n |->
            IF i = 0 THEN <<>>
            ELSE IF s[i] \in F THEN keep[i - 1] ELSE Append(keep[i - 1], s[i])]

LEMMA KeepExists ==
  ASSUME NEW s \in Seq(Clients), NEW F
  PROVE  \E keep : IsKeep(keep, s, F, Len(s))
  <1> DEFINE S == {n \in Nat : n <= Len(s) /\ ~ \E keep : IsKeep(keep, s, F, n)}
  <1>1. SUFFICES ASSUME S # {} PROVE FALSE
    OBVIOUS
  <1>2. PICK m \in S : \A n \in S : m <= n
    BY <1>1, LeastElement
  <1>3. m # 0
    <2>1. IsKeep([i \in 0..0 |-> <<>>], s, F, 0)
      BY DEF IsKeep
    <2> QED
      BY <2>1, <1>2
  <1>4. PICK k : IsKeep(k, s, F, m - 1)
    <2>1. m - 1 \in Nat /\ m - 1 <= Len(s) /\ ~ (m <= m - 1)
      BY <1>2, <1>3
    <2> QED
      BY <2>1, <1>2
  <1> DEFINE e == [i \in 0..m |->
                     IF i = m THEN (IF s[m] \in F THEN k[m - 1] ELSE Append(k[m - 1], s[m]))
                     ELSE k[i]]
  <1>5. IsKeep(e, s, F, m)
    <2>1. \A i \in 0..m - 1 :
            k[i] = IF i = 0 THEN <<>>
                   ELSE IF s[i] \in F THEN k[i - 1] ELSE Append(k[i - 1], s[i])
      BY <1>4 DEF IsKeep
    <2>2. m \in Nat /\ \A i \in 0..m : i # m => i \in 0..m - 1 /\ (i # 0 => i - 1 \in 0..m - 1)
      BY <1>2
    <2>3. \A i \in 0..m :
            e[i] = IF i = 0 THEN <<>>
                   ELSE IF s[i] \in F THEN e[i - 1] ELSE Append(e[i - 1], s[i])
      BY <1>3, <2>1, <2>2
    <2> QED
      BY <2>3 DEF IsKeep
  <1> QED
    BY <1>2, <1>5

\* Dropping the clients in F leaves the others, once each.
LEMMA WithoutProperties ==
  ASSUME NEW s \in Seq(Clients), NEW F, Distinct(s)
  PROVE  /\ Without(s, F) \in Seq(Clients)
         /\ Distinct(Without(s, F))
         /\ Range(Without(s, F)) = Range(s) \ F
  <1> DEFINE N == Len(s)
             keep == CHOOSE k : IsKeep(k, s, F, N)
  <1>1. IsKeep(keep, s, F, N) /\ Without(s, F) = keep[N]
    <2>1. IsKeep(keep, s, F, N)
      BY KeepExists
    <2> QED
      BY <2>1 DEF Without, IsKeep
  <1> HIDE DEF keep
  <1>2. /\ keep[0] = <<>>
        /\ \A i \in 1..N : keep[i] = IF s[i] \in F THEN keep[i - 1] ELSE Append(keep[i - 1], s[i])
    <2>1. /\ N \in Nat /\ 0 \in 0..N
          /\ \A i \in 1..N : i \in 0..N /\ i # 0
      OBVIOUS
    <2>2. \A i \in 0..N :
            keep[i] = IF i = 0 THEN <<>>
                      ELSE IF s[i] \in F THEN keep[i - 1] ELSE Append(keep[i - 1], s[i])
      BY <1>1 DEF IsKeep
    <2> QED
      BY <2>1, <2>2
  <1> DEFINE Good(n) == /\ keep[n] \in Seq(Clients)
                        /\ \A i \in DOMAIN keep[n] :
                             keep[n][i] \notin F /\ \E j \in 1..n : keep[n][i] = s[j]
                        /\ \A j \in 1..n : s[j] \notin F => \E i \in DOMAIN keep[n] : keep[n][i] = s[j]
                        /\ Distinct(keep[n])
             S == {n \in Nat : n <= N /\ ~Good(n)}
  <1>3. Good(0)
    BY <1>2 DEF Distinct
  <1>4. ASSUME NEW m \in 1..N, Good(m - 1) PROVE Good(m)
    <2>0. s[m] \in Clients /\ m - 1 \in Nat
      OBVIOUS
    <2>1. CASE s[m] \in F
      <3>1. keep[m] = keep[m - 1]
        BY <1>2, <2>1
      <3> QED
        BY <1>4, <2>1, <3>1
    <2>2. CASE s[m] \notin F
      <3> DEFINE k == keep[m - 1]
      <3>1. keep[m] = Append(k, s[m]) /\ k \in Seq(Clients)
        BY <1>2, <1>4, <2>2
      <3>2. /\ keep[m] \in Seq(Clients) /\ DOMAIN keep[m] = 1..Len(k) + 1 /\ DOMAIN k = 1..Len(k)
            /\ Len(k) \in Nat
            /\ keep[m][Len(k) + 1] = s[m]
            /\ \A i \in 1..Len(k) : keep[m][i] = k[i]
        BY <3>1, <2>0
      <3>3. \A i \in 1..Len(k) : \E j \in 1..m - 1 : k[i] = s[j]
        BY <1>4, <3>2
      <3>4. \A i \in 1..Len(k) : k[i] # s[m]
        BY <3>3 DEF Distinct
      <3>5. \A i \in DOMAIN keep[m] :
              keep[m][i] \notin F /\ \E j \in 1..m : keep[m][i] = s[j]
        <4> SUFFICES ASSUME NEW i \in DOMAIN keep[m]
                     PROVE  keep[m][i] \notin F /\ \E j \in 1..m : keep[m][i] = s[j]
          OBVIOUS
        <4>1. CASE i = Len(k) + 1
          BY <2>2, <3>2, <4>1
        <4>2. CASE i \in 1..Len(k)
          <5>1. PICK j \in 1..m - 1 : k[i] = s[j]
            BY <3>3, <4>2
          <5>2. j \in 1..m /\ k[i] \notin F /\ keep[m][i] = k[i]
            BY <1>4, <3>2, <4>2
          <5> QED
            BY <5>1, <5>2
        <4> QED
          BY <3>2, <4>1, <4>2
      <3>6. \A j \in 1..m : s[j] \notin F => \E i \in DOMAIN keep[m] : keep[m][i] = s[j]
        <4> SUFFICES ASSUME NEW j \in 1..m, s[j] \notin F
                     PROVE  \E i \in DOMAIN keep[m] : keep[m][i] = s[j]
          OBVIOUS
        <4>1. CASE j = m
          BY <3>2, <4>1
        <4>2. CASE j # m
          <5>1. PICK i \in DOMAIN k : k[i] = s[j]
            BY <1>4, <4>2
          <5> QED
            BY <3>2, <5>1
        <4> QED
          BY <4>1, <4>2
      <3>7. Distinct(keep[m])
        <4>1. \A i, j \in 1..Len(k) : k[i] = k[j] => i = j
          BY <1>4, <3>2 DEF Distinct
        <4> HIDE DEF k
        <4> QED
          BY <3>2, <3>4, <4>1 DEF Distinct
      <3> QED
        BY <3>2, <3>5, <3>6, <3>7
    <2> QED
      BY <2>1, <2>2
  <1>5. Good(N)
    <2> HIDE DEF Good
    <2>1. SUFFICES ASSUME S # {} PROVE FALSE
      OBVIOUS
    <2>2. PICK m \in S : \A n \in S : m <= n
      BY <2>1, LeastElement
    <2>3. m \in 1..N /\ m - 1 \in Nat /\ m - 1 <= N /\ ~ (m <= m - 1)
      BY <2>2, <1>3
    <2>4. Good(m - 1)
      BY <2>2, <2>3
    <2> QED
      BY <1>4, <2>2, <2>3, <2>4
  <1>6. Range(keep[N]) = Range(s) \ F
    BY <1>5 DEF Range
  <1> QED
    BY <1>1, <1>5, <1>6

LEMMA RemoveAtProperties ==
  ASSUME NEW s \in Seq(Clients), NEW i \in 1..Len(s), Distinct(s)
  PROVE  /\ RemoveAt(s, i) \in Seq(Clients) /\ Len(RemoveAt(s, i)) = Len(s) - 1
         /\ Distinct(RemoveAt(s, i))
         /\ Range(RemoveAt(s, i)) = Range(s) \ {s[i]}
  <1> DEFINE t == RemoveAt(s, i)
  <1>1. /\ t \in Seq(Clients) /\ Len(t) = Len(s) - 1
        /\ \A j \in 1..Len(t) : t[j] = IF j < i THEN s[j] ELSE s[j + 1]
    <2> DEFINE a == SubSeq(s, 1, i - 1)
               b == SubSeq(s, i + 1, Len(s))
    <2>1. /\ i \in Nat /\ Len(s) \in Nat /\ 1 <= i /\ i <= Len(s)
          /\ \A j \in 1..Len(s) : s[j] \in Clients
      OBVIOUS
    <2>2. /\ a \in Seq(Clients) /\ Len(a) = i - 1
          /\ \A j \in 1..i - 1 : a[j] = s[j]
      BY <2>1
    <2>3. b \in Seq(Clients) /\ Len(b) = Len(s) - i
      BY <2>1
    <2>4. \A j \in 1..Len(s) - i : b[j] = s[i + j]
      BY <2>1, <2>3
    <2>5. t = a \o b
      BY DEF RemoveAt
    <2> HIDE DEF a, b, t
    <2>6. /\ t \in Seq(Clients) /\ Len(t) = Len(a) + Len(b)
          /\ \A j \in 1..Len(t) : t[j] = IF j <= Len(a) THEN a[j] ELSE b[j - Len(a)]
      <3>1. a \in Seq(Clients) /\ b \in Seq(Clients)
        BY <2>2, <2>3
      <3>2. a \o b \in Seq(Clients)
        BY <3>1
      <3>3. Len(a \o b) = Len(a) + Len(b)
        BY <3>1
      <3>4. t \in Seq(Clients) /\ Len(t) = Len(a) + Len(b)
        BY <2>5, <3>2, <3>3
      <3>5. \A j \in 1..Len(a) + Len(b) : t[j] = IF j <= Len(a) THEN a[j] ELSE b[j - Len(a)]
        BY <2>2, <2>3, <2>5
      <3> QED
        BY <3>4, <3>5
    <2>7. Len(t) = Len(s) - 1
      BY <2>1, <2>2, <2>3, <2>6
    <2>8. ASSUME NEW j \in 1..Len(t) PROVE t[j] = IF j < i THEN s[j] ELSE s[j + 1]
      <3>1. CASE j < i
        <4>1. j <= Len(a) /\ j \in 1..i - 1
          BY <2>1, <2>2, <3>1
        <4> QED
          BY <2>2, <2>6, <3>1, <4>1
      <3>2. CASE ~ (j < i)
        <4>1. /\ ~ (j <= Len(a)) /\ j - Len(a) \in 1..Len(s) - i
              /\ i + (j - Len(a)) = j + 1
          BY <2>1, <2>2, <2>7, <3>2
        <4> QED
          BY <2>4, <2>6, <3>2, <4>1
      <3> QED
        BY <3>1, <3>2
    <2> QED
      BY <2>6, <2>7, <2>8
  <1> HIDE DEF t
  <1>2. Distinct(t)
    <2> SUFFICES ASSUME NEW j \in 1..Len(t), NEW k \in 1..Len(t), t[j] = t[k] PROVE j = k
      BY <1>1 DEF Distinct
    <2> DEFINE at(x) == IF x < i THEN x ELSE x + 1
    <2>1. at(j) \in DOMAIN s /\ at(k) \in DOMAIN s
      BY <1>1
    <2>2. s[at(j)] = s[at(k)]
      BY <1>1
    <2>3. at(j) = at(k)
      <3> HIDE DEF at
      <3> QED
        BY <2>1, <2>2 DEF Distinct
    <2> QED
      BY <2>3, <1>1
  <1>3. ASSUME NEW j \in 1..Len(s), j # i PROVE \E k \in 1..Len(t) : t[k] = s[j]
    <2>1. CASE j < i
      BY <1>1, <2>1
    <2>2. CASE j > i
      <3>1. j - 1 \in 1..Len(t) /\ ~ (j - 1 < i) /\ (j - 1) + 1 = j
        BY <1>1, <2>2
      <3> QED
        BY <1>1, <3>1
    <2> QED
      BY <1>3, <2>1, <2>2
  <1>4. \A k \in 1..Len(t) : \E j \in 1..Len(s) : j # i /\ t[k] = s[j]
    BY <1>1
  <1>5. Range(t) = Range(s) \ {s[i]}
    <2>1. DOMAIN t = 1..Len(t) /\ DOMAIN s = 1..Len(s)
      BY <1>1
    <2>2. \A j \in 1..Len(s) : s[j] = s[i] => j = i
      BY <2>1 DEF Distinct
    <2>3. ASSUME NEW c \in Range(t) PROVE c \in Range(s) \ {s[i]}
      <3>1. PICK k \in 1..Len(t) : c = t[k]
        BY <2>1 DEF Range
      <3>2. PICK j \in 1..Len(s) : j # i /\ t[k] = s[j]
        BY <1>4
      <3> QED
        BY <2>1, <2>2, <3>1, <3>2 DEF Range
    <2>4. ASSUME NEW c \in Range(s), c # s[i] PROVE c \in Range(t)
      <3>1. PICK j \in 1..Len(s) : c = s[j]
        BY <2>1 DEF Range
      <3>2. PICK k \in 1..Len(t) : t[k] = s[j]
        BY <1>3, <2>4, <3>1
      <3> QED
        BY <2>1, <3>1, <3>2 DEF Range
    <2> QED
      BY <2>3, <2>4
  <1> QED
    BY <1>1, <1>2, <1>5 DEF t

LEMMA AppendClient ==
  ASSUME NEW s \in Seq(Clients), NEW c \in Clients, Distinct(s), c \notin Range(s)
  PROVE  /\ Append(s, c) \in Seq(Clients)
         /\ Distinct(Append(s, c))
         /\ Range(Append(s, c)) = Range(s) \cup {c}
  <1> DEFINE t == Append(s, c)
  <1>1. /\ t \in Seq(Clients) /\ DOMAIN t = 1..Len(s) + 1 /\ DOMAIN s = 1..Len(s)
        /\ t[Len(s) + 1] = c /\ \A i \in 1..Len(s) : t[i] = s[i]
    OBVIOUS
  <1> HIDE DEF t
  <1>2. Distinct(t)
    BY <1>1 DEF Distinct, Range
  <1>3. Range(t) = Range(s) \cup {c}
    BY <1>1 DEF Range
  <1> QED
    BY <1>1, <1>2, <1>3 DEF t

-------------------------------------------------------------------------------
(* Stretches of the output.                                                 *)

\* What a client that attaches now has to be shown at least.
Replayed(n) == IF n < Scrollback THEN n ELSE Scrollback

\* s is a stretch of the output that ends at chunk n and fills the scrollback.
Stretch(s, n) ==
  /\ s \in Seq(1..MaxChunks)
  /\ Consecutive(s)
  /\ s # <<>> => Last(s) = n
  /\ Len(s) >= Replayed(n)

LEMMA StretchGrows ==
  ASSUME NEW n \in 0..MaxChunks - 1, NEW s, Stretch(s, n)
  PROVE  Stretch(Append(s, n + 1), n + 1) /\ Len(Append(s, n + 1)) = Len(s) + 1
  <1> DEFINE t == Append(s, n + 1)
  <1>1. /\ MaxChunks \in Nat /\ Scrollback \in Nat \ {0} /\ n \in Nat /\ n + 1 \in 1..MaxChunks
        /\ s \in Seq(1..MaxChunks) /\ Len(s) \in Nat
    BY BoundsAssumption DEF Stretch
  <1>2. /\ t \in Seq(1..MaxChunks) /\ Len(t) = Len(s) + 1 /\ t[Len(s) + 1] = n + 1
        /\ \A i \in 1..Len(s) : t[i] = s[i]
    BY <1>1
  <1> HIDE DEF t
  <1>3. s # <<>> => Len(s) > 0 /\ s[Len(s)] = n
    BY <1>1 DEF Stretch, Last
  <1>4. Consecutive(t)
    <2> SUFFICES ASSUME NEW i \in 1..Len(s) PROVE t[i + 1] = t[i] + 1
      BY <1>1, <1>2 DEF Consecutive
    <2>1. CASE i = Len(s)
      BY <1>1, <1>2, <1>3, <2>1
    <2>2. CASE i # Len(s)
      <3>1. i \in 1..Len(s) - 1 /\ i + 1 \in 1..Len(s)
        BY <1>1, <2>2
      <3> QED
        BY <1>2, <3>1 DEF Stretch, Consecutive
    <2> QED
      BY <2>1, <2>2
  <1>5. Len(t) >= Replayed(n + 1) /\ Last(t) = n + 1
    BY <1>1, <1>2 DEF Stretch, Replayed, Last
  <1> QED
    BY <1>2, <1>4, <1>5 DEF Stretch, t

\* Trimming to the size of the scrollback keeps a stretch one.
LEMMA StretchTrimmed ==
  ASSUME NEW n \in Nat, NEW s, Stretch(s, n)
  PROVE  Stretch(LastChunks(s), n) /\ Len(LastChunks(s)) <= Scrollback
  <1>1. /\ Scrollback \in Nat \ {0} /\ s \in Seq(1..MaxChunks) /\ Len(s) \in Nat
        /\ \A i \in 1..Len(s) : s[i] \in 1..MaxChunks
    BY BoundsAssumption DEF Stretch
  <1>2. CASE ~ (Len(s) > Scrollback)
    BY <1>1, <1>2 DEF LastChunks
  <1>3. CASE Len(s) > Scrollback
    <2> DEFINE first == Len(s) - Scrollback + 1
               t == SubSeq(s, first, Len(s))
    <2>1. first \in 1..Len(s) /\ Len(s) - first + 1 = Scrollback
      BY <1>1, <1>3
    <2>2. /\ t \in Seq(1..MaxChunks) /\ Len(t) = Scrollback
          /\ \A i \in 1..Scrollback : t[i] = s[first - 1 + i]
      BY <1>1, <2>1
    <2>3. LastChunks(s) = t
      BY <1>3 DEF LastChunks
    <2> HIDE DEF t, first
    <2>4. Consecutive(t)
      <3> SUFFICES ASSUME NEW i \in 1..Scrollback - 1 PROVE t[i + 1] = t[i] + 1
        BY <2>2 DEF Consecutive
      <3>1. /\ first - 1 + i \in 1..Len(s) - 1 /\ (first - 1 + i) + 1 = first - 1 + (i + 1)
            /\ i \in 1..Scrollback /\ i + 1 \in 1..Scrollback
        BY <1>1, <2>1
      <3> QED
        BY <2>2, <3>1 DEF Stretch, Consecutive
    <2>5. Last(t) = n
      <3>1. first - 1 + Scrollback = Len(s) /\ Scrollback \in 1..Scrollback /\ s # <<>>
        BY <1>1, <1>3, <2>1
      <3> QED
        BY <2>2, <3>1 DEF Stretch, Last
    <2>6. Len(t) >= Replayed(n)
      BY <1>1, <2>2 DEF Replayed
    <2> QED
      BY <1>1, <2>2, <2>3, <2>4, <2>5, <2>6 DEF Stretch
  <1> QED
    BY <1>2, <1>3

-------------------------------------------------------------------------------
(* The invariant.                                                           *)

\* The walk leaves its offset at zero for the next iteration.
WalkInv == pc # "walk" => offset = 0

\* The list of clients holds every connection taken on and not yet dropped,
\* once; so a process that comes again is not taken for its old connection.
LinkInv ==
  /\ Distinct(clients)
  /\ \A c \in Clients : c \in Range(clients) <=> link[c] \in {"open", "closed"}

\* The scrollback, and what each client was sent, end at the last chunk read.
OutputInv ==
  /\ Stretch(scrollback, drained)
  /\ \A c \in Range(clients) : Stretch(recv[c], drained)

\* A terminal is given up once it is read empty or by a kill, and the loop is
\* left once the agent has exited; what clients are told comes last.
ExitInv ==
  /\ polled.exit \/ exitSeen \/ pc \in {"final", "gone"} => agent = "exited"
  /\ ~master /\ ~killed => drained = written
  /\ pc = "final" => exitSeen
  /\ pc = "gone" /\ ~killed => drained >= atExit
  /\ \A c \in Clients :
       told[c] => pc = "gone" /\ (recv[c] = <<>> \/ Last(recv[c]) = drained)

DaemonInv == TypeOK /\ WalkInv /\ LinkInv /\ OutputInv /\ ExitInv

LEMMA DaemonInit == Init => DaemonInv
  <1> SUFFICES ASSUME Init PROVE DaemonInv
    OBVIOUS
  <1> USE BoundsAssumption DEF Init
  <1>1. TypeOK
    <2>1. /\ clients \in Seq(Clients) /\ Len(clients) = 0 /\ offset = 0
          /\ scrollback \in Seq(1..MaxChunks) /\ Len(scrollback) = 0
          /\ <<>> \in Seq(1..MaxChunks)
      OBVIOUS
    <2>2. polled.entries \in Seq(Clients) /\ polled.ready \subseteq DOMAIN polled.entries
      BY DEF NoPoll
    <2>3. {polled.listener, polled.exit, polled.master, master, exitSeen, killed} \subseteq BOOLEAN
      BY DEF NoPoll
    <2>4. MaxChunks \in Nat /\ Scrollback \in Nat
      OBVIOUS
    <2>5. /\ link \in [Clients -> Links] /\ stopped \in [Clients -> BOOLEAN]
          /\ told \in [Clients -> BOOLEAN] /\ recv \in [Clients -> Seq(1..MaxChunks)]
          /\ inbox \in [Clients -> {<<>>} \cup {<<f>> : f \in Frames}]
      BY <2>1 DEF Links
    <2>6. /\ pc \in {"poll", "accept", "drain", "walk", "final", "gone"}
          /\ offset \in 0..Len(clients) /\ Len(scrollback) <= Scrollback
          /\ drained \in 0..MaxChunks /\ written \in drained..MaxChunks
          /\ agent \in {"running", "exited"} /\ children \in BOOLEAN /\ atExit \in 0..written
      <3>1. 0 \in 0..MaxChunks /\ 0 \in 0..0 /\ 0 <= Scrollback
        BY <2>4
      <3>2. /\ pc = "poll" /\ drained = 0 /\ written = 0 /\ agent = "running"
            /\ children = FALSE /\ atExit = 0
        OBVIOUS
      <3> HIDE DEF Init
      <3> QED
        BY <2>1, <3>1, <3>2
    <2> HIDE DEF Init
    <2> QED
      BY <2>1, <2>2, <2>3, <2>5, <2>6 DEF TypeOK
  <1>2. WalkInv
    BY DEF WalkInv
  <1>3. LinkInv
    BY DEF LinkInv, Distinct, Range
  <1>4. Stretch(<<>>, 0)
    BY DEF Stretch, Consecutive, Replayed
  <1>5. OutputInv
    BY <1>4 DEF OutputInv, Range
  <1>6. ExitInv
    BY DEF ExitInv, NoPoll
  <1> QED
    BY <1>1, <1>2, <1>3, <1>5, <1>6 DEF DaemonInv

\* What every step must keep of the connections to keep the list of clients.
LEMMA SameClients ==
  ASSUME DaemonInv, clients' = clients, drained' = drained, scrollback' = scrollback,
         \A c \in Clients : link'[c] \in {"open", "closed"} <=> link[c] \in {"open", "closed"},
         \A c \in Range(clients) : recv'[c] = recv[c]
  PROVE  LinkInv' /\ OutputInv'
  <1>1. Range(clients)' = Range(clients)
    BY DEF Range
  <1>2. LinkInv'
    BY <1>1 DEF DaemonInv, LinkInv, Distinct
  <1>3. OutputInv'
    BY <1>1 DEF DaemonInv, OutputInv
  <1> QED
    BY <1>2, <1>3

-------------------------------------------------------------------------------
(* The processes at the other ends.                                         *)

LEMMA EnvironmentStep ==
  ASSUME DaemonInv, Environment
  PROVE  DaemonInv'
  <1> USE DEF daemonVars, agentVars, clientVars
  <1>0. TypeOK /\ WalkInv /\ LinkInv /\ OutputInv /\ ExitInv
    BY DEF DaemonInv
  <1>1. ASSUME NEW c \in Clients, Connect(c) PROVE DaemonInv'
    <2>1. c \notin Range(clients)
      BY <1>0, <1>1 DEF LinkInv, Connect
    <2>2. \A d \in Clients : d # c => recv'[d] = recv[d] /\ link'[d] = link[d]
      BY <1>0, <1>1 DEF Connect, TypeOK
    <2>3. link[c] = "away" /\ link'[c] = "connecting"
      BY <1>0, <1>1 DEF Connect, TypeOK
    <2>4. TypeOK'
      BY <1>0, <1>1 DEF Connect, TypeOK, Links
    <2>5. Range(clients) \subseteq Clients
      BY <1>0 DEF TypeOK, Range
    <2>6. LinkInv' /\ OutputInv'
      <3>1. \A d \in Clients : link'[d] \in {"open", "closed"} <=> link[d] \in {"open", "closed"}
        BY <2>2, <2>3
      <3>2. \A d \in Range(clients) : recv'[d] = recv[d]
        BY <2>1, <2>2, <2>5
      <3> QED
        BY <1>1, <3>1, <3>2, SameClients DEF Connect
    <2>7. WalkInv' /\ ExitInv'
      BY <1>0, <1>1, <2>2 DEF Connect, WalkInv, ExitInv
    <2> QED
      BY <2>4, <2>6, <2>7 DEF DaemonInv
  <1>2. ASSUME NEW c \in Clients, Send(c) PROVE DaemonInv'
    <2>1. TypeOK'
      BY <1>0, <1>2 DEF Send, TypeOK
    <2>2. LinkInv' /\ OutputInv'
      BY <1>2, SameClients DEF Send
    <2>3. WalkInv' /\ ExitInv'
      BY <1>0, <1>2 DEF Send, WalkInv, ExitInv
    <2> QED
      BY <2>1, <2>2, <2>3 DEF DaemonInv
  <1>3. ASSUME NEW c \in Clients, Close(c) PROVE DaemonInv'
    <2>1. TypeOK'
      BY <1>0, <1>3 DEF Close, TypeOK, Links
    <2>2. \A d \in Clients : link'[d] \in {"open", "closed"} <=> link[d] \in {"open", "closed"}
      BY <1>0, <1>3 DEF Close, TypeOK
    <2>3. LinkInv' /\ OutputInv'
      BY <1>3, <2>2, SameClients DEF Close
    <2>4. WalkInv' /\ ExitInv'
      BY <1>0, <1>3 DEF Close, WalkInv, ExitInv
    <2> QED
      BY <2>1, <2>3, <2>4 DEF DaemonInv
  <1>4. ASSUME NEW c \in Clients, Stop(c) PROVE DaemonInv'
    <2>1. TypeOK'
      BY <1>0, <1>4 DEF Stop, TypeOK
    <2>2. LinkInv' /\ OutputInv'
      BY <1>4, SameClients DEF Stop
    <2>3. WalkInv' /\ ExitInv'
      BY <1>0, <1>4 DEF Stop, WalkInv, ExitInv
    <2> QED
      BY <2>1, <2>2, <2>3 DEF DaemonInv
  <1>5. ASSUME NEW c \in Clients, Return(c) PROVE DaemonInv'
    <2>1. TypeOK'
      BY <1>0, <1>5 DEF Return, TypeOK, Links
    <2>2. \A d \in Clients : link'[d] \in {"open", "closed"} <=> link[d] \in {"open", "closed"}
      BY <1>0, <1>5 DEF Return, TypeOK
    <2>3. LinkInv' /\ OutputInv'
      BY <1>5, <2>2, SameClients DEF Return
    <2>4. \A d \in Clients : told'[d] => told[d]
      BY <1>0, <1>5 DEF Return, TypeOK
    <2>5. WalkInv' /\ ExitInv'
      BY <1>0, <1>5, <2>4 DEF Return, WalkInv, ExitInv
    <2> QED
      BY <2>1, <2>3, <2>5 DEF DaemonInv
  <1>6. CASE Write
    <2>1. TypeOK'
      BY <1>0, <1>6, BoundsAssumption DEF Write, TypeOK
    <2>2. LinkInv' /\ OutputInv'
      BY <1>6, SameClients DEF Write
    <2>3. WalkInv' /\ ExitInv'
      BY <1>0, <1>6 DEF Write, WalkInv, ExitInv
    <2> QED
      BY <2>1, <2>2, <2>3 DEF DaemonInv
  <1>7. CASE AgentExits
    <2>1. TypeOK'
      <3>1. children' \in BOOLEAN
        BY <1>7, BoundsAssumption DEF AgentExits
      <3>2. written \in Nat /\ atExit' \in 0..written'
        BY <1>0, <1>7, BoundsAssumption DEF AgentExits, TypeOK
      <3> QED
        BY <1>0, <1>7, <3>1, <3>2 DEF AgentExits, TypeOK
    <2>2. LinkInv' /\ OutputInv'
      BY <1>7, SameClients DEF AgentExits
    <2>3. WalkInv' /\ ExitInv'
      BY <1>0, <1>7 DEF AgentExits, WalkInv, ExitInv
    <2> QED
      BY <2>1, <2>2, <2>3 DEF DaemonInv
  <1>8. CASE ChildrenExit
    <2>1. TypeOK'
      BY <1>0, <1>8 DEF ChildrenExit, TypeOK
    <2>2. LinkInv' /\ OutputInv'
      BY <1>8, SameClients DEF ChildrenExit
    <2>3. WalkInv' /\ ExitInv'
      BY <1>0, <1>8 DEF ChildrenExit, WalkInv, ExitInv
    <2> QED
      BY <2>1, <2>2, <2>3 DEF DaemonInv
  <1> QED
    BY <1>1, <1>2, <1>3, <1>4, <1>5, <1>6, <1>7, <1>8 DEF Environment

-------------------------------------------------------------------------------
(* The steps of the loop.                                                   *)

\* Dropping the links of F, and taking its members from the list.
LEMMA DropF ==
  ASSUME DaemonInv, NEW F \in SUBSET Range(clients), DropLinks(F)
  PROVE  /\ link' \in [Clients -> Links]
         /\ Without(clients, F) \in Seq(Clients)
         /\ Distinct(Without(clients, F))
         /\ Range(Without(clients, F)) = Range(clients) \ F
         /\ \A c \in Clients :
              c \in Range(clients) \ F <=> link'[c] \in {"open", "closed"}
  <1>1. clients \in Seq(Clients) /\ Distinct(clients) /\ link \in [Clients -> Links]
    BY DEF DaemonInv, TypeOK, LinkInv
  <1>2. \A c \in Clients : link'[c] = IF c \in F THEN "dropped" ELSE link[c]
    BY DEF DropLinks
  <1>3. link' \in [Clients -> Links]
    BY <1>1 DEF DropLinks, Links
  <1>4. \A c \in Clients : c \in Range(clients) <=> link[c] \in {"open", "closed"}
    BY DEF DaemonInv, LinkInv
  <1> QED
    BY <1>1, <1>2, <1>3, <1>4, WithoutProperties

LEMMA ReadChunkStep ==
  ASSUME DaemonInv, ReadChunk, pc \in {"drain", "final"}
  PROVE  DaemonInv'
  <1>0. TypeOK /\ WalkInv /\ LinkInv /\ OutputInv /\ ExitInv
    BY DEF DaemonInv
  <1>1. PICK F \in Failures(clients) :
          /\ clients' = Without(clients, F)
          /\ DropLinks(F)
          /\ recv' = [c \in Clients |-> IF c \in Range(clients) \ F
                                       THEN Append(recv[c], drained + 1) ELSE recv[c]]
    BY DEF ReadChunk
  <1>2. F \in SUBSET Range(clients)
    BY DEF Failures
  <1>3. /\ link' \in [Clients -> Links] /\ clients' \in Seq(Clients) /\ Distinct(clients')
        /\ Range(clients') = Range(clients) \ F
        /\ \A c \in Clients : c \in Range(clients') <=> link'[c] \in {"open", "closed"}
    BY <1>1, <1>2, DropF
  <1>4. /\ MaxChunks \in Nat /\ drained \in 0..MaxChunks - 1 /\ drained' = drained + 1
        /\ drained' \in 0..MaxChunks /\ written' \in drained'..MaxChunks
    BY <1>0, BoundsAssumption DEF ReadChunk, TypeOK, agentVars
  <1>5. Stretch(scrollback', drained') /\ Len(scrollback') <= Scrollback
    <2>1. Stretch(Append(scrollback, drained + 1), drained + 1)
      BY <1>0, <1>4, StretchGrows DEF OutputInv
    <2>2. drained + 1 \in Nat
      BY <1>4
    <2> QED
      BY <1>4, <2>1, <2>2, StretchTrimmed DEF ReadChunk, Scroll
  <1>6. \A c \in Range(clients') : Stretch(recv'[c], drained')
    <2> SUFFICES ASSUME NEW c \in Range(clients) \ F PROVE Stretch(recv'[c], drained')
      BY <1>3
    <2>1. c \in Clients /\ Stretch(recv[c], drained)
      <3>1. c \in Range(clients) /\ Range(clients) \subseteq Clients
        BY <1>0 DEF TypeOK, Range
      <3> QED
        BY <1>0, <3>1 DEF OutputInv
    <2>2. recv'[c] = Append(recv[c], drained + 1)
      BY <1>1, <2>1
    <2> QED
      BY <1>4, <2>1, <2>2, StretchGrows
  <1>7. recv' \in [Clients -> Seq(1..MaxChunks)]
    <2>1. \A c \in Clients : recv[c] \in Seq(1..MaxChunks)
      BY <1>0 DEF TypeOK
    <2>2. drained + 1 \in 1..MaxChunks
      BY <1>4
    <2>3. \A c \in Clients : Append(recv[c], drained + 1) \in Seq(1..MaxChunks)
      BY <2>1, <2>2
    <2> QED
      BY <1>1, <2>1, <2>3
  <1>8. offset' = 0 /\ offset' \in 0..Len(clients')
    BY <1>0, <1>3 DEF WalkInv, ReadChunk
  <1>9. TypeOK'
    <2>1. scrollback' \in Seq(1..MaxChunks)
      BY <1>5 DEF Stretch
    <2> QED
      BY <1>0, <1>3, <1>4, <1>5, <1>7, <1>8, <2>1 DEF TypeOK, ReadChunk, agentVars
  <1>10. LinkInv' /\ OutputInv' /\ WalkInv'
    BY <1>3, <1>5, <1>6, <1>8 DEF LinkInv, OutputInv, WalkInv
  <1>11. ExitInv'
    BY <1>0 DEF ExitInv, ReadChunk, agentVars
  <1> QED
    BY <1>9, <1>10, <1>11 DEF DaemonInv

LEMMA AcceptStep ==
  ASSUME DaemonInv, NEW c \in Clients, Accept(c)
  PROVE  DaemonInv'
  <1>0. TypeOK /\ WalkInv /\ LinkInv /\ OutputInv /\ ExitInv
    BY DEF DaemonInv
  <1>1. c \notin Range(clients) /\ link[c] = "connecting" /\ pc = "accept"
    BY <1>0 DEF Accept, LinkInv
  <1>2. CASE /\ clients' = Append(clients, c)
             /\ recv' = [recv EXCEPT ![c] = scrollback]
             /\ link' = [link EXCEPT ![c] = "open"]
    <2>1. /\ clients' \in Seq(Clients) /\ Distinct(clients')
          /\ Range(clients') = Range(clients) \cup {c}
      BY <1>0, <1>1, <1>2, AppendClient DEF TypeOK, LinkInv
    <2>2. /\ recv' \in [Clients -> Seq(1..MaxChunks)] /\ recv'[c] = scrollback
          /\ \A d \in Clients : d # c => recv'[d] = recv[d] /\ link'[d] = link[d]
          /\ link' \in [Clients -> Links] /\ link'[c] = "open"
      BY <1>0, <1>2 DEF TypeOK, Links
    <2>3. offset' = 0 /\ offset' \in 0..Len(clients')
      BY <1>0, <1>1, <2>1 DEF WalkInv, Accept
    <2>4. TypeOK'
      BY <1>0, <2>1, <2>2, <2>3 DEF TypeOK, Accept, agentVars
    <2>5. LinkInv'
      BY <1>0, <2>1, <2>2 DEF LinkInv
    <2>6. OutputInv'
      <3>1. Range(clients) \subseteq Clients
        BY <1>0 DEF TypeOK, Range
      <3>2. scrollback' = scrollback /\ drained' = drained
        BY DEF Accept
      <3> QED
        BY <1>0, <2>1, <2>2, <3>1, <3>2 DEF OutputInv
    <2>7. WalkInv' /\ ExitInv'
      BY <1>0, <1>1, <2>3 DEF WalkInv, ExitInv, Accept, agentVars
    <2> QED
      BY <2>4, <2>5, <2>6, <2>7 DEF DaemonInv
  <1>3. CASE DropLinks({c}) /\ UNCHANGED <<clients, recv>>
    <2>1. \A d \in Clients : link'[d] = IF d = c THEN "dropped" ELSE link[d]
      BY <1>3 DEF DropLinks
    <2>2. link' \in [Clients -> Links]
      BY <1>0, <1>3 DEF DropLinks, Links, TypeOK
    <2>3. TypeOK'
      BY <1>0, <1>3, <2>2 DEF TypeOK, Accept, agentVars
    <2>4. LinkInv' /\ OutputInv'
      BY <1>1, <1>3, <2>1, SameClients DEF Accept
    <2>5. WalkInv' /\ ExitInv'
      BY <1>0, <1>3 DEF WalkInv, ExitInv, Accept, agentVars
    <2> QED
      BY <2>3, <2>4, <2>5 DEF DaemonInv
  <1> QED
    BY <1>2, <1>3 DEF Accept

LEMMA ServiceStep ==
  ASSUME DaemonInv, Service
  PROVE  DaemonInv'
  <1> DEFINE c == clients[offset]
  <1>0. TypeOK /\ WalkInv /\ LinkInv /\ OutputInv /\ ExitInv
    BY DEF DaemonInv
  <1>1. /\ pc = "walk" /\ clients \in Seq(Clients) /\ offset \in 1..Len(clients) /\ c \in Clients
        /\ offset' = offset - 1
    BY <1>0 DEF Service, TypeOK
  <1>2. /\ killed' = (killed \/ inbox[c] = <<"kill">>)
        /\ master' = MasterAfter(c)
        /\ inbox' = [inbox EXCEPT ![c] = <<>>]
        /\ IF Kept(c) THEN UNCHANGED <<clients, link>> ELSE DropClient
    BY DEF Service
  <1>3. /\ killed' \in BOOLEAN /\ master' \in BOOLEAN
        /\ inbox' \in [Clients -> {<<>>} \cup {<<f>> : f \in Frames}]
    <2>1. master \in BOOLEAN /\ killed \in BOOLEAN
      BY <1>0 DEF TypeOK
    <2>2. killed' \in BOOLEAN /\ master' \in BOOLEAN
      BY <1>2, <2>1 DEF MasterAfter
    <2> QED
      BY <1>0, <1>2, <2>2 DEF TypeOK
  <1>4. ExitInv'
    <2>1. ~master' /\ ~killed' => ~master /\ ~killed
      BY <1>2 DEF MasterAfter
    <2>2. UNCHANGED <<pc, polled, drained, exitSeen, agentVars, recv, told>>
      BY DEF Service
    <2> QED
      BY <1>0, <1>1, <2>1, <2>2 DEF ExitInv, agentVars
  <1>5. WalkInv'
    BY <1>1 DEF WalkInv, Service
  <1>6. CASE Kept(c)
    <2>1. UNCHANGED <<clients, link>>
      BY <1>2, <1>6
    <2>2. LinkInv' /\ OutputInv'
      BY <2>1, SameClients DEF Service
    <2>3. offset' \in 0..Len(clients')
      BY <1>1, <2>1
    <2>4. TypeOK'
      BY <1>0, <1>3, <2>1, <2>3 DEF TypeOK, Service, agentVars
    <2> QED
      BY <1>4, <1>5, <2>2, <2>4 DEF DaemonInv
  <1>7. CASE ~Kept(c)
    <2>1. clients' = RemoveAt(clients, offset) /\ DropLinks({c})
      BY <1>2, <1>7 DEF DropClient
    <2>2. /\ clients' \in Seq(Clients) /\ Len(clients') = Len(clients) - 1
          /\ Distinct(clients') /\ Range(clients') = Range(clients) \ {c}
      BY <1>0, <1>1, <2>1, RemoveAtProperties DEF LinkInv
    <2>3. /\ link' \in [Clients -> Links]
          /\ \A d \in Clients : link'[d] = IF d = c THEN "dropped" ELSE link[d]
      BY <1>0, <2>1 DEF DropLinks, Links, TypeOK
    <2>4. offset' \in 0..Len(clients')
      BY <1>1, <2>2
    <2>5. TypeOK'
      BY <1>0, <1>3, <2>2, <2>3, <2>4 DEF TypeOK, Service, agentVars
    <2>6. LinkInv'
      BY <1>0, <2>2, <2>3 DEF LinkInv
    <2>7. OutputInv'
      BY <1>0, <2>2 DEF OutputInv, Service
    <2> QED
      BY <1>4, <1>5, <2>5, <2>6, <2>7 DEF DaemonInv
  <1> QED
    BY <1>6, <1>7

LEMMA FarewellStep ==
  ASSUME DaemonInv, Farewell
  PROVE  DaemonInv'
  <1>0. TypeOK /\ WalkInv /\ LinkInv /\ OutputInv /\ ExitInv
    BY DEF DaemonInv
  <1>1. PICK F \in Failures(clients) :
          told' = [c \in Clients |-> told[c] \/ c \in Range(clients) \ F]
    BY DEF Farewell
  <1>2. /\ pc = "final" /\ pc' = "gone" /\ clients' = <<>> /\ offset' = 0
        /\ UNCHANGED <<polled, master, scrollback, drained, exitSeen, killed, agentVars,
                      inbox, stopped, recv>>
    BY <1>0 DEF Farewell, WalkInv
  <1>3. /\ link' \in [Clients -> Links]
        /\ \A c \in Clients : link'[c] \notin {"open", "closed"}
    BY DEF Farewell, Links
  <1>4. /\ clients' \in Seq(Clients) /\ Len(clients') = 0 /\ Range(clients') = {}
        /\ Distinct(clients')
    BY <1>2 DEF Range, Distinct
  <1>5. told' \in [Clients -> BOOLEAN]
    <2>1. \A c \in Clients : (told[c] \/ c \in Range(clients) \ F) \in BOOLEAN
      OBVIOUS
    <2> QED
      BY <1>1, <2>1
  <1>6. TypeOK'
    BY <1>0, <1>2, <1>3, <1>4, <1>5 DEF TypeOK, agentVars
  <1>7. LinkInv' /\ OutputInv' /\ WalkInv'
    BY <1>0, <1>2, <1>3, <1>4 DEF LinkInv, OutputInv, WalkInv
  <1>8. ExitInv'
    <2>1. agent' = "exited"
      BY <1>0, <1>2 DEF ExitInv, agentVars
    <2>2. ASSUME ~killed' PROVE drained' >= atExit'
      <3>1. drained = written
        BY <1>0, <1>2, <2>2 DEF Farewell, ExitInv
      <3> QED
        BY <1>0, <1>2, <3>1, BoundsAssumption DEF TypeOK, agentVars
    <2>3. ASSUME NEW c \in Clients, told'[c]
          PROVE  recv'[c] = <<>> \/ Last(recv'[c]) = drained'
      <3>1. ~told[c]
        BY <1>0, <1>2 DEF ExitInv
      <3>2. Stretch(recv[c], drained)
        BY <1>0, <1>1, <2>3, <3>1 DEF OutputInv
      <3> QED
        BY <1>2, <3>2 DEF Stretch
    <2>4. ~master' /\ ~killed' => drained' = written'
      BY <1>0, <1>2 DEF ExitInv, agentVars
    <2> QED
      BY <1>2, <2>1, <2>2, <2>3, <2>4 DEF ExitInv
  <1> QED
    BY <1>6, <1>7, <1>8 DEF DaemonInv

LEMMA LoopStep ==
  ASSUME DaemonInv, Loop
  PROVE  DaemonInv'
  <1>0. TypeOK /\ WalkInv /\ LinkInv /\ OutputInv /\ ExitInv
    BY DEF DaemonInv
  <1>1. CASE Poll
    <2>1. /\ polled'.entries \in Seq(Clients) /\ polled'.ready \subseteq DOMAIN polled'.entries
          /\ {polled'.listener, polled'.exit, polled'.master} \subseteq BOOLEAN
          /\ polled'.exit => agent = "exited"
      <3>1. /\ polled'.entries = clients /\ polled'.listener = ListenerReady
            /\ polled'.ready = {i \in DOMAIN clients : ClientReady(clients[i])}
            /\ polled'.exit = ExitReady /\ polled'.master = MasterReady
        BY <1>1 DEF Poll
      <3>2. ListenerReady \in BOOLEAN /\ ExitReady \in BOOLEAN /\ MasterReady \in BOOLEAN
        BY <1>0 DEF ListenerReady, ExitReady, MasterReady, TypeOK
      <3> QED
        BY <1>0, <3>1, <3>2 DEF TypeOK, ExitReady
    <2>2. TypeOK'
      BY <1>0, <1>1, <2>1 DEF TypeOK, Poll, agentVars, clientVars
    <2>3. LinkInv' /\ OutputInv'
      BY <1>1, SameClients DEF Poll, clientVars
    <2>4. WalkInv' /\ ExitInv'
      BY <1>0, <1>1, <2>1 DEF WalkInv, ExitInv, Poll, agentVars, clientVars
    <2> QED
      BY <2>2, <2>3, <2>4 DEF DaemonInv
  <1>2. ASSUME NEW c \in Clients, Accept(c) PROVE DaemonInv'
    BY <1>2, AcceptStep
  <1>3. CASE Accepted
    <2>1. TypeOK'
      BY <1>0, <1>3 DEF TypeOK, Accepted, agentVars, clientVars
    <2>2. LinkInv' /\ OutputInv'
      BY <1>3, SameClients DEF Accepted, clientVars
    <2>3. WalkInv' /\ ExitInv'
      BY <1>0, <1>3 DEF WalkInv, ExitInv, Accepted, agentVars, clientVars
    <2> QED
      BY <2>1, <2>2, <2>3 DEF DaemonInv
  <1>4. CASE Drain
    BY <1>4, ReadChunkStep DEF Drain
  <1>5. CASE Drained
    <2>1. master' \in BOOLEAN /\ offset' \in 0..Len(clients')
      <3>1. Len(clients) \in Nat /\ clients' = clients /\ offset' = Len(clients)
        BY <1>0, <1>5 DEF TypeOK, Drained
      <3>2. master' \in BOOLEAN
        BY <1>5 DEF Drained
      <3> QED
        BY <3>1, <3>2
    <2>2. TypeOK'
      BY <1>0, <1>5, <2>1 DEF TypeOK, Drained, agentVars, clientVars
    <2>3. LinkInv' /\ OutputInv'
      BY <1>5, SameClients DEF Drained, clientVars
    <2>4. WalkInv' /\ ExitInv'
      BY <1>0, <1>5 DEF WalkInv, ExitInv, Drained, ClosedByRead, agentVars, clientVars
    <2> QED
      BY <2>2, <2>3, <2>4 DEF DaemonInv
  <1>6. CASE WalkPast
    <2>1. offset' \in 0..Len(clients')
      BY <1>0, <1>6 DEF TypeOK, WalkPast
    <2>2. TypeOK'
      BY <1>0, <1>6, <2>1 DEF TypeOK, WalkPast, agentVars, clientVars
    <2>3. LinkInv' /\ OutputInv'
      BY <1>6, SameClients DEF WalkPast, clientVars
    <2>4. WalkInv' /\ ExitInv'
      BY <1>0, <1>6 DEF WalkInv, ExitInv, WalkPast, agentVars, clientVars
    <2> QED
      BY <2>2, <2>3, <2>4 DEF DaemonInv
  <1>7. CASE Service
    BY <1>7, ServiceStep
  <1>8. CASE Walked
    <2>1. TypeOK'
      BY <1>0, <1>8 DEF TypeOK, Walked, NoPoll, agentVars, clientVars
    <2>2. LinkInv' /\ OutputInv'
      BY <1>8, SameClients DEF Walked, clientVars
    <2>3. WalkInv' /\ ExitInv'
      BY <1>0, <1>8 DEF WalkInv, ExitInv, Walked, NoPoll, agentVars, clientVars
    <2> QED
      BY <2>1, <2>2, <2>3 DEF DaemonInv
  <1>9. CASE FinalDrain
    BY <1>9, ReadChunkStep DEF FinalDrain
  <1>10. CASE Farewell
    BY <1>10, FarewellStep
  <1> QED
    BY <1>1, <1>2, <1>3, <1>4, <1>5, <1>6, <1>7, <1>8, <1>9, <1>10 DEF Loop

-------------------------------------------------------------------------------
(* The theorems.                                                            *)

LEMMA DaemonStep == DaemonInv /\ [Next]_vars => DaemonInv'
  <1> SUFFICES ASSUME DaemonInv, [Next]_vars PROVE DaemonInv'
    OBVIOUS
  <1>1. CASE UNCHANGED vars
    <2>1. TypeOK'
      BY <1>1 DEF DaemonInv, TypeOK, vars, daemonVars, agentVars, clientVars
    <2>2. LinkInv' /\ OutputInv'
      BY <1>1, SameClients DEF vars, daemonVars, clientVars
    <2>3. WalkInv' /\ ExitInv'
      BY <1>1 DEF DaemonInv, WalkInv, ExitInv, vars, daemonVars, agentVars, clientVars
    <2> QED
      BY <2>1, <2>2, <2>3 DEF DaemonInv
  <1>2. CASE Next
    BY <1>2, EnvironmentStep, LoopStep DEF Next
  <1> QED
    BY <1>1, <1>2

\* The inductive invariant.  Code: session/daemon.rs, run and its helpers.
THEOREM DaemonInvariance == Spec => []DaemonInv
  BY DaemonInit, DaemonStep, PTL DEF Spec

\* The daemon's state has its types.  Code: session/daemon.rs, run.
THEOREM DaemonTypeCorrect == Spec => []TypeOK
  <1>1. DaemonInv => TypeOK
    BY DEF DaemonInv
  <1> QED
    BY <1>1, DaemonInvariance, PTL

\* Whenever a client attached, and whoever else comes, stalls or goes, it was
\* sent one stretch of the output up to the last chunk read, long enough to
\* fill the scrollback.  Code: accept_clients, drain_master, broadcast, the
\* trimming of the scrollback.
THEOREM ClientsSeeOneStretch == Spec => []ClientsSeeTheOutput
  <1>1. DaemonInv => ClientsSeeTheOutput
    BY DEF DaemonInv, OutputInv, Stretch, Replayed, ClientsSeeTheOutput
  <1> QED
    BY <1>1, DaemonInvariance, PTL

\* Whoever is told of the exit was sent everything the agent wrote before it,
\* unless the session was killed.  Code: run's final drain and Exited frame.
THEOREM ExitComesLast == Spec => []ExitAfterAllOutput
  <1>1. DaemonInv => ExitAfterAllOutput
    BY DEF DaemonInv, ExitInv, ExitAfterAllOutput
  <1> QED
    BY <1>1, DaemonInvariance, PTL

-------------------------------------------------------------------------------
(* Who is dropped.                                                          *)

\* Where accepted streams block, as on Linux, the daemon drops only clients
\* that closed, that do not read what they are sent, or that sent what a
\* client may not send.  Code: broadcast, service_client, CLIENT_WRITE_TIMEOUT.
THEOREM GoodClientsAreKept ==
  ASSUME BlockingReads PROVE Spec => GoodClientsKept
  <1> DEFINE Kind(c) == link[c] = "open" /\ link'[c] = "dropped"
                          => stopped[c] \/ inbox[c] = <<"bad">> \/ told'[c]
  <1>1. ASSUME DaemonInv, [Next]_vars PROVE [\A c \in Clients : Kind(c)]_vars
    <2> SUFFICES ASSUME Next, NEW c \in Clients, link[c] = "open", link'[c] = "dropped"
                 PROVE  stopped[c] \/ inbox[c] = <<"bad">> \/ told'[c]
      BY <1>1
    <2>0. /\ TypeOK /\ LinkInv /\ c \in Range(clients) /\ link' # link
          /\ link \in [Clients -> Links]
      BY <1>1 DEF DaemonInv, LinkInv, TypeOK
    <2>1. CASE Environment
      BY <2>0, <2>1 DEF Environment, Connect, Send, Close, Stop, Return, Write, AgentExits,
                        ChildrenExit, clientVars
    <2>2. ASSUME NEW d \in Clients, Accept(d) PROVE FALSE
      <3>1. link[d] = "connecting" /\ c # d
        BY <2>2 DEF Accept
      <3>2. link'[c] = link[c]
        BY <2>0, <2>2, <3>1 DEF Accept, DropLinks
      <3> QED
        BY <3>2
    <2>3. CASE ReadChunk
      <3>1. PICK F \in Failures(clients) : DropLinks(F)
        BY <2>3 DEF ReadChunk
      <3>2. c \in F
        BY <3>1 DEF DropLinks
      <3> QED
        BY <3>2 DEF Failures, MayFail, MustFail
    <2>4. CASE Service
      <3> DEFINE d == clients[offset]
      <3>1. ~Kept(d) /\ DropLinks({d}) /\ ClientReady(d)
        BY <2>0, <2>4 DEF Service, DropClient
      <3>2. d = c
        BY <3>1 DEF DropLinks
      <3>3. inbox[c] \in {<<>>} \cup {<<f>> : f \in Frames}
        BY <2>0 DEF TypeOK
      <3> QED
        BY <3>1, <3>2, <3>3 DEF Kept, ClientReady, Frames
    <2>5. CASE Farewell
      <3>1. PICK F \in Failures(clients) :
              told' = [e \in Clients |-> told[e] \/ e \in Range(clients) \ F]
        BY <2>5 DEF Farewell
      <3>2. CASE c \in F
        BY <3>2 DEF Failures, MayFail, MustFail
      <3>3. CASE c \notin F
        BY <2>0, <3>1, <3>3
      <3> QED
        BY <3>2, <3>3
    <2>6. CASE Poll \/ Accepted \/ Drained \/ WalkPast \/ Walked
      BY <2>0, <2>6 DEF Poll, Accepted, Drained, WalkPast, Walked, clientVars
    <2> QED
      BY <2>1, <2>2, <2>3, <2>4, <2>5, <2>6 DEF Next, Loop, Drain, FinalDrain
  <1>2. DaemonInv /\ [Next]_vars => [\A c \in Clients : Kind(c)]_vars
    BY <1>1
  <1> QED
    BY <1>2, DaemonInvariance, PTL DEF Spec, GoodClientsKept
===============================================================================
