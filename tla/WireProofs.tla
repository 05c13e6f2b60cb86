----------------------------- MODULE WireProofs -----------------------------
(***************************************************************************)
(* Proofs about Wire and the three modules it is built from, for every     *)
(* value of their constants.                                               *)
(*                                                                         *)
(* What a loop of the code computes is a recursive function of the model:  *)
(* f[i] is where it stands after i characters.  That there is such a       *)
(* function, and what holds of each f[i], needs induction over i.  Here    *)
(* it is stated for sets instead of operators (Upto, Iterates), and rests  *)
(* on the fact that a set of numbers has a least one.                      *)
(*                                                                         *)
(* Both readers are followed by a place: what is still to be read of a     *)
(* message is what was sent from that place on, as far as it came, and the *)
(* place is the beginning of a line or of a block.                         *)
(***************************************************************************)
EXTENDS Wire, SequenceTheorems, FiniteSetTheorems, TLAPS

-----------------------------------------------------------------------------
(* Induction                                                                *)

\* Of some of the numbers up to n, one is the least.
LEMMA LeastOf ==
    ASSUME NEW n \in Nat, NEW S \in SUBSET (0 .. n), S # {}
    PROVE  \E m \in S : \A k \in S : m <= k
  <1> DEFINE T == 0 .. n
             P == {0 .. k : k \in S}
  <1>1. IsFiniteSet(T)
    BY FS_Interval
  <1>2. P \subseteq FiniteSubsetsOf(T) /\ P # {}
    <2>1. \A k \in S : 0 .. k \in SUBSET T /\ IsFiniteSet(0 .. k)
      BY FS_Interval
    <2> QED BY <2>1 DEF FiniteSubsetsOf
  <1>3. PICK p \in P : \A q \in P : <<q, p>> \notin StrictSubsetOrdering(T)
    <2> HIDE DEF P
    <2> QED BY <1>1, <1>2, FS_StrictSubsetOrderingWellFounded, WFMin
  <1>4. PICK m \in S : p = 0 .. m
    OBVIOUS
  <1>5. ASSUME NEW k \in S, k < m PROVE FALSE
    <2>1. 0 .. k \subseteq 0 .. m /\ m \in 0 .. m /\ m \notin 0 .. k
          /\ 0 .. k \in SUBSET T /\ 0 .. m \in SUBSET T
      BY <1>5
    <2>2. <<0 .. k, p>> \in StrictSubsetOrdering(T)
      BY <1>4, <2>1 DEF StrictSubsetOrdering
    <2> QED BY <1>3, <2>2
  <1> QED BY <1>5

\* Induction: a set with m, and with each number after one that it has, has all.
LEMMA UpTo ==
    ASSUME NEW m \in Nat, NEW n \in Nat, NEW S, m \in S,
           \A i \in m + 1 .. n : i - 1 \in S => i \in S
    PROVE  \A i \in m .. n : i \in S
  <1> DEFINE missing == {i \in 0 .. n : m <= i /\ i \notin S}
  <1> SUFFICES ASSUME missing # {} PROVE FALSE
    OBVIOUS
  <1>1. PICK i \in missing : \A k \in missing : i <= k
    <2>1. missing \in SUBSET (0 .. n)
      OBVIOUS
    <2> HIDE DEF missing
    <2> QED BY <2>1, LeastOf
  <1>2. i # m /\ i \in m + 1 .. n /\ i \notin S
    OBVIOUS
  <1>3. i - 1 \in S
    <2>1. i - 1 \in 0 .. n /\ m <= i - 1 /\ ~(i <= i - 1)
      BY <1>2
    <2> QED BY <1>1, <2>1
  <1> QED BY <1>2, <1>3

\* A loop of n steps over states in T, and its states.
Steps(step, n, T)        == step \in [1 .. n -> [T -> T]]
Loop(f, T, base, n, step) ==
    /\ f \in [0 .. n -> T]
    /\ \A i \in 0 .. n : f[i] = IF i = 0 THEN base ELSE step[i][f[i - 1]]

\* There is such a loop.
LEMMA Iterates ==
    ASSUME NEW T, NEW base, NEW n, NEW step, base \in T, n \in Nat, Steps(step, n, T)
    PROVE  \E f : Loop(f, T, base, n, step)
  <1> DEFINE Runs(f, m) == /\ f \in [0 .. m -> T]
                           /\ \A i \in 0 .. m : f[i] = IF i = 0 THEN base ELSE step[i][f[i - 1]]
             S == {m \in 0 .. n : \E f : Runs(f, m)}
  <1>1. 0 \in S
    <2>1. Runs([i \in 0 .. 0 |-> base], 0)
      OBVIOUS
    <2> HIDE DEF Runs
    <2> QED BY <2>1
  <1>2. ASSUME NEW m \in 0 + 1 .. n, m - 1 \in S PROVE m \in S
    <2>1. PICK f : Runs(f, m - 1)
      BY <1>2
    <2> DEFINE g == [i \in 0 .. m |-> IF i = m THEN step[m][f[m - 1]] ELSE f[i]]
    <2>2. g \in [0 .. m -> T]
      <3>1. f[m - 1] \in T /\ step[m] \in [T -> T] /\ \A i \in 0 .. m : i # m => f[i] \in T
        BY <2>1 DEF Steps
      <3> QED BY <3>1
    <2>3. ASSUME NEW i \in 0 .. m
          PROVE  g[i] = IF i = 0 THEN base ELSE step[i][g[i - 1]]
      <3>1. CASE i = m
        <4>1. g[i] = step[m][f[m - 1]] /\ g[m - 1] = f[m - 1] /\ i # 0
          BY <3>1
        <4> QED BY <3>1, <4>1
      <3>2. CASE i # m
        <4>1. i \in 0 .. m - 1 /\ g[i] = f[i] /\ (i # 0 => g[i - 1] = f[i - 1])
          BY <3>2
        <4> HIDE DEF g
        <4> QED BY <2>1, <4>1
      <3> QED BY <3>1, <3>2
    <2> HIDE DEF g
    <2>4. Runs(g, m)
      BY <2>2, <2>3
    <2> QED BY <2>4
  <1> HIDE DEF S
  <1>3. \A i \in 0 .. n : i \in S
    <2>1. 0 \in Nat /\ \A i \in 0 + 1 .. n : i - 1 \in S => i \in S
      BY <1>2
    <2> QED BY <1>1, <2>1, UpTo
  <1>4. n \in S
    BY <1>3
  <1> QED BY <1>4 DEF S, Loop
-----------------------------------------------------------------------------
(* Texts                                                                    *)

\* A scan of s, as strip_think goes through it.
Unopened  == [out |-> <<>>, inside |-> FALSE, last |-> ""]
ScanType(S) == [out : Seq(S), inside : BOOLEAN, last : S \cup {""}]
Scan(f, s) == f = [i \in 0 .. Len(s) |-> IF i = 0 THEN Unopened ELSE Scans(f[i - 1], s[i])]

\* All but the last of a sequence.
LEMMA FrontProperties ==
    ASSUME NEW S, NEW s \in Seq(S)
    PROVE  /\ Front(s) \in Seq(S)
           /\ s # <<>> => /\ Len(Front(s)) = Len(s) - 1
                          /\ \A i \in 1 .. Len(s) - 1 : Front(s)[i] = s[i]
  <1> DEFINE n == Len(s)
             x == SubSeq(s, 1, n - 1)
  <1>1. n \in Nat /\ \A i \in 1 .. n : s[i] \in S
    BY LenProperties, ElementOfSeq
  <1>2. /\ x \in Seq(S)
        /\ Len(x) = IF 1 <= n - 1 THEN n - 1 - 1 + 1 ELSE 0
        /\ \A i \in 1 .. n - 1 - 1 + 1 : x[i] = s[1 + i - 1]
    <2>1. 1 \in Int /\ n - 1 \in Int /\ \A i \in 1 .. n - 1 : s[i] \in S
      BY <1>1
    <2> QED BY <2>1, SubSeqProperties
  <1>3. s # <<>> => n >= 1
    BY <1>1, EmptySeq
  <1>4. Front(s) = x
    BY DEF Front
  <1> HIDE DEF n, x
  <1>5. s # <<>> => Len(x) = n - 1
    BY <1>1, <1>2, <1>3
  <1>6. \A i \in 1 .. n - 1 : 1 + i - 1 = i /\ i \in 1 .. n - 1 - 1 + 1
    BY <1>1
  <1>7. \A i \in 1 .. n - 1 : x[i] = s[i]
    BY <1>2, <1>6
  <1> QED BY <1>2, <1>4, <1>5, <1>7 DEF n

\* One character more makes a scan of a scan.
LEMMA ScansType ==
    ASSUME NEW S, NEW scan \in ScanType(S), NEW c \in S
    PROVE  Scans(scan, c) \in ScanType(S)
  <1> DEFINE tag == <<scan.last, c>>
  <1>1. /\ scan.out \in Seq(S) /\ scan.inside \in BOOLEAN /\ scan.last \in S \cup {""}
        /\ scan = [out |-> scan.out, inside |-> scan.inside, last |-> scan.last]
    BY DEF ScanType
  <1>2. Front(scan.out) \in Seq(S)
    BY <1>1, FrontProperties
  <1>3. Append(scan.out, c) \in Seq(S)
    BY <1>1, AppendProperties
  <1>4. CASE ~scan.inside /\ tag = Open
    <2>1. Scans(scan, c) = [out |-> Front(scan.out), inside |-> TRUE, last |-> ""]
      BY <1>4 DEF Scans
    <2>2. [out |-> Front(scan.out), inside |-> TRUE, last |-> ""] \in ScanType(S)
      BY <1>2 DEF ScanType
    <2> QED BY <2>1, <2>2
  <1>5. CASE ~scan.inside /\ tag # Open
    <2>1. Scans(scan, c) = [out |-> Append(scan.out, c), inside |-> FALSE, last |-> c]
      BY <1>5 DEF Scans
    <2>2. [out |-> Append(scan.out, c), inside |-> FALSE, last |-> c] \in ScanType(S)
      BY <1>1, <1>3 DEF ScanType
    <2> QED BY <2>1, <2>2
  <1>6. CASE scan.inside /\ tag = Close
    <2>1. Scans(scan, c) = [out |-> scan.out, inside |-> FALSE, last |-> ""]
      BY <1>6 DEF Scans
    <2>2. [out |-> scan.out, inside |-> FALSE, last |-> ""] \in ScanType(S)
      BY <1>1 DEF ScanType
    <2> QED BY <2>1, <2>2
  <1>7. CASE scan.inside /\ tag # Close
    <2>1. Scans(scan, c) = [out |-> scan.out, inside |-> TRUE, last |-> c]
      BY <1>7 DEF Scans
    <2>2. [out |-> scan.out, inside |-> TRUE, last |-> c] \in ScanType(S)
      BY <1>1 DEF ScanType
    <2> QED BY <2>1, <2>2
  <1> QED BY <1>1, <1>4, <1>5, <1>6, <1>7

\* Every text has its scan, and StripThink is what is left at its end.
LEMMA ScanOfText ==
    ASSUME NEW S, NEW s \in Seq(S)
    PROVE  \E f : /\ f \in [0 .. Len(s) -> ScanType(S)] /\ Scan(f, s)
                  /\ StripThink(s) = f[Len(s)].out
  <1> DEFINE n == Len(s)
             step == [i \in 1 .. n |-> [x \in ScanType(S) |-> Scans(x, s[i])]]
             scan == CHOOSE f : Scan(f, s)
  <1>0. n \in Nat
    BY LenProperties
  <1>1. n \in Nat /\ \A i \in 1 .. n : s[i] \in S
    BY LenProperties, ElementOfSeq
  <1>2. Unopened \in ScanType(S)
    BY EmptySeq DEF Unopened, ScanType
  <1>3. Steps(step, n, ScanType(S))
    BY <1>1, ScansType DEF Steps
  <1>4. PICK g : Loop(g, ScanType(S), Unopened, n, step)
    <2> HIDE DEF n, step
    <2> QED BY <1>0, <1>2, <1>3, Iterates
  <1>5. \A i \in 0 .. n : g[i] = IF i = 0 THEN Unopened ELSE Scans(g[i - 1], s[i])
    <2> SUFFICES ASSUME NEW i \in 0 .. n, i # 0 PROVE g[i] = Scans(g[i - 1], s[i])
      BY <1>4 DEF Loop
    <2>1. i \in 1 .. n /\ i - 1 \in 0 .. n /\ g[i - 1] \in ScanType(S)
      BY <1>1, <1>4 DEF Loop
    <2> QED BY <1>4, <2>1 DEF Loop
  <1>6. Scan(g, s)
    BY <1>4, <1>5 DEF Scan, Loop
  <1>7. Scan(scan, s)
    BY <1>6
  <1>8. StripThink(s) = scan[n].out
    BY DEF StripThink, Scan, Unopened
  <1> HIDE DEF scan, step
  <1>9. scan \in [0 .. n -> ScanType(S)]
    <2> DEFINE X == {i \in 0 .. n : scan[i] \in ScanType(S)}
    <2>1. \A i \in 0 .. n : scan[i] = IF i = 0 THEN Unopened ELSE Scans(scan[i - 1], s[i])
      BY <1>7 DEF Scan
    <2>2. 0 \in X
      BY <1>1, <1>2, <2>1
    <2>3. ASSUME NEW i \in 0 + 1 .. n, i - 1 \in X PROVE i \in X
      BY <1>1, <2>1, <2>3, ScansType
    <2> HIDE DEF X
    <2>4. \A i \in 0 .. n : i \in X
      BY <1>1, <2>2, <2>3, UpTo
    <2> QED BY <1>7, <2>4 DEF X, Scan
  <1> QED BY <1>7, <1>8, <1>9
\* So nothing comes to a text by it.
LEMMA StripThinkType == ASSUME NEW S, NEW s \in Seq(S) PROVE StripThink(s) \in Seq(S)
  <1>1. PICK f : f \in [0 .. Len(s) -> ScanType(S)] /\ StripThink(s) = f[Len(s)].out
    BY ScanOfText
  <1>2. Len(s) \in Nat
    BY LenProperties
  <1>3. f[Len(s)] \in ScanType(S)
    BY <1>1, <1>2
  <1> QED BY <1>1, <1>3 DEF ScanType

\* A single character is no tag.
LEMMA StripThinkOne == ASSUME NEW c \in Char PROVE StripThink(<<c>>) = <<c>>
  <1> DEFINE s == <<c>>
  <1>1. s \in Seq(Char) /\ Len(s) = 1 /\ s[1] = c
    OBVIOUS
  <1> HIDE DEF s
  <1>2. PICK f : /\ f \in [0 .. Len(s) -> ScanType(Char)] /\ Scan(f, s)
                 /\ StripThink(s) = f[Len(s)].out
    BY <1>1, ScanOfText
  <1>3. f[0] = Unopened /\ f[1] = Scans(f[0], c)
    BY <1>1, <1>2 DEF Scan
  <1>4. <<Unopened.last, c>> # Open /\ Unopened.inside = FALSE /\ Unopened.out = <<>>
    BY DEF Unopened, Open
  <1>5. Scans(Unopened, c) = [out |-> Append(Unopened.out, c), inside |-> FALSE, last |-> c]
    BY <1>4 DEF Scans
  <1>6. f[1].out = <<c>>
    <2>1. f[1].out = Append(<<>>, c)
      BY <1>3, <1>4, <1>5
    <2> QED BY <2>1
  <1> QED BY <1>1, <1>2, <1>6 DEF s

\* The pieces of ss one after the other, as FlattenSeq puts them together: f[i]
\* are the first i of them.
Flattens(f, ss) == /\ f[0] = <<>>
                   /\ \A i \in 1 .. Len(ss) : f[i] = f[i - 1] \o ss[i]

\* FlattenSeq joins the pieces from the first to the last.
LEMMA FlattenOfPieces ==
    ASSUME NEW S, NEW ss \in Seq(Seq(S))
    PROVE  \E f : /\ f \in [0 .. Len(ss) -> Seq(S)] /\ Flattens(f, ss)
                  /\ FlattenSeq(ss) = f[Len(ss)]
  <1> DEFINE n == Len(ss)
             A == Seq(S)
             step == [i \in 1 .. n |-> [x \in A |-> x \o ss[i]]]
             Def(f) == f = [i \in 1 .. n |-> IF i = 1 THEN ss[i] ELSE f[i - 1] \o ss[i]]
             flat == CHOOSE f : Def(f)
  <1>0. n \in Nat
    BY LenProperties
  <1>1. \A i \in 1 .. n : ss[i] \in A
    BY LenProperties, ElementOfSeq
  <1>2. <<>> \in A
    BY EmptySeq
  <1>3. Steps(step, n, A)
    <2>1. \A i \in 1 .. n : \A x \in A : x \o ss[i] \in A
      BY <1>1, ConcatProperties
    <2> HIDE DEF A
    <2> QED BY <2>1 DEF Steps
  <1>4. PICK g : Loop(g, A, <<>>, n, step)
    <2> HIDE DEF n, step, A
    <2> QED BY <1>0, <1>2, <1>3, Iterates
  <1>5. g \in [0 .. n -> A] /\ g[0] = <<>> /\ \A i \in 1 .. n : g[i] = g[i - 1] \o ss[i]
    <2> HIDE DEF A, n, step
    <2>1. g \in [0 .. n -> A] /\ g[0] = <<>>
      BY <1>0, <1>4 DEF Loop
    <2>2. ASSUME NEW i \in 1 .. n PROVE g[i] = g[i - 1] \o ss[i]
      <3>1. i \in 0 .. n /\ i # 0 /\ i - 1 \in 0 .. n /\ g[i - 1] \in A
        BY <1>0, <2>1
      <3> USE DEF step
      <3> QED BY <1>4, <3>1 DEF Loop
    <2> QED BY <2>1, <2>2
  <1>6. Def([i \in 1 .. n |-> g[i]])
    <2> DEFINE h == [i \in 1 .. n |-> g[i]]
    <2>1. ASSUME NEW i \in 1 .. n PROVE h[i] = IF i = 1 THEN ss[i] ELSE h[i - 1] \o ss[i]
      <3>1. CASE i = 1
        <4>1. g[i - 1] = <<>>
          <5>1. i - 1 = 0
            BY <3>1
          <5> QED BY <1>5, <5>1, Zenon
        <4>2. g[i] = g[i - 1] \o ss[i]
          BY <1>5, Zenon
        <4>3. g[i] = <<>> \o ss[i]
          BY <4>1, <4>2, Zenon
        <4> QED BY <1>1, <3>1, <4>3, ConcatEmptySeq
      <3>2. CASE i # 1
        <4>1. i - 1 \in 1 .. n
          BY <1>0, <3>2
        <4> QED BY <1>5, <3>2, <4>1
      <3> QED BY <3>1, <3>2
    <2> HIDE DEF h
    <2>2. h = [i \in 1 .. n |-> h[i]]
      BY DEF h
    <2>3. Def(h)
      BY <2>1, <2>2
    <2> QED BY <2>3 DEF h
  <1>7. Def(flat)
    BY <1>6
  <1>8. n # 0 => FlattenSeq(ss) = flat[n]
    BY DEF FlattenSeq
  <1>9. n = 0 => FlattenSeq(ss) = <<>>
    BY EmptySeq DEF FlattenSeq
  <1> HIDE DEF flat, n
  <1>10. \A i \in 1 .. n : flat[i] = g[i]
    <2> DEFINE T == {i \in 0 .. n : i # 0 => flat[i] = g[i]}
    <2>1. ASSUME NEW i \in 0 + 1 .. n, i - 1 \in T PROVE i \in T
      <3>1. i \in 1 .. n /\ i \in 0 .. n
        BY <1>0
      <3>2. flat[i] = IF i = 1 THEN ss[i] ELSE flat[i - 1] \o ss[i]
        BY <1>7, <3>1, Zenon
      <3>3. g[i] = g[i - 1] \o ss[i]
        BY <1>5, <3>1, Zenon
      <3>4. CASE i = 1
        <4>1. g[i - 1] = <<>>
          <5>1. i - 1 = 0
            BY <3>4
          <5> QED BY <1>5, <5>1, Zenon
        <4>2. g[i] = <<>> \o ss[i]
          BY <3>3, <4>1, Zenon
        <4>3. ss[i] \in Seq(S)
          BY <1>1, <3>1, Zenon
        <4>4. g[i] = ss[i]
          BY <4>2, <4>3, ConcatEmptySeq
        <4> QED BY <3>1, <3>2, <3>4, <4>4
      <3>5. CASE i # 1
        <4>1. flat[i - 1] = g[i - 1]
          BY <1>0, <2>1, <3>5
        <4>2. flat[i] = flat[i - 1] \o ss[i]
          BY <3>2, <3>5, Zenon
        <4>3. flat[i] = g[i]
          BY <3>3, <4>1, <4>2, Zenon
        <4> QED BY <3>1, <4>3
      <3> QED BY <3>4, <3>5
    <2>2. 0 \in T
      BY <1>0
    <2> HIDE DEF T
    <2>3. \A i \in 0 .. n : i \in T
      BY <1>0, <2>1, <2>2, UpTo
    <2> QED BY <1>0, <2>3 DEF T
  <1>11. FlattenSeq(ss) = g[n]
    <2>1. CASE n = 0
      BY <1>5, <1>9, <2>1
    <2>2. CASE n # 0
      <3>1. n \in 1 .. n
        BY <1>0, <2>2
      <3> QED BY <1>8, <1>10, <2>2, <3>1
    <2> QED BY <2>1, <2>2
  <1>12. Flattens(g, ss)
    BY <1>5, Zenon DEF Flattens, n
  <1> QED BY <1>5, <1>11, <1>12, Zenon DEF n
-----------------------------------------------------------------------------
(* What becomes of the spaces                                               *)

\* A text is half tidy if every space follows something else, and tidy if
\* something else follows every space, too.
HalfTidy(s) == \A i \in 1 .. Len(s) : s[i] = " " => i # 1 /\ s[i - 1] # " "
Tidy(s)     == HalfTidy(s) /\ (s # <<>> => s[Len(s)] # " ")

\* One character more keeps a text half tidy.
LEMMA AddsType ==
    ASSUME NEW S, NEW out \in Seq(S), HalfTidy(out), NEW c \in S
    PROVE  Adds(out, c) \in Seq(S) /\ HalfTidy(Adds(out, c))
  <1> DEFINE n == Len(out)
             more == Append(out, c)
  <1>0. n \in Nat
    BY LenProperties
  <1>1. out # <<>> => n # 0
    BY EmptySeq
  <1>2. CASE Adds(out, c) = out
    BY <1>2
  <1>3. CASE Adds(out, c) # out
    <2>1. Adds(out, c) = more /\ (c = " " => out # <<>> /\ out[n] # " ")
      BY <1>3 DEF Adds, Last
    <2>2. more \in Seq(S) /\ Len(more) = n + 1 /\ (\A i \in 1 .. n : more[i] = out[i])
          /\ more[n + 1] = c
      BY AppendProperties
    <2> HIDE DEF n, more
    <2>3. ASSUME NEW i \in 1 .. n + 1, more[i] = " " PROVE i # 1 /\ more[i - 1] # " "
      <3>1. CASE i = n + 1
        <4>1. n # 0 /\ out[n] # " "
          BY <1>1, <2>1, <2>2, <2>3, <3>1, Zenon
        <4>2. n # 0
          BY <4>1
        <4>3. i # 1 /\ i - 1 = n /\ n \in 1 .. n
          BY <1>0, <3>1, <4>2
        <4>4. more[n] = out[n]
          BY <2>2, <4>3, Zenon
        <4> QED BY <4>1, <4>3, <4>4, Zenon
      <3>2. CASE i # n + 1
        <4>1. i \in 1 .. n /\ (i # 1 => i - 1 \in 1 .. n)
          BY <1>0, <3>2
        <4>2. out[i] = " "
          BY <2>2, <2>3, <4>1
        <4>3. i # 1 /\ out[i - 1] # " "
          BY <4>1, <4>2 DEF HalfTidy, n
        <4> QED BY <2>2, <4>1, <4>3
      <3> QED BY <3>1, <3>2
    <2> QED BY <2>1, <2>2, <2>3 DEF HalfTidy
  <1> QED BY <1>2, <1>3

\* Every text goes through the loop of Collapse: f[i] is what its first i
\* characters leave.
Spacing(f, s) == f = [i \in 0 .. Len(s) |-> IF i = 0 THEN <<>> ELSE Adds(f[i - 1], s[i])]
Ended(s)      == IF s # <<>> /\ Last(s) = " " THEN Front(s) ELSE s

\* There is the loop that collapses spaces, and each of its texts is tidy but for
\* a space at its end.
LEMMA SpacingOfText ==
    ASSUME NEW S, NEW s \in Seq(S)
    PROVE  \E f : /\ Spacing(f, s) /\ Collapse(s) = Ended(f[Len(s)])
                  /\ \A i \in 0 .. Len(s) : f[i] \in Seq(S) /\ HalfTidy(f[i])
  <1> DEFINE n == Len(s)
             T == {x \in Seq(S) : HalfTidy(x)}
             step == [i \in 1 .. n |-> [x \in T |-> Adds(x, s[i])]]
             spaced == CHOOSE f : Spacing(f, s)
  <1>0. n \in Nat
    BY LenProperties
  <1>1. \A i \in 1 .. n : s[i] \in S
    BY LenProperties, ElementOfSeq
  <1>2. <<>> \in T
    <2>1. <<>> \in Seq(S) /\ 1 .. Len(<<>>) = {}
      BY EmptySeq
    <2> QED BY <2>1 DEF HalfTidy
  <1>3. \A x \in T, c \in S : Adds(x, c) \in T
    BY AddsType
  <1> HIDE DEF T
  <1>4. Steps(step, n, T)
    BY <1>1, <1>3 DEF Steps
  <1>5. PICK g : Loop(g, T, <<>>, n, step)
    <2> HIDE DEF n, step
    <2> QED BY <1>0, <1>2, <1>4, Iterates
  <1>6. \A i \in 0 .. n : g[i] = IF i = 0 THEN <<>> ELSE Adds(g[i - 1], s[i])
    <2> SUFFICES ASSUME NEW i \in 0 .. n, i # 0 PROVE g[i] = Adds(g[i - 1], s[i])
      BY <1>5 DEF Loop
    <2>1. i \in 1 .. n /\ i - 1 \in 0 .. n /\ g[i - 1] \in T
      BY <1>0, <1>5 DEF Loop
    <2> QED BY <1>5, <2>1 DEF Loop
  <1>7. Spacing(g, s)
    BY <1>5, <1>6 DEF Spacing, Loop
  <1>8. Spacing(spaced, s)
    BY <1>7
  <1>9. Collapse(s) = Ended(spaced[n])
    BY DEF Collapse, Spacing, Ended
  <1> HIDE DEF spaced, step
  <1>10. \A i \in 0 .. n : spaced[i] \in T
    <2> DEFINE X == {i \in 0 .. n : spaced[i] \in T}
    <2>1. \A i \in 0 .. n : spaced[i] = IF i = 0 THEN <<>> ELSE Adds(spaced[i - 1], s[i])
      BY <1>8 DEF Spacing
    <2>2. 0 \in X
      BY <1>0, <1>2, <2>1
    <2>3. ASSUME NEW i \in 0 + 1 .. n, i - 1 \in X PROVE i \in X
      BY <1>0, <1>1, <1>3, <2>1, <2>3
    <2> HIDE DEF X
    <2>4. \A i \in 0 .. n : i \in X
      BY <1>0, <2>2, <2>3, UpTo
    <2> QED BY <2>4 DEF X
  <1> QED BY <1>8, <1>9, <1>10 DEF T

\* So the spaces of every text come out tidy.
LEMMA CollapseTidies ==
    ASSUME NEW S, NEW s \in Seq(S)
    PROVE  Collapse(s) \in Seq(S) /\ Tidy(Collapse(s))
  <1>1. PICK f : /\ Spacing(f, s) /\ Collapse(s) = Ended(f[Len(s)])
                 /\ \A i \in 0 .. Len(s) : f[i] \in Seq(S) /\ HalfTidy(f[i])
    BY SpacingOfText
  <1> DEFINE x == f[Len(s)]
             n == Len(x)
  <1>2. x \in Seq(S) /\ HalfTidy(x)
    BY <1>1, LenProperties
  <1> HIDE DEF x, n
  <1>0. n \in Nat
    BY <1>2, LenProperties DEF n
  <1>3. x # <<>> => n # 0
    BY <1>2, EmptySeq DEF n
  <1>4. CASE x # <<>> /\ x[n] = " "
    <2>1. Collapse(s) = Front(x)
      BY <1>1, <1>4 DEF Ended, Last, x, n
    <2>2. Front(x) \in Seq(S) /\ Len(Front(x)) = n - 1 /\ \A i \in 1 .. n - 1 : Front(x)[i] = x[i]
      BY <1>2, <1>4, FrontProperties DEF n
    <2>3. n \in 1 .. n
      <3>1. n # 0
        BY <1>3, <1>4
      <3> QED BY <1>0, <3>1
    <2>4. n # 1 /\ x[n - 1] # " "
      BY <1>2, <1>4, <2>3 DEF HalfTidy, n
    <2>5. n - 1 \in 1 .. n - 1
      <3>1. n # 1
        BY <2>4
      <3> QED BY <1>0, <2>3, <3>1
    <2>6. HalfTidy(Front(x))
      <3>0. \A i \in 1 .. n - 1 : i \in 1 .. n /\ (i # 1 => i - 1 \in 1 .. n - 1)
        BY <1>0
      <3> SUFFICES ASSUME NEW i \in 1 .. n - 1, Front(x)[i] = " "
                   PROVE  i # 1 /\ Front(x)[i - 1] # " "
        BY <2>2 DEF HalfTidy
      <3>1. i \in 1 .. n /\ (i # 1 => i - 1 \in 1 .. n - 1)
        BY <3>0
      <3>2. x[i] = " "
        BY <2>2
      <3>3. i # 1 /\ x[i - 1] # " "
        BY <1>2, <3>1, <3>2 DEF HalfTidy, n
      <3> QED BY <2>2, <3>1, <3>3
    <2> QED BY <2>1, <2>2, <2>4, <2>5, <2>6 DEF Tidy
  <1>5. CASE ~(x # <<>> /\ x[n] = " ")
    BY <1>1, <1>2, <1>5 DEF Ended, Last, Tidy, x, n
  <1> QED BY <1>4, <1>5
\* The first i elements are the first i - 1 and one more.
LEMMA PrefixGrows ==
    ASSUME NEW S, NEW s \in Seq(S), NEW i \in 1 .. Len(s)
    PROVE  /\ SubSeq(s, 1, i - 1) \in Seq(S) /\ Len(SubSeq(s, 1, i - 1)) = i - 1
           /\ \A k \in 1 .. i - 1 : SubSeq(s, 1, i - 1)[k] = s[k]
           /\ SubSeq(s, 1, i) = SubSeq(s, 1, i - 1) \o <<s[i]>>
           /\ SubSeq(s, 1, i) = Append(SubSeq(s, 1, i - 1), s[i])
  <1> DEFINE n == Len(s)
             x == SubSeq(s, 1, i - 1)
  <1>1. n \in Nat /\ \A k \in 1 .. n : s[k] \in S
    BY LenProperties, ElementOfSeq
  <1>2. s[i] \in S
    BY <1>1
  <1>3. /\ x \in Seq(S)
        /\ Len(x) = IF 1 <= i - 1 THEN i - 1 - 1 + 1 ELSE 0
        /\ \A k \in 1 .. i - 1 - 1 + 1 : x[k] = s[1 + k - 1]
    <2>1. 1 \in Int /\ i - 1 \in Int /\ \A k \in 1 .. i - 1 : s[k] \in S
      BY <1>1
    <2> QED BY <2>1, SubSeqProperties
  <1>4. 1 \in 1 .. n /\ i \in 1 .. n
    BY <1>1
  <1>5. SubSeq(s, 1, i) = x \o <<s[i]>>
    BY <1>4, SubSeqRecursiveSecond
  <1> HIDE DEF n, x
  <1>6. Append(x, s[i]) = x \o <<s[i]>>
    BY <1>2, <1>3, AppendIsConcat
  <1>7. Len(x) = i - 1
    BY <1>1, <1>3 DEF n
  <1>8. \A k \in 1 .. i - 1 : x[k] = s[k]
    <2>1. \A k \in 1 .. i - 1 : 1 + k - 1 = k /\ k \in 1 .. i - 1 - 1 + 1
      BY <1>1 DEF n
    <2> QED BY <1>3, <2>1
  <1> QED BY <1>3, <1>5, <1>6, <1>7, <1>8 DEF x

\* A tidy text stays as it is.
LEMMA CollapseTidy ==
    ASSUME NEW S, NEW s \in Seq(S), Tidy(s)
    PROVE  Collapse(s) = s
  <1> DEFINE n == Len(s)
  <1>0. n \in Nat
    BY LenProperties
  <1>1. PICK f : Spacing(f, s) /\ Collapse(s) = Ended(f[n])
    BY SpacingOfText
  <1>2. f[0] = <<>> /\ \A i \in 1 .. n : f[i] = Adds(f[i - 1], s[i])
    <2>1. \A i \in 0 .. n : f[i] = IF i = 0 THEN <<>> ELSE Adds(f[i - 1], s[i])
      BY <1>1 DEF Spacing
    <2> QED BY <1>0, <2>1
  <1> DEFINE X == {i \in 0 .. n : f[i] = SubSeq(s, 1, i)}
  <1>3. 0 \in X
    <2>1. 1 \in Int /\ 0 \in Int /\ 0 < 1
      OBVIOUS
    <2>2. SubSeq(s, 1, 0) = <<>>
      BY <2>1, SubSeqEmpty
    <2>3. f[0] = SubSeq(s, 1, 0)
      BY <1>2, <2>2, Zenon
    <2>4. 0 \in 0 .. n
      BY <1>0
    <2> QED BY <2>3, <2>4
  <1>4. ASSUME NEW i \in 0 + 1 .. n, i - 1 \in X PROVE i \in X
    <2> DEFINE x == SubSeq(s, 1, i - 1)
    <2>1. i \in 1 .. n
      BY <1>0
    <2>2. /\ x \in Seq(S) /\ Len(x) = i - 1 /\ \A k \in 1 .. i - 1 : x[k] = s[k]
          /\ SubSeq(s, 1, i) = Append(x, s[i])
      BY <2>1, PrefixGrows
    <2>3. f[i - 1] = x
      BY <1>4
    <2> HIDE DEF n, x
    <2>4. ASSUME s[i] = " " PROVE x # <<>> /\ Last(x) # " "
      <3>1. i # 1 /\ s[i - 1] # " "
        BY <2>1, <2>4 DEF Tidy, HalfTidy, n
      <3>2. i # 1
        BY <3>1
      <3>3. i - 1 \in 1 .. i - 1 /\ i - 1 # 0
        BY <1>0, <2>1, <3>2
      <3>4. x[i - 1] = s[i - 1]
        BY <2>2, <3>3
      <3>5. Last(x) = x[i - 1]
        BY <2>2 DEF Last
      <3>6. x # <<>>
        BY <2>2, <3>3, EmptySeq
      <3> QED BY <3>1, <3>4, <3>5, <3>6
    <2>5. f[i] = Append(x, s[i])
      BY <1>2, <2>1, <2>3, <2>4 DEF Adds
    <2>6. f[i] = SubSeq(s, 1, i)
      BY <2>2, <2>5
    <2>7. i \in 0 .. n
      BY <1>0, <2>1
    <2> QED BY <2>6, <2>7
  <1> HIDE DEF X
  <1>5. \A i \in 0 .. n : i \in X
    BY <1>0, <1>3, <1>4, UpTo
  <1>6. f[n] = s
    <2>1. f[n] = SubSeq(s, 1, n)
      BY <1>0, <1>5 DEF X
    <2> QED BY <2>1, SubSeqFull
  <1> QED BY <1>1, <1>6 DEF Ended, Tidy, Last

\* Pieces of one element each.
LEMMA FlattenOnes ==
    ASSUME NEW S, NEW s \in Seq(S)
    PROVE  FlattenSeq([i \in DOMAIN s |-> <<s[i]>>]) = s
  <1> DEFINE n == Len(s)
             ss == [i \in DOMAIN s |-> <<s[i]>>]
  <1>0. n \in Nat
    BY LenProperties
  <1>1. ss \in Seq(Seq(S)) /\ Len(ss) = n /\ \A i \in 1 .. n : ss[i] = <<s[i]>>
    <2>1. DOMAIN s = 1 .. n /\ \A i \in 1 .. n : s[i] \in S
      BY LenProperties, ElementOfSeq
    <2>2. \A i \in 1 .. n : <<s[i]>> \in Seq(S)
      BY <2>1
    <2>3. ss = [i \in 1 .. n |-> <<s[i]>>]
      BY <2>1
    <2> DEFINE A == Seq(S)
    <2> HIDE DEF A, n
    <2>4. ss \in [1 .. n -> A]
      BY <2>2, <2>3 DEF A
    <2>5. ss \in Seq(A) /\ Len(ss) = n
      <3> HIDE DEF ss
      <3> QED BY <1>0, <2>4
    <2> QED BY <2>3, <2>5 DEF A
  <1> HIDE DEF ss
  <1>2. PICK f : Flattens(f, ss) /\ FlattenSeq(ss) = f[n]
    BY <1>1, FlattenOfPieces
  <1>3. f[0] = <<>> /\ \A i \in 1 .. n : f[i] = f[i - 1] \o <<s[i]>>
    BY <1>1, <1>2 DEF Flattens
  <1> DEFINE X == {i \in 0 .. n : f[i] = SubSeq(s, 1, i)}
  <1>4. 0 \in X
    <2>1. 1 \in Int /\ 0 \in Int /\ 0 < 1
      OBVIOUS
    <2>2. SubSeq(s, 1, 0) = <<>>
      BY <2>1, SubSeqEmpty
    <2>3. f[0] = SubSeq(s, 1, 0)
      BY <1>3, <2>2, Zenon
    <2>4. 0 \in 0 .. n
      BY <1>0
    <2> QED BY <2>3, <2>4
  <1>5. ASSUME NEW i \in 0 + 1 .. n, i - 1 \in X PROVE i \in X
    <2>1. i \in 1 .. n /\ i \in 0 .. n
      BY <1>0
    <2>2. SubSeq(s, 1, i) = SubSeq(s, 1, i - 1) \o <<s[i]>>
      BY <2>1, PrefixGrows
    <2>3. f[i] = f[i - 1] \o <<s[i]>> /\ f[i - 1] = SubSeq(s, 1, i - 1)
      BY <1>3, <1>5, <2>1, Zenon
    <2>4. f[i] = SubSeq(s, 1, i)
      BY <2>2, <2>3, Zenon
    <2> QED BY <2>1, <2>4
  <1> HIDE DEF X
  <1>6. \A i \in 0 .. n : i \in X
    BY <1>0, <1>4, <1>5, UpTo
  <1>7. f[n] = SubSeq(s, 1, n)
    BY <1>0, <1>6 DEF X
  <1> QED BY <1>2, <1>7, SubSeqFull DEF ss
-----------------------------------------------------------------------------
(* What becomes of the characters                                           *)

\* Short sequences, as the replacements of a character are.
LEMMA ShortSeqs ==
    ASSUME NEW S
    PROVE  /\ <<>> \in Seq(S) /\ \A x \in S : <<x>> \in Seq(S)
           /\ \A x, y \in S : <<x, y>> \in Seq(S)
           /\ \A x, y, z \in S : <<x, y, z>> \in Seq(S)
  OBVIOUS

\* No character that stays is one that is replaced.
LEMMA PlainIsPlain == Plain \cap Translated = {} /\ Plain \subseteq Char
  BY TokenAssumption DEF Plain, Char, Letter, Translated, Digits

\* What the game gets for a character is plain, and a plain one stays.
LEMMA ShownType ==
    ASSUME NEW c \in Char
    PROVE  Shown(c, "output") \in Seq(Plain) /\ (c \in Plain => Shown(c, "output") = <<c>>)
  <1>1. CASE c \in Plain
    <2>1. c \notin Translated
      BY <1>1, PlainIsPlain
    <2>2. Shown(c, "output") = <<c>>
      BY <2>1 DEF Translated, Shown
    <2>3. <<c>> \in Seq(Plain)
      BY <1>1
    <2> QED BY <2>2, <2>3, Zenon
  <1>2. CASE c \in Translated /\ c \notin Plain
    <2>1. {"a", "<thi", "-", ".", " ", "/", "(", ")"} \subseteq Plain
      BY DEF Plain, Letter
    <2> DEFINE P == Plain
    <2>2. /\ <<"a">> \in Seq(P) /\ <<"a", "a">> \in Seq(P) /\ <<"-">> \in Seq(P)
          /\ <<".", ".", ".">> \in Seq(P) /\ <<" ">> \in Seq(P) /\ <<>> \in Seq(P)
          /\ <<"/">> \in Seq(P) /\ <<"(">> \in Seq(P) /\ <<")">> \in Seq(P)
          /\ <<"<thi">> \in Seq(P)
      <3>1. "a" \in P /\ "<thi" \in P /\ "-" \in P /\ "." \in P /\ " " \in P /\ "/" \in P /\ "(" \in P /\ ")" \in P
        BY <2>1
      <3> HIDE DEF P
      <3> QED BY <3>1, ShortSeqs
    <2>3. Shown(c, "output") \in
              {<<"a">>, <<"a", "a">>, <<"-">>, <<".", ".", ".">>, <<" ">>, <<>>, <<"/">>,
                <<"(">>, <<")">>, <<"<thi">>}
      BY <1>2 DEF Translated, Shown, Ellipsis
    <2> QED BY <1>2, <2>2, <2>3
  <1> QED BY <1>1, <1>2 DEF Char
\* A cleaned text is plain and tidy, and a text that is both and holds no block
\* stays.
LEMMA CleanType ==
    ASSUME NEW s \in Seq(Char)
    PROVE  Clean(s, "output") \in Seq(Plain) /\ Tidy(Clean(s, "output"))
  <1> DEFINE x == StripThink(s)
             n == Len(x)
             ss == [i \in DOMAIN x |-> Shown(x[i], "output")]
  <1>1. x \in Seq(Char)
    BY StripThinkType
  <1> HIDE DEF x
  <1>2. n \in Nat /\ DOMAIN x = 1 .. n /\ \A i \in 1 .. n : x[i] \in Char
    BY <1>1, LenProperties, ElementOfSeq
  <1>3. ss \in Seq(Seq(Plain))
    <2> DEFINE A == Seq(Plain)
    <2>1. \A i \in 1 .. n : Shown(x[i], "output") \in A
      BY <1>2, ShownType
    <2>2. ss = [i \in 1 .. n |-> Shown(x[i], "output")]
      BY <1>2
    <2> HIDE DEF A, n, ss
    <2>3. ss \in [1 .. n -> A]
      BY <2>1, <2>2
    <2>4. ss \in Seq(A)
      BY <1>2, <2>3
    <2> QED BY <2>4 DEF A
  <1>4. PICK f : f \in [0 .. Len(ss) -> Seq(Plain)] /\ FlattenSeq(ss) = f[Len(ss)]
    <2> HIDE DEF ss
    <2> QED BY <1>3, FlattenOfPieces
  <1>5. FlattenSeq(ss) \in Seq(Plain)
    <2> HIDE DEF ss
    <2>1. Len(ss) \in 0 .. Len(ss)
      BY <1>3, LenProperties
    <2> QED BY <1>4, <2>1
  <1>6. Clean(s, "output") = Collapse(FlattenSeq(ss))
    BY DEF Clean, x
  <1> HIDE DEF ss
  <1> QED BY <1>5, <1>6, CollapseTidies

\* A text that is clean is not changed.
LEMMA CleanStays ==
    ASSUME NEW s \in Seq(Plain), Tidy(s), StripThink(s) = s
    PROVE  Clean(s, "output") = s
  <1> DEFINE ss == [i \in DOMAIN s |-> Shown(s[i], "output")]
  <1>1. DOMAIN s = 1 .. Len(s) /\ \A i \in 1 .. Len(s) : s[i] \in Plain
    BY LenProperties, ElementOfSeq
  <1>2. \A i \in 1 .. Len(s) : s[i] \in Char
    BY <1>1, PlainIsPlain
  <1>3. ss = [i \in DOMAIN s |-> <<s[i]>>]
    BY <1>1, <1>2, ShownType
  <1>4. FlattenSeq(ss) = s
    BY <1>3, FlattenOnes
  <1>5. Clean(s, "output") = Collapse(FlattenSeq(ss))
    BY DEF Clean
  <1> HIDE DEF ss
  <1> QED BY <1>4, <1>5, CollapseTidy

\* Of some of the numbers up to n, one is the greatest.
LEMMA GreatestOf ==
    ASSUME NEW n \in Nat, NEW S \in SUBSET (0 .. n), S # {}
    PROVE  \E m \in S : \A k \in S : k <= m
  <1> DEFINE T == {n - k : k \in S}
  <1>1. T \in SUBSET (0 .. n) /\ T # {}
    OBVIOUS
  <1>2. PICK m \in T : \A k \in T : m <= k
    <2> HIDE DEF T
    <2> QED BY <1>1, LeastOf
  <1>3. PICK j \in S : m = n - j
    OBVIOUS
  <1>4. ASSUME NEW k \in S PROVE k <= j
    <2>1. n - j <= n - k
      BY <1>2, <1>3
    <2> QED BY <2>1
  <1> QED BY <1>4

\* A capped text is short enough and as tidy as before; a short one stays.
LEMMA CapType ==
    ASSUME NEW S, NEW s \in Seq(S), "." \in S, Tidy(s)
    PROVE  /\ Cap(s) \in Seq(S) /\ Tidy(Cap(s)) /\ Len(Cap(s)) <= MaxText
           /\ Len(s) <= MaxText => Cap(s) = s
  <1> DEFINE n == Len(s)
             limit == MaxText - Len(Ellipsis)
             cuts  == WordCuts(s, limit)
             cut   == IF cuts = {} THEN limit ELSE CHOOSE i \in cuts : \A j \in cuts : j <= i
  <1>0. n \in Nat
    BY LenProperties
  <1>1. Len(Ellipsis) = 3 /\ Ellipsis[1] = "." /\ Ellipsis[2] = "." /\ Ellipsis[3] = "."
    BY DEF Ellipsis
  <1>2. MaxText \in Nat /\ limit \in Nat /\ limit + 3 = MaxText
    BY <1>1, CapAssumption
  <1>3. CASE n <= MaxText
    BY <1>3 DEF Cap
  <1>4. CASE ~(n <= MaxText)
    <2>1. Cap(s) = SubSeq(s, 1, cut) \o Ellipsis
      BY <1>4 DEF Cap
    <2>2. cut \in 0 .. limit
      <3>1. cuts \in SUBSET (0 .. limit)
        <4>1. MinWordCut \in Nat
          BY CapAssumption
        <4> HIDE DEF limit
        <4>2. MinWordCut .. limit \in SUBSET (0 .. limit)
          BY <1>2, <4>1
        <4>3. cuts \in SUBSET (MinWordCut .. limit)
          BY DEF WordCuts
        <4> QED BY <4>2, <4>3
      <3> HIDE DEF cuts, limit
      <3>2. CASE cuts = {}
        BY <1>2, <3>2
      <3>3. CASE cuts # {}
        <4>1. \E i \in cuts : \A j \in cuts : j <= i
          BY <1>2, <3>1, <3>3, GreatestOf
        <4> QED BY <3>1, <3>3, <4>1
      <3> QED BY <3>2, <3>3
    <2> DEFINE x == SubSeq(s, 1, cut)
               y == x \o Ellipsis
    <2> HIDE DEF cut, limit
    <2>3. cut \in Nat /\ cut + 3 <= MaxText /\ cut <= n
      BY <1>0, <1>2, <1>4, <2>2
    <2>4. x \in Seq(S) /\ Len(x) = cut /\ \A i \in 1 .. cut : x[i] = s[i]
      <3>1. 1 \in Int /\ cut \in Int /\ \A i \in 1 .. cut : s[i] \in S
        BY <1>0, <2>3, ElementOfSeq
      <3>2. x \in Seq(S) /\ Len(x) = (IF 1 <= cut THEN cut - 1 + 1 ELSE 0)
            /\ \A i \in 1 .. cut - 1 + 1 : x[i] = s[1 + i - 1]
        BY <3>1, SubSeqProperties
      <3> HIDE DEF x
      <3>3. Len(x) = cut
        BY <2>3, <3>2
      <3>4. \A i \in 1 .. cut : i \in 1 .. cut - 1 + 1 /\ 1 + i - 1 = i
        BY <2>3
      <3> QED BY <3>2, <3>3, <3>4
    <2> HIDE DEF x
    <2>5. Ellipsis \in Seq(S)
      BY ShortSeqs DEF Ellipsis
    <2>6. y \in Seq(S) /\ Len(y) = cut + 3
          /\ \A i \in 1 .. cut + 3 : y[i] = IF i <= cut THEN x[i] ELSE Ellipsis[i - cut]
      <3> DEFINE e == Ellipsis
      <3>1. y \in Seq(S) /\ Len(y) = Len(x) + Len(e)
            /\ \A i \in 1 .. Len(x) + Len(e) : y[i] = IF i <= Len(x) THEN x[i] ELSE e[i - Len(x)]
        <4> HIDE DEF e
        <4> QED BY <2>4, <2>5, ConcatProperties DEF e
      <3>2. Len(x) = cut /\ Len(e) = 3
        BY <1>1, <2>4
      <3> HIDE DEF y, e
      <3>3. y \in Seq(S) /\ Len(y) = cut + 3
            /\ \A i \in 1 .. cut + 3 : y[i] = IF i <= cut THEN x[i] ELSE e[i - cut]
        BY <3>1, <3>2
      <3> QED BY <3>3 DEF e
    <2> HIDE DEF y
    <2>7. \A i \in 1 .. cut : i \in 1 .. cut + 3 /\ i <= cut /\ i \in 1 .. n
      BY <1>0, <2>3
    <2>8. \A i \in 1 .. cut : y[i] = s[i]
      BY <2>4, <2>6, <2>7
    <2>9. \A i \in 1 .. cut + 3 : i \notin 1 .. cut => y[i] = "."
      <3>1. \A i \in 1 .. cut + 3 : i \notin 1 .. cut => ~(i <= cut) /\ i - cut \in {1, 2, 3}
        BY <2>3
      <3>2. \A k \in {1, 2, 3} : Ellipsis[k] = "."
        BY <1>1
      <3> QED BY <2>6, <3>1, <3>2
    <2>10. \A i \in 1 .. cut : i # 1 => i - 1 \in 1 .. cut
      BY <2>3
    <2>11. HalfTidy(y)
      <3> SUFFICES ASSUME NEW i \in 1 .. cut + 3, y[i] = " " PROVE i # 1 /\ y[i - 1] # " "
        BY <2>6 DEF HalfTidy
      <3>1. i \in 1 .. cut
        BY <2>9
      <3>2. s[i] = " " /\ i \in 1 .. n
        BY <2>7, <2>8, <3>1
      <3>3. i # 1 /\ s[i - 1] # " "
        BY <3>2 DEF Tidy, HalfTidy, n
      <3> QED BY <2>8, <2>10, <3>1, <3>3
    <2>12. y[Len(y)] = "."
      <3>1. cut + 3 \in 1 .. cut + 3 /\ cut + 3 \notin 1 .. cut
        BY <2>3
      <3> QED BY <2>6, <2>9, <3>1
    <2>13. Tidy(y)
      BY <2>11, <2>12 DEF Tidy
    <2>14. Cap(s) = y
      BY <2>1 DEF y, x
    <2>15. Len(y) <= MaxText
      BY <2>3, <2>6
    <2> QED BY <1>4, <2>6, <2>13, <2>14, <2>15
  <1> QED BY <1>3, <1>4

-----------------------------------------------------------------------------
(* sanitize_text                                                            *)

\* The only place of one letter.
LEMMA OneOnly == 1 \in 1 .. 1 /\ \A i \in 1 .. 1 : i = 1
  OBVIOUS

\* One letter that is no space is a tidy text.
LEMMA OneLetter == ASSUME NEW c \in Letter, c # " " PROVE Tidy(<<c>>) /\ HasLetter(<<c>>)
  <1> DEFINE s == <<c>>
  <1>1. Len(s) = 1 /\ s[1] = c
    OBVIOUS
  <1>2. s \in Seq({c})
    BY ShortSeqs, Zenon
  <1> HIDE DEF s
  <1>3. DOMAIN s = 1 .. 1
    BY <1>1, <1>2, LenProperties
  <1>4. \A i \in 1 .. 1 : i = 1
    BY OneOnly, Zenon
  <1>5. 1 \in 1 .. 1
    BY OneOnly, Zenon
  <1>6. HalfTidy(s)
    <2>1. \A i \in 1 .. 1 : s[i] # " "
      BY <1>1, <1>4
    <2> QED BY <1>1, <2>1 DEF HalfTidy
  <1>7. Tidy(s)
    BY <1>1, <1>6 DEF Tidy
  <1>8. HasLetter(s)
    BY <1>1, <1>3, <1>5 DEF HasLetter
  <1> QED BY <1>7, <1>8 DEF s

\* Whatever it is given, it leaves a text of at most MAX_TEXT plain characters
\* with a letter among them; what it finds nothing in becomes the token.
THEOREM SanitizedIsPlain ==
    ASSUME NEW s \in Seq(Char)
    PROVE  LET text == SanitizeText(s).text
           IN  text \in Seq(Plain) /\ Tidy(text) /\ Len(text) <= MaxText /\ HasLetter(text)
  <1> DEFINE text == Cap(Clean(s, "output"))
             token == <<"empty_reply">>
  <1>1. text \in Seq(Plain) /\ Tidy(text) /\ Len(text) <= MaxText
    <2>1. "." \in Plain
      BY DEF Plain
    <2> QED BY <2>1, CleanType, CapType
  <1>2. /\ token \in Seq(Plain) /\ Tidy(token) /\ HasLetter(token)
    <2>1. "empty_reply" \in Letter /\ "empty_reply" \in Plain /\ "empty_reply" # " "
      BY TokenAssumption DEF Plain, Letter
    <2>2. token \in Seq(Plain)
      BY <2>1, ShortSeqs
    <2> QED BY <2>1, <2>2, OneLetter
  <1>3. Len(token) <= MaxText
    <2>1. Len(Ellipsis) = 3 /\ Len(token) = 1
      BY DEF Ellipsis
    <2> QED BY <2>1, CapAssumption
  <1>4. SanitizeText(s).text = IF HasLetter(text) THEN text ELSE token
    BY DEF SanitizeText
  <1> HIDE DEF text, token
  <1> QED BY <1>1, <1>2, <1>3, <1>4

\* What is plain, tidy, short and has a letter is shown as it is, unless there
\* is a block in it.
LEMMA SanitizedStays ==
    ASSUME NEW s \in Seq(Plain), Tidy(s), Len(s) <= MaxText, HasLetter(s), StripThink(s) = s
    PROVE  SanitizeText(s) = [ok |-> TRUE, text |-> s]
  <1>1. Clean(s, "output") = s
    BY CleanStays
  <1>2. Cap(s) = s
    <2>1. "." \in Plain
      BY DEF Plain
    <2> QED BY <2>1, CapType
  <1> QED BY <1>1, <1>2 DEF SanitizeText

\* So a second look at what it left changes nothing, unless a <think> came to be
\* in the first: around a block that it took out, a character that it dropped or a
\* letter that lost its accent.
THEOREM SanitizeIsIdempotent ==
    ASSUME NEW s \in Seq(Char), StripThink(SanitizeText(s).text) = SanitizeText(s).text
    PROVE  SanitizeText(SanitizeText(s).text) = [ok |-> TRUE, text |-> SanitizeText(s).text]
  <1> DEFINE text == SanitizeText(s).text
  <1>1. text \in Seq(Plain) /\ Tidy(text) /\ Len(text) <= MaxText /\ HasLetter(text)
    BY SanitizedIsPlain
  <1> HIDE DEF text
  <1>2. StripThink(text) = text
    BY DEF text
  <1>3. SanitizeText(text) = [ok |-> TRUE, text |-> text]
    BY <1>1, <1>2, SanitizedStays
  <1> QED BY <1>3 DEF text

\* A reason token is shown as it is.
LEMMA TokenStays ==
    ASSUME NEW token \in Tokens
    PROVE  SanitizeText(<<token>>) = [ok |-> TRUE, text |-> <<token>>]
  <1> DEFINE s == <<token>>
  <1>1. token \in Letter /\ token \in Plain /\ token # " "
    BY TokenAssumption DEF Plain, Letter
  <1>2. s \in Seq(Plain)
    BY <1>1, ShortSeqs
  <1>3. Tidy(s) /\ HasLetter(s)
    BY <1>1, OneLetter
  <1>5. Len(s) <= MaxText
    <2>1. Len(Ellipsis) = 3 /\ Len(s) = 1
      BY DEF Ellipsis
    <2> QED BY <2>1, CapAssumption
  <1>6. StripThink(s) = s
    BY <1>1, PlainIsPlain, StripThinkOne
  <1> HIDE DEF s
  <1>7. SanitizeText(s) = [ok |-> TRUE, text |-> s]
    BY <1>2, <1>3, <1>5, <1>6, SanitizedStays
  <1> QED BY <1>7 DEF s
-----------------------------------------------------------------------------
(* Splitting                                                                *)

\* The loop of Split: f[i] are the parts of the first i characters.
Splitting(f, c, s) ==
    f = [i \in 0 .. Len(s) |-> IF i = 0 THEN << <<>> >> ELSE Parts(f[i - 1], c, s[i])]

\* What is appended is the last, and the rest is in front of it.
LEMMA AppendFront ==
    ASSUME NEW S, NEW s \in Seq(S), NEW e \in S
    PROVE  Front(Append(s, e)) = s /\ Last(Append(s, e)) = e
  <1> DEFINE x == Append(s, e)
  <1>1. x \in Seq(S) /\ x # <<>> /\ Len(x) = Len(s) + 1 /\ x[Len(s) + 1] = e
        /\ \A i \in 1 .. Len(s) : x[i] = s[i]
    BY AppendProperties
  <1>2. Len(s) \in Nat
    BY LenProperties
  <1> HIDE DEF x
  <1>3. Front(x) \in Seq(S) /\ Len(Front(x)) = Len(x) - 1
          /\ \A i \in 1 .. Len(x) - 1 : Front(x)[i] = x[i]
    BY <1>1, FrontProperties
  <1>4. Len(Front(x)) = Len(s) /\ Len(x) - 1 = Len(s)
    BY <1>1, <1>2, <1>3
  <1>5. \A i \in 1 .. Len(Front(x)) : Front(x)[i] = s[i]
    BY <1>1, <1>3, <1>4
  <1>6. Front(x) = s
    BY <1>3, <1>4, <1>5, SeqEqual
  <1>7. Last(x) = e
    BY <1>1 DEF Last
  <1> QED BY <1>6, <1>7 DEF x

\* A character more: the parts are still texts, and there is at least one.
LEMMA PartsType ==
    ASSUME NEW S, NEW parts \in Seq(Seq(S)), parts # <<>>, NEW c, NEW d \in S
    PROVE  Parts(parts, c, d) \in Seq(Seq(S)) /\ Parts(parts, c, d) # <<>>
  <1> DEFINE A == Seq(S)
  <1>1. <<>> \in A
    BY EmptySeq
  <1>2. Last(parts) \in A
    <2>1. Len(parts) \in 1 .. Len(parts)
      <3> HIDE DEF A
      <3>1. Len(parts) \in Nat \ {0}
        BY EmptySeq DEF A
      <3> QED BY <3>1
    <2> QED BY <2>1, ElementOfSeq DEF Last
  <1>3. Append(Last(parts), d) \in A
    BY <1>2, AppendProperties
  <1> HIDE DEF A
  <1>4. parts \in Seq(A) /\ Front(parts) \in Seq(A)
    BY FrontProperties DEF A
  <1>5. Parts(parts, c, d) \in Seq(A) /\ Parts(parts, c, d) # <<>>
    <2>1. CASE d = c
      BY <1>1, <1>4, <2>1, AppendProperties DEF Parts
    <2>2. CASE d # c
      <3>1. Parts(parts, c, d) = Append(Front(parts), Append(Last(parts), d))
        BY <2>2 DEF Parts
      <3>2. \A e \in A : Append(Front(parts), e) \in Seq(A) /\ Append(Front(parts), e) # <<>>
        BY <1>4, AppendProperties
      <3> QED BY <1>3, <3>1, <3>2
    <2> QED BY <2>1, <2>2
  <1> QED BY <1>5 DEF A

\* There is the loop that splits a text (the split of Rust and of the engine).
LEMMA SplittingOfText ==
    ASSUME NEW S, NEW s \in Seq(S), NEW c
    PROVE  \E f : /\ f[0] = << <<>> >> /\ \A i \in 1 .. Len(s) : f[i] = Parts(f[i - 1], c, s[i])
                  /\ Split(c, s) = f[Len(s)]
  <1> DEFINE n == Len(s)
             T == Seq(Seq(S)) \ {<<>>}
             step == [i \in 1 .. n |-> [x \in T |-> Parts(x, c, s[i])]]
             parts == CHOOSE f : Splitting(f, c, s)
  <1>0. n \in Nat
    BY LenProperties
  <1>1. \A i \in 1 .. n : s[i] \in S
    BY LenProperties, ElementOfSeq
  <1>2. << <<>> >> \in T
    <2>1. <<>> \in Seq(S)
      BY EmptySeq
    <2> DEFINE A == Seq(S)
    <2> HIDE DEF A
    <2>2. << <<>> >> \in Seq(A) \ {<<>>}
      BY <2>1 DEF A
    <2> QED BY <2>2 DEF A
  <1>3. \A x \in T, d \in S : Parts(x, c, d) \in T
    BY PartsType
  <1> HIDE DEF T
  <1>4. Steps(step, n, T)
    BY <1>1, <1>3 DEF Steps
  <1>5. PICK g : Loop(g, T, << <<>> >>, n, step)
    <2> HIDE DEF n, step
    <2> QED BY <1>0, <1>2, <1>4, Iterates
  <1>6. \A i \in 0 .. n : g[i] = IF i = 0 THEN << <<>> >> ELSE Parts(g[i - 1], c, s[i])
    <2> SUFFICES ASSUME NEW i \in 0 .. n, i # 0 PROVE g[i] = Parts(g[i - 1], c, s[i])
      BY <1>5 DEF Loop
    <2>1. i \in 1 .. n /\ i - 1 \in 0 .. n /\ g[i - 1] \in T
      BY <1>0, <1>5 DEF Loop
    <2> QED BY <1>5, <2>1 DEF Loop
  <1>7. Splitting(g, c, s)
    BY <1>5, <1>6 DEF Splitting, Loop
  <1>8. Splitting(parts, c, s)
    BY <1>7
  <1>9. Split(c, s) = parts[n]
    BY DEF Split, Splitting
  <1> HIDE DEF parts, step
  <1>10. \A i \in 0 .. n : parts[i] = IF i = 0 THEN << <<>> >> ELSE Parts(parts[i - 1], c, s[i])
    BY <1>8 DEF Splitting
  <1>11. parts[0] = << <<>> >> /\ \A i \in 1 .. n : parts[i] = Parts(parts[i - 1], c, s[i])
    BY <1>0, <1>10
  <1> QED BY <1>9, <1>11

\* A word w of s with no c in it, that begins after the first k characters: the
\* parts of what ends with it are those before it, and it.
SplitLoop(f, c, s) == f[0] = << <<>> >> /\ \A i \in 1 .. Len(s) : f[i] = Parts(f[i - 1], c, s[i])
After(f, k, ps)    == f[k] = Append(ps, <<>>)
IsWord(w, c, s, k) == /\ k + Len(w) <= Len(s)
                      /\ \A i \in 1 .. Len(w) : w[i] = s[k + i] /\ w[i] # c

\* One round of that loop.
LEMMA SplitStep ==
    ASSUME NEW f, NEW c, NEW s, SplitLoop(f, c, s), NEW i \in 1 .. Len(s)
    PROVE  f[i] = Parts(f[i - 1], c, s[i])
  BY DEF SplitLoop

\* The loop reads a word into the last part.
LEMMA SplitWord ==
    ASSUME NEW S, NEW s \in Seq(S), NEW c, NEW f, SplitLoop(f, c, s),
           NEW ps \in Seq(Seq(S)), NEW w \in Seq(S), NEW k \in Nat, IsWord(w, c, s, k),
           After(f, k, ps)
    PROVE  f[k + Len(w)] = Append(ps, w)
  <1> DEFINE m == Len(w)
             A == Seq(S)
             X == {j \in 0 .. m : f[k + j] = Append(ps, SubSeq(w, 1, j))}
  <1>0. m \in Nat /\ Len(s) \in Nat
    BY LenProperties
  <1>1. 0 \in X
    <2>1. 1 \in Int /\ 0 \in Int /\ 0 < 1 /\ k + 0 = k /\ 0 \in 0 .. m
      BY <1>0
    <2>2. SubSeq(w, 1, 0) = <<>>
      BY <2>1, SubSeqEmpty
    <2> QED BY <2>1, <2>2 DEF After
  <1>2. ASSUME NEW j \in 0 + 1 .. m, j - 1 \in X PROVE j \in X
    <2> DEFINE v == SubSeq(w, 1, j - 1)
    <2>1. j \in 1 .. m /\ j \in 0 .. m
      BY <1>0
    <2>2. v \in A /\ SubSeq(w, 1, j) = Append(v, w[j])
      BY <2>1, PrefixGrows
    <2>3. f[k + (j - 1)] = Append(ps, v)
      BY <1>2
    <2>4. k + j \in 1 .. Len(s) /\ k + j - 1 = k + (j - 1)
      <3>1. k + m <= Len(s)
        BY DEF IsWord
      <3> HIDE DEF m
      <3> QED BY <1>0, <2>1, <3>1
    <2>5. w[j] = s[k + j] /\ w[j] # c
      BY <2>1 DEF IsWord
    <2>6. f[k + j] = Parts(Append(ps, v), c, w[j])
      <3> DEFINE i == k + j
      <3> HIDE DEF i
      <3>0. i \in 1 .. Len(s)
        BY <2>4 DEF i
      <3>1. f[i] = Parts(f[i - 1], c, s[i])
        BY <3>0, SplitStep
      <3>2. s[i] = w[j]
        BY <2>5, Zenon DEF i
      <3>3. f[i - 1] = Append(ps, v)
        <4>1. i - 1 = k + (j - 1)
          BY <1>0, <2>1 DEF i
        <4> QED BY <2>3, <4>1, Zenon
      <3>4. f[i] = Parts(Append(ps, v), c, w[j])
        BY <3>1, <3>2, <3>3, Zenon
      <3> QED BY <3>4, Zenon DEF i
    <2> HIDE DEF v, A
    <2>7. Front(Append(ps, v)) = ps /\ Last(Append(ps, v)) = v
      BY <2>2, AppendFront DEF A
    <2>8. f[k + j] = Append(ps, SubSeq(w, 1, j))
      BY <2>2, <2>5, <2>6, <2>7 DEF Parts
    <2> QED BY <2>1, <2>8
  <1> HIDE DEF X, m
  <1>3. m \in X
    <2>1. \A j \in 0 .. m : j \in X
      BY <1>0, <1>1, <1>2, UpTo
    <2> QED BY <1>0, <2>1
  <1>4. f[k + m] = Append(ps, SubSeq(w, 1, m))
    BY <1>3 DEF X
  <1> QED BY <1>4, SubSeqFull DEF m

\* And the c behind it, after the first `next` characters, begins another part.
Beyond(next, k, w, s) == next \in Nat /\ next = k + Len(w) + 1 /\ next <= Len(s)

\* After the word comes the separator: the word is a part of its own.
LEMMA SplitBar ==
    ASSUME NEW S, NEW s \in Seq(S), NEW c, NEW f, SplitLoop(f, c, s),
           NEW ps \in Seq(Seq(S)), NEW w \in Seq(S), NEW k \in Nat, IsWord(w, c, s, k),
           After(f, k, ps), NEW next, Beyond(next, k, w, s), s[next] = c
    PROVE  After(f, next, Append(ps, w))
  <1>1. f[k + Len(w)] = Append(ps, w)
    BY SplitWord
  <1>2. next \in 1 .. Len(s) /\ next - 1 = k + Len(w)
    BY LenProperties DEF Beyond
  <1>3. f[next] = Parts(Append(ps, w), c, c)
    BY <1>1, <1>2 DEF SplitLoop
  <1> QED BY <1>3 DEF Parts, After
-----------------------------------------------------------------------------
(* The registers                                                            *)

RegisterLoop(f, s, mine) ==
    /\ f[0] = <<>>
    /\ \A i \in 1 .. Len(s) : f[i] = IF i \in mine THEN Append(f[i - 1], s[i]) ELSE f[i - 1]

\* There is the loop in which the engine fills its registers.
LEMMA RegistersOf ==
    ASSUME NEW S, NEW s \in Seq(S), NEW mine
    PROVE  \E f : RegisterLoop(f, s, mine) /\ Registers(s, mine) = f[Len(s)]
  <1> DEFINE n == Len(s)
             T == Seq(S)
             Takes(x, i) == IF i \in mine THEN Append(x, s[i]) ELSE x
             step == [i \in 1 .. n |-> [x \in T |-> Takes(x, i)]]
             Def(f) == f = [i \in 0 .. n |-> IF i = 0 THEN <<>>
                                             ELSE IF i \in mine THEN Append(f[i - 1], s[i]) ELSE f[i - 1]]
             taken == CHOOSE f : Def(f)
  <1>0. n \in Nat
    BY LenProperties
  <1>1. \A i \in 1 .. n : s[i] \in S
    BY LenProperties, ElementOfSeq
  <1>2. <<>> \in T
    BY EmptySeq
  <1>3. \A x \in T, i \in 1 .. n : Takes(x, i) \in T
    BY <1>1, AppendProperties
  <1> HIDE DEF T, Takes
  <1>4. Steps(step, n, T)
    BY <1>3 DEF Steps
  <1>5. PICK g : Loop(g, T, <<>>, n, step)
    <2> HIDE DEF n, step
    <2> QED BY <1>0, <1>2, <1>4, Iterates
  <1>6. \A i \in 0 .. n : g[i] = IF i = 0 THEN <<>> ELSE Takes(g[i - 1], i)
    <2> SUFFICES ASSUME NEW i \in 0 .. n, i # 0 PROVE g[i] = Takes(g[i - 1], i)
      BY <1>5 DEF Loop
    <2>1. i \in 1 .. n /\ i - 1 \in 0 .. n /\ g[i - 1] \in T
      BY <1>0, <1>5 DEF Loop
    <2> QED BY <1>5, <2>1 DEF Loop
  <1>7. Def(g)
    BY <1>5, <1>6 DEF Loop, Takes
  <1>8. Def(taken)
    BY <1>7
  <1>9. Registers(s, mine) = taken[n]
    BY DEF Registers
  <1> HIDE DEF taken, step
  <1>10. taken[0] = <<>>
    BY <1>0, <1>8
  <1>11. \A i \in 1 .. n : taken[i] = IF i \in mine THEN Append(taken[i - 1], s[i]) ELSE taken[i - 1]
    <2>1. \A i \in 0 .. n : taken[i] = IF i = 0 THEN <<>>
                                       ELSE IF i \in mine THEN Append(taken[i - 1], s[i]) ELSE taken[i - 1]
      BY <1>8
    <2>2. \A i \in 1 .. n : i \in 0 .. n /\ i # 0
      BY <1>0
    <2> HIDE DEF n
    <2> QED BY <2>1, <2>2
  <1>12. RegisterLoop(taken, s, mine)
    BY <1>10, <1>11 DEF RegisterLoop
  <1> QED BY <1>9, <1>12

\* Three appended one by one.
LEMMA ThreeAppends ==
    ASSUME NEW S, NEW x \in S, NEW y \in S, NEW z \in S
    PROVE  Append(Append(Append(<<>>, x), y), z) = <<x, y, z>>
  <1>1. <<x>> \in Seq(S) /\ <<x, y>> \in Seq(S) /\ <<x, y, z>> \in Seq(S)
    BY ShortSeqs
  <1>2. Append(<<>>, x) = <<x>>
    OBVIOUS
  <1>3. Append(<<x>>, y) = <<x, y>>
    <2>1. /\ Append(<<x>>, y) \in Seq(S) /\ Len(Append(<<x>>, y)) = Len(<<x>>) + 1
          /\ Append(<<x>>, y)[Len(<<x>>) + 1] = y
          /\ \A i \in 1 .. Len(<<x>>) : Append(<<x>>, y)[i] = <<x>>[i]
      BY <1>1, AppendProperties
    <2>2. /\ Len(<<x>>) = 1 /\ Len(<<x, y>>) = 2 /\ <<x>>[1] = x /\ <<x, y>>[1] = x
               /\ <<x, y>>[2] = y
      OBVIOUS
    <2>3. \A i \in 1 .. 2 : Append(<<x>>, y)[i] = <<x, y>>[i]
      BY <2>1, <2>2
    <2> DEFINE a == Append(<<x>>, y)
               b == <<x, y>>
    <2>4. a \in Seq(S) /\ b \in Seq(S) /\ Len(a) = 2 /\ Len(b) = 2 /\ \A i \in 1 .. 2 : a[i] = b[i]
      BY <1>1, <2>1, <2>2, <2>3
    <2> HIDE DEF a, b
    <2>5. a = b
      BY <2>4, SeqEqual
    <2> QED BY <2>5 DEF a, b
  <1>4. Append(<<x, y>>, z) = <<x, y, z>>
    <2>1. /\ Append(<<x, y>>, z) \in Seq(S) /\ Len(Append(<<x, y>>, z)) = Len(<<x, y>>) + 1
          /\ Append(<<x, y>>, z)[Len(<<x, y>>) + 1] = z
          /\ \A i \in 1 .. Len(<<x, y>>) : Append(<<x, y>>, z)[i] = <<x, y>>[i]
      BY <1>1, AppendProperties
    <2>2. /\ Len(<<x, y>>) = 2 /\ Len(<<x, y, z>>) = 3 /\ <<x, y>>[1] = x /\ <<x, y>>[2] = y
          /\ <<x, y, z>>[1] = x /\ <<x, y, z>>[2] = y /\ <<x, y, z>>[3] = z
      OBVIOUS
    <2>3. \A i \in 1 .. 3 : Append(<<x, y>>, z)[i] = <<x, y, z>>[i]
      BY <2>1, <2>2
    <2> DEFINE a == Append(<<x, y>>, z)
               b == <<x, y, z>>
    <2>4. a \in Seq(S) /\ b \in Seq(S) /\ Len(a) = 3 /\ Len(b) = 3 /\ \A i \in 1 .. 3 : a[i] = b[i]
      BY <1>1, <2>1, <2>2, <2>3
    <2> HIDE DEF a, b
    <2>5. a = b
      BY <2>4, SeqEqual
    <2> QED BY <2>5 DEF a, b
  <1> QED BY <1>2, <1>3, <1>4, Zenon

\* The steps of a loop over four.
LEMMA FourSteps ==
    ASSUME NEW f, NEW mine, NEW s,
           \A i \in 1 .. 4 : f[i] = IF i \in mine THEN Append(f[i - 1], s[i]) ELSE f[i - 1]
    PROVE  /\ f[1] = IF 1 \in mine THEN Append(f[0], s[1]) ELSE f[0]
           /\ f[2] = IF 2 \in mine THEN Append(f[1], s[2]) ELSE f[1]
           /\ f[3] = IF 3 \in mine THEN Append(f[2], s[3]) ELSE f[2]
           /\ f[4] = IF 4 \in mine THEN Append(f[3], s[4]) ELSE f[3]
  <1>1. /\ 1 \in 1 .. 4 /\ 2 \in 1 .. 4 /\ 3 \in 1 .. 4 /\ 4 \in 1 .. 4
        /\ 1 - 1 = 0 /\ 2 - 1 = 1 /\ 3 - 1 = 2 /\ 4 - 1 = 3
    OBVIOUS
  <1> QED BY <1>1, Zenon

\* Of four fields, the third is a string and the others are integers.
LEMMA FourRegisters ==
    ASSUME NEW S, NEW s \in Seq(S), Len(s) = 4
    PROVE  /\ Registers(s, {1, 2, 4}) = <<s[1], s[2], s[4]>>
           /\ Registers(s, {3}) = <<s[3]>>
  <1>1. Registers(s, {1, 2, 4}) = <<s[1], s[2], s[4]>>
    <2> DEFINE mine == {1, 2, 4}
    <2> HIDE DEF mine
    <2>1. PICK f : RegisterLoop(f, s, mine) /\ Registers(s, mine) = f[Len(s)]
      BY RegistersOf
    <2>0. /\ f[0] = <<>> /\ Registers(s, mine) = f[4]
          /\ \A i \in 1 .. 4 : f[i] = IF i \in mine THEN Append(f[i - 1], s[i]) ELSE f[i - 1]
      BY <2>1 DEF RegisterLoop
    <2>2. f[1] = Append(f[0], s[1]) /\ f[2] = Append(f[1], s[2]) /\ f[3] = f[2]
            /\ f[4] = Append(f[3], s[4])
      BY <2>0, FourSteps DEF mine
    <2>3. f[4] = Append(Append(Append(<<>>, s[1]), s[2]), s[4])
      BY <2>0, <2>2, Zenon
    <2>4. \A x, y, z \in S : Append(Append(Append(<<>>, x), y), z) = <<x, y, z>>
      BY ThreeAppends
    <2>5. s[1] \in S /\ s[2] \in S /\ s[4] \in S
      <3>1. 1 \in 1 .. 4 /\ 2 \in 1 .. 4 /\ 4 \in 1 .. 4
        OBVIOUS
      <3> QED BY <3>1, ElementOfSeq
    <2> QED BY <2>0, <2>3, <2>4, <2>5, Zenon DEF mine
  <1>2. Registers(s, {3}) = <<s[3]>>
    <2> DEFINE mine == {3}
    <2> HIDE DEF mine
    <2>1. PICK f : RegisterLoop(f, s, mine) /\ Registers(s, mine) = f[Len(s)]
      BY RegistersOf
    <2>0. /\ f[0] = <<>> /\ Registers(s, mine) = f[4]
          /\ \A i \in 1 .. 4 : f[i] = IF i \in mine THEN Append(f[i - 1], s[i]) ELSE f[i - 1]
      BY <2>1 DEF RegisterLoop
    <2>2. f[1] = f[0] /\ f[2] = f[1] /\ f[3] = Append(f[2], s[3]) /\ f[4] = f[3]
      BY <2>0, FourSteps DEF mine
    <2>3. f[4] = Append(<<>>, s[3])
      BY <2>0, <2>2, Zenon
    <2> QED BY <2>0, <2>3 DEF mine
  <1> QED BY <1>1, <1>2
-----------------------------------------------------------------------------
(* A frame                                                                  *)

\* x is s, of length m, and then t, of length n.
Joined(x, s, m, t, n) == /\ Len(x) = m + n
                         /\ \A i \in 1 .. m : x[i] = s[i]
                         /\ \A i \in 1 .. n : x[m + i] = t[i]

\* Where the elements of two sequences are when they are joined.
LEMMA ConcatAt ==
    ASSUME NEW S, NEW s \in Seq(S), NEW t \in Seq(S)
    PROVE  s \o t \in Seq(S) /\ Joined(s \o t, s, Len(s), t, Len(t))
  <1> DEFINE x == s \o t
             m == Len(s)
             n == Len(t)
  <1>0. m \in Nat /\ n \in Nat
    BY LenProperties
  <1>1. x \in Seq(S) /\ Len(x) = m + n
        /\ \A i \in 1 .. m + n : x[i] = IF i <= m THEN s[i] ELSE t[i - m]
    BY ConcatProperties
  <1> HIDE DEF x, m, n
  <1>2. \A i \in 1 .. m : i \in 1 .. m + n /\ i <= m
    BY <1>0
  <1>3. \A i \in 1 .. n : m + i \in 1 .. m + n /\ ~(m + i <= m) /\ (m + i) - m = i
    BY <1>0
  <1>4. \A i \in 1 .. m : x[i] = s[i]
    BY <1>1, <1>2
  <1>5. \A i \in 1 .. n : x[m + i] = t[i]
    BY <1>1, <1>3
  <1>6. Joined(x, s, m, t, n)
    BY <1>1, <1>4, <1>5 DEF Joined
  <1> QED BY <1>1, <1>6 DEF x, m, n

Without(c, s) == \A i \in 1 .. Len(s) : s[i] # c

Framed(c, u, d, w) == u \o <<c, d, c>> \o w \o <<c>> \o u

\* A text between two of a kind, with a character beside it: four parts.
LEMMA FourParts ==
    ASSUME NEW S, NEW c \in S, NEW d \in S, d # c,
           NEW u \in Seq(S), Without(c, u), NEW w \in Seq(S), Without(c, w),
           NEW parts, parts = Split(c, Framed(c, u, d, w))
    PROVE  /\ parts \in Seq(Seq(S)) /\ Len(parts) = 4
           /\ parts[1] = u /\ parts[2] = <<d>> /\ parts[3] = w /\ parts[4] = u
  <1> DEFINE t  == <<c, d, c>>
             o  == <<c>>
             v  == <<d>>
             x1 == u \o t
             x2 == x1 \o w
             x3 == x2 \o o
             s  == x3 \o u
             a  == Len(u)
             b  == Len(w)
  <1>0. a \in Nat /\ b \in Nat
    BY LenProperties
  <1>1. /\ t \in Seq(S) /\ Len(t) = 3 /\ t[1] = c /\ t[2] = d /\ t[3] = c
        /\ o \in Seq(S) /\ Len(o) = 1 /\ o[1] = c
        /\ v \in Seq(S) /\ Len(v) = 1 /\ v[1] = d
    BY ShortSeqs
  <1> HIDE DEF t, o, v
  <1>2. /\ x1 \in Seq(S) /\ Len(x1) = a + 3
        /\ \A i \in 1 .. a : x1[i] = u[i]
        /\ \A i \in 1 .. 3 : x1[a + i] = t[i]
    <2>1. x1 \in Seq(S) /\ Joined(x1, u, Len(u), t, Len(t))
      BY <1>1, ConcatAt
    <2>2. Len(u) = a /\ Len(t) = 3
      BY <1>1
    <2> HIDE DEF x1, a, b
    <2>3. Joined(x1, u, a, t, 3)
      BY <2>1, <2>2
    <2> QED BY <2>1, <2>3 DEF Joined
  <1> HIDE DEF x1
  <1>3. /\ x2 \in Seq(S) /\ Len(x2) = a + 3 + b
        /\ \A i \in 1 .. a + 3 : x2[i] = x1[i]
        /\ \A i \in 1 .. b : x2[a + 3 + i] = w[i]
    <2>1. x2 \in Seq(S) /\ Joined(x2, x1, Len(x1), w, Len(w))
      BY <1>2, ConcatAt
    <2>2. Len(x1) = a + 3 /\ Len(w) = b
      BY <1>2
    <2> HIDE DEF x2, a, b
    <2>3. Joined(x2, x1, a + 3, w, b)
      BY <2>1, <2>2
    <2> QED BY <2>1, <2>3 DEF Joined
  <1> HIDE DEF x2
  <1>4. /\ x3 \in Seq(S) /\ Len(x3) = a + 3 + b + 1
        /\ \A i \in 1 .. a + 3 + b : x3[i] = x2[i]
        /\ \A i \in 1 .. 1 : x3[a + 3 + b + i] = o[i]
    <2>1. x3 \in Seq(S) /\ Joined(x3, x2, Len(x2), o, Len(o))
      BY <1>1, <1>3, ConcatAt
    <2>2. Len(x2) = a + 3 + b /\ Len(o) = 1
      BY <1>1, <1>3
    <2> HIDE DEF x3, a, b
    <2>3. Joined(x3, x2, a + 3 + b, o, 1)
      BY <2>1, <2>2
    <2> QED BY <2>1, <2>3 DEF Joined
  <1> HIDE DEF x3
  <1>5. /\ s \in Seq(S) /\ Len(s) = a + 3 + b + 1 + a
        /\ \A i \in 1 .. a + 3 + b + 1 : s[i] = x3[i]
        /\ \A i \in 1 .. a : s[a + 3 + b + 1 + i] = u[i]
    <2>1. s \in Seq(S) /\ Joined(s, x3, Len(x3), u, Len(u))
      BY <1>4, ConcatAt
    <2>2. Len(x3) = a + 3 + b + 1 /\ Len(u) = a
      BY <1>4
    <2> HIDE DEF s, a, b
    <2>3. Joined(s, x3, a + 3 + b + 1, u, a)
      BY <2>1, <2>2
    <2> QED BY <2>1, <2>3 DEF Joined
  <1> HIDE DEF s, a, b
  <1>6. \A i \in 1 .. a : s[i] = u[i]
    <2>1. \A i \in 1 .. a : i \in 1 .. a + 3 /\ i \in 1 .. a + 3 + b /\ i \in 1 .. a + 3 + b + 1
      BY <1>0
    <2> QED BY <1>2, <1>3, <1>4, <1>5, <2>1
  <1>7. s[a + 1] = c /\ s[a + 2] = d /\ s[a + 3] = c
    <2>1. \A i \in 1 .. 3 : a + i \in 1 .. a + 3 /\ a + i \in 1 .. a + 3 + b
                            /\ a + i \in 1 .. a + 3 + b + 1
      BY <1>0
    <2>2. \A i \in 1 .. 3 : s[a + i] = t[i]
      <3>1. \A i \in 1 .. 3 : s[a + i] = x3[a + i] /\ x3[a + i] = x2[a + i] /\ x2[a + i] = x1[a + i]
        BY <1>3, <1>4, <1>5, <2>1, Zenon
      <3> QED BY <1>2, <3>1, Zenon
    <2>3. 1 \in 1 .. 3 /\ 2 \in 1 .. 3 /\ 3 \in 1 .. 3
      OBVIOUS
    <2>4. t[1] = c /\ t[2] = d /\ t[3] = c
      BY <1>1
    <2> QED BY <2>2, <2>3, <2>4, Zenon
  <1>8. \A i \in 1 .. b : s[a + 3 + i] = w[i]
    <2>1. \A i \in 1 .. b : a + 3 + i \in 1 .. a + 3 + b /\ a + 3 + i \in 1 .. a + 3 + b + 1
      BY <1>0
    <2> QED BY <1>3, <1>4, <1>5, <2>1
  <1>9. s[a + 3 + b + 1] = c
    <2>1. a + 3 + b + 1 \in 1 .. a + 3 + b + 1 /\ 1 \in 1 .. 1
      BY <1>0
    <2> QED BY <1>1, <1>4, <1>5, <2>1
  <1>10. PICK f : SplitLoop(f, c, s) /\ Split(c, s) = f[Len(s)]
    <2>1. \E f : /\ f[0] = << <<>> >> /\ \A i \in 1 .. Len(s) : f[i] = Parts(f[i - 1], c, s[i])
                 /\ Split(c, s) = f[Len(s)]
      BY <1>5, SplittingOfText
    <2> QED BY <2>1 DEF SplitLoop
  <1> DEFINE A  == Seq(S)
             p0 == <<>>
             p1 == Append(p0, u)
             p2 == Append(p1, v)
             p3 == Append(p2, w)
             p4 == Append(p3, u)
  <1>12. p0 \in Seq(A) /\ p1 \in Seq(A) /\ p2 \in Seq(A) /\ p3 \in Seq(A) /\ p4 \in Seq(A)
         /\ Len(p4) = 4 /\ p4[1] = u /\ p4[2] = v /\ p4[3] = w /\ p4[4] = u
    <2>1. u \in A /\ v \in A /\ w \in A
      BY <1>1
    <2> HIDE DEF A
    <2> QED BY <2>1
  <1>13. After(f, 0, p0)
    BY <1>10 DEF SplitLoop, After
  <1> HIDE DEF p0, p1, p2, p3, p4
  <1>14. After(f, a + 1, p1)
    <2>1. IsWord(u, c, s, 0)
      <3>1. 0 + a <= Len(s) /\ \A i \in 1 .. a : 0 + i = i
        BY <1>0, <1>5
      <3> QED BY <1>6, <3>1 DEF IsWord, Without, a
    <2>2. Beyond(a + 1, 0, u, s) /\ 0 \in Nat
      BY <1>0, <1>5 DEF a, Beyond
    <2> QED BY <1>5, <1>7, <1>10, <1>12, <1>13, <2>1, <2>2, SplitBar DEF p1
  <1>15. After(f, a + 3, p2)
    <2>1. IsWord(v, c, s, a + 1)
      <3>1. a + 1 + 1 = a + 2 /\ a + 2 <= Len(s)
        BY <1>0, <1>5
      <3>2. v[1] = s[a + 1 + 1] /\ v[1] # c /\ a + 1 + Len(v) <= Len(s)
        BY <1>1, <1>7, <3>1
      <3> QED BY <1>1, <3>2, OneOnly DEF IsWord
    <2>2. Beyond(a + 3, a + 1, v, s) /\ a + 1 \in Nat
      BY <1>0, <1>1, <1>5 DEF Beyond
    <2> QED BY <1>1, <1>5, <1>7, <1>10, <1>12, <1>14, <2>1, <2>2, SplitBar DEF p2
  <1>16. After(f, a + 3 + b + 1, p3)
    <2>1. IsWord(w, c, s, a + 3)
      <3>1. a + 3 + b <= Len(s)
        BY <1>0, <1>5
      <3> QED BY <1>8, <3>1 DEF IsWord, Without, b
    <2>2. Beyond(a + 3 + b + 1, a + 3, w, s) /\ a + 3 \in Nat
      BY <1>0, <1>5 DEF b, Beyond
    <2> QED BY <1>5, <1>9, <1>10, <1>12, <1>15, <2>1, <2>2, SplitBar DEF p3
  <1>17. f[Len(s)] = p4
    <2> DEFINE k == a + 3 + b + 1
    <2>1. IsWord(u, c, s, k)
      <3>1. k + a <= Len(s)
        BY <1>0, <1>5
      <3> QED BY <1>5, <3>1 DEF IsWord, Without, a
    <2>2. k \in Nat /\ k + Len(u) = Len(s)
      BY <1>0, <1>5 DEF a
    <2> HIDE DEF k
    <2>3. After(f, k, p3) /\ s \in Seq(S) /\ p3 \in Seq(Seq(S)) /\ k \in Nat
      BY <1>5, <1>12, <1>16, <2>2 DEF k
    <2>4. f[k + Len(u)] = Append(p3, u)
      BY <1>10, <2>1, <2>3, SplitWord
    <2> QED BY <2>2, <2>4, Zenon DEF p4
  <1>18. Split(c, s) = p4
    BY <1>10, <1>17
  <1>19. s = Framed(c, u, d, w)
    BY DEF s, x3, x2, x1, t, o, Framed
  <1>20. v = <<d>>
    BY DEF v
  <1> QED BY <1>12, <1>18, <1>19, <1>20
-----------------------------------------------------------------------------
(* What the engine reads                                                    *)

Rids  == {<<"0">>, <<"1">>, <<"1", "2">>}
Codes == {READY, FAILED, BAD_REQUEST}
Bar   == "|"

\* A rid, and a code, are integers without a bar; a text with a letter is none.
LEMMA RidType ==
    ASSUME NEW rid \in Rids
    PROVE  rid \in Seq(Digits) /\ IsInteger(rid)
  <1>1. "0" \in Digits /\ "1" \in Digits /\ "2" \in Digits
    BY DEF Digits
  <1>2. <<"0">> \in Seq(Digits) /\ <<"1">> \in Seq(Digits) /\ <<"1", "2">> \in Seq(Digits)
    BY <1>1, ShortSeqs
  <1>3. rid \in Seq(Digits)
    BY <1>2 DEF Rids
  <1>4. \A i \in DOMAIN rid : rid[i] \in Digits
    BY <1>3, LenProperties, ElementOfSeq
  <1> QED BY <1>3, <1>4 DEF IsInteger

\* A code of the protocol is one digit, and the engine takes it for an integer.
LEMMA CodeType == ASSUME NEW code \in Codes PROVE code \in Digits /\ IsInteger(<<code>>)
  <1>1. code \in Digits
    BY DEF Codes, READY, FAILED, BAD_REQUEST, Digits
  <1>2. <<code>> \in Seq(Digits)
    BY <1>1, ShortSeqs
  <1>3. \A i \in DOMAIN <<code>> : <<code>>[i] \in Digits
    BY <1>2, LenProperties, ElementOfSeq
  <1> QED BY <1>1, <1>3 DEF IsInteger

\* A text with a letter is a string to the engine.
LEMMA TextIsNoInteger == ASSUME NEW s \in Seq(Plain), HasLetter(s) PROVE ~IsInteger(s)
  <1>1. Letter \cap Digits = {} /\ "-" \notin Letter
    BY TokenAssumption DEF Letter, Digits
  <1> QED BY <1>1 DEF HasLetter, IsInteger

\* What is shown has no bar.
LEMMA NoBars ==
    /\ Bar \notin Plain
    /\ Digits \subseteq Plain
    /\ \A s \in Seq(Plain) : s \in Seq(Plain \cup {Bar}) /\ Without(Bar, s)
  <1>1. Bar \notin Plain
    BY PlainIsPlain DEF Bar, Translated
  <1>2. Digits \subseteq Plain
    BY DEF Plain
  <1>3. ASSUME NEW s \in Seq(Plain) PROVE s \in Seq(Plain \cup {Bar}) /\ Without(Bar, s)
    <2>1. \A i \in 1 .. Len(s) : s[i] \in Plain
      BY ElementOfSeq
    <2>2. Without(Bar, s)
      BY <1>1, <2>1 DEF Without
    <2> DEFINE P == Plain
               B == Plain \cup {Bar}
    <2>3. P \subseteq B
      OBVIOUS
    <2> HIDE DEF P, B
    <2>4. s \in Seq(B)
      <3>1. s \in Seq(P)
        BY DEF P
      <3> QED BY <2>3, <3>1
    <2> QED BY <2>2, <2>4 DEF B
  <1> QED BY <1>1, <1>2, <1>3

\* A frame comes apart into its rid, its code, and its text.
LEMMA FrameComesApart ==
    ASSUME NEW rid \in Rids, NEW code \in Codes, NEW text \in Seq(Char)
    PROVE  LET t    == SanitizeText(text)
               body == Frame(rid, code, text)
           IN  /\ IntegersOf(body) = <<rid, <<IF t.ok THEN code ELSE FAILED>>, rid>>
               /\ StringsOf(body) = <<t.text>>
  <1> DEFINE t == SanitizeText(text)
             w == t.text
             d == IF t.ok THEN code ELSE FAILED
             B == Plain \cup {Bar}
             body == Frame(rid, code, text)
             parts == Fields(body)
  <1>1. w \in Seq(Plain) /\ HasLetter(w)
    BY SanitizedIsPlain
  <1>2. d \in Codes
    BY DEF Codes
  <1> HIDE DEF w, d
  <1>3. d \in Plain /\ d # Bar /\ d \in B /\ Bar \in B
    BY <1>2, CodeType, NoBars
  <1>4. rid \in Seq(B) /\ Without(Bar, rid)
    <2>1. rid \in Seq(Digits)
      BY RidType
    <2> DEFINE P == Plain
               D == Digits
    <2>2. D \subseteq P
      BY NoBars
    <2> HIDE DEF P, D
    <2>3. rid \in Seq(P)
      <3>1. rid \in Seq(D)
        BY <2>1 DEF D
      <3> QED BY <2>2, <3>1
    <2> QED BY <2>3, NoBars DEF P
  <1>5. w \in Seq(B) /\ Without(Bar, w)
    BY <1>1, NoBars
  <1>6. parts = Split(Bar, Framed(Bar, rid, d, w))
    BY DEF Fields, Frame, Framed, Bar, d, w
  <1> HIDE DEF B, parts
  <1>7. /\ parts \in Seq(Seq(B)) /\ Len(parts) = 4
        /\ parts[1] = rid /\ parts[2] = <<d>> /\ parts[3] = w /\ parts[4] = rid
    BY <1>3, <1>4, <1>5, <1>6, FourParts
  <1>8. DOMAIN parts = 1 .. 4
    BY <1>7, LenProperties
  <1>9. IsInteger(parts[1]) /\ IsInteger(parts[2]) /\ ~IsInteger(parts[3]) /\ IsInteger(parts[4])
    BY <1>1, <1>2, <1>7, RidType, CodeType, TextIsNoInteger
  <1>10. NumericOf(parts) = {1, 2, 4} /\ DOMAIN parts \ NumericOf(parts) = {3}
    <2>1. 1 .. 4 = {1, 2, 3, 4}
      OBVIOUS
    <2> QED BY <1>8, <1>9, <2>1 DEF NumericOf
  <1>11. Registers(parts, {1, 2, 4}) = <<rid, <<d>>, rid>> /\ Registers(parts, {3}) = <<w>>
    BY <1>7, FourRegisters
  <1>12. IntegersOf(body) = <<rid, <<d>>, rid>> /\ StringsOf(body) = <<w>>
    BY <1>10, <1>11, Zenon DEF IntegersOf, StringsOf, parts
  <1> QED BY <1>12 DEF d, w
-----------------------------------------------------------------------------
(* The exchange                                                             *)

\* The reader has its fields, and a failure has a reason.
IsReader(x) == x = [at |-> x.at, budget |-> x.budget, status |-> x.status, chunked |-> x.chunked,
                    length |-> x.length, body |-> x.body, reason |-> x.reason]
ReaderFails == IsReader(reader) /\ (reader.at = "failed" => reader.reason \in Tokens)

\* What is known of the result: it is READY when the reply was found good, and
\* in v2 it is then the sanitized text.
Early    == {"sent", "arrived", "admitted", "pending", "generating", "document"}
Underway == {"pending", "generating", "document", "made", "kept"}
Good     == SanitizeText(raw).ok
Found    == SanitizeText(raw).text

ResultType ==
    /\ raw \in Seq(Char)
    /\ result \in [state : {"none", READY, FAILED}, text : Seq(Char)]
    /\ at \in Early => result.state = "none"
    /\ at \in {"made", "kept"} => result.state # "none"
Kept ==
    /\ at = "kept" => request.api = "v2"
    /\ at = "made" /\ result.state = READY => Good /\ result.text = raw
    /\ at = "kept" /\ result.state = READY => Good /\ result.text = Found
RidKept == at \in Underway => request.rid \in Rids

\* What is known of an answer: it is a frame, and that of a good reply is made
\* of it.
IsFrameOf(x, text) == x.body = Frame(x.rid, x.code, text)
AnswerIsFrame ==
    at = "answered" =>
        /\ answer.rid \in Rids /\ answer.code \in Codes
        /\ \E text \in Seq(Char) : IsFrameOf(answer, text)
        /\ result.state = READY =>
               /\ Good /\ answer.code = READY
               /\ IsFrameOf(answer, IF request.api = "v2" THEN Found ELSE raw)

WireInv ==
    /\ at \in Early \cup {"made", "kept", "answered"}
    /\ ReaderFails /\ ResultType /\ Kept /\ RidKept /\ AnswerIsFrame

\* A token by itself is a text, and so is what a text is sanitized to.
LEMMA TokenIsText == \A token \in Tokens : token \in Char /\ <<token>> \in Seq(Char)
  <1>1. \A token \in Tokens : token \in Char
    BY DEF Char, Plain, Letter
  <1> QED BY <1>1, ShortSeqs

\* sanitize_text makes a text of a text.
LEMMA SanitizedIsText == \A s \in Seq(Char) : SanitizeText(s).text \in Seq(Char)
  <1> SUFFICES ASSUME NEW s \in Seq(Char) PROVE SanitizeText(s).text \in Seq(Char)
    OBVIOUS
  <1> DEFINE P == Plain
             C == Char
             x == SanitizeText(s).text
  <1>1. x \in Seq(P) /\ P \subseteq C
    BY SanitizedIsPlain, PlainIsPlain
  <1> HIDE DEF P, C, x
  <1>2. x \in Seq(C)
    BY <1>1
  <1> QED BY <1>2 DEF x, C

\* The first check that fails names a reason.
LEMMA ReasonIsToken == ~Admitted(request) => Reason(request) \in Tokens
  <1> SUFFICES ASSUME ~Admitted(request) PROVE Reason(request) \in Tokens
    OBVIOUS
  <1> DEFINE checks == Checks(request)
  <1>1. PICK n \in Nat : DOMAIN checks = 1 .. n /\ \A i \in 1 .. n : checks[i][2] \in Tokens
    <2>1. {"truncated", "too_long", "bad_param", "bad_version", "empty_msg"} \subseteq Tokens
      BY ReasonAssumption
    <2>2. DOMAIN V1Checks(request) = 1 .. 8 /\ \A i \in 1 .. 8 : V1Checks(request)[i][2] \in Tokens
      BY <2>1 DEF V1Checks
    <2>3. DOMAIN V2Checks(request) = 1 .. 13
            /\ \A i \in 1 .. 13 : V2Checks(request)[i][2] \in Tokens
      BY <2>1 DEF V2Checks
    <2> QED BY <2>2, <2>3 DEF Checks
  <1> DEFINE fail == Failing(request)
  <1>2. fail \in SUBSET (1 .. n) /\ fail # {}
    BY <1>1 DEF Failing, Admitted
  <1>3. PICK m \in fail : \A k \in fail : m <= k
    <2>1. fail \in SUBSET (0 .. n)
      BY <1>2
    <2> HIDE DEF fail
    <2> QED BY <1>2, <2>1, LeastOf
  <1>4. Min(fail) \in fail
    <2> HIDE DEF fail
    <2> QED BY <1>3 DEF Min
  <1> HIDE DEF checks, fail
  <1>5. Reason(request) = checks[Min(fail)][2]
    BY DEF Reason, checks, fail
  <1> QED BY <1>1, <1>2, <1>4, <1>5

\* What is answered as the rid is a number.
LEMMA RidIsRid == Rid(request) \in Rids
  BY DEF Rid, Rids, Valid

\* A step of the reader leaves it its fields, and fails for a reason only.
LEMMA ReaderStays == ASSUME ReaderFails, ReadStep PROVE ReaderFails'
  <1>1. "timeout" \in Tokens /\ "upstream_error" \in Tokens
    BY ReasonAssumption
  <1>2. ASSUME NEW reason \in {"timeout", "upstream_error"}, Fails(reason) PROVE ReaderFails'
    BY <1>1, <1>2 DEF Fails, Becomes, ReaderFails, IsReader
  <1>3. RunsDry => ReaderFails'
    BY <1>2 DEF RunsDry
  <1>4. \A limit : NoLine(limit) => ReaderFails'
    BY <1>2, <1>3 DEF NoLine
  <1>5. \A n : ReadsBlock(n, "read") \/ ReadsBlock(n, "after") => ReaderFails'
    BY <1>3 DEF ReadsBlock, Becomes, ReaderFails, IsReader
  <1>6. CASE StatusLine
    BY <1>2, <1>4, <1>6 DEF StatusLine, NewHead, Becomes, ReaderFails, IsReader
  <1>7. CASE HeaderLine
    <2>1. BodyReader # "failed"
      BY DEF BodyReader
    <2> QED BY <1>2, <1>4, <1>7, <2>1 DEF HeaderLine, Becomes, ReaderFails, IsReader
  <1>8. CASE ReadExact
    BY <1>5, <1>8 DEF ReadExact
  <1>9. CASE ReadRest
    BY <1>2, <1>3, <1>5, <1>9 DEF ReadRest
  <1>10. CASE ChunkSize
    BY <1>2, <1>4, <1>10 DEF ChunkSize, Becomes, ReaderFails, IsReader
  <1>11. CASE Chunk
    BY <1>5, <1>11 DEF Chunk
  <1>12. CASE AfterChunk
    BY <1>2, <1>4, <1>12 DEF AfterChunk, Becomes, ReaderFails, IsReader
  <1> QED BY <1>6, <1>7, <1>8, <1>9, <1>10, <1>11, <1>12 DEF ReadStep

\* At first there is nothing to be said of the text.
LEMMA WireInit == Init => WireInv
  <1> SUFFICES ASSUME Init PROVE WireInv
    OBVIOUS
  <1>1. ReaderFails
    BY DEF Init, Unread, ReaderFails, IsReader
  <1>2. ResultType
    BY EmptySeq DEF Init, ResultType
  <1> QED BY <1>1, <1>2 DEF Init, WireInv, Kept, RidKept, AnswerIsFrame, Underway, Early

\* An answer that is none to a good reply.
LEMMA OtherAnswer ==
    ASSUME ResultType, result.state # READY, at' = "answered",
           NEW rid \in Rids, NEW token \in Tokens, Answers(rid, BAD_REQUEST, <<token>>),
           UNCHANGED <<result, raw>>
    PROVE  AnswerIsFrame'
  <1>1. <<token>> \in Seq(Char)
    BY TokenIsText
  <1>2. answer'.rid = rid /\ answer'.code = BAD_REQUEST /\ IsFrameOf(answer', <<token>>)
    BY DEF Answers, IsFrameOf
  <1>3. BAD_REQUEST \in Codes
    BY DEF Codes
  <1> QED BY <1>1, <1>2, <1>3 DEF AnswerIsFrame

\* Every step keeps what is known of the text and of the last answer.
LEMMA WireStep == WireInv /\ [Next]_vars => WireInv'
  <1> SUFFICES ASSUME WireInv, [Next]_vars PROVE WireInv'
    OBVIOUS
  <1> USE DEF WireInv
  <1>0. READY = "0" /\ FAILED = "2" /\ BAD_REQUEST = "4"
    BY DEF READY, FAILED, BAD_REQUEST
  <1>1. CASE UNCHANGED vars
    BY <1>1 DEF vars, wireVars, readVars, ReaderFails, ResultType, Kept, RidKept, AnswerIsFrame,
                Good, Found
  <1>2. CASE Receives
    BY <1>2 DEF Receives, wireVars, readVars, ReaderFails, ResultType, Kept, RidKept, AnswerIsFrame,
                Early, Underway
  <1>3. CASE Arrives
    BY <1>3 DEF Arrives, Received, readVars, ReaderFails, ResultType, Kept, RidKept, AnswerIsFrame,
                Early, Underway
  <1>4. CASE Garbled
    <2>1. "bad_param" \in Tokens /\ <<"0">> \in Rids
      BY ReasonAssumption DEF Rids
    <2>2. result.state # READY /\ at' = "answered" /\ UNCHANGED <<readVars, result, raw>>
          /\ Answers(<<"0">>, BAD_REQUEST, <<"bad_param">>)
      BY <1>0, <1>4 DEF Garbled, Received, ResultType, Early
    <2>3. AnswerIsFrame'
      BY <2>1, <2>2, OtherAnswer
    <2> QED BY <2>2, <2>3 DEF readVars, ReaderFails, ResultType, Kept, RidKept, Early, Underway
  <1>5. CASE Refuse
    <2>1. Reason(request) \in Tokens /\ Rid(request) \in Rids
      BY <1>5, ReasonIsToken, RidIsRid DEF Refuse
    <2>2. result.state # READY /\ at' = "answered" /\ UNCHANGED <<readVars, result, raw>>
          /\ Answers(Rid(request), BAD_REQUEST, <<Reason(request)>>)
      BY <1>0, <1>5 DEF Refuse, ResultType, Early
    <2>3. AnswerIsFrame'
      BY <2>1, <2>2, OtherAnswer
    <2> QED BY <2>2, <2>3 DEF readVars, ReaderFails, ResultType, Kept, RidKept, Early, Underway
  <1>6. CASE Admit
    BY <1>6 DEF Admit, readVars, ReaderFails, ResultType, Kept, RidKept, AnswerIsFrame, Early,
       Underway
  <1>7. CASE Submit
    <2>1. request'.rid \in Rids
      BY <1>7, RidIsRid DEF Submit
    <2> QED BY <1>7, <2>1 DEF Submit, readVars, ReaderFails, ResultType, Kept, RidKept,
        AnswerIsFrame,
                              Early, Underway
  <1>8. CASE Generate
    <2>1. reader' = Unread
      BY <1>8 DEF Generate, Sends
    <2>2. ReaderFails'
      BY <2>1 DEF Unread, ReaderFails, IsReader
    <2> QED BY <1>8, <2>2 DEF Generate, ResultType, Kept, RidKept, AnswerIsFrame, Early, Underway
  <1>9. CASE Read
    <2>1. ReaderFails'
      BY <1>9, ReaderStays DEF Read
    <2> QED BY <1>9, <2>1 DEF Read, wireVars, ResultType, Kept, RidKept, AnswerIsFrame, Early,
        Underway
  <1>10. CASE ReadsDocument
    <2>1. ReaderFails'
      BY <1>10 DEF ReadsDocument, Done, Unread, ReaderFails, IsReader
    <2> QED BY <1>10, <2>1 DEF ReadsDocument, Done, ResultType, Kept, RidKept, AnswerIsFrame,
        Early, Underway
  <1>11. CASE ReadsNoDocument
    <2>1. ReaderFails'
      BY <1>11 DEF ReadsNoDocument, Done, Unread, ReaderFails, IsReader
    <2>2. PICK token \in Tokens : result' = [state |-> FAILED, text |-> <<token>>]
      BY <1>11, ReasonAssumption DEF ReadsNoDocument, ReaderFails
    <2>3. result'.state = FAILED /\ result' \in [state : {"none", READY, FAILED}, text : Seq(Char)]
      BY <2>2, TokenIsText
    <2> QED BY <1>0, <1>11, <2>1, <2>3 DEF ReadsNoDocument, Done, ResultType, Kept, RidKept,
                                           AnswerIsFrame, Early, Underway
  <1>12. CASE Completes
    <2>1. at = "document" /\ at' = "made" /\ UNCHANGED <<readVars, request, answer>>
      BY <1>12 DEF Completes
    <2>2. ASSUME NEW token \in Tokens, result' = [state |-> FAILED, text |-> <<token>>],
                   raw' \in Seq(Char)
          PROVE  ResultType' /\ Kept'
      <3>1. result'.state = FAILED
              /\ result' \in [state : {"none", READY, FAILED}, text : Seq(Char)]
        BY <2>2, TokenIsText
      <3> QED BY <1>0, <2>1, <2>2, <3>1 DEF ResultType, Kept, Early
    <2>3. ASSUME NEW text \in Raws, raw' = text, result' = Made(text)
          PROVE  ResultType' /\ Kept'
      <3>1. text \in Seq(Char)
        BY RawAssumption
      <3>2. CASE SanitizeText(text).ok
        <4>1. result' = [state |-> READY, text |-> text]
          BY <2>3, <3>2 DEF Made
        <4>2. result'.state = READY /\ result'.text = text
              /\ result' \in [state : {"none", READY, FAILED}, text : Seq(Char)]
          BY <3>1, <4>1
        <4>3. Good'
          BY <2>3, <3>2 DEF Good
        <4> QED BY <1>0, <2>1, <2>3, <3>1, <4>2, <4>3 DEF ResultType, Kept, Early
      <3>3. CASE ~SanitizeText(text).ok
        <4>1. result' = [state |-> FAILED, text |-> <<"empty_reply">>]
          BY <2>3, <3>3 DEF Made
        <4>2. "empty_reply" \in Tokens
          BY ReasonAssumption
        <4> QED BY <2>2, <2>3, <3>1, <4>1, <4>2
      <3> QED BY <3>2, <3>3
    <2>4. ResultType' /\ Kept'
      <3>1. "upstream_error" \in Tokens
        BY ReasonAssumption
      <3>2. <<>> \in Seq(Char)
        BY EmptySeq
      <3> QED BY <1>12, <2>2, <2>3, <3>1, <3>2 DEF Completes
    <2> QED BY <2>1, <2>4 DEF readVars, ReaderFails, RidKept, AnswerIsFrame, Early, Underway
  <1>13. CASE Collect
    <2>1. at = "made" /\ at' = "kept" /\ request.api = "v2"
            /\ UNCHANGED <<readVars, request, raw, answer>>
      BY <1>13 DEF Collect
    <2>2. /\ result \in [state : {"none", READY, FAILED}, text : Seq(Char)]
          /\ result' = [result EXCEPT !.text = IF result.state = READY THEN SanitizeText(result.text).text
                                               ELSE result.text]
      BY <1>13 DEF Collect, ResultType
    <2>3. SanitizeText(result.text).text \in Seq(Char)
      BY <2>2, SanitizedIsText
    <2>4. /\ result' \in [state : {"none", READY, FAILED}, text : Seq(Char)]
          /\ result'.state = result.state
          /\ result.state = READY => result'.text = SanitizeText(result.text).text
      BY <2>2, <2>3
    <2>5. ResultType'
      BY <2>1, <2>4 DEF ResultType, Early
    <2>6. Kept'
      BY <2>1, <2>4 DEF Kept, Good, Found
    <2> QED BY <2>1, <2>5, <2>6 DEF readVars, ReaderFails, RidKept, AnswerIsFrame, Early, Underway
  <1>14. CASE Respond
    <2>1. /\ at' = "answered" /\ at \in {"made", "kept"} /\ (at = "made" => request.api # "v2")
          /\ Answers(request.rid, result.state, result.text)
          /\ UNCHANGED <<readVars, request, result, raw>>
      BY <1>14 DEF Respond
    <2>2. answer'.rid = request.rid /\ answer'.code = result.state
            /\ IsFrameOf(answer', result.text)
      BY <2>1 DEF Answers, IsFrameOf
    <2>3. request.rid \in Rids /\ result.state \in Codes /\ result.text \in Seq(Char)
      BY <2>1 DEF RidKept, Underway, ResultType, Codes
    <2>4. result.state = READY => Good
            /\ IsFrameOf(answer', IF request.api = "v2" THEN Found ELSE raw)
      BY <2>1, <2>2 DEF Kept
    <2>5. Good' = Good /\ Found' = Found
      BY <2>1 DEF Good, Found
    <2>6. AnswerIsFrame'
      BY <2>1, <2>2, <2>3, <2>4, <2>5 DEF AnswerIsFrame
    <2>7. ResultType'
      BY <2>1 DEF ResultType, Early
    <2> QED BY <2>1, <2>6, <2>7 DEF readVars, ReaderFails, Kept, RidKept, Early, Underway
  <1> QED BY <1>1, <1>2, <1>3, <1>4, <1>5, <1>6, <1>7, <1>8, <1>9, <1>10, <1>11, <1>12, <1>13, <1>14
          DEF Next

\* The inductive invariant of an exchange.
THEOREM WireInvariant == Spec => []WireInv
  BY WireInit, WireStep, PTL DEF Spec

\* AnswersAreReadable, for every request, response and content: the engine
\* takes each answer apart as the server put it together, and its text is
\* plain and short.
THEOREM EveryAnswerIsReadable == Spec => []AnswersAreReadable
  <1>1. WireInv => AnswersAreReadable
    <2> SUFFICES ASSUME WireInv, at = "answered" PROVE AnswersAreReadable
      BY DEF AnswersAreReadable
    <2>1. PICK text \in Seq(Char) : answer.body = Frame(answer.rid, answer.code, text)
      BY DEF WireInv, AnswerIsFrame, IsFrameOf
    <2> DEFINE t == SanitizeText(text)
               code == IF t.ok THEN answer.code ELSE FAILED
               shown == t.text
    <2>2. answer.rid \in Rids /\ answer.code \in Codes
      BY DEF WireInv, AnswerIsFrame
    <2>3. IntegersOf(answer.body) = <<answer.rid, <<code>>, answer.rid>> /\ StringsOf(answer.body) = <<shown>>
      BY <2>1, <2>2, FrameComesApart
    <2>4. code \in {answer.code, FAILED}
      OBVIOUS
    <2>5. shown \in Seq(Plain) /\ Len(shown) <= MaxText
      BY SanitizedIsPlain
    <2> HIDE DEF code, shown
    <2>6. \A i \in DOMAIN shown : shown[i] \in Plain
      BY <2>5, LenProperties, ElementOfSeq
    <2>7. Len(StringsOf(answer.body)) = 1 /\ StringsOf(answer.body)[1] = shown
      BY <2>3
    <2> QED BY <2>3, <2>4, <2>5, <2>6, <2>7 DEF AnswersAreReadable
  <1> QED BY <1>1, WireInvariant, PTL

\* ShownIsWhatWasMade, for every content: a reply that was found good is shown
\* as it was found, or, in v2, without what a <think> opened that came to be when
\* it was first looked at (and as a failure, if that leaves no letter).
THEOREM ShownIsAsItWasMade == Spec => []ShownIsWhatWasMade
  <1>1. WireInv => ShownIsWhatWasMade
    <2> SUFFICES ASSUME WireInv, at = "answered", result.state = READY
                 PROVE  ShownIsWhatWasMade
      BY DEF ShownIsWhatWasMade
    <2>1. answer.rid \in Rids /\ READY \in Codes /\ answer.code = READY /\ Good /\ raw \in Seq(Char)
      BY DEF WireInv, AnswerIsFrame, Codes, ResultType
    <2> DEFINE text == IF request.api = "v2" THEN Found ELSE raw
    <2>2. Found \in Seq(Char) /\ text \in Seq(Char)
      BY <2>1, SanitizedIsText DEF Found
    <2>3. answer.body = Frame(answer.rid, READY, text)
      BY <2>1 DEF WireInv, AnswerIsFrame, IsFrameOf
    <2>4. Shows(answer.body, SanitizeText(text))
      <3> DEFINE body == answer.body
                 rid == answer.rid
                 t == SanitizeText(text)
      <3>1. IntegersOf(body) = <<rid, <<IF t.ok THEN READY ELSE FAILED>>, rid>>
              /\ StringsOf(body) = <<t.text>>
        <4> HIDE DEF text
        <4> QED BY <2>1, <2>2, <2>3, FrameComesApart
      <3>2. IntegersOf(body)[2] = <<IF t.ok THEN READY ELSE FAILED>>
        <4> HIDE DEF t, body, rid
        <4> QED BY <3>1
      <3> QED BY <3>1, <3>2 DEF Shows
    <2>5. SanitizeText(raw).ok
      BY <2>1 DEF Good
    <2>6. CASE request.api = "v2" /\ StripThink(Found) # Found
      BY <2>4, <2>6 DEF ShownIsWhatWasMade, Found
    <2>7. CASE request.api = "v2" /\ StripThink(Found) = Found
      <3>1. SanitizeText(Found) = [ok |-> TRUE, text |-> Found]
        BY <2>1, <2>7, SanitizeIsIdempotent DEF Found
      <3>2. SanitizeText(Found).ok = SanitizeText(raw).ok
              /\ SanitizeText(Found).text = SanitizeText(raw).text
        BY <2>5, <3>1 DEF Found
      <3>3. Shows(answer.body, SanitizeText(raw))
        BY <2>4, <2>7, <3>2 DEF Shows
      <3> QED BY <2>5, <2>7, <3>3 DEF ShownIsWhatWasMade, Found
    <2>8. CASE request.api # "v2"
      BY <2>4, <2>5, <2>8 DEF ShownIsWhatWasMade
    <2> QED BY <2>6, <2>7, <2>8
  <1> QED BY <1>1, WireInvariant, PTL

-----------------------------------------------------------------------------
(* Slices                                                                   *)

\* What is in w after the first a elements, up to the b-th.
Slice(w, a, b) == SubSeq(w, a + 1, b)

\* A slice has the elements of w, in their order.
LEMMA SliceAt ==
    ASSUME NEW S, NEW w \in Seq(S), NEW a \in Nat, NEW b \in Nat, a <= b, b <= Len(w)
    PROVE  /\ Slice(w, a, b) \in Seq(S) /\ Len(Slice(w, a, b)) = b - a
           /\ \A i \in 1 .. b - a : Slice(w, a, b)[i] = w[a + i]
  <1>1. Len(w) \in Nat
    BY LenProperties
  <1>2. \A i \in a + 1 .. b : w[i] \in S
    <2>1. \A i \in a + 1 .. b : i \in 1 .. Len(w)
      BY <1>1
    <2> QED BY <2>1, ElementOfSeq
  <1>3. a + 1 \in Int /\ b \in Int
    OBVIOUS
  <1> DEFINE x == SubSeq(w, a + 1, b)
  <1>4. /\ x \in Seq(S) /\ Len(x) = IF a + 1 <= b THEN b - (a + 1) + 1 ELSE 0
        /\ \A i \in 1 .. b - (a + 1) + 1 : x[i] = w[a + 1 + i - 1]
    BY <1>2, <1>3, SubSeqProperties
  <1> HIDE DEF x
  <1>5. (IF a + 1 <= b THEN b - (a + 1) + 1 ELSE 0) = b - a
        /\ \A i \in 1 .. b - a : i \in 1 .. b - (a + 1) + 1 /\ a + 1 + i - 1 = a + i
    BY <1>1
  <1>6. Len(x) = b - a
    BY <1>4, <1>5
  <1>7. \A i \in 1 .. b - a : x[i] = w[a + i]
    BY <1>4, <1>5
  <1> QED BY <1>4, <1>6, <1>7 DEF x, Slice

\* Two slices with the same elements.
LEMMA SameSlice ==
    ASSUME NEW S, NEW w \in Seq(S), NEW a \in Nat, NEW b \in Nat, a <= b, b <= Len(w),
           NEW x \in Seq(S), Len(x) = b - a, \A i \in 1 .. b - a : x[i] = w[a + i]
    PROVE  x = Slice(w, a, b)
  <1> DEFINE y == Slice(w, a, b)
  <1>1. y \in Seq(S) /\ Len(y) = b - a /\ \A i \in 1 .. b - a : y[i] = w[a + i]
    BY SliceAt
  <1> HIDE DEF y
  <1>2. Len(x) = Len(y) /\ \A i \in 1 .. Len(x) : x[i] = y[i]
    BY <1>1
  <1> QED BY <1>1, <1>2, SeqEqual DEF y

\* A slice of a slice is one.
LEMMA SliceOfSlice ==
    ASSUME NEW S, NEW w \in Seq(S), NEW a \in Nat, NEW b \in Nat, a <= b, b <= Len(w),
           NEW m \in Nat, NEW n \in Nat, m <= n, a + n <= b
    PROVE  Slice(Slice(w, a, b), m, n) = Slice(w, a + m, a + n)
  <1> DEFINE x == Slice(w, a, b)
             y == Slice(x, m, n)
  <1>0. Len(w) \in Nat
    BY LenProperties
  <1>1. x \in Seq(S) /\ Len(x) = b - a /\ \A i \in 1 .. b - a : x[i] = w[a + i]
    BY SliceAt
  <1> HIDE DEF x
  <1>2. n <= Len(x) /\ x \in Seq(S)
    BY <1>1
  <1> HIDE DEF y
  <1>3. y \in Seq(S) /\ Len(y) = n - m /\ \A i \in 1 .. n - m : y[i] = x[m + i]
    BY <1>2, SliceAt DEF y
  <1>4. \A i \in 1 .. n - m : m + i \in 1 .. b - a /\ a + (m + i) = a + m + i
    BY <1>0
  <1>5. a + m \in Nat /\ a + n \in Nat /\ a + m <= a + n /\ a + n <= Len(w)
          /\ (a + n) - (a + m) = n - m
    BY <1>0
  <1>6. \A i \in 1 .. n - m : y[i] = w[a + m + i]
    BY <1>1, <1>3, <1>4
  <1> DEFINE c == a + m
             d == a + n
  <1>7. c \in Nat /\ d \in Nat /\ c <= d /\ d <= Len(w) /\ Len(y) = d - c
    BY <1>3, <1>5
  <1>9. \A i \in 1 .. d - c : y[i] = w[c + i]
    BY <1>5, <1>6
  <1>10. y \in Seq(S)
    BY <1>3
  <1> HIDE DEF c, d
  <1>8. y = Slice(w, c, d)
    BY <1>7, <1>9, <1>10, SameSlice
  <1> QED BY <1>8 DEF x, y, c, d

\* Two slices side by side are one.
LEMMA SlicesJoin ==
    ASSUME NEW S, NEW w \in Seq(S), NEW a \in Nat, NEW b \in Nat, NEW c \in Nat,
           a <= b, b <= c, c <= Len(w)
    PROVE  Slice(w, a, b) \o Slice(w, b, c) = Slice(w, a, c)
  <1>1. Len(w) \in Nat
    BY LenProperties
  <1>2. a + 1 \in 1 .. Len(w) + 1 /\ b \in (a + 1) - 1 .. Len(w) /\ c \in b .. Len(w)
    BY <1>1
  <1> QED BY <1>2, ConcatAdjacentSubSeq DEF Slice

\* A slice that begins with the sequence, one that ends with it, and all of it.
LEMMA SliceEnds ==
    ASSUME NEW S, NEW w \in Seq(S)
    PROVE  /\ \A b : SubSeq(w, 1, b) = Slice(w, 0, b)
           /\ Slice(w, 0, Len(w)) = w
           /\ \A a \in 0 .. Len(w) : Slice(w, a, a) = <<>>
  <1>1. \A b : SubSeq(w, 1, b) = Slice(w, 0, b)
    BY DEF Slice
  <1>2. Slice(w, 0, Len(w)) = w
    BY SubSeqFull DEF Slice
  <1>3. ASSUME NEW a \in 0 .. Len(w) PROVE Slice(w, a, a) = <<>>
    BY LenProperties, SubSeqEmpty DEF Slice
  <1> QED BY <1>1, <1>2, <1>3

\* What a read moves from what is to come to what has come.
Moves(w, a, m, b, n) ==
    /\ Slice(w, a, m) \o SubSeq(Slice(w, m, b), 1, n) = Slice(w, a, m + n)
    /\ SubSeq(Slice(w, m, b), n + 1, Len(Slice(w, m, b))) = Slice(w, m + n, b)

\* Taking n elements moves the beginning of a slice.
LEMMA SliceMoves ==
    ASSUME NEW S, NEW w \in Seq(S), NEW a \in Nat, NEW m \in Nat, NEW b \in Nat,
           a <= m, m <= b, b <= Len(w), NEW n \in 0 .. b - m
    PROVE  Moves(w, a, m, b, n)
  <1> DEFINE x == Slice(w, m, b)
  <1>0. Len(w) \in Nat
    BY LenProperties
  <1>1. Len(x) = b - m /\ x \in Seq(S)
    BY SliceAt
  <1>2. 0 \in Nat /\ n \in Nat /\ b - m \in Nat /\ 0 <= n /\ n <= b - m /\ m + n <= b
          /\ m + (b - m) <= b
        /\ m + 0 = m /\ m + (b - m) = b /\ m + n \in Nat /\ m <= m + n /\ m + n <= Len(w)
    BY <1>0
  <1>3. Slice(x, 0, n) = Slice(w, m + 0, m + n)
    BY <1>2, SliceOfSlice
  <1>4. Slice(x, n, b - m) = Slice(w, m + n, m + (b - m))
    BY <1>2, SliceOfSlice
  <1>5. Slice(w, a, m) \o Slice(w, m, m + n) = Slice(w, a, m + n)
    BY <1>2, SlicesJoin, SMTT(30)
  <1> HIDE DEF x
  <1>6. SubSeq(x, 1, n) = Slice(w, m, m + n) /\ SubSeq(x, n + 1, Len(x)) = Slice(w, m + n, b)
    <2>1. SubSeq(x, 1, n) = Slice(x, 0, n)
      BY <1>1, SliceEnds
    <2>2. SubSeq(x, n + 1, Len(x)) = Slice(x, n, b - m)
      BY <1>1 DEF Slice
    <2> QED BY <1>2, <1>3, <1>4, <2>1, <2>2
  <1> QED BY <1>5, <1>6 DEF x, Moves
-----------------------------------------------------------------------------
(* The bytes of a request                                                   *)

Bytes == [kind : {"request", "header", "length", "bad length", "junk", "x", "cr", "lf", "data"},
  n : Nat]

\* The bytes of a line end no line.
LEMMA BytesApart ==
    /\ LineByte \subseteq Bytes /\ CR \in Bytes /\ LF \in Bytes /\ CR # LF
    /\ CR \notin LineByte /\ LF \notin LineByte
  <1>1. LineByte \subseteq Bytes
    BY DEF LineByte, Bytes
  <1>2. CR = [kind |-> "cr", n |-> 0] /\ LF = [kind |-> "lf", n |-> 0]
    BY DEF CR, LF, Byte
  <1>3. CR \in Bytes /\ LF \in Bytes
    BY <1>2 DEF Bytes
  <1>4. \A b \in LineByte : b.kind # "cr" /\ b.kind # "lf"
    BY DEF LineByte
  <1>5. CR.kind = "cr" /\ LF.kind = "lf"
    BY <1>2
  <1> QED BY <1>1, <1>3, <1>4, <1>5

\* One after the other.
LEMMA TwoJoined ==
    ASSUME NEW S, NEW x \in S, NEW y \in S
    PROVE  <<x>> \o <<y>> = <<x, y>>
  <1> DEFINE a == <<x>> \o <<y>>
             b == <<x, y>>
  <1>1. <<x>> \in Seq(S) /\ <<y>> \in Seq(S) /\ b \in Seq(S)
    BY ShortSeqs
  <1>2. Len(<<x>>) = 1 /\ Len(<<y>>) = 1 /\ <<x>>[1] = x /\ <<y>>[1] = y /\ Len(b) = 2
          /\ b[1] = x /\ b[2] = y
    OBVIOUS
  <1>3. a \in Seq(S) /\ Joined(a, <<x>>, 1, <<y>>, 1)
    BY <1>1, <1>2, ConcatAt
  <1> HIDE DEF a, b
  <1>4. Len(a) = 2 /\ a[1] = x /\ a[2] = y
    <2>1. 1 \in 1 .. 1 /\ 1 + 1 = 2
      OBVIOUS
    <2> QED BY <1>2, <1>3, <2>1 DEF Joined
  <1>5. Len(a) = Len(b) /\ \A i \in 1 .. Len(a) : a[i] = b[i]
    BY <1>2, <1>4
  <1> QED BY <1>1, <1>3, <1>5, SeqEqual DEF a, b

\* What there is of an end of line before its LF.
BeforeLF(style) == IF style = "crlf" THEN <<CR>> ELSE <<>>

\* An end of line is an optional CR and a LF.
LEMMA EolShape ==
    ASSUME NEW style
    PROVE  BeforeLF(style) \in Seq(Bytes) /\ Eol(style) = BeforeLF(style) \o <<LF>>
           /\ Eol(style) \in Seq(Bytes)
  <1>1. CR \in Bytes /\ LF \in Bytes
    BY BytesApart
  <1>2. <<>> \in Seq(Bytes) /\ <<CR>> \in Seq(Bytes) /\ <<LF>> \in Seq(Bytes)
          /\ <<CR, LF>> \in Seq(Bytes)
    BY <1>1, ShortSeqs
  <1>3. <<CR>> \o <<LF>> = <<CR, LF>>
    BY <1>1, TwoJoined
  <1>4. <<>> \o <<LF>> = <<LF>>
    BY <1>2, ConcatEmptySeq
  <1> QED BY <1>2, <1>3, <1>4 DEF Eol, BeforeLF

\* The head, line by line.
HeadLoop(h, c) ==
    /\ h \in [1 .. Len(c.lines) -> Seq(Bytes)]
    /\ h[1] = c.lines[1]
    /\ \A k \in 2 .. Len(c.lines) : h[k] = h[k - 1] \o (Eol(c.eol) \o c.lines[k])

\* The lines of a request, and that only the first may be empty.
LEMMA LinesAre ==
    ASSUME NEW c, IsDelivery(c)
    PROVE  /\ Len(c.lines) \in Nat \ {0}
           /\ \A i \in 1 .. Len(c.lines) : c.lines[i] \in Seq(LineByte) /\ c.lines[i] \in Seq(Bytes)
           /\ \A i \in 2 .. Len(c.lines) : c.lines[i] # <<>>
  <1> DEFINE A == Seq(LineByte)
  <1>1. c.lines \in Seq(A) /\ c.lines # <<>> /\ \A i \in 2 .. Len(c.lines) : c.lines[i] # <<>>
    BY DEF IsDelivery
  <1>2. \A s \in A : s \in Seq(Bytes)
    <2>1. LineByte \subseteq Bytes
      BY BytesApart
    <2> QED BY <2>1, SeqMonotonic
  <1> HIDE DEF A
  <1>3. Len(c.lines) \in Nat \ {0}
    BY <1>1, EmptySeq
  <1>4. \A i \in 1 .. Len(c.lines) : c.lines[i] \in A
    BY <1>1, ElementOfSeq
  <1> QED BY <1>1, <1>2, <1>3, <1>4 DEF A

\* There is the loop that joins the lines of a head.
LEMMA HeadOf ==
    ASSUME NEW c, IsDelivery(c)
    PROVE  \E h : HeadLoop(h, c) /\ SentHead(c) = h[Len(c.lines)]
  <1> DEFINE n == Len(c.lines)
             A == Seq(Bytes)
             ss == [i \in 1 .. n - 1 |-> Eol(c.eol) \o c.lines[i + 1]]
             e == Eol(c.eol)
             first == c.lines[1]
  <1>1. n \in Nat \ {0} /\ \A i \in 1 .. n : c.lines[i] \in A
    BY LinesAre
  <1>2. e \in A
    BY EolShape
  <1>3. \A x, y \in A : x \o y \in A
    BY ConcatProperties
  <1>4. \A x, y, z \in A : x \o (y \o z) = (x \o y) \o z
    BY ConcatAssociative, SMTT(30)
  <1>5. \A x \in A : x \o <<>> = x
    BY ConcatEmptySeq
  <1> HIDE DEF n
  <1>6. \A i \in 1 .. n - 1 : i + 1 \in 1 .. n
    BY <1>1
  <1>7. ss \in Seq(A) /\ Len(ss) = n - 1 /\ \A i \in 1 .. n - 1 : ss[i] = e \o c.lines[i + 1]
    <2>1. \A i \in 1 .. n - 1 : e \o c.lines[i + 1] \in A
      BY <1>1, <1>2, <1>3, <1>6
    <2>2. n - 1 \in Nat
      BY <1>1
    <2> DEFINE g(i) == e \o c.lines[i + 1]
               m == n - 1
    <2>3. m \in Nat /\ ss = [i \in 1 .. m |-> g(i)] /\ \A i \in 1 .. m : g(i) \in A
      BY <2>1, <2>2
    <2> HIDE DEF g, m, ss, A
    <2>4. ss \in Seq(A) /\ Len(ss) = m /\ \A i \in 1 .. m : ss[i] = g(i)
      BY <2>3
    <2> QED BY <2>4 DEF g, m
  <1> HIDE DEF ss, e
  <1>8. PICK f : f \in [0 .. Len(ss) -> A] /\ Flattens(f, ss) /\ FlattenSeq(ss) = f[Len(ss)]
    BY <1>7, FlattenOfPieces
  <1>9. /\ f \in [0 .. n - 1 -> A] /\ f[0] = <<>> /\ FlattenSeq(ss) = f[n - 1]
        /\ \A i \in 1 .. n - 1 : f[i] = f[i - 1] \o ss[i]
    BY <1>7, <1>8 DEF Flattens
  <1> DEFINE h == [k \in 1 .. n |-> first \o f[k - 1]]
  <1>10. first \in A
    BY <1>1
  <1> HIDE DEF A, first
  <1>11. \A k \in 1 .. n : k - 1 \in 0 .. n - 1 /\ f[k - 1] \in A
    BY <1>1, <1>9
  <1>12. h \in [1 .. n -> A]
    BY <1>3, <1>10, <1>11
  <1>13. h[1] = first
    <2>1. 1 \in 1 .. n /\ 1 - 1 = 0
      BY <1>1
    <2> QED BY <1>5, <1>9, <1>10, <2>1
  <1>14. ASSUME NEW k \in 2 .. n PROVE h[k] = h[k - 1] \o (e \o c.lines[k])
    <2>1. k \in 1 .. n /\ k - 1 \in 1 .. n /\ k - 1 \in 1 .. n - 1 /\ (k - 1) + 1 = k
      BY <1>1
    <2>2. h[k] = first \o f[k - 1] /\ h[k - 1] = first \o f[(k - 1) - 1]
      BY <2>1
    <2>3. f[k - 1] = f[(k - 1) - 1] \o (e \o c.lines[k])
      BY <1>7, <1>9, <2>1
    <2>4. f[(k - 1) - 1] \in A /\ e \o c.lines[k] \in A
      BY <1>1, <1>2, <1>3, <1>11, <2>1
    <2> HIDE DEF h
    <2>5. first \o (f[(k - 1) - 1] \o (e \o c.lines[k])) = (first \o f[(k - 1) - 1]) \o (e \o c.lines[k])
      BY <1>4, <1>10, <2>4, Zenon
    <2> QED BY <2>2, <2>3, <2>5, Zenon
  <1>15. SentHead(c) = h[n]
    <2>1. n \in 1 .. n
      BY <1>1
    <2>2. h[n] = first \o f[n - 1]
      BY <2>1
    <2> QED BY <1>9, <2>2 DEF SentHead, ss, first, n
  <1> HIDE DEF h
  <1>16. HeadLoop(h, c)
    BY <1>12, <1>13, <1>14 DEF HeadLoop, A, first, n, e
  <1> QED BY <1>15, <1>16 DEF n

\* No LF ends the head, and what follows one is the first byte of a line.
Tight(s) ==
    /\ s # <<>> => s[Len(s)] \in LineByte
    /\ \A i \in 1 .. Len(s) : s[i] = LF => i < Len(s) /\ s[i + 1] \in LineByte

\* A line that is not empty, after an end of line, ends no head.
LEMMA TightGrows ==
    ASSUME NEW s \in Seq(Bytes), Tight(s), NEW style, NEW l \in Seq(LineByte), l # <<>>
    PROVE  Tight(s \o (Eol(style) \o l))
  <1> DEFINE e == Eol(style)
             y == e \o l
             x == s \o y
             a == Len(s)
             b == Len(e)
             m == Len(l)
  <1>1. l \in Seq(Bytes) /\ e \in Seq(Bytes)
    BY BytesApart, SeqMonotonic, EolShape
  <1>2. \A i \in 1 .. m : l[i] \in LineByte
    BY ElementOfSeq
  <1>3. m \in Nat \ {0} /\ a \in Nat /\ b \in Nat
    BY <1>1, EmptySeq, LenProperties
  <1>4. b > 0 /\ \A i \in 1 .. b : e[i] = LF => i = b
    <2>1. \/ e = <<LF>>
          \/ e = <<CR, LF>>
      BY DEF Eol
    <2>2. CR # LF
      BY BytesApart
    <2>3. Len(<<LF>>) = 1 /\ Len(<<CR, LF>>) = 2 /\ <<CR, LF>>[1] = CR
      OBVIOUS
    <2> HIDE DEF e
    <2>4. CASE e = <<LF>>
      <3>1. b = 1
        BY <2>3, <2>4
      <3> HIDE DEF b
      <3> QED BY <3>1
    <2>5. CASE e = <<CR, LF>>
      <3>1. b = 2 /\ e[1] = CR
        BY <2>3, <2>5
      <3> HIDE DEF b
      <3>2. e[1] # LF
        BY <2>2, <3>1
      <3> QED BY <3>1, <3>2
    <2> QED BY <2>1, <2>4, <2>5
  <1>5. y \in Seq(Bytes) /\ Joined(y, e, b, l, m)
    BY <1>1, ConcatAt
  <1>6. Len(y) = b + m
    BY <1>5 DEF Joined
  <1>7. x \in Seq(Bytes) /\ Joined(x, s, a, y, b + m)
    <2>1. x \in Seq(Bytes) /\ Joined(x, s, a, y, Len(y))
      BY <1>5, ConcatAt
    <2> QED BY <1>6, <2>1
  <1> HIDE DEF e, y, x, a, b, m
  <1>8. /\ Len(x) = a + (b + m)
        /\ \A i \in 1 .. a : x[i] = s[i]
        /\ \A i \in 1 .. b : x[a + i] = e[i]
        /\ \A i \in 1 .. m : x[a + (b + i)] = l[i]
    <2>1. \A i \in 1 .. b + m : x[a + i] = y[i]
      BY <1>7 DEF Joined
    <2>2. \A i \in 1 .. b : i \in 1 .. b + m
      BY <1>3
    <2>3. \A i \in 1 .. m : b + i \in 1 .. b + m
      BY <1>3
    <2>4. \A i \in 1 .. b : y[i] = e[i]
      BY <1>5 DEF Joined
    <2>5. \A i \in 1 .. m : y[b + i] = l[i]
      BY <1>5 DEF Joined
    <2> QED BY <1>7, <2>1, <2>2, <2>3, <2>4, <2>5 DEF Joined
  <1>9. ASSUME x # <<>> PROVE x[Len(x)] \in LineByte
    <2>1. m \in 1 .. m
      BY <1>3
    <2> QED BY <1>2, <1>8, <2>1
  <1>10. ASSUME NEW i \in 1 .. a + (b + m), x[i] = LF
         PROVE  i < a + (b + m) /\ x[i + 1] \in LineByte
    <2>1. CASE i \in 1 .. a
      <3>1. s[i] = LF
        BY <1>8, <1>10, <2>1
      <3>2. i < a /\ s[i + 1] \in LineByte
        BY <2>1, <3>1 DEF Tight, a
      <3>3. i + 1 \in 1 .. a /\ i < a + (b + m)
        BY <1>3, <2>1, <3>2
      <3> QED BY <1>8, <3>2, <3>3
    <2>2. CASE \E j \in 1 .. b : i = a + j
      <3>1. PICK j \in 1 .. b : i = a + j
        BY <2>2
      <3>2. j = b
        BY <1>4, <1>8, <1>10, <3>1
      <3>3. i + 1 = a + (b + 1) /\ 1 \in 1 .. m /\ i < a + (b + m)
        BY <1>3, <3>1, <3>2
      <3>4. x[a + (b + 1)] = l[1] /\ l[1] \in LineByte
        BY <1>2, <1>8, <3>3
      <3> QED BY <3>3, <3>4
    <2>3. CASE \E j \in 1 .. m : i = a + (b + j)
      <3>1. PICK j \in 1 .. m : i = a + (b + j)
        BY <2>3
      <3>2. x[i] \in LineByte
        BY <1>2, <1>8, <3>1
      <3> QED BY <1>10, <3>2, BytesApart
    <2>4. i \in 1 .. a \/ (\E j \in 1 .. b : i = a + j) \/ (\E j \in 1 .. m : i = a + (b + j))
      <3>1. i - a \in Int /\ i - (a + b) \in Int /\ i = a + (i - a) /\ i = a + (b + (i - (a + b)))
        BY <1>3
      <3>2. i \in 1 .. a \/ i - a \in 1 .. b \/ i - (a + b) \in 1 .. m
        BY <1>3
      <3> QED BY <3>1, <3>2
    <2> QED BY <2>1, <2>2, <2>3, <2>4
  <1>11. Tight(x)
    BY <1>8, <1>9, <1>10 DEF Tight
  <1> QED BY <1>11 DEF x, y, e

\* The lines of a head hold no blank line.
LEMMA HeadIsTight ==
    ASSUME NEW c, IsDelivery(c)
    PROVE  SentHead(c) \in Seq(Bytes) /\ Tight(SentHead(c))
  <1> DEFINE n == Len(c.lines)
  <1>1. PICK h : HeadLoop(h, c) /\ SentHead(c) = h[n]
    BY HeadOf
  <1>2. n \in Nat \ {0} /\ \A k \in 1 .. n : h[k] \in Seq(Bytes)
    BY <1>1, LinesAre DEF HeadLoop
  <1> DEFINE X == {k \in 1 .. n : Tight(h[k])}
  <1>3. 1 \in X
    <2>1. h[1] = c.lines[1] /\ 1 \in 1 .. n
      BY <1>1, <1>2 DEF HeadLoop
    <2>2. h[1] \in Seq(LineByte)
      BY <2>1, LinesAre
    <2> DEFINE s == h[1]
    <2> HIDE DEF s
    <2>3. \A i \in 1 .. Len(s) : s[i] \in LineByte
      BY <2>2, ElementOfSeq DEF s
    <2>4. s # <<>> => Len(s) \in 1 .. Len(s)
      <3>1. s # <<>> => Len(s) \in Nat \ {0}
        BY <2>2, EmptySeq DEF s
      <3> QED BY <3>1
    <2>5. Tight(s)
      BY <2>3, <2>4, BytesApart DEF Tight
    <2> QED BY <2>1, <2>5 DEF s
  <1>4. ASSUME NEW k \in 1 + 1 .. n, k - 1 \in X PROVE k \in X
    <2>1. k \in 2 .. n /\ k - 1 \in 1 .. n /\ k \in 1 .. n
      BY <1>2
    <2>2. h[k] = h[k - 1] \o (Eol(c.eol) \o c.lines[k])
      BY <1>1, <2>1 DEF HeadLoop
    <2>3. h[k - 1] \in Seq(Bytes) /\ Tight(h[k - 1]) /\ c.lines[k] \in Seq(LineByte)
            /\ c.lines[k] # <<>>
      BY <1>2, <1>4, <2>1, LinesAre
    <2>4. Tight(h[k])
      BY <2>2, <2>3, TightGrows
    <2> QED BY <2>1, <2>4
  <1>5. n \in X
    <2>1. n \in 1 .. n /\ 1 \in Nat /\ n \in Nat
      BY <1>2
    <2> HIDE DEF n, X
    <2> QED BY <1>3, <1>4, <2>1, UpTo
  <1> QED BY <1>1, <1>2, <1>5
-----------------------------------------------------------------------------
(* The lines of a head                                                      *)

\* Nothing has one part.
LEMMA SplitOfNothing == ASSUME NEW c PROVE Split(c, <<>>) = << <<>> >>
  <1> DEFINE s == <<>>
  <1>1. s \in Seq({c}) /\ Len(s) = 0
    BY EmptySeq
  <1> HIDE DEF s
  <1>2. Split(c, s) = << <<>> >>
    BY <1>1, SplittingOfText
  <1> QED BY <1>2 DEF s

\* One character more is one more step of the loop.
LEMMA SplitOfMore ==
    ASSUME NEW S, NEW s \in Seq(S), NEW d \in S, NEW c
    PROVE  Split(c, s \o <<d>>) = Parts(Split(c, s), c, d)
  <1> DEFINE x == s \o <<d>>
             n == Len(s)
  <1>1. <<d>> \in Seq(S) /\ Len(<<d>>) = 1 /\ <<d>>[1] = d /\ n \in Nat
    BY ShortSeqs, LenProperties
  <1>2. x \in Seq(S) /\ Joined(x, s, n, <<d>>, 1)
    BY <1>1, ConcatAt
  <1> HIDE DEF x
  <1>3. Len(x) = n + 1 /\ (\A i \in 1 .. n : x[i] = s[i]) /\ x[n + 1] = d
    <2>1. 1 \in 1 .. 1
      OBVIOUS
    <2> QED BY <1>1, <1>2, <2>1 DEF Joined
  <1>4. PICK f : /\ f[0] = << <<>> >> /\ \A i \in 1 .. n : f[i] = Parts(f[i - 1], c, s[i])
                 /\ Split(c, s) = f[n]
    BY SplittingOfText
  <1>5. PICK g : /\ g[0] = << <<>> >> /\ \A i \in 1 .. Len(x) : g[i] = Parts(g[i - 1], c, x[i])
                 /\ Split(c, x) = g[Len(x)]
    BY <1>2, SplittingOfText
  <1>6. \A i \in 1 .. n : i \in 1 .. Len(x)
    BY <1>1, <1>3
  <1> HIDE DEF n
  <1>7. g[n] = f[n]
    <2> DEFINE T == {i \in 0 .. n : g[i] = f[i]}
    <2>1. 0 \in T
      BY <1>1, <1>4, <1>5
    <2>2. ASSUME NEW i \in 0 + 1 .. n, i - 1 \in T PROVE i \in T
      <3>1. i \in 1 .. n /\ i \in 0 .. n
        BY <1>1
      <3>2. g[i] = Parts(g[i - 1], c, x[i]) /\ f[i] = Parts(f[i - 1], c, s[i]) /\ x[i] = s[i]
        BY <1>3, <1>4, <1>5, <1>6, <3>1
      <3>3. g[i - 1] = f[i - 1]
        BY <2>2
      <3> QED BY <3>1, <3>2, <3>3
    <2> HIDE DEF T
    <2>3. n \in T
      <3>1. 0 \in Nat /\ n \in 0 .. n
        BY <1>1
      <3> QED BY <1>1, <2>1, <2>2, <3>1, UpTo
    <2> QED BY <2>3 DEF T
  <1>8. g[n + 1] = Parts(g[n], c, d)
    <2>1. n + 1 \in 1 .. Len(x) /\ (n + 1) - 1 = n
      BY <1>1, <1>3
    <2> QED BY <1>3, <1>5, <2>1
  <1>9. Split(c, x) = Parts(Split(c, s), c, d)
    BY <1>3, <1>4, <1>5, <1>7, <1>8
  <1> QED BY <1>9 DEF x

\* Joining is associative.
Associative(T) == \A x, y, z \in T : (x \o y) \o z = x \o (y \o z)

\* Joining is associative, as the folds ask for it.
LEMMA JoinsAssociate == ASSUME NEW S PROVE Associative(Seq(S))
  BY ConcatAssociative DEF Associative

\* The last part of a text grows by what is in it without a c.
Splits(S, c, s, ps, u) ==
    s \in Seq(S) /\ ps \in Seq(Seq(S)) /\ u \in Seq(S) /\ Split(c, s) = Append(ps, u)
Word(S, c, w) == w \in Seq(S) /\ Without(c, w)

\* A word without the separator is added to the last part.
LEMMA SplitOfWord ==
    ASSUME NEW S, NEW c, NEW s, NEW ps, NEW u, NEW w, Splits(S, c, s, ps, u), Word(S, c, w)
    PROVE  Splits(S, c, s \o w, ps, u \o w)
  <1>0. /\ s \in Seq(S) /\ ps \in Seq(Seq(S)) /\ u \in Seq(S) /\ Split(c, s) = Append(ps, u)
        /\ w \in Seq(S) /\ Without(c, w)
    BY DEF Splits, Word
  <1> DEFINE n == Len(w)
             A == Seq(S)
             v(j) == SubSeq(w, 1, j)
             X == {j \in 0 .. n : Split(c, s \o v(j)) = Append(ps, u \o v(j))}
  <1>1. n \in Nat
    BY <1>0, LenProperties
  <1>6. Associative(A)
    BY JoinsAssociate
  <1>2. 0 \in X
    <2>1. v(0) = <<>>
      BY SubSeqEmpty
    <2>2. s \o <<>> = s /\ u \o <<>> = u /\ 0 \in 0 .. n
      BY <1>0, <1>1, ConcatEmptySeq
    <2> HIDE DEF v, n
    <2> QED BY <1>0, <2>1, <2>2
  <1>3. ASSUME NEW j \in 0 + 1 .. n, j - 1 \in X PROVE j \in X
    <2> DEFINE y == v(j - 1)
               d == w[j]
    <2>1. j \in 1 .. n /\ j \in 0 .. n
      BY <1>1
    <2>2. y \in A /\ v(j) = y \o <<d>>
      BY <1>0, <2>1, PrefixGrows
    <2>3. d \in S /\ d # c /\ <<d>> \in A
      <3>1. d \in S /\ d # c
        BY <1>0, <2>1, ElementOfSeq DEF Without
      <3> QED BY <3>1, ShortSeqs
    <2>4. Split(c, s \o y) = Append(ps, u \o y)
      BY <1>3
    <2> HIDE DEF y, d, v, X
    <2>5. s \o y \in A /\ u \o y \in A
      BY <1>0, <2>2, ConcatProperties
    <2>6. Split(c, (s \o y) \o <<d>>) = Parts(Append(ps, u \o y), c, d)
      BY <2>3, <2>4, <2>5, SplitOfMore
    <2> DEFINE uy == u \o y
    <2>7. uy \in A
      BY <2>5
    <2> HIDE DEF uy, A
    <2>8. Front(Append(ps, uy)) = ps /\ Last(Append(ps, uy)) = uy
      BY <1>0, <2>7, AppendFront DEF A
    <2>9. Parts(Append(ps, uy), c, d) = Append(ps, Append(uy, d))
      BY <2>3, <2>8 DEF Parts
    <2>10. Append(uy, d) = uy \o <<d>>
      BY <2>3, <2>7, AppendIsConcat DEF A
    <2>11. (s \o y) \o <<d>> = s \o v(j) /\ uy \o <<d>> = u \o v(j)
      <3>1. s \in A /\ u \in A /\ <<d>> \in A /\ y \in A
        BY <1>0, <2>2, <2>3 DEF A
      <3>2. (s \o y) \o <<d>> = s \o (y \o <<d>>) /\ (u \o y) \o <<d>> = u \o (y \o <<d>>)
        BY <1>6, <3>1, ZenonT(40) DEF Associative
      <3> QED BY <2>2, <3>2, Zenon DEF uy
    <2>12. Split(c, s \o v(j)) = Append(ps, u \o v(j))
      BY <2>6, <2>9, <2>10, <2>11 DEF uy
    <2> QED BY <2>1, <2>12 DEF X
  <1> HIDE DEF X
  <1>4. n \in X
    <2>1. 0 \in Nat /\ n \in 0 .. n
      BY <1>1
    <2> HIDE DEF n
    <2> QED BY <1>1, <1>2, <1>3, <2>1, UpTo
  <1>5. Split(c, s \o v(n)) = Append(ps, u \o v(n))
    BY <1>4 DEF X
  <1>7. v(n) = w
    BY <1>0, SubSeqFull
  <1> HIDE DEF v
  <1>8. s \o w \in Seq(S) /\ u \o w \in Seq(S)
    BY <1>0, ConcatProperties
  <1> QED BY <1>0, <1>5, <1>7, <1>8, Zenon DEF Splits

\* And a c begins another part.
LEMMA SplitOfEnd ==
    ASSUME NEW S, NEW s \in Seq(S), NEW c \in S
    PROVE  Split(c, s \o <<c>>) = Append(Split(c, s), <<>>)
  BY SplitOfMore DEF Parts

\* The first elements of a sequence.
LEMMA PrefixAt ==
    ASSUME NEW S, NEW w \in Seq(S), NEW b \in Nat, b <= Len(w)
    PROVE  /\ SubSeq(w, 1, b) \in Seq(S) /\ Len(SubSeq(w, 1, b)) = b
           /\ \A i \in 1 .. b : SubSeq(w, 1, b)[i] = w[i]
  <1> DEFINE x == SubSeq(w, 1, b)
  <1>1. 1 \in Int /\ b \in Int /\ \A i \in 1 .. b : w[i] \in S
    <2>1. \A i \in 1 .. b : i \in 1 .. Len(w)
      BY LenProperties
    <2> QED BY <2>1, ElementOfSeq
  <1>2. /\ x \in Seq(S) /\ Len(x) = IF 1 <= b THEN b - 1 + 1 ELSE 0
        /\ \A i \in 1 .. b - 1 + 1 : x[i] = w[1 + i - 1]
    BY <1>1, SubSeqProperties
  <1> HIDE DEF x
  <1>3. (IF 1 <= b THEN b - 1 + 1 ELSE 0) = b /\ \A i \in 1 .. b : i \in 1 .. b - 1 + 1
          /\ 1 + i - 1 = i
    OBVIOUS
  <1> QED BY <1>2, <1>3 DEF x

\* The same, as an equation.
LEMMA SplitGrown ==
    ASSUME NEW S, NEW c, NEW s, NEW ps, NEW u, NEW w, Splits(S, c, s, ps, u), Word(S, c, w)
    PROVE  Split(c, s \o w) = Append(ps, u \o w)
  <1>1. Splits(S, c, s \o w, ps, u \o w)
    BY SplitOfWord
  <1> QED BY <1>1, Zenon DEF Splits

\* A line without its CR is the line.
LEMMA TrimOfLine ==
    ASSUME NEW l \in Seq(LineByte), NEW t \in {<<>>, <<CR>>}
    PROVE  TrimCr(l \o t) = l
  <1> DEFINE x == l \o t
             m == Len(l)
             K == {0} \cup {i \in DOMAIN x : x[i] # CR}
  <1>1. l \in Seq(Bytes) /\ t \in Seq(Bytes) /\ CR \notin LineByte
    <2>1. <<>> \in Seq(Bytes) /\ <<CR>> \in Seq(Bytes)
      BY BytesApart, ShortSeqs
    <2> QED BY <2>1, BytesApart, SeqMonotonic
  <1>2. m \in Nat /\ \A i \in 1 .. m : l[i] \in LineByte
    BY LenProperties, ElementOfSeq
  <1>3. \E n \in Nat : n = Len(t) /\ \A i \in 1 .. n : t[i] = CR
    <2>1. CASE t = <<>>
      <3>1. Len(<<>>) = 0
        OBVIOUS
      <3> QED BY <2>1, <3>1
    <2>2. CASE t = <<CR>>
      <3>1. Len(<<CR>>) = 1 /\ \A i \in 1 .. 1 : <<CR>>[i] = CR
        OBVIOUS
      <3> QED BY <2>2, <3>1
    <2> QED BY <2>1, <2>2
  <1>4. PICK n \in Nat : n = Len(t) /\ \A i \in 1 .. n : t[i] = CR
    BY <1>3
  <1>5. x \in Seq(Bytes) /\ Joined(x, l, m, t, n)
    BY <1>1, <1>4, ConcatAt
  <1>6. DOMAIN x = 1 .. Len(x)
    BY <1>5, LenProperties
  <1> HIDE DEF x, m
  <1>7. Len(x) = m + n /\ (\A i \in 1 .. m : x[i] = l[i]) /\ \A i \in 1 .. n : x[m + i] = CR
    BY <1>4, <1>5 DEF Joined
  <1>8. \A i \in 1 .. m : x[i] # CR
    BY <1>1, <1>2, <1>7
  <1>9. \A i \in 1 .. m + n : i \in 1 .. m \/ x[i] = CR
    <2> SUFFICES ASSUME NEW i \in 1 .. m + n, i \notin 1 .. m PROVE x[i] = CR
      OBVIOUS
    <2>1. i - m \in 1 .. n /\ m + (i - m) = i
      BY <1>2
    <2> QED BY <1>7, <2>1
  <1>10. \A i : i \in K <=> i \in 0 .. m
    <2>1. \A i : i \in 1 .. m => i \in 1 .. m + n
      BY <1>2
    <2>2. \A i : i \in 0 .. m <=> i = 0 \/ i \in 1 .. m
      BY <1>2
    <2>3. \A i : i \in K <=> i = 0 \/ (i \in 1 .. m + n /\ x[i] # CR)
      BY <1>6, <1>7
    <2> QED BY <1>8, <1>9, <2>1, <2>2, <2>3, Zenon
  <1> HIDE DEF K
  <1>11. Max(K) = m
    <2>1. m \in K /\ \A y \in K : m >= y
      BY <1>2, <1>10
    <2>2. \A z \in K : (\A y \in K : z >= y) => z = m
      <3> SUFFICES ASSUME NEW z \in K, \A y \in K : z >= y PROVE z = m
        OBVIOUS
      <3>1. z >= m /\ z \in 0 .. m
        BY <1>10, <2>1
      <3> QED BY <1>2, <3>1
    <2> QED BY <2>1, <2>2 DEF Max
  <1>12. SubSeq(x, 1, m) = l
    <2> DEFINE y == SubSeq(x, 1, m)
    <2>1. x \in Seq(Bytes) /\ m <= Len(x)
      BY <1>2, <1>5, <1>7
    <2>2. y \in Seq(Bytes) /\ Len(y) = m /\ \A i \in 1 .. m : y[i] = x[i]
      BY <1>2, <2>1, PrefixAt
    <2> HIDE DEF y
    <2>3. Len(y) = Len(l) /\ \A i \in 1 .. Len(y) : y[i] = l[i]
      BY <1>7, <2>2 DEF m
    <2>4. y = l
      BY <1>1, <2>2, <2>3, SeqEqual
    <2> QED BY <2>4 DEF y
  <1>13. TrimCr(x) = SubSeq(x, 1, m)
    BY <1>11 DEF TrimCr, K
  <1> QED BY <1>12, <1>13 DEF x

\* The lines of a head are those that were sent, with or without a last CR.
LEMMA LinesOfHead ==
    ASSUME NEW c, IsDelivery(c), NEW t \in {<<>>, <<CR>>}
    PROVE  LinesOf(SentHead(c) \o t) = c.lines
  <1> DEFINE n == Len(c.lines)
             A == Seq(Bytes)
             lines == c.lines
             d == BeforeLF(c.eol)
             P(k) == [i \in 1 .. k - 1 |-> lines[i] \o d]
  <1>1. PICK h : HeadLoop(h, c) /\ SentHead(c) = h[n]
    BY HeadOf
  <1>2. n \in Nat \ {0} /\ \A k \in 1 .. n : h[k] \in A /\ lines[k] \in A
          /\ lines[k] \in Seq(LineByte)
    BY <1>1, LinesAre DEF HeadLoop
  <1>3. d \in {<<>>, <<CR>>} /\ d \in A /\ t \in A /\ Eol(c.eol) = d \o <<LF>> /\ <<LF>> \in A /\ <<>> \in A
    <2>1. <<>> \in A /\ <<CR>> \in A /\ <<LF>> \in A
      BY BytesApart, ShortSeqs
    <2> QED BY <2>1, EolShape DEF BeforeLF
  <1>4. /\ \A x, y \in A : x \o y \in A
        /\ \A x \in A : <<>> \o x = x /\ x \o <<>> = x
    BY ConcatProperties, ConcatEmptySeq
  <1>5. Associative(A)
    BY JoinsAssociate
  <1>6. Without(LF, d) /\ Without(LF, t) /\ \A k \in 1 .. n : Without(LF, lines[k])
    <2>1. \A x \in {<<>>, <<CR>>} : Without(LF, x)
      <3>1. CR # LF
        BY BytesApart
      <3>2. Len(<<>>) = 0 /\ Len(<<CR>>) = 1 /\ \A i \in 1 .. 1 : <<CR>>[i] = CR
        OBVIOUS
      <3> QED BY <3>1, <3>2 DEF Without
    <2>2. \A l \in Seq(LineByte) : Without(LF, l)
      BY BytesApart, ElementOfSeq DEF Without
    <2> QED BY <1>2, <1>3, <2>1, <2>2
  <1> HIDE DEF n, d, lines
  <1>7. \A k \in 1 .. n : P(k) \in Seq(A) /\ Len(P(k)) = k - 1
          /\ \A i \in 1 .. k - 1 : P(k)[i] = lines[i] \o d
    <2> SUFFICES ASSUME NEW k \in 1 .. n
                 PROVE  P(k) \in Seq(A) /\ Len(P(k)) = k - 1
                          /\ \A i \in 1 .. k - 1 : P(k)[i] = lines[i] \o d
      OBVIOUS
    <2> DEFINE g(i) == lines[i] \o d
               m == k - 1
               ss == [i \in 1 .. m |-> g(i)]
    <2>1. m \in Nat /\ \A i \in 1 .. m : g(i) \in A
      BY <1>2, <1>3, <1>4
    <2>2. P(k) = ss
      OBVIOUS
    <2> HIDE DEF A, g, m
    <2>3. ss \in Seq(A) /\ Len(ss) = m /\ \A i \in 1 .. m : ss[i] = g(i)
      BY <2>1
    <2> HIDE DEF ss
    <2> QED BY <2>2, <2>3 DEF g, m
  <1>8. \A k \in 2 .. n : P(k) = Append(P(k - 1), lines[k - 1] \o d)
    <2> SUFFICES ASSUME NEW k \in 2 .. n PROVE P(k) = Append(P(k - 1), lines[k - 1] \o d)
      OBVIOUS
    <2> DEFINE p == P(k)
               q == P(k - 1)
               e == lines[k - 1] \o d
               r == Append(q, e)
    <2>1. k \in 1 .. n /\ k - 1 \in 1 .. n
      BY <1>2
    <2>2. /\ p \in Seq(A) /\ Len(p) = k - 1 /\ \A i \in 1 .. k - 1 : p[i] = lines[i] \o d
          /\ q \in Seq(A) /\ Len(q) = (k - 1) - 1
               /\ \A i \in 1 .. (k - 1) - 1 : q[i] = lines[i] \o d
      BY <1>7, <2>1
    <2>3. e \in A
      BY <1>2, <1>3, <1>4, <2>1
    <2> HIDE DEF P, A, p, q, e
    <2>4. /\ r \in Seq(A) /\ Len(r) = Len(q) + 1 /\ r[Len(q) + 1] = e
          /\ \A i \in 1 .. Len(q) : r[i] = q[i]
      BY <2>2, <2>3, AppendProperties
    <2> HIDE DEF r
    <2>5. Len(r) = k - 1 /\ r[k - 1] = e /\ \A i \in 1 .. k - 2 : r[i] = lines[i] \o d
      <3>1. Len(q) = k - 2 /\ (k - 2) + 1 = k - 1
        BY <1>2, <2>2
      <3> QED BY <2>2, <2>4, <3>1
    <2>6. \A i \in 1 .. Len(p) : p[i] = r[i]
      <3>1. \A i \in 1 .. k - 1 : i = k - 1 \/ i \in 1 .. k - 2
        BY <1>2
      <3> QED BY <2>2, <2>5, <3>1 DEF e
    <2>7. p = r
      BY <2>2, <2>4, <2>5, <2>6, SeqEqual
    <2> QED BY <2>7 DEF p, q, r, e
  <1> DEFINE X == {k \in 1 .. n : Split(LF, h[k]) = Append(P(k), lines[k])}
  <1>9. 1 \in X
    <2>1. 1 \in 1 .. n /\ h[1] = lines[1]
      BY <1>1, <1>2 DEF HeadLoop, lines
    <2>2. P(1) = <<>>
      <3>1. P(1) \in Seq(A) /\ Len(P(1)) = 1 - 1
        BY <1>7, <2>1
      <3> HIDE DEF P, A
      <3>2. P(1) # <<>> => Len(P(1)) \in Nat \ {0}
        BY <3>1, EmptySeq
      <3> QED BY <3>1, <3>2
    <2>3. <<>> \in Seq(A)
      BY EmptySeq
    <2>4. Split(LF, <<>>) = Append(<<>>, <<>>)
      <3>1. Append(<<>>, <<>>) = << <<>> >>
        OBVIOUS
      <3> QED BY <3>1, SplitOfNothing
    <2>5. lines[1] \in A /\ Without(LF, lines[1])
      BY <1>2, <1>6, <2>1
    <2> HIDE DEF P
    <2>6. Split(LF, <<>> \o lines[1]) = Append(<<>>, <<>> \o lines[1])
      <3> DEFINE o == <<>>
                 l == lines[1]
      <3>1. Splits(Bytes, LF, o, o, o) /\ Word(Bytes, LF, l)
        BY <1>3, <2>3, <2>4, <2>5 DEF Splits, Word
      <3> HIDE DEF o, l
      <3>2. Split(LF, o \o l) = Append(o, o \o l)
        BY <3>1, SplitGrown
      <3> QED BY <3>2 DEF o, l
    <2>7. <<>> \o lines[1] = lines[1]
      BY <1>4, <2>5
    <2> QED BY <2>1, <2>2, <2>6, <2>7
  <1>10. ASSUME NEW k \in 1 + 1 .. n, k - 1 \in X PROVE k \in X
    <2>1. k \in 2 .. n /\ k - 1 \in 1 .. n /\ k \in 1 .. n
      BY <1>2
    <2> DEFINE s == h[k - 1]
               l == lines[k - 1]
               p == P(k - 1)
               q == P(k)
               x == s \o d
               y == x \o <<LF>>
               z == lines[k]
    <2>2. s \in A /\ l \in A /\ z \in A /\ Without(LF, z) /\ p \in Seq(A) /\ q \in Seq(A)
            /\ q = Append(p, l \o d)
      BY <1>2, <1>6, <1>7, <1>8, <2>1
    <2>3. Split(LF, s) = Append(p, l)
      BY <1>10
    <2>4. h[k] = s \o (Eol(c.eol) \o z)
      BY <1>1, <2>1 DEF HeadLoop, n, lines
    <2> HIDE DEF s, l, p, q, z, P
    <2>5. Split(LF, x) = Append(p, l \o d) /\ x \in A
      <3>1. Split(LF, x) = Append(p, l \o d)
        <4>1. Splits(Bytes, LF, s, p, l) /\ Word(Bytes, LF, d)
          BY <1>3, <1>6, <2>2, <2>3 DEF Splits, Word
        <4> QED BY <4>1, SplitGrown
      <3> QED BY <1>3, <1>4, <2>2, <3>1
    <2>6. Split(LF, x) = q
      BY <2>2, <2>5
    <2> HIDE DEF x
    <2>7. Split(LF, y) = Append(q, <<>>) /\ y \in A
      <3>1. LF \in Bytes
        BY BytesApart
      <3>2. Split(LF, y) = Append(q, <<>>)
        BY <2>5, <2>6, <3>1, SplitOfEnd
      <3> QED BY <1>3, <1>4, <2>5, <3>2
    <2> HIDE DEF y
    <2>8. Split(LF, y \o z) = Append(q, <<>> \o z)
      <3> DEFINE o == <<>>
      <3>1. Splits(Bytes, LF, y, q, o) /\ Word(Bytes, LF, z)
        BY <1>3, <2>2, <2>7 DEF Splits, Word
      <3> HIDE DEF o
      <3>2. Split(LF, y \o z) = Append(q, o \o z)
        BY <3>1, SplitGrown
      <3> QED BY <3>2 DEF o
    <2>9. <<>> \o z = z
      BY <1>4, <2>2
    <2>10. y \o z = h[k]
      <3> DEFINE f == <<LF>>
      <3>0. s \in A /\ d \in A /\ z \in A /\ f \in A /\ d \o f \in A
        BY <1>3, <1>4, <2>2
      <3> HIDE DEF A, f
      <3>1. s \o ((d \o f) \o z) = (s \o (d \o f)) \o z
        BY <1>5, <3>0, ZenonT(40) DEF Associative
      <3>2. s \o (d \o f) = (s \o d) \o f
        BY <1>5, <3>0, ZenonT(40) DEF Associative
      <3> USE DEF f
      <3> QED BY <1>3, <2>4, <3>1, <3>2 DEF x, y
    <2>11. Split(LF, h[k]) = Append(q, z)
      BY <2>8, <2>9, <2>10
    <2> QED BY <2>1, <2>11 DEF q, z
  <1>11. Split(LF, h[n]) = Append(P(n), lines[n])
    <2>1. n \in 1 .. n /\ 1 \in Nat /\ n \in Nat
      BY <1>2
    <2> HIDE DEF X
    <2>2. n \in X
      BY <1>9, <1>10, <2>1, UpTo
    <2> QED BY <2>2 DEF X
  <1> DEFINE v  == lines[n] \o t
             ls == Append(P(n), v)
             p  == P(n)
  <1>12. n \in 1 .. n /\ p \in Seq(A) /\ Len(p) = n - 1
           /\ \A i \in 1 .. n - 1 : p[i] = lines[i] \o d
    <2>1. n \in 1 .. n
      BY <1>2
    <2> QED BY <1>7, <2>1
  <1>13. Split(LF, h[n] \o t) = Append(p, v) /\ v \in A
    <2>1. h[n] \in A /\ lines[n] \in A /\ Split(LF, h[n]) = Append(p, lines[n])
      BY <1>2, <1>11, <1>12
    <2> HIDE DEF p
    <2>2. Split(LF, h[n] \o t) = Append(p, lines[n] \o t)
      <3>1. Splits(Bytes, LF, h[n], p, lines[n]) /\ Word(Bytes, LF, t)
        BY <1>3, <1>6, <1>12, <2>1 DEF Splits, Word
      <3> QED BY <3>1, SplitGrown, SMTT(30)
    <2> QED BY <1>3, <1>4, <2>1, <2>2
  <1> HIDE DEF P, p, v, A
  <1>14. Len(ls) = n /\ DOMAIN ls = 1 .. n /\ ls[n] = v
           /\ \A i \in 1 .. n - 1 : ls[i] = lines[i] \o d
    <2> DEFINE ap == Append(p, v)
    <2>1. /\ ap \in Seq(A) /\ Len(ap) = Len(p) + 1 /\ ap[Len(p) + 1] = v
          /\ \A i \in 1 .. Len(p) : ap[i] = p[i]
      BY <1>12, <1>13, AppendProperties
    <2> HIDE DEF ap
    <2>2. DOMAIN ap = 1 .. Len(ap)
      BY <2>1, LenProperties
    <2>3. (n - 1) + 1 = n
      BY <1>2
    <2>4. ls = ap
      BY DEF ap, p
    <2> HIDE DEF ls
    <2> QED BY <1>12, <2>1, <2>2, <2>3, <2>4
  <1>15. \A i \in 1 .. n : TrimCr(ls[i]) = lines[i]
    <2> SUFFICES ASSUME NEW i \in 1 .. n PROVE TrimCr(ls[i]) = lines[i]
      OBVIOUS
    <2> HIDE DEF ls
    <2>1. lines[i] \in Seq(LineByte)
      BY <1>2
    <2>2. TrimCr(lines[i] \o d) = lines[i] /\ TrimCr(lines[i] \o t) = lines[i]
      BY <1>3, <2>1, TrimOfLine
    <2>3. i = n \/ i \in 1 .. n - 1
      BY <1>2
    <2> QED BY <1>14, <2>2, <2>3 DEF v
  <1>16. LinesOf(h[n] \o t) = [i \in DOMAIN ls |-> TrimCr(ls[i])]
    BY <1>13 DEF LinesOf, ls, p
  <1>17. lines = [i \in 1 .. n |-> lines[i]]
    <2>1. lines \in Seq(Seq(LineByte))
      BY DEF IsDelivery, lines
    <2> DEFINE L == Seq(LineByte)
    <2> HIDE DEF L
    <2>2. lines \in Seq(L)
      BY <2>1 DEF L
    <2>3. lines \in [1 .. Len(lines) -> L]
      BY <2>2, LenProperties
    <2> QED BY <2>3 DEF n, lines
  <1> HIDE DEF ls
  <1>18. [i \in DOMAIN ls |-> TrimCr(ls[i])] = [i \in 1 .. n |-> lines[i]]
    BY <1>14, <1>15
  <1> QED BY <1>1, <1>16, <1>17, <1>18 DEF lines
-----------------------------------------------------------------------------
(* The end of a head                                                        *)

\* After the a bytes of the head there is an end of line (with a CR if p), a
\* blank line (with a CR if q), and the n bytes of a body.
EolEnd(a, p)      == a + (IF p THEN 2 ELSE 1)
BlankEnd(a, p, q) == EolEnd(a, p) + (IF q THEN 2 ELSE 1)
Layout(w, a, p, q, n) ==
    /\ w \in Seq(Bytes) /\ a \in Nat /\ n \in Nat /\ Len(w) = BlankEnd(a, p, q) + n
    /\ a > 0 => w[a] \in LineByte
    /\ \A i \in 1 .. a : w[i] = LF => i < a /\ w[i + 1] \in LineByte
    /\ p => w[a + 1] = CR
    /\ w[EolEnd(a, p)] = LF
    /\ q => w[EolEnd(a, p) + 1] = CR
    /\ w[BlankEnd(a, p, q)] = LF
    /\ \A i \in 1 .. n : w[BlankEnd(a, p, q) + i] \notin {CR, LF}

\* Only the end of the last line is followed by another end of line.
LEMMA BlankPlace ==
    ASSUME NEW w, NEW a, NEW p \in BOOLEAN, NEW q \in BOOLEAN, NEW n, Layout(w, a, p, q, n),
           NEW k \in Nat, 1 <= k, k < Len(w), w[k] = LF, w[k + 1] \in {CR, LF}
    PROVE  k = EolEnd(a, p)
  <1> DEFINE e == EolEnd(a, p)
             z == BlankEnd(a, p, q)
  <1>1. a \in Nat /\ n \in Nat /\ Len(w) = z + n
    BY DEF Layout
  <1>2. e = a + (IF p THEN 2 ELSE 1) /\ z = e + (IF q THEN 2 ELSE 1)
    BY DEF EolEnd, BlankEnd
  <1>3. CR # LF /\ CR \notin LineByte /\ LF \notin LineByte
    BY BytesApart
  <1>4. /\ \A i \in 1 .. a : w[i] = LF => i < a /\ w[i + 1] \in LineByte
        /\ p => w[a + 1] = CR
        /\ q => w[e + 1] = CR
        /\ \A i \in 1 .. n : w[z + i] \notin {CR, LF}
    BY DEF Layout
  <1> HIDE DEF e, z
  <1>5. ~(k <= a)
    BY <1>3, <1>4
  <1>6. ~(p /\ k = a + 1)
    BY <1>3, <1>4
  <1>7. ~(q /\ k = e + 1)
    BY <1>3, <1>4
  <1>8. ~(k = z)
    <2> SUFFICES ASSUME k = z PROVE FALSE
      OBVIOUS
    <2>1. 1 \in 1 .. n
      BY <1>1, <1>2
    <2> QED BY <1>4, <2>1
  <1>9. ~(k > z)
    <2> SUFFICES ASSUME k > z PROVE FALSE
      OBVIOUS
    <2>1. k - z \in 1 .. n /\ z + (k - z) = k
      BY <1>1, <1>2
    <2> QED BY <1>4, <2>1
  <1>10. k <= a \/ (p /\ k = a + 1) \/ k = e \/ (q /\ k = e + 1) \/ k = z \/ k > z
    BY <1>1, <1>2
  <1> QED BY <1>5, <1>6, <1>7, <1>8, <1>9, <1>10 DEF e

\* A blank line b in the first m bytes, after the i-th.
Crlfs == <<CR, LF, CR, LF>>
Lfs   == <<LF, LF>>
BlankAt(w, i, b, m) == i + Len(b) <= m /\ \A j \in 1 .. Len(b) : w[i + j] = b[j]

\* The two blank lines that find_head_end looks for.
LEMMA BlankShapes ==
    /\ Len(Crlfs) = 4 /\ Crlfs[1] = CR /\ Crlfs[2] = LF /\ Crlfs[3] = CR /\ Crlfs[4] = LF
    /\ Len(Lfs) = 2 /\ Lfs[1] = LF /\ Lfs[2] = LF
    /\ Crlfs \in Seq(Bytes) /\ Lfs \in Seq(Bytes)
  <1>1. CR \in Bytes /\ LF \in Bytes
    BY BytesApart
  <1>2. \A x, y \in Bytes : <<x, y>> \in Seq(Bytes) /\ <<x, y, x, y>> \in Seq(Bytes)
    OBVIOUS
  <1>3. Crlfs \in Seq(Bytes) /\ Lfs \in Seq(Bytes)
    BY <1>1, <1>2 DEF Crlfs, Lfs
  <1> QED BY <1>3 DEF Crlfs, Lfs

\* The only place of a blank line is after the head: if both ends of line have
\* a CR, or the second has none.
EndOf(a, p, q) == IF q THEN a ELSE EolEnd(a, p) - 1
BlankOf(q)     == IF q THEN Crlfs ELSE Lfs

\* Where one of them is found, a head ends that was sent so.
LEMMA EndPlace ==
    ASSUME NEW w, NEW a, NEW p \in BOOLEAN, NEW q \in BOOLEAN, NEW n, Layout(w, a, p, q, n),
           NEW m \in Nat, m <= Len(w), NEW i \in Nat, NEW b \in {Crlfs, Lfs}, BlankAt(w, i, b, m)
    PROVE  (q => p) /\ i = EndOf(a, p, q) /\ b = BlankOf(q) /\ BlankEnd(a, p, q) <= m
  <1> DEFINE e == EolEnd(a, p)
             z == BlankEnd(a, p, q)
  <1>1. a \in Nat /\ n \in Nat /\ Len(w) = z + n
    BY DEF Layout
  <1>2. e = a + (IF p THEN 2 ELSE 1) /\ z = e + (IF q THEN 2 ELSE 1)
    BY DEF EolEnd, BlankEnd
  <1>3. CR # LF /\ CR \notin LineByte
    BY BytesApart
  <1>4. /\ a > 0 => w[a] \in LineByte
        /\ q => w[e + 1] = CR
        /\ w[z] = LF
    BY DEF Layout
  <1> HIDE DEF e, z
  <1>5. CASE b = Crlfs
    <2>1. i + 4 <= m /\ w[i + 1] = CR /\ w[i + 2] = LF /\ w[i + 3] = CR /\ w[i + 4] = LF
      <3>1. 1 \in 1 .. 4 /\ 2 \in 1 .. 4 /\ 3 \in 1 .. 4 /\ 4 \in 1 .. 4
        OBVIOUS
      <3> QED BY <1>5, <3>1, BlankShapes DEF BlankAt
    <2>2. i + 2 = e
      <3> DEFINE k == i + 2
      <3>1. k \in Nat /\ 1 <= k /\ k < Len(w) /\ k + 1 = i + 3
        BY <1>1, <1>2, <2>1
      <3>2. w[k] = LF /\ w[k + 1] \in {CR, LF}
        BY <2>1, <3>1
      <3> HIDE DEF k
      <3>3. k = e
        BY <3>1, <3>2, BlankPlace DEF e
      <3> QED BY <3>3 DEF k
    <2>3. q
      <3> SUFFICES ASSUME ~q PROVE FALSE
        OBVIOUS
      <3>1. z = i + 3
        BY <1>1, <1>2, <2>2
      <3> QED BY <1>3, <1>4, <2>1, <3>1
    <2>4. p
      <3> SUFFICES ASSUME ~p PROVE FALSE
        OBVIOUS
      <3>1. a = i + 1 /\ a > 0
        BY <1>1, <1>2, <2>2
      <3> QED BY <1>3, <1>4, <2>1, <3>1
    <2>5. i = a /\ z <= m
      BY <1>1, <1>2, <2>1, <2>2, <2>3, <2>4
    <2> QED BY <1>5, <2>3, <2>4, <2>5 DEF EndOf, BlankOf, z
  <1>6. CASE b = Lfs
    <2>1. i + 2 <= m /\ w[i + 1] = LF /\ w[i + 2] = LF
      <3>1. 1 \in 1 .. 2 /\ 2 \in 1 .. 2
        OBVIOUS
      <3> QED BY <1>6, <3>1, BlankShapes DEF BlankAt
    <2>2. i + 1 = e
      <3> DEFINE k == i + 1
      <3>1. k \in Nat /\ 1 <= k /\ k < Len(w) /\ k + 1 = i + 2
        BY <1>1, <1>2, <2>1
      <3>2. w[k] = LF /\ w[k + 1] \in {CR, LF}
        BY <2>1, <3>1
      <3> HIDE DEF k
      <3>3. k = e
        BY <3>1, <3>2, BlankPlace DEF e
      <3> QED BY <3>3 DEF k
    <2>3. ~q
      <3> SUFFICES ASSUME q PROVE FALSE
        OBVIOUS
      <3>1. e + 1 = i + 2
        BY <1>1, <1>2, <2>2
      <3> QED BY <1>3, <1>4, <2>1, <3>1
    <2>4. i = e - 1 /\ z <= m
      BY <1>1, <1>2, <2>1, <2>2, <2>3
    <2> QED BY <1>6, <2>3, <2>4 DEF EndOf, BlankOf, e, z
  <1> QED BY <1>5, <1>6

\* And there it is.
LEMMA EndIsThere ==
    ASSUME NEW w, NEW a, NEW p \in BOOLEAN, NEW q \in BOOLEAN, NEW n, Layout(w, a, p, q, n),
           q => p
    PROVE  /\ EndOf(a, p, q) \in Nat
           /\ BlankAt(w, EndOf(a, p, q), BlankOf(q), BlankEnd(a, p, q))
           /\ EndOf(a, p, q) + Len(BlankOf(q)) = BlankEnd(a, p, q)
           /\ EndOf(a, p, q) = a \/ (EndOf(a, p, q) = a + 1 /\ w[a + 1] = CR)
  <1> DEFINE e == EolEnd(a, p)
             z == BlankEnd(a, p, q)
             i == EndOf(a, p, q)
             b == BlankOf(q)
  <1>1. a \in Nat
    BY DEF Layout
  <1>2. e = a + (IF p THEN 2 ELSE 1) /\ z = e + (IF q THEN 2 ELSE 1) /\ i = IF q THEN a ELSE e - 1
    BY DEF EolEnd, BlankEnd, EndOf
  <1>4. /\ p => w[a + 1] = CR
        /\ w[e] = LF
        /\ q => w[e + 1] = CR
        /\ w[z] = LF
    BY DEF Layout
  <1> HIDE DEF e, z, i
  <1>5. CASE q
    <2>1. i = a /\ e = a + 2 /\ e + 1 = a + 3 /\ z = a + 4
      BY <1>1, <1>2, <1>5
    <2>2. w[a + 1] = CR /\ w[a + 2] = LF /\ w[a + 3] = CR /\ w[a + 4] = LF
      BY <1>4, <1>5, <2>1
    <2>3. b = Crlfs
      BY <1>5 DEF BlankOf
    <2> HIDE DEF b
    <2>4. Len(b) = 4 /\ \A j \in 1 .. 4 : w[i + j] = b[j]
      BY <2>1, <2>2, <2>3, BlankShapes
    <2>5. BlankAt(w, i, b, z) /\ i + Len(b) = z /\ i \in Nat
      BY <1>1, <2>1, <2>4 DEF BlankAt
    <2> QED BY <2>1, <2>5 DEF i, b, z
  <1>6. CASE ~q
    <2>1. i = e - 1 /\ i + 1 = e /\ z = i + 2 /\ i \in Nat /\ (i = a \/ (p /\ i = a + 1))
      BY <1>1, <1>2, <1>6
    <2>2. w[i + 1] = LF /\ w[i + 2] = LF
      BY <1>4, <2>1
    <2>3. b = Lfs
      BY <1>6 DEF BlankOf
    <2> HIDE DEF b
    <2>4. Len(b) = 2 /\ \A j \in 1 .. 2 : w[i + j] = b[j]
      BY <2>2, <2>3, BlankShapes
    <2>5. BlankAt(w, i, b, z) /\ i + Len(b) = z
      BY <2>1, <2>4 DEF BlankAt
    <2> QED BY <1>4, <2>1, <2>5 DEF i, b, z
  <1> QED BY <1>5, <1>6

\* An end of line, with or without a CR.
Crlf(style) == style = "crlf"

\* The bytes of an end of line.
LEMMA EolAt ==
    ASSUME NEW style
    PROVE  /\ Eol(style) \in Seq(Bytes) /\ Len(Eol(style)) = IF Crlf(style) THEN 2 ELSE 1
           /\ Eol(style)[Len(Eol(style))] = LF
           /\ Crlf(style) => Eol(style)[1] = CR
  <1> DEFINE two == <<CR, LF>>
             one == <<LF>>
  <1>1. Len(two) = 2 /\ two[1] = CR /\ two[2] = LF /\ Len(one) = 1 /\ one[1] = LF
    OBVIOUS
  <1>2. Eol(style) = IF Crlf(style) THEN two ELSE one
    BY DEF Eol, Crlf
  <1> HIDE DEF two, one
  <1>3. Eol(style) \in Seq(Bytes)
    BY EolShape
  <1> QED BY <1>1, <1>2, <1>3

\* The bytes of a body.
Data(n) == [i \in 1 .. n |-> [kind |-> "data", n |-> i]]

\* The bytes of a body, none of which ends a line.
LEMMA DataAt ==
    ASSUME NEW n \in Nat
    PROVE  /\ Data(n) \in Seq(Bytes) /\ Len(Data(n)) = n
           /\ \A i \in 1 .. n : Data(n)[i] = [kind |-> "data", n |-> i]
                /\ Data(n)[i] \notin {CR, LF}
  <1>1. \A i \in 1 .. n : [kind |-> "data", n |-> i] \in Bytes
    BY DEF Bytes
  <1>2. \A i \in 1 .. n : [kind |-> "data", n |-> i] \notin {CR, LF}
    BY DEF CR, LF, Byte
  <1> QED BY <1>1, <1>2 DEF Data

\* What a client sends, byte by byte.
Placed(w, c) ==
    /\ Layout(w, Len(SentHead(c)), Crlf(c.eol), Crlf(c.blank), c.body)
    /\ \A i \in 1 .. Len(SentHead(c)) : w[i] = SentHead(c)[i]
    /\ \A i \in 1 .. c.body :
           w[BlankEnd(Len(SentHead(c)), Crlf(c.eol), Crlf(c.blank)) + i] = Data(c.body)[i]

\* Where the head, its end and the body are in what is sent.
LEMMA BytesSent ==
    ASSUME NEW c, IsDelivery(c)
    PROVE  Placed(SentBytes(c), c)
  <1> DEFINE h == SentHead(c)
             e == Eol(c.eol)
             f == Eol(c.blank)
             n == c.body
             d == Data(n)
             p == Crlf(c.eol)
             q == Crlf(c.blank)
             x == h \o e
             y == x \o f
             w == y \o d
             a == Len(h)
             b == Len(x)
             z == Len(y)
             u == EolEnd(a, p)
             v == BlankEnd(a, p, q)
  <1>1. h \in Seq(Bytes) /\ Tight(h)
    BY HeadIsTight
  <1>2. n \in Nat
    BY DEF IsDelivery
  <1>3. SentBytes(c) = w
    BY DEF SentBytes, Data
  <1>4. /\ e \in Seq(Bytes) /\ Len(e) = IF p THEN 2 ELSE 1
        /\ e[Len(e)] = LF /\ (p => e[1] = CR)
    BY EolAt
  <1>5. /\ f \in Seq(Bytes) /\ Len(f) = IF q THEN 2 ELSE 1
        /\ f[Len(f)] = LF /\ (q => f[1] = CR)
    BY EolAt
  <1>6. /\ d \in Seq(Bytes) /\ Len(d) = n /\ \A i \in 1 .. n : d[i] \notin {CR, LF}
    BY <1>2, DataAt
  <1>7. u = a + (IF p THEN 2 ELSE 1) /\ v = u + (IF q THEN 2 ELSE 1)
    BY DEF EolEnd, BlankEnd
  <1>0. u = EolEnd(a, p) /\ v = BlankEnd(a, p, q)
    OBVIOUS
  <1> HIDE DEF h, e, f, n, d, p, q, u, v
  <1>8. x \in Seq(Bytes) /\ Joined(x, h, a, e, Len(e))
    BY <1>1, <1>4, ConcatAt
  <1> HIDE DEF x
  <1>9. y \in Seq(Bytes) /\ Joined(y, x, b, f, Len(f))
    BY <1>5, <1>8, ConcatAt
  <1> HIDE DEF y
  <1>10. w \in Seq(Bytes) /\ Joined(w, y, z, d, n)
    BY <1>6, <1>9, ConcatAt
  <1> HIDE DEF w
  <1>11. a \in Nat /\ b = u /\ z = v /\ Len(w) = v + n /\ u \in Nat /\ v \in Nat /\ a < u /\ u < v
    <2>1. a \in Nat
      BY <1>1, LenProperties
    <2>2. b = a + Len(e) /\ z = b + Len(f) /\ Len(w) = z + n
      BY <1>8, <1>9, <1>10 DEF Joined
    <2> HIDE DEF a, b, z
    <2> QED BY <1>2, <1>4, <1>5, <1>7, <2>1, <2>2
  <1>12. \A i \in 1 .. v : w[i] = y[i]
    BY <1>10, <1>11 DEF Joined
  <1>13. /\ \A i \in 1 .. u : y[i] = x[i]
         /\ \A i \in 1 .. Len(f) : y[u + i] = f[i]
    BY <1>9, <1>11 DEF Joined
  <1>14. /\ \A i \in 1 .. a : x[i] = h[i]
         /\ \A i \in 1 .. Len(e) : x[a + i] = e[i]
    BY <1>8 DEF Joined
  <1>15. \A i \in 1 .. n : w[v + i] = d[i]
    BY <1>10, <1>11 DEF Joined
  <1>16. \A i \in 1 .. u : w[i] = x[i]
    BY <1>11, <1>12, <1>13
  <1>17. \A i \in 1 .. a : w[i] = h[i]
    BY <1>11, <1>14, <1>16
  <1>18. w[u] = LF /\ (p => w[a + 1] = CR)
    <2>1. Len(e) \in 1 .. Len(e) /\ 1 \in 1 .. Len(e) /\ a + Len(e) = u /\ u \in 1 .. u
            /\ a + 1 \in 1 .. u
      <3>1. Len(e) \in {1, 2} /\ u = a + Len(e)
        BY <1>4, <1>7
      <3> QED BY <1>11, <3>1
    <2> QED BY <1>4, <1>14, <1>16, <2>1
  <1>19. w[v] = LF /\ (q => w[u + 1] = CR)
    <2>1. Len(f) \in 1 .. Len(f) /\ 1 \in 1 .. Len(f) /\ u + Len(f) = v /\ v \in 1 .. v
            /\ u + 1 \in 1 .. v
      <3>1. Len(f) \in {1, 2} /\ v = u + Len(f)
        BY <1>5, <1>7
      <3> QED BY <1>11, <3>1
    <2> QED BY <1>5, <1>12, <1>13, <2>1
  <1>20. a > 0 => w[a] \in LineByte
    <2>1. a > 0 => h # <<>>
      BY <1>1
    <2>2. a > 0 => a \in 1 .. a
      BY <1>11
    <2> QED BY <1>1, <1>17, <2>1, <2>2 DEF Tight
  <1>21. \A i \in 1 .. a : w[i] = LF => i < a /\ w[i + 1] \in LineByte
    <2> TAKE i \in 1 .. a
    <2> SUFFICES ASSUME w[i] = LF PROVE i < a /\ w[i + 1] \in LineByte
      OBVIOUS
    <2>1. h[i] = LF
      BY <1>17
    <2>2. i < a /\ h[i + 1] \in LineByte
      BY <1>1, <2>1 DEF Tight
    <2>3. i + 1 \in 1 .. a
      BY <1>11, <2>2
    <2> QED BY <1>17, <2>2, <2>3
  <1>22. Layout(w, a, p, q, n)
    <2>1. \A i \in 1 .. n : w[v + i] \notin {CR, LF}
      BY <1>6, <1>15
    <2>2. /\ w[EolEnd(a, p)] = LF /\ (p => w[a + 1] = CR)
          /\ w[BlankEnd(a, p, q)] = LF /\ (q => w[EolEnd(a, p) + 1] = CR)
          /\ \A i \in 1 .. n : w[BlankEnd(a, p, q) + i] \notin {CR, LF}
          /\ Len(w) = BlankEnd(a, p, q) + n
      BY <1>0, <1>11, <1>18, <1>19, <2>1, Zenon
    <2>3. a \in Nat /\ w \in Seq(Bytes)
      BY <1>10, <1>11
    <2> QED BY <1>2, <1>20, <1>21, <2>2, <2>3, Zenon DEF Layout
  <1> QED BY <1>3, <1>15, <1>17, <1>22 DEF Placed, w, h, n, d, p, q, v

\* A blank line begins in the bytes read where it begins in the bytes sent.
LEMMA BlankFound ==
    ASSUME NEW w \in Seq(Bytes), NEW m \in Nat, m <= Len(w), buffer = Slice(w, 0, m),
           NEW i \in 0 .. m, NEW b \in {Crlfs, Lfs}
    PROVE  b \in BlankFrom(i) <=> BlankAt(w, i, b, m)
  <1> DEFINE t == Slice(w, i, m)
             n == Len(b)
             s == Slice(w, i, i + n)
  <1>1. Len(w) \in Nat /\ i \in Nat /\ i <= m /\ 0 <= m
    BY LenProperties
  <1>2. b \in Seq(Bytes) /\ n \in Nat
    BY BlankShapes
  <1>3. Len(buffer) = m
    <2>1. Len(Slice(w, 0, m)) = m - 0
      BY SliceAt, <1>1
    <2> QED BY <2>1
  <1>4. SubSeq(buffer, i + 1, Len(buffer)) = t
    <2>1. Slice(Slice(w, 0, m), i, m) = Slice(w, 0 + i, 0 + m)
      BY SliceOfSlice, <1>1
    <2>2. Slice(buffer, i, m) = t
      BY <2>1, <1>1
    <2> QED BY <1>3, <2>2 DEF Slice
  <1>5. t \in Seq(Bytes) /\ Len(t) = m - i
    BY SliceAt, <1>1
  <1> HIDE DEF n, t
  <1>6. SubSeq(b, 1, n) = b
    BY <1>2, SliceEnds DEF n
  <1>7. i + n <= m => SubSeq(t, 1, n) = s
    <2> SUFFICES ASSUME i + n <= m PROVE SubSeq(t, 1, n) = s
      OBVIOUS
    <2>1. Slice(Slice(w, i, m), 0, n) = Slice(w, i + 0, i + n)
      BY SliceOfSlice, <1>1, <1>2
    <2>2. SubSeq(t, 1, n) = Slice(t, 0, n)
      BY <1>5, SliceEnds
    <2> QED BY <1>1, <2>1, <2>2 DEF t
  <1>8. i + n <= m => (b = s <=> \A j \in 1 .. n : w[i + j] = b[j])
    <2> SUFFICES ASSUME i + n <= m PROVE b = s <=> \A j \in 1 .. n : w[i + j] = b[j]
      OBVIOUS
    <2> DEFINE k == i + n
    <2>1. k \in Nat /\ i <= k /\ k <= Len(w) /\ k - i = n
      BY <1>1, <1>2
    <2>2. s = Slice(w, i, k)
      OBVIOUS
    <2> HIDE DEF k, s
    <2>3. Slice(w, i, k) \in Seq(Bytes) /\ \A j \in 1 .. k - i : Slice(w, i, k)[j] = w[i + j]
      BY SliceAt, <1>1, <2>1
    <2>4. b = s => \A j \in 1 .. n : w[i + j] = b[j]
      BY <2>1, <2>2, <2>3
    <2>5. ASSUME \A j \in 1 .. n : w[i + j] = b[j] PROVE b = s
      <3>1. Len(b) = k - i
        BY <2>1 DEF n
      <3>2. \A j \in 1 .. k - i : b[j] = w[i + j]
        BY <2>1, <2>5
      <3>3. b = Slice(w, i, k)
        BY SameSlice, <1>1, <1>2, <2>1, <3>1, <3>2
      <3> QED BY <2>2, <3>3
    <2> QED BY <2>4, <2>5
  <1>9. b \in BlankFrom(i) <=> IsPrefix(b, t)
    BY <1>4 DEF BlankFrom, BlankLines, Crlfs, Lfs
  <1>10. IsPrefix(b, t) <=> n <= m - i /\ SubSeq(b, 1, n) = SubSeq(t, 1, n)
    BY <1>5 DEF IsPrefix, n
  <1>11. n <= m - i <=> i + n <= m
    BY <1>1, <1>2
  <1>12. BlankAt(w, i, b, m) <=> i + n <= m /\ \A j \in 1 .. n : w[i + j] = b[j]
    BY DEF BlankAt, n
  <1> HIDE DEF s
  <1> QED BY <1>6, <1>7, <1>8, <1>9, <1>10, <1>11, <1>12

\* When the blank line has come, and only then, the head is found, and its end.
LEMMA HeadFound ==
    ASSUME NEW w, NEW a, NEW p \in BOOLEAN, NEW q \in BOOLEAN, NEW n, Layout(w, a, p, q, n),
           NEW m \in Nat, m <= Len(w), buffer = Slice(w, 0, m)
    PROVE  /\ HeadEnds # {} <=> ((q => p) /\ BlankEnd(a, p, q) <= m)
           /\ HeadEnds # {} => /\ Min(HeadEnds) = EndOf(a, p, q)
                               /\ BlankFrom(EndOf(a, p, q)) = {BlankOf(q)}
  <1> DEFINE z == BlankEnd(a, p, q)
             e == EndOf(a, p, q)
             blank == BlankOf(q)
             found(i, b) == BlankAt(w, i, b, m)
  <1>1. w \in Seq(Bytes) /\ Len(w) \in Nat
    <2>1. w \in Seq(Bytes)
      BY DEF Layout
    <2> QED BY <2>1, LenProperties
  <1>2. Len(buffer) = m
    <2>1. 0 <= m /\ 0 \in Nat
      OBVIOUS
    <2>2. Len(Slice(w, 0, m)) = m - 0
      BY SliceAt, <1>1, <2>1
    <2> QED BY <2>2
  <1>3. \A i \in 0 .. m, b \in {Crlfs, Lfs} : b \in BlankFrom(i) <=> found(i, b)
    BY BlankFound, <1>1
  <1>4. \A i : BlankFrom(i) \subseteq {Crlfs, Lfs}
    BY DEF BlankFrom, BlankLines, Crlfs, Lfs
  <1>5. \A i \in 0 .. m, b \in {Crlfs, Lfs} : found(i, b) => (q => p) /\ i = e /\ b = blank
          /\ z <= m
    BY EndPlace
  <1>6. ASSUME q => p, z <= m PROVE e \in 0 .. m /\ found(e, blank) /\ blank \in {Crlfs, Lfs}
    <2>1. e \in Nat /\ BlankAt(w, e, blank, z) /\ e + Len(blank) = z
      BY EndIsThere, <1>6
    <2>2. blank \in {Crlfs, Lfs} /\ Len(blank) \in Nat
      BY BlankShapes DEF BlankOf
    <2> HIDE DEF e, blank, z
    <2>3. e <= z /\ z \in Nat
      BY <2>1, <2>2
    <2>4. BlankAt(w, e, blank, m)
      BY <1>6, <2>1 DEF BlankAt
    <2> QED BY <1>6, <2>1, <2>2, <2>3, <2>4
  <1> HIDE DEF found, z, e, blank
  <1>7. ASSUME HeadEnds # {}
        PROVE  (q => p) /\ z <= m
    <2>1. PICK i \in 0 .. m : BlankFrom(i) # {}
      BY <1>2, <1>7 DEF HeadEnds
    <2>2. PICK b \in {Crlfs, Lfs} : b \in BlankFrom(i)
      BY <1>4, <2>1
    <2> QED BY <1>3, <1>5, <2>2
  <1>8. ASSUME q => p, z <= m
        PROVE  HeadEnds = {e} /\ BlankFrom(e) = {blank} /\ e \in Nat
    <2>1. e \in 0 .. m /\ blank \in BlankFrom(e)
      BY <1>3, <1>6, <1>8
    <2>2. \A i \in 0 .. m : \A b \in BlankFrom(i) : i = e /\ b = blank
      BY <1>3, <1>4, <1>5
    <2>3. HeadEnds = {e}
      BY <1>2, <2>1, <2>2 DEF HeadEnds
    <2> QED BY <2>1, <2>2, <2>3
  <1>9. ASSUME q => p, z <= m PROVE Min(HeadEnds) = e
    BY <1>8, <1>9 DEF Min
  <1>10. HeadEnds # {} <=> ((q => p) /\ z <= m)
    BY <1>7, <1>8
  <1> QED BY <1>7, <1>8, <1>9, <1>10 DEF z, e, blank

\* Where the body begins in what a client sends.
HeadLength(c) == BlankEnd(Len(SentHead(c)), Crlf(c.eol), Crlf(c.blank))

\* What is taken for the head is the head, or the head and a CR.
LEMMA HeadTaken ==
    ASSUME NEW c, IsDelivery(c), NEW w, w = SentBytes(c),
           NEW m \in Nat, m <= Len(w), buffer = Slice(w, 0, m), HeadEnds # {},
           NEW end, end = Min(HeadEnds), NEW blank, blank = CHOOSE b \in BlankFrom(end) : TRUE
    PROVE  /\ SubSeq(buffer, 1, end) \in {SentHead(c), SentHead(c) \o <<CR>>}
           /\ LinesOf(SubSeq(buffer, 1, end)) = c.lines
           /\ end \in Nat /\ Len(blank) \in Nat /\ end + Len(blank) = HeadLength(c)
                /\ HeadLength(c) <= m
  <1> DEFINE h == SentHead(c)
             a == Len(h)
             p == Crlf(c.eol)
             q == Crlf(c.blank)
             z == BlankEnd(a, p, q)
             o == <<CR>>
             empty == <<>>
             x == h \o o
  <1>1. Layout(w, a, p, q, c.body) /\ \A i \in 1 .. a : w[i] = h[i]
    BY BytesSent DEF Placed
  <1>2. p \in BOOLEAN /\ q \in BOOLEAN
    BY DEF Crlf
  <1>3. z = HeadLength(c)
    BY DEF HeadLength
  <1>4. w \in Seq(Bytes) /\ Len(w) \in Nat
    <2>1. w \in Seq(Bytes)
      BY <1>1 DEF Layout
    <2> QED BY <2>1, LenProperties
  <1>5. h \in Seq(Bytes) /\ a \in Nat
    <2>1. h \in Seq(Bytes)
      BY HeadIsTight
    <2> QED BY <2>1, LenProperties
  <1>6. \A t \in {empty, o} : LinesOf(h \o t) = c.lines
    BY LinesOfHead
  <1>7. h \o empty = h
    BY <1>5, ConcatEmptySeq
  <1>8. o \in Seq(Bytes) /\ Len(o) = 1 /\ o[1] = CR
    BY BytesApart, ShortSeqs
  <1> HIDE DEF h, a, p, q, z, o, empty
  <1>9. /\ (q => p) /\ z <= m /\ end = EndOf(a, p, q) /\ BlankFrom(end) = {BlankOf(q)}
    BY <1>1, <1>2, HeadFound DEF z
  <1>10. blank = BlankOf(q)
    BY <1>9
  <1>11. end \in Nat /\ end + Len(blank) = z /\ (end = a \/ (end = a + 1 /\ w[a + 1] = CR))
    <2> DEFINE e == EndOf(a, p, q)
               b == BlankOf(q)
    <2>1. q => p
      BY <1>9
    <2>2. /\ e \in Nat /\ e + Len(b) = BlankEnd(a, p, q)
          /\ e = a \/ (e = a + 1 /\ w[a + 1] = CR)
      BY <1>1, <1>2, <2>1, EndIsThere, ZenonT(40)
    <2> HIDE DEF e, b
    <2>3. end = e /\ blank = b
      BY <1>9, <1>10 DEF e, b
    <2> QED BY <2>2, <2>3 DEF z
  <1>12. Len(blank) \in Nat
    BY <1>10, BlankShapes DEF BlankOf
  <1>13. SubSeq(buffer, 1, end) = Slice(w, 0, end) /\ end <= Len(w)
    <2>1. end <= m /\ 0 <= end /\ 0 <= m /\ end <= Len(w) /\ 0 + end = end /\ 0 + 0 = 0
      BY <1>4, <1>9, <1>11, <1>12
    <2>2. Slice(Slice(w, 0, m), 0, end) = Slice(w, 0 + 0, 0 + end)
      BY SliceOfSlice, <1>4, <1>11, <2>1
    <2>3. Slice(buffer, 0, end) = Slice(w, 0, end)
      BY <2>1, <2>2
    <2>4. SubSeq(buffer, 1, end) = Slice(buffer, 0, end)
      BY DEF Slice
    <2> QED BY <2>1, <2>3, <2>4
  <1>14. CASE end = a
    <2>1. 0 \in Nat /\ 0 <= a /\ Len(h) = a - 0 /\ a <= Len(w)
      BY <1>5, <1>13, <1>14 DEF a
    <2>2. \A i \in 1 .. a - 0 : h[i] = w[0 + i]
      BY <1>1, <1>5
    <2>3. h = Slice(w, 0, a)
      BY SameSlice, <1>4, <1>5, <2>1, <2>2
    <2>4. SubSeq(buffer, 1, end) = h
      BY <1>13, <1>14, <2>3
    <2> QED BY <1>3, <1>6, <1>7, <1>9, <1>11, <1>12, <2>4 DEF h
  <1>15. CASE end = a + 1 /\ w[a + 1] = CR
    <2>1. x \in Seq(Bytes) /\ Joined(x, h, a, o, 1)
      BY <1>5, <1>8, ConcatAt DEF a
    <2> HIDE DEF x
    <2>2. 0 \in Nat /\ 0 <= end /\ Len(x) = end - 0 /\ 1 \in 1 .. 1 /\ end - 0 = a + 1
      BY <1>5, <1>11, <1>15, <2>1 DEF Joined
    <2>3. \A i \in 1 .. end - 0 : x[i] = w[0 + i]
      <3>1. \A i \in 1 .. a : x[i] = w[i]
        BY <1>1, <2>1 DEF Joined
      <3>2. x[a + 1] = w[a + 1]
        BY <1>8, <1>15, <2>1, <2>2 DEF Joined
      <3> QED BY <1>5, <2>2, <3>1, <3>2
    <2>4. x = Slice(w, 0, end)
      <3>1. x \in Seq(Bytes) /\ w \in Seq(Bytes) /\ 0 \in Nat /\ end \in Nat /\ 0 <= end
              /\ end <= Len(w)
        BY <1>4, <1>11, <1>13, <2>1, <2>2
      <3>2. Len(x) = end - 0
        BY <2>2
      <3> QED BY SameSlice, <2>3, <3>1, <3>2
    <2>5. SubSeq(buffer, 1, end) = h \o o
      BY <1>13, <2>4 DEF x
    <2> QED BY <1>3, <1>6, <1>9, <1>11, <1>12, <2>5 DEF h, o
  <1> QED BY <1>11, <1>14, <1>15

\* The lines say how many bytes of a body there are to be.
LEMMA LeastLength ==
    ASSUME NEW c, IsDelivery(c), Lengths(c.lines) # {}
    PROVE  Min(Lengths(c.lines)) \in Lengths(c.lines)
  <1> DEFINE n == Len(c.lines)
             S == Lengths(c.lines)
  <1>1. n \in Nat /\ DOMAIN c.lines = 1 .. n
    BY LinesAre, LenProperties DEF IsDelivery
  <1>2. S \in SUBSET (0 .. n)
    <2>1. S \subseteq 1 .. n
      BY <1>1, Zenon DEF Lengths
    <2> QED BY <1>1, <2>1
  <1> HIDE DEF n
  <1> QED BY <1>1, <1>2, LeastOf DEF Min

\* A head asks for some number of bytes.
LEMMA NeedType == ASSUME NEW c, IsDelivery(c) PROVE Need(c.lines) \in Nat
  <1>1. CASE Lengths(c.lines) # {}
    <2> DEFINE k == Min(Lengths(c.lines))
    <2>1. k \in Lengths(c.lines)
      BY <1>1, LeastLength
    <2>2. k \in DOMAIN c.lines /\ c.lines[k] # <<>>
      BY <2>1 DEF Lengths, Starts
    <2>3. c.lines[k] \in Seq(LineByte)
      BY <2>2 DEF IsDelivery
    <2>4. c.lines[k][1] \in LineByte
      BY <2>2, <2>3
    <2> QED BY <1>1, <2>4 DEF Need, BodyLine, LineByte
  <1>2. CASE Lengths(c.lines) = {}
    BY <1>2 DEF Need
  <1> QED BY <1>1, <1>2

\* A sound request has what the reader looks for.
LEMMA SoundIsTaken ==
    ASSUME NEW c, IsDelivery(c), IsSoundRequest(c)
    PROVE  /\ Crlf(c.blank) => Crlf(c.eol)
           /\ Acceptable(c.lines) /\ HeadLength(c) <= MaxReqHead /\ Need(c.lines) <= c.body
  <1> DEFINE lines == c.lines
             h == SentHead(c)
             e == Eol(c.eol)
             f == Eol(c.blank)
             x == h \o e
             y == x \o f
             p == Crlf(c.eol)
             q == Crlf(c.blank)
  <1>1. Crlf(c.blank) => Crlf(c.eol)
    BY DEF IsSoundRequest, IsDelivery, Crlf
  <1>2. Need(lines) <= MaxReqBody /\ Need(lines) <= c.body
    <2>1. MaxReqBody \in Nat /\ c.body \in Nat
      BY RequestLimits DEF IsDelivery
    <2>2. Min({MaxReqBody, c.body}) <= MaxReqBody /\ Min({MaxReqBody, c.body}) <= c.body
          /\ Min({MaxReqBody, c.body}) \in Nat
      <3> DEFINE S == {MaxReqBody, c.body}
      <3>1. \E k \in S : \A y1 \in S : k <= y1
        BY <2>1
      <3>2. Min(S) \in S /\ \A y1 \in S : Min(S) <= y1
        BY <3>1 DEF Min
      <3> QED BY <2>1, <3>2
    <2> QED BY <2>1, <2>2, NeedType DEF IsSoundRequest
  <1>3. WellFormed(lines)
    BY DEF WellFormed, IsSoundRequest, Starts
  <1>4. ASSUME Lengths(lines) # {}
        PROVE  BodyLine(lines).kind = "length"
    <2> DEFINE k == Min(Lengths(lines))
    <2>1. k \in DOMAIN lines /\ Starts(lines[k], {"length", "bad length"})
      BY <1>4, LeastLength DEF Lengths
    <2>2. k # 1
      BY <2>1 DEF IsSoundRequest, Starts
    <2>3. k \in 2 .. Len(lines)
      <3>1. Len(lines) \in Nat /\ DOMAIN lines = 1 .. Len(lines)
        BY LenProperties DEF IsDelivery
      <3>2. k \in DOMAIN lines
        BY <2>1
      <3> HIDE DEF k, lines
      <3> QED BY <2>2, <3>1, <3>2
    <2>4. Starts(lines[k], {"header", "length"})
      BY <2>3 DEF IsSoundRequest
    <2> QED BY <2>1, <2>4 DEF Starts, BodyLine
  <1>5. HeadLength(c) <= MaxReqHead
    <2>1. h \in Seq(Bytes)
      BY HeadIsTight
    <2>2. e \in Seq(Bytes) /\ Len(e) = IF p THEN 2 ELSE 1
      BY EolAt
    <2>3. f \in Seq(Bytes) /\ Len(f) = IF q THEN 2 ELSE 1
      BY EolAt
    <2>4. Len(y) <= MaxReqHead
      BY DEF IsSoundRequest
    <2>5. HeadLength(c) = Len(h) + (IF p THEN 2 ELSE 1) + (IF q THEN 2 ELSE 1)
      BY DEF HeadLength, BlankEnd, EolEnd
    <2> HIDE DEF h, e, f, p, q
    <2>6. x \in Seq(Bytes) /\ Joined(x, h, Len(h), e, Len(e))
      BY <2>1, <2>2, ConcatAt
    <2> HIDE DEF x
    <2>7. y \in Seq(Bytes) /\ Joined(y, x, Len(x), f, Len(f))
      BY <2>3, <2>6, ConcatAt
    <2> HIDE DEF y
    <2>8. Len(y) = Len(x) + Len(f) /\ Len(x) = Len(h) + Len(e)
      BY <2>6, <2>7 DEF Joined
    <2> QED BY <2>2, <2>3, <2>4, <2>5, <2>8
  <1> QED BY <1>1, <1>2, <1>3, <1>4, <1>5 DEF Acceptable

-----------------------------------------------------------------------------
(* A request that comes in pieces                                           *)

\* While a request comes, what was read and what is still to come are, together,
\* what came of what the client sent from some place on.
Cut(c, from) ==
    \E m \in from .. c.arrive : /\ buffer = Slice(SentBytes(c), from, m)
                                /\ incoming = Slice(SentBytes(c), m, c.arrive)
Asked(c) == asked = [head |-> SentHead(c), need |-> Need(c.lines), sound |-> IsSoundRequest(c),
                     whole |-> c.arrive = Len(SentBytes(c))]
Heads(c) == {SentHead(c), SentHead(c) \o <<CR>>}
ReadingBody(c, head) == receiver = [at |-> "body", head |-> head, need |-> Need(c.lines), body |-> <<>>]
Reading(c) ==
    /\ Asked(c)
    /\ receiver.at \in {"head", "body", "read", "unreadable"}
    /\ receiver.at = "head" => receiver = NotYet /\ Cut(c, 0)
    /\ receiver.at = "body" => (\E head \in Heads(c) : ReadingBody(c, head))
         /\ Cut(c, HeadLength(c))
RequestInv ==
    /\ at = "sent" => request \in Requests /\ \E c \in Deliveries(request) : Reading(c)
    /\ at # "sent" => receiver = NotYet
    /\ RequestsAreReadAsSent

\* What is sent, and how much of it comes.
LEMMA SentType ==
    ASSUME NEW c, IsDelivery(c)
    PROVE  /\ SentBytes(c) \in Seq(Bytes) /\ Len(SentBytes(c)) \in Nat /\ c.body \in Nat
           /\ Len(SentBytes(c)) = HeadLength(c) + c.body /\ HeadLength(c) \in Nat
           /\ c.arrive \in Nat /\ c.arrive <= Len(SentBytes(c))
  <1> DEFINE w == SentBytes(c)
             a == Len(SentHead(c))
             p == Crlf(c.eol)
             q == Crlf(c.blank)
  <1>1. Layout(w, a, p, q, c.body)
    BY BytesSent DEF Placed
  <1>2. w \in Seq(Bytes) /\ a \in Nat /\ c.body \in Nat /\ Len(w) = BlankEnd(a, p, q) + c.body
    BY <1>1 DEF Layout
  <1>3. BlankEnd(a, p, q) = HeadLength(c)
    BY DEF HeadLength
  <1>4. HeadLength(c) = a + (IF p THEN 2 ELSE 1) + (IF q THEN 2 ELSE 1)
    BY DEF HeadLength, BlankEnd, EolEnd
  <1>5. c.arrive \in 0 .. Len(w)
    BY DEF IsDelivery
  <1> HIDE DEF w, a, p, q
  <1>6. HeadLength(c) \in Nat
    BY <1>2, <1>4
  <1>7. Len(w) \in Nat
    BY <1>2, LenProperties
  <1> QED BY <1>2, <1>3, <1>5, <1>6, <1>7 DEF w

\* A read moves the cut, or there was nothing left to come.
LEMMA ReadsOn ==
    ASSUME NEW w \in Seq(Bytes), NEW from \in Nat, NEW b \in Nat, b <= Len(w), NEW m \in from .. b,
           buffer = Slice(w, from, m), incoming = Slice(w, m, b), Reads
    PROVE  \/ /\ receiver' = receiver
              /\ \E k \in from .. b : buffer' = Slice(w, from, k) /\ incoming' = Slice(w, k, b)
           \/ m = b /\ Unreadable
  <1>1. m \in Nat /\ from <= m /\ m <= b
    OBVIOUS
  <1>2. Len(incoming) = b - m
    <2>1. Len(Slice(w, m, b)) = b - m
      BY SliceAt, <1>1
    <2> QED BY <2>1
  <1>3. CASE incoming = <<>> /\ Unreadable
    <2>1. b - m = 0
      BY <1>2, <1>3
    <2> QED BY <1>1, <1>3, <2>1
  <1>4. ASSUME NEW n \in 1 .. Min({ReadSize, Len(incoming)}),
               buffer' = buffer \o SubSeq(incoming, 1, n),
               incoming' = SubSeq(incoming, n + 1, Len(incoming)), receiver' = receiver
        PROVE  /\ receiver' = receiver
               /\ \E k \in from .. b : buffer' = Slice(w, from, k) /\ incoming' = Slice(w, k, b)
    <2>1. n \in 0 .. b - m
      <3> DEFINE S == {ReadSize, Len(incoming)}
      <3>1. ReadSize \in Nat /\ b - m \in Nat
        BY <1>1, RequestLimits
      <3>2. \E k \in S : \A y \in S : k <= y
        BY <1>2, <3>1
      <3>3. Min(S) \in S /\ \A y \in S : Min(S) <= y
        BY <3>2 DEF Min
      <3>4. Min(S) <= b - m /\ Min(S) \in Nat
        BY <1>2, <3>1, <3>3
      <3>5. n \in 1 .. Min(S)
        OBVIOUS
      <3> HIDE DEF S
      <3> QED BY <3>1, <3>4, <3>5
    <2>2. /\ Slice(w, from, m) \o SubSeq(Slice(w, m, b), 1, n) = Slice(w, from, m + n)
          /\ SubSeq(Slice(w, m, b), n + 1, Len(Slice(w, m, b))) = Slice(w, m + n, b)
      <3>1. Moves(w, from, m, b, n)
        BY SliceMoves, <1>1, <2>1
      <3> QED BY <3>1 DEF Moves
    <2>3. buffer' = Slice(w, from, m + n) /\ incoming' = Slice(w, m + n, b)
      BY <1>4, <2>2
    <2>4. m + n \in from .. b
      BY <1>1, <2>1
    <2> QED BY <1>4, <2>3, <2>4
  <1> QED BY <1>3, <1>4 DEF Reads

\* Where the receiver is after a step.
ToTheBody(c)  == (\E head \in Heads(c) : ReadingBody(c, head)') /\ Cut(c, HeadLength(c))'
GivesUp(c)    == receiver'.at = "unreadable" /\ ~(c.arrive = Len(SentBytes(c)) /\ IsSoundRequest(c))

\* A read while the head is looked for: more is wanted, the head is there, or
\* the request is given up for a reason.
LEMMA HeadIsRead ==
    ASSUME NEW c, IsDelivery(c), receiver = NotYet, Cut(c, 0), ReadHead
    PROVE  \/ receiver' = NotYet /\ Cut(c, 0)'
           \/ ToTheBody(c)
           \/ GivesUp(c)
  <1> DEFINE w == SentBytes(c)
             b == c.arrive
             z == HeadLength(c)
             p == Crlf(c.eol)
             q == Crlf(c.blank)
  <1>1. /\ w \in Seq(Bytes) /\ Len(w) \in Nat /\ z \in Nat /\ c.body \in Nat /\ Len(w) = z + c.body
        /\ b \in Nat /\ b <= Len(w)
    BY SentType
  <1>2. PICK m \in 0 .. b : buffer = Slice(w, 0, m) /\ incoming = Slice(w, m, b)
    BY DEF Cut
  <1>3. m \in Nat /\ m <= Len(w) /\ m <= b /\ 0 <= m
    BY <1>1
  <1>4. Len(buffer) = m
    <2>1. Len(Slice(w, 0, m)) = m - 0
      BY SliceAt, <1>1, <1>3
    <2> QED BY <1>2, <2>1
  <1>5. HeadEnds # {} <=> ((q => p) /\ z <= m)
    <2>1. Layout(w, Len(SentHead(c)), p, q, c.body)
      BY BytesSent DEF Placed
    <2>2. p \in BOOLEAN /\ q \in BOOLEAN
      BY DEF Crlf
    <2>3. z = BlankEnd(Len(SentHead(c)), p, q)
      BY DEF HeadLength
    <2> HIDE DEF w, z, p, q
    <2> QED BY <1>2, <1>3, <2>1, <2>2, <2>3, HeadFound
  <1>6. IsSoundRequest(c) => (q => p) /\ Acceptable(c.lines) /\ z <= MaxReqHead
    BY SoundIsTaken
  <1> HIDE DEF w, b, z, p, q
  <1>7. CASE HeadEnds # {}
    <2> DEFINE end == Min(HeadEnds)
               head == SubSeq(buffer, 1, end)
               blank == CHOOSE x \in BlankFrom(end) : TRUE
    <2>1. /\ head \in Heads(c) /\ LinesOf(head) = c.lines
          /\ end \in Nat /\ Len(blank) \in Nat /\ end + Len(blank) = z /\ z <= m
      BY HeadTaken, <1>2, <1>3, <1>7 DEF Heads, w, z
    <2>2. IF Acceptable(c.lines)
          THEN /\ receiver' = [receiver EXCEPT !.at = "body", !.head = head, !.need = Need(c.lines)]
               /\ buffer' = SubSeq(buffer, end + Len(blank) + 1, Len(buffer))
               /\ UNCHANGED incoming
          ELSE Unreadable
      BY <1>7, <2>1 DEF ReadHead
    <2> HIDE DEF end, head, blank
    <2>3. CASE Acceptable(c.lines)
      <3>1. receiver' = [at |-> "body", head |-> head, need |-> Need(c.lines), body |-> <<>>]
        BY <2>2, <2>3 DEF NotYet
      <3>2. buffer' = SubSeq(Slice(w, 0, m), z + 1, m)
        BY <1>2, <1>4, <2>1, <2>2, <2>3
      <3>3. Slice(Slice(w, 0, m), z, m) = Slice(w, z, m)
        <4>1. 0 + m <= m /\ z <= m /\ 0 + z = z /\ 0 + m = m /\ 0 \in Nat
          BY <1>1, <1>3, <2>1
        <4>2. Slice(Slice(w, 0, m), z, m) = Slice(w, 0 + z, 0 + m)
          BY SliceOfSlice, <1>1, <1>3, <4>1
        <4> QED BY <4>1, <4>2
      <3>4. buffer' = Slice(w, z, m)
        BY <3>2, <3>3 DEF Slice
      <3>5. incoming' = Slice(w, m, b)
        BY <1>2, <2>2, <2>3
      <3>6. m \in z .. b
        BY <1>1, <1>3, <2>1
      <3>7. Cut(c, HeadLength(c))'
        BY <3>4, <3>5, <3>6 DEF Cut, w, b, z
      <3> QED BY <2>1, <3>1, <3>7 DEF ToTheBody, ReadingBody
    <2>4. CASE ~Acceptable(c.lines)
      BY <1>6, <2>2, <2>4 DEF Unreadable, NotYet, GivesUp
    <2> QED BY <2>3, <2>4
  <1>8. CASE HeadEnds = {} /\ Len(buffer) > MaxReqHead /\ Unreadable
    <2>1. ~IsSoundRequest(c)
      BY <1>1, <1>3, <1>4, <1>5, <1>6, <1>8, RequestLimits
    <2> QED BY <1>8, <2>1 DEF Unreadable, NotYet, GivesUp
  <1>9. CASE HeadEnds = {} /\ Reads
    <2>1. 0 \in Nat /\ m \in 0 .. b
      OBVIOUS
    <2>2. \/ /\ receiver' = receiver
             /\ \E k \in 0 .. b : buffer' = Slice(w, 0, k) /\ incoming' = Slice(w, k, b)
          \/ m = b /\ Unreadable
      BY ReadsOn, <1>1, <1>2, <1>9, <2>1
    <2>3. ASSUME m = b PROVE ~(b = Len(w) /\ IsSoundRequest(c))
      BY <1>1, <1>3, <1>5, <1>6, <1>9, <2>3
    <2>4. m = b /\ Unreadable => GivesUp(c)
      BY <2>3 DEF Unreadable, NotYet, GivesUp, b, w
    <2> QED BY <2>2, <2>4 DEF Cut, b, w
  <1> QED BY <1>7, <1>8, <1>9 DEF ReadHead

\* The body is as many bytes as the head says, and they are those of the body.
BodyDone(c) == /\ receiver'.at = "read" /\ receiver'.head \in Heads(c)
               /\ receiver'.body = Data(Need(c.lines))

\* A read of the body: more is wanted, it is there, or it is given up.
LEMMA BodyIsRead ==
    ASSUME NEW c, IsDelivery(c), NEW head \in Heads(c), ReadingBody(c, head),
             Cut(c, HeadLength(c)), ReadBody
    PROVE  \/ ToTheBody(c)
           \/ BodyDone(c)
           \/ GivesUp(c)
  <1> DEFINE w == SentBytes(c)
             b == c.arrive
             z == HeadLength(c)
             n == Need(c.lines)
             d == c.body
  <1>1. /\ w \in Seq(Bytes) /\ Len(w) \in Nat /\ z \in Nat /\ d \in Nat /\ Len(w) = z + d
        /\ b \in Nat /\ b <= Len(w)
    BY SentType
  <1>2. PICK m \in z .. b : buffer = Slice(w, z, m) /\ incoming = Slice(w, m, b)
    BY DEF Cut
  <1>3. m \in Nat /\ m <= Len(w) /\ m <= b /\ z <= m
    BY <1>1
  <1>4. Len(buffer) = m - z
    <2>1. Len(Slice(w, z, m)) = m - z
      BY SliceAt, <1>1, <1>3, ZenonT(40)
    <2> QED BY <1>2, <2>1
  <1>5. n \in Nat
    BY NeedType
  <1>6. IsSoundRequest(c) => n <= d
    BY SoundIsTaken
  <1>7. receiver.need = n
    BY DEF ReadingBody
  <1>8. \A i \in 1 .. d : w[z + i] = Data(d)[i]
    BY BytesSent DEF Placed, HeadLength
  <1> HIDE DEF w, b, z, n, d
  <1>9. CASE Len(buffer) < receiver.need /\ Reads
    <2>1. \/ /\ receiver' = receiver
             /\ \E k \in z .. b : buffer' = Slice(w, z, k) /\ incoming' = Slice(w, k, b)
          \/ m = b /\ Unreadable
      BY ReadsOn, <1>1, <1>2, <1>9
    <2>2. ASSUME m = b PROVE ~(b = Len(w) /\ IsSoundRequest(c))
      BY <1>1, <1>3, <1>4, <1>5, <1>6, <1>7, <1>9, <2>2
    <2>3. m = b /\ Unreadable => GivesUp(c)
      BY <2>2 DEF Unreadable, NotYet, GivesUp, b, w
    <2>4. receiver' = receiver => ReadingBody(c, head)'
      BY DEF ReadingBody
    <2> QED BY <2>1, <2>3, <2>4 DEF ToTheBody, Cut, b, w, z
  <1>10. CASE /\ Len(buffer) >= receiver.need
              /\ receiver' = [receiver EXCEPT !.at = "read",
                   !.body = SubSeq(buffer, 1, receiver.need)]
    <2> DEFINE x == SubSeq(buffer, 1, n)
    <2>1. receiver'.at = "read" /\ receiver'.head = head /\ receiver'.body = x
      BY <1>7, <1>10 DEF ReadingBody
    <2>2. n <= m - z /\ n <= d
      BY <1>1, <1>3, <1>4, <1>5, <1>7, <1>10
    <2>3. buffer \in Seq(Bytes) /\ \A i \in 1 .. m - z : buffer[i] = w[z + i]
      <3>1. Slice(w, z, m) \in Seq(Bytes) /\ \A i \in 1 .. m - z : Slice(w, z, m)[i] = w[z + i]
        BY SliceAt, <1>1, <1>3
      <3> QED BY <1>2, <3>1
    <2>4. x \in Seq(Bytes) /\ Len(x) = n /\ \A i \in 1 .. n : x[i] = buffer[i]
      BY <1>4, <1>5, <2>2, <2>3, PrefixAt
    <2>5. Data(n) \in Seq(Bytes) /\ Len(Data(n)) = n
      BY <1>5, DataAt
    <2> HIDE DEF x
    <2>6. \A i \in 1 .. n : x[i] = Data(n)[i]
      <3> TAKE i \in 1 .. n
      <3>1. i \in 1 .. m - z /\ i \in 1 .. d
        BY <1>1, <1>3, <1>5, <2>2
      <3>2. Data(d)[i] = [kind |-> "data", n |-> i] /\ Data(n)[i] = [kind |-> "data", n |-> i]
        BY <1>1, <1>5, <3>1, DataAt
      <3> QED BY <1>8, <2>3, <2>4, <3>1, <3>2
    <2>7. x = Data(n)
      BY <2>4, <2>5, <2>6, SeqEqual
    <2> QED BY <2>1, <2>7 DEF BodyDone, n
  <1> QED BY <1>9, <1>10 DEF ReadBody

\* At first the whole request is still to be read.
LEMMA RequestInit == Init => RequestInv
  <1> SUFFICES ASSUME Init PROVE RequestInv
    OBVIOUS
  <1>1. PICK c \in Deliveries(request) : Requested(c, c.arrive)
    BY DEF Init
  <1>2. request \in Requests /\ at = "sent" /\ IsDelivery(c)
    BY DeliveryAssumption DEF Init
  <1> DEFINE w == SentBytes(c)
             b == c.arrive
  <1>3. w \in Seq(Bytes) /\ Len(w) \in Nat /\ b \in Nat /\ b <= Len(w)
    BY <1>2, SentType
  <1>4. incoming = SubSeq(w, 1, b) /\ buffer = <<>> /\ receiver = NotYet /\ Asked(c)
    BY <1>1 DEF Requested, Asked
  <1>5. Cut(c, 0)
    <2> HIDE DEF w, b
    <2>1. Slice(w, 0, 0) = <<>>
      <3>1. \A a \in 0 .. Len(w) : Slice(w, a, a) = <<>>
        BY <1>3, SliceEnds
      <3>2. 0 \in 0 .. Len(w)
        BY <1>3
      <3> QED BY <3>1, <3>2
    <2>2. incoming = Slice(w, 0, b)
      BY <1>3, <1>4, SliceEnds
    <2>3. 0 \in 0 .. b
      BY <1>3
    <2>4. \E m \in 0 .. b : buffer = Slice(w, 0, m) /\ incoming = Slice(w, m, b)
      BY <1>4, <2>1, <2>2, <2>3
    <2> QED BY <2>4 DEF Cut, w, b
  <1>6. receiver.at = "head"
    BY <1>4 DEF NotYet
  <1>7. Reading(c)
    BY <1>4, <1>5, <1>6 DEF Reading
  <1> QED BY <1>2, <1>6, <1>7 DEF RequestInv, RequestsAreReadAsSent

\* A step of the receiver.
LEMMA ReceiveStep ==
    ASSUME RequestInv, Receives
    PROVE  RequestInv'
  <1>1. at = "sent" /\ Receive /\ UNCHANGED <<at, request, asked>>
    BY DEF Receives, Receive, wireVars
  <1>2. PICK c \in Deliveries(request) : Reading(c)
    BY <1>1 DEF RequestInv
  <1>3. IsDelivery(c) /\ request \in Requests
    BY <1>1, DeliveryAssumption DEF RequestInv
  <1>4. Asked(c)
    BY <1>2 DEF Reading
  <1>5. Asked(c)'
    BY <1>1, <1>4 DEF Asked
  <1>6. ASSUME Reading(c)', RequestsAreReadAsSent' PROVE RequestInv'
    BY <1>1, <1>3, <1>6 DEF RequestInv
  <1>7. \/ receiver' = NotYet /\ Cut(c, 0)'
        \/ ToTheBody(c)
        \/ BodyDone(c)
        \/ GivesUp(c)
    <2>1. CASE ReadHead
      <3>1. receiver = NotYet /\ Cut(c, 0)
        BY <1>2, <2>1 DEF Reading, ReadHead
      <3> QED BY <1>3, <2>1, <3>1, HeadIsRead
    <2>2. CASE ReadBody
      <3>1. PICK head \in Heads(c) : ReadingBody(c, head)
        BY <1>2, <2>2 DEF Reading, ReadBody
      <3>2. Cut(c, HeadLength(c))
        BY <1>2, <2>2 DEF Reading, ReadBody
      <3> QED BY <1>3, <2>2, <3>1, <3>2, BodyIsRead
    <2> QED BY <1>1, <2>1, <2>2 DEF Receive
  <1>8. CASE receiver' = NotYet /\ Cut(c, 0)'
    <2>1. receiver'.at = "head"
      BY <1>8 DEF NotYet
    <2> QED BY <1>5, <1>6, <1>8, <2>1 DEF Reading, RequestsAreReadAsSent
  <1>9. CASE ToTheBody(c)
    <2>1. receiver'.at = "body"
      BY <1>9 DEF ToTheBody, ReadingBody
    <2> QED BY <1>5, <1>6, <1>9, <2>1 DEF Reading, RequestsAreReadAsSent, ToTheBody
  <1>10. CASE BodyDone(c)
    <2>1. receiver'.at = "read" /\ receiver'.head \in Heads(c)
            /\ receiver'.body = Data(Need(c.lines))
      BY <1>10 DEF BodyDone
    <2>2. asked'.head = SentHead(c) /\ asked'.need = Need(c.lines)
      BY <1>5 DEF Asked
    <2>3. RequestsAreReadAsSent'
      BY <2>1, <2>2 DEF RequestsAreReadAsSent, Heads, Data
    <2> QED BY <1>5, <1>6, <2>1, <2>3 DEF Reading
  <1>11. CASE GivesUp(c)
    <2>1. receiver'.at = "unreadable" /\ ~(c.arrive = Len(SentBytes(c)) /\ IsSoundRequest(c))
      BY <1>11 DEF GivesUp
    <2>2. asked'.whole = (c.arrive = Len(SentBytes(c))) /\ asked'.sound = IsSoundRequest(c)
      BY <1>5 DEF Asked
    <2>3. RequestsAreReadAsSent'
      BY <2>1, <2>2 DEF RequestsAreReadAsSent
    <2> QED BY <1>5, <1>6, <2>1, <2>3 DEF Reading
  <1> QED BY <1>7, <1>8, <1>9, <1>10, <1>11

\* No other step touches what the receiver has, and none but its end ends it.
LEMMA RequestStep == RequestInv /\ [Next]_vars => RequestInv'
  <1> SUFFICES ASSUME RequestInv, [Next]_vars PROVE RequestInv'
    OBVIOUS
  <1>1. CASE Receives
    BY <1>1, ReceiveStep
  <1>2. ASSUME at' # "sent", receiver' = NotYet PROVE RequestInv'
    BY <1>2 DEF RequestInv, RequestsAreReadAsSent, NotYet
  <1>3. CASE Arrives \/ Garbled
    <2>1. at' # "sent" /\ receiver' = NotYet
      BY <1>3 DEF Arrives, Garbled, Received
    <2> QED BY <1>2, <2>1
  <1>4. CASE Refuse \/ Admit \/ Submit \/ Generate \/ ReadsDocument \/ ReadsNoDocument
             \/ Completes \/ Collect \/ Respond
    <2>1. at # "sent" /\ at' # "sent" /\ receiver' = receiver
      BY <1>4 DEF Refuse, Admit, Submit, Generate, ReadsDocument, ReadsNoDocument, Done,
                  Completes, Collect, Respond, receiveVars
    <2>2. receiver = NotYet
      BY <2>1 DEF RequestInv
    <2> QED BY <1>2, <2>1, <2>2
  <1>5. CASE UNCHANGED <<receiveVars, at, request>>
    BY <1>5 DEF receiveVars, RequestInv, RequestsAreReadAsSent, Reading, Asked, Cut, ReadingBody
  <1>6. CASE Read \/ UNCHANGED vars
    BY <1>5, <1>6 DEF Read, wireVars, vars
  <1> QED BY <1>1, <1>3, <1>4, <1>6 DEF Next

\* RequestsAreReadAsSent, for every request that a client may send: however its
\* bytes are spread over the reads, it is read as it was sent, or not at all.
THEOREM RequestsAreRead == Spec => []RequestsAreReadAsSent
  <1>1. RequestInv => RequestsAreReadAsSent
    BY DEF RequestInv
  <1> QED BY <1>1, RequestInit, RequestStep, PTL DEF Spec

-----------------------------------------------------------------------------
(* Pieces one after the other                                               *)

\* f[i] is where the i-th piece ends, when the pieces have the lengths ps.
Totals(f, ps, n) == /\ \A i \in 0 .. n : f[i] \in Nat
                    /\ f[0] = 0 /\ \A i \in 1 .. n : f[i] = f[i - 1] + ps[i]

\* The ends of the pieces are their totals.
LEMMA EndsOf ==
    ASSUME NEW ps, NEW n \in Nat, Len(ps) = n, \A i \in 1 .. n : ps[i] \in Nat
    PROVE  Totals(Ends(ps), ps, n)
  <1> DEFINE step == [i \in 1 .. n |-> [x \in Nat |-> x + ps[i]]]
             Def(f) == f = [i \in 0 .. n |-> IF i = 0 THEN 0 ELSE f[i - 1] + ps[i]]
             e == CHOOSE f : Def(f)
  <1>1. Steps(step, n, Nat)
    BY DEF Steps
  <1>2. PICK g : Loop(g, Nat, 0, n, step)
    <2> HIDE DEF step
    <2> QED BY <1>1, Iterates
  <1>3. /\ g \in [0 .. n -> Nat]
        /\ \A i \in 0 .. n : g[i] = IF i = 0 THEN 0 ELSE g[i - 1] + ps[i]
    <2>1. g \in [0 .. n -> Nat] /\ \A i \in 0 .. n : g[i] = IF i = 0 THEN 0 ELSE step[i][g[i - 1]]
      <3> HIDE DEF step
      <3> QED BY <1>2 DEF Loop
    <2>2. \A i \in 0 .. n : i # 0 => g[i - 1] \in Nat /\ i \in 1 .. n
      <3> HIDE DEF step
      <3> QED BY <2>1
    <2>3. \A i \in 0 .. n : i # 0 => step[i][g[i - 1]] = g[i - 1] + ps[i]
      BY <2>2
    <2> HIDE DEF step
    <2> QED BY <2>1, <2>3
  <1>4. Def(g)
    BY <1>3
  <1>5. Def(e)
    BY <1>4
  <1>6. Ends(ps) = e
    BY DEF Ends
  <1> HIDE DEF e
  <1>7. e[0] = 0
    BY <1>5
  <1>8. \A i \in 1 .. n : e[i] = e[i - 1] + ps[i]
    BY <1>5
  <1>9. \A i \in 0 .. n : e[i] \in Nat
    <2> DEFINE T == {i \in 0 .. n : e[i] \in Nat}
    <2>1. 0 \in T
      BY <1>7
    <2>2. \A i \in 0 + 1 .. n : i - 1 \in T => i \in T
      BY <1>8
    <2> HIDE DEF T
    <2>3. \A i \in 0 .. n : i \in T
      BY <2>1, <2>2, UpTo
    <2> QED BY <2>3 DEF T
  <1> QED BY <1>6, <1>7, <1>8, <1>9 DEF Totals

\* A later piece ends later.
LEMMA TotalsGrow ==
    ASSUME NEW f, NEW ps, NEW n \in Nat, Totals(f, ps, n), \A i \in 1 .. n : ps[i] \in Nat,
           NEW i \in 0 .. n, NEW j \in i .. n
    PROVE  f[i] <= f[j]
  <1> DEFINE T == {k \in 0 .. n : f[i] <= f[k]}
  <1>1. i \in Nat /\ f[i] \in Nat
    BY DEF Totals
  <1>2. i \in T
    BY <1>1
  <1>3. \A k \in i + 1 .. n : k - 1 \in T => k \in T
    <2> TAKE k \in i + 1 .. n
    <2>1. k \in 1 .. n /\ k \in 0 .. n /\ k - 1 \in 0 .. n
      BY <1>1
    <2>2. f[k] = f[k - 1] + ps[k] /\ ps[k] \in Nat /\ f[k - 1] \in Nat /\ f[k] \in Nat
      BY <2>1 DEF Totals
    <2> QED BY <1>1, <2>1, <2>2
  <1> HIDE DEF T
  <1>4. \A k \in i .. n : k \in T
    BY <1>1, <1>2, <1>3, UpTo
  <1> QED BY <1>4 DEF T

\* The sequence x is in w from a place on.
Sits(x, w, p) == p + Len(x) <= Len(w) /\ \A j \in 1 .. Len(x) : w[p + j] = x[j]

\* What is in a part of a sequence is in the sequence.
LEMMA SitsIn ==
    ASSUME NEW S, NEW x \in Seq(S), NEW y \in Seq(S), NEW w \in Seq(S), NEW p \in Nat,
             NEW q \in Nat,
           Sits(y, x, p), Sits(x, w, q)
    PROVE  Sits(y, w, q + p)
  <1>1. Len(x) \in Nat /\ Len(y) \in Nat /\ Len(w) \in Nat
    BY LenProperties
  <1>2. p + Len(y) <= Len(x) /\ q + Len(x) <= Len(w)
    BY DEF Sits
  <1>3. \A j \in 1 .. Len(y) : w[(q + p) + j] = y[j]
    <2> TAKE j \in 1 .. Len(y)
    <2>1. p + j \in 1 .. Len(x) /\ (q + p) + j = q + (p + j)
      BY <1>1, <1>2
    <2> QED BY <2>1 DEF Sits
  <1>4. (q + p) + Len(y) <= Len(w)
    BY <1>1, <1>2
  <1> QED BY <1>3, <1>4 DEF Sits

\* Two sequences sit in their concatenation.
Halves(S, x, s, t) ==
    x \in Seq(S) /\ Len(x) = Len(s) + Len(t) /\ Sits(s, x, 0) /\ Sits(t, x, Len(s))

\* Two halves are where they were joined.
LEMMA SitsSomewhere ==
    ASSUME NEW S, NEW s \in Seq(S), NEW t \in Seq(S)
    PROVE  Halves(S, s \o t, s, t)
  <1> DEFINE x == s \o t
  <1>1. x \in Seq(S) /\ Joined(x, s, Len(s), t, Len(t))
    BY ConcatAt
  <1> HIDE DEF x
  <1>2. Len(s) \in Nat /\ Len(t) \in Nat
    BY LenProperties
  <1>3. Len(x) = Len(s) + Len(t) /\ (\A i \in 1 .. Len(s) : x[i] = s[i])
        /\ \A i \in 1 .. Len(t) : x[Len(s) + i] = t[i]
    BY <1>1 DEF Joined
  <1>4. Halves(S, x, s, t)
    BY <1>1, <1>2, <1>3 DEF Sits, Halves
  <1> QED BY <1>4 DEF x

\* Each piece sits where the one before it ends.
LEMMA PiecesSit ==
    ASSUME NEW S, NEW ss \in Seq(Seq(S)), NEW n, n = Len(ss), NEW ps,
             \A i \in 1 .. n : ps[i] = Len(ss[i]),
           NEW e, Totals(e, ps, n)
    PROVE  /\ FlattenSeq(ss) \in Seq(S) /\ Len(FlattenSeq(ss)) = e[n]
           /\ \A k \in 1 .. n : Sits(ss[k], FlattenSeq(ss), e[k - 1])
  <1>1. PICK f : f \in [0 .. n -> Seq(S)] /\ Flattens(f, ss) /\ FlattenSeq(ss) = f[n]
    BY FlattenOfPieces
  <1>2. n \in Nat
    BY LenProperties
  <1>3. \A i \in 1 .. n : ss[i] \in Seq(S)
    BY LenProperties, ElementOfSeq
  <1>4. \A i \in 1 .. n : ps[i] \in Nat
    BY <1>3, LenProperties
  <1> DEFINE A == Seq(S)
             Good1(k) == Len(f[k]) = e[k] /\ \A i \in 1 .. k : Sits(ss[i], f[k], e[i - 1])
             T == {k \in 0 .. n : Good1(k)}
  <1>5. 0 \in T
    <2>1. f[0] = <<>> /\ e[0] = 0
      BY <1>1 DEF Flattens, Totals
    <2>2. Len(f[0]) = 0
      BY <2>1
    <2>3. Good1(0)
      BY <2>1, <2>2
    <2> QED BY <1>2, <2>3
  <1>6. ASSUME NEW k \in 0 + 1 .. n, k - 1 \in T PROVE k \in T
    <2>1. k \in 1 .. n /\ k \in 0 .. n /\ k - 1 \in 0 .. n
      BY <1>2
    <2>2. f[k - 1] \in Seq(S) /\ ss[k] \in Seq(S)
      BY <1>1, <1>3, <2>1
    <2>3. f[k] = f[k - 1] \o ss[k]
      BY <1>1, <2>1 DEF Flattens
    <2>4. /\ f[k] \in Seq(S) /\ Len(f[k]) = Len(f[k - 1]) + Len(ss[k])
          /\ Sits(f[k - 1], f[k], 0) /\ Sits(ss[k], f[k], Len(f[k - 1]))
      <3>1. Halves(S, f[k - 1] \o ss[k], f[k - 1], ss[k])
        BY <2>2, SitsSomewhere
      <3> QED BY <2>3, <3>1, Zenon DEF Halves
    <2>5. Good1(k - 1)
      BY <1>6
    <2>6. Len(f[k]) = e[k]
      BY <2>1, <2>4, <2>5 DEF Totals
    <2>7. ASSUME NEW i \in 1 .. k PROVE Sits(ss[i], f[k], e[i - 1])
      <3>1. CASE i = k
        BY <2>4, <2>5, <3>1
      <3>2. CASE i # k
        <4>1. i \in 1 .. k - 1 /\ i \in 1 .. n /\ i - 1 \in 0 .. n
          BY <2>1, <3>2
        <4>2. Sits(ss[i], f[k - 1], e[i - 1]) /\ ss[i] \in Seq(S) /\ e[i - 1] \in Nat
          BY <1>3, <2>5, <4>1 DEF Totals
        <4>3. Sits(ss[i], f[k], 0 + e[i - 1])
          BY <2>2, <2>4, <4>2, SitsIn
        <4>4. 0 + e[i - 1] = e[i - 1]
          BY <4>2
        <4> QED BY <4>3, <4>4
      <3> QED BY <3>1, <3>2
    <2> QED BY <2>1, <2>6, <2>7
  <1> HIDE DEF T
  <1>7. n \in T
    <2>1. \A k \in 0 .. n : k \in T
      BY <1>2, <1>5, <1>6, UpTo
    <2> QED BY <1>2, <2>1
  <1>8. Good1(n) /\ f[n] \in Seq(S)
    BY <1>1, <1>2, <1>7 DEF T
  <1> QED BY <1>1, <1>8

-----------------------------------------------------------------------------
(* Where the lines of a response are                                        *)

Kinds  == {"plain", "data", "status", "junk", "transfer-encoding", "content-length", "other",
           "blank", "size"}
Octets == [kind : Kinds, n : Nat]

\* A line of L bytes that says `kind` and n begins after the first p bytes of w.
LineAt(w, p, kind, n, L) ==
    /\ p + L <= Len(w) /\ \A i \in 1 .. L - 1 : ~IsLineEnd(w[p + i])
    /\ w[p + L] = [kind |-> kind, n |-> n]

IsLine(x, kind, n, L) ==
    /\ x \in Seq(Octets) /\ Len(x) = L
    /\ x[L] = [kind |-> kind, n |-> n] /\ \A i \in 1 .. L - 1 : ~IsLineEnd(x[i])

\* A line is bytes of which only the last ends a line.
LEMMA LineType ==
    ASSUME NEW kind \in Kinds, NEW n \in Nat, NEW L \in Nat \ {0}
    PROVE  IsLine(LineOf(kind, n, L), kind, n, L)
  <1> DEFINE b(i) == [kind |-> IF i = L THEN kind ELSE "plain", n |-> IF i = L THEN n ELSE 0]
  <1>1. \A i \in 1 .. L : b(i) \in Octets
    BY DEF Octets, Kinds
  <1>2. b(L) = [kind |-> kind, n |-> n] /\ \A i \in 1 .. L - 1 : b(i).kind = "plain"
    OBVIOUS
  <1>3. LineOf(kind, n, L) = [i \in 1 .. L |-> b(i)]
    BY DEF LineOf
  <1> HIDE DEF b
  <1>4. LineOf(kind, n, L) \in Seq(Octets) /\ Len(LineOf(kind, n, L)) = L
        /\ \A i \in 1 .. L : LineOf(kind, n, L)[i] = b(i)
    BY <1>1, <1>3
  <1> QED BY <1>2, <1>4 DEF IsLineEnd, IsLine

\* A line that was sent at a place is the line at that place.
LEMMA LineSits ==
    ASSUME NEW w, NEW p \in Nat, NEW kind \in Kinds, NEW n \in Nat, NEW L \in Nat \ {0},
           Sits(LineOf(kind, n, L), w, p)
    PROVE  LineAt(w, p, kind, n, L)
  <1> DEFINE x == LineOf(kind, n, L)
  <1>1. Len(x) = L /\ x[L] = [kind |-> kind, n |-> n] /\ \A i \in 1 .. L - 1 : ~IsLineEnd(x[i])
    BY LineType DEF IsLine
  <1> HIDE DEF x
  <1>2. p + L <= Len(w) /\ \A j \in 1 .. L : w[p + j] = x[j]
    BY <1>1 DEF Sits, x
  <1>3. L \in 1 .. L /\ \A i \in 1 .. L - 1 : i \in 1 .. L
    OBVIOUS
  <1>4. w[p + L] = x[L] /\ \A i \in 1 .. L - 1 : w[p + i] = x[i]
    BY <1>2, <1>3
  <1> QED BY <1>1, <1>2, <1>4 DEF LineAt

\* The lines of a head: a status, headers of two bytes each, and a blank line.
HeadLen(hs) == 2 * Len(hs) + 3
HeadAt(w, p, kind, status, hs) ==
    /\ LineAt(w, p, kind, status, 2)
    /\ \A j \in 1 .. Len(hs) : LineAt(w, p + 2 * j, hs[j].kind, hs[j].n, 2)
    /\ LineAt(w, p + (2 * Len(hs) + 2), "blank", 0, 1)

\* What the lines of a head may say.
LEMMA HeadersType ==
    ASSUME NEW hs \in Seq(Header)
    PROVE  /\ Len(hs) \in Nat /\ DOMAIN hs = 1 .. Len(hs)
           /\ \A j \in 1 .. Len(hs) : hs[j] \in Header /\ hs[j].kind \in Kinds /\ hs[j].n \in Nat
  <1>1. Len(hs) \in Nat /\ DOMAIN hs = 1 .. Len(hs)
    BY LenProperties
  <1>2. \A j \in 1 .. Len(hs) : hs[j] \in Header
    BY ElementOfSeq
  <1>3. \A h \in Header : h.kind \in Kinds /\ h.n \in Nat
    BY DEF Header, Kinds
  <1> QED BY <1>1, <1>2, <1>3

\* The lines of a head are where the head is.
LEMMA HeadSits ==
    ASSUME NEW hs \in Seq(Header), NEW kind \in Kinds, NEW status \in Nat
    PROVE  /\ HeadBytes(kind, status, hs) \in Seq(Octets)
                /\ Len(HeadBytes(kind, status, hs)) = HeadLen(hs)
           /\ \A w \in Seq(Octets), p \in Nat :
                  Sits(HeadBytes(kind, status, hs), w, p) => HeadAt(w, p, kind, status, hs)
  <1> DEFINE n == Len(hs)
             line == LineOf(kind, status, 2)
             ss == [i \in DOMAIN hs |-> LineOf(hs[i].kind, hs[i].n, 2)]
             flat == FlattenSeq(ss)
             y == line \o flat
             blank == LineOf("blank", 0, 1)
             x == y \o blank
             e == [i \in 0 .. n |-> 2 * i]
             ps == [i \in 1 .. n |-> 2]
             A == Seq(Octets)
  <1>1. n \in Nat /\ DOMAIN hs = 1 .. n /\ \A j \in 1 .. n : hs[j].kind \in Kinds /\ hs[j].n \in Nat
    BY HeadersType
  <1>2. line \in A /\ Len(line) = 2
    <2>1. IsLine(line, kind, status, 2)
      BY LineType
    <2> QED BY <2>1 DEF IsLine
  <1>3. blank \in A /\ Len(blank) = 1
    <2>1. "blank" \in Kinds
      BY DEF Kinds
    <2>2. IsLine(blank, "blank", 0, 1)
      BY <2>1, LineType
    <2> QED BY <2>2 DEF IsLine
  <1>4. \A j \in 1 .. n : LineOf(hs[j].kind, hs[j].n, 2) \in A
          /\ Len(LineOf(hs[j].kind, hs[j].n, 2)) = 2
    <2>1. \A j \in 1 .. n : IsLine(LineOf(hs[j].kind, hs[j].n, 2), hs[j].kind, hs[j].n, 2)
      BY <1>1, LineType
    <2> QED BY <2>1 DEF IsLine
  <1>5. ss \in Seq(A) /\ Len(ss) = n /\ \A j \in 1 .. n : ss[j] = LineOf(hs[j].kind, hs[j].n, 2)
    <2> DEFINE g(j) == LineOf(hs[j].kind, hs[j].n, 2)
    <2>1. ss = [j \in 1 .. n |-> g(j)] /\ \A j \in 1 .. n : g(j) \in A
      BY <1>1, <1>4
    <2> HIDE DEF n, g, A, ss
    <2>2. ss \in Seq(A) /\ Len(ss) = n /\ \A j \in 1 .. n : ss[j] = g(j)
      BY <1>1, <2>1
    <2> QED BY <2>2 DEF g
  <1>6. Totals(e, ps, n) /\ e[n] = 2 * n /\ \A j \in 1 .. n : e[j - 1] = 2 * (j - 1)
    <2> HIDE DEF n
    <2>1. \A i \in 0 .. n : e[i] = 2 * i /\ e[i] \in Nat
      BY <1>1
    <2>2. \A i \in 1 .. n : ps[i] = 2 /\ i - 1 \in 0 .. n /\ i \in 0 .. n
      BY <1>1
    <2>3. e[0] = 0
      BY <1>1, <2>1
    <2> HIDE DEF e, ps
    <2>4. \A i \in 1 .. n : e[i] = e[i - 1] + ps[i]
      BY <2>1, <2>2
    <2> QED BY <1>1, <2>1, <2>2, <2>3, <2>4 DEF Totals
  <1>7. \A i \in 1 .. n : ps[i] = Len(ss[i])
    BY <1>4, <1>5
  <1>8. n = Len(ss)
    BY <1>5
  <1>9. x = HeadBytes(kind, status, hs)
    BY DEF HeadBytes
  <1> HIDE DEF n, line, ss, blank, e, ps
  <1>10. flat \in A /\ Len(flat) = 2 * n /\ \A k \in 1 .. n : Sits(ss[k], flat, 2 * (k - 1))
    <2>1. flat \in A /\ Len(flat) = e[n] /\ \A k \in 1 .. n : Sits(ss[k], flat, e[k - 1])
      BY <1>5, <1>6, <1>7, <1>8, PiecesSit
    <2> QED BY <1>6, <2>1
  <1> HIDE DEF flat
  <1>11. Halves(Octets, y, line, flat)
    BY <1>2, <1>10, SitsSomewhere
  <1> HIDE DEF y
  <1>12. Halves(Octets, x, y, blank)
    BY <1>3, <1>11, SitsSomewhere DEF Halves
  <1> HIDE DEF x
  <1>13. /\ x \in A /\ y \in A /\ Len(x) = 2 * n + 3 /\ Len(y) = 2 * n + 2
         /\ Sits(line, y, 0) /\ Sits(flat, y, 2) /\ Sits(y, x, 0) /\ Sits(blank, x, 2 * n + 2)
    BY <1>1, <1>2, <1>3, <1>10, <1>11, <1>12 DEF Halves
  <1>14. ASSUME NEW w \in A, NEW p \in Nat, Sits(x, w, p) PROVE HeadAt(w, p, kind, status, hs)
    <2>1. Sits(y, w, p)
      <3>1. Sits(y, w, p + 0) /\ p + 0 = p
        BY <1>13, <1>14, SitsIn
      <3> QED BY <3>1
    <2>2. LineAt(w, p, kind, status, 2)
      <3>1. Sits(line, w, p + 0) /\ p + 0 = p
        BY <1>2, <1>13, <2>1, SitsIn
      <3> QED BY <3>1, LineSits DEF line
    <2>3. Sits(flat, w, p + 2)
      BY <1>10, <1>13, <2>1, SitsIn
    <2>4. LineAt(w, p + (2 * n + 2), "blank", 0, 1)
      <3>1. Sits(blank, w, p + (2 * n + 2)) /\ p + (2 * n + 2) \in Nat
        <4>1. 2 * n + 2 \in Nat
          BY <1>1
        <4> QED BY <1>3, <1>13, <1>14, <4>1, SitsIn
      <3>2. "blank" \in Kinds
        BY DEF Kinds
      <3> QED BY <3>1, <3>2, LineSits DEF blank
    <2>5. ASSUME NEW j \in 1 .. n PROVE LineAt(w, p + 2 * j, hs[j].kind, hs[j].n, 2)
      <3>1. 2 * (j - 1) \in Nat /\ p + 2 \in Nat /\ (p + 2) + 2 * (j - 1) = p + 2 * j
              /\ p + 2 * j \in Nat
        BY <1>1
      <3>2. ss[j] \in A /\ Sits(ss[j], flat, 2 * (j - 1)) /\ ss[j] = LineOf(hs[j].kind, hs[j].n, 2)
        BY <1>4, <1>5, <1>10
      <3>3. Sits(ss[j], w, (p + 2) + 2 * (j - 1))
        <4> DEFINE q == 2 * (j - 1)
                   u == p + 2
        <4>1. q \in Nat /\ u \in Nat /\ Sits(ss[j], flat, q) /\ Sits(flat, w, u)
          BY <2>3, <3>1, <3>2
        <4> HIDE DEF q, u
        <4>2. Sits(ss[j], w, u + q)
          BY <1>10, <1>14, <3>2, <4>1, SitsIn
        <4> QED BY <4>2 DEF q, u
      <3>4. Sits(LineOf(hs[j].kind, hs[j].n, 2), w, p + 2 * j)
        BY <3>1, <3>2, <3>3
      <3> QED BY <1>1, <3>1, <3>4, LineSits
    <2> QED BY <2>2, <2>4, <2>5 DEF HeadAt, n
  <1> QED BY <1>9, <1>13, <1>14 DEF HeadLen, n

\* The heads of a response, the interim ones and the last, and where they begin.
HeadersOf(r, k) == IF k <= Len(r.interim) THEN r.interim[k] ELSE r.headers
StatusOf(r, k)  == IF k <= Len(r.interim) THEN 100 ELSE r.status
KindOf(r, k)    == IF k <= Len(r.interim) THEN "status" ELSE Flawed(r, "status", "status")
LastHead(r)     == Len(r.interim) + 1
HeadLens(r)     == [k \in 1 .. LastHead(r) |-> HeadLen(HeadersOf(r, k))]
HeadEnd(r, k)   == Ends(HeadLens(r))[k]
BodyStart(r)    == HeadEnd(r, LastHead(r))

\* The heads of a response, and that their ends are the totals of their lengths.
LEMMA HeadsType ==
    ASSUME NEW r, IsResponse(r)
    PROVE  /\ Len(r.interim) \in Nat /\ LastHead(r) \in Nat \ {0}
           /\ \A k \in 1 .. LastHead(r) : /\ HeadersOf(r, k) \in Seq(Header) /\ StatusOf(r, k) \in Nat
                                          /\ KindOf(r, k) \in Kinds
           /\ Totals(Ends(HeadLens(r)), HeadLens(r), LastHead(r))
           /\ \A k \in 1 .. LastHead(r) : HeadLens(r)[k] = HeadLen(HeadersOf(r, k))
                /\ HeadLens(r)[k] \in Nat
  <1> DEFINE K == Len(r.interim)
  <1>1. K \in Nat /\ \A k \in 1 .. K : r.interim[k] \in Seq(Header)
    <2>1. r.interim \in Seq(Seq(Header))
      BY DEF IsResponse
    <2> QED BY <2>1, LenProperties, ElementOfSeq
  <1>2. LastHead(r) = K + 1
    BY DEF LastHead
  <1>3. r.headers \in Seq(Header) /\ r.status \in Nat
    BY DEF IsResponse
  <1>4. ASSUME NEW k \in 1 .. LastHead(r)
        PROVE  HeadersOf(r, k) \in Seq(Header) /\ StatusOf(r, k) \in Nat /\ KindOf(r, k) \in Kinds
    <2>1. k <= K => k \in 1 .. K
      BY <1>1, <1>2
    <2>2. HeadersOf(r, k) \in Seq(Header)
      BY <1>1, <1>3, <2>1 DEF HeadersOf
    <2>3. StatusOf(r, k) \in Nat /\ KindOf(r, k) \in Kinds
      BY <1>3 DEF StatusOf, KindOf, Flawed, Kinds
    <2> QED BY <2>2, <2>3
  <1>5. \A k \in 1 .. LastHead(r) : HeadLen(HeadersOf(r, k)) \in Nat
    BY <1>4, LenProperties DEF HeadLen
  <1>6. LastHead(r) \in Nat \ {0}
    BY <1>1, <1>2
  <1>7. \A k \in 1 .. LastHead(r) : HeadLens(r)[k] = HeadLen(HeadersOf(r, k))
          /\ HeadLens(r)[k] \in Nat
    BY <1>5 DEF HeadLens
  <1>8. Len(HeadLens(r)) = LastHead(r)
    BY <1>6 DEF HeadLens
  <1>9. Totals(Ends(HeadLens(r)), HeadLens(r), LastHead(r))
    BY <1>6, <1>7, <1>8, EndsOf
  <1> QED BY <1>1, <1>4, <1>6, <1>7, <1>9

HeadOfBytes(r, k) == HeadBytes(KindOf(r, k), StatusOf(r, k), HeadersOf(r, k))

\* Every head begins where the one before it ends.
LEMMA HeadsSit ==
    ASSUME NEW r, IsResponse(r)
    PROVE  /\ HeadsOf(r) \in Seq(Octets) /\ Len(HeadsOf(r)) = BodyStart(r)
           /\ \A k \in 1 .. LastHead(r) : Sits(HeadOfBytes(r, k), HeadsOf(r), HeadEnd(r, k - 1))
  <1> DEFINE K == Len(r.interim)
             ss == [i \in DOMAIN r.interim |-> HeadBytes("status", 100, r.interim[i])]
             flat == FlattenSeq(ss)
             last == HeadBytes(Flawed(r, "status", "status"), r.status, r.headers)
             x == flat \o last
             e == Ends(HeadLens(r))
             ps == HeadLens(r)
             A == Seq(Octets)
  <1>1. K \in Nat /\ LastHead(r) = K + 1 /\ DOMAIN r.interim = 1 .. K
    <2>1. r.interim \in Seq(Seq(Header))
      BY DEF IsResponse
    <2> QED BY <2>1, LenProperties DEF LastHead
  <1>2. Totals(e, ps, K + 1) /\ \A k \in 1 .. K + 1 : ps[k] = HeadLen(HeadersOf(r, k))
    BY <1>1, HeadsType
  <1>3. ASSUME NEW k \in 1 .. K + 1
        PROVE  HeadOfBytes(r, k) \in A /\ Len(HeadOfBytes(r, k)) = ps[k]
    <2>1. HeadersOf(r, k) \in Seq(Header) /\ StatusOf(r, k) \in Nat /\ KindOf(r, k) \in Kinds
      BY <1>1, HeadsType
    <2> QED BY <1>2, <2>1, HeadSits DEF HeadOfBytes
  <1>4. \A k \in 1 .. K : HeadOfBytes(r, k) = HeadBytes("status", 100, r.interim[k])
    BY <1>1 DEF HeadOfBytes, KindOf, StatusOf, HeadersOf
  <1>5. HeadOfBytes(r, K + 1) = last
    BY <1>1 DEF HeadOfBytes, KindOf, StatusOf, HeadersOf
  <1>6. ss \in Seq(A) /\ Len(ss) = K /\ \A k \in 1 .. K : ss[k] = HeadOfBytes(r, k)
    <2> DEFINE g(j) == HeadOfBytes(r, j)
    <2>1. ss = [j \in 1 .. K |-> g(j)]
      BY <1>1, <1>4
    <2>2. \A j \in 1 .. K : g(j) \in A
      BY <1>1, <1>3
    <2> HIDE DEF K, g, A, ss
    <2>3. ss \in Seq(A) /\ Len(ss) = K /\ \A j \in 1 .. K : ss[j] = g(j)
      BY <1>1, <2>1, <2>2
    <2> QED BY <2>3 DEF g
  <1>7. HeadsOf(r) = x
    BY DEF HeadsOf
  <1>8. BodyStart(r) = e[K + 1] /\ \A k : HeadEnd(r, k) = e[k]
    BY <1>1 DEF BodyStart, HeadEnd
  <1> HIDE DEF K, ss, last, e, ps
  <1>9. Totals(e, ps, K) /\ e[K + 1] = e[K] + ps[K + 1] /\ e[K] \in Nat
    <2>1. \A i \in 0 .. K : i \in 0 .. K + 1
      BY <1>1
    <2>2. \A i \in 1 .. K : i \in 1 .. K + 1
      BY <1>1
    <2>3. K + 1 \in 1 .. K + 1 /\ K \in 0 .. K + 1 /\ (K + 1) - 1 = K
      BY <1>1
    <2> QED BY <1>2, <2>1, <2>2, <2>3 DEF Totals
  <1>10. \A k \in 1 .. K : k \in 1 .. K + 1
    BY <1>1
  <1>11. \A k \in 1 .. K : ps[k] = Len(ss[k])
    BY <1>3, <1>6, <1>10
  <1>12. flat \in A /\ Len(flat) = e[K] /\ \A k \in 1 .. K : Sits(ss[k], flat, e[k - 1])
    <2>1. K = Len(ss)
      BY <1>6
    <2> QED BY <1>6, <1>9, <1>11, <2>1, PiecesSit
  <1>13. last \in A /\ Len(last) = ps[K + 1]
    <2>1. K + 1 \in 1 .. K + 1
      BY <1>1
    <2> QED BY <1>3, <1>5, <2>1
  <1> HIDE DEF flat
  <1>14. Halves(Octets, x, flat, last)
    BY <1>12, <1>13, SitsSomewhere
  <1> HIDE DEF x
  <1>15. x \in A /\ Len(x) = e[K + 1] /\ Sits(flat, x, 0) /\ Sits(last, x, e[K])
    BY <1>9, <1>12, <1>13, <1>14 DEF Halves
  <1>16. ASSUME NEW k \in 1 .. K + 1 PROVE Sits(HeadOfBytes(r, k), x, e[k - 1])
    <2>1. CASE k = K + 1
      <3>1. k - 1 = K
        BY <1>1, <2>1
      <3> QED BY <1>5, <1>15, <2>1, <3>1
    <2>2. CASE k # K + 1
      <3>1. k \in 1 .. K /\ k - 1 \in 0 .. K
        BY <1>1, <2>2
      <3>2. Sits(HeadOfBytes(r, k), flat, e[k - 1]) /\ HeadOfBytes(r, k) \in A /\ e[k - 1] \in Nat
        BY <1>3, <1>6, <1>9, <1>12, <3>1 DEF Totals
      <3>3. Sits(HeadOfBytes(r, k), x, 0 + e[k - 1])
        BY <1>12, <1>15, <3>2, SitsIn
      <3>4. 0 + e[k - 1] = e[k - 1]
        BY <3>2
      <3> QED BY <3>3, <3>4
    <2> QED BY <2>1, <2>2
  <1> QED BY <1>1, <1>7, <1>8, <1>15, <1>16

-----------------------------------------------------------------------------
(* Where the body is                                                        *)

\* A part of the payload, byte by byte.
LEMMA PayloadAt ==
    ASSUME NEW m \in Nat, NEW n \in Nat, m <= n
    PROVE  /\ Payload(m, n) \in Seq(Octets) /\ Len(Payload(m, n)) = n - m
           /\ \A i \in 1 .. n - m : Payload(m, n)[i] = [kind |-> "data", n |-> m + i]
  <1> DEFINE k == n - m
             b(i) == [kind |-> "data", n |-> m + i]
  <1>1. k \in Nat
    OBVIOUS
  <1>2. \A i \in 1 .. k : b(i) \in Octets
    BY DEF Octets, Kinds
  <1>3. Payload(m, n) = [i \in 1 .. k |-> b(i)]
    BY DEF Payload
  <1> HIDE DEF k, b
  <1>4. Payload(m, n) \in Seq(Octets) /\ Len(Payload(m, n)) = k
          /\ \A i \in 1 .. k : Payload(m, n)[i] = b(i)
    BY <1>1, <1>2, <1>3
  <1> QED BY <1>4 DEF k, b

\* A chunk: a line with its size, the piece, and a blank line.
ChunkLens(r)     == [i \in 1 .. Len(r.pieces) |-> r.sizeLine + r.pieces[i] + 1]
ChunkEnd(r, i)   == Ends(ChunkLens(r))[i]
SizeKind(r)      == Flawed(r, "size", "chunk size")
AfterKind(r)     == Flawed(r, "blank", "chunk end")
PieceOf(r, i)    == Payload(Ends(r.pieces)[i - 1], Ends(r.pieces)[i])
ChunkAt(w, p, r, i) ==
    /\ LineAt(w, p, SizeKind(r), r.pieces[i], r.sizeLine)
    /\ Sits(PieceOf(r, i), w, p + r.sizeLine)
    /\ LineAt(w, p + (r.sizeLine + r.pieces[i]), AfterKind(r), 0, 1)

\* The pieces of a response, and where they and their chunks end.
LEMMA PiecesType ==
    ASSUME NEW r, IsResponse(r)
    PROVE  /\ Len(r.pieces) \in Nat /\ r.sizeLine \in Nat \ {0}
           /\ \A i \in 1 .. Len(r.pieces) :
                  r.pieces[i] \in Nat /\ ChunkLens(r)[i] = r.sizeLine + r.pieces[i] + 1
                    /\ ChunkLens(r)[i] \in Nat
           /\ Totals(Ends(r.pieces), r.pieces, Len(r.pieces))
           /\ Totals(Ends(ChunkLens(r)), ChunkLens(r), Len(r.pieces))
           /\ Sum(r.pieces) = Ends(r.pieces)[Len(r.pieces)] /\ Sum(r.pieces) \in Nat
           /\ SizeKind(r) \in {"size", "junk"} /\ AfterKind(r) \in {"blank", "junk"}
  <1> DEFINE n == Len(r.pieces)
  <1>1. n \in Nat /\ r.sizeLine \in Nat \ {0} /\ \A i \in 1 .. n : r.pieces[i] \in Nat
    <2>1. r.pieces \in Seq(Nat) /\ r.sizeLine \in Nat \ {0}
      BY DEF IsResponse
    <2> QED BY <2>1, LenProperties, ElementOfSeq
  <1>2. \A i \in 1 .. n : ChunkLens(r)[i] = r.sizeLine + r.pieces[i] + 1 /\ ChunkLens(r)[i] \in Nat
    BY <1>1 DEF ChunkLens
  <1>3. Len(ChunkLens(r)) = n
    BY <1>1 DEF ChunkLens
  <1> HIDE DEF n
  <1>4. Totals(Ends(ChunkLens(r)), ChunkLens(r), n)
    BY <1>1, <1>2, <1>3, EndsOf
  <1>5. Totals(Ends(r.pieces), r.pieces, n)
    <2>1. Len(r.pieces) = n
      BY DEF n
    <2> QED BY <1>1, <2>1, EndsOf
  <1>6. Sum(r.pieces) = Ends(r.pieces)[n] /\ Ends(r.pieces)[n] \in Nat
    BY <1>1, <1>5 DEF Sum, n, Totals
  <1>7. SizeKind(r) \in {"size", "junk"} /\ AfterKind(r) \in {"blank", "junk"}
    BY DEF SizeKind, AfterKind, Flawed
  <1> QED BY <1>1, <1>2, <1>4, <1>5, <1>6, <1>7 DEF n

\* The size, the piece and the end of a chunk are where the chunk is.
LEMMA ChunkSits ==
    ASSUME NEW r, IsResponse(r), NEW i \in 1 .. Len(r.pieces)
    PROVE  /\ ChunkBytes(r, i) \in Seq(Octets) /\ Len(ChunkBytes(r, i)) = ChunkLens(r)[i]
           /\ \A w \in Seq(Octets), p \in Nat : Sits(ChunkBytes(r, i), w, p) => ChunkAt(w, p, r, i)
  <1> DEFINE t == Ends(r.pieces)
             l == r.sizeLine
             m == r.pieces[i]
             size == LineOf(SizeKind(r), m, l)
             piece == PieceOf(r, i)
             blank == LineOf(AfterKind(r), 0, 1)
             y == size \o piece
             x == y \o blank
             A == Seq(Octets)
  <1>1. /\ l \in Nat \ {0} /\ m \in Nat /\ ChunkLens(r)[i] = l + m + 1
        /\ SizeKind(r) \in Kinds /\ AfterKind(r) \in Kinds
    BY PiecesType DEF Kinds
  <1>2. t[i - 1] \in Nat /\ t[i] = t[i - 1] + m
    <2>1. i - 1 \in 0 .. Len(r.pieces)
      BY PiecesType
    <2> QED BY <2>1, PiecesType DEF Totals
  <1>3. size \in A /\ Len(size) = l
    <2>1. IsLine(size, SizeKind(r), m, l)
      BY <1>1, LineType
    <2> QED BY <2>1 DEF IsLine
  <1>4. blank \in A /\ Len(blank) = 1
    <2>1. IsLine(blank, AfterKind(r), 0, 1)
      BY <1>1, LineType
    <2> QED BY <2>1 DEF IsLine
  <1>5. piece \in A /\ Len(piece) = m
    <2>1. t[i] \in Nat /\ t[i - 1] <= t[i] /\ t[i] - t[i - 1] = m
      BY <1>1, <1>2
    <2>2. Payload(t[i - 1], t[i]) \in A /\ Len(Payload(t[i - 1], t[i])) = t[i] - t[i - 1]
      BY <1>2, <2>1, PayloadAt
    <2> QED BY <2>1, <2>2 DEF PieceOf
  <1>6. ChunkBytes(r, i) = x
    BY <1>2 DEF ChunkBytes, PieceOf, SizeKind, AfterKind
  <1> HIDE DEF t, l, m, size, piece, blank
  <1>7. Halves(Octets, y, size, piece)
    BY <1>3, <1>5, SitsSomewhere
  <1> HIDE DEF y
  <1>8. Halves(Octets, x, y, blank)
    BY <1>4, <1>7, SitsSomewhere DEF Halves
  <1> HIDE DEF x
  <1>9. /\ x \in A /\ y \in A /\ Len(x) = l + m + 1 /\ Len(y) = l + m /\ l + m \in Nat
        /\ Sits(size, y, 0) /\ Sits(piece, y, l) /\ Sits(y, x, 0) /\ Sits(blank, x, l + m)
    BY <1>1, <1>3, <1>4, <1>5, <1>7, <1>8 DEF Halves
  <1>10. ASSUME NEW w \in A, NEW p \in Nat, Sits(x, w, p) PROVE ChunkAt(w, p, r, i)
    <2>1. Sits(y, w, p)
      <3>1. Sits(y, w, p + 0) /\ p + 0 = p
        BY <1>9, <1>10, SitsIn
      <3> QED BY <3>1
    <2>2. LineAt(w, p, SizeKind(r), m, l)
      <3>1. Sits(size, w, p + 0) /\ p + 0 = p
        BY <1>3, <1>9, <2>1, SitsIn
      <3> QED BY <1>1, <3>1, LineSits DEF size
    <2>3. Sits(piece, w, p + l)
      BY <1>1, <1>5, <1>9, <2>1, SitsIn
    <2>4. LineAt(w, p + (l + m), AfterKind(r), 0, 1)
      <3> DEFINE k == l + m
      <3>1. k \in Nat /\ Sits(blank, x, k)
        BY <1>9
      <3> HIDE DEF k
      <3>2. Sits(blank, w, p + k) /\ p + k \in Nat
        BY <1>4, <1>9, <1>10, <3>1, SitsIn
      <3>3. LineAt(w, p + k, AfterKind(r), 0, 1)
        BY <1>1, <3>2, LineSits DEF blank
      <3> QED BY <3>3 DEF k
    <2> QED BY <2>2, <2>3, <2>4 DEF ChunkAt, l, m, piece
  <1> QED BY <1>1, <1>6, <1>9, <1>10

\* A body in chunks, and the empty chunk that ends it.
LEMMA ChunksSit ==
    ASSUME NEW r, IsResponse(r), Framing(r.headers) = "chunked"
    PROVE  /\ BodyBytes(r) \in Seq(Octets)
           /\ \A i \in 1 .. Len(r.pieces) : Sits(ChunkBytes(r, i), BodyBytes(r), ChunkEnd(r, i - 1))
           /\ Sits(LineOf("size", 0, 2), BodyBytes(r), ChunkEnd(r, Len(r.pieces)))
           /\ ChunkEnd(r, Len(r.pieces)) \in Nat
  <1> DEFINE n == Len(r.pieces)
             ss == [i \in DOMAIN r.pieces |-> ChunkBytes(r, i)]
             flat == FlattenSeq(ss)
             zero == LineOf("size", 0, 2)
             blank == LineOf("blank", 0, 1)
             y == flat \o zero
             x == y \o blank
             e == Ends(ChunkLens(r))
             ps == ChunkLens(r)
             A == Seq(Octets)
  <1>1. n \in Nat /\ DOMAIN r.pieces = 1 .. n /\ Totals(e, ps, n)
    <2>1. r.pieces \in Seq(Nat)
      BY DEF IsResponse
    <2> QED BY <2>1, LenProperties, PiecesType
  <1>2. \A i \in 1 .. n : ChunkBytes(r, i) \in A /\ Len(ChunkBytes(r, i)) = ps[i]
    BY ChunkSits
  <1>3. ss \in Seq(A) /\ Len(ss) = n /\ \A i \in 1 .. n : ss[i] = ChunkBytes(r, i)
    <2> DEFINE g(j) == ChunkBytes(r, j)
    <2>1. ss = [j \in 1 .. n |-> g(j)] /\ \A j \in 1 .. n : g(j) \in A
      BY <1>1, <1>2
    <2> HIDE DEF n, g, A, ss
    <2>2. ss \in Seq(A) /\ Len(ss) = n /\ \A j \in 1 .. n : ss[j] = g(j)
      BY <1>1, <2>1
    <2> QED BY <2>2 DEF g
  <1>4. zero \in A /\ Len(zero) = 2
    <2>1. "size" \in Kinds
      BY DEF Kinds
    <2>2. IsLine(zero, "size", 0, 2)
      BY <2>1, LineType
    <2> QED BY <2>2 DEF IsLine
  <1>5. blank \in A
    <2>1. "blank" \in Kinds
      BY DEF Kinds
    <2>2. IsLine(blank, "blank", 0, 1)
      BY <2>1, LineType
    <2> QED BY <2>2 DEF IsLine
  <1>6. BodyBytes(r) = x
    BY DEF BodyBytes
  <1>7. \A i : ChunkEnd(r, i) = e[i]
    BY DEF ChunkEnd
  <1> HIDE DEF n, ss, zero, blank, e, ps
  <1>8. \A i \in 1 .. n : ps[i] = Len(ss[i])
    BY <1>2, <1>3
  <1>9. flat \in A /\ Len(flat) = e[n] /\ \A i \in 1 .. n : Sits(ss[i], flat, e[i - 1])
    <2>1. n = Len(ss)
      BY <1>3
    <2> QED BY <1>1, <1>3, <1>8, <2>1, PiecesSit
  <1>10. \A i \in 0 .. n : e[i] \in Nat
    BY <1>1 DEF Totals
  <1>11. e[n] \in Nat
    BY <1>1, <1>10
  <1> HIDE DEF flat
  <1>12. Halves(Octets, y, flat, zero)
    BY <1>4, <1>9, SitsSomewhere
  <1> HIDE DEF y
  <1>13. Halves(Octets, x, y, blank)
    BY <1>5, <1>12, SitsSomewhere DEF Halves
  <1> HIDE DEF x
  <1>14. /\ x \in A /\ y \in A /\ Sits(flat, y, 0) /\ Sits(zero, y, e[n]) /\ Sits(y, x, 0)
    BY <1>9, <1>12, <1>13 DEF Halves
  <1>15. Sits(zero, x, e[n])
    <2>1. Sits(zero, x, 0 + e[n]) /\ 0 + e[n] = e[n]
      BY <1>4, <1>11, <1>14, SitsIn
    <2> QED BY <2>1
  <1>16. Sits(flat, x, 0)
    <2>1. Sits(flat, x, 0 + 0) /\ 0 + 0 = 0
      BY <1>9, <1>14, SitsIn
    <2> QED BY <2>1
  <1>17. ASSUME NEW i \in 1 .. n PROVE Sits(ChunkBytes(r, i), x, e[i - 1])
    <2>1. i - 1 \in 0 .. n
      BY <1>1
    <2>2. Sits(ss[i], flat, e[i - 1]) /\ ss[i] \in A /\ e[i - 1] \in Nat
      BY <1>2, <1>3, <1>9, <1>10, <2>1
    <2>3. Sits(ss[i], x, 0 + e[i - 1]) /\ 0 + e[i - 1] = e[i - 1]
      BY <1>9, <1>14, <1>16, <2>2, SitsIn
    <2> QED BY <1>3, <2>3
  <1> QED BY <1>6, <1>7, <1>11, <1>14, <1>15, <1>17 DEF n, zero

\* A whole response: its heads, then the chunks of its body, or the body.
ResponseBytes(r) == HeadsOf(r) \o BodyBytes(r)
Laid(w, r) ==
    /\ w \in Seq(Octets) /\ Len(w) \in Nat /\ BodyStart(r) \in Nat /\ BodyStart(r) <= Len(w)
    /\ \A k \in 1 .. LastHead(r) :
           HeadAt(w, HeadEnd(r, k - 1), KindOf(r, k), StatusOf(r, k), HeadersOf(r, k))
    /\ Framing(r.headers) = "chunked" =>
           /\ \A i \in 1 .. Len(r.pieces) : ChunkAt(w, BodyStart(r) + ChunkEnd(r, i - 1), r, i)
           /\ LineAt(w, BodyStart(r) + ChunkEnd(r, Len(r.pieces)), "size", 0, 2)
    /\ Framing(r.headers) # "chunked" =>
           /\ Len(w) = BodyStart(r) + Sum(r.pieces)
           /\ Sits(Payload(0, Sum(r.pieces)), w, BodyStart(r))

\* A response is laid out as it is framed.
LEMMA ResponseLaid ==
    ASSUME NEW r, IsResponse(r)
    PROVE  Laid(ResponseBytes(r), r)
  <1> DEFINE h == HeadsOf(r)
             d == BodyBytes(r)
             w == h \o d
             b == BodyStart(r)
             A == Seq(Octets)
             n == Len(r.pieces)
             K == LastHead(r)
  <1>1. h \in A /\ Len(h) = b /\ \A k \in 1 .. K : Sits(HeadOfBytes(r, k), h, HeadEnd(r, k - 1))
    BY HeadsSit
  <1>2. b \in Nat
    BY <1>1, LenProperties
  <1>3. Framing(r.headers) # "chunked" => d = Payload(0, Sum(r.pieces)) /\ Len(d) = Sum(r.pieces)
    <2>1. Sum(r.pieces) \in Nat /\ 0 <= Sum(r.pieces) /\ Sum(r.pieces) - 0 = Sum(r.pieces)
      BY PiecesType
    <2>2. Len(Payload(0, Sum(r.pieces))) = Sum(r.pieces) - 0
      BY <2>1, PayloadAt
    <2> QED BY <2>1, <2>2 DEF BodyBytes
  <1>4. d \in A
    <2>1. CASE Framing(r.headers) = "chunked"
      BY <2>1, ChunksSit
    <2>2. CASE Framing(r.headers) # "chunked"
      <3>1. Sum(r.pieces) \in Nat /\ 0 <= Sum(r.pieces)
        BY PiecesType
      <3>2. Payload(0, Sum(r.pieces)) \in A
        BY <3>1, PayloadAt
      <3> QED BY <1>3, <2>2, <3>2
    <2> QED BY <2>1, <2>2
  <1>5. \A k \in 1 .. K : HeadEnd(r, k - 1) \in Nat
    <2>1. Totals(Ends(HeadLens(r)), HeadLens(r), K) /\ \A k \in 1 .. K : k - 1 \in 0 .. K
      BY HeadsType
    <2> QED BY <2>1 DEF Totals, HeadEnd
  <1>6. \A k \in 1 .. K : HeadersOf(r, k) \in Seq(Header) /\ StatusOf(r, k) \in Nat
          /\ KindOf(r, k) \in Kinds
    BY HeadsType
  <1>7. ResponseBytes(r) = w
    BY DEF ResponseBytes
  <1>8. Halves(Octets, w, h, d)
    <2> HIDE DEF h, d
    <2> QED BY <1>1, <1>4, SitsSomewhere
  <1>9. Framing(r.headers) = "chunked" =>
            /\ \A i \in 1 .. n : Sits(ChunkBytes(r, i), d, ChunkEnd(r, i - 1))
            /\ Sits(LineOf("size", 0, 2), d, ChunkEnd(r, n)) /\ ChunkEnd(r, n) \in Nat
    BY ChunksSit
  <1> HIDE DEF h, d, w, b, n, K
  <1>10. w \in A /\ Len(w) = b + Len(d) /\ Sits(h, w, 0) /\ Sits(d, w, b) /\ Len(d) \in Nat
           /\ Len(w) \in Nat
    BY <1>1, <1>2, <1>4, <1>8, LenProperties DEF Halves
  <1>11. ASSUME NEW k \in 1 .. K
         PROVE  HeadAt(w, HeadEnd(r, k - 1), KindOf(r, k), StatusOf(r, k), HeadersOf(r, k))
    <2> DEFINE p == HeadEnd(r, k - 1)
               x == HeadOfBytes(r, k)
    <2>1. p \in Nat /\ x \in A /\ Sits(x, h, p)
      BY <1>1, <1>5, <1>6, HeadSits DEF HeadOfBytes
    <2> HIDE DEF p
    <2>2. Sits(x, w, p)
      <3> HIDE DEF x
      <3>1. Sits(x, w, 0 + p) /\ 0 + p = p
        BY <1>1, <1>10, <2>1, SitsIn
      <3> QED BY <3>1
    <2>3. HeadAt(w, p, KindOf(r, k), StatusOf(r, k), HeadersOf(r, k))
      BY <1>6, <1>10, <2>1, <2>2, HeadSits DEF HeadOfBytes
    <2> QED BY <2>3 DEF p
  <1>12. ASSUME NEW i \in 1 .. n, Framing(r.headers) = "chunked"
         PROVE  ChunkAt(w, b + ChunkEnd(r, i - 1), r, i)
    <2> DEFINE p == ChunkEnd(r, i - 1)
               x == ChunkBytes(r, i)
    <2>1. p \in Nat
      <3>1. Totals(Ends(ChunkLens(r)), ChunkLens(r), n) /\ i - 1 \in 0 .. n
        BY PiecesType DEF n
      <3> QED BY <3>1 DEF Totals, ChunkEnd
    <2>2. x \in A /\ \A v \in A, q \in Nat : Sits(x, v, q) => ChunkAt(v, q, r, i)
      BY ChunkSits DEF n
    <2>3. Sits(x, d, p)
      BY <1>9, <1>12
    <2> HIDE DEF p, x
    <2>4. Sits(x, w, b + p) /\ b + p \in Nat
      BY <1>2, <1>4, <1>10, <2>1, <2>2, <2>3, SitsIn
    <2>5. ChunkAt(w, b + p, r, i)
      BY <1>10, <2>2, <2>4
    <2> QED BY <2>5 DEF p
  <1>13. ASSUME Framing(r.headers) = "chunked" PROVE LineAt(w, b + ChunkEnd(r, n), "size", 0, 2)
    <2> DEFINE p == ChunkEnd(r, n)
               x == LineOf("size", 0, 2)
    <2>1. "size" \in Kinds
      BY DEF Kinds
    <2>2. IsLine(x, "size", 0, 2)
      BY <2>1, LineType
    <2>3. x \in A /\ p \in Nat /\ Sits(x, d, p)
      BY <1>9, <1>13, <2>2 DEF IsLine
    <2> HIDE DEF p, x
    <2>4. Sits(x, w, b + p) /\ b + p \in Nat
      BY <1>2, <1>4, <1>10, <2>3, SitsIn
    <2>5. LineAt(w, b + p, "size", 0, 2)
      BY <2>1, <2>4, LineSits DEF x
    <2> QED BY <2>5 DEF p
  <1>14. Framing(r.headers) # "chunked" =>
             Len(w) = b + Sum(r.pieces) /\ Sits(Payload(0, Sum(r.pieces)), w, b)
    BY <1>3, <1>10
  <1>15. b <= Len(w)
    BY <1>2, <1>10
  <1> QED BY <1>2, <1>7, <1>10, <1>11, <1>12, <1>13, <1>14, <1>15 DEF Laid, b, n, K

-----------------------------------------------------------------------------
(* Reading a line, and a block                                              *)

\* What came of w from a place on, up to a, is still to be read.
Ahead(w, a, p) == p \in Nat /\ p <= a /\ stream = Slice(w, p, a)

\* What is ahead, byte by byte.
LEMMA AheadAt ==
    ASSUME NEW w \in Seq(Octets), NEW a \in Nat, a <= Len(w), NEW p, Ahead(w, a, p)
    PROVE  /\ p \in Nat /\ p <= a /\ stream \in Seq(Octets) /\ Len(stream) = a - p
           /\ \A i \in 1 .. a - p : stream[i] = w[p + i]
  <1>1. p \in Nat /\ p <= a /\ stream = Slice(w, p, a)
    BY DEF Ahead
  <1>2. Slice(w, p, a) \in Seq(Octets) /\ Len(Slice(w, p, a)) = a - p
        /\ \A i \in 1 .. a - p : Slice(w, p, a)[i] = w[p + i]
    BY <1>1, SliceAt
  <1> QED BY <1>1, <1>2

\* What is left when n bytes were taken.
LEMMA Taken ==
    ASSUME NEW w \in Seq(Octets), NEW a \in Nat, a <= Len(w), NEW p, Ahead(w, a, p),
           NEW n \in Nat, p + n <= a, stream' = SubSeq(stream, n + 1, Len(stream)), NEW q, q = p + n
    PROVE  Ahead(w, a, q)'
  <1>1. p \in Nat /\ p <= a /\ stream = Slice(w, p, a)
    BY DEF Ahead
  <1>2. Moves(w, p, p, a, n)
    <2>1. n \in 0 .. a - p /\ p <= p
      BY <1>1
    <2> QED BY <1>1, <2>1, SliceMoves
  <1>3. stream' = Slice(w, p + n, a)
    BY <1>1, <1>2 DEF Moves
  <1> QED BY <1>1, <1>3 DEF Ahead

\* read_line finds the line that was sent there, if it came.
LEMMA LineRead ==
    ASSUME NEW w \in Seq(Octets), NEW a \in Nat, a <= Len(w), NEW p, Ahead(w, a, p),
           NEW kind, kind \notin {"plain", "data"}, NEW n, NEW L \in Nat \ {0},
             LineAt(w, p, kind, n, L)
    PROVE  /\ p + L <= a => LineLength = L /\ Line = [kind |-> kind, n |-> n]
           /\ p + L > a => LineLength = 0
  <1> DEFINE ends == {i \in DOMAIN stream : IsLineEnd(stream[i])}
             least(i) == i \in ends /\ \A j \in ends : i <= j
  <1>1. /\ p \in Nat /\ p <= a /\ stream \in Seq(Octets) /\ Len(stream) = a - p
        /\ \A i \in 1 .. a - p : stream[i] = w[p + i]
    BY AheadAt
  <1>2. DOMAIN stream = 1 .. a - p
    BY <1>1, LenProperties
  <1>3. (\A i \in 1 .. L - 1 : ~IsLineEnd(w[p + i])) /\ w[p + L] = [kind |-> kind, n |-> n]
    BY DEF LineAt
  <1>4. IsLineEnd(w[p + L])
    BY <1>3 DEF IsLineEnd
  <1>5. \A i \in ends : i \in 1 .. a - p /\ IsLineEnd(w[p + i])
    BY <1>1, <1>2
  <1>6. \A i \in ends : L <= i
    <2> HIDE DEF ends
    <2> TAKE i \in ends
    <2>1. i \in 1 .. a - p /\ IsLineEnd(w[p + i])
      BY <1>5
    <2>2. i \notin 1 .. L - 1
      BY <1>3, <2>1
    <2> QED BY <1>1, <2>1, <2>2
  <1>7. p + L <= a => L \in ends
    <2> SUFFICES ASSUME p + L <= a PROVE L \in ends
      OBVIOUS
    <2>1. L \in 1 .. a - p
      BY <1>1
    <2>2. IsLineEnd(stream[L])
      BY <1>1, <1>4, <2>1
    <2> QED BY <1>2, <2>1, <2>2
  <1>8. p + L > a => ends = {}
    <2> HIDE DEF ends
    <2> QED BY <1>1, <1>5, <1>6
  <1>9. LineLength = IF ends = {} THEN 0 ELSE CHOOSE i \in ends : \A j \in ends : i <= j
    BY DEF LineLength
  <1>10. \A i \in ends : i \in Nat
    <2> HIDE DEF ends
    <2> QED BY <1>1, <1>5
  <1> HIDE DEF ends
  <1>11. ASSUME p + L <= a PROVE LineLength = L
    <2>1. L \in ends /\ \A j \in ends : L <= j
      BY <1>6, <1>7, <1>11
    <2>2. \A i \in ends : (\A j \in ends : i <= j) => i = L
      BY <1>6, <1>10, <2>1
    <2>3. LineLength = CHOOSE i \in ends : \A j \in ends : i <= j
      BY <1>9, <2>1
    <2> QED BY <2>1, <2>2, <2>3
  <1>12. ASSUME p + L <= a PROVE stream[L] = [kind |-> kind, n |-> n]
    <2>1. L \in 1 .. a - p
      BY <1>1, <1>12
    <2> QED BY <1>1, <1>3, <2>1
  <1>13. p + L <= a => Line = [kind |-> kind, n |-> n]
    BY <1>11, <1>12 DEF Line
  <1> QED BY <1>8, <1>9, <1>11, <1>13

\* A line is got if it came and is within the limit.
LEMMA LineGot ==
    ASSUME NEW w \in Seq(Octets), NEW a \in Nat, a <= Len(w), NEW p, Ahead(w, a, p),
           NEW kind, kind \notin {"plain", "data"}, NEW n, NEW L \in Nat \ {0},
             LineAt(w, p, kind, n, L),
           NEW limit \in Int
    PROVE  /\ GetsLine(limit) => /\ LineLength = L /\ Line = [kind |-> kind, n |-> n]
                                 /\ p + L <= a /\ L <= limit
           /\ ~GetsLine(limit) => a < Len(w) \/ L > limit
  <1>1. p + L <= a => LineLength = L /\ Line = [kind |-> kind, n |-> n]
    BY LineRead
  <1>2. p + L > a => LineLength = 0
    BY LineRead
  <1>3. p \in Nat /\ Len(w) \in Nat /\ p + L <= Len(w)
    BY LenProperties DEF Ahead, LineAt
  <1>4. GetsLine(limit) <=> LineLength \in 1 .. limit
    BY DEF GetsLine
  <1>5. CASE p + L <= a
    BY <1>1, <1>3, <1>4, <1>5
  <1>6. CASE p + L > a
    BY <1>2, <1>3, <1>4, <1>6
  <1> QED BY <1>3, <1>5, <1>6

\* A block that came is what was sent there.
LEMMA BlockRead ==
    ASSUME NEW w \in Seq(Octets), NEW a \in Nat, a <= Len(w), NEW p, Ahead(w, a, p),
           NEW x \in Seq(Octets), Sits(x, w, p), Len(x) <= Len(stream)
    PROVE  SubSeq(stream, 1, Len(x)) = x
  <1> DEFINE n == Len(x)
             y == SubSeq(stream, 1, n)
  <1>1. /\ p \in Nat /\ stream \in Seq(Octets) /\ Len(stream) = a - p
        /\ \A i \in 1 .. a - p : stream[i] = w[p + i]
    BY AheadAt
  <1>2. n \in Nat
    BY LenProperties
  <1>3. y \in Seq(Octets) /\ Len(y) = n /\ \A i \in 1 .. n : y[i] = stream[i]
    BY <1>1, <1>2, PrefixAt
  <1>4. \A i \in 1 .. n : w[p + i] = x[i]
    BY DEF Sits
  <1>5. \A i \in 1 .. n : i \in 1 .. a - p
    BY <1>1, <1>2
  <1> HIDE DEF y
  <1>6. \A i \in 1 .. n : y[i] = x[i]
    BY <1>1, <1>3, <1>4, <1>5
  <1>7. y = x
    BY <1>3, <1>6, SeqEqual
  <1> QED BY <1>7 DEF y

\* Pieces of the payload join.
LEMMA PayloadJoins ==
    ASSUME NEW m \in Nat, NEW n \in Nat, m <= n
    PROVE  Payload(0, m) \o Payload(m, n) = Payload(0, n)
  <1> DEFINE x == Payload(0, m)
             y == Payload(m, n)
             z == Payload(0, n)
             c == x \o y
             d(i) == [kind |-> "data", n |-> i]
  <1>1. 0 \in Nat /\ 0 <= m /\ 0 <= n /\ m - 0 = m /\ n - 0 = n /\ n - m \in Nat /\ m + (n - m) = n
    OBVIOUS
  <1>2. x \in Seq(Octets) /\ Len(x) = m /\ \A i \in 1 .. m : x[i] = d(i)
    <2>1. x \in Seq(Octets) /\ Len(x) = m - 0
            /\ \A i \in 1 .. m - 0 : x[i] = [kind |-> "data", n |-> 0 + i]
      BY <1>1, PayloadAt
    <2> HIDE DEF x
    <2> QED BY <2>1
  <1>3. y \in Seq(Octets) /\ Len(y) = n - m /\ \A i \in 1 .. n - m : y[i] = d(m + i)
    BY PayloadAt
  <1>4. z \in Seq(Octets) /\ Len(z) = n /\ \A i \in 1 .. n : z[i] = d(i)
    <2>1. z \in Seq(Octets) /\ Len(z) = n - 0
            /\ \A i \in 1 .. n - 0 : z[i] = [kind |-> "data", n |-> 0 + i]
      BY <1>1, PayloadAt
    <2> HIDE DEF z
    <2> QED BY <2>1
  <1> HIDE DEF x, y, z, d
  <1>5. Halves(Octets, c, x, y)
    BY <1>2, <1>3, SitsSomewhere
  <1> HIDE DEF c
  <1>6. c \in Seq(Octets) /\ Len(c) = n /\ Sits(x, c, 0) /\ Sits(y, c, m)
    BY <1>2, <1>3, <1>5 DEF Halves
  <1>7. \A i \in 1 .. n : c[i] = z[i]
    <2> TAKE i \in 1 .. n
    <2>1. CASE i <= m
      <3>1. i \in 1 .. m /\ 0 + i = i
        BY <2>1
      <3>2. c[0 + i] = x[i]
        BY <1>2, <1>6, <3>1 DEF Sits
      <3> QED BY <1>2, <1>4, <3>1, <3>2
    <2>2. CASE i > m
      <3> DEFINE j == i - m
      <3>1. j \in 1 .. n - m /\ m + j = i
        BY <2>2
      <3> HIDE DEF j
      <3>2. c[m + j] = y[j]
        BY <1>3, <1>6, <3>1 DEF Sits
      <3> QED BY <1>3, <1>4, <3>1, <3>2
    <2> QED BY <2>1, <2>2
  <1>8. c = z
    BY <1>4, <1>6, <1>7, SeqEqual
  <1> QED BY <1>8 DEF c, x, y, z

-----------------------------------------------------------------------------
(* What the headers say, and what a sound response is                       *)

\* One header more.
LEMMA ChunksSaid ==
    ASSUME NEW hs, NEW j \in Nat
    PROVE  /\ ~SaysChunks(hs, 0) /\ ~SaysLength(hs, 0)
           /\ hs[j + 1].kind # "transfer-encoding" => (SaysChunks(hs, j + 1) <=> SaysChunks(hs, j))
           /\ hs[j + 1] \in Header /\ hs[j + 1].kind = "transfer-encoding" =>
                  (SaysChunks(hs, j + 1) <=> hs[j + 1].n = 1)
           /\ SaysLength(hs, j + 1) <=> SaysLength(hs, j) \/ hs[j + 1].kind = "content-length"
  <1>1. ~SaysChunks(hs, 0) /\ ~SaysLength(hs, 0)
    BY DEF SaysChunks, SaysLength
  <1> DEFINE chunked(i) == hs[i] = [kind |-> "transfer-encoding", n |-> 1]
             other(i) == hs[i].kind # "transfer-encoding"
  <1>2. /\ SaysChunks(hs, j) <=> \E i \in 1 .. j : chunked(i) /\ \A k \in i + 1 .. j : other(k)
        /\ SaysChunks(hs, j + 1) <=>
               \E i \in 1 .. j + 1 : chunked(i) /\ \A k \in i + 1 .. j + 1 : other(k)
    BY DEF SaysChunks
  <1>3. \A i : chunked(i) => ~other(i)
    OBVIOUS
  <1>4. hs[j + 1] \in Header /\ hs[j + 1].kind = "transfer-encoding"
          => (chunked(j + 1) <=> hs[j + 1].n = 1)
    BY DEF Header
  <1>5. hs[j + 1].kind # "transfer-encoding" <=> other(j + 1)
    OBVIOUS
  <1> HIDE DEF chunked, other
  <1>6. ASSUME other(j + 1) PROVE SaysChunks(hs, j + 1) <=> SaysChunks(hs, j)
    <2>1. ASSUME SaysChunks(hs, j) PROVE SaysChunks(hs, j + 1)
      <3>1. PICK i \in 1 .. j : chunked(i) /\ \A k \in i + 1 .. j : other(k)
        BY <1>2, <2>1
      <3>2. \A k \in i + 1 .. j + 1 : other(k)
        BY <1>6, <3>1
      <3>3. i \in 1 .. j + 1
        OBVIOUS
      <3> QED BY <1>2, <3>1, <3>2, <3>3
    <2>2. ASSUME SaysChunks(hs, j + 1) PROVE SaysChunks(hs, j)
      <3>1. PICK i \in 1 .. j + 1 : chunked(i) /\ \A k \in i + 1 .. j + 1 : other(k)
        BY <1>2, <2>2
      <3>2. i # j + 1
        BY <1>3, <1>6, <3>1
      <3>3. i \in 1 .. j /\ \A k \in i + 1 .. j : k \in i + 1 .. j + 1
        BY <3>2
      <3> QED BY <1>2, <3>1, <3>3
    <2> QED BY <2>1, <2>2
  <1>7. ASSUME ~other(j + 1) PROVE SaysChunks(hs, j + 1) <=> chunked(j + 1)
    <2>1. ASSUME chunked(j + 1) PROVE SaysChunks(hs, j + 1)
      <3>1. j + 1 \in 1 .. j + 1 /\ \A k \in (j + 1) + 1 .. j + 1 : FALSE
        OBVIOUS
      <3> QED BY <1>2, <2>1, <3>1
    <2>2. ASSUME SaysChunks(hs, j + 1) PROVE chunked(j + 1)
      <3>1. PICK i \in 1 .. j + 1 : chunked(i) /\ \A k \in i + 1 .. j + 1 : other(k)
        BY <1>2, <2>2
      <3>2. i # j + 1 => j + 1 \in i + 1 .. j + 1
        OBVIOUS
      <3> QED BY <1>7, <3>1, <3>2
    <2> QED BY <2>1, <2>2
  <1>8. SaysLength(hs, j + 1) <=> SaysLength(hs, j) \/ hs[j + 1].kind = "content-length"
    <2> DEFINE said(i) == hs[i].kind = "content-length"
    <2>1. /\ SaysLength(hs, j) <=> \E i \in 1 .. j : said(i)
          /\ SaysLength(hs, j + 1) <=> \E i \in 1 .. j + 1 : said(i)
      BY DEF SaysLength
    <2> HIDE DEF said
    <2>2. \A i \in 1 .. j + 1 : i \in 1 .. j \/ i = j + 1
      OBVIOUS
    <2>3. (\A i \in 1 .. j : i \in 1 .. j + 1) /\ j + 1 \in 1 .. j + 1
      OBVIOUS
    <2>4. SaysLength(hs, j + 1) <=> SaysLength(hs, j) \/ said(j + 1)
      BY <2>1, <2>2, <2>3
    <2> QED BY <2>4 DEF said
  <1> QED BY <1>1, <1>4, <1>5, <1>6, <1>7, <1>8

\* Where a head is, and that it is within the heads.
LEMMA HeadPlace ==
    ASSUME NEW r, IsResponse(r), NEW k \in 1 .. LastHead(r)
    PROVE  /\ HeadEnd(r, k - 1) \in Nat /\ HeadEnd(r, k) \in Nat /\ BodyStart(r) \in Nat
           /\ HeadEnd(r, k) = HeadEnd(r, k - 1) + HeadLen(HeadersOf(r, k))
           /\ HeadEnd(r, k) <= BodyStart(r) /\ HeadEnd(r, 0) = 0
  <1> DEFINE f == Ends(HeadLens(r))
             ps == HeadLens(r)
             n == LastHead(r)
  <1>1. n \in Nat \ {0} /\ Totals(f, ps, n) /\ \A i \in 1 .. n : ps[i] = HeadLen(HeadersOf(r, i))
          /\ ps[i] \in Nat
    BY HeadsType
  <1>2. BodyStart(r) = f[n] /\ \A i : HeadEnd(r, i) = f[i]
    BY DEF BodyStart, HeadEnd
  <1> HIDE DEF f, ps, n
  <1>3. k \in 1 .. n /\ k \in 0 .. n /\ k - 1 \in 0 .. n /\ n \in 0 .. n /\ n \in k .. n
    BY <1>1 DEF n
  <1>4. f[k - 1] \in Nat /\ f[k] \in Nat /\ f[n] \in Nat /\ f[k] = f[k - 1] + ps[k] /\ f[0] = 0
    BY <1>1, <1>3 DEF Totals
  <1>5. f[k] <= f[n]
    BY <1>1, <1>3, TotalsGrow
  <1> QED BY <1>1, <1>2, <1>3, <1>4, <1>5

\* Where a piece and its chunk end, and that it is within the payload.
LEMMA PieceEnds ==
    ASSUME NEW r, IsResponse(r), NEW i \in 1 .. Len(r.pieces)
    PROVE  /\ Ends(r.pieces)[i - 1] \in Nat /\ Ends(r.pieces)[i] \in Nat /\ r.pieces[i] \in Nat
           /\ Ends(r.pieces)[i] = Ends(r.pieces)[i - 1] + r.pieces[i]
           /\ Ends(r.pieces)[i] <= Sum(r.pieces)
           /\ ChunkEnd(r, i - 1) \in Nat
                /\ ChunkEnd(r, i) = ChunkEnd(r, i - 1) + (r.sizeLine + r.pieces[i] + 1)
  <1> DEFINE f == Ends(r.pieces)
             ps == r.pieces
             n == Len(r.pieces)
             g == Ends(ChunkLens(r))
             qs == ChunkLens(r)
  <1>1. /\ n \in Nat /\ Totals(f, ps, n) /\ Totals(g, qs, n) /\ Sum(r.pieces) = f[n]
        /\ \A j \in 1 .. n : ps[j] \in Nat /\ qs[j] = r.sizeLine + ps[j] + 1
    BY PiecesType
  <1>2. \A j : ChunkEnd(r, j) = g[j]
    BY DEF ChunkEnd
  <1> HIDE DEF f, n, g, qs
  <1>3. i \in 1 .. n /\ i \in 0 .. n /\ i - 1 \in 0 .. n /\ n \in i .. n
    BY <1>1 DEF n
  <1>4. f[i - 1] \in Nat /\ f[i] \in Nat /\ f[i] = f[i - 1] + ps[i] /\ g[i - 1] \in Nat
          /\ g[i] = g[i - 1] + qs[i]
    BY <1>1, <1>3 DEF Totals
  <1>5. f[i] <= f[n]
    BY <1>1, <1>3, TotalsGrow
  <1> QED BY <1>1, <1>2, <1>3, <1>4, <1>5 DEF f

\* What the reader finds of a sound response is right and within its limits.
LEMMA SoundLimits ==
    ASSUME NEW r, IsResponse(r), IsSound(r)
    PROVE  /\ BodyStart(r) <= MaxHead /\ Sum(r.pieces) <= MaxBody
           /\ Framing(r.headers) = "chunked" => r.sizeLine <= MaxChunkLine
           /\ \A k \in 1 .. LastHead(r) :
                  /\ KindOf(r, k) = "status"
                  /\ \A j \in 1 .. Len(HeadersOf(r, k)) : HeadersOf(r, k)[j].kind # "junk"
           /\ SizeKind(r) = "size" /\ AfterKind(r) = "blank"
  <1>1. BodyStart(r) <= MaxHead
    BY HeadsSit DEF IsSound
  <1>2. r.flaw = "none" /\ Sum(r.pieces) <= MaxBody
          /\ (Framing(r.headers) = "chunked" => r.sizeLine <= MaxChunkLine)
    BY DEF IsSound
  <1>3. SizeKind(r) = "size" /\ AfterKind(r) = "blank"
    BY <1>2 DEF SizeKind, AfterKind, Flawed
  <1>4. \A k : KindOf(r, k) = "status"
    BY <1>2 DEF KindOf, Flawed
  <1>5. ASSUME NEW k \in 1 .. LastHead(r), NEW j \in 1 .. Len(HeadersOf(r, k))
        PROVE  HeadersOf(r, k)[j].kind # "junk"
    <2>1. Len(r.interim) \in Nat /\ DOMAIN r.interim = 1 .. Len(r.interim)
      <3>1. r.interim \in Seq(Seq(Header))
        BY DEF IsResponse
      <3> QED BY <3>1, LenProperties
    <2>2. Readable(HeadersOf(r, k))
      <3>1. k <= Len(r.interim) => k \in DOMAIN r.interim
        BY <2>1 DEF LastHead
      <3> QED BY <3>1 DEF IsSound, HeadersOf
    <2>3. HeadersOf(r, k) \in Seq(Header)
      BY HeadsType
    <2>4. j \in DOMAIN HeadersOf(r, k)
      BY <2>3, HeadersType
    <2> QED BY <2>2, <2>4 DEF Readable
  <1> QED BY <1>1, <1>2, <1>3, <1>4, <1>5

-----------------------------------------------------------------------------
(* A response that comes in pieces                                          *)

\* What the client sent, and what the worker has of it: the reader is between
\* two lines or blocks of the response r, of which the first a bytes come.
Places == {"status", "header", "exact", "rest", "size", "chunk", "after", "read", "failed"}
Readers == [at : Places, budget : Int, status : Nat, chunked : BOOLEAN, length : Int,
            body : Seq(Octets), reason : {"", "timeout", "upstream_error"}]
ReaderType ==
    /\ reader \in Readers
    /\ ending \in {"close", "silence"}
ReaderAt(r, a, p) == Ahead(ResponseBytes(r), a, p)
LengthSaid(hs, j) ==
    IF SaysLength(hs, j)
    THEN \E i \in 1 .. j : hs[i].kind = "content-length" /\ reader.length = hs[i].n
    ELSE reader.length = NoLength

AtStatus(r, a) ==
    /\ reader.at = "status" /\ reader.body = <<>>
    /\ \E k \in 1 .. LastHead(r) :
           ReaderAt(r, a, HeadEnd(r, k - 1)) /\ reader.budget = MaxHead - HeadEnd(r, k - 1)
HeaderPlace(r, k, j) == HeadEnd(r, k - 1) + (2 * j + 2)
InHead(r, a, k, j) ==
    /\ ReaderAt(r, a, HeaderPlace(r, k, j)) /\ reader.budget = MaxHead - HeaderPlace(r, k, j)
    /\ reader.status = StatusOf(r, k) /\ (reader.chunked = TRUE <=> SaysChunks(HeadersOf(r, k), j))
    /\ LengthSaid(HeadersOf(r, k), j)
AtHeader(r, a) ==
    /\ reader.at = "header" /\ reader.body = <<>>
    /\ \E k \in 1 .. LastHead(r) : \E j \in 0 .. Len(HeadersOf(r, k)) : InHead(r, a, k, j)
AtExact(r, a) ==
    /\ reader.at = "exact" /\ reader.body = <<>> /\ reader.status = r.status
    /\ Framing(r.headers) = "length" /\ reader.length = Sum(r.pieces)
         /\ ReaderAt(r, a, BodyStart(r))
AtRest(r, a) ==
    /\ reader.at = "rest" /\ reader.body = <<>> /\ reader.status = r.status
    /\ Framing(r.headers) = "close" /\ ReaderAt(r, a, BodyStart(r))
ChunkPlace(r, i) == BodyStart(r) + ChunkEnd(r, i - 1)
AtSize(r, a) ==
    /\ reader.at = "size" /\ reader.status = r.status /\ Framing(r.headers) = "chunked"
    /\ \E i \in 1 .. Len(r.pieces) + 1 :
           ReaderAt(r, a, ChunkPlace(r, i)) /\ reader.body = Payload(0, Ends(r.pieces)[i - 1])
AtChunk(r, a) ==
    /\ reader.at = "chunk" /\ reader.status = r.status /\ Framing(r.headers) = "chunked"
    /\ \E i \in 1 .. Len(r.pieces) :
           /\ ReaderAt(r, a, ChunkPlace(r, i) + r.sizeLine)
           /\ reader.body = Payload(0, Ends(r.pieces)[i - 1]) /\ reader.length = r.pieces[i]
AtAfter(r, a) ==
    /\ reader.at = "after" /\ reader.status = r.status /\ Framing(r.headers) = "chunked"
    /\ \E i \in 1 .. Len(r.pieces) :
           /\ ReaderAt(r, a, ChunkPlace(r, i) + (r.sizeLine + r.pieces[i]))
           /\ reader.body = Payload(0, Ends(r.pieces)[i])
HasRead(r, a) ==
    /\ reader.at = "read" /\ reader.status = r.status /\ reader.body = Payload(0, Len(reader.body))
    /\ Len(reader.body) <= Sum(r.pieces)
    /\ \/ Len(reader.body) = Sum(r.pieces)
       \/ Framing(r.headers) = "close" /\ a # Len(ResponseBytes(r)) /\ ending = "close"
HasFailed(r, a) ==
    /\ reader.at = "failed"
    /\ \/ a # Len(ResponseBytes(r)) \/ ~IsSound(r)
       \/ Framing(r.headers) = "close" /\ ending = "silence"
ReaderIs(r, a) ==
    \/ AtStatus(r, a) \/ AtHeader(r, a) \/ AtExact(r, a) \/ AtRest(r, a) \/ AtSize(r, a)
    \/ AtChunk(r, a) \/ AtAfter(r, a) \/ HasRead(r, a) \/ HasFailed(r, a)
SentAs(r, a) ==
    sent = [status |-> r.status, n |-> Sum(r.pieces), framing |-> Framing(r.headers),
            whole |-> a = Len(ResponseBytes(r)), sound |-> IsSound(r)]
ResponseInv ==
    /\ ReaderType
    /\ at = "generating" =>
           \E r \in Responses : \E a \in 0 .. Len(ResponseBytes(r)) : SentAs(r, a) /\ ReaderIs(r, a)
    /\ at # "generating" => reader = Unread

\* A response, and how much of it comes.
Comes(r, a) == IsResponse(r) /\ a \in Nat /\ a <= Len(ResponseBytes(r))

\* What comes is a part of a response that is laid out so.
LEMMA ComesLaid ==
    ASSUME NEW r, NEW a, Comes(r, a)
    PROVE  /\ Laid(ResponseBytes(r), r) /\ ResponseBytes(r) \in Seq(Octets)
                /\ Len(ResponseBytes(r)) \in Nat
           /\ a \in Nat /\ a <= Len(ResponseBytes(r)) /\ IsResponse(r)
  <1>1. IsResponse(r) /\ a \in Nat /\ a <= Len(ResponseBytes(r))
    BY DEF Comes
  <1>2. Laid(ResponseBytes(r), r)
    BY <1>1, ResponseLaid
  <1> QED BY <1>1, <1>2 DEF Laid

\* A failure for which there is a reason.
LEMMA FailsFor ==
    ASSUME NEW r, NEW a, NEW reason, Fails(reason), ReaderType,
           a # Len(ResponseBytes(r)) \/ ~IsSound(r)
             \/ (Framing(r.headers) = "close" /\ ending = "silence"),
           ending' = ending
    PROVE  ReaderIs(r, a)'
  <1>1. reader'.at = "failed"
    BY DEF Fails, Becomes, ReaderType, Readers
  <1> QED BY <1>1 DEF ReaderIs, HasFailed

\* There is none to fail if a line is there and within a limit that it keeps.
LEMMA NoLineFor ==
    ASSUME NEW r, NEW a, Comes(r, a), NEW p, ReaderAt(r, a, p), ReaderType, ending' = ending,
           NEW kind, kind \notin {"plain", "data"}, NEW n, NEW L \in Nat \ {0},
           LineAt(ResponseBytes(r), p, kind, n, L), NEW limit \in Int, NoLine(limit),
           L > limit => ~IsSound(r)
    PROVE  ReaderIs(r, a)'
  <1>1. a < Len(ResponseBytes(r)) \/ L > limit
    BY ComesLaid, LineGot DEF NoLine, ReaderAt
  <1>2. a # Len(ResponseBytes(r)) \/ ~IsSound(r)
    BY <1>1, ComesLaid
  <1>3. CASE Fails("upstream_error")
    BY <1>2, <1>3, FailsFor
  <1>4. CASE Fails("timeout")
    BY <1>2, <1>4, FailsFor
  <1> QED BY <1>3, <1>4 DEF NoLine, RunsDry

\* The line that is got.
LEMMA LineFor ==
    ASSUME NEW r, NEW a, Comes(r, a), NEW p, ReaderAt(r, a, p),
           NEW kind, kind \notin {"plain", "data"}, NEW n, NEW L \in Nat \ {0},
           LineAt(ResponseBytes(r), p, kind, n, L), NEW limit \in Int, GetsLine(limit)
    PROVE  /\ LineLength = L /\ Line.kind = kind /\ Line.n = n /\ p \in Nat /\ p + L <= a
  <1>1. LineLength = L /\ Line = [kind |-> kind, n |-> n] /\ p + L <= a
    BY ComesLaid, LineGot DEF ReaderAt
  <1> QED BY <1>1 DEF ReaderAt, Ahead

\* What is ahead after it.
LEMMA AheadFor ==
    ASSUME NEW r, NEW a, Comes(r, a), NEW p, ReaderAt(r, a, p), NEW n \in Nat, p + n <= a,
           NEW new, Becomes(new, n), NEW q, q = p + n
    PROVE  ReaderAt(r, a, q)' /\ reader' = new
  <1> DEFINE w == ResponseBytes(r)
  <1>1. w \in Seq(Octets) /\ a \in Nat /\ a <= Len(w)
    BY ComesLaid
  <1>2. stream' = SubSeq(stream, n + 1, Len(stream)) /\ reader' = new
    BY DEF Becomes
  <1>3. Ahead(w, a, p)
    BY DEF ReaderAt
  <1> HIDE DEF w
  <1>4. Ahead(w, a, q)'
    BY <1>1, <1>2, <1>3, Taken
  <1> QED BY <1>2, <1>4 DEF ReaderAt, w

\* A status line is read: its headers follow.
LEMMA StatusStep ==
    ASSUME NEW r, NEW a, Comes(r, a), ReaderType, AtStatus(r, a), StatusLine, ending' = ending
    PROVE  ReaderIs(r, a)'
  <1> DEFINE w == ResponseBytes(r)
  <1>1. PICK k \in 1 .. LastHead(r) :
            ReaderAt(r, a, HeadEnd(r, k - 1)) /\ reader.budget = MaxHead - HeadEnd(r, k - 1)
    BY DEF AtStatus
  <1> DEFINE p == HeadEnd(r, k - 1)
             hs == HeadersOf(r, k)
  <1>2. /\ p \in Nat /\ HeadEnd(r, k) = p + HeadLen(hs) /\ HeadEnd(r, k) \in Nat
        /\ HeadEnd(r, k) <= BodyStart(r) /\ BodyStart(r) \in Nat
    BY ComesLaid, HeadPlace
  <1>3. Len(hs) \in Nat /\ StatusOf(r, k) \in Nat /\ KindOf(r, k) \in {"status", "junk"}
    <2>1. hs \in Seq(Header)
      BY ComesLaid, HeadsType
    <2>2. KindOf(r, k) \in {"status", "junk"}
      BY DEF KindOf, Flawed
    <2> QED BY <2>1, <2>2, ComesLaid, HeadsType, LenProperties
  <1>4. LineAt(w, p, KindOf(r, k), StatusOf(r, k), 2)
    BY ComesLaid DEF Laid, HeadAt
  <1>5. reader.budget \in Int
    BY DEF ReaderType, Readers
  <1>6. 2 > reader.budget => ~IsSound(r)
    BY <1>1, <1>2, <1>3, ComesLaid, SoundLimits, LimitAssumption DEF HeadLen
  <1>7. CASE NoLine(reader.budget)
    BY <1>1, <1>3, <1>4, <1>5, <1>6, <1>7, NoLineFor
  <1>8. CASE GetsLine(reader.budget)
    <2>1. LineLength = 2 /\ Line.kind = KindOf(r, k) /\ Line.n = StatusOf(r, k) /\ p + 2 <= a
      BY <1>1, <1>3, <1>4, <1>5, <1>8, LineFor
    <2>2. CASE Line.kind = "status"
      <3> DEFINE new == [NewHead(Line.n) EXCEPT !.budget = @ - LineLength]
                 q == HeaderPlace(r, k, 0)
      <3>1. q = p + 2
        BY <1>2 DEF HeaderPlace
      <3>2. Becomes(new, 2)
        BY <1>8, <2>1, <2>2, <1>5, <1>6 DEF StatusLine, NoLine, Fails
      <3> HIDE DEF new, q, p
      <3>3. ReaderAt(r, a, q)' /\ reader' = new
        BY <1>1, <2>1, <3>1, <3>2, AheadFor DEF p
      <3>4. /\ new.at = "header" /\ new.budget = reader.budget - 2 /\ new.body = reader.body
            /\ new.status = StatusOf(r, k) /\ new.chunked = FALSE /\ new.length = NoLength
        BY <2>1 DEF new, NewHead, ReaderType, Readers
      <3>5. ~SaysChunks(hs, 0) /\ ~SaysLength(hs, 0)
        BY ChunksSaid
      <3>6. LengthSaid(hs, 0)'
        BY <3>3, <3>4, <3>5 DEF LengthSaid
      <3>7. new.budget = MaxHead - q
        BY <1>1, <1>2, <3>1, <3>4, LimitAssumption DEF p
      <3>8. InHead(r, a, k, 0)'
        <4>1. reader'.budget = MaxHead - HeaderPlace(r, k, 0) /\ reader'.status = StatusOf(r, k)
          BY <3>3, <3>4, <3>7 DEF q
        <4>2. ~(reader'.chunked = TRUE)
          BY <3>3, <3>4
        <4>3. ReaderAt(r, a, HeaderPlace(r, k, 0))'
          BY <3>3 DEF q
        <4> QED BY <3>5, <3>6, <4>1, <4>2, <4>3 DEF InHead
      <3>9. 0 \in 0 .. Len(hs)
        BY <1>3
      <3>10. AtHeader(r, a)'
        BY <3>3, <3>4, <3>8, <3>9 DEF AtHeader, AtStatus
      <3> QED BY <3>10 DEF ReaderIs
    <2>3. CASE Line.kind # "status"
      <3>1. Fails("upstream_error")
        BY <1>8, <2>3 DEF StatusLine, NoLine
      <3>2. ~IsSound(r)
        BY <2>1, <2>3, ComesLaid, SoundLimits
      <3> QED BY <3>1, <3>2, FailsFor
    <2> QED BY <2>2, <2>3
  <1> QED BY <1>7, <1>8 DEF StatusLine

\* What the headers said of the length, with one header more.
LEMMA LengthKept ==
    ASSUME NEW hs, NEW j \in Nat, LengthSaid(hs, j), hs[j + 1].kind # "content-length",
           reader'.length = reader.length
    PROVE  LengthSaid(hs, j + 1)'
  <1> DEFINE n == j + 1
             said == \E i \in 1 .. j : hs[i].kind = "content-length" /\ reader.length = hs[i].n
             saidNow == \E i \in 1 .. n : hs[i].kind = "content-length" /\ reader'.length = hs[i].n
  <1>1. SaysLength(hs, n) <=> SaysLength(hs, j)
    BY ChunksSaid
  <1>2. 1 .. j \subseteq 1 .. n
    OBVIOUS
  <1>3. said => saidNow
    BY <1>2
  <1>4. IF SaysLength(hs, j) THEN said ELSE reader.length = NoLength
    BY DEF LengthSaid
  <1> HIDE DEF said, saidNow
  <1>5. IF SaysLength(hs, n) THEN saidNow ELSE reader'.length = NoLength
    BY <1>1, <1>3, <1>4
  <1> QED BY <1>5 DEF LengthSaid, saidNow

\* A header that states the length is the last word on it.
LEMMA LengthTold ==
    ASSUME NEW hs, NEW j \in Nat, hs[j + 1].kind = "content-length", reader'.length = hs[j + 1].n
    PROVE  LengthSaid(hs, j + 1)'
  <1>1. SaysLength(hs, j + 1)
    BY ChunksSaid
  <1>2. j + 1 \in 1 .. j + 1
    OBVIOUS
  <1> QED BY <1>1, <1>2 DEF LengthSaid

\* A header that is not the last line of its head.
LEMMA HeaderStep1 ==
    ASSUME NEW r, NEW a, Comes(r, a), ReaderType, reader.at = "header", reader.body = <<>>,
           NEW k \in 1 .. LastHead(r), NEW j \in Nat, j < Len(HeadersOf(r, k)), InHead(r, a, k, j),
           HeaderLine, ending' = ending
    PROVE  ReaderIs(r, a)'
  <1> DEFINE w == ResponseBytes(r)
             h == HeadEnd(r, k - 1)
             hs == HeadersOf(r, k)
             m == j + 1
             p == HeaderPlace(r, k, j)
             q == HeaderPlace(r, k, m)
             kind == hs[m].kind
             n == hs[m].n
             read == [reader EXCEPT !.budget = @ - LineLength]
  <1>1. /\ h \in Nat /\ HeadEnd(r, k) = h + HeadLen(hs) /\ HeadEnd(r, k) \in Nat
        /\ HeadEnd(r, k) <= BodyStart(r) /\ BodyStart(r) \in Nat
    BY ComesLaid, HeadPlace
  <1>2. hs \in Seq(Header)
    BY ComesLaid, HeadsType
  <1>3. Len(hs) \in Nat /\ m \in 1 .. Len(hs)
    BY <1>2, LenProperties
  <1>4. hs[m] \in Header /\ kind \in {"transfer-encoding", "content-length", "other", "junk"}
          /\ n \in Nat
    BY <1>2, <1>3, HeadersType DEF Header
  <1>5. p = h + 2 * m /\ q = p + 2 /\ p \in Nat /\ p + 2 <= BodyStart(r)
    BY <1>1, <1>3 DEF HeaderPlace, HeadLen
  <1>6. LineAt(w, h + 2 * m, kind, n, 2)
    BY <1>3, ComesLaid DEF Laid, HeadAt
  <1>7. LineAt(w, p, kind, n, 2)
    BY <1>5, <1>6
  <1>8. /\ ReaderAt(r, a, p) /\ reader.budget = MaxHead - p /\ reader.status = StatusOf(r, k)
        /\ (reader.chunked = TRUE <=> SaysChunks(hs, j)) /\ LengthSaid(hs, j)
    BY DEF InHead
  <1>9. reader.budget \in Int /\ MaxHead \in Nat
    BY LimitAssumption DEF ReaderType, Readers
  <1>10. 2 > reader.budget => ~IsSound(r)
    <2>1. IsSound(r) => BodyStart(r) <= MaxHead
      BY ComesLaid, SoundLimits
    <2> QED BY <1>1, <1>5, <1>8, <1>9, <2>1, SMTT(30)
  <1> HIDE DEF p, kind, n, w
  <1>11. CASE NoLine(reader.budget)
    BY <1>4, <1>7, <1>8, <1>9, <1>10, <1>11, NoLineFor DEF w
  <1>12. CASE GetsLine(reader.budget)
    <2>1. LineLength = 2 /\ Line.kind = kind /\ Line.n = n /\ p + 2 <= a
      BY <1>4, <1>7, <1>8, <1>9, <1>12, LineFor DEF w
    <2>2. ASSUME NEW new, Becomes(new, 2), new.at = "header", new.body = <<>>,
                 new.budget = reader.budget - 2, new.status = reader.status,
                 new.chunked = TRUE <=> SaysChunks(hs, m),
                 \/ kind # "content-length" /\ new.length = reader.length
                 \/ kind = "content-length" /\ new.length = n
          PROVE  ReaderIs(r, a)'
      <3>1. ReaderAt(r, a, q)' /\ reader' = new
        BY <1>5, <1>8, <2>1, <2>2, AheadFor
      <3>2. LengthSaid(hs, m)'
        BY <1>8, <2>2, <3>1, LengthKept, LengthTold DEF kind, n
      <3>3. reader'.budget = MaxHead - q /\ reader'.status = StatusOf(r, k)
        BY <1>5, <1>8, <1>9, <2>2, <3>1
      <3>4. reader'.chunked = TRUE <=> SaysChunks(hs, m)
        BY <2>2, <3>1
      <3>5. InHead(r, a, k, m)'
        BY <3>1, <3>2, <3>3, <3>4 DEF InHead
      <3>6. m \in 0 .. Len(hs)
        BY <1>3
      <3>7. AtHeader(r, a)'
        BY <2>2, <3>1, <3>5, <3>6 DEF AtHeader
      <3> QED BY <3>7 DEF ReaderIs
    <2>3. /\ read.at = "header" /\ read.body = <<>> /\ read.budget = reader.budget - 2
          /\ read.status = reader.status /\ read.length = reader.length
               /\ read.chunked = reader.chunked
      BY <2>1 DEF ReaderType, Readers
    <2>4. CASE kind = "transfer-encoding"
      <3> DEFINE new == [read EXCEPT !.chunked = (Line.n = 1)]
      <3>1. Becomes(new, 2)
        BY <1>10, <1>12, <2>1, <2>4 DEF HeaderLine, NoLine
      <3>2. /\ new.at = "header" /\ new.body = <<>> /\ new.budget = reader.budget - 2
            /\ new.status = reader.status /\ new.length = reader.length
        BY <2>1 DEF ReaderType, Readers
      <3>3. new.chunked = (Line.n = 1)
        BY DEF ReaderType, Readers
      <3>4. SaysChunks(hs, m) <=> n = 1
        BY <1>4, <2>4, ChunksSaid DEF kind, n
      <3>5. new.chunked = TRUE <=> SaysChunks(hs, m)
        BY <2>1, <3>3, <3>4
      <3> HIDE DEF new
      <3> QED BY <2>2, <2>4, <3>1, <3>2, <3>5
    <2>5. CASE kind = "content-length"
      <3> DEFINE new == [read EXCEPT !.length = Line.n]
      <3>1. Becomes(new, 2)
        BY <1>10, <1>12, <2>1, <2>5 DEF HeaderLine, NoLine
      <3>2. /\ new.at = "header" /\ new.body = <<>> /\ new.budget = reader.budget - 2
            /\ new.status = reader.status /\ new.length = n /\ new.chunked = reader.chunked
        BY <2>1 DEF ReaderType, Readers
      <3>3. SaysChunks(hs, m) <=> SaysChunks(hs, j)
        BY <1>4, <2>5, ChunksSaid DEF kind
      <3>4. new.chunked = TRUE <=> SaysChunks(hs, m)
        BY <1>8, <3>2, <3>3
      <3> HIDE DEF new
      <3> QED BY <2>2, <2>5, <3>1, <3>2, <3>4
    <2>6. CASE kind = "other"
      <3>1. Becomes(read, 2)
        BY <1>10, <1>12, <2>1, <2>6 DEF HeaderLine, NoLine
      <3>2. SaysChunks(hs, m) <=> SaysChunks(hs, j)
        BY <1>4, <2>6, ChunksSaid DEF kind
      <3>3. read.chunked = TRUE <=> SaysChunks(hs, m)
        BY <1>8, <2>3, <3>2
      <3> HIDE DEF read
      <3> QED BY <2>2, <2>3, <2>6, <3>1, <3>3
    <2>7. CASE kind = "junk"
      <3>1. Fails("upstream_error")
        BY <1>12, <2>1, <2>7 DEF HeaderLine, NoLine
      <3>2. ~IsSound(r)
        BY <1>3, <2>7, ComesLaid, SoundLimits DEF kind
      <3> QED BY <3>1, <3>2, FailsFor
    <2> QED BY <1>4, <2>4, <2>5, <2>6, <2>7
  <1> QED BY <1>11, <1>12 DEF HeaderLine

\* The blank line that ends a head.
LEMMA HeaderStep2 ==
    ASSUME NEW r, NEW a, Comes(r, a), ReaderType, reader.at = "header", reader.body = <<>>,
           NEW k \in 1 .. LastHead(r), NEW j \in Nat, j = Len(HeadersOf(r, k)), InHead(r, a, k, j),
           HeaderLine, ending' = ending
    PROVE  ReaderIs(r, a)'
  <1> DEFINE w == ResponseBytes(r)
             h == HeadEnd(r, k - 1)
             hs == HeadersOf(r, k)
             p == HeaderPlace(r, k, j)
             q == HeadEnd(r, k)
             body == BodyStart(r)
             read == [reader EXCEPT !.budget = @ - LineLength]
             new == [read EXCEPT !.at = BodyReader]
  <1>1. h \in Nat /\ q = h + HeadLen(hs) /\ q \in Nat /\ q <= body /\ body \in Nat
    BY ComesLaid, HeadPlace
  <1>2. p = h + (2 * j + 2) /\ q = p + 1 /\ p \in Nat
    BY <1>1 DEF HeaderPlace, HeadLen
  <1>3. LineAt(w, h + (2 * Len(hs) + 2), "blank", 0, 1)
    BY ComesLaid DEF Laid, HeadAt
  <1>4. LineAt(w, p, "blank", 0, 1)
    BY <1>2, <1>3
  <1>5. /\ ReaderAt(r, a, p) /\ reader.budget = MaxHead - p /\ reader.status = StatusOf(r, k)
        /\ (reader.chunked = TRUE <=> SaysChunks(hs, j)) /\ LengthSaid(hs, j)
    BY DEF InHead
  <1>6. reader.budget \in Int /\ MaxHead \in Nat
    BY LimitAssumption DEF ReaderType, Readers
  <1>7. 1 > reader.budget => ~IsSound(r)
    <2>1. IsSound(r) => body <= MaxHead
      BY ComesLaid, SoundLimits
    <2> QED BY <1>1, <1>2, <1>5, <1>6, <2>1
  <1>8. k <= Len(r.interim) => reader.status = 100
    BY <1>5 DEF StatusOf
  <1>9. ~(k <= Len(r.interim)) => /\ reader.status = r.status /\ hs = r.headers /\ k = LastHead(r)
                                  /\ q = body
    <2>1. Len(r.interim) \in Nat
      BY ComesLaid, HeadsType
    <2> QED BY <1>5, <2>1 DEF StatusOf, HeadersOf, LastHead, BodyStart
  <1>10. r.status \in Nat /\ r.status \notin 100 .. 199
    BY ComesLaid DEF IsResponse
  <1> HIDE DEF w, p, q, body
  <1>11. CASE NoLine(reader.budget)
    BY <1>4, <1>5, <1>6, <1>7, <1>11, NoLineFor DEF w
  <1>12. CASE GetsLine(reader.budget)
    <2>1. LineLength = 1 /\ Line.kind = "blank" /\ p + 1 <= a
      BY <1>4, <1>5, <1>6, <1>12, LineFor DEF w
    <2>2. CASE TooLarge
      <3>1. Fails("upstream_error")
        BY <1>12, <2>1, <2>2 DEF HeaderLine, NoLine
      <3>2. /\ ~(reader.status \in 100 .. 199) /\ ~(reader.chunked = TRUE)
            /\ reader.length # NoLength
            /\ reader.length > MaxBody
        BY <2>2 DEF TooLarge, BodyReader, ReaderType, Readers
      <3>3. ~(k <= Len(r.interim))
        <4>1. 100 \in 100 .. 199
          OBVIOUS
        <4> QED BY <1>8, <3>2, <4>1, Zenon
      <3>4. Framing(r.headers) = "length" /\ LengthSaid(r.headers, Len(r.headers))
              /\ j = Len(r.headers)
        BY <1>5, <1>9, <3>2, <3>3 DEF LengthSaid, Framing
      <3>5. \E i \in 1 .. j : r.headers[i].kind = "content-length" /\ reader.length = r.headers[i].n
        BY <3>2, <3>4 DEF LengthSaid
      <3>6. 1 .. j = DOMAIN r.headers
        BY <3>4, ComesLaid DEF IsResponse
      <3>7. reader.length = Sum(r.pieces)
        BY <3>4, <3>5, <3>6, ComesLaid DEF IsResponse
      <3>8. ~IsSound(r)
        <4>1. IsSound(r) => Sum(r.pieces) <= MaxBody
          BY DEF IsSound
        <4>2. Sum(r.pieces) \in Nat /\ MaxBody \in Nat
          BY ComesLaid, PiecesType, LimitAssumption
        <4> QED BY <3>2, <3>7, <4>1, <4>2
      <3> QED BY <3>1, <3>8, FailsFor
    <2>3. CASE ~TooLarge
      <3>1. Becomes(new, 1)
        BY <1>7, <1>12, <2>1, <2>3 DEF HeaderLine, NoLine
      <3>2. /\ new.at = BodyReader /\ new.body = <<>> /\ new.budget = reader.budget - 1
            /\ new.status = reader.status /\ new.length = reader.length
        BY <2>1 DEF ReaderType, Readers
      <3> HIDE DEF new
      <3>3. ReaderAt(r, a, q)' /\ reader' = new
        BY <1>2, <1>5, <2>1, <3>1, AheadFor
      <3>4. CASE k <= Len(r.interim)
        <4> DEFINE m == k + 1
        <4>1. Len(r.interim) \in Nat
          BY ComesLaid, HeadsType
        <4>2. m \in 1 .. LastHead(r) /\ m - 1 = k
          BY <3>4, <4>1 DEF LastHead
        <4>3. HeadEnd(r, m - 1) = q
          BY <4>2 DEF q
        <4>4. reader'.at = "status" /\ reader'.body = <<>>
          BY <1>8, <3>2, <3>3, <3>4 DEF BodyReader
        <4>5. reader'.budget = MaxHead - q
          BY <1>2, <1>5, <1>6, <3>2, <3>3
        <4> HIDE DEF m
        <4>6. ReaderAt(r, a, HeadEnd(r, m - 1))' /\ reader'.budget = MaxHead - HeadEnd(r, m - 1)
          BY <3>3, <4>3, <4>5
        <4>7. AtStatus(r, a)'
          BY <4>2, <4>4, <4>6 DEF AtStatus
        <4> QED BY <4>7 DEF ReaderIs
      <3>5. CASE ~(k <= Len(r.interim))
        <4>1. /\ reader.status = r.status /\ hs = r.headers /\ ~(reader.status \in 100 .. 199)
              /\ j = Len(r.headers) /\ ReaderAt(r, a, body)'
          BY <1>9, <1>10, <3>3, <3>5
        <4>2. (reader.chunked = TRUE <=> SaysChunks(r.headers, Len(r.headers)))
          BY <1>5, <4>1
        <4>3. reader'.status = r.status /\ reader'.body = <<>> /\ reader'.length = reader.length
          BY <3>2, <3>3, <4>1
        <4>4. LengthSaid(r.headers, Len(r.headers))
          BY <1>5, <4>1
        <4>5. CASE reader.chunked = TRUE
          <5>1. reader'.at = "size"
            BY <3>2, <3>3, <4>1, <4>5 DEF BodyReader
          <5>2. Framing(r.headers) = "chunked"
            BY <4>2, <4>5 DEF Framing
          <5>3. ChunkEnd(r, 0) = 0 /\ Ends(r.pieces)[0] = 0 /\ Len(r.pieces) \in Nat
            BY ComesLaid, PiecesType DEF Totals, ChunkEnd
          <5>4. Payload(0, 0) = <<>>
            <6>1. Payload(0, 0) \in Seq(Octets) /\ Len(Payload(0, 0)) = 0 - 0
              BY PayloadAt
            <6>2. Len(Payload(0, 0)) = 0
              BY <6>1
            <6> QED BY <6>1, <6>2, EmptySeq
          <5> DEFINE i == 1
          <5>5. i \in 1 .. Len(r.pieces) + 1 /\ i - 1 = 0
            BY <5>3
          <5>6. ChunkPlace(r, i) = body
            BY <1>1, <5>3, <5>5 DEF ChunkPlace, body
          <5>7. reader'.body = Payload(0, Ends(r.pieces)[i - 1])
            BY <4>3, <5>3, <5>4, <5>5
          <5> HIDE DEF i
          <5>8. AtSize(r, a)'
            BY <4>1, <4>3, <5>1, <5>2, <5>5, <5>6, <5>7 DEF AtSize
          <5> QED BY <5>8 DEF ReaderIs
        <4>6. CASE ~(reader.chunked = TRUE) /\ reader.length # NoLength
          <5>1. reader'.at = "exact"
            BY <3>2, <3>3, <4>1, <4>6 DEF BodyReader, ReaderType, Readers
          <5>2. Framing(r.headers) = "length"
            BY <4>2, <4>4, <4>6 DEF Framing, LengthSaid
          <5>3. \E i \in 1 .. j : r.headers[i].kind = "content-length"
                  /\ reader.length = r.headers[i].n
            BY <4>1, <4>4, <4>6 DEF LengthSaid
          <5>4. 1 .. j = DOMAIN r.headers
            BY <4>1, ComesLaid DEF IsResponse
          <5>5. reader'.length = Sum(r.pieces)
            BY <4>3, <5>2, <5>3, <5>4, ComesLaid DEF IsResponse
          <5>6. AtExact(r, a)'
            BY <4>1, <4>3, <5>1, <5>2, <5>5 DEF AtExact, body
          <5> QED BY <5>6 DEF ReaderIs
        <4>7. CASE ~(reader.chunked = TRUE) /\ reader.length = NoLength
          <5>1. reader'.at = "rest"
            BY <3>2, <3>3, <4>1, <4>7 DEF BodyReader, ReaderType, Readers
          <5>2. ~SaysLength(r.headers, Len(r.headers))
            <6>1. SUFFICES ASSUME SaysLength(r.headers, Len(r.headers)) PROVE FALSE
              OBVIOUS
            <6>2. PICK i \in 1 .. j : r.headers[i].kind = "content-length"
                    /\ reader.length = r.headers[i].n
              BY <4>1, <4>4, <6>1 DEF LengthSaid
            <6>3. reader.length \in Nat
              BY <4>1, <6>2, ComesLaid, HeadersType DEF IsResponse
            <6> QED BY <4>7, <6>3 DEF NoLength
          <5>3. Framing(r.headers) = "close"
            BY <4>2, <4>7, <5>2 DEF Framing
          <5>4. AtRest(r, a)'
            BY <4>1, <4>3, <5>1, <5>3 DEF AtRest, body
          <5> QED BY <5>4 DEF ReaderIs
        <4> QED BY <4>5, <4>6, <4>7
      <3> QED BY <3>4, <3>5
    <2> QED BY <2>2, <2>3
  <1> QED BY <1>11, <1>12 DEF HeaderLine

\* A line of a head is read.
LEMMA HeaderStep ==
    ASSUME NEW r, NEW a, Comes(r, a), ReaderType, AtHeader(r, a), HeaderLine, ending' = ending
    PROVE  ReaderIs(r, a)'
  <1>1. PICK k \in 1 .. LastHead(r) : \E j \in 0 .. Len(HeadersOf(r, k)) : InHead(r, a, k, j)
    BY DEF AtHeader
  <1>2. PICK j \in 0 .. Len(HeadersOf(r, k)) : InHead(r, a, k, j)
    BY <1>1
  <1>3. HeadersOf(r, k) \in Seq(Header)
    BY ComesLaid, HeadsType
  <1>4. Len(HeadersOf(r, k)) \in Nat
    BY <1>3, LenProperties
  <1>5. j \in Nat /\ (j < Len(HeadersOf(r, k)) \/ j = Len(HeadersOf(r, k)))
    BY <1>4
  <1>6. reader.at = "header" /\ reader.body = <<>>
    BY DEF AtHeader
  <1> QED BY <1>2, <1>5, <1>6, HeaderStep1, HeaderStep2

-----------------------------------------------------------------------------
(* Reading the body                                                         *)

\* The body is where the heads end, and a part of it is a part of the payload.
LEMMA PlainBody ==
    ASSUME NEW r, NEW a, Comes(r, a), Framing(r.headers) # "chunked", ReaderAt(r, a, BodyStart(r))
    PROVE  LET b == BodyStart(r)
               n == Sum(r.pieces)
           IN  /\ b \in Nat /\ n \in Nat /\ Len(ResponseBytes(r)) = b + n /\ b <= a /\ a - b <= n
               /\ stream = Payload(0, a - b) /\ Len(stream) = a - b
  <1> DEFINE w == ResponseBytes(r)
             b == BodyStart(r)
             n == Sum(r.pieces)
             x == Payload(0, n)
             m == a - b
  <1>1. /\ w \in Seq(Octets) /\ Len(w) = b + n /\ Sits(x, w, b) /\ b \in Nat /\ a \in Nat
             /\ a <= b + n
    <2>1. Laid(w, r) /\ a \in Nat /\ a <= Len(w)
      BY ComesLaid
    <2> QED BY <2>1 DEF Laid
  <1>2. n \in Nat
    BY ComesLaid, PiecesType
  <1>3. Ahead(w, a, b)
    BY DEF ReaderAt
  <1> HIDE DEF w, b, n
  <1>4. /\ b <= a /\ stream \in Seq(Octets) /\ Len(stream) = m
             /\ \A i \in 1 .. m : stream[i] = w[b + i]
    BY <1>1, <1>2, <1>3, AheadAt
  <1>5. m \in Nat /\ 0 \in Nat /\ 0 <= m /\ m <= n /\ 0 <= n
    BY <1>1, <1>2, <1>4
  <1> HIDE DEF m
  <1>6. /\ Len(x) = n - 0 /\ \A i \in 1 .. n - 0 : x[i] = [kind |-> "data", n |-> 0 + i]
    BY <1>2, <1>5, PayloadAt
  <1>7. /\ Payload(0, m) \in Seq(Octets) /\ Len(Payload(0, m)) = m - 0
        /\ \A i \in 1 .. m - 0 : Payload(0, m)[i] = [kind |-> "data", n |-> 0 + i]
    BY <1>5, PayloadAt
  <1> HIDE DEF x
  <1>8. \A i \in 1 .. m : stream[i] = Payload(0, m)[i]
    <2> SUFFICES ASSUME NEW i \in 1 .. m PROVE stream[i] = Payload(0, m)[i]
      OBVIOUS
    <2>1. i \in 1 .. m - 0 /\ i \in 1 .. n - 0 /\ i \in 1 .. n
      BY <1>2, <1>5
    <2>2. w[b + i] = x[i]
      BY <1>2, <1>6, <1>1, <2>1 DEF Sits
    <2>3. stream[i] = w[b + i]
      BY <1>4
    <2> QED BY <1>6, <1>7, <2>1, <2>2, <2>3
  <1>9. stream = Payload(0, m)
    <2>1. Len(Payload(0, m)) = m
      BY <1>5, <1>7
    <2> QED BY <1>4, <1>7, <1>8, <2>1, SeqEqual
  <1> QED BY <1>1, <1>2, <1>4, <1>5, <1>9 DEF m, w, b, n

\* A body of a stated length is read, or its end is missing.
LEMMA ExactStep ==
    ASSUME NEW r, NEW a, Comes(r, a), ReaderType, AtExact(r, a), ReadExact, ending' = ending
    PROVE  ReaderIs(r, a)'
  <1> DEFINE b == BodyStart(r)
             n == Sum(r.pieces)
             m == a - b
  <1>1. /\ reader.at = "exact" /\ reader.body = <<>> /\ reader.status = r.status
        /\ Framing(r.headers) = "length" /\ reader.length = n /\ ReaderAt(r, a, b)
    BY DEF AtExact
  <1>2. /\ b \in Nat /\ n \in Nat /\ Len(ResponseBytes(r)) = b + n /\ b <= a /\ a - b <= n
        /\ stream = Payload(0, m) /\ Len(stream) = m /\ a \in Nat
    <2>1. Framing(r.headers) # "chunked"
      BY <1>1
    <2> QED BY <1>1, <2>1, PlainBody, ComesLaid
  <1> HIDE DEF b, n
  <1>3. ReadsBlock(n, "read")
    BY <1>1 DEF ReadExact
  <1>4. CASE m >= n
    <2>1. m = n
      BY <1>2, <1>4
    <2>2. SubSeq(stream, 1, n) = Payload(0, n)
      <3>1. Payload(0, n) \in Seq(Octets) /\ Len(Payload(0, n)) = n - 0
        <4>1. 0 \in Nat /\ 0 <= n
          BY <1>2
        <4> QED BY <1>2, <4>1, PayloadAt
      <3>2. stream = Payload(0, n) /\ Len(stream) = n
        BY <1>2, <2>1
      <3> QED BY <3>1, <3>2
    <2>3. reader' = [reader EXCEPT !.body = <<>> \o SubSeq(stream, 1, n), !.at = "read"]
      BY <1>1, <1>2, <1>3, <1>4 DEF ReadsBlock, Becomes
    <2>4. <<>> \o SubSeq(stream, 1, n) = Payload(0, n) /\ Len(Payload(0, n)) = n
      <3>1. Payload(0, n) \in Seq(Octets) /\ Len(Payload(0, n)) = n - 0
        <4>1. 0 \in Nat /\ 0 <= n
          BY <1>2
        <4> QED BY <1>2, <4>1, PayloadAt
      <3> QED BY <1>2, <2>2, <3>1, ConcatEmptySeq
    <2>5. reader'.at = "read" /\ reader'.status = r.status /\ reader'.body = Payload(0, n)
      BY <1>1, <2>3, <2>4 DEF ReaderType, Readers
    <2>6. HasRead(r, a)'
      BY <1>2, <2>4, <2>5 DEF HasRead, n
    <2> QED BY <2>6 DEF ReaderIs
  <1>5. CASE ~(m >= n)
    <2>1. RunsDry
      BY <1>2, <1>3, <1>5 DEF ReadsBlock
    <2>2. a # Len(ResponseBytes(r))
      BY <1>2, <1>5
    <2> QED BY <2>1, <2>2, FailsFor DEF RunsDry
  <1> QED BY <1>4, <1>5

\* A body is read to the end of the connection.
LEMMA RestStep ==
    ASSUME NEW r, NEW a, Comes(r, a), ReaderType, AtRest(r, a), ReadRest, ending' = ending
    PROVE  ReaderIs(r, a)'
  <1> DEFINE b == BodyStart(r)
             n == Sum(r.pieces)
             m == a - b
  <1>1. /\ reader.at = "rest" /\ reader.body = <<>> /\ reader.status = r.status
        /\ Framing(r.headers) = "close" /\ ReaderAt(r, a, b)
    BY DEF AtRest
  <1>2. /\ b \in Nat /\ n \in Nat /\ Len(ResponseBytes(r)) = b + n /\ b <= a /\ a - b <= n
        /\ stream = Payload(0, m) /\ Len(stream) = m /\ a \in Nat
    <2>1. Framing(r.headers) # "chunked"
      BY <1>1
    <2> QED BY <1>1, <2>1, PlainBody, ComesLaid
  <1>3. m \in Nat /\ MaxBody \in Nat
    BY <1>2, LimitAssumption
  <1> HIDE DEF b, n, m
  <1>4. CASE m > MaxBody
    <2>1. Fails("upstream_error")
      BY <1>2, <1>3, <1>4 DEF ReadRest
    <2>2. ~IsSound(r)
      <3>1. IsSound(r) => n <= MaxBody
        BY DEF IsSound, n
      <3> QED BY <1>2, <1>3, <1>4, <3>1 DEF m
    <2> QED BY <2>1, <2>2, FailsFor
  <1>5. CASE m <= MaxBody /\ ending = "close"
    <2>1. ReadsBlock(m, "read")
      BY <1>2, <1>3, <1>5 DEF ReadRest
    <2>2. reader' = [reader EXCEPT !.body = <<>> \o SubSeq(stream, 1, m), !.at = "read"]
      BY <1>1, <1>2, <1>3, <2>1 DEF ReadsBlock, Becomes
    <2>3. Payload(0, m) \in Seq(Octets) /\ Len(Payload(0, m)) = m - 0
      BY <1>3, PayloadAt
    <2>4. <<>> \o SubSeq(stream, 1, m) = Payload(0, m) /\ Len(Payload(0, m)) = m
      <3>1. Len(Payload(0, m)) = m
        BY <1>3, <2>3
      <3>2. SubSeq(Payload(0, m), 1, m) = Payload(0, m)
        BY <1>3, <2>3, <3>1
      <3> QED BY <1>2, <2>3, <3>1, <3>2, ConcatEmptySeq
    <2>5. reader'.at = "read" /\ reader'.status = r.status /\ reader'.body = Payload(0, m)
      BY <1>1, <2>2, <2>4 DEF ReaderType, Readers
    <2>6. m <= n /\ (m = n \/ a # Len(ResponseBytes(r)))
      BY <1>2 DEF m
    <2>7. ending' = "close"
      BY <1>5
    <2>8. HasRead(r, a)'
      BY <1>1, <2>4, <2>5, <2>6, <2>7 DEF HasRead, n
    <2> QED BY <2>8 DEF ReaderIs
  <1>6. CASE m <= MaxBody /\ ending = "silence"
    <2>1. RunsDry
      BY <1>2, <1>3, <1>6 DEF ReadRest
    <2> QED BY <1>1, <1>6, <2>1, FailsFor DEF RunsDry
  <1>7. ending \in {"close", "silence"}
    BY DEF ReaderType, Readers
  <1> QED BY <1>3, <1>4, <1>5, <1>6, <1>7

-----------------------------------------------------------------------------
(* Reading the chunks                                                       *)

\* Where the chunks are, and that they are within the payload.
LEMMA ChunkPlaces ==
    ASSUME NEW r, NEW a, Comes(r, a), Framing(r.headers) = "chunked", NEW i \in 1 .. Len(r.pieces)
    PROVE  /\ ChunkPlace(r, i) \in Nat /\ r.sizeLine \in Nat \ {0} /\ r.pieces[i] \in Nat \ {0}
           /\ ChunkPlace(r, i + 1) = ChunkPlace(r, i) + (r.sizeLine + r.pieces[i] + 1)
           /\ ChunkAt(ResponseBytes(r), ChunkPlace(r, i), r, i)
           /\ Ends(r.pieces)[i - 1] \in Nat
                /\ Ends(r.pieces)[i] = Ends(r.pieces)[i - 1] + r.pieces[i]
           /\ Ends(r.pieces)[i] <= Sum(r.pieces) /\ Sum(r.pieces) \in Nat
  <1>1. Laid(ResponseBytes(r), r) /\ IsResponse(r)
    BY ComesLaid
  <1>2. BodyStart(r) \in Nat /\ ChunkAt(ResponseBytes(r), BodyStart(r) + ChunkEnd(r, i - 1), r, i)
    BY <1>1 DEF Laid
  <1>3. /\ Ends(r.pieces)[i - 1] \in Nat /\ r.pieces[i] \in Nat
        /\ Ends(r.pieces)[i] = Ends(r.pieces)[i - 1] + r.pieces[i]
             /\ Ends(r.pieces)[i] <= Sum(r.pieces)
        /\ ChunkEnd(r, i - 1) \in Nat
             /\ ChunkEnd(r, i) = ChunkEnd(r, i - 1) + (r.sizeLine + r.pieces[i] + 1)
    BY <1>1, PieceEnds
  <1>4. r.sizeLine \in Nat \ {0} /\ Sum(r.pieces) \in Nat
    BY <1>1, PiecesType
  <1>5. r.pieces[i] # 0
    <2>1. r.pieces \in Seq(Nat) /\ \A x \in DOMAIN r.pieces : r.pieces[x] # 0
      BY <1>1, Zenon DEF IsResponse
    <2> QED BY <2>1
  <1> DEFINE m == i + 1
  <1>6. m - 1 = i
    OBVIOUS
  <1>7. ChunkPlace(r, m) = BodyStart(r) + ChunkEnd(r, i)
    BY <1>6 DEF ChunkPlace
  <1>8. ChunkPlace(r, i) = BodyStart(r) + ChunkEnd(r, i - 1)
    BY DEF ChunkPlace
  <1>9. ChunkPlace(r, m) = ChunkPlace(r, i) + (r.sizeLine + r.pieces[i] + 1)
          /\ ChunkPlace(r, i) \in Nat
    BY <1>2, <1>3, <1>4, <1>7, <1>8, SMTT(30)
  <1> QED BY <1>2, <1>3, <1>4, <1>5, <1>8, <1>9

\* The size of a chunk.
LEMMA SizeStep1 ==
    ASSUME NEW r, NEW a, Comes(r, a), ReaderType, reader.at = "size", reader.status = r.status,
           Framing(r.headers) = "chunked", NEW i \in 1 .. Len(r.pieces),
             ReaderAt(r, a, ChunkPlace(r, i)),
           reader.body = Payload(0, Ends(r.pieces)[i - 1]), ChunkSize, ending' = ending
    PROVE  ReaderIs(r, a)'
  <1> DEFINE w == ResponseBytes(r)
             p == ChunkPlace(r, i)
             n == r.pieces[i]
             L == r.sizeLine
             before == Ends(r.pieces)[i - 1]
             kind == SizeKind(r)
             new == [reader EXCEPT !.at = "chunk", !.length = Line.n]
             q == p + L
  <1>1. /\ p \in Nat /\ L \in Nat \ {0} /\ n \in Nat \ {0} /\ ChunkAt(w, p, r, i)
        /\ before \in Nat /\ before + n <= Sum(r.pieces) /\ Sum(r.pieces) \in Nat
    BY ChunkPlaces
  <1>2. LineAt(w, p, kind, n, L)
    BY <1>1 DEF ChunkAt
  <1>3. kind \in {"size", "junk"}
    BY ComesLaid, PiecesType
  <1>4. MaxChunkLine \in Int /\ MaxBody \in Nat
    BY LimitAssumption
  <1>5. L > MaxChunkLine => ~IsSound(r)
    <2>1. IsSound(r) => L <= MaxChunkLine
      BY ComesLaid, SoundLimits
    <2> QED BY <1>1, <1>4, <2>1
  <1>6. Len(reader.body) = before
    <2>1. 0 \in Nat /\ 0 <= before
      BY <1>1
    <2>2. Len(Payload(0, before)) = before - 0
      BY <1>1, <2>1, PayloadAt
    <2> QED BY <1>1, <2>2
  <1> HIDE DEF w, p, kind, L
  <1>7. CASE NoLine(MaxChunkLine)
    BY <1>1, <1>2, <1>3, <1>4, <1>5, <1>7, NoLineFor DEF w, p
  <1>8. CASE GetsLine(MaxChunkLine)
    <2>1. LineLength = L /\ Line.kind = kind /\ Line.n = n /\ p + L <= a
      BY <1>1, <1>2, <1>3, <1>4, <1>8, LineFor DEF w, p
    <2>2. CASE kind # "size"
      <3>1. Fails("upstream_error")
        BY <1>8, <2>1, <2>2 DEF ChunkSize, NoLine
      <3>2. ~IsSound(r)
        BY <2>2, ComesLaid, SoundLimits DEF kind
      <3> QED BY <3>1, <3>2, FailsFor
    <2>3. CASE kind = "size" /\ n > MaxBody - before
      <3>1. Fails("upstream_error")
        BY <1>1, <1>4, <1>6, <1>8, <2>1, <2>3 DEF ChunkSize, NoLine
      <3>2. ~IsSound(r)
        <4>1. IsSound(r) => Sum(r.pieces) <= MaxBody
          BY DEF IsSound
        <4> QED BY <1>1, <1>4, <2>3, <4>1
      <3> QED BY <3>1, <3>2, FailsFor
    <2>4. CASE kind = "size" /\ ~(n > MaxBody - before)
      <3>1. Becomes(new, L)
        <4>1. n # 0
          BY <1>1
        <4>2. ~NoLine(MaxChunkLine)
          BY <1>8 DEF NoLine
        <4>3. ~(Line.kind = "size" /\ Line.n = 0)
          BY <2>1, <4>1
        <4>4. Line.kind = "size" /\ Line.n <= MaxBody - Len(reader.body)
          <5>1. Line.n = n /\ Len(reader.body) = before /\ Line.kind = kind
            BY <1>6, <2>1
          <5> QED BY <1>1, <1>4, <2>4, <5>1
        <4> QED BY <2>1, <4>2, <4>3, <4>4, ZenonT(40) DEF ChunkSize
      <3>2. new.at = "chunk" /\ new.length = n /\ new.status = reader.status
              /\ new.body = reader.body
        BY <2>1 DEF ReaderType, Readers
      <3> HIDE DEF new
      <3>3. ReaderAt(r, a, q)' /\ reader' = new
        BY <1>1, <2>1, <3>1, AheadFor DEF p
      <3>4. AtChunk(r, a)'
        BY <3>2, <3>3 DEF AtChunk, p, L
      <3> QED BY <3>4 DEF ReaderIs
    <2> QED BY <2>2, <2>3, <2>4
  <1> QED BY <1>7, <1>8 DEF ChunkSize

\* The empty chunk ends the body.
LEMMA SizeStep2 ==
    ASSUME NEW r, NEW a, Comes(r, a), ReaderType, reader.at = "size", reader.status = r.status,
           Framing(r.headers) = "chunked", NEW i, i = Len(r.pieces) + 1,
             ReaderAt(r, a, ChunkPlace(r, i)),
           reader.body = Payload(0, Ends(r.pieces)[i - 1]), ChunkSize, ending' = ending
    PROVE  ReaderIs(r, a)'
  <1> DEFINE w == ResponseBytes(r)
             p == ChunkPlace(r, i)
             n == Len(r.pieces)
             sum == Sum(r.pieces)
             new == [reader EXCEPT !.at = "read"]
  <1>1. n \in Nat /\ sum = Ends(r.pieces)[n] /\ sum \in Nat
    BY ComesLaid, PiecesType
  <1>2. i - 1 = n
    BY <1>1
  <1>3. p = BodyStart(r) + ChunkEnd(r, n)
    BY <1>2 DEF ChunkPlace
  <1>4. LineAt(w, p, "size", 0, 2)
    BY <1>3, ComesLaid DEF Laid
  <1>5. reader.body = Payload(0, sum) /\ Len(reader.body) = sum
    <2>1. 0 \in Nat /\ 0 <= sum
      BY <1>1
    <2>2. Len(Payload(0, sum)) = sum - 0
      BY <1>1, <2>1, PayloadAt
    <2> QED BY <1>1, <1>2, <2>2
  <1>6. MaxChunkLine \in Int /\ ~(2 > MaxChunkLine)
    BY LimitAssumption
  <1> HIDE DEF w, p, n, sum
  <1>7. CASE NoLine(MaxChunkLine)
    BY <1>4, <1>6, <1>7, NoLineFor DEF w, p
  <1>8. CASE GetsLine(MaxChunkLine)
    <2>1. LineLength = 2 /\ Line.kind = "size" /\ Line.n = 0 /\ p + 2 <= a
      BY <1>4, <1>6, <1>8, LineFor DEF w, p
    <2>2. Becomes(new, 2)
      <3>1. ~NoLine(MaxChunkLine)
        BY <1>8 DEF NoLine
      <3> QED BY <2>1, <3>1 DEF ChunkSize
    <2>3. reader' = new
      BY <2>2 DEF Becomes
    <2>4. reader'.at = "read" /\ reader'.status = r.status /\ reader'.body = reader.body
      BY <2>3 DEF ReaderType, Readers
    <2>5. HasRead(r, a)'
      BY <1>1, <1>5, <2>4 DEF HasRead, sum
    <2> QED BY <2>5 DEF ReaderIs
  <1> QED BY <1>7, <1>8 DEF ChunkSize

\* A chunk-size line is read.
LEMMA SizeStep ==
    ASSUME NEW r, NEW a, Comes(r, a), ReaderType, AtSize(r, a), ChunkSize, ending' = ending
    PROVE  ReaderIs(r, a)'
  <1>1. PICK i \in 1 .. Len(r.pieces) + 1 :
            ReaderAt(r, a, ChunkPlace(r, i)) /\ reader.body = Payload(0, Ends(r.pieces)[i - 1])
    BY DEF AtSize
  <1>2. reader.at = "size" /\ reader.status = r.status /\ Framing(r.headers) = "chunked"
    BY DEF AtSize
  <1>3. i \in 1 .. Len(r.pieces) \/ i = Len(r.pieces) + 1
    BY ComesLaid, PiecesType
  <1> QED BY <1>1, <1>2, <1>3, SizeStep1, SizeStep2

\* A piece is read, and joins the body.
LEMMA ChunkStep ==
    ASSUME NEW r, NEW a, Comes(r, a), ReaderType, AtChunk(r, a), Chunk, ending' = ending
    PROVE  ReaderIs(r, a)'
  <1> DEFINE w == ResponseBytes(r)
  <1>1. PICK i \in 1 .. Len(r.pieces) :
            /\ ReaderAt(r, a, ChunkPlace(r, i) + r.sizeLine)
            /\ reader.body = Payload(0, Ends(r.pieces)[i - 1]) /\ reader.length = r.pieces[i]
    BY DEF AtChunk
  <1>2. reader.at = "chunk" /\ reader.status = r.status /\ Framing(r.headers) = "chunked"
    BY DEF AtChunk
  <1> DEFINE p == ChunkPlace(r, i) + r.sizeLine
             n == r.pieces[i]
             before == Ends(r.pieces)[i - 1]
             after == Ends(r.pieces)[i]
             piece == PieceOf(r, i)
             q == p + n
  <1>3. /\ ChunkPlace(r, i) \in Nat /\ r.sizeLine \in Nat \ {0} /\ n \in Nat
             /\ ChunkAt(w, ChunkPlace(r, i), r, i)
        /\ before \in Nat /\ after = before + n
    BY <1>2, ChunkPlaces
  <1>4. p \in Nat /\ q = ChunkPlace(r, i) + (r.sizeLine + n)
    BY <1>3
  <1>5. Sits(piece, w, p) /\ LineAt(w, q, AfterKind(r), 0, 1)
    BY <1>3, <1>4 DEF ChunkAt
  <1>6. w \in Seq(Octets) /\ Len(w) \in Nat /\ a \in Nat /\ a <= Len(w) /\ Ahead(w, a, p)
    BY <1>1, ComesLaid DEF ReaderAt
  <1>7. piece = Payload(before, after) /\ before <= after /\ after \in Nat /\ after - before = n
    BY <1>3 DEF PieceOf
  <1>8. piece \in Seq(Octets) /\ Len(piece) = n
    <2>1. Payload(before, after) \in Seq(Octets) /\ Len(Payload(before, after)) = after - before
      BY <1>3, <1>7, PayloadAt
    <2> QED BY <1>7, <2>1
  <1>9. q + 1 <= Len(w)
    BY <1>5 DEF LineAt
  <1> HIDE DEF w, p, n, before, after, piece
  <1>10. p <= a /\ Len(stream) = a - p
    BY <1>6, AheadAt
  <1>11. ReadsBlock(n, "after")
    BY <1>1 DEF Chunk, n
  <1>12. CASE Len(stream) >= n
    <2> DEFINE new == [reader EXCEPT !.body = @ \o SubSeq(stream, 1, n), !.at = "after"]
    <2>1. SubSeq(stream, 1, n) = piece
      <3>1. Len(piece) <= Len(stream)
        BY <1>3, <1>8, <1>10, <1>12, <1>6, <1>4
      <3>2. SubSeq(stream, 1, Len(piece)) = piece
        BY <1>5, <1>6, <1>8, <3>1, BlockRead
      <3> QED BY <1>8, <3>2
    <2>2. Becomes(new, n)
      BY <1>11, <1>12 DEF ReadsBlock
    <2>3. new.at = "after" /\ new.status = reader.status /\ new.body = reader.body \o piece
      BY <2>1 DEF ReaderType, Readers
    <2>4. Payload(0, before) \o Payload(before, after) = Payload(0, after)
      BY <1>3, <1>7, PayloadJoins
    <2>5. new.body = Payload(0, after)
      <3>1. reader.body = Payload(0, before)
        BY <1>1 DEF before
      <3> QED BY <1>7, <2>3, <2>4, <3>1
    <2>6. p + n <= a
      BY <1>3, <1>4, <1>6, <1>10, <1>12
    <2> HIDE DEF new
    <2>7. ReaderAt(r, a, q)' /\ reader' = new
      <3>1. ReaderAt(r, a, p)
        BY <1>1 DEF p
      <3> QED BY <1>3, <2>2, <2>6, <3>1, AheadFor
    <2> DEFINE place == ChunkPlace(r, i) + (r.sizeLine + r.pieces[i])
    <2>8. q = place
      BY <1>4 DEF n
    <2> HIDE DEF q, place
    <2>9. ReaderAt(r, a, place)'
      BY <2>7, <2>8
    <2>10. AtAfter(r, a)'
      BY <1>2, <2>3, <2>5, <2>7, <2>9 DEF AtAfter, after, place
    <2> QED BY <2>10 DEF ReaderIs
  <1>13. CASE ~(Len(stream) >= n)
    <2>1. RunsDry
      BY <1>11, <1>13 DEF ReadsBlock
    <2>2. a # Len(ResponseBytes(r))
      BY <1>3, <1>4, <1>6, <1>9, <1>10, <1>13 DEF w
    <2> QED BY <2>1, <2>2, FailsFor DEF RunsDry
  <1> QED BY <1>12, <1>13

\* The end of a chunk is read.
LEMMA AfterStep ==
    ASSUME NEW r, NEW a, Comes(r, a), ReaderType, AtAfter(r, a), AfterChunk, ending' = ending
    PROVE  ReaderIs(r, a)'
  <1> DEFINE w == ResponseBytes(r)
  <1>1. PICK i \in 1 .. Len(r.pieces) :
            /\ ReaderAt(r, a, ChunkPlace(r, i) + (r.sizeLine + r.pieces[i]))
            /\ reader.body = Payload(0, Ends(r.pieces)[i])
    BY DEF AtAfter
  <1>2. reader.at = "after" /\ reader.status = r.status /\ Framing(r.headers) = "chunked"
    BY DEF AtAfter
  <1> DEFINE p == ChunkPlace(r, i) + (r.sizeLine + r.pieces[i])
             kind == AfterKind(r)
             m == i + 1
             q == ChunkPlace(r, m)
             new == [reader EXCEPT !.at = "size"]
  <1>3. /\ ChunkPlace(r, i) \in Nat /\ r.sizeLine \in Nat \ {0} /\ r.pieces[i] \in Nat
        /\ ChunkAt(w, ChunkPlace(r, i), r, i)
             /\ q = ChunkPlace(r, i) + (r.sizeLine + r.pieces[i] + 1)
    BY <1>2, ChunkPlaces
  <1>4. p \in Nat /\ q = p + 1
    BY <1>3
  <1>5. LineAt(w, p, kind, 0, 1)
    BY <1>3 DEF ChunkAt
  <1>6. kind \in {"blank", "junk"}
    BY ComesLaid, PiecesType
  <1>7. MaxChunkLine \in Int /\ ~(1 > MaxChunkLine)
    BY LimitAssumption
  <1>8. m \in 1 .. Len(r.pieces) + 1 /\ m - 1 = i
    <2>1. Len(r.pieces) \in Nat
      BY ComesLaid, PiecesType
    <2> QED BY <2>1
  <1>9. ReaderAt(r, a, p)
    BY <1>1
  <1> HIDE DEF w, p, kind, q
  <1>10. CASE NoLine(MaxChunkLine)
    BY <1>5, <1>6, <1>7, <1>9, <1>10, NoLineFor DEF w
  <1>11. CASE GetsLine(MaxChunkLine)
    <2>1. LineLength = 1 /\ Line.kind = kind /\ p + 1 <= a
      BY <1>5, <1>6, <1>7, <1>9, <1>11, LineFor DEF w
    <2>2. CASE kind = "blank"
      <3>1. Becomes(new, 1)
        BY <1>11, <2>1, <2>2 DEF AfterChunk, NoLine
      <3>2. new.at = "size" /\ new.status = reader.status /\ new.body = reader.body
        BY DEF ReaderType, Readers
      <3> HIDE DEF new
      <3>3. ReaderAt(r, a, q)' /\ reader' = new
        BY <1>4, <1>9, <2>1, <3>1, AheadFor
      <3>4. reader'.body = Payload(0, Ends(r.pieces)[m - 1])
        BY <1>1, <1>8, <3>2, <3>3
      <3> HIDE DEF m
      <3>5. AtSize(r, a)'
        BY <1>2, <1>8, <3>2, <3>3, <3>4 DEF AtSize, q
      <3> QED BY <3>5 DEF ReaderIs
    <2>3. CASE kind # "blank"
      <3>1. Fails("upstream_error")
        BY <1>11, <2>1, <2>3 DEF AfterChunk, NoLine
      <3>2. ~IsSound(r)
        BY <2>3, ComesLaid, SoundLimits DEF kind
      <3> QED BY <3>1, <3>2, FailsFor
    <2> QED BY <2>2, <2>3
  <1> QED BY <1>10, <1>11 DEF AfterChunk

-----------------------------------------------------------------------------
(* The whole response                                                       *)

\* The line that is got is one of the bytes to read.
LEMMA LineIn ==
    ASSUME stream \in Seq(Octets), NEW limit \in Int, GetsLine(limit)
    PROVE  LineLength \in Nat /\ Line.n \in Nat
  <1> DEFINE ends == {i \in DOMAIN stream : IsLineEnd(stream[i])}
             n == Len(stream)
             least(i) == i \in ends /\ \A j \in ends : i <= j
  <1>1. n \in Nat /\ DOMAIN stream = 1 .. n
    BY LenProperties
  <1>2. LineLength = IF ends = {} THEN 0 ELSE CHOOSE i \in ends : \A j \in ends : i <= j
    BY DEF LineLength
  <1>3. LineLength # 0
    BY DEF GetsLine
  <1>4. ends # {} /\ ends \subseteq 1 .. n
    BY <1>1, <1>2, <1>3
  <1>5. ends \in SUBSET (0 .. n)
    BY <1>1, <1>4
  <1> HIDE DEF ends, n
  <1>6. \E m \in ends : \A j \in ends : m <= j
    BY <1>1, <1>4, <1>5, LeastOf
  <1>7. LineLength \in ends
    BY <1>2, <1>4, <1>6
  <1>8. LineLength \in 1 .. n
    BY <1>4, <1>7
  <1>9. Line \in Octets
    BY <1>1, <1>8, ElementOfSeq DEF Line, n
  <1> QED BY <1>1, <1>8, <1>9 DEF Octets

\* The numbers that read_response keeps.
LEMMA ReadersFields ==
    ASSUME NEW x \in Readers
    PROVE  x.budget \in Int /\ x.length \in Int
  BY DEF Readers

\* One of its variables is assigned.
LEMMA Changed ==
    ASSUME NEW x \in Readers
    PROVE  /\ \A n \in Int : [x EXCEPT !.budget = n] \in Readers
                /\ [x EXCEPT !.length = n] \in Readers
           /\ \A place \in Places : [x EXCEPT !.at = place] \in Readers
           /\ \A chunked \in BOOLEAN : [x EXCEPT !.chunked = chunked] \in Readers
  BY DEF Readers

\* A block more in the body.
LEMMA BlockType ==
    ASSUME ReaderType, stream \in Seq(Octets), NEW n \in Int, NEW next \in Places,
             ReadsBlock(n, next),
           ending' = ending
    PROVE  ReaderType'
  <1>1. CASE Len(stream) >= n
    <2> DEFINE x == SubSeq(stream, 1, n)
    <2>1. x \in Seq(Octets)
      BY <1>1
    <2>2. reader.body \in Seq(Octets)
      BY DEF ReaderType, Readers
    <2>3. reader.body \o x \in Seq(Octets)
      BY <2>1, <2>2
    <2>4. reader' = [reader EXCEPT !.body = @ \o x, !.at = next]
      BY <1>1 DEF ReadsBlock, Becomes
    <2> HIDE DEF x
    <2> QED BY <2>3, <2>4 DEF ReaderType, Readers
  <1>2. CASE ~(Len(stream) >= n)
    <2>1. RunsDry
      BY <1>2 DEF ReadsBlock
    <2> QED BY <2>1 DEF RunsDry, Fails, Becomes, ReaderType, Readers, Places
  <1> QED BY <1>1, <1>2

\* A failure.
LEMMA FailType ==
    ASSUME ReaderType, NEW reason \in {"timeout", "upstream_error"}, Fails(reason), ending' = ending
    PROVE  ReaderType'
  BY DEF Fails, Becomes, ReaderType, Readers, Places

\* A failure for want of a line.
LEMMA NoLineType ==
    ASSUME ReaderType, NEW limit, NoLine(limit), ending' = ending
    PROVE  ReaderType'
  BY FailType DEF NoLine, RunsDry

\* No read puts anything else into the variables of read_response.
LEMMA ReaderTyped ==
    ASSUME ReaderType, stream \in Seq(Octets), ReadStep
    PROVE  ReaderType'
  <1>1. ending' = ending
    BY DEF ReadStep
  <1>2. reader.budget \in Int /\ reader.length \in Int /\ MaxChunkLine \in Int
          /\ Len(stream) \in Int
    <2>1. Len(stream) \in Nat
      BY LenProperties
    <2>2. Len(stream) \in Int
      BY <2>1
    <2>3. reader.budget \in Int /\ reader.length \in Int
      BY ReadersFields DEF ReaderType
    <2>4. MaxChunkLine \in Int
      BY LimitAssumption
    <2> QED BY <2>2, <2>3, <2>4
  <1>3. CASE StatusLine
    <2>1. CASE GetsLine(reader.budget)
      <3>1. LineLength \in Nat /\ Line.n \in Nat
        BY <1>2, <2>1, LineIn
      <3> DEFINE head == NewHead(Line.n)
                 new == [head EXCEPT !.budget = @ - LineLength]
      <3>2. new \in Readers
        <4>1. NoLength \in Int /\ "header" \in Places
          BY DEF NoLength, Places
        <4>2. head \in Readers /\ head.budget = reader.budget
          BY <3>1, <4>1 DEF NewHead, ReaderType, Readers
        <4>3. head.budget - LineLength \in Int
          BY <1>2, <3>1, <4>2
        <4> HIDE DEF head
        <4> QED BY <4>2, <4>3, Changed
      <3>3. reader' = new \/ Fails("upstream_error")
        BY <1>3, <2>1 DEF StatusLine, NoLine, Becomes
      <3> HIDE DEF new
      <3> QED BY <1>1, <3>2, <3>3, FailType DEF ReaderType
    <2> QED BY <1>1, <1>3, <2>1, NoLineType DEF StatusLine
  <1>4. CASE HeaderLine
    <2>1. CASE GetsLine(reader.budget)
      <3>1. LineLength \in Nat /\ Line.n \in Nat
        BY <1>2, <2>1, LineIn
      <3>2. BodyReader \in Places
        BY DEF BodyReader, Places
      <3> DEFINE read == [reader EXCEPT !.budget = @ - LineLength]
                 chunks == [read EXCEPT !.chunked = (Line.n = 1)]
                 length == [read EXCEPT !.length = Line.n]
                 body == [read EXCEPT !.at = BodyReader]
      <3>3. read \in Readers
        <4>1. reader.budget - LineLength \in Int
          BY <1>2, <3>1
        <4> QED BY <4>1, Changed DEF ReaderType
      <3>4. (Line.n = 1) \in BOOLEAN
        OBVIOUS
      <3>5. reader' \in {read, chunks, length, body} \/ Fails("upstream_error")
        BY <1>4, <2>1 DEF HeaderLine, NoLine, Becomes
      <3> HIDE DEF read
      <3>6. chunks \in Readers /\ length \in Readers /\ body \in Readers
        <4>1. Line.n \in Int
          BY <3>1
        <4> QED BY <3>2, <3>3, <3>4, <4>1, Changed
      <3> HIDE DEF chunks, length, body
      <3> QED BY <1>1, <3>3, <3>5, <3>6, FailType DEF ReaderType
    <2> QED BY <1>1, <1>4, <2>1, NoLineType DEF HeaderLine
  <1>5. CASE ReadExact
    BY <1>1, <1>2, <1>5, BlockType DEF ReadExact, Places
  <1>6. CASE ReadRest
    BY <1>1, <1>2, <1>6, BlockType, FailType DEF ReadRest, RunsDry, Places
  <1>7. CASE ChunkSize
    <2>1. CASE GetsLine(MaxChunkLine)
      <3>1. LineLength \in Nat /\ Line.n \in Nat
        BY <1>2, <2>1, LineIn
      <3> DEFINE last == [reader EXCEPT !.at = "read"]
                 chunk == [reader EXCEPT !.at = "chunk", !.length = Line.n]
      <3>2. last \in Readers /\ chunk \in Readers
        <4>1. Line.n \in Int /\ "read" \in Places /\ "chunk" \in Places
          BY <3>1 DEF Places
        <4> DEFINE at1 == [reader EXCEPT !.at = "chunk"]
        <4>2. last \in Readers /\ at1 \in Readers
          BY <4>1, Changed DEF ReaderType
        <4>3. chunk = [at1 EXCEPT !.length = Line.n]
          BY DEF ReaderType, Readers
        <4> HIDE DEF last, at1, chunk
        <4> QED BY <4>1, <4>2, <4>3, Changed
      <3>3. reader' \in {last, chunk} \/ Fails("upstream_error")
        BY <1>7, <2>1 DEF ChunkSize, NoLine, Becomes
      <3> HIDE DEF last, chunk
      <3> QED BY <1>1, <3>2, <3>3, FailType DEF ReaderType
    <2> QED BY <1>1, <1>7, <2>1, NoLineType DEF ChunkSize
  <1>8. CASE Chunk
    BY <1>1, <1>2, <1>8, BlockType DEF Chunk, Places
  <1>9. CASE AfterChunk
    <2>1. CASE GetsLine(MaxChunkLine)
      BY <1>1, <1>9, <2>1, FailType DEF AfterChunk, NoLine, Becomes, ReaderType, Readers, Places
    <2> QED BY <1>1, <1>9, <2>1, NoLineType DEF AfterChunk
  <1> QED BY <1>3, <1>4, <1>5, <1>6, <1>7, <1>8, <1>9 DEF ReadStep

\* Wherever the reader is, what it is to read is a part of what was sent.
LEMMA StillToRead ==
    ASSUME NEW r, NEW a, Comes(r, a), ReaderIs(r, a), reader.at \notin {"read", "failed"}
    PROVE  stream \in Seq(Octets)
  <1>1. ASSUME NEW p, ReaderAt(r, a, p) PROVE stream \in Seq(Octets)
    BY <1>1, ComesLaid, AheadAt DEF ReaderAt
  <1>2. \/ AtStatus(r, a) \/ AtHeader(r, a) \/ AtExact(r, a) \/ AtRest(r, a)
        \/ AtSize(r, a) \/ AtChunk(r, a) \/ AtAfter(r, a)
    BY DEF ReaderIs, HasRead, HasFailed
  <1>3. CASE AtStatus(r, a) \/ AtSize(r, a) \/ AtChunk(r, a) \/ AtAfter(r, a) \/ AtExact(r, a)
          \/ AtRest(r, a)
    BY <1>1, <1>3 DEF AtStatus, AtSize, AtChunk, AtAfter, AtExact, AtRest
  <1>4. CASE AtHeader(r, a)
    BY <1>1, <1>4 DEF AtHeader, InHead
  <1> QED BY <1>2, <1>3, <1>4

\* A read leaves the reader between two lines or blocks again, or it is over.
LEMMA ReadOn ==
    ASSUME NEW r, NEW a, Comes(r, a), ReaderType, ReaderIs(r, a), ReadStep
    PROVE  ReaderIs(r, a)' /\ ReaderType'
  <1>1. ending' = ending
    BY DEF ReadStep
  <1>2. reader.at \in {"status", "header", "exact", "rest", "size", "chunk", "after"}
    BY DEF ReadStep, StatusLine, HeaderLine, ReadExact, ReadRest, ChunkSize, Chunk, AfterChunk
  <1>3. ReaderType'
    BY <1>2, StillToRead, ReaderTyped
  <1>4. CASE reader.at = "status"
    <2>1. AtStatus(r, a)
      BY <1>4 DEF ReaderIs, AtHeader, AtExact, AtRest, AtSize, AtChunk, AtAfter, HasRead, HasFailed
    <2>2. StatusLine
      BY <1>4 DEF ReadStep, HeaderLine, ReadExact, ReadRest, ChunkSize, Chunk, AfterChunk
    <2> QED BY <1>1, <1>3, <2>1, <2>2, StatusStep
  <1>5. CASE reader.at = "header"
    <2>1. AtHeader(r, a)
      BY <1>5 DEF ReaderIs, AtStatus, AtExact, AtRest, AtSize, AtChunk, AtAfter, HasRead, HasFailed
    <2>2. HeaderLine
      BY <1>5 DEF ReadStep, StatusLine, ReadExact, ReadRest, ChunkSize, Chunk, AfterChunk
    <2> QED BY <1>1, <1>3, <2>1, <2>2, HeaderStep
  <1>6. CASE reader.at = "exact"
    <2>1. AtExact(r, a)
      BY <1>6 DEF ReaderIs, AtStatus, AtHeader, AtRest, AtSize, AtChunk, AtAfter, HasRead, HasFailed
    <2>2. ReadExact
      BY <1>6 DEF ReadStep, StatusLine, HeaderLine, ReadRest, ChunkSize, Chunk, AfterChunk
    <2> QED BY <1>1, <1>3, <2>1, <2>2, ExactStep
  <1>7. CASE reader.at = "rest"
    <2>1. AtRest(r, a)
      BY <1>7 DEF ReaderIs, AtStatus, AtHeader, AtExact, AtSize, AtChunk, AtAfter, HasRead,
         HasFailed
    <2>2. ReadRest
      BY <1>7 DEF ReadStep, StatusLine, HeaderLine, ReadExact, ChunkSize, Chunk, AfterChunk
    <2> QED BY <1>1, <1>3, <2>1, <2>2, RestStep
  <1>8. CASE reader.at = "size"
    <2>1. AtSize(r, a)
      BY <1>8 DEF ReaderIs, AtStatus, AtHeader, AtExact, AtRest, AtChunk, AtAfter, HasRead,
         HasFailed
    <2>2. ChunkSize
      BY <1>8 DEF ReadStep, StatusLine, HeaderLine, ReadExact, ReadRest, Chunk, AfterChunk
    <2> QED BY <1>1, <1>3, <2>1, <2>2, SizeStep
  <1>9. CASE reader.at = "chunk"
    <2>1. AtChunk(r, a)
      BY <1>9 DEF ReaderIs, AtStatus, AtHeader, AtExact, AtRest, AtSize, AtAfter, HasRead, HasFailed
    <2>2. Chunk
      BY <1>9 DEF ReadStep, StatusLine, HeaderLine, ReadExact, ReadRest, ChunkSize, AfterChunk
    <2> QED BY <1>1, <1>3, <2>1, <2>2, ChunkStep
  <1>10. CASE reader.at = "after"
    <2>1. AtAfter(r, a)
      BY <1>10 DEF ReaderIs, AtStatus, AtHeader, AtExact, AtRest, AtSize, AtChunk, HasRead,
         HasFailed
    <2>2. AfterChunk
      BY <1>10 DEF ReadStep, StatusLine, HeaderLine, ReadExact, ReadRest, ChunkSize, Chunk
    <2> QED BY <1>1, <1>3, <2>1, <2>2, AfterStep
  <1> QED BY <1>2, <1>4, <1>5, <1>6, <1>7, <1>8, <1>9, <1>10

\* The variables of read_response at first.
LEMMA UnreadIn == Unread \in Readers
  <1>1. <<>> \in Seq(Octets)
    BY EmptySeq
  <1>2. MaxHead \in Int /\ NoLength \in Int
    BY LimitAssumption DEF NoLength
  <1>3. "status" \in Places
    BY DEF Places
  <1> QED BY <1>1, <1>2, <1>3 DEF Unread, Readers

\* Where it begins.
LEMMA UnreadType == reader = Unread /\ ending \in {"close", "silence"} => ReaderType
  BY UnreadIn DEF ReaderType

\* At first there is no response.
LEMMA ResponseInit == Init => ResponseInv
  BY UnreadType DEF Init, ResponseInv

\* A response that begins to come.
LEMMA ResponseStarts ==
    ASSUME NEW r \in Responses, NEW how \in {"close", "silence"},
           NEW a \in 0 .. Len(HeadsOf(r) \o BodyBytes(r)), Sends(r, a, how)
    PROVE  SentAs(r, a)' /\ ReaderIs(r, a)' /\ ReaderType' /\ a \in 0 .. Len(ResponseBytes(r))
  <1> DEFINE w == ResponseBytes(r)
  <1>1. w = HeadsOf(r) \o BodyBytes(r)
    BY DEF ResponseBytes
  <1>2. /\ stream' = SubSeq(w, 1, a) /\ ending' = how /\ reader' = Unread
        /\ sent' = [status |-> r.status, n |-> Sum(r.pieces), framing |-> Framing(r.headers),
                    whole |-> a = Len(w), sound |-> IsSound(r)]
    BY <1>1 DEF Sends
  <1>3. IsResponse(r)
    BY ResponseAssumption
  <1>4. Laid(w, r)
    BY <1>3, ResponseLaid
  <1>5. Len(w) \in Nat /\ a \in 0 .. Len(w)
    BY <1>1, <1>4 DEF Laid
  <1>6. SentAs(r, a)'
    BY <1>2 DEF SentAs
  <1>7. ReaderType'
    BY <1>2, UnreadIn DEF ReaderType
  <1> DEFINE k == 1
  <1>8. k \in 1 .. LastHead(r) /\ k - 1 = 0
    BY <1>3, HeadsType
  <1>9. HeadEnd(r, 0) = 0
    BY <1>3, <1>8, HeadPlace
  <1>10. Slice(w, 0, a) = SubSeq(w, 1, a)
    BY DEF Slice
  <1>11. Ahead(w, a, 0)'
    BY <1>2, <1>5, <1>10 DEF Ahead
  <1> HIDE DEF k, w
  <1>12. ReaderAt(r, a, HeadEnd(r, k - 1))'
    BY <1>8, <1>9, <1>11 DEF ReaderAt, w
  <1>13. reader'.budget = MaxHead - HeadEnd(r, k - 1) /\ reader'.at = "status"
           /\ reader'.body = <<>>
    <2>1. MaxHead - 0 = MaxHead
      BY LimitAssumption
    <2> QED BY <1>2, <1>8, <1>9, <2>1 DEF Unread
  <1>14. AtStatus(r, a)'
    BY <1>8, <1>12, <1>13 DEF AtStatus
  <1> QED BY <1>5, <1>6, <1>7, <1>14 DEF ReaderIs, w

\* Nothing moves the reader but a read.
LEMMA Unmoved ==
    ASSUME NEW r, NEW a, ReaderIs(r, a), reader' = reader, stream' = stream, ending' = ending
    PROVE  ReaderIs(r, a)'
  <1>1. ASSUME NEW p, ReaderAt(r, a, p) PROVE ReaderAt(r, a, p)'
    BY <1>1 DEF ReaderAt, Ahead
  <1>2. ASSUME NEW hs, NEW j, LengthSaid(hs, j) PROVE LengthSaid(hs, j)'
    BY <1>2 DEF LengthSaid
  <1>3. ASSUME NEW k, NEW j, InHead(r, a, k, j) PROVE InHead(r, a, k, j)'
    BY <1>1, <1>2, <1>3 DEF InHead
  <1>4. CASE AtStatus(r, a)
    BY <1>1, <1>4 DEF AtStatus, ReaderIs
  <1>5. CASE AtHeader(r, a)
    BY <1>3, <1>5 DEF AtHeader, ReaderIs
  <1>6. CASE AtExact(r, a) \/ AtRest(r, a)
    BY <1>1, <1>6 DEF AtExact, AtRest, ReaderIs
  <1>7. CASE AtSize(r, a)
    BY <1>1, <1>7 DEF AtSize, ReaderIs
  <1>8. CASE AtChunk(r, a)
    BY <1>1, <1>8 DEF AtChunk, ReaderIs
  <1>9. CASE AtAfter(r, a)
    BY <1>1, <1>9 DEF AtAfter, ReaderIs
  <1>10. CASE HasRead(r, a) \/ HasFailed(r, a)
    BY <1>10 DEF HasRead, HasFailed, ReaderIs
  <1> QED BY <1>4, <1>5, <1>6, <1>7, <1>8, <1>9, <1>10 DEF ReaderIs

\* Every step keeps the reader where a line or a block begins.
LEMMA ResponseStep == ResponseInv /\ [Next]_vars => ResponseInv'
  <1> SUFFICES ASSUME ResponseInv, [Next]_vars PROVE ResponseInv'
    OBVIOUS
  <1>1. CASE UNCHANGED readVars /\ (at = "generating" <=> at' = "generating")
    <2>1. reader' = reader /\ stream' = stream /\ ending' = ending /\ sent' = sent
      BY <1>1 DEF readVars
    <2>2. \A r, a : SentAs(r, a) /\ ReaderIs(r, a) => SentAs(r, a)' /\ ReaderIs(r, a)'
      BY <2>1, Unmoved DEF SentAs
    <2>3. ReaderType'
      BY <2>1 DEF ResponseInv, ReaderType
    <2>4. ASSUME at' = "generating"
          PROVE  \E r \in Responses : \E a \in 0 .. Len(ResponseBytes(r)) : SentAs(r, a)'
                   /\ ReaderIs(r, a)'
      BY <1>1, <2>2, <2>4 DEF ResponseInv
    <2>5. at' # "generating" => reader' = Unread
      BY <1>1, <2>1 DEF ResponseInv
    <2> QED BY <2>3, <2>4, <2>5 DEF ResponseInv
  <1>2. CASE Receives \/ Arrives \/ Garbled \/ Refuse \/ Admit \/ Submit \/ Completes \/ Collect
          \/ Respond
             \/ UNCHANGED vars
    <2>1. UNCHANGED readVars
      BY <1>2 DEF Receives, Arrives, Garbled, Received, Refuse, Admit, Submit, Completes,
         Collect, Respond, vars
    <2>2. at = "generating" <=> at' = "generating"
      BY <1>2 DEF Receives, Arrives, Garbled, Received, Refuse, Admit, Submit, Completes,
         Collect, Respond,
                  vars, wireVars
    <2> QED BY <1>1, <2>1, <2>2
  <1>3. CASE Generate
    <2>1. PICK r \in Responses, how \in {"close", "silence"} :
              \E arrive \in 0 .. Len(HeadsOf(r) \o BodyBytes(r)) : Sends(r, arrive, how)
      BY <1>3 DEF Generate
    <2>2. PICK a \in 0 .. Len(HeadsOf(r) \o BodyBytes(r)) : Sends(r, a, how)
      BY <2>1
    <2>3. SentAs(r, a)' /\ ReaderIs(r, a)' /\ ReaderType' /\ a \in 0 .. Len(ResponseBytes(r))
      BY <2>2, ResponseStarts
    <2>4. at' = "generating"
      BY <1>3 DEF Generate
    <2> QED BY <2>3, <2>4 DEF ResponseInv
  <1>4. CASE Read
    <2>1. at = "generating" /\ at' = at /\ ReadStep /\ sent' = sent
      BY <1>4 DEF Read, ReadStep, wireVars
    <2>2. PICK r \in Responses : \E a \in 0 .. Len(ResponseBytes(r)) : SentAs(r, a)
            /\ ReaderIs(r, a)
      BY <2>1 DEF ResponseInv
    <2>3. PICK a \in 0 .. Len(ResponseBytes(r)) : SentAs(r, a) /\ ReaderIs(r, a)
      BY <2>2
    <2>4. Comes(r, a)
      <3>1. IsResponse(r)
        BY ResponseAssumption
      <3>2. Len(ResponseBytes(r)) \in Nat
        BY <3>1, ResponseLaid DEF Laid
      <3> QED BY <3>1, <3>2 DEF Comes
    <2>5. ReaderType
      BY DEF ResponseInv
    <2>6. ReaderIs(r, a)' /\ ReaderType'
      BY <2>1, <2>3, <2>4, <2>5, ReadOn
    <2>7. SentAs(r, a)'
      BY <2>1, <2>3 DEF SentAs
    <2> QED BY <2>1, <2>6, <2>7 DEF ResponseInv
  <1>5. CASE ReadsDocument \/ ReadsNoDocument
    <2>1. reader' = Unread /\ ending' = "close" /\ at' # "generating"
      BY <1>5 DEF ReadsDocument, ReadsNoDocument, Done
    <2>2. ReaderType'
      BY <2>1, UnreadIn DEF ReaderType
    <2> QED BY <2>1, <2>2 DEF ResponseInv
  <1> QED BY <1>2, <1>3, <1>4, <1>5 DEF Next

\* What the invariant is for.
LEMMA ReadAsFramed == ResponseInv => ResponsesAreReadAsFramed
  <1> SUFFICES ASSUME ResponseInv PROVE ResponsesAreReadAsFramed
    OBVIOUS
  <1>1. CASE at # "generating"
    <2>1. reader = Unread
      BY <1>1 DEF ResponseInv
    <2>2. reader.at = "status"
      BY <2>1 DEF Unread
    <2> QED BY <2>2 DEF ResponsesAreReadAsFramed
  <1>2. CASE at = "generating"
    <2>1. PICK r \in Responses : \E a \in 0 .. Len(ResponseBytes(r)) : SentAs(r, a)
            /\ ReaderIs(r, a)
      BY <1>2 DEF ResponseInv
    <2>2. PICK a \in 0 .. Len(ResponseBytes(r)) : SentAs(r, a) /\ ReaderIs(r, a)
      BY <2>1
    <2>3. /\ sent.status = r.status /\ sent.n = Sum(r.pieces) /\ sent.framing = Framing(r.headers)
          /\ sent.whole = (a = Len(ResponseBytes(r))) /\ sent.sound = IsSound(r)
      BY <2>2 DEF SentAs
    <2>4. reader.at = "read" => HasRead(r, a)
      BY <2>2 DEF ReaderIs, AtStatus, AtHeader, AtExact, AtRest, AtSize, AtChunk, AtAfter, HasFailed
    <2>5. reader.at = "failed" => HasFailed(r, a)
      BY <2>2 DEF ReaderIs, AtStatus, AtHeader, AtExact, AtRest, AtSize, AtChunk, AtAfter, HasRead
    <2> QED BY <2>3, <2>4, <2>5 DEF HasRead, HasFailed, ResponsesAreReadAsFramed
  <1> QED BY <1>1, <1>2

\* MessagesAreReadAsFramed, for every request and every response that may come
\* and wherever their bytes end: what is taken for a request, or for the
\* upstream's words, is what the other side framed.
THEOREM MessagesAreRead == Spec => []MessagesAreReadAsFramed
  <1>1. Spec => []ResponsesAreReadAsFramed
    BY ResponseInit, ResponseStep, ReadAsFramed, PTL DEF Spec
  <1>2. RequestsAreReadAsSent /\ ResponsesAreReadAsFramed => MessagesAreReadAsFramed
    BY DEF MessagesAreReadAsFramed
  <1> QED BY <1>1, <1>2, RequestsAreRead, PTL

-----------------------------------------------------------------------------
(* The query of the mod                                                     *)

\* An escape is two digits, and stands for one character.
LEMMA EscapeCodes ==
    ASSUME NEW c \in DOMAIN Escape
    PROVE  \E x, y \in Hex : Escape[c] = <<x, y>> /\ Escaped(<<x, y>>) = c
  <1> DEFINE E == DOMAIN Escape
             two == {" ", "%", "&", "(", ")", "+", "-", ".", "/"}
             three == {"=", "<thi", "nk>", "</thi"}
             seven == {"{", "|", "}"}
             a(d) == IF d \in two THEN "2" ELSE IF d \in three THEN "3"
                     ELSE IF d \in seven THEN "7" ELSE IF d = "^" THEN "5"
                     ELSE IF d = "tab" THEN "0" ELSE "9"
             b(d) == IF d = " " THEN "0" ELSE IF d = "%" THEN "5" ELSE IF d = "&" THEN "6"
                     ELSE IF d = "(" THEN "8" ELSE IF d \in {"+", "{"} THEN "B"
                     ELSE IF d \in {"<thi", "|"} THEN "C" ELSE IF d \in {"-", "=", "}"} THEN "D"
                     ELSE IF d \in {".", "^", "nk>"} THEN "E"
                     ELSE IF d \in {"/", "</thi"} THEN "F" ELSE "9"
  <1>1. E = two \cup three \cup seven \cup {"^", "tab", "rune"}
    BY DEF Escape
  <1>2. \A d \in E : Escape[d] = <<a(d), b(d)>>
    <2> SUFFICES ASSUME NEW d \in E PROVE Escape[d] = <<a(d), b(d)>>
      OBVIOUS
    <2>1. CASE d \in two
      BY <2>1 DEF Escape
    <2>2. CASE d \in three
      BY <2>2 DEF Escape
    <2>3. CASE d \in seven
      BY <2>3 DEF Escape
    <2>4. CASE d \in {"^", "tab", "rune"}
      BY <2>4 DEF Escape
    <2> HIDE DEF two, three, seven
    <2> QED BY <1>1, <2>1, <2>2, <2>3, <2>4
  <1> HIDE DEF E
  <1>3. \A d, e \in E : a(d) = a(e) /\ b(d) = b(e) => d = e
    <2>1. \A d \in two : a(d) = "2"
      OBVIOUS
    <2>2. \A d \in three : a(d) = "3"
      OBVIOUS
    <2>3. \A d \in seven : a(d) = "7"
      OBVIOUS
    <2>4. a("^") = "5" /\ a("tab") = "0" /\ a("rune") = "9"
      OBVIOUS
    <2>5. /\ b(" ") = "0" /\ b("%") = "5" /\ b("&") = "6" /\ b("(") = "8"
          /\ b("-") = "D" /\ b(".") = "E"
      OBVIOUS
    <2>6. b("+") = "B"
      OBVIOUS
    <2>7. b("=") = "D" /\ b("<thi") = "C" /\ b("nk>") = "E" /\ b("</thi") = "F" /\ b("/") = "F"
      OBVIOUS
    <2>8. b(")") = "9" /\ b("{") = "B" /\ b("|") = "C" /\ b("}") = "D"
      OBVIOUS
    <2> HIDE DEF a, b
    <2>9. \A d, e \in two : b(d) = b(e) => d = e
      <3> DEFINE few == {" ", "%", "&", "("}
                 more == {")", "+", "-"}
                 rest == {".", "/"}
      <3>1. few \cup more \cup rest = two
        OBVIOUS
      <3> HIDE DEF two
      <3>2. \A d \in few : b(d) \in {"0", "5", "6", "8"}
        BY <2>5
      <3>3. \A d, e \in few : b(d) = b(e) => d = e
        BY <2>5
      <3>4. \A d \in more : b(d) \in {"9", "B", "D"}
        BY <2>5, <2>6, <2>8
      <3>5. \A d, e \in more : b(d) = b(e) => d = e
        BY <2>5, <2>6, <2>8
      <3>6. \A d \in rest : b(d) \in {"E", "F"}
        BY <2>5, <2>7
      <3>7. \A d, e \in rest : b(d) = b(e) => d = e
        BY <2>5, <2>7
      <3>8. /\ {"0", "5", "6", "8"} \cap {"9", "B", "D"} = {}
            /\ {"0", "5", "6", "8"} \cap {"E", "F"} = {} /\ {"9", "B", "D"} \cap {"E", "F"} = {}
        OBVIOUS
      <3> HIDE DEF few, more, rest
      <3> QED BY <3>1, <3>2, <3>3, <3>4, <3>5, <3>6, <3>7, <3>8
    <2>10. \A d, e \in three : b(d) = b(e) => d = e
      BY <2>5, <2>6, <2>7, <2>8
    <2>11. \A d, e \in seven : b(d) = b(e) => d = e
      BY <2>5, <2>6, <2>7, <2>8
    <2> HIDE DEF two, three, seven
    <2> QED BY <1>1, <2>1, <2>2, <2>3, <2>4, <2>9, <2>10, <2>11
  <1>4. \A d \in E : a(d) \in Hex /\ b(d) \in Hex
    BY DEF Hex
  <1> HIDE DEF a, b
  <1>5. \A d, e \in E : Escape[d] = Escape[e] => d = e
    <2> SUFFICES ASSUME NEW d \in E, NEW e \in E, Escape[d] = Escape[e] PROVE d = e
      OBVIOUS
    <2>1. <<a(d), b(d)>> = <<a(e), b(e)>>
      BY <1>2
    <2>2. a(d) = a(e) /\ b(d) = b(e)
      BY <2>1
    <2> QED BY <1>3, <2>2
  <1>6. Escaped(Escape[c]) = c
    <2> DEFINE found == {d \in DOMAIN Escape : Escape[d] = Escape[c]}
    <2>1. found = {c}
      BY <1>5 DEF E
    <2> QED BY <2>1 DEF Escaped
  <1>7. c \in E
    BY DEF E
  <1> QED BY <1>2, <1>4, <1>6, <1>7

\* One element and two, put together.
LEMMA OneAndTwo ==
    ASSUME NEW S, NEW x \in S, NEW y \in S, NEW z \in S
    PROVE  <<x>> \o <<y, z>> = <<x, y, z>>
  <1> DEFINE s == <<x>>
             t == <<y, z>>
             b == <<x, y, z>>
  <1>1. s \in Seq(S) /\ t \in Seq(S) /\ b \in Seq(S)
    BY ShortSeqs
  <1>2. /\ Len(s) = 1 /\ s[1] = x /\ Len(t) = 2 /\ t[1] = y /\ t[2] = z
        /\ Len(b) = 3 /\ b[1] = x /\ b[2] = y /\ b[3] = z
    OBVIOUS
  <1> DEFINE a == s \o t
  <1>3. a \in Seq(S) /\ Joined(a, s, Len(s), t, Len(t))
    BY <1>1, ConcatAt
  <1> HIDE DEF a, b, s, t
  <1>4. Len(a) = 3 /\ a[1] = x /\ a[2] = y /\ a[3] = z
    <2>1. 1 \in 1 .. 1 /\ 1 \in 1 .. 2 /\ 2 \in 1 .. 2 /\ 1 + 1 = 2 /\ 1 + 2 = 3
      OBVIOUS
    <2> QED BY <1>2, <1>3, <2>1 DEF Joined
  <1>5. \A i \in 1 .. 3 : i = 1 \/ i = 2 \/ i = 3
    OBVIOUS
  <1>6. Len(a) = Len(b) /\ \A i \in 1 .. Len(a) : a[i] = b[i]
    BY <1>2, <1>4, <1>5
  <1>7. a = b
    BY <1>1, <1>3, <1>6, SeqEqual
  <1> QED BY <1>7 DEF a, b, s, t

\* The characters of queries, of values over S.
Wide(S) == S \cup Keys \cup DOMAIN Escape \cup Hex

\* What is among them, and that no digit and no key is encoded.
LEMMA WideHas ==
    ASSUME NEW S
    PROVE  /\ S \subseteq Wide(S) /\ Keys \subseteq Wide(S) /\ Hex \subseteq Wide(S)
           /\ DOMAIN Escape \subseteq Wide(S)
           /\ {" ", "%", "&", "+", "=", "rune"} \subseteq DOMAIN Escape
           /\ DOMAIN Escape \cap (Hex \cup Keys) = {}
  <1>1. DOMAIN Escape = {" ", "%", "&", "(", ")", "+", "-", ".", "/", "=", "^", "{", "|", "}",
                         "<thi", "</thi", "nk>", "tab", "rune"}
    BY DEF Escape
  <1>2. S \subseteq Wide(S) /\ Keys \subseteq Wide(S) /\ Hex \subseteq Wide(S)
          /\ DOMAIN Escape \subseteq Wide(S)
    BY DEF Wide
  <1>3. \A c \in DOMAIN Escape : c \notin Hex
    BY <1>1 DEF Hex
  <1>4. \A c \in DOMAIN Escape : c \notin Keys
    BY <1>1 DEF Keys
  <1> QED BY <1>1, <1>2, <1>3, <1>4

\* What a character is encoded as.
Coded(c, x) ==
    \/ Len(x) = 1 /\ x[1] = c /\ c \notin {"%", "+"}
    \/ Len(x) = 3 /\ x[1] = "%" /\ x[2] \in Hex /\ x[3] \in Hex /\ Escaped(<<x[2], x[3]>>) = c

\* A character is encoded so, and without a separator.
LEMMA CodeOf ==
    ASSUME NEW S, NEW c \in S
    PROVE  EncodedAs(c) \in Seq(Wide(S)) /\ Without("&", EncodedAs(c)) /\ Coded(c, EncodedAs(c))
  <1> DEFINE W == Wide(S)
  <1>1. CASE c \in DOMAIN Escape
    <2>1. PICK x, y \in Hex : Escape[c] = <<x, y>> /\ Escaped(<<x, y>>) = c
      BY <1>1, EscapeCodes
    <2>0. "%" \in W /\ x \in W /\ y \in W
      BY WideHas
    <2>2. <<"%">> \o <<x, y>> = <<"%", x, y>>
      <3> HIDE DEF W
      <3> QED BY <2>0, OneAndTwo
    <2> DEFINE z == <<"%", x, y>>
    <2>3. EncodedAs(c) = z
      BY <1>1, <2>1, <2>2 DEF EncodedAs
    <2>4. "%" \in W /\ x \in W /\ y \in W /\ "%" # "&" /\ x # "&" /\ y # "&"
      BY WideHas
    <2>5. z \in Seq(W)
      BY <2>4, ShortSeqs
    <2>6. Len(z) = 3 /\ z[1] = "%" /\ z[2] = x /\ z[3] = y
      OBVIOUS
    <2> HIDE DEF z
    <2>7. Without("&", z)
      <3>1. \A i \in 1 .. 3 : i = 1 \/ i = 2 \/ i = 3
        OBVIOUS
      <3> QED BY <2>4, <2>6, <3>1 DEF Without
    <2> QED BY <2>1, <2>3, <2>5, <2>6, <2>7 DEF Coded
  <1>2. CASE c \notin DOMAIN Escape
    <2> DEFINE z == <<c>>
    <2>1. EncodedAs(c) = z
      BY <1>2 DEF EncodedAs
    <2>2. c \in W /\ c # "&" /\ c # "%" /\ c # "+"
      BY <1>2, WideHas
    <2>3. z \in Seq(W) /\ Len(z) = 1 /\ z[1] = c
      BY <2>2, ShortSeqs
    <2> HIDE DEF z
    <2>4. Without("&", z)
      BY <2>2, <2>3 DEF Without
    <2> QED BY <2>1, <2>2, <2>3, <2>4 DEF Coded
  <1> QED BY <1>1, <1>2

\* A text is encoded so, one character after the other.
LEMMA CodesOf ==
    ASSUME NEW S, NEW v \in Seq(S), NEW ss, ss = [i \in DOMAIN v |-> EncodedAs(v[i])]
    PROVE  /\ Encode(v) = FlattenSeq(ss) /\ ss \in Seq(Seq(Wide(S))) /\ Len(ss) = Len(v)
           /\ \A i \in 1 .. Len(v) : ss[i] \in Seq(Wide(S)) /\ Without("&", ss[i])
                                       /\ Coded(v[i], ss[i])
  <1> DEFINE n == Len(v)
             A == Seq(Wide(S))
             g(i) == EncodedAs(v[i])
  <1>1. n \in Nat /\ DOMAIN v = 1 .. n
    BY LenProperties
  <1>2. Encode(v) = FlattenSeq(ss)
    BY DEF Encode
  <1>3. \A i \in 1 .. n : g(i) \in A /\ Without("&", g(i)) /\ Coded(v[i], g(i))
    <2> SUFFICES ASSUME NEW i \in 1 .. n PROVE g(i) \in A /\ Without("&", g(i)) /\ Coded(v[i], g(i))
      OBVIOUS
    <2>1. v[i] \in S
      BY ElementOfSeq
    <2> QED BY <2>1, CodeOf
  <1>4. ss = [i \in 1 .. n |-> g(i)]
    BY <1>1
  <1> HIDE DEF A, g, n
  <1>5. ss \in Seq(A) /\ Len(ss) = n /\ \A i \in 1 .. n : ss[i] = g(i)
    BY <1>1, <1>3, <1>4
  <1> QED BY <1>2, <1>3, <1>5 DEF A, n

\* Decoding, one character at a time.
DecodingType(S) == [out : Seq(S), skip : 0 .. 2]
Undecoded       == [out |-> <<>>, skip |-> 0]
Decoding(g, s) ==
    g = [i \in 0 .. Len(s) |-> IF i = 0 THEN Undecoded ELSE Decodes(g[i - 1], s, i)]

\* A character that is no part of an escape is decoded as itself.
LEMMA DecodesPlain ==
    ASSUME NEW u, NEW s, NEW i, s[i] \notin {"%", "+"}
    PROVE  Decodes([out |-> u, skip |-> 0], s, i) = [out |-> Append(u, s[i]), skip |-> 0]
  <1> DEFINE c == s[i]
  <1>1. ~IsEscape(s, i)
    BY DEF IsEscape
  <1>2. c # "+"
    OBVIOUS
  <1> HIDE DEF c
  <1>3. ~(0 > 0)
    OBVIOUS
  <1>4. [[out |-> u, skip |-> 0] EXCEPT !.out = Append(@, c)] = [out |-> Append(u, c), skip |-> 0]
    OBVIOUS
  <1>5. Decodes([out |-> u, skip |-> 0], s, i)
          = [[out |-> u, skip |-> 0] EXCEPT !.out = Append(@, c)]
    BY <1>1, <1>2, <1>3 DEF Decodes, c
  <1> QED BY <1>4, <1>5 DEF c

\* An escape is decoded where it begins.
LEMMA DecodesEscape ==
    ASSUME NEW u, NEW s, NEW i, IsEscape(s, i)
    PROVE  Decodes([out |-> u, skip |-> 0], s, i)
               = [out |-> Append(u, Escaped(<<s[i + 1], s[i + 2]>>)), skip |-> 2]
  BY DEF Decodes

\* Its digits are passed over.
LEMMA DecodesDigit ==
    ASSUME NEW u, NEW s, NEW i, NEW k \in {1, 2}
    PROVE  Decodes([out |-> u, skip |-> k], s, i) = [out |-> u, skip |-> k - 1]
  <1>1. k > 0
    OBVIOUS
  <1>2. [[out |-> u, skip |-> k] EXCEPT !.skip = @ - 1] = [out |-> u, skip |-> k - 1]
    OBVIOUS
  <1> QED BY <1>1, <1>2 DEF Decodes

\* One character more makes a decoding of a decoding.
LEMMA DecodesType ==
    ASSUME NEW S, DOMAIN Escape \subseteq S, NEW s \in Seq(S), NEW d \in DecodingType(S),
           NEW i \in 1 .. Len(s)
    PROVE  Decodes(d, s, i) \in DecodingType(S)
  <1>1. s[i] \in S /\ " " \in S /\ "rune" \in S
    BY ElementOfSeq, WideHas
  <1>2. \A hex : Escaped(hex) \in S
    <2>1. ASSUME NEW hex PROVE Escaped(hex) \in S
      <3> DEFINE found == {c \in DOMAIN Escape : Escape[c] = hex}
      <3>1. found # {} => (CHOOSE c \in found : TRUE) \in found
        OBVIOUS
      <3> QED BY <1>1, <3>1 DEF Escaped
    <2> QED BY <2>1
  <1>3. d.out \in Seq(S) /\ d.skip \in 0 .. 2 /\ d = [out |-> d.out, skip |-> d.skip]
    BY DEF DecodingType
  <1>4. \A c \in S : Append(d.out, c) \in Seq(S)
    BY <1>3, AppendProperties
  <1>5. CASE d.skip > 0
    <2>1. Decodes(d, s, i) = [out |-> d.out, skip |-> d.skip - 1]
      BY <1>3, <1>5 DEF Decodes
    <2> QED BY <1>3, <1>5, <2>1 DEF DecodingType
  <1>6. CASE d.skip = 0 /\ IsEscape(s, i)
    <2>1. Decodes(d, s, i) = [out |-> Append(d.out, Escaped(<<s[i + 1], s[i + 2]>>)), skip |-> 2]
      BY <1>6 DEF Decodes
    <2>2. Append(d.out, Escaped(<<s[i + 1], s[i + 2]>>)) \in Seq(S)
      BY <1>2, <1>4
    <2> QED BY <2>1, <2>2 DEF DecodingType
  <1>7. CASE d.skip = 0 /\ ~IsEscape(s, i)
    <2> DEFINE c == IF s[i] = "+" THEN " " ELSE s[i]
    <2>1. ~(d.skip > 0)
      BY <1>7
    <2>2. Decodes(d, s, i) = [d EXCEPT !.out = Append(@, c)]
      BY <1>7, <2>1 DEF Decodes
    <2>3. Append(d.out, c) \in Seq(S)
      BY <1>1, <1>4
    <2> HIDE DEF c
    <2>4. Decodes(d, s, i) = [out |-> Append(d.out, c), skip |-> d.skip]
      BY <1>3, <2>2
    <2> QED BY <1>3, <2>3, <2>4 DEF DecodingType
  <1> QED BY <1>3, <1>5, <1>6, <1>7

\* Every text has its decoding, and PercentDecode is what it ends with.
LEMMA DecodingOfText ==
    ASSUME NEW S, DOMAIN Escape \subseteq S, NEW s \in Seq(S)
    PROVE  \E g : Decoding(g, s) /\ PercentDecode(s) = g[Len(s)].out
  <1> DEFINE n == Len(s)
             T == DecodingType(S)
             step == [i \in 1 .. n |-> [x \in T |-> Decodes(x, s, i)]]
             g == CHOOSE f : Decoding(f, s)
  <1>1. n \in Nat
    BY LenProperties
  <1>2. Undecoded \in T
    BY EmptySeq DEF Undecoded, DecodingType
  <1>3. Steps(step, n, T)
    <2>1. \A i \in 1 .. n : \A x \in T : Decodes(x, s, i) \in T
      BY DecodesType
    <2> HIDE DEF T, n
    <2> QED BY <2>1 DEF Steps
  <1>4. PICK f : Loop(f, T, Undecoded, n, step)
    <2> HIDE DEF n, step, T
    <2> QED BY <1>1, <1>2, <1>3, Iterates
  <1>5. \A i \in 0 .. n : f[i] = IF i = 0 THEN Undecoded ELSE Decodes(f[i - 1], s, i)
    <2> SUFFICES ASSUME NEW i \in 0 .. n, i # 0 PROVE f[i] = Decodes(f[i - 1], s, i)
      BY <1>4 DEF Loop
    <2>1. i \in 1 .. n /\ i - 1 \in 0 .. n /\ f[i - 1] \in T
      BY <1>1, <1>4 DEF Loop
    <2> QED BY <1>4, <2>1 DEF Loop
  <1>6. Decoding(f, s)
    BY <1>4, <1>5 DEF Decoding, Loop
  <1>7. Decoding(g, s)
    BY <1>6
  <1>8. PercentDecode(s) = g[n].out
    BY DEF PercentDecode, Decoding, Undecoded
  <1> QED BY <1>7, <1>8

\* The encoded text has no & in it, and begins as its first characters are encoded.
LEMMA EncodedIsClean ==
    ASSUME NEW S, NEW v \in Seq(S)
    PROVE  Encode(v) \in Seq(Wide(S)) /\ Without("&", Encode(v))
  <1> DEFINE W == Wide(S)
             T == W \ {"&"}
             ss == [i \in DOMAIN v |-> EncodedAs(v[i])]
             n == Len(v)
  <1>1. /\ Encode(v) = FlattenSeq(ss) /\ ss \in Seq(Seq(W)) /\ Len(ss) = n
        /\ \A i \in 1 .. n : ss[i] \in Seq(W) /\ Without("&", ss[i])
    BY CodesOf
  <1>0. n \in Nat
    BY LenProperties
  <1> HIDE DEF ss, n
  <1>2. \A i \in 1 .. n : ss[i] \in Seq(T)
    <2> SUFFICES ASSUME NEW i \in 1 .. n PROVE ss[i] \in Seq(T)
      OBVIOUS
    <2> DEFINE x == ss[i]
    <2>1. x \in Seq(W) /\ Without("&", x)
      BY <1>1
    <2>2. Len(x) \in Nat /\ x = [j \in 1 .. Len(x) |-> x[j]]
      BY <2>1, LenProperties
    <2>3. \A j \in 1 .. Len(x) : x[j] \in T
      BY <2>1, ElementOfSeq DEF Without
    <2> HIDE DEF x, T
    <2>4. x \in Seq(T)
      BY <2>2, <2>3
    <2> QED BY <2>4 DEF x
  <1> DEFINE A == Seq(T)
  <1>3. ss = [i \in 1 .. n |-> ss[i]]
    BY <1>1, LenProperties
  <1>4. ss \in Seq(A)
    <2> HIDE DEF A
    <2> QED BY <1>0, <1>2, <1>3 DEF A
  <1>5. PICK f : f \in [0 .. Len(ss) -> Seq(T)] /\ FlattenSeq(ss) = f[Len(ss)]
    BY <1>4, FlattenOfPieces
  <1>6. Encode(v) \in Seq(T)
    BY <1>0, <1>1, <1>5
  <1>7. \A x \in Seq(T) : x \in Seq(W) /\ Without("&", x)
    <2> SUFFICES ASSUME NEW x \in Seq(T) PROVE x \in Seq(W) /\ Without("&", x)
      OBVIOUS
    <2>1. Len(x) \in Nat /\ x = [j \in 1 .. Len(x) |-> x[j]]
      BY LenProperties
    <2>2. \A j \in 1 .. Len(x) : x[j] \in W /\ x[j] # "&"
      BY ElementOfSeq
    <2> HIDE DEF W, T
    <2> QED BY <2>1, <2>2 DEF Without
  <1> QED BY <1>6, <1>7

\* Decoding gives back what was encoded.
LEMMA DecodedAsEncoded ==
    ASSUME NEW S, NEW v \in Seq(S)
    PROVE  PercentDecode(Encode(v)) = v
  <1> DEFINE W == Wide(S)
             ss == [i \in DOMAIN v |-> EncodedAs(v[i])]
             n == Len(v)
             s == Encode(v)
             ps == [i \in 1 .. n |-> Len(ss[i])]
             e == Ends(ps)
  <1>0. n \in Nat
    BY LenProperties
  <1>1. /\ s = FlattenSeq(ss) /\ ss \in Seq(Seq(W)) /\ Len(ss) = n
        /\ \A i \in 1 .. n : ss[i] \in Seq(W) /\ Coded(v[i], ss[i])
    BY CodesOf
  <1> HIDE DEF ss, n, W
  <1>2. Len(ps) = n /\ \A i \in 1 .. n : ps[i] = Len(ss[i]) /\ ps[i] \in Nat
    <2>1. \A i \in 1 .. n : Len(ss[i]) \in Nat
      BY <1>1, LenProperties
    <2> QED BY <1>0, <2>1
  <1> HIDE DEF ps
  <1>3. Totals(e, ps, n)
    BY <1>0, <1>2, EndsOf
  <1> HIDE DEF e, s
  <1>4. s \in Seq(W) /\ Len(s) = e[n] /\ \A k \in 1 .. n : Sits(ss[k], s, e[k - 1])
    <2>1. n = Len(ss) /\ \A i \in 1 .. n : ps[i] = Len(ss[i])
      BY <1>1, <1>2
    <2>2. /\ FlattenSeq(ss) \in Seq(W) /\ Len(FlattenSeq(ss)) = e[n]
          /\ \A k \in 1 .. n : Sits(ss[k], FlattenSeq(ss), e[k - 1])
      BY <1>1, <1>3, <2>1, PiecesSit
    <2> QED BY <1>1, <2>2
  <1>5. PICK g : Decoding(g, s) /\ PercentDecode(s) = g[Len(s)].out
    BY <1>4, WideHas, DecodingOfText DEF W
  <1>6. Len(s) \in Nat /\ g[0] = Undecoded /\ \A i \in 1 .. Len(s) : g[i] = Decodes(g[i - 1], s, i)
    <2>1. Len(s) \in Nat
      BY <1>4, LenProperties
    <2>2. 0 \in 0 .. Len(s) /\ \A i \in 1 .. Len(s) : i \in 0 .. Len(s) /\ i # 0
      BY <2>1
    <2> QED BY <1>5, <2>1, <2>2 DEF Decoding
  <1> DEFINE done(k) == [out |-> SubSeq(v, 1, k), skip |-> 0]
             X == {k \in 0 .. n : g[e[k]] = done(k)}
  <1>7. 0 \in X
    <2>1. SubSeq(v, 1, 0) = <<>>
      BY SubSeqEmpty
    <2>2. e[0] = 0 /\ 0 \in 0 .. n
      BY <1>0, <1>3 DEF Totals
    <2> QED BY <1>6, <2>1, <2>2 DEF Undecoded
  <1>8. ASSUME NEW k \in 0 + 1 .. n, k - 1 \in X PROVE k \in X
    <2> DEFINE p == e[k - 1]
               u == SubSeq(v, 1, k - 1)
               x == ss[k]
               c == v[k]
    <2>1. k \in 1 .. n /\ k \in 0 .. n
      BY <1>0
    <2>2. p \in Nat /\ e[k] = p + Len(x)
      <3>1. k - 1 \in 0 .. n
        BY <1>0, <2>1
      <3> QED BY <1>2, <1>3, <2>1, <3>1 DEF Totals
    <2>3. SubSeq(v, 1, k) = Append(u, c)
      BY <2>1, PrefixGrows DEF n
    <2>4. g[p] = [out |-> u, skip |-> 0]
      BY <1>8
    <2>5. Coded(c, x) /\ p + Len(x) <= Len(s) /\ \A j \in 1 .. Len(x) : s[p + j] = x[j]
      BY <1>1, <1>4, <2>1 DEF Sits
    <2> HIDE DEF p, u, x, c
    <2>6. g[p + Len(x)] = [out |-> Append(u, c), skip |-> 0]
      <3>1. CASE Len(x) = 1 /\ x[1] = c /\ c \notin {"%", "+"}
        <4> DEFINE i == p + 1
        <4>1. i \in 1 .. Len(s) /\ i - 1 = p /\ s[i] = c
          <5>1. 1 \in 1 .. Len(x)
            BY <3>1
          <5> QED BY <1>6, <2>2, <2>5, <3>1, <5>1
        <4>2. g[i] = Decodes(g[p], s, i)
          BY <1>6, <4>1
        <4>3. i = p + Len(x)
          BY <3>1
        <4> HIDE DEF i
        <4>4. g[i] = [out |-> Append(u, s[i]), skip |-> 0]
          BY <2>4, <3>1, <4>1, <4>2, DecodesPlain
        <4> QED BY <4>1, <4>3, <4>4
      <3>2. CASE /\ Len(x) = 3 /\ x[1] = "%" /\ x[2] \in Hex /\ x[3] \in Hex
                 /\ Escaped(<<x[2], x[3]>>) = c
        <4> DEFINE i == p + 1
                   j == p + 2
                   k3 == p + 3
                   uc == Append(u, c)
        <4>1. /\ i \in 1 .. Len(s) /\ j \in 1 .. Len(s) /\ k3 \in 1 .. Len(s)
              /\ i - 1 = p /\ j - 1 = i /\ k3 - 1 = j /\ i + 1 = j /\ i + 2 = k3 /\ k3 <= Len(s)
          BY <1>6, <2>2, <2>5, <3>2
        <4>2. s[i] = x[1] /\ s[j] = x[2] /\ s[k3] = x[3]
          <5>1. 1 \in 1 .. Len(x) /\ 2 \in 1 .. Len(x) /\ 3 \in 1 .. Len(x)
            BY <3>2
          <5> QED BY <2>5, <5>1
        <4>3. k3 = p + Len(x)
          BY <3>2
        <4>4. g[i] = Decodes(g[p], s, i) /\ g[j] = Decodes(g[i], s, j) /\ g[k3] = Decodes(g[j], s, k3)
          BY <1>6, <4>1
        <4> HIDE DEF i, j, k3
        <4>5. IsEscape(s, i)
          BY <3>2, <4>1, <4>2 DEF IsEscape
        <4>6. g[i] = [out |-> uc, skip |-> 2]
          <5>1. g[i] = [out |-> Append(u, Escaped(<<s[i + 1], s[i + 2]>>)), skip |-> 2]
            BY <2>4, <4>4, <4>5, DecodesEscape
          <5> QED BY <3>2, <4>1, <4>2, <5>1
        <4> HIDE DEF uc
        <4>7. g[j] = [out |-> uc, skip |-> 1]
          <5>1. Decodes([out |-> uc, skip |-> 2], s, j) = [out |-> uc, skip |-> 2 - 1]
            BY DecodesDigit
          <5> QED BY <4>4, <4>6, <5>1
        <4>8. g[k3] = [out |-> uc, skip |-> 0]
          <5>1. Decodes([out |-> uc, skip |-> 1], s, k3) = [out |-> uc, skip |-> 1 - 1]
            BY DecodesDigit
          <5> QED BY <4>4, <4>7, <5>1
        <4> QED BY <4>3, <4>8 DEF uc
      <3> QED BY <2>5, <3>1, <3>2 DEF Coded
    <2> QED BY <2>1, <2>2, <2>3, <2>6
  <1> HIDE DEF X
  <1>9. n \in X
    <2>1. 0 \in Nat /\ n \in 0 .. n
      BY <1>0
    <2> QED BY <1>0, <1>7, <1>8, <2>1, UpTo
  <1>10. SubSeq(v, 1, n) = v
    BY SliceEnds DEF n, Slice
  <1>11. g[e[n]].out = v
    BY <1>9, <1>10 DEF X
  <1> QED BY <1>4, <1>5, <1>11 DEF s

\* Most characters are encoded as they are.
LEMMA EncodedAsIs ==
    ASSUME NEW S, NEW v \in Seq(S), \A i \in 1 .. Len(v) : v[i] \notin DOMAIN Escape
    PROVE  Encode(v) = v /\ PercentDecode(v) = v
  <1>1. DOMAIN v = 1 .. Len(v)
    BY LenProperties
  <1>2. [i \in DOMAIN v |-> EncodedAs(v[i])] = [i \in DOMAIN v |-> <<v[i]>>]
    BY <1>1 DEF EncodedAs
  <1>3. Encode(v) = v
    BY <1>2, FlattenOnes DEF Encode
  <1>4. PercentDecode(Encode(v)) = v
    BY DecodedAsEncoded
  <1> QED BY <1>3, <1>4

\* Nothing is decoded as nothing, and a character that is no escape as itself.
LEMMA DecodedShort ==
    /\ PercentDecode(<<>>) = <<>>
    /\ \A c : c \notin DOMAIN Escape => PercentDecode(<<c>>) = <<c>>
  <1>1. PercentDecode(<<>>) = <<>>
    <2> DEFINE s == <<>>
    <2>1. s \in Seq({}) /\ Len(s) = 0
      BY EmptySeq
    <2>2. \A i \in 1 .. Len(s) : s[i] \notin DOMAIN Escape
      BY <2>1
    <2> HIDE DEF s
    <2>3. PercentDecode(s) = s
      BY <2>1, <2>2, EncodedAsIs
    <2> QED BY <2>3 DEF s
  <1>2. ASSUME NEW c, c \notin DOMAIN Escape PROVE PercentDecode(<<c>>) = <<c>>
    <2> DEFINE s == <<c>>
               C == {c}
    <2>1. s \in Seq(C) /\ Len(s) = 1 /\ s[1] = c
      BY ShortSeqs
    <2>2. \A i \in 1 .. Len(s) : s[i] \notin DOMAIN Escape
      BY <1>2, <2>1
    <2> HIDE DEF s, C
    <2>3. PercentDecode(s) = s
      BY <2>1, <2>2, EncodedAsIs
    <2> QED BY <2>3 DEF s
  <1> QED BY <1>1, <1>2

\* A part that begins with a key, and then has an = or ends.
LEMMA ParameterOf ==
    ASSUME NEW S, NEW x \in Seq(S), NEW c, c \notin DOMAIN Escape, Len(x) > 0, x[1] = c,
           Len(x) > 1 => x[2] = "="
    PROVE  Parameter(x) = [key |-> <<c>>, val |-> PercentDecode(SubSeq(x, 3, Len(x)))]
  <1> DEFINE n == Len(x)
             ends == {n + 1} \cup {i \in DOMAIN x : x[i] = "="}
             cut == Min(ends)
  <1>1. n \in Nat /\ DOMAIN x = 1 .. n /\ n > 0
    BY LenProperties
  <1>2. c # "="
    BY WideHas
  <1>3. cut = 2
    <2>1. 2 \in ends
      BY <1>1
    <2>2. \A i \in ends : i \in Nat /\ 2 <= i
      BY <1>1, <1>2
    <2> HIDE DEF ends
    <2> QED BY <2>1, <2>2 DEF Min
  <1>4. SubSeq(x, 1, cut - 1) = <<c>>
    <2> DEFINE y == SubSeq(x, 1, 1)
               z == <<c>>
    <2>1. 1 \in Nat /\ 1 <= Len(x)
      BY <1>1
    <2>2. y \in Seq(S) /\ Len(y) = 1 /\ \A i \in 1 .. 1 : y[i] = x[i]
      BY <2>1, PrefixAt
    <2>3. c \in S
      BY <1>1, ElementOfSeq
    <2>4. z \in Seq(S) /\ Len(z) = 1 /\ z[1] = c
      BY <2>3, ShortSeqs
    <2> HIDE DEF y, z
    <2>5. \A i \in 1 .. Len(y) : y[i] = z[i]
      BY <2>2, <2>4
    <2>6. y = z
      BY <2>2, <2>4, <2>5, SeqEqual
    <2>7. cut - 1 = 1
      BY <1>3
    <2> QED BY <2>6, <2>7 DEF y, z
  <1>5. cut + 1 = 3
    BY <1>3
  <1>6. PercentDecode(<<c>>) = <<c>>
    BY DecodedShort
  <1>7. Parameter(x) = [key |-> PercentDecode(SubSeq(x, 1, cut - 1)),
                        val |-> PercentDecode(SubSeq(x, cut + 1, Len(x)))]
    BY DEF Parameter
  <1> HIDE DEF cut
  <1> QED BY <1>4, <1>5, <1>6, <1>7

\* h[k] joins the first k parts.
JoinLoop(h, parts, S) ==
    /\ h \in [1 .. Len(parts) -> Seq(S)]
    /\ h[1] = parts[1]
    /\ \A k \in 2 .. Len(parts) : h[k] = h[k - 1] \o (<<"&">> \o parts[k])

\* There is such a loop.
LEMMA JoiningOf ==
    ASSUME NEW S, "&" \in S, NEW parts \in Seq(Seq(S)), parts # <<>>
    PROVE  \E h : JoinLoop(h, parts, S) /\ Join(parts) = h[Len(parts)]
  <1> DEFINE n == Len(parts)
             A == Seq(S)
             e == <<"&">>
             ss == [i \in 1 .. n - 1 |-> e \o parts[i + 1]]
             first == parts[1]
  <1>1. n \in Nat \ {0} /\ \A i \in 1 .. n : parts[i] \in A
    BY EmptySeq, ElementOfSeq
  <1>2. e \in A
    BY ShortSeqs
  <1>3. \A x, y \in A : x \o y \in A
    BY ConcatProperties
  <1>4. Associative(A)
    BY JoinsAssociate
  <1>5. \A x \in A : x \o <<>> = x
    BY ConcatEmptySeq
  <1>0. Join(parts) = first \o FlattenSeq(ss)
    BY DEF Join
  <1> HIDE DEF n, e
  <1>6. \A i \in 1 .. n - 1 : i + 1 \in 1 .. n
    BY <1>1
  <1>7. ss \in Seq(A) /\ Len(ss) = n - 1 /\ \A i \in 1 .. n - 1 : ss[i] = e \o parts[i + 1]
    <2>1. \A i \in 1 .. n - 1 : e \o parts[i + 1] \in A
      BY <1>1, <1>2, <1>3, <1>6
    <2>2. n - 1 \in Nat
      BY <1>1
    <2> DEFINE g(i) == e \o parts[i + 1]
               m == n - 1
    <2>3. m \in Nat /\ ss = [i \in 1 .. m |-> g(i)] /\ \A i \in 1 .. m : g(i) \in A
      BY <2>1, <2>2
    <2> HIDE DEF g, m, ss, A
    <2>4. ss \in Seq(A) /\ Len(ss) = m /\ \A i \in 1 .. m : ss[i] = g(i)
      BY <2>3
    <2> QED BY <2>4 DEF g, m
  <1> HIDE DEF ss
  <1>8. PICK f : f \in [0 .. Len(ss) -> A] /\ Flattens(f, ss) /\ FlattenSeq(ss) = f[Len(ss)]
    BY <1>7, FlattenOfPieces
  <1>9. /\ f \in [0 .. n - 1 -> A] /\ f[0] = <<>> /\ FlattenSeq(ss) = f[n - 1]
        /\ \A i \in 1 .. n - 1 : f[i] = f[i - 1] \o ss[i]
    BY <1>7, <1>8 DEF Flattens
  <1> DEFINE h == [k \in 1 .. n |-> first \o f[k - 1]]
  <1>10. first \in A
    BY <1>1
  <1> HIDE DEF A, first
  <1>11. \A k \in 1 .. n : k - 1 \in 0 .. n - 1 /\ f[k - 1] \in A
    BY <1>1, <1>9
  <1>12. h \in [1 .. n -> A]
    BY <1>3, <1>10, <1>11
  <1>13. h[1] = first
    <2>1. 1 \in 1 .. n /\ 1 - 1 = 0
      BY <1>1
    <2> QED BY <1>5, <1>9, <1>10, <2>1
  <1>14. ASSUME NEW k \in 2 .. n PROVE h[k] = h[k - 1] \o (e \o parts[k])
    <2> DEFINE j == k - 1
               x == f[j - 1]
               y == ss[j]
    <2>1. k \in 1 .. n /\ j \in 1 .. n /\ j \in 1 .. n - 1 /\ j + 1 = k /\ j = k - 1
      BY <1>1
    <2>2. x \in A /\ f[j] = x \o y /\ y = e \o parts[k] /\ y \in A
      <3>1. j - 1 \in 0 .. n - 1
        BY <1>1, <2>1
      <3>2. parts[k] \in A
        BY <1>1, <2>1
      <3> HIDE DEF j
      <3> QED BY <1>2, <1>3, <1>7, <1>9, <2>1, <3>1, <3>2
    <2>3. h[k] = first \o f[j] /\ h[j] = first \o x
      <3> HIDE DEF j
      <3> QED BY <2>1
    <2> HIDE DEF x, y, j, h
    <2>4. (first \o x) \o y = first \o (x \o y)
      BY <1>4, <1>10, <2>2, ZenonT(40) DEF Associative
    <2> QED BY <2>1, <2>2, <2>3, <2>4
  <1>15. Join(parts) = h[n]
    <2>1. n \in 1 .. n
      BY <1>1
    <2> QED BY <1>0, <1>9, <2>1
  <1> HIDE DEF h
  <1> QED BY <1>12, <1>13, <1>14, <1>15 DEF JoinLoop, A, n, e, first

\* One part more.
LEMMA SplitOfPart ==
    ASSUME NEW S, NEW c \in S, NEW s \in Seq(S), NEW q \in Seq(Seq(S)), Split(c, s) = q,
           NEW x \in Seq(S), Without(c, x)
    PROVE  Split(c, s \o (<<c>> \o x)) = Append(q, x)
  <1> DEFINE e == <<c>>
             o == <<>>
             y == s \o e
  <1>1. e \in Seq(S) /\ o \in Seq(S) /\ o \o x = x
    BY ShortSeqs, ConcatEmptySeq
  <1>2. y \in Seq(S)
    BY <1>1, ConcatProperties
  <1>3. Split(c, y) = Append(q, o)
    BY SplitOfEnd
  <1>4. y \o x = s \o (e \o x)
    <2> DEFINE A == Seq(S)
    <2>1. Associative(A)
      BY JoinsAssociate
    <2>2. s \in A /\ e \in A /\ x \in A
      BY <1>1
    <2> HIDE DEF A, e
    <2> QED BY <2>1, <2>2, ZenonT(40) DEF Associative
  <1> HIDE DEF e, o, y
  <1>5. Splits(S, c, y, q, o) /\ Word(S, c, x)
    BY <1>1, <1>2, <1>3 DEF Splits, Word
  <1>6. Split(c, y \o x) = Append(q, o \o x)
    BY <1>5, SplitGrown
  <1> QED BY <1>1, <1>4, <1>6 DEF e

\* One part only.
LEMMA SplitOfOne ==
    ASSUME NEW S, NEW c, NEW x \in Seq(S), Without(c, x)
    PROVE  Split(c, x) = <<x>>
  <1> DEFINE o == <<>>
  <1>1. o \in Seq(S) /\ o \in Seq(Seq(S)) /\ o \o x = x
    BY ShortSeqs, ConcatEmptySeq
  <1>2. Split(c, o) = Append(o, o)
    <2>1. Append(<<>>, <<>>) = << <<>> >>
      OBVIOUS
    <2> QED BY <2>1, SplitOfNothing
  <1>3. Append(o, x) = <<x>>
    OBVIOUS
  <1> HIDE DEF o
  <1>4. Splits(S, c, o, o, o) /\ Word(S, c, x)
    BY <1>1, <1>2 DEF Splits, Word
  <1>5. Split(c, o \o x) = Append(o, o \o x)
    BY <1>4, SplitGrown
  <1> QED BY <1>1, <1>3, <1>5

\* What was joined comes apart again.
LEMMA SplitOfJoin ==
    ASSUME NEW S, "&" \in S, NEW parts \in Seq(Seq(S)), parts # <<>>,
           \A k \in 1 .. Len(parts) : Without("&", parts[k]), NEW h, JoinLoop(h, parts, S)
    PROVE  \A k \in 1 .. Len(parts) : Split("&", h[k]) = SubSeq(parts, 1, k)
  <1> DEFINE n == Len(parts)
             A == Seq(S)
             p(k) == SubSeq(parts, 1, k)
             X == {k \in 1 .. n : Split("&", h[k]) = p(k)}
  <1>1. n \in Nat \ {0} /\ \A i \in 1 .. n : parts[i] \in A
    BY EmptySeq, ElementOfSeq
  <1>2. \A k \in 1 .. n : /\ p(k) \in Seq(A) /\ Len(p(k)) = k /\ \A i \in 1 .. k : p(k)[i] = parts[i]
    <2> SUFFICES ASSUME NEW k \in 1 .. n
                 PROVE  p(k) \in Seq(A) /\ Len(p(k)) = k /\ \A i \in 1 .. k : p(k)[i] = parts[i]
      OBVIOUS
    <2>1. k \in Nat /\ k <= Len(parts)
      BY <1>1
    <2> QED BY <2>1, PrefixAt
  <1>3. \A k \in 2 .. n : p(k) = Append(p(k - 1), parts[k])
    <2> SUFFICES ASSUME NEW k \in 2 .. n PROVE p(k) = Append(p(k - 1), parts[k])
      OBVIOUS
    <2>1. k \in 1 .. Len(parts)
      BY <1>1
    <2> QED BY <2>1, PrefixGrows
  <1> HIDE DEF n
  <1>4. 1 \in X
    <2> DEFINE x == parts[1]
               y == <<x>>
               z == p(1)
    <2>1. 1 \in 1 .. n /\ h[1] = x /\ x \in A
      BY <1>1 DEF JoinLoop
    <2>2. Split("&", x) = y
      <3> HIDE DEF x
      <3>1. Without("&", x)
        BY <2>1 DEF n, x
      <3> QED BY <2>1, <3>1, SplitOfOne
    <2>3. y \in Seq(A) /\ Len(y) = 1 /\ y[1] = x
      <3> HIDE DEF A, x
      <3> QED BY <2>1, ShortSeqs
    <2>4. z \in Seq(A) /\ Len(z) = 1 /\ z[1] = x
      <3>1. 1 \in 1 .. 1
        OBVIOUS
      <3> HIDE DEF p, A
      <3> QED BY <1>2, <2>1, <3>1
    <2> HIDE DEF y, z, A
    <2>5. y = z
      <3>1. \A i \in 1 .. Len(y) : y[i] = z[i]
        BY <2>3, <2>4
      <3> QED BY <2>3, <2>4, <3>1, SeqEqual
    <2> QED BY <2>1, <2>2, <2>5 DEF y, z
  <1>5. ASSUME NEW k \in 1 + 1 .. n, k - 1 \in X PROVE k \in X
    <2> DEFINE s == h[k - 1]
               q == p(k - 1)
               x == parts[k]
    <2>1. k \in 2 .. n /\ k \in 1 .. n /\ k - 1 \in 1 .. n
      BY <1>1
    <2>2. s \in A /\ q \in Seq(A) /\ x \in A /\ Without("&", x) /\ Split("&", s) = q
      <3>1. s \in A
        BY <2>1 DEF JoinLoop, n
      <3>2. q \in Seq(A)
        BY <1>2, <2>1
      <3>3. x \in A /\ Without("&", x)
        BY <1>1, <2>1 DEF n
      <3>4. Split("&", s) = q
        BY <1>5
      <3> QED BY <3>1, <3>2, <3>3, <3>4
    <2>3. h[k] = s \o (<<"&">> \o x)
      BY <2>1 DEF JoinLoop, n
    <2>4. p(k) = Append(q, x)
      BY <1>3, <2>1
    <2> HIDE DEF s, q, x, p
    <2>5. Split("&", s \o (<<"&">> \o x)) = Append(q, x)
      BY <2>2, SplitOfPart
    <2> QED BY <2>1, <2>3, <2>4, <2>5
  <1> HIDE DEF X
  <1>6. \A k \in 1 .. n : k \in X
    <2>1. 1 \in Nat
      OBVIOUS
    <2> QED BY <1>1, <1>4, <1>5, <2>1, UpTo
  <1> QED BY <1>6 DEF X, n

\* The first characters of two texts that were joined.
LEMMA PrefixOfTwo ==
    ASSUME NEW S, NEW s \in Seq(S), NEW t \in Seq(S), NEW m \in Nat
    PROVE  /\ m <= Len(s) => SubSeq(s \o t, 1, m) = SubSeq(s, 1, m)
           /\ m > Len(s) /\ m <= Len(s) + Len(t) => SubSeq(s \o t, 1, m) = s \o SubSeq(t, 1, m - Len(s))
  <1> DEFINE x == s \o t
             a == Len(s)
             b == Len(t)
             y == SubSeq(x, 1, m)
  <1>1. a \in Nat /\ b \in Nat
    BY LenProperties
  <1>2. x \in Seq(S) /\ Joined(x, s, a, t, b)
    BY ConcatAt
  <1>3. m <= a + b => y \in Seq(S) /\ Len(y) = m /\ \A i \in 1 .. m : y[i] = x[i]
    <2>1. m <= a + b => m <= Len(x)
      BY <1>2 DEF Joined
    <2> HIDE DEF x
    <2> QED BY <1>2, <2>1, PrefixAt
  <1>4. ASSUME m <= a PROVE y = SubSeq(s, 1, m)
    <2> DEFINE z == SubSeq(s, 1, m)
    <2>1. z \in Seq(S) /\ Len(z) = m /\ \A i \in 1 .. m : z[i] = s[i]
      BY <1>4, PrefixAt
    <2> HIDE DEF x, y, z, a, b
    <2>2. m <= a + b /\ \A i \in 1 .. m : i \in 1 .. a
      BY <1>1, <1>4
    <2>3. \A i \in 1 .. m : y[i] = z[i]
      BY <1>2, <1>3, <2>1, <2>2 DEF Joined
    <2>4. y = z
      BY <1>3, <2>1, <2>2, <2>3, SeqEqual
    <2> QED BY <2>4 DEF z
  <1>5. ASSUME m > a, m <= a + b PROVE y = s \o SubSeq(t, 1, m - a)
    <2> DEFINE k == m - a
               u == SubSeq(t, 1, k)
               z == s \o u
    <2>1. k \in Nat /\ k <= b /\ a + k = m
      BY <1>1, <1>5
    <2> HIDE DEF k
    <2>2. u \in Seq(S) /\ Len(u) = k /\ \A i \in 1 .. k : u[i] = t[i]
      BY <2>1, PrefixAt
    <2> HIDE DEF u
    <2>3. z \in Seq(S) /\ Joined(z, s, a, u, k)
      BY <2>2, ConcatAt
    <2> HIDE DEF x, y, z, a, b
    <2>4. \A i \in 1 .. m : y[i] = z[i]
      <3> SUFFICES ASSUME NEW i \in 1 .. m PROVE y[i] = z[i]
        OBVIOUS
      <3>1. y[i] = x[i]
        BY <1>3, <1>5
      <3>2. CASE i <= a
        <4>1. i \in 1 .. a
          BY <1>1, <3>2
        <4> QED BY <1>2, <2>3, <3>1, <4>1 DEF Joined
      <3>3. CASE i > a
        <4> DEFINE j == i - a
        <4>1. j \in 1 .. k /\ j \in 1 .. b /\ a + j = i
          BY <1>1, <2>1, <3>3
        <4> HIDE DEF j
        <4> QED BY <1>2, <2>2, <2>3, <3>1, <4>1 DEF Joined
      <3> QED BY <1>1, <3>2, <3>3
    <2>5. Len(y) = m /\ Len(z) = m /\ y \in Seq(S)
      BY <1>3, <1>5, <2>1, <2>3 DEF Joined
    <2>6. y = z
      BY <2>3, <2>4, <2>5, SeqEqual
    <2> QED BY <2>6 DEF z, u, k
  <1> QED BY <1>4, <1>5

\* What a cut leaves of the parts: some of the first k as they are, but not the
\* k-th, and less than the whole of one.
Begins(x, part) == \E e \in Nat : e < Len(part) /\ x = SubSeq(part, 1, e)
Left(x, parts, k) == \/ \E j \in 1 .. k - 1 : x = parts[j]
                     \/ \E j \in 1 .. k : Begins(x, parts[j])
AllLeft(ps, parts, k) == \A i \in 1 .. Len(ps) : Left(ps[i], parts, k)

\* A text that was joined and is cut comes apart into these.
LEMMA SplitOfCut ==
    ASSUME NEW S, "&" \in S, NEW parts \in Seq(Seq(S)), parts # <<>>,
           \A k \in 1 .. Len(parts) : Without("&", parts[k]), NEW h, JoinLoop(h, parts, S)
    PROVE  \A k \in 1 .. Len(parts) : \A m \in Nat :
               m < Len(h[k]) => AllLeft(Split("&", SubSeq(h[k], 1, m)), parts, k)
  <1> DEFINE n == Len(parts)
             A == Seq(S)
             p(k) == SubSeq(parts, 1, k)
             cut(k, m) == Split("&", SubSeq(h[k], 1, m))
             X == {k \in 1 .. n : \A m \in Nat : m < Len(h[k]) => AllLeft(cut(k, m), parts, k)}
  <1>1. n \in Nat \ {0} /\ \A i \in 1 .. n : parts[i] \in A /\ Without("&", parts[i])
    BY EmptySeq, ElementOfSeq
  <1>2. \A k \in 1 .. n : /\ p(k) \in Seq(A) /\ Len(p(k)) = k /\ \A i \in 1 .. k : p(k)[i] = parts[i]
    <2> SUFFICES ASSUME NEW k \in 1 .. n
                 PROVE  p(k) \in Seq(A) /\ Len(p(k)) = k /\ \A i \in 1 .. k : p(k)[i] = parts[i]
      OBVIOUS
    <2>1. k \in Nat /\ k <= Len(parts)
      BY <1>1
    <2> QED BY <2>1, PrefixAt
  <1>3. \A k \in 1 .. n : Split("&", h[k]) = p(k)
    BY SplitOfJoin
  <1>4. \A k \in 1 .. n : h[k] \in A
    BY DEF JoinLoop
  \* What is cut within a part.
  <1>5. ASSUME NEW x \in A, Without("&", x), NEW e \in Nat, e < Len(x)
        PROVE  SubSeq(x, 1, e) \in A /\ Without("&", SubSeq(x, 1, e)) /\ Begins(SubSeq(x, 1, e), x)
    <2> DEFINE y == SubSeq(x, 1, e)
    <2>1. Len(x) \in Nat
      BY LenProperties
    <2>2. e <= Len(x) /\ \A i \in 1 .. e : i \in 1 .. Len(x)
      BY <1>5, <2>1
    <2>3. y \in A /\ Len(y) = e /\ \A i \in 1 .. e : y[i] = x[i]
      BY <2>2, PrefixAt
    <2>4. Without("&", y)
      <3> HIDE DEF y
      <3> QED BY <1>5, <2>2, <2>3 DEF Without
    <2>5. Begins(y, x)
      BY <1>5 DEF Begins
    <2> QED BY <2>3, <2>4, <2>5
  <1> HIDE DEF n
  <1>6. 1 \in X
    <2> SUFFICES ASSUME NEW m \in Nat, m < Len(h[1]) PROVE AllLeft(cut(1, m), parts, 1)
      BY <1>1
    <2> DEFINE x == parts[1]
               y == SubSeq(x, 1, m)
    <2>1. 1 \in 1 .. n /\ h[1] = x /\ x \in A /\ Without("&", x)
      BY <1>1 DEF JoinLoop
    <2>2. y \in A /\ Without("&", y) /\ Begins(y, x)
      <3>1. m < Len(x)
        BY <2>1
      <3> HIDE DEF x, A
      <3> QED BY <1>5, <2>1, <3>1
    <2>3. cut(1, m) = <<y>>
      <3>1. cut(1, m) = Split("&", y)
        BY <2>1
      <3> HIDE DEF x, y
      <3>2. Split("&", y) = <<y>>
        BY <2>2, SplitOfOne
      <3> QED BY <3>1, <3>2
    <2>4. Left(y, parts, 1)
      <3>1. 1 \in 1 .. 1
        OBVIOUS
      <3> QED BY <2>2, <3>1 DEF Left
    <2> HIDE DEF y
    <2>5. Len(<<y>>) = 1 /\ <<y>>[1] = y
      OBVIOUS
    <2> QED BY <2>3, <2>4, <2>5 DEF AllLeft
  <1>7. ASSUME NEW k \in 1 + 1 .. n, k - 1 \in X PROVE k \in X
    <2> DEFINE s == h[k - 1]
               a == Len(s)
               x == parts[k]
               q == p(k - 1)
               e == <<"&">>
               t == e \o x
    <2>1. k \in 2 .. n /\ k \in 1 .. n /\ k - 1 \in 1 .. n /\ k \in Nat
      BY <1>1
    <2>2. s \in A /\ x \in A /\ Without("&", x) /\ h[k] = s \o t /\ a \in Nat
      <3>1. s \in A
        BY <1>4, <2>1
      <3>2. h[k] = s \o t
        BY <2>1 DEF JoinLoop, n
      <3> QED BY <1>1, <2>1, <3>1, <3>2, LenProperties
    <2>3. /\ e \in A /\ t \in A /\ Len(t) = 1 + Len(x) /\ Len(x) \in Nat /\ Len(h[k]) = a + Len(t)
          /\ Len(e) = 1
      <3>1. e \in A /\ Len(e) = 1
        BY ShortSeqs
      <3>2. Len(x) \in Nat
        BY <2>2, LenProperties
      <3>3. x \in A /\ s \in A
        BY <2>2
      <3> HIDE DEF e, x, s, A
      <3>4. t \in A /\ Len(t) = Len(e) + Len(x)
        BY <3>1, <3>3, ConcatProperties DEF A
      <3> HIDE DEF t
      <3>5. Len(s \o t) = Len(s) + Len(t)
        BY <3>3, <3>4, ConcatProperties DEF A
      <3> QED BY <2>2, <3>1, <3>2, <3>4, <3>5
    <2>4. /\ q \in Seq(A) /\ Len(q) = k - 1 /\ Split("&", s) = q
          /\ \A i \in 1 .. k - 1 : q[i] = parts[i]
      BY <1>2, <1>3, <2>1
    <2>5. AllLeft(q, parts, k)
      BY <2>4 DEF AllLeft, Left
    <2> SUFFICES ASSUME NEW m \in Nat, m < Len(h[k]) PROVE AllLeft(cut(k, m), parts, k)
      BY <2>1
    <2> HIDE DEF s, x, q, e, t, a
    <2>6. CASE m < a
      <3>1. AllLeft(cut(k - 1, m), parts, k - 1)
        BY <1>7, <2>6 DEF a, s
      <3>2. cut(k, m) = cut(k - 1, m)
        <4>1. SubSeq(s \o t, 1, m) = SubSeq(s, 1, m)
          <5>1. m <= Len(s)
            BY <2>2, <2>6 DEF a
          <5> QED BY <2>2, <2>3, <5>1, PrefixOfTwo
        <4> QED BY <2>2, <4>1 DEF s
      <3>3. \A y : Left(y, parts, k - 1) => Left(y, parts, k)
        <4>1. \A j : (j \in 1 .. (k - 1) - 1 => j \in 1 .. k - 1) /\ (j \in 1 .. k - 1 => j \in 1 .. k)
          BY <2>1
        <4> QED BY <4>1 DEF Left
      <3> QED BY <3>1, <3>2, <3>3 DEF AllLeft
    <2>7. CASE m = a
      <3>1. SubSeq(s \o t, 1, m) = s
        <4>1. m <= Len(s) /\ SubSeq(s, 1, m) = s
          <5>1. SubSeq(s, 1, Len(s)) = s
            BY <2>2, SliceEnds DEF Slice
          <5> QED BY <2>2, <2>7, <5>1 DEF a
        <4>2. SubSeq(s \o t, 1, m) = SubSeq(s, 1, m)
          BY <2>2, <2>3, <4>1, PrefixOfTwo
        <4> QED BY <4>1, <4>2
      <3>2. cut(k, m) = q
        BY <2>2, <2>4, <3>1
      <3> QED BY <2>5, <3>2
    <2>8. CASE m > a
      <3> DEFINE b == m - a
                 c == b - 1
                 y == SubSeq(x, 1, c)
      <3>1. c \in Nat /\ b \in Nat /\ b > 1 - 1 /\ c < Len(x) /\ m <= a + Len(t) /\ b <= 1 + Len(x)
              /\ 0 < b
        BY <2>2, <2>3, <2>8
      <3>2. y \in A /\ Without("&", y) /\ Begins(y, x)
        <4> HIDE DEF c, A
        <4> QED BY <1>5, <2>2, <3>1
      <3>3. SubSeq(t, 1, b) = e \o y
        <4>1. CASE b = 1
          <5>1. SubSeq(t, 1, b) = SubSeq(e, 1, b)
            <6>1. b <= Len(e)
              BY <2>3, <4>1
            <6> HIDE DEF b
            <6> QED BY <2>2, <2>3, <3>1, <6>1, PrefixOfTwo DEF t
          <5>2. SubSeq(e, 1, 1) = e
            BY <2>3, SliceEnds DEF Slice
          <5>3. y = <<>>
            <6>1. c = 0
              BY <4>1
            <6>2. SubSeq(x, 1, 0) = <<>>
              BY SubSeqEmpty
            <6> QED BY <6>1, <6>2
          <5>4. e \o <<>> = e
            BY <2>3, ConcatEmptySeq
          <5> QED BY <4>1, <5>1, <5>2, <5>3, <5>4
        <4>2. CASE b > 1
          <5>1. b > Len(e) /\ b <= Len(e) + Len(x) /\ b - Len(e) = c
            BY <2>3, <3>1, <4>2
          <5> HIDE DEF b, c
          <5>2. SubSeq(t, 1, b) = e \o SubSeq(x, 1, b - Len(e))
            BY <2>2, <2>3, <3>1, <5>1, PrefixOfTwo DEF t
          <5> QED BY <5>1, <5>2
        <4>3. b = 1 \/ b > 1
          <5>1. b \in Nat /\ 0 < b
            BY <3>1
          <5> HIDE DEF b
          <5> QED BY <5>1
        <4> HIDE DEF b, y
        <4> QED BY <4>1, <4>2, <4>3
      <3>4. SubSeq(s \o t, 1, m) = s \o (e \o y)
        <4>1. m > Len(s) /\ m <= Len(s) + Len(t) /\ m - Len(s) = b
          BY <2>8, <3>1 DEF a
        <4>2. SubSeq(s \o t, 1, m) = s \o SubSeq(t, 1, m - Len(s))
          BY <2>2, <2>3, <4>1, PrefixOfTwo
        <4> HIDE DEF b, y
        <4> QED BY <3>3, <4>1, <4>2
      <3> HIDE DEF y, A
      <3>5. Split("&", s \o (<<"&">> \o y)) = Append(q, y)
        BY <2>2, <2>4, <3>2, SplitOfPart DEF A
      <3>6. cut(k, m) = Append(q, y)
        BY <2>2, <3>4, <3>5 DEF e
      <3>7. Left(y, parts, k)
        BY <2>1, <3>2 DEF Left, x
      <3> DEFINE z == Append(q, y)
      <3>8. Len(z) = Len(q) + 1 /\ z[Len(q) + 1] = y /\ \A i \in 1 .. Len(q) : z[i] = q[i]
        BY <2>4, <3>2, AppendProperties
      <3> HIDE DEF z
      <3>9. AllLeft(z, parts, k)
        <4>1. \A i \in 1 .. Len(z) : i \in 1 .. Len(q) \/ i = Len(q) + 1
          BY <2>1, <2>4, <3>8
        <4> QED BY <2>5, <3>7, <3>8, <4>1 DEF AllLeft
      <3> QED BY <3>6, <3>9 DEF z
    <2> QED BY <2>2, <2>6, <2>7, <2>8
  <1> HIDE DEF X
  <1>8. \A k \in 1 .. n : k \in X
    <2>1. 1 \in Nat
      OBVIOUS
    <2> QED BY <1>1, <1>6, <1>7, <2>1, UpTo
  <1> QED BY <1>8 DEF X, n

\* A part of the query, and all of them.
PartFor(key, v) == <<key, "=">> \o Encode(v)
QueryParts(order, value) == [i \in DOMAIN order |-> PartFor(order[i], value[order[i]])]

\* It holds its key and its value.
LEMMA PartOf ==
    ASSUME NEW S, NEW key \in Keys, NEW v \in Seq(S), NEW x, x = PartFor(key, v)
    PROVE  /\ x \in Seq(Wide(S)) /\ Without("&", x) /\ Len(x) = 2 + Len(Encode(v))
           /\ x[1] = key /\ x[2] = "=" /\ SubSeq(x, 3, Len(x)) = Encode(v)
           /\ Parameter(x) = [key |-> <<key>>, val |-> v]
  <1> DEFINE W == Wide(S)
             a == <<key, "=">>
             e == Encode(v)
             n == Len(e)
  <1>1. e \in Seq(W) /\ Without("&", e) /\ n \in Nat
    BY EncodedIsClean, LenProperties
  <1>2. key \in W /\ "=" \in W /\ key # "&" /\ "=" # "&"
    BY WideHas
  <1>3. a \in Seq(W) /\ Len(a) = 2 /\ a[1] = key /\ a[2] = "="
    BY <1>2, ShortSeqs
  <1> HIDE DEF W, a, e
  <1>4. x = a \o e
    BY DEF PartFor, a, e
  <1>5. /\ x \in Seq(W) /\ Len(x) = 2 + n
        /\ (\A i \in 1 .. 2 : x[i] = a[i]) /\ \A i \in 1 .. n : x[2 + i] = e[i]
    <2>1. a \o e \in Seq(W) /\ Joined(a \o e, a, Len(a), e, Len(e))
      BY <1>1, <1>3, ConcatAt
    <2> QED BY <1>3, <1>4, <2>1 DEF Joined
  <1> HIDE DEF n
  <1>6. x[1] = key /\ x[2] = "="
    BY <1>3, <1>5
  <1>7. Without("&", x)
    <2> SUFFICES ASSUME NEW i \in 1 .. Len(x) PROVE x[i] # "&"
      BY DEF Without
    <2>1. i = 1 \/ i = 2 \/ (i - 2 \in 1 .. n /\ 2 + (i - 2) = i)
      BY <1>1, <1>5
    <2>2. ASSUME i - 2 \in 1 .. n, 2 + (i - 2) = i PROVE x[i] # "&"
      <3>1. x[2 + (i - 2)] = e[i - 2] /\ e[i - 2] # "&"
        BY <1>1, <1>5, <2>2 DEF Without, n
      <3> QED BY <2>2, <3>1
    <2> QED BY <1>2, <1>6, <2>1, <2>2
  <1>8. SubSeq(x, 3, Len(x)) = e
    <2> DEFINE y == SubSeq(x, 3, Len(x))
               z == 3 - 1
    <2>1. 3 \in Int /\ Len(x) \in Int /\ \A i \in 3 .. Len(x) : x[i] \in W
      BY <1>1, <1>5, ElementOfSeq
    <2>2. /\ y \in Seq(W)
          /\ Len(y) = IF 3 <= Len(x) THEN Len(x) - 3 + 1 ELSE 0
          /\ \A i \in 1 .. Len(x) - 3 + 1 : y[i] = x[3 + i - 1]
      BY <2>1, SubSeqProperties
    <2> HIDE DEF y
    <2>3. Len(y) = n
      BY <1>1, <1>5, <2>2
    <2>4. \A i \in 1 .. n : 3 + i - 1 = 2 + i /\ i \in 1 .. Len(x) - 3 + 1
      BY <1>1, <1>5
    <2>5. \A i \in 1 .. Len(y) : y[i] = e[i]
      BY <1>5, <2>2, <2>3, <2>4
    <2>6. y = e
      BY <1>1, <2>2, <2>3, <2>5, SeqEqual DEF n
    <2> QED BY <2>6 DEF y
  <1>9. Parameter(x) = [key |-> <<key>>, val |-> v]
    <2>1. key \notin DOMAIN Escape
      BY WideHas
    <2>2. Len(x) > 0
      BY <1>1, <1>5
    <2>3. Parameter(x) = [key |-> <<key>>, val |-> PercentDecode(SubSeq(x, 3, Len(x)))]
      BY <1>5, <1>6, <2>1, <2>2, ParameterOf
    <2>4. PercentDecode(e) = v
      BY DecodedAsEncoded DEF e
    <2> QED BY <1>8, <2>3, <2>4
  <1> QED BY <1>5, <1>6, <1>7, <1>8, <1>9 DEF W, e, n

\* A parameter that says that the request is whole.
SaysEnd(p) == p.key = <<"end">> /\ p.val = <<"1">>

\* A part that does not say it says it no more when it is cut, and the one that
\* does is the shorter by it.
LEMMA CutPart ==
    ASSUME NEW S, NEW key \in Keys, NEW v \in Seq(S), key = "end" => v = <<"1">>,
           NEW x, x = PartFor(key, v), NEW y, Begins(y, x), y # <<>>
    PROVE  ~SaysEnd(Parameter(y))
  <1> DEFINE W == Wide(S)
  <1>1. /\ x \in Seq(W) /\ Len(x) = 2 + Len(Encode(v)) /\ x[1] = key /\ x[2] = "="
        /\ Len(Encode(v)) \in Nat
    <2>1. Encode(v) \in Seq(W)
      BY EncodedIsClean
    <2> QED BY <2>1, PartOf, LenProperties
  <1>2. PICK m \in Nat : m < Len(x) /\ y = SubSeq(x, 1, m)
    BY DEF Begins
  <1>3. y \in Seq(W) /\ Len(y) = m /\ \A i \in 1 .. m : y[i] = x[i]
    <2>1. m <= Len(x)
      BY <1>1, <1>2
    <2> QED BY <1>1, <1>2, <2>1, PrefixAt
  <1>4. m > 0
    <2>1. m # 0
      BY <1>3, EmptySeq
    <2> QED BY <2>1
  <1>5. Parameter(y) = [key |-> <<key>>, val |-> PercentDecode(SubSeq(y, 3, Len(y)))]
    <2>1. key \notin DOMAIN Escape
      BY WideHas
    <2>2. y[1] = key /\ (Len(y) > 1 => y[2] = "=") /\ Len(y) > 0
      BY <1>1, <1>3, <1>4
    <2> HIDE DEF W
    <2> QED BY <1>3, <2>1, <2>2, ParameterOf
  <1>6. CASE key # "end"
    <2>1. <<key>> # <<"end">>
      BY <1>6
    <2> QED BY <1>5, <2>1 DEF SaysEnd
  <1>7. CASE key = "end"
    <2> DEFINE one == <<"1">>
               T == {"1"}
    <2>1. one \in Seq(T) /\ Len(one) = 1 /\ one[1] = "1"
      BY ShortSeqs
    <2>2. \A i \in 1 .. Len(one) : one[i] \notin DOMAIN Escape
      <3>1. one[1] \notin DOMAIN Escape
        BY <2>1, WideHas DEF Hex
      <3> HIDE DEF one
      <3> QED BY <2>1, <3>1
    <2>3. Encode(one) = one
      <3> HIDE DEF one, T
      <3> QED BY <2>1, <2>2, EncodedAsIs
    <2>4. Len(x) = 3
      <3>1. v = one
        BY <1>7
      <3> HIDE DEF one
      <3>2. Encode(v) = one /\ Len(one) = 1
        BY <2>1, <2>3, <3>1
      <3>3. Len(Encode(v)) = 1
        BY <3>2
      <3> QED BY <1>1, <3>3
    <2>5. Len(y) < 3 /\ Len(y) \in Int
      BY <1>2, <1>3, <2>4
    <2>6. SubSeq(y, 3, Len(y)) = <<>>
      <3>1. 3 \in Int
        OBVIOUS
      <3> HIDE DEF W
      <3> QED BY <2>5, <3>1, SubSeqEmpty
    <2>7. Parameter(y).val = <<>>
      <3>1. PercentDecode(<<>>) = <<>>
        BY DecodedShort
      <3>2. Parameter(y).val = PercentDecode(SubSeq(y, 3, Len(y)))
        BY <1>5
      <3> QED BY <2>6, <3>1, <3>2, Zenon
    <2>8. <<>> # <<"1">>
      OBVIOUS
    <2> QED BY <2>7, <2>8 DEF SaysEnd
  <1> QED BY <1>6, <1>7

\* What a query says is in its parts.
LEMMA ParametersOf ==
    ASSUME NEW S, NEW parts \in Seq(S)
    PROVE  \E n \in Nat : /\ DOMAIN Parameters(parts) = 1 .. n
                          /\ \A i \in 1 .. n : \E j \in 1 .. Len(parts) :
                                 /\ parts[j] # <<>>
                                 /\ Parameters(parts)[i] = Parameter(parts[j])
  <1> DEFINE m == Len(parts)
             T == {Parameter(parts[j]) : j \in {k \in 1 .. m : parts[k] # <<>>}}
             A == Seq(T)
             g(i) == IF parts[i] = <<>> THEN <<>> ELSE <<Parameter(parts[i])>>
             ss == [i \in DOMAIN parts |-> g(i)]
  <1>1. m \in Nat /\ DOMAIN parts = 1 .. m
    BY LenProperties
  <1>2. \A i \in 1 .. m : g(i) \in A
    <2> SUFFICES ASSUME NEW i \in 1 .. m PROVE g(i) \in A
      OBVIOUS
    <2>1. CASE parts[i] = <<>>
      <3>1. g(i) = <<>> /\ <<>> \in A
        BY <2>1, EmptySeq, Zenon
      <3> QED BY <3>1
    <2>2. CASE parts[i] # <<>>
      <3> DEFINE p == Parameter(parts[i])
      <3>1. g(i) = <<p>>
        BY <2>2
      <3>2. p \in T
        BY <2>2
      <3> HIDE DEF p, T, g
      <3>3. <<p>> \in Seq(T)
        BY <3>2, ShortSeqs
      <3> QED BY <3>1, <3>3
    <2> QED BY <2>1, <2>2
  <1>3. ss \in Seq(A)
    <2>1. ss = [i \in 1 .. m |-> g(i)]
      BY <1>1
    <2> HIDE DEF A, g, m
    <2> QED BY <1>1, <1>2, <2>1
  <1>4. Parameters(parts) = FlattenSeq(ss)
    BY DEF Parameters
  <1> HIDE DEF ss
  <1>5. Parameters(parts) \in A
    <2>1. PICK f : f \in [0 .. Len(ss) -> Seq(T)] /\ FlattenSeq(ss) = f[Len(ss)]
      <3> HIDE DEF T
      <3> QED BY <1>3, FlattenOfPieces
    <2>2. Len(ss) \in 0 .. Len(ss)
      <3> HIDE DEF A
      <3>1. Len(ss) \in Nat
        BY <1>3, LenProperties
      <3> QED BY <3>1
    <2> HIDE DEF T
    <2> QED BY <1>4, <2>1, <2>2
  <1> DEFINE ps == Parameters(parts)
             n == Len(ps)
  <1>6. n \in Nat /\ DOMAIN ps = 1 .. n /\ \A i \in 1 .. n : ps[i] \in T
    <2>1. ps \in Seq(T)
      BY <1>5
    <2> HIDE DEF ps, T, A
    <2> QED BY <2>1, LenProperties, ElementOfSeq
  <1> HIDE DEF n
  <1> QED BY <1>6

\* A part is not empty, and says its key and its value.
LEMMA PartSays ==
    ASSUME NEW S, NEW key \in Keys, NEW v \in Seq(S)
    PROVE  PartFor(key, v) # <<>> /\ Parameter(PartFor(key, v)) = [key |-> <<key>>, val |-> v]
  <1> DEFINE x == PartFor(key, v)
             e == Encode(v)
             p == [key |-> <<key>>, val |-> v]
  <1>1. x = PartFor(key, v)
    OBVIOUS
  <1> HIDE DEF x
  <1>2. x \in Seq(Wide(S)) /\ Len(x) = 2 + Len(e) /\ Parameter(x) = p
    BY <1>1, PartOf
  <1>3. Len(e) \in Nat
    <2>1. e \in Seq(Wide(S))
      BY EncodedIsClean
    <2> HIDE DEF e
    <2> QED BY <2>1, LenProperties
  <1>4. x # <<>>
    <2> HIDE DEF e
    <2> QED BY <1>2, <1>3, EmptySeq
  <1> QED BY <1>2, <1>4 DEF x

\* All of it, when every part is for a key.
LEMMA ParametersWhole ==
    ASSUME NEW S, NEW order \in Seq(Keys), NEW value \in [Keys -> Seq(S)], NEW parts,
           parts = QueryParts(order, value)
    PROVE  Parameters(parts)
               = [i \in DOMAIN order |-> [key |-> <<order[i]>>, val |-> value[order[i]]]]
  <1> DEFINE n == Len(order)
             p(i) == [key |-> <<order[i]>>, val |-> value[order[i]]]
             T == {p(i) : i \in 1 .. n}
             s == [i \in DOMAIN order |-> p(i)]
  <1>0. parts = [i \in DOMAIN order |-> PartFor(order[i], value[order[i]])]
    BY DEF QueryParts
  <1>1. n \in Nat /\ DOMAIN order = 1 .. n /\ \A i \in 1 .. n : order[i] \in Keys
    BY LenProperties, ElementOfSeq
  <1>2. s \in Seq(T) /\ DOMAIN s = 1 .. n /\ \A i \in 1 .. n : s[i] = p(i)
    <2>1. s = [i \in 1 .. n |-> p(i)] /\ \A i \in 1 .. n : p(i) \in T
      BY <1>1
    <2> HIDE DEF T, p, n
    <2>2. s \in [1 .. n -> T]
      BY <2>1
    <2> HIDE DEF s
    <2> QED BY <1>1, <2>1, <2>2
  <1>3. \A i \in 1 .. n : parts[i] # <<>> /\ Parameter(parts[i]) = p(i)
    <2> SUFFICES ASSUME NEW i \in 1 .. n PROVE parts[i] # <<>> /\ Parameter(parts[i]) = p(i)
      OBVIOUS
    <2>1. order[i] \in Keys /\ parts[i] = PartFor(order[i], value[order[i]])
      BY <1>0, <1>1
    <2>2. value[order[i]] \in Seq(S)
      BY <2>1
    <2> QED BY <2>1, <2>2, PartSays
  <1>4. [i \in DOMAIN parts |-> IF parts[i] = <<>> THEN <<>> ELSE <<Parameter(parts[i])>>]
           = [i \in DOMAIN s |-> <<s[i]>>]
    <2>1. DOMAIN parts = 1 .. n
      BY <1>0, <1>1
    <2> HIDE DEF s, p, n
    <2>2. \A i \in 1 .. n : (IF parts[i] = <<>> THEN <<>> ELSE <<Parameter(parts[i])>>) = <<s[i]>>
      BY <1>2, <1>3
    <2> QED BY <1>2, <2>1, <2>2
  <1> HIDE DEF s, T
  <1>5. Parameters(parts) = s
    BY <1>2, <1>4, FlattenOnes DEF Parameters
  <1> QED BY <1>5 DEF s

\* The parts of a text are texts.
LEMMA SplitType ==
    ASSUME NEW S, NEW s \in Seq(S), NEW c
    PROVE  Split(c, s) \in Seq(Seq(S))
  <1> DEFINE n == Len(s)
             A == Seq(S)
  <1>1. PICK f : /\ f[0] = << <<>> >> /\ \A i \in 1 .. n : f[i] = Parts(f[i - 1], c, s[i])
                 /\ Split(c, s) = f[n]
    BY SplittingOfText
  <1>2. n \in Nat /\ \A i \in 1 .. n : s[i] \in S
    BY LenProperties, ElementOfSeq
  <1> DEFINE X == {i \in 0 .. n : f[i] \in Seq(A) /\ f[i] # <<>>}
  <1> HIDE DEF n
  <1>3. 0 \in X
    <2> DEFINE o == <<>>
    <2>1. o \in A
      BY EmptySeq
    <2> HIDE DEF A, o
    <2>2. <<o>> \in Seq(A) /\ <<o>> # <<>>
      BY <2>1, ShortSeqs
    <2>3. f[0] = <<o>>
      BY <1>1 DEF o
    <2>4. 0 \in 0 .. n
      BY <1>2
    <2> QED BY <2>2, <2>3, <2>4
  <1>4. ASSUME NEW i \in 0 + 1 .. n, i - 1 \in X PROVE i \in X
    <2>1. i \in 1 .. n /\ i \in 0 .. n /\ i - 1 \in 0 .. n
      BY <1>2
    <2> DEFINE p == f[i - 1]
               d == s[i]
    <2>2. p \in Seq(A) /\ p # <<>> /\ d \in S /\ f[i] = Parts(p, c, d)
      BY <1>1, <1>2, <1>4, <2>1
    <2> HIDE DEF p, d
    <2>3. Parts(p, c, d) \in Seq(A) /\ Parts(p, c, d) # <<>>
      BY <2>2, PartsType
    <2> QED BY <2>1, <2>2, <2>3
  <1> HIDE DEF X
  <1>5. \A i \in 0 .. n : i \in X
    <2>1. 0 \in Nat
      OBVIOUS
    <2> QED BY <1>2, <1>3, <1>4, <2>1, UpTo
  <1>6. n \in X
    BY <1>2, <1>5
  <1> QED BY <1>1, <1>6 DEF X

\* The parts of the query of a request.
ArePartsOf(parts, order, value, S) ==
    /\ parts \in Seq(Seq(Wide(S))) /\ Len(parts) = Len(order) /\ parts # <<>>
    /\ \A k \in 1 .. Len(parts) : Without("&", parts[k])
    /\ \A k \in 1 .. Len(parts) : order[k] \in Keys /\ value[order[k]] \in Seq(S)
                                    /\ parts[k] = PartFor(order[k], value[order[k]])
    /\ Query(order, value) = Join(parts)

\* They are texts, and no separator is in them.
LEMMA PartsOfQuery ==
    ASSUME NEW S, NEW order \in Seq(Keys), order # <<>>, NEW value \in [Keys -> Seq(S)]
    PROVE  ArePartsOf(QueryParts(order, value), order, value, S)
  <1> DEFINE n == Len(order)
             A == Seq(Wide(S))
             parts == QueryParts(order, value)
             p(i) == PartFor(order[i], value[order[i]])
  <1>1. n \in Nat /\ n # 0 /\ DOMAIN order = 1 .. n /\ \A i \in 1 .. n : order[i] \in Keys
    BY LenProperties, ElementOfSeq, EmptySeq
  <1>2. \A i \in 1 .. n : value[order[i]] \in Seq(S)
    BY <1>1
  <1>3. \A i \in 1 .. n : p(i) \in A /\ Without("&", p(i))
    <2>1. ASSUME NEW i \in 1 .. n PROVE p(i) \in A /\ Without("&", p(i))
      <3> DEFINE k == order[i]
                 v == value[order[i]]
                 x == p(i)
      <3>1. k \in Keys /\ v \in Seq(S) /\ x = PartFor(k, v)
        BY <1>1, <1>2
      <3> HIDE DEF k, v, x
      <3> QED BY <3>1, PartOf DEF x
    <2> QED BY <2>1
  <1>4. parts = [i \in 1 .. n |-> p(i)]
    BY <1>1 DEF QueryParts
  <1> HIDE DEF parts
  <1>5. parts \in [1 .. n -> A]
    <2> HIDE DEF A, n, p
    <2> QED BY <1>3, <1>4
  <1>6. parts \in Seq(A) /\ Len(parts) = n
    <2> HIDE DEF A, n
    <2> QED BY <1>1, <1>5
  <1>7. parts # <<>>
    <2> HIDE DEF A, n
    <2> QED BY <1>1, <1>6, EmptySeq
  <1>8. Query(order, value) = Join(parts)
    BY DEF parts, Query, QueryParts, PartFor
  <1>9. \A k \in 1 .. n : parts[k] = p(k)
    BY <1>4
  <1> HIDE DEF A, n
  <1>10. \A k \in 1 .. n : Without("&", parts[k])
    BY <1>3, <1>9
  <1> QED BY <1>1, <1>2, <1>6, <1>7, <1>8, <1>9, <1>10 DEF A, n, parts, ArePartsOf

\* What is known of a query of the mod: it says what the engine put into
\* the template, or it has lost its end.
SaysAll(query, order, value) ==
    ParseQuery(query) = [i \in DOMAIN order |-> [key |-> <<order[i]>>, val |-> value[order[i]]]]
LostEnd(query) ==
    \E n \in Nat : DOMAIN ParseQuery(query) = 1 .. n
                       /\ \A i \in 1 .. n : ~SaysEnd(ParseQuery(query)[i])

\* Nothing but a cut comes between.
LEMMA QueryIsRead ==
    ASSUME NEW S, NEW order \in Seq(Keys), NEW value \in [Keys -> Seq(S)], NEW n, NEW r,
           OfTheMod(r, order, value, n)
    PROVE  SaysAll(r.query, order, value) \/ LostEnd(r.query)
  <1> DEFINE W == Wide(S)
             parts == QueryParts(order, value)
             N == Len(parts)
             q == Query(order, value)
  <1>1. /\ order # <<>> /\ (\A i \in DOMAIN order : order[i] = "end" <=> i = Len(order))
        /\ value["end"] = <<"1">> /\ n \in 0 .. Len(q) /\ r.query = SubSeq(q, 1, n)
    BY DEF OfTheMod
  <1>2. /\ parts \in Seq(Seq(W)) /\ N = Len(order) /\ parts # <<>>
        /\ (\A k \in 1 .. N : Without("&", parts[k]))
        /\ (\A k \in 1 .. N : order[k] \in Keys /\ value[order[k]] \in Seq(S)
                                /\ parts[k] = PartFor(order[k], value[order[k]]))
        /\ q = Join(parts)
    <2>1. ArePartsOf(parts, order, value, S)
      BY <1>1, PartsOfQuery
    <2> HIDE DEF parts
    <2> QED BY <2>1 DEF ArePartsOf
  <1> DEFINE says == [i \in DOMAIN order |-> [key |-> <<order[i]>>, val |-> value[order[i]]]]
  <1>3. Parameters(parts) = says
    BY ParametersWhole
  <1> HIDE DEF parts, q, W, says
  <1>4. "&" \in W
    BY WideHas DEF W
  <1>5. PICK h : JoinLoop(h, parts, W) /\ q = h[N]
    BY <1>2, <1>4, JoiningOf
  <1> DEFINE A == Seq(W)
  <1>6. N \in Nat \ {0} /\ N \in 1 .. N /\ q \in A
    <2> HIDE DEF A
    <2>1. N \in Nat /\ N # 0
      BY <1>2, LenProperties, EmptySeq DEF A
    <2>2. N \in 1 .. N
      BY <2>1
    <2> QED BY <1>5, <2>1, <2>2 DEF JoinLoop, A
  <1>7. CASE n = Len(q)
    <2>1. r.query = q
      BY <1>1, <1>6, <1>7, SubSeqFull
    <2>2. Split("&", q) = SubSeq(parts, 1, N)
      BY <1>2, <1>4, <1>5, <1>6, SplitOfJoin
    <2>3. SubSeq(parts, 1, N) = parts
      <3> HIDE DEF A
      <3>1. parts \in Seq(A)
        BY <1>2 DEF A
      <3> QED BY <3>1, SubSeqFull
    <2>4. ParseQuery(r.query) = says
      BY <1>3, <2>1, <2>2, <2>3 DEF ParseQuery
    <2> QED BY <2>4 DEF SaysAll, says
  <1>8. CASE n # Len(q)
    <2> DEFINE ps == Split("&", SubSeq(q, 1, n))
    <2>1. n \in Nat /\ n < Len(q)
      <3>1. Len(q) \in Nat
        BY <1>6, LenProperties
      <3> QED BY <1>1, <1>8, <3>1
    <2>2. AllLeft(ps, parts, N)
      <3>1. \A k \in 1 .. N : \A m \in Nat :
                m < Len(h[k]) => AllLeft(Split("&", SubSeq(h[k], 1, m)), parts, k)
        BY <1>2, <1>4, <1>5, SplitOfCut
      <3> QED BY <1>5, <1>6, <2>1, <3>1
    <2>3. ps \in Seq(A)
      <3>1. SubSeq(q, 1, n) \in A
        <4>1. n <= Len(q)
          BY <1>1, <2>1
        <4> QED BY <1>6, <2>1, <4>1, PrefixAt
      <3> QED BY <3>1, SplitType
    <2>4. PICK m \in Nat : /\ DOMAIN Parameters(ps) = 1 .. m
                           /\ \A i \in 1 .. m : \E j \in 1 .. Len(ps) :
                                 ps[j] # <<>> /\ Parameters(ps)[i] = Parameter(ps[j])
      <3> HIDE DEF ps, A
      <3> QED BY <2>3, ParametersOf
    <2>5. ParseQuery(r.query) = Parameters(ps)
      BY <1>1 DEF ParseQuery
    <2> HIDE DEF ps
    <2>6. ASSUME NEW j \in 1 .. Len(ps), ps[j] # <<>> PROVE ~SaysEnd(Parameter(ps[j]))
      <3>1. Left(ps[j], parts, N)
        BY <2>2 DEF AllLeft
      <3>2. ASSUME NEW k \in 1 .. N - 1, ps[j] = parts[k] PROVE ~SaysEnd(Parameter(ps[j]))
        <4>1. k \in 1 .. N /\ k # N /\ k \in DOMAIN order
          <5>1. DOMAIN order = 1 .. Len(order)
            BY LenProperties
          <5> QED BY <1>2, <1>6, <5>1
        <4>2. order[k] # "end" /\ order[k] \in Keys /\ value[order[k]] \in Seq(S)
                /\ parts[k] = PartFor(order[k], value[order[k]])
          BY <1>1, <1>2, <4>1
        <4>3. Parameter(parts[k]).key = <<order[k]>>
          BY <4>2, PartSays
        <4>4. <<order[k]>> # <<"end">>
          BY <4>2
        <4> QED BY <3>2, <4>3, <4>4 DEF SaysEnd
      <3>3. ASSUME NEW k \in 1 .. N, Begins(ps[j], parts[k]) PROVE ~SaysEnd(Parameter(ps[j]))
        <4> DEFINE key == order[k]
                   v == value[order[k]]
                   x == parts[k]
                   y == ps[j]
        <4>1. key \in Keys /\ v \in Seq(S) /\ x = PartFor(key, v) /\ Begins(y, x) /\ y # <<>>
          BY <1>2, <2>6, <3>3
        <4>2. key = "end" => v = <<"1">>
          BY <1>1
        <4> HIDE DEF key, v, x
        <4>3. ~SaysEnd(Parameter(y))
          <5> HIDE DEF y
          <5> QED BY <4>1, <4>2, CutPart
        <4> QED BY <4>3
      <3> QED BY <3>1, <3>2, <3>3 DEF Left
    <2>7. \A i \in 1 .. m : ~SaysEnd(Parameters(ps)[i])
      <3> SUFFICES ASSUME NEW i \in 1 .. m PROVE ~SaysEnd(Parameters(ps)[i])
        OBVIOUS
      <3>1. PICK j \in 1 .. Len(ps) : ps[j] # <<>> /\ Parameters(ps)[i] = Parameter(ps[j])
        BY <2>4
      <3> QED BY <2>6, <3>1
    <2> QED BY <2>4, <2>5, <2>7 DEF LostEnd
  <1> QED BY <1>7, <1>8

-----------------------------------------------------------------------------
(* What is admitted                                                         *)

\* The characters of what the upstream gets for a text over S.
Inputs(S) == S \cup {"a", "<thi", "-", ".", " ", "?", "/"}

\* What it gets for one character.
LEMMA ShownInput ==
    ASSUME NEW S, NEW c \in S
    PROVE  Shown(c, "input") \in Seq(Inputs(S))
  <1> DEFINE P == Inputs(S)
  <1>1. c \in P /\ "a" \in P /\ "<thi" \in P /\ "-" \in P /\ "." \in P /\ " " \in P /\ "?" \in P /\ "/" \in P
    BY DEF Inputs
  <1>2. /\ <<"a">> \in Seq(P) /\ <<"a", "a">> \in Seq(P) /\ <<"-">> \in Seq(P)
        /\ <<".", ".", ".">> \in Seq(P) /\ <<" ">> \in Seq(P) /\ <<"?">> \in Seq(P)
        /\ <<"/">> \in Seq(P) /\ <<"<thi">> \in Seq(P) /\ <<c>> \in Seq(P)
    <2> HIDE DEF P
    <2> QED BY <1>1, ShortSeqs
  <1>3. Shown(c, "input") \in
            {<<"a">>, <<"a", "a">>, <<"-">>, <<".", ".", ".">>, <<" ">>, <<"?">>, <<"/">>,
              <<"<thi">>, <<c>>}
    <2>1. "input" # "output"
      OBVIOUS
    <2> QED BY <2>1 DEF Shown, Ellipsis
  <1> HIDE DEF P
  <1>4. Shown(c, "input") \in Seq(P)
    BY <1>2, <1>3
  <1> QED BY <1>4 DEF P

\* So it has a length.
LEMMA InputType ==
    ASSUME NEW S, NEW s \in Seq(S)
    PROVE  SanitizeInput(s) \in Seq(Inputs(S))
  <1> DEFINE x == StripThink(s)
             n == Len(x)
             ss == [i \in DOMAIN x |-> Shown(x[i], "input")]
             P == Inputs(S)
             A == Seq(P)
  <1>1. x \in Seq(S)
    BY StripThinkType
  <1> HIDE DEF x
  <1>2. n \in Nat /\ DOMAIN x = 1 .. n /\ \A i \in 1 .. n : x[i] \in S
    BY <1>1, LenProperties, ElementOfSeq
  <1>3. ss \in Seq(A)
    <2>1. \A i \in 1 .. n : Shown(x[i], "input") \in A
      BY <1>2, ShownInput
    <2>2. ss = [i \in 1 .. n |-> Shown(x[i], "input")]
      BY <1>2
    <2> HIDE DEF A, n, ss
    <2>3. ss \in [1 .. n -> A]
      BY <2>1, <2>2
    <2> QED BY <1>2, <2>3
  <1> HIDE DEF P
  <1>4. PICK f : f \in [0 .. Len(ss) -> Seq(P)] /\ FlattenSeq(ss) = f[Len(ss)]
    <2> HIDE DEF ss
    <2> QED BY <1>3, FlattenOfPieces
  <1>5. FlattenSeq(ss) \in Seq(P)
    <2> HIDE DEF ss
    <2>1. Len(ss) \in 0 .. Len(ss)
      BY <1>3, LenProperties
    <2> QED BY <1>4, <2>1
  <1>6. SanitizeInput(s) = Collapse(FlattenSeq(ss))
    BY DEF SanitizeInput, Clean, x
  <1> HIDE DEF ss
  <1>7. Collapse(FlattenSeq(ss)) \in Seq(P)
    BY <1>5, CollapseTidies
  <1> QED BY <1>6, <1>7 DEF P

\* A request that is admitted is whole, and a talk has a message that is not too
\* long.
LEMMA AdmittedChecks ==
    ASSUME NEW q, Admitted(q)
    PROVE  ~Truncated(q) /\ (q.op = "talk" => Message(q) # <<>> /\ ~(Len(Message(q)) > MaxMsg))
  <1>1. \A i \in DOMAIN Checks(q) : ~Checks(q)[i][1]
    BY DEF Admitted, Failing
  <1>2. CASE q.api = "v1"
    <2>1. Checks(q) = V1Checks(q)
      BY <1>2 DEF Checks
    <2>2. /\ DOMAIN V1Checks(q) = 1 .. 8
          /\ V1Checks(q)[3][1] = Truncated(q)
          /\ V1Checks(q)[7][1] = (q.op = "talk" /\ Message(q) = <<>>)
          /\ V1Checks(q)[8][1] = (q.op = "talk" /\ Len(Message(q)) > MaxMsg)
      BY DEF V1Checks
    <2>3. 3 \in 1 .. 8 /\ 7 \in 1 .. 8 /\ 8 \in 1 .. 8
      OBVIOUS
    <2> QED BY <1>1, <2>1, <2>2, <2>3, Zenon
  <1>3. CASE q.api # "v1"
    <2>1. Checks(q) = V2Checks(q)
      BY <1>3 DEF Checks
    <2>2. /\ DOMAIN V2Checks(q) = 1 .. 13
          /\ V2Checks(q)[2][1] = Truncated(q)
          /\ V2Checks(q)[10][1] = (q.op = "talk" /\ Message(q) = <<>>)
          /\ V2Checks(q)[11][1] = (q.op = "talk" /\ Len(Message(q)) > MaxMsg)
      BY DEF V2Checks
    <2>3. 2 \in 1 .. 13 /\ 10 \in 1 .. 13 /\ 11 \in 1 .. 13
      OBVIOUS
    <2> QED BY <1>1, <2>1, <2>2, <2>3, Zenon
  <1> QED BY <1>2, <1>3

\* A parameter is not there, or it is one of those that were read.
LEMMA ParamIs ==
    ASSUME NEW q, NEW m \in Nat, DOMAIN q.params = 1 .. m, NEW key
    PROVE  \/ Param(q, key) = <<"none">>
           \/ \E i \in 1 .. m : q.params[i].key = <<key>> /\ Param(q, key) = q.params[i].val
  <1> DEFINE has == {i \in DOMAIN q.params : q.params[i].key = <<key>>}
  <1>1. has \in SUBSET (0 .. m) /\ has \subseteq 1 .. m
    OBVIOUS
  <1>2. Param(q, key) = IF has = {} THEN <<"none">> ELSE q.params[Min(has)].val
    BY DEF Param
  <1>3. CASE has = {}
    BY <1>2, <1>3
  <1>4. CASE has # {}
    <2>1. Min(has) \in has
      <3> HIDE DEF has
      <3>1. PICK k \in has : \A i \in has : k <= i
        BY <1>1, <1>4, LeastOf
      <3> QED BY <3>1 DEF Min
    <2>2. Min(has) \in 1 .. m /\ q.params[Min(has)].key = <<key>>
      <3> DEFINE k == Min(has)
      <3>1. k \in has
        BY <2>1
      <3> HIDE DEF k
      <3> QED BY <1>1, <3>1 DEF k
    <2>3. Param(q, key) = q.params[Min(has)].val
      BY <1>2, <1>4
    <2> HIDE DEF has
    <2> QED BY <2>2, <2>3
  <1> QED BY <1>3, <1>4

\* q is what was read of r.
IsReadOf(q, r) == q.params = ParseQuery(r.query) /\ q.meant = r.meant /\ q.said = r.said

\* What was read says what the engine put into the URL.
MeansIt(q) ==
    /\ \A i \in DOMAIN q.params, key \in DOMAIN q.meant :
           q.params[i].key = <<key>> => q.params[i].val = q.meant[key]
    /\ q.op = "talk" => /\ Message(q) = SanitizeInput(q.said)
                        /\ Len(Message(q)) \in 1 .. MaxMsg

\* A request that lost its end is refused, and the others say it.
LEMMA AdmittedMeansIt ==
    ASSUME NEW S, NEW order \in Seq(Keys), NEW value \in [Keys -> Seq(S)], NEW n, NEW r,
           OfTheMod(r, order, value, n), NEW q, IsReadOf(q, r), Admitted(q)
    PROVE  MeansIt(q)
  <1>1. ~LostEnd(r.query)
    <2> SUFFICES ASSUME LostEnd(r.query) PROVE FALSE
      OBVIOUS
    <2>1. PICK m \in Nat : DOMAIN q.params = 1 .. m /\ \A i \in 1 .. m : ~SaysEnd(q.params[i])
      BY DEF LostEnd, IsReadOf
    <2>2. Param(q, "end") = <<"1">>
      BY AdmittedChecks DEF Truncated
    <2>3. <<"none">> # <<"1">>
      OBVIOUS
    <2>4. PICK i \in 1 .. m : q.params[i].key = <<"end">> /\ Param(q, "end") = q.params[i].val
      BY <2>1, <2>2, <2>3, ParamIs
    <2> QED BY <2>1, <2>2, <2>4 DEF SaysEnd
  <1>2. SaysAll(r.query, order, value)
    BY <1>1, QueryIsRead
  <1> DEFINE m == Len(order)
  <1>3. m \in Nat /\ DOMAIN order = 1 .. m /\ \A i \in 1 .. m : order[i] \in Keys
    BY LenProperties, ElementOfSeq
  <1> HIDE DEF m
  <1>4. /\ DOMAIN q.params = 1 .. m
        /\ \A i \in 1 .. m : q.params[i].key = <<order[i]>> /\ q.params[i].val = value[order[i]]
    <2>1. q.params = [i \in 1 .. m |-> [key |-> <<order[i]>>, val |-> value[order[i]]]]
      BY <1>2, <1>3 DEF SaysAll, IsReadOf
    <2> QED BY <2>1
  <1>5. \A i \in 1 .. m : \A key : q.params[i].key = <<key>> => q.params[i].val = value[key]
    <2> SUFFICES ASSUME NEW i \in 1 .. m, NEW key, q.params[i].key = <<key>>
                 PROVE  q.params[i].val = value[key]
      OBVIOUS
    <2>1. <<order[i]>> = <<key>>
      BY <1>4
    <2>2. order[i] = key
      BY <2>1
    <2> QED BY <1>4, <2>2
  <1>6. ASSUME NEW i \in DOMAIN q.params, NEW key \in DOMAIN q.meant, q.params[i].key = <<key>>
        PROVE  q.params[i].val = q.meant[key]
    <2>1. q.meant[key] = value[key]
      BY DEF OfTheMod, IsReadOf
    <2> QED BY <1>4, <1>5, <1>6, <2>1
  <1>7. ASSUME q.op = "talk" PROVE Message(q) = SanitizeInput(q.said)
                                     /\ Len(Message(q)) \in 1 .. MaxMsg
    <2>1. Message(q) # <<>> /\ ~(Len(Message(q)) > MaxMsg)
      BY <1>7, AdmittedChecks
    <2>2. Param(q, "msg") # <<"none">> /\ Message(q) = SanitizeInput(Param(q, "msg"))
      BY <2>1 DEF Message
    <2>3. PICK i \in 1 .. m : q.params[i].key = <<"msg">> /\ Param(q, "msg") = q.params[i].val
      <3>1. \/ Param(q, "msg") = <<"none">>
            \/ \E i \in 1 .. m : q.params[i].key = <<"msg">> /\ Param(q, "msg") = q.params[i].val
        <4>1. m \in Nat /\ DOMAIN q.params = 1 .. m
          BY <1>3, <1>4
        <4> QED BY <4>1, ParamIs
      <3> QED BY <2>2, <3>1, Zenon
    <2>4. Param(q, "msg") = value["msg"] /\ q.said = value["msg"]
      BY <1>5, <2>3 DEF OfTheMod, IsReadOf
    <2>5. value["msg"] \in Seq(S)
      BY DEF Keys
    <2> DEFINE x == Message(q)
    <2>6. x \in Seq(Inputs(S))
      BY <2>2, <2>4, <2>5, InputType
    <2> HIDE DEF x
    <2>7. Len(x) \in Nat /\ Len(x) # 0
      BY <2>1, <2>6, LenProperties, EmptySeq DEF x
    <2>8. Len(x) \in 1 .. MaxMsg
      BY <2>1, <2>7, MessageAssumption DEF x
    <2> QED BY <2>2, <2>4, <2>8 DEF x
  <1> QED BY <1>6, <1>7 DEF MeansIt

\* Until it is admitted, a request is what came and then what was read of it.
AdmissionInv ==
    /\ at = "sent" => request \in Requests
    /\ at \in {"arrived", "admitted"} => \E r \in Requests : IsReadOf(request, r)
    /\ at = "admitted" => Admitted(request)

\* Every step keeps that.
LEMMA AdmissionStep == AdmissionInv /\ [Next]_vars => AdmissionInv'
  <1> SUFFICES ASSUME AdmissionInv, [Next]_vars PROVE AdmissionInv'
    OBVIOUS
  <1> DEFINE later == {"pending", "generating", "document", "made", "kept", "answered"}
  <1>1. at' \in later => AdmissionInv'
    BY DEF AdmissionInv
  <1>2. CASE Receives
    BY <1>2 DEF Receives, wireVars, AdmissionInv
  <1>3. CASE Arrives
    <2>1. request \in Requests
      BY <1>3 DEF Arrives, Received, AdmissionInv
    <2>2. at' = "arrived" /\ IsReadOf(request', request)
      BY <1>3 DEF Arrives, Received, IsReadOf
    <2> QED BY <2>1, <2>2 DEF AdmissionInv
  <1>4. CASE Admit
    <2>1. at = "arrived" /\ Admitted(request) /\ at' = "admitted" /\ request' = request
      BY <1>4 DEF Admit
    <2>2. Admitted(request)'
      BY <2>1
    <2> QED BY <2>1, <2>2 DEF AdmissionInv
  <1>5. CASE Garbled \/ Refuse \/ Submit \/ Generate \/ Completes \/ Collect \/ Respond
    <2>1. at' \in later
      BY <1>5 DEF Garbled, Received, Refuse, Submit, Generate, Completes, Collect, Respond
    <2> QED BY <1>1, <2>1
  <1>6. CASE Read
    BY <1>6, <1>1 DEF Read, wireVars
  <1>7. CASE ReadsDocument \/ ReadsNoDocument
    <2>1. at' \in later
      BY <1>7 DEF ReadsDocument, ReadsNoDocument, Done
    <2> QED BY <1>1, <2>1
  <1>8. CASE UNCHANGED vars
    BY <1>8 DEF vars, wireVars, AdmissionInv
  <1> QED BY <1>2, <1>3, <1>4, <1>5, <1>6, <1>7, <1>8 DEF Next

\* AdmittedIsWhatWasMeant, when every request is one of the mod, of which any
\* beginning may be all that comes: only what the engine put into the URL, in
\* ASCII, is admitted (parse_query, parse_v1, living::parse).
THEOREM OnlyTheMeantIsAdmitted ==
    ASSUME NEW S,
           \A r \in Requests : \E order \in Seq(Keys), value \in [Keys -> Seq(S)], n \in Nat :
               OfTheMod(r, order, value, n)
    PROVE  Spec => []AdmittedIsWhatWasMeant
  <1>1. Init => AdmissionInv
    BY DEF Init, AdmissionInv
  <1>2. AdmissionInv /\ [Next]_vars => AdmissionInv'
    BY AdmissionStep
  <1>3. AdmissionInv => AdmittedIsWhatWasMeant
    <2> SUFFICES ASSUME AdmissionInv, at = "admitted" PROVE MeansIt(request)
      BY DEF AdmittedIsWhatWasMeant, MeansIt
    <2>1. PICK r \in Requests : IsReadOf(request, r)
      BY DEF AdmissionInv
    <2>2. PICK order \in Seq(Keys), value \in [Keys -> Seq(S)], n \in Nat : OfTheMod(r, order, value, n)
      BY <2>1
    <2>3. Admitted(request)
      BY DEF AdmissionInv
    <2> QED BY <2>1, <2>2, <2>3, AdmittedMeansIt
  <1> QED BY <1>1, <1>2, <1>3, PTL DEF Spec
=============================================================================
